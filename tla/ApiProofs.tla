----------------------------- MODULE ApiProofs -----------------------------
(***************************************************************************)
(* Proofs about Api, for any number of requests and any set of responses:  *)
(* each request has one callback called, what a caller is told is what the *)
(* whole response says, however it was cut into fragments, and only such   *)
(* an answer ends the account's connection for good.                       *)
(***************************************************************************)
EXTENDS Api, SequenceTheorems, WellFoundedInduction, TLAPS

-----------------------------------------------------------------------------
(* What a callback does.                                                    *)

\* The first error counts, and only a refusal or a success may be final; the
\* room's slot is left alone or emptied.
Reports(a) ==
  /\ \/ UNCHANGED gc
     \/ /\ gc = "up" /\ gc' \in {"closing", "dying"}
        /\ gc' = "dying" => a.by = "ok" \/ (a.by = "bad" /\ Fatal(a.code))
  /\ slot' = slot \/ slot' = None

LEMMA CallReports ==
  ASSUME NEW k, NEW a, Call(k, a)
  PROVE  told' = a /\ Reports(a)
BY DEF Call, ErrorCallback, BadCallback, OkCallback, Emptied, ApiError, ApiBadResponse,
       Report, Quiet, Reports

-----------------------------------------------------------------------------
(* Types.                                                                   *)

LEMMA AnswersTyped ==
  /\ Failure \in Answers /\ Failure.by = "error"
  /\ Cancelled \in Answers /\ Cancelled.by = "cancelled"
  /\ \A by \in {"bad", "ok"}, code \in Nat, json \in BOOLEAN, body \in Text :
       /\ Answer(by, code, json, body) \in Answers
       /\ Answer(by, code, json, body).by = by /\ Answer(by, code, json, body).code = code
<1>1. << >> \in Text
  BY DEF Text
<1> QED
  BY <1>1 DEF Failure, Cancelled, Answer, Answers

LEMMA ParserTyped ==
  /\ NewParser \in Parser /\ NoResponse \in Response
  /\ \A d \in Parser : Completed(d) \in Parser /\ Completed(d).got = d.got
  /\ \A d \in Parser, at \in Text : FieldRead(d, at) \in Parser /\ BodyRead(d, at) \in Parser
<1>1. /\ << >> \in Text /\ << >> \in Seq(Text) /\ << >> \in Seq(Header)
      /\ \A s, t \in Text : s \o t \in Text
  BY DEF Text
<1>2. NewParser \in Parser
  BY <1>1 DEF NewParser, Parser
<1>3. NoResponse \in Response
  BY <1>1 DEF NoResponse, Response
<1>4. \A d \in Parser : Completed(d) \in Parser /\ Completed(d).got = d.got
  BY DEF Parser, Completed
<1>5. ASSUME NEW d \in Parser, NEW at \in Text PROVE FieldRead(d, at) \in Parser
  <2>1. Completed(d) \in Parser
    BY <1>4
  <2>2. [Completed(d) EXCEPT !.name = at, !.value = << >>, !.last = "field"] \in Parser
    BY <1>1, <2>1 DEF Parser
  <2>3. d.name \o at \in Text
    BY <1>1 DEF Parser
  <2>4. [d EXCEPT !.name = @ \o at] \in Parser
    BY <2>3 DEF Parser
  <2> QED
    BY <2>2, <2>4 DEF FieldRead
<1>6. ASSUME NEW d \in Parser, NEW at \in Text PROVE BodyRead(d, at) \in Parser
  <2>1. d.body \o at \in Text
    BY <1>1 DEF Parser
  <2> QED
    BY <2>1 DEF Parser, BodyRead
<1> QED
  BY <1>2, <1>3, <1>4, <1>5, <1>6

RequestTyped(q) ==
  /\ q \in [at : Ats, kind : Kinds \cup {None}, calls : Nat]
  /\ q.at # "free" => q.kind \in Kinds

LEMMA RequestsTyped ==
  /\ RequestTyped(Free)
  /\ \A k \in Kinds : RequestTyped(Fresh(k)) /\ Fresh(k).calls = 0 /\ Fresh(k).at = "waiting"
  /\ \A q : RequestTyped(q) /\ q.at # "free" =>
       /\ RequestTyped(Answered(q)) /\ RequestTyped([q EXCEPT !.at = "abandoned"])
       /\ RequestTyped(CalledAgain(q)) /\ CalledAgain(q).at = "twice"
       /\ Answered(q).at = "answered" /\ Answered(q).calls = q.calls + 1
       /\ [q EXCEPT !.at = "abandoned"].at = "abandoned"
       /\ [q EXCEPT !.at = "abandoned"].calls = q.calls
<1>1. RequestTyped(Free)
  BY DEF RequestTyped, Free, Ats
<1>2. \A k \in Kinds : RequestTyped(Fresh(k)) /\ Fresh(k).calls = 0 /\ Fresh(k).at = "waiting"
  BY DEF RequestTyped, Fresh, Ats
<1>3. ASSUME NEW q, RequestTyped(q), q.at # "free"
      PROVE  /\ RequestTyped(Answered(q)) /\ RequestTyped([q EXCEPT !.at = "abandoned"])
             /\ RequestTyped(CalledAgain(q)) /\ CalledAgain(q).at = "twice"
             /\ Answered(q).at = "answered" /\ Answered(q).calls = q.calls + 1
             /\ [q EXCEPT !.at = "abandoned"].at = "abandoned"
             /\ [q EXCEPT !.at = "abandoned"].calls = q.calls
  <2> DEFINE kinds == Kinds \cup {None}
  <2>1. q \in [at : Ats, kind : kinds, calls : Nat] /\ q.kind \in Kinds
    BY <1>3 DEF RequestTyped
  <2>2. "answered" \in Ats /\ "abandoned" \in Ats /\ "twice" \in Ats
    BY DEF Ats
  <2>3. /\ Answered(q) = [q EXCEPT !.at = "answered", !.calls = q.calls + 1]
        /\ CalledAgain(q) = [q EXCEPT !.at = "twice", !.calls = q.calls + 1]
    BY DEF Answered, CalledAgain
  <2> HIDE DEF kinds
  <2>4. q.calls + 1 \in Nat
    BY <2>1
  <2>5. /\ Answered(q) \in [at : Ats, kind : kinds, calls : Nat]
        /\ Answered(q).at = "answered" /\ Answered(q).calls = q.calls + 1
        /\ Answered(q).kind = q.kind
    BY <2>1, <2>2, <2>3, <2>4
  <2>6. /\ [q EXCEPT !.at = "abandoned"] \in [at : Ats, kind : kinds, calls : Nat]
        /\ [q EXCEPT !.at = "abandoned"].at = "abandoned"
        /\ [q EXCEPT !.at = "abandoned"].calls = q.calls
        /\ [q EXCEPT !.at = "abandoned"].kind = q.kind
    BY <2>1, <2>2
  <2>7. /\ CalledAgain(q) \in [at : Ats, kind : kinds, calls : Nat]
        /\ CalledAgain(q).at = "twice" /\ CalledAgain(q).kind = q.kind
    BY <2>1, <2>2, <2>3, <2>4
  <2> QED
    BY <2>1, <2>5, <2>6, <2>7 DEF RequestTyped, kinds
<1> QED
  BY <1>1, <1>2, <1>3

\* The fragments left, once one of a header's name or value is read.
LEMMA FragmentsTyped ==
  ASSUME NEW x \in Response, x.headers # << >>
  PROVE  /\ x.headers[1] \in Header /\ Tail(x.headers) \in Seq(Header)
         /\ x.headers[1].name # << >> =>
              /\ Head(x.headers[1].name) \in Text
              /\ [x EXCEPT !.headers[1].name = Tail(@)] \in Response
         /\ Head(x.headers[1].value) \in Text
         /\ Len(x.headers[1].value) # 1 => [x EXCEPT !.headers[1].value = Tail(@)] \in Response
<1> DEFINE h == x.headers[1]
<1>1. x.headers \in Seq(Header)
  BY DEF Response
<1>2. h \in Header /\ Tail(x.headers) \in Seq(Header) /\ 1 \in DOMAIN x.headers
  BY <1>1
<1>3. ASSUME NEW g \in Header PROVE [x.headers EXCEPT ![1] = g] \in Seq(Header)
  BY <1>1, <1>2
<1>4. ASSUME h.name # << >>
      PROVE  /\ Head(h.name) \in Text
             /\ [x EXCEPT !.headers[1].name = Tail(@)] \in Response
  <2>1. h.name \in Seq(Text) /\ Head(h.name) \in Text /\ Tail(h.name) \in Seq(Text)
    BY <1>2, <1>4 DEF Header
  <2>2. [h EXCEPT !.name = Tail(@)] \in Header
    BY <1>2, <2>1 DEF Header
  <2>3. [x.headers EXCEPT ![1] = [h EXCEPT !.name = Tail(@)]] \in Seq(Header)
    BY <1>3, <2>2
  <2> QED
    BY <2>1, <2>3 DEF Response
<1>5. h.value \in Seq(Text) /\ h.value # << >> /\ Head(h.value) \in Text
  BY <1>2 DEF Header
<1>6. ASSUME Len(h.value) # 1
      PROVE  [x EXCEPT !.headers[1].value = Tail(@)] \in Response
  <2>1. Tail(h.value) \in Seq(Text) /\ Tail(h.value) # << >>
    <3> DEFINE v == h.value
    <3>1. v \in Seq(Text) /\ v # << >> /\ Len(v) # 1
      BY <1>5, <1>6
    <3> HIDE DEF v
    <3>2. Tail(v) \in Seq(Text) /\ Len(Tail(v)) = Len(v) - 1
      BY <3>1, HeadTailProperties
    <3>3. Len(v) - 1 # 0
      BY <3>1
    <3> QED
      BY <3>2, <3>3 DEF v
  <2>2. [h EXCEPT !.value = Tail(@)] \in Header
    BY <1>2, <2>1 DEF Header
  <2>3. [x.headers EXCEPT ![1] = [h EXCEPT !.value = Tail(@)]] \in Seq(Header)
    BY <1>3, <2>2
  <2> QED
    BY <2>3 DEF Response
<1> QED
  BY <1>2, <1>4, <1>5, <1>6

\* TypeOK, a request at a time.
ReqsTyped  == reqs = [r \in Requests |-> reqs[r]] /\ \A r \in Requests : RequestTyped(reqs[r])
ParseTyped ==
  /\ parsing \in Requests \cup {None}
  /\ parsing # None => gc # "gone" /\ reqs[parsing].at = "waiting"
  /\ left \in Response /\ whole \in Response /\ p \in Parser
ToldTyped ==
  /\ gc \in Links /\ told \in Answers \cup {None}
  /\ starts \in 0..MaxStarts

SlotTyped == slot \in Requests \cup {None} /\ (slot # None => reqs[slot].at # "free")

LEMMA TypeParts == TypeOK <=> ReqsTyped /\ ParseTyped /\ ToldTyped /\ SlotTyped
BY DEF TypeOK, ReqsTyped, ParseTyped, ToldTyped, SlotTyped, RequestTyped

\* No address is ever forgotten, and the slot has one or none.
LEMMA SlotKept ==
  ASSUME SlotTyped, slot' = slot \/ slot' = None,
         \A r \in Requests : reqs[r].at # "free" => reqs'[r].at # "free"
  PROVE  SlotTyped'
BY DEF SlotTyped

LEMMA CallTyped ==
  ASSUME ToldTyped, NEW k, NEW a \in Answers, Call(k, a)
  PROVE  /\ gc' \in Links /\ told' \in Answers
         /\ gc' = "gone" => gc = "gone"
         /\ slot' = slot \/ slot' = None
BY CallReports DEF ToldTyped, Reports, Links

\* A request that gets its answer, whichever callback tells it.
RequestEnds(r, a) ==
  /\ reqs[r].at \in {"waiting", "abandoned"} /\ reqs' = [reqs EXCEPT ![r] = Answered(@)]
  /\ Call(reqs[r].kind, a)

LEMMA FinishEnds ==
  ASSUME TypeOK, NEW a, parsing # None, Finish(a)
  PROVE  /\ parsing \in Requests /\ RequestEnds(parsing, a)
         /\ parsing' = None /\ UNCHANGED starts
         /\ left' = NoResponse /\ whole' = NoResponse /\ p' = NewParser
BY DEF Finish, RequestEnds, TypeOK

LEMMA RequestEndsTyped ==
  ASSUME TypeOK, NEW r \in Requests, NEW a \in Answers, RequestEnds(r, a)
  PROVE  /\ ReqsTyped' /\ SlotTyped' /\ gc' \in Links /\ told' \in Answers
         /\ gc' = "gone" => gc = "gone"
<1>1. ReqsTyped /\ ToldTyped /\ SlotTyped
  BY TypeParts
<1>2. RequestTyped(Answered(reqs[r])) /\ Answered(reqs[r]).at = "answered"
  BY <1>1, RequestsTyped DEF ReqsTyped, RequestEnds
<1>3. ReqsTyped' /\ \A q \in Requests : reqs[q].at # "free" => reqs'[q].at # "free"
  BY <1>1, <1>2 DEF ReqsTyped, RequestEnds
<1> QED
  BY <1>1, <1>3, SlotKept, CallTyped DEF RequestEnds

\* The last callback of http_parser, however it ends.
Dies     == gc' = "dead" /\ UNCHANGED <<reqs, slot, parseVars, told, starts>>
Finishes ==
  \E a \in Answers : Finish(a) /\ (a.by \in {"error", "ok"} \/ (a.by = "bad" /\ a.code >= 300))

LEMMA MessageEnds ==
  ASSUME TypeOK, StopsShort \/ HandleMessageComplete
  PROVE  parsing # None /\ gc # "dead" /\ (Dies \/ Finishes)
<1>1. CASE StopsShort
  BY <1>1, AnswersTyped DEF StopsShort, InParser, Finishes
<1>2. CASE HandleMessageComplete
  <2>1. parsing # None /\ gc # "dead"
    BY <1>2 DEF HandleMessageComplete, AtEnd, InParser
  <2>2. CASE NoReason(p)
    BY <1>2, <2>1, <2>2 DEF HandleMessageComplete, Dies
  <2>3. CASE ~NoReason(p) /\ ~Usable(p)
    BY <1>2, <2>1, <2>3, AnswersTyped DEF HandleMessageComplete, Finishes
  <2>4. CASE ~NoReason(p) /\ Usable(p)
    <3> DEFINE by == IF whole.code >= 300 THEN "bad" ELSE "ok"
               js == p.ctype = Json
               a  == Answer(by, whole.code, js, p.body)
    <3>1. whole.code \in Nat /\ p.body \in Text
      BY DEF TypeOK, Response, Parser
    <3>2. js \in BOOLEAN /\ by \in {"bad", "ok"}
      OBVIOUS
    <3>3. a \in Answers /\ a.by = by /\ a.code = whole.code
      <4> HIDE DEF by, js
      <4> QED
        BY <3>1, <3>2, AnswersTyped
    <3>4. Finish(a)
      BY <1>2, <2>4 DEF HandleMessageComplete
    <3>5. by = "bad" => whole.code >= 300
      OBVIOUS
    <3> HIDE DEF by, a
    <3> QED
      BY <2>1, <3>2, <3>3, <3>4, <3>5 DEF Finishes
  <2> QED
    BY <2>2, <2>3, <2>4
<1> QED
  BY <1>1, <1>2

\* matrix_api_cancel, as it finds the slot.
Cancels ==
  /\ ~Stale /\ reqs' = [reqs EXCEPT ![slot] = Answered(@)]
  /\ Call(reqs[slot].kind, Cancelled) /\ UNCHANGED <<parseVars, starts>>
CallsAgain ==
  /\ Unused(slot) /\ reqs' = [reqs EXCEPT ![slot] = CalledAgain(@)]
  /\ slot' = None /\ told' = Cancelled /\ UNCHANGED <<gc, parseVars, starts>>

LEMMA CancelCases == Cancel => Cancels \/ Dies \/ CallsAgain
BY DEF Cancel, Cancels, Dies, CallsAgain

LEMMA CancelsEnds == Cancels => RequestEnds(slot, Cancelled)
BY DEF Cancels, Stale, Unused, RequestEnds

LEMMA InitTyped == Init => TypeOK
<1> SUFFICES ASSUME Init PROVE ReqsTyped /\ ParseTyped /\ ToldTyped /\ SlotTyped
  BY TypeParts
<1>1. ReqsTyped
  BY RequestsTyped DEF Init, ReqsTyped
<1>2. ParseTyped
  BY ParserTyped DEF Init, ParseTyped
<1>3. ToldTyped /\ SlotTyped
  BY NoneIsApart DEF Init, ToldTyped, SlotTyped, Links
<1> QED
  BY <1>1, <1>2, <1>3

LEMMA StepTyped == TypeOK /\ [Next]_vars => TypeOK'
<1> SUFFICES ASSUME TypeOK, [Next]_vars
             PROVE  ReqsTyped' /\ ParseTyped' /\ ToldTyped' /\ SlotTyped'
  <2>1. ReqsTyped' /\ ParseTyped' /\ ToldTyped' /\ SlotTyped' => TypeOK'
    BY DEF TypeOK, ReqsTyped, ParseTyped, ToldTyped, SlotTyped, RequestTyped
  <2> QED
    BY <2>1
<1> DEFINE Goal == ReqsTyped' /\ ParseTyped' /\ ToldTyped' /\ SlotTyped'
<1>0. ReqsTyped /\ ParseTyped /\ ToldTyped /\ SlotTyped
  BY TypeParts
<1>s. UNCHANGED <<reqs, slot>> => SlotTyped'
  BY <1>0 DEF SlotTyped
<1>1. ASSUME NEW r \in Requests, NEW k \in Kinds, Start(r, k) PROVE Goal
  <2>1. /\ reqs' = [reqs EXCEPT ![r] = Fresh(k)] /\ UNCHANGED <<gc, parseVars, told>>
        /\ parsing = None /\ (slot' = r \/ slot' = slot)
    BY <1>1 DEF Start, Idle
  <2>2. starts' \in 0..MaxStarts
    BY <1>0, <1>1, NoneIsApart DEF Start, ToldTyped
  <2>3. /\ ReqsTyped' /\ reqs'[r].at # "free"
        /\ \A q \in Requests : reqs[q].at # "free" => reqs'[q].at # "free"
    BY <1>0, <2>1, RequestsTyped DEF ReqsTyped
  <2>4. SlotTyped'
    BY <1>0, <2>1, <2>3 DEF SlotTyped
  <2> QED
    BY <1>0, <2>1, <2>2, <2>3, <2>4 DEF ParseTyped, ToldTyped, parseVars
<1>2. ASSUME NEW r \in Requests, NEW k \in Kinds, StartFails(r, k) PROVE Goal
  <2>1. /\ reqs' = [reqs EXCEPT ![r] = Answered(Fresh(k))] /\ Call(k, Failure)
        /\ UNCHANGED parseVars /\ parsing = None
    BY <1>2 DEF StartFails, Idle
  <2>2. starts' \in 0..MaxStarts
    BY <1>0, <1>2, NoneIsApart DEF StartFails, ToldTyped
  <2>3. RequestTyped(Answered(Fresh(k))) /\ Answered(Fresh(k)).at = "answered"
    BY RequestsTyped
  <2>4. ReqsTyped' /\ \A q \in Requests : reqs[q].at # "free" => reqs'[q].at # "free"
    BY <1>0, <2>1, <2>3 DEF ReqsTyped
  <2>5. gc' \in Links /\ told' \in Answers /\ (slot' = slot \/ slot' = None)
    BY <1>0, <2>1, CallTyped, AnswersTyped
  <2>6. SlotTyped'
    BY <1>0, <2>4, <2>5, SlotKept
  <2> QED
    BY <1>0, <2>1, <2>2, <2>4, <2>5, <2>6 DEF ParseTyped, ToldTyped, parseVars
<1>e. ASSUME NEW r \in Requests, NEW a \in Answers, RequestEnds(r, a), parsing = None,
             UNCHANGED <<parseVars, starts>>
      PROVE  Goal
  <2>1. ReqsTyped' /\ SlotTyped' /\ gc' \in Links /\ told' \in Answers
    BY <1>e, RequestEndsTyped
  <2> QED
    BY <1>0, <1>e, <2>1 DEF ParseTyped, ToldTyped, parseVars
<1>d. ASSUME Dies PROVE Goal
  BY <1>0, <1>d, <1>s DEF Dies, ReqsTyped, ParseTyped, ToldTyped, parseVars, Links
<1>3. ASSUME NEW r \in Requests, FetchFails(r) PROVE Goal
  BY <1>3, <1>e, AnswersTyped DEF FetchFails, RequestEnds, Idle
<1>c. CASE Cancel
  <2>1. slot \in Requests /\ reqs[slot].at # "free" /\ parsing = None
    BY <1>0, <1>c DEF Cancel, Idle, SlotTyped
  <2>2. PICK r \in Requests : r = slot
    BY <2>1
  <2>3. CASE Cancels
    <3>1. RequestEnds(r, Cancelled)
      BY <1>0, <2>2, <2>3, CancelsEnds
    <3> QED
      BY <1>e, <2>1, <2>3, <3>1, AnswersTyped DEF Cancels
  <2>4. CASE Dies
    BY <1>d, <2>4
  <2>5. CASE CallsAgain
    <3>1. /\ reqs' = [reqs EXCEPT ![r] = CalledAgain(@)] /\ slot' = None
          /\ told' = Cancelled /\ UNCHANGED <<gc, parseVars, starts>>
      BY <2>2, <2>5 DEF CallsAgain
    <3>2. RequestTyped(CalledAgain(reqs[r])) /\ CalledAgain(reqs[r]).at = "twice"
      BY <1>0, <2>1, <2>2, RequestsTyped DEF ReqsTyped
    <3>3. ReqsTyped' /\ SlotTyped'
      BY <1>0, <3>1, <3>2 DEF ReqsTyped, SlotTyped
    <3> QED
      BY <1>0, <2>1, <3>1, <3>3, AnswersTyped DEF ParseTyped, ToldTyped, parseVars
  <2> QED
    BY <1>c, <2>3, <2>4, <2>5, CancelCases
<1>4. CASE Close
  <2>1. /\ gc' = "gone" /\ parsing = None /\ UNCHANGED <<slot, parseVars, told, starts>>
        /\ reqs' = [r \in Requests |->
                      IF reqs[r].at # "waiting" THEN reqs[r]
                      ELSE IF reqs[r].kind = "sync" THEN Answered(reqs[r])
                      ELSE [reqs[r] EXCEPT !.at = "abandoned"]]
    BY <1>4 DEF Close, Idle
  <2>2. ReqsTyped' /\ \A q \in Requests : reqs[q].at # "free" => reqs'[q].at # "free"
    BY <1>0, <2>1, RequestsTyped DEF ReqsTyped
  <2>3. SlotTyped'
    BY <1>0, <2>1, <2>2, SlotKept
  <2> QED
    BY <1>0, <2>1, <2>2, <2>3 DEF ParseTyped, ToldTyped, parseVars, Links
<1>5. CASE Reconnect
  BY <1>0, <1>5, <1>s DEF Reconnect, ReqsTyped, ParseTyped, ToldTyped, parseVars, Links
<1>6. ASSUME NEW r \in Requests, ResponseArrives(r) PROVE Goal
  <2>1. /\ UNCHANGED <<gc, reqs, slot, starts>> /\ told' = None /\ gc # "gone"
        /\ parsing' = r /\ reqs[r].at = "waiting" /\ p' = NewParser
        /\ whole' \in Response /\ left' \in Response
    BY <1>6, ResponsesTyped DEF ResponseArrives, Idle, Alive
  <2> QED
    BY <1>0, <2>1, ParserTyped DEF ReqsTyped, ParseTyped, ToldTyped, SlotTyped
<1>7. CASE HandleHeaderField
  <2>1. /\ UNCHANGED <<gc, reqs, slot, parsing, whole, told, starts>> /\ left.headers # << >>
        /\ left.headers[1].name # << >>
        /\ left' = [left EXCEPT !.headers[1].name = Tail(@)]
        /\ p' = FieldRead(p, Head(left.headers[1].name))
    BY <1>7 DEF HandleHeaderField
  <2>2. left' \in Response /\ p' \in Parser
    BY <1>0, <2>1, FragmentsTyped, ParserTyped DEF ParseTyped
  <2> QED
    BY <1>0, <2>1, <2>2 DEF ReqsTyped, ParseTyped, ToldTyped, SlotTyped
<1>8. CASE HandleHeaderValue
  <2> DEFINE v == left.headers[1].value
  <2>1. /\ UNCHANGED <<gc, reqs, slot, parsing, whole, told, starts>> /\ left.headers # << >>
        /\ p' = [p EXCEPT !.value = @ \o Head(v), !.last = "value"]
        /\ left' = IF Len(v) = 1 THEN [left EXCEPT !.headers = Tail(@)]
                   ELSE [left EXCEPT !.headers[1].value = Tail(@)]
    BY <1>8 DEF HandleHeaderValue
  <2>2. /\ left \in Response /\ p \in Parser
        /\ Head(v) \in Text /\ Tail(left.headers) \in Seq(Header)
        /\ Len(v) # 1 => [left EXCEPT !.headers[1].value = Tail(@)] \in Response
    BY <1>0, <2>1, FragmentsTyped DEF ParseTyped
  <2>3. p.value \o Head(v) \in Text
    BY <2>2 DEF Parser, Text
  <2>4. p' \in Parser
    BY <2>1, <2>2, <2>3 DEF Parser
  <2>5. [left EXCEPT !.headers = Tail(@)] \in Response
    BY <2>2 DEF Response
  <2>6. left' \in Response
    BY <2>1, <2>2, <2>5
  <2> QED
    BY <1>0, <2>1, <2>4, <2>6 DEF ReqsTyped, ParseTyped, ToldTyped, SlotTyped
<1>9. CASE HandleHeadersComplete
  <2>1. /\ UNCHANGED <<gc, reqs, slot, parsing, whole, told, starts>>
        /\ p' = [Completed(p) EXCEPT !.got = TRUE]
        /\ left' = [left EXCEPT !.headers = left.trailers, !.trailers = << >>]
    BY <1>9 DEF HandleHeadersComplete
  <2>2. Completed(p) \in Parser /\ left \in Response
    BY <1>0, ParserTyped DEF ParseTyped
  <2>3. p' \in Parser
    BY <2>1, <2>2 DEF Parser
  <2>4. left' \in Response
    <3>1. left.trailers \in Seq(Header) /\ << >> \in Seq(Header)
      BY <2>2 DEF Response
    <3>2. [left EXCEPT !.headers = left.trailers] \in Response
      BY <2>2, <3>1 DEF Response
    <3>3. left' = [[left EXCEPT !.headers = left.trailers] EXCEPT !.trailers = << >>]
      BY <2>1, <2>2 DEF Response
    <3> QED
      BY <3>1, <3>2, <3>3 DEF Response
  <2> QED
    BY <1>0, <2>1, <2>3, <2>4 DEF ReqsTyped, ParseTyped, ToldTyped, SlotTyped
<1>10. CASE HandleBody
  <2>1. /\ UNCHANGED <<gc, reqs, slot, parsing, whole, told, starts>> /\ left.body # << >>
        /\ p' = BodyRead(p, Head(left.body))
        /\ left' = [left EXCEPT !.body = Tail(@)]
    BY <1>10 DEF HandleBody
  <2>2. left \in Response /\ p \in Parser
    BY <1>0 DEF ParseTyped
  <2>3. left.body \in Seq(Text)
    BY <2>2 DEF Response
  <2>4. Head(left.body) \in Text /\ Tail(left.body) \in Seq(Text)
    BY <2>1, <2>3, HeadTailProperties
  <2>5. p' \in Parser
    BY <2>1, <2>2, <2>4, ParserTyped
  <2>6. left' \in Response
    BY <2>1, <2>2, <2>4 DEF Response
  <2> QED
    BY <1>0, <2>1, <2>5, <2>6 DEF ReqsTyped, ParseTyped, ToldTyped, SlotTyped
<1>11. CASE StopsShort \/ HandleMessageComplete
  <2>1. CASE Dies
    BY <1>d, <2>1
  <2>2. ASSUME NEW a \in Answers, Finish(a) PROVE Goal
    <3>1. parsing # None
      BY <1>11, MessageEnds
    <3>2. /\ parsing \in Requests /\ RequestEnds(parsing, a)
          /\ parsing' = None /\ UNCHANGED starts
          /\ left' = NoResponse /\ whole' = NoResponse /\ p' = NewParser
      BY <2>2, <3>1, FinishEnds
    <3>3. ReqsTyped' /\ SlotTyped' /\ gc' \in Links /\ told' \in Answers
      BY <3>2, RequestEndsTyped
    <3> QED
      BY <1>0, <3>2, <3>3, ParserTyped DEF ParseTyped, ToldTyped
  <2>3. Dies \/ Finishes
    BY <1>11, MessageEnds
  <2> QED
    BY <2>1, <2>2, <2>3 DEF Finishes
<1>12. CASE UNCHANGED vars
  BY <1>0, <1>12 DEF vars, parseVars, ReqsTyped, ParseTyped, ToldTyped, SlotTyped
<1> QED
  BY <1>1, <1>2, <1>3, <1>c, <1>4, <1>5, <1>6, <1>7, <1>8, <1>9, <1>10, <1>11, <1>12 DEF Next, Parse

\* Requests, the parser's data and answers keep their types, and only a request
\* that waits is parsed: matrix_api_complete and http_parser's callbacks.
THEOREM TypeCorrect == Spec => []TypeOK
<1> QED
  BY InitTyped, StepTyped, PTL DEF Spec

-----------------------------------------------------------------------------
(* One callback for each request.                                           *)

Once(q) == q.at = "twice" \/ q.calls = IF q.at = "answered" THEN 1 ELSE 0

LEMMA OnceParts == AnsweredOnce <=> \A r \in Requests : Once(reqs[r])
BY DEF AnsweredOnce, Once

LEMMA OnceKept ==
  /\ Once(Free) /\ \A k \in Kinds : Once(Fresh(k)) /\ Once(Answered(Fresh(k)))
  /\ \A q : RequestTyped(q) /\ Once(q) /\ q.at \in {"waiting", "abandoned"} =>
       Once(Answered(q)) /\ Once([q EXCEPT !.at = "abandoned"])
<1>1. Once(Free)
  BY DEF Once, Free
<1>2. ASSUME NEW k \in Kinds PROVE Once(Fresh(k)) /\ Once(Answered(Fresh(k)))
  <2>1. RequestTyped(Fresh(k)) /\ Fresh(k).calls = 0 /\ Fresh(k).at = "waiting"
    BY RequestsTyped
  <2>2. Answered(Fresh(k)).at = "answered" /\ Answered(Fresh(k)).calls = 0 + 1
    BY <2>1, RequestsTyped
  <2> QED
    BY <2>1, <2>2 DEF Once
<1>3. ASSUME NEW q, RequestTyped(q), Once(q), q.at \in {"waiting", "abandoned"}
      PROVE  Once(Answered(q)) /\ Once([q EXCEPT !.at = "abandoned"])
  <2>1. q.calls = 0
    BY <1>3 DEF Once
  <2>2. /\ Answered(q).at = "answered" /\ Answered(q).calls = 0 + 1
        /\ [q EXCEPT !.at = "abandoned"].at = "abandoned"
        /\ [q EXCEPT !.at = "abandoned"].calls = 0
    BY <1>3, <2>1, RequestsTyped
  <2> QED
    BY <2>2 DEF Once
<1> QED
  BY <1>1, <1>2, <1>3

LEMMA EndsOnce ==
  ASSUME TypeOK, AnsweredOnce, NEW r \in Requests, NEW a, RequestEnds(r, a)
  PROVE  AnsweredOnce'
<1>1. ReqsTyped /\ reqs' = [reqs EXCEPT ![r] = Answered(@)]
      /\ reqs[r].at \in {"waiting", "abandoned"}
  BY TypeParts DEF RequestEnds
<1>2. Once(Answered(reqs[r]))
  BY <1>1, OnceParts, OnceKept DEF ReqsTyped
<1>3. \A q \in Requests : Once(reqs'[q])
  BY <1>1, <1>2, OnceParts DEF ReqsTyped
<1> QED
  BY <1>3 DEF AnsweredOnce, Once

LEMMA StepOnce == TypeOK /\ AnsweredOnce /\ [Next]_vars => AnsweredOnce'
<1> SUFFICES ASSUME TypeOK, AnsweredOnce, [Next]_vars PROVE AnsweredOnce'
  OBVIOUS
<1>0. /\ ReqsTyped /\ \A r \in Requests : RequestTyped(reqs[r]) /\ Once(reqs[r])
      /\ (\A r \in Requests : Once(reqs'[r])) => AnsweredOnce'
  BY TypeParts, OnceParts DEF ReqsTyped, AnsweredOnce, Once
<1>1. ASSUME NEW r \in Requests, NEW k \in Kinds, Start(r, k) \/ StartFails(r, k)
      PROVE  AnsweredOnce'
  <2>1. \E q : reqs' = [reqs EXCEPT ![r] = q] /\ Once(q)
    BY <1>1, OnceKept DEF Start, StartFails
  <2> QED
    BY <1>0, <2>1 DEF ReqsTyped
<1>d. ASSUME Dies PROVE AnsweredOnce'
  BY <1>0, <1>d DEF Dies
<1>2. ASSUME NEW r \in Requests, FetchFails(r) PROVE AnsweredOnce'
  <2>1. \E a : RequestEnds(r, a)
    BY <1>2 DEF FetchFails, RequestEnds
  <2> QED
    BY <2>1, EndsOnce
<1>c. CASE Cancel
  <2>1. PICK r \in Requests : r = slot /\ reqs[slot].at # "free"
    BY <1>c, TypeParts DEF Cancel, SlotTyped
  <2>2. CASE Cancels
    BY <2>1, <2>2, CancelsEnds, EndsOnce
  <2>3. CASE CallsAgain
    <3>1. reqs' = [reqs EXCEPT ![r] = CalledAgain(@)] /\ Once(CalledAgain(reqs[r]))
      BY <1>0, <2>1, <2>3, RequestsTyped DEF CallsAgain, Once
    <3> QED
      BY <1>0, <3>1 DEF ReqsTyped
  <2> QED
    BY <1>c, <1>d, <2>2, <2>3, CancelCases
<1>3. CASE Close
  <2>1. reqs' = [r \in Requests |->
                  IF reqs[r].at # "waiting" THEN reqs[r]
                  ELSE IF reqs[r].kind = "sync" THEN Answered(reqs[r])
                  ELSE [reqs[r] EXCEPT !.at = "abandoned"]]
    BY <1>3 DEF Close
  <2>2. \A r \in Requests : Once(reqs'[r])
    BY <1>0, <2>1, OnceKept
  <2> QED
    BY <1>0, <2>2
<1>4. CASE StopsShort \/ HandleMessageComplete
  <2>1. CASE Dies
    BY <1>d, <2>1
  <2>2. CASE Finishes
    <3>1. PICK a \in Answers : Finish(a)
      BY <2>2 DEF Finishes
    <3>2. parsing \in Requests /\ RequestEnds(parsing, a)
      BY <1>4, <3>1, MessageEnds, FinishEnds
    <3> QED
      BY <3>2, EndsOnce
  <2> QED
    BY <1>4, <2>1, <2>2, MessageEnds
<1>5. CASE UNCHANGED reqs
  BY <1>0, <1>5
<1>6. ASSUME NEW r \in Requests, ResponseArrives(r) PROVE AnsweredOnce'
  BY <1>5, <1>6 DEF ResponseArrives
<1>7. CASE \/ Reconnect \/ HandleHeaderField \/ HandleHeaderValue
           \/ HandleHeadersComplete \/ HandleBody \/ UNCHANGED vars
  BY <1>5, <1>7
     DEF Reconnect, HandleHeaderField, HandleHeaderValue, HandleHeadersComplete, HandleBody, vars
<1> QED
  BY <1>1, <1>2, <1>c, <1>3, <1>4, <1>6, <1>7 DEF Next, Parse

\* matrix_api_start: "In this case, the error_callback will have been called
\* already"; matrix_api_cancel, a failed fetch and matrix_api_complete: each
\* request has exactly one of its callbacks called, at most once, but for the
\* request that a stale handle in a room's slot gets called again.
THEOREM EachAnsweredOnce == Spec => []AnsweredOnce
<1>1. Init => AnsweredOnce
  BY OnceKept DEF Init, AnsweredOnce, Once
<1> QED
  BY InitTyped, StepTyped, StepOnce, <1>1, PTL DEF Spec

-----------------------------------------------------------------------------
(* Joining fragments: FlattenSeq is a recursive function, so what defines   *)
(* it is to be proved first.                                                *)

LEMMA SmallestOfSet ==
  ASSUME NEW S \in SUBSET Nat, S # {}
  PROVE  \E m \in S : \A k \in S : m <= k
<1> DEFINE R == {x \in Nat \X Nat : x[1] < x[2]}
<1>1. IsWellFoundedOn(R, Nat)
  BY NatLessThanWellFounded DEF OpToRel
<1>2. \E m \in S : \A k \in S : ~ (<<k, m>> \in R)
  <2> HIDE DEF R
  <2> QED
    BY <1>1, WFMin
<1>3. PICK m \in S : \A k \in S : ~ (<<k, m>> \in R)
  BY <1>2
<1>4. \A k \in S : ~(k < m)
  BY <1>3
<1> QED
  BY <1>4

\* f joins the first n of s, the first i of them at i.
Joins(f, s, n) ==
  f = [i \in 1..n |-> IF i = 1 THEN s[i] ELSE f[i-1] \o s[i]]

LEMMA JoinExists ==
  ASSUME NEW s, NEW n \in Nat
  PROVE  \E f : Joins(f, s, n)
<1> DEFINE T == {m \in 0..n : ~ \E f : Joins(f, s, m)}
<1> SUFFICES T = {}
  OBVIOUS
<1> SUFFICES ASSUME T # {} PROVE FALSE
  OBVIOUS
<1>1. PICK m \in T : \A k \in T : m <= k
  <2>1. T \in SUBSET Nat
    OBVIOUS
  <2> HIDE DEF T
  <2> QED
    BY <2>1, SmallestOfSet
<1>2. m # 0
  <2>1. Joins([i \in 1..0 |-> 0], s, 0)
    BY DEF Joins
  <2> QED
    BY <1>1, <2>1
<1>3. m \in 1..n /\ m - 1 \in 0..n /\ m - 1 \notin T
  BY <1>1, <1>2
<1>4. PICK f : Joins(f, s, m - 1)
  BY <1>3
<1> DEFINE last == IF m = 1 THEN s[m] ELSE f[m-1] \o s[m]
           g    == [i \in 1..m |-> IF i = m THEN last ELSE f[i]]
<1>5. \A i \in 1..m : g[i] = IF i = 1 THEN s[i] ELSE g[i-1] \o s[i]
  <2> TAKE i \in 1..m
  <2>1. CASE i = m
    BY <1>3, <2>1
  <2>2. CASE i # m
    <3>1. i \in 1..(m - 1) /\ (i # 1 => i - 1 \in 1..(m - 1) /\ i - 1 # m)
      BY <1>3, <2>2
    <3>2. f[i] = IF i = 1 THEN s[i] ELSE f[i-1] \o s[i]
      BY <1>4, <3>1 DEF Joins
    <3>3. g[i] = f[i] /\ (i # 1 => g[i-1] = f[i-1])
      <4> HIDE DEF last
      <4>1. i \in 1..m /\ (i # 1 => i - 1 \in 1..m)
        BY <1>3, <3>1
      <4> QED
        BY <2>2, <3>1, <4>1
    <3> QED
      BY <3>2, <3>3
  <2> QED
    BY <2>1, <2>2
<1>6. Joins(g, s, m)
  <2>1. g = [i \in 1..m |-> g[i]]
    <3> HIDE DEF last
    <3> QED
      OBVIOUS
  <2> HIDE DEF g
  <2> QED
    BY <1>5, <2>1 DEF Joins
<1> QED
  BY <1>1, <1>6

LEMMA FlattenJoins ==
  ASSUME NEW s, Len(s) \in Nat \ {0}
  PROVE  \E f : Joins(f, s, Len(s)) /\ FlattenSeq(s) = f[Len(s)]
<1> DEFINE F == CHOOSE f : f = [i \in 1..Len(s) |-> IF i = 1 THEN s[i] ELSE f[i-1] \o s[i]]
<1>1. \E f : f = [i \in 1..Len(s) |-> IF i = 1 THEN s[i] ELSE f[i-1] \o s[i]]
  BY JoinExists DEF Joins
<1>2. F = [i \in 1..Len(s) |-> IF i = 1 THEN s[i] ELSE F[i-1] \o s[i]]
  BY <1>1
<1>3. FlattenSeq(s) = F[Len(s)]
  BY DEF FlattenSeq
<1> HIDE DEF F
<1> QED
  BY <1>2, <1>3 DEF Joins

\* No fragments are no text; the first and what follows it are the whole.
LEMMA FlattenNothing == FlattenSeq(<< >>) = << >>
BY DEF FlattenSeq

LEMMA TextJoins ==
  /\ << >> \in Text
  /\ \A u, v \in Text : u \o v \in Text
  /\ \A u \in Text : u \o << >> = u /\ << >> \o u = u
  /\ \A u, v, w \in Text : (u \o v) \o w = u \o (v \o w)
<1>1. << >> \in Seq(Token)
  OBVIOUS
<1>2. \A u, v \in Seq(Token) : u \o v \in Seq(Token)
  OBVIOUS
<1>3. \A u \in Seq(Token) : u \o << >> = u /\ << >> \o u = u
  BY ConcatEmptySeq
<1>4. \A u, v, w \in Seq(Token) : (u \o v) \o w = u \o (v \o w)
  BY ConcatAssociative
<1> QED
  BY <1>1, <1>2, <1>3, <1>4 DEF Text

LEMMA FlattenFirst ==
  ASSUME NEW s \in Seq(Text), s # << >>
  PROVE  /\ FlattenSeq(s) \in Text /\ FlattenSeq(Tail(s)) \in Text
         /\ FlattenSeq(s) = Head(s) \o FlattenSeq(Tail(s))
<1> DEFINE t == Tail(s)
           n == Len(t)
<1>1. /\ Head(s) \in Text /\ Head(s) = s[1] /\ t \in Seq(Text) /\ n \in Nat /\ Len(s) = n + 1
      /\ \A i \in 1..n : t[i] = s[i+1] /\ t[i] \in Text
  BY HeadTailProperties
<1>2. PICK f : Joins(f, s, n + 1) /\ FlattenSeq(s) = f[n + 1]
  BY <1>1, FlattenJoins
<1>3. f[1] = s[1] /\ \A i \in 1..n : f[i+1] = f[i] \o s[i+1]
  <2>1. \A i \in 1..(n + 1) : f[i] = IF i = 1 THEN s[i] ELSE f[i-1] \o s[i]
    BY <1>2 DEF Joins
  <2> HIDE DEF n, t
  <2>2. f[1] = s[1]
    BY <1>1, <2>1
  <2>3. ASSUME NEW i \in 1..n PROVE f[i+1] = f[i] \o s[i+1]
    <3>1. i + 1 \in 1..(n + 1) /\ i + 1 # 1 /\ (i + 1) - 1 = i
      BY <1>1
    <3>2. f[i+1] = f[(i+1)-1] \o s[i+1]
      BY <2>1, <3>1
    <3> QED
      BY <3>1, <3>2
  <2> QED
    BY <2>2, <2>3
<1>4. CASE n = 0
  <2>1. t = << >>
    <3> HIDE DEF t
    <3> QED
      BY <1>1, <1>4, EmptySeq
  <2>2. FlattenSeq(s) = Head(s)
    <3>1. n + 1 = 1
      BY <1>4
    <3> HIDE DEF n
    <3> QED
      BY <1>1, <1>2, <1>3, <3>1
  <2> QED
    BY <1>1, <2>1, <2>2, FlattenNothing, TextJoins
<1>5. CASE n # 0
  <2>1. PICK g : Joins(g, t, n) /\ FlattenSeq(t) = g[n]
    BY <1>1, <1>5, FlattenJoins
  <2>2. g[1] = t[1] /\ \A i \in 1..n : i # 1 => g[i] = g[i-1] \o t[i]
    <3>1. \A i \in 1..n : g[i] = IF i = 1 THEN t[i] ELSE g[i-1] \o t[i]
      BY <2>1 DEF Joins
    <3> HIDE DEF n, t
    <3>2. 1 \in 1..n
      BY <1>1, <1>5
    <3>3. g[1] = t[1]
      BY <3>1, <3>2
    <3>4. \A i \in 1..n : i # 1 => g[i] = g[i-1] \o t[i]
      BY <3>1, Zenon
    <3> QED
      BY <3>3, <3>4
  <2> DEFINE Bad == {i \in 1..n : ~(g[i] \in Text /\ f[i+1] = s[1] \o g[i])}
  <2>3. Bad = {}
    <3> SUFFICES ASSUME Bad # {} PROVE FALSE
      OBVIOUS
    <3>1. PICK m \in Bad : \A k \in Bad : m <= k
      <4>1. Bad \in SUBSET Nat
        BY <1>1
      <4> HIDE DEF Bad
      <4> QED
        BY <4>1, SmallestOfSet
    <3> HIDE DEF n, t
    <3>2. m # 1
      <4>1. 1 \in 1..n /\ 1 + 1 = 2
        BY <1>1, <1>5
      <4>2. f[2] = s[1] \o g[1] /\ g[1] \in Text
        BY <1>1, <1>3, <2>2, <4>1
      <4> QED
        BY <3>1, <4>1, <4>2
    <3>3. m \in 1..n /\ m - 1 \in 1..n /\ m - 1 \notin Bad /\ (m - 1) + 1 = m
      <4>1. m \in 1..n /\ m - 1 \in 1..n /\ (m - 1) + 1 = m /\ ~(m <= m - 1)
        BY <1>1, <3>1, <3>2
      <4> HIDE DEF Bad
      <4> QED
        BY <3>1, <4>1
    <3>4. g[m-1] \in Text /\ f[m] = s[1] \o g[m-1]
      BY <3>3
    <3>5. g[m] = g[m-1] \o t[m] /\ f[m+1] = f[m] \o t[m] /\ t[m] \in Text
      BY <1>1, <1>3, <2>2, <3>2, <3>3
    <3>6. g[m] \in Text
      BY <3>4, <3>5, TextJoins
    <3>7. f[m+1] = s[1] \o g[m]
      <4>1. (s[1] \o g[m-1]) \o t[m] = s[1] \o (g[m-1] \o t[m])
        <5>1. s[1] \in Text
          BY <1>1
        <5> QED
          BY <3>4, <3>5, <5>1, TextJoins, Zenon
      <4> QED
        BY <3>4, <3>5, <4>1
    <3> QED
      BY <3>1, <3>6, <3>7
  <2>4. g[n] \in Text /\ f[n+1] = s[1] \o g[n]
    <3> HIDE DEF n
    <3>1. n \in 1..n
      BY <1>1, <1>5
    <3> QED
      BY <2>3, <3>1
  <2>5. FlattenSeq(t) \in Text /\ FlattenSeq(s) = Head(s) \o FlattenSeq(t)
    BY <1>1, <1>2, <2>1, <2>4, Zenon
  <2>6. FlattenSeq(s) \in Text
    BY <1>1, <2>5, TextJoins, Zenon
  <2> QED
    BY <2>5, <2>6
<1> QED
  BY <1>4, <1>5

LEMMA FlattenTyped ==
  ASSUME NEW s \in Seq(Text)
  PROVE  FlattenSeq(s) \in Text
BY TextJoins, FlattenNothing, FlattenFirst

\* Moving the first fragment from what is left to what has been read changes
\* nothing of the whole.
LEMMA FragmentMoves ==
  ASSUME NEW had \in Text, NEW s \in Seq(Text), s # << >>
  PROVE  (had \o Head(s)) \o FlattenSeq(Tail(s)) = had \o FlattenSeq(s)
<1>1. Head(s) \in Text
  BY HeadTailProperties
<1>2. FlattenSeq(s) = Head(s) \o FlattenSeq(Tail(s)) /\ FlattenSeq(Tail(s)) \in Text
  BY FlattenFirst
<1>3. (had \o Head(s)) \o FlattenSeq(Tail(s)) = had \o (Head(s) \o FlattenSeq(Tail(s)))
  BY <1>1, <1>2, TextJoins, Zenon
<1> QED
  BY <1>2, <1>3, Zenon

-----------------------------------------------------------------------------
(* The content type is the response's, and callers are told the truth.      *)

\* The headers being read: those before the body or those after it.
Heads == IF p.got THEN whole.trailers ELSE whole.headers

\* How many of them have been read to their end.
Done == Len(Heads) - Len(left.headers)

\* The content type among the first n headers.
TypeAmong(hs, n) ==
  LET named == {i \in 1..n : FlattenSeq(hs[i].name) = ContentType}
  IN IF named = {} THEN None
     ELSE FlattenSeq(hs[CHOOSE i \in named : \A j \in named : j <= i].value)

\* What the parser data should say by now.
TypeSoFar == IF p.got THEN ContentTypeOf(whole) ELSE TypeAmong(whole.headers, Done)

TypeIs(c) == (p.got => NoTypeInTrailers(whole)) => c = TypeSoFar

\* The header being read, what is left of it, and what it was at first.
Rest == left.headers[1]
Full == Heads[Done + 1]

\* The last header has been read and not handled; its name has been begun; its
\* value has been begun.
BetweenHeaders ==
  /\ p.last = "value"
  /\ left.headers # << >> => Rest = Full
  /\ TypeIs(Completed(p).ctype)

InName ==
  /\ p.last = "field" /\ left.headers # << >>
  /\ p.name \o FlattenSeq(Rest.name) = FlattenSeq(Full.name)
  /\ p.value = << >> /\ Rest.value = Full.value

InValue ==
  /\ p.last = "value" /\ left.headers # << >>
  /\ Rest.name = << >> /\ p.name = FlattenSeq(Full.name)
  /\ p.value \o FlattenSeq(Rest.value) = FlattenSeq(Full.value)

\* Read so far and left make the whole response.
HeadersRead ==
  /\ Len(left.headers) <= Len(Heads)
  /\ \A j \in 2..Len(left.headers) : left.headers[j] = Heads[Done + j]
  /\ BetweenHeaders \/ (TypeIs(p.ctype) /\ (InName \/ InValue))
  /\ p.got => TypeIs(p.ctype)

BodyReadSoFar == p.body \o FlattenSeq(left.body) = FlattenSeq(whole.body)

Reading ==
  /\ Named(whole.headers) /\ Named(whole.trailers)
  /\ left.ends = whole.ends
  /\ ~p.got => left.trailers = whole.trailers
  /\ HeadersRead /\ BodyReadSoFar

ParserInv == IF parsing = None THEN ~p.got ELSE Reading

LEMMA TypeAmongNone == ASSUME NEW hs PROVE TypeAmong(hs, 0) = None
BY DEF TypeAmong

LEMMA TypeAmongNext ==
  ASSUME NEW hs, NEW n \in Nat
  PROVE  TypeAmong(hs, n + 1) =
           IF FlattenSeq(hs[n + 1].name) = ContentType
           THEN FlattenSeq(hs[n + 1].value) ELSE TypeAmong(hs, n)
<1> DEFINE named(m) == {i \in 1..m : FlattenSeq(hs[i].name) = ContentType}
           last(S)  == CHOOSE i \in S : \A j \in S : j <= i
<1>1. \A m : TypeAmong(hs, m) =
               IF named(m) = {} THEN None ELSE FlattenSeq(hs[last(named(m))].value)
  BY DEF TypeAmong
<1>2. CASE FlattenSeq(hs[n + 1].name) = ContentType
  <2>1. n + 1 \in named(n + 1) /\ \A j \in named(n + 1) : j \in Nat /\ j <= n + 1
    BY <1>2
  <2>2. last(named(n + 1)) = n + 1
    <3> DEFINE S == named(n + 1)
    <3>1. n + 1 \in S /\ \A j \in S : j \in Nat /\ j <= n + 1
      BY <2>1
    <3> HIDE DEF S
    <3>2. last(S) \in S /\ \A j \in S : j <= last(S)
      BY <3>1
    <3>3. last(S) \in Nat /\ last(S) <= n + 1 /\ n + 1 <= last(S)
      BY <3>1, <3>2
    <3>4. last(S) = n + 1
      <4> HIDE DEF last
      <4> QED
        BY <3>3
    <3> QED
      BY <3>4 DEF S
  <2> HIDE DEF named, last
  <2> QED
    BY <1>1, <1>2, <2>1, <2>2
<1>3. CASE FlattenSeq(hs[n + 1].name) # ContentType
  <2>1. named(n + 1) = named(n)
    BY <1>3
  <2> HIDE DEF named, last
  <2> QED
    BY <1>1, <1>3, <2>1
<1> QED
  BY <1>2, <1>3

LEMMA TypeAmongAll ==
  ASSUME NEW x \in Response
  PROVE  TypeAmong(x.headers, Len(x.headers)) = ContentTypeOf(x)
<1>1. DOMAIN x.headers = 1..Len(x.headers)
  BY DEF Response
<1> QED
  BY <1>1 DEF TypeAmong, ContentTypeOf

LEMMA CompletedIs ==
  ASSUME NEW d \in Parser
  PROVE  /\ Completed(d) \in Parser
         /\ Completed(d).last = d.last /\ Completed(d).name = d.name
         /\ Completed(d).value = d.value /\ Completed(d).got = d.got
         /\ Completed(d).body = d.body
         /\ Completed(d).ctype = IF d.name = ContentType THEN d.value ELSE d.ctype
BY DEF Parser, Completed

\* The header that is being read.
LEMMA HeaderIsThere ==
  ASSUME TypeOK, Reading, left.headers # << >>
  PROVE  /\ Heads \in Seq(Header) /\ Len(Heads) \in Nat /\ Len(left.headers) \in Nat \ {0}
         /\ left.headers \in Seq(Header) /\ Done \in Nat /\ Done + 1 \in 1..Len(Heads)
         /\ Full \in Header /\ Full.name # << >> /\ Rest \in Header
         /\ p \in Parser /\ left \in Response /\ whole \in Response
<1>1. /\ Heads \in Seq(Header) /\ left.headers \in Seq(Header)
      /\ p \in Parser /\ left \in Response /\ whole \in Response
  BY DEF TypeOK, Heads, Response
<1>2. Len(Heads) \in Nat /\ Len(left.headers) \in Nat \ {0}
  BY <1>1, EmptySeq
<1>3. Done \in Nat /\ Done + 1 \in 1..Len(Heads)
  <2>1. Len(left.headers) <= Len(Heads)
    BY DEF Reading, HeadersRead
  <2> QED
    BY <1>2, <2>1 DEF Done
<1>4. Full \in Header
  BY <1>1, <1>3 DEF Full
<1>5. Full.name # << >>
  <2>1. DOMAIN Heads = 1..Len(Heads)
    BY <1>1
  <2>2. Named(Heads)
    BY DEF Reading, Heads
  <2> QED
    BY <1>3, <2>1, <2>2 DEF Named, Full
<1>6. Rest \in Header
  BY <1>1, <1>2 DEF Rest
<1> QED
  BY <1>1, <1>2, <1>3, <1>4, <1>5, <1>6

\* What the claims on the parser speak of, and a step that leaves it alone.
LEMMA ParserInvKept ==
  ASSUME ParserInv, UNCHANGED parseVars
  PROVE  ParserInv'
BY DEF ParserInv, parseVars, Reading, HeadersRead, BodyReadSoFar, BetweenHeaders, InName,
       InValue, TypeIs, TypeSoFar, Rest, Full, Done, Heads

LEMMA ReadingStarts ==
  ASSUME TypeOK, NEW x \in Responses, p' = NewParser, whole' = x, left' = x
  PROVE  Reading'
<1>1. x \in Response /\ Named(x.headers) /\ Named(x.trailers)
  BY ResponsesTyped
<1>2. /\ ~p'.got /\ p'.last = "value" /\ p'.name = << >> /\ p'.ctype = None
      /\ p'.body = << >> /\ p' \in Parser
  BY ParserTyped DEF NewParser
<1>3. /\ Heads' = x.headers /\ Len(x.headers) \in Nat /\ Done' = 0
      /\ left'.headers = x.headers /\ x.headers \in Seq(Header)
  BY <1>1, <1>2 DEF Heads, Done, Response
<1>4. TypeIs(Completed(p).ctype)'
  <2>1. Completed(p').ctype = None
    BY <1>2, CompletedIs, TypeIsAName
  <2>2. TypeSoFar' = None
    BY <1>2, <1>3, TypeAmongNone DEF TypeSoFar
  <2> QED
    BY <2>1, <2>2 DEF TypeIs
<1>5. BetweenHeaders'
  BY <1>2, <1>3, <1>4 DEF BetweenHeaders, Rest, Full
<1>6. HeadersRead'
  BY <1>2, <1>3, <1>5 DEF HeadersRead
<1>7. BodyReadSoFar'
  <2>1. FlattenSeq(x.body) \in Text
    BY <1>1, FlattenTyped DEF Response
  <2> QED
    BY <1>2, <2>1, TextJoins DEF BodyReadSoFar
<1> QED
  BY <1>1, <1>2, <1>6, <1>7 DEF Reading

LEMMA ReadingField ==
  ASSUME TypeOK, Reading, HandleHeaderField
  PROVE  Reading'
<1> DEFINE at == Head(Rest.name)
<1>1. /\ left.headers # << >> /\ Rest.name # << >> /\ whole' = whole
      /\ left' = [left EXCEPT !.headers[1].name = Tail(@)]
      /\ p' = FieldRead(p, at)
  BY DEF HandleHeaderField, Rest
<1>2. /\ Heads \in Seq(Header) /\ left.headers \in Seq(Header) /\ Len(left.headers) \in Nat \ {0}
      /\ Rest \in Header /\ p \in Parser /\ left \in Response
  BY <1>1, HeaderIsThere
<1>3. /\ left'.headers = [left.headers EXCEPT ![1] = [Rest EXCEPT !.name = Tail(@)]]
      /\ left'.ends = left.ends /\ left'.body = left.body /\ left'.trailers = left.trailers
  BY <1>1, <1>2 DEF Response, Rest
<1>4. /\ Len(left'.headers) = Len(left.headers) /\ left'.headers # << >>
      /\ \A j \in 2..Len(left.headers) : left'.headers[j] = left.headers[j]
      /\ Rest' = [Rest EXCEPT !.name = Tail(@)]
  BY <1>2, <1>3 DEF Rest
<1>5. Rest'.name = Tail(Rest.name) /\ Rest'.value = Rest.value
  BY <1>2, <1>4 DEF Header
<1>6. at \in Text /\ Rest.name \in Seq(Text) /\ FlattenSeq(Tail(Rest.name)) \in Text
  BY <1>1, <1>2, FlattenFirst DEF Header
<1>7. /\ p'.got = p.got /\ p'.body = p.body
      /\ p.last = "value" => /\ p'.ctype = Completed(p).ctype
                             /\ p'.name = at /\ p'.value = << >> /\ p'.last = "field"
      /\ p.last # "value" => /\ p'.ctype = p.ctype /\ p'.value = p.value /\ p'.last = p.last
                             /\ p'.name = p.name \o at
  BY <1>1, <1>2, CompletedIs DEF FieldRead, Parser
<1>8. Heads' = Heads /\ Done' = Done /\ Full' = Full /\ TypeSoFar' = TypeSoFar
  <2>1. Heads' = Heads /\ Done' = Done
    BY <1>1, <1>4, <1>7 DEF Heads, Done
  <2> QED
    BY <1>1, <1>7, <2>1 DEF Full, TypeSoFar
<1>9. InName' /\ TypeIs(p.ctype)'
  <2>1. CASE p.last = "value"
    <3>1. BetweenHeaders
      BY <1>1, <2>1 DEF Reading, HeadersRead, InName, InValue
    <3>2. Rest = Full /\ TypeIs(Completed(p).ctype)
      BY <1>1, <3>1 DEF BetweenHeaders
    <3>3. p'.name \o FlattenSeq(Rest'.name) = FlattenSeq(Full.name)
      BY <1>1, <1>5, <1>6, <1>7, <2>1, <3>2, FlattenFirst
    <3> QED
      BY <1>1, <1>4, <1>5, <1>7, <1>8, <2>1, <3>2, <3>3 DEF InName, TypeIs
  <2>2. CASE p.last # "value"
    <3>1. InName /\ TypeIs(p.ctype)
      BY <2>2 DEF Reading, HeadersRead, BetweenHeaders, InValue
    <3>2. p'.name \o FlattenSeq(Rest'.name) = FlattenSeq(Full.name)
      <4>1. p.name \in Text
        BY <1>2 DEF Parser
      <4>2. (p.name \o at) \o FlattenSeq(Tail(Rest.name)) = p.name \o FlattenSeq(Rest.name)
        BY <1>1, <1>6, <4>1, FragmentMoves
      <4> QED
        BY <1>5, <1>7, <2>2, <3>1, <4>2 DEF InName
    <3> QED
      BY <1>1, <1>4, <1>5, <1>7, <1>8, <2>2, <3>1, <3>2 DEF InName, TypeIs
  <2> QED
    BY <2>1, <2>2
<1>10. HeadersRead'
  BY <1>4, <1>8, <1>9 DEF HeadersRead, Reading
<1>11. BodyReadSoFar'
  BY <1>1, <1>3, <1>7 DEF BodyReadSoFar, Reading
<1> QED
  BY <1>1, <1>3, <1>7, <1>10, <1>11 DEF Reading

LEMMA ReadingValue ==
  ASSUME TypeOK, Reading, HandleHeaderValue
  PROVE  Reading'
<1> DEFINE v == Rest.value
<1>1. /\ left.headers # << >> /\ Rest.name = << >> /\ whole' = whole
      /\ p' = [p EXCEPT !.value = @ \o Head(v), !.last = "value"]
      /\ left' = IF Len(v) = 1 THEN [left EXCEPT !.headers = Tail(@)]
                 ELSE [left EXCEPT !.headers[1].value = Tail(@)]
  BY DEF HandleHeaderValue, Rest
<1>2. /\ Heads \in Seq(Header) /\ left.headers \in Seq(Header) /\ Len(left.headers) \in Nat \ {0}
      /\ Rest \in Header /\ p \in Parser /\ left \in Response /\ whole \in Response
      /\ Full.name # << >> /\ Len(Heads) \in Nat /\ Done \in Nat /\ Done + 1 \in 1..Len(Heads)
  BY <1>1, HeaderIsThere
<1>3. v \in Seq(Text) /\ v # << >> /\ Head(v) \in Text /\ Tail(v) \in Seq(Text)
  BY <1>2 DEF Header
<1>4. /\ p'.got = p.got /\ p'.body = p.body /\ p'.ctype = p.ctype /\ p'.name = p.name
      /\ p'.last = "value" /\ p'.value = p.value \o Head(v)
      /\ p'.value \in Text /\ p.value \in Text /\ p' \in Parser
  <2>1. p.value \in Text
    BY <1>2 DEF Parser
  <2>2. p.value \o Head(v) \in Text
    BY <1>3, <2>1, TextJoins
  <2> HIDE DEF v
  <2> QED
    BY <1>1, <1>2, <2>1, <2>2 DEF Parser
<1>5. /\ TypeIs(p.ctype) /\ p.name = FlattenSeq(Full.name)
      /\ p.value \o FlattenSeq(v) = FlattenSeq(Full.value)
  <2>1. CASE BetweenHeaders
    BY <1>1, <1>2, <2>1 DEF BetweenHeaders
  <2>2. CASE TypeIs(p.ctype) /\ InValue
    BY <2>2 DEF InValue
  <2>3. CASE TypeIs(p.ctype) /\ InName
    <3>1. FlattenSeq(Rest.name) = << >> /\ p.name \in Text
      BY <1>1, <1>2, FlattenNothing DEF Parser
    <3>2. p.name \o << >> = p.name
      BY <3>1, TextJoins
    <3>3. << >> \o FlattenSeq(v) = FlattenSeq(v)
      BY <1>3, FlattenTyped, TextJoins
    <3> QED
      BY <2>3, <3>1, <3>2, <3>3 DEF InName
  <2> QED
    BY <2>1, <2>2, <2>3 DEF Reading, HeadersRead
<1>6. p'.value \o FlattenSeq(Tail(v)) = FlattenSeq(Full.value)
  BY <1>3, <1>4, <1>5, FragmentMoves
<1>7. Heads' = Heads
  BY <1>1, <1>4 DEF Heads
<1>8. /\ left'.ends = left.ends /\ left'.body = left.body /\ left'.trailers = left.trailers
      /\ left'.headers = IF Len(v) = 1 THEN Tail(left.headers)
                         ELSE [left.headers EXCEPT ![1] = [Rest EXCEPT !.value = Tail(@)]]
  <2>1. CASE Len(v) = 1
    BY <1>1, <1>2, <2>1 DEF Response
  <2>2. CASE Len(v) # 1
    <3> HIDE DEF v
    <3>1. left' = [left EXCEPT !.headers[1].value = Tail(@)]
      BY <1>1, <2>2
    <3> QED
      BY <1>2, <2>2, <3>1 DEF Response, Rest
  <2> QED
    BY <2>1, <2>2
<1> HIDE DEF v
<1>9. HeadersRead'
  <2>1. CASE Len(v) = 1
    <3>1. p'.value = FlattenSeq(Full.value)
      <4>1. Tail(v) = << >>
        <5>1. Tail(v) \in Seq(Text) /\ Len(Tail(v)) = 0
          BY <1>3, <2>1, HeadTailProperties
        <5> QED
          BY <5>1, EmptySeq
      <4>2. p'.value \o << >> = p'.value
        BY <1>4, TextJoins
      <4> QED
        BY <1>6, <4>1, <4>2, FlattenNothing
    <3>2. /\ left'.headers \in Seq(Header) /\ Len(left'.headers) = Len(left.headers) - 1
          /\ \A j \in 1..(Len(left.headers) - 1) : left'.headers[j] = left.headers[j + 1]
      BY <1>1, <1>2, <1>8, <2>1, HeadTailProperties
    <3>3. Done' = Done + 1
      BY <1>2, <1>7, <3>2 DEF Done
    <3>4. ASSUME NEW j \in 1..Len(left'.headers) PROVE left'.headers[j] = Heads'[Done' + j]
      <4>1. j + 1 \in 2..Len(left.headers) /\ left'.headers[j] = left.headers[j + 1]
            /\ j \in Nat
        BY <1>2, <3>2
      <4>2. left.headers[j + 1] = Heads[Done + (j + 1)]
        BY <4>1 DEF Reading, HeadersRead
      <4>3. Done + (j + 1) = Done' + j
        BY <1>2, <3>3, <4>1
      <4> QED
        BY <1>7, <4>1, <4>2, <4>3
    <3>5. left'.headers # << >> => Rest' = Full'
      <4>1. left'.headers # << >> => 1 \in 1..Len(left'.headers)
        BY <3>2, EmptySeq
      <4> QED
        BY <3>4, <4>1 DEF Rest, Full
    <3>6. TypeIs(Completed(p).ctype)' /\ (p'.got => TypeIs(p.ctype)')
      <4>1. Completed(p').ctype = IF p.name = ContentType THEN p'.value ELSE p.ctype
        BY <1>4, CompletedIs
      <4>2. CASE p.got
        <5>1. TypeSoFar' = TypeSoFar /\ p'.got
          BY <1>1, <1>4, <4>2 DEF TypeSoFar
        <5>2. NoTypeInTrailers(whole) => p.name # ContentType
          <6>1. Full = whole.trailers[Done + 1] /\ Done + 1 \in DOMAIN whole.trailers
            BY <1>2, <4>2 DEF Full, Heads
          <6> QED
            BY <1>5, <6>1 DEF NoTypeInTrailers
        <5> QED
          BY <1>1, <1>4, <1>5, <4>1, <5>1, <5>2 DEF TypeIs
      <4>3. CASE ~p.got
        <5>1. p.ctype = TypeAmong(whole.headers, Done) /\ Full = whole.headers[Done + 1]
          BY <1>5, <4>3 DEF TypeIs, TypeSoFar, Full, Heads
        <5>2. TypeSoFar' = TypeAmong(whole.headers, Done + 1) /\ ~p'.got
          BY <1>1, <1>4, <3>3, <4>3 DEF TypeSoFar
        <5>3. Completed(p').ctype = TypeSoFar'
          BY <1>2, <1>5, <3>1, <4>1, <5>1, <5>2, TypeAmongNext
        <5> QED
          BY <5>2, <5>3 DEF TypeIs
      <4> QED
        BY <4>2, <4>3
    <3>7. BetweenHeaders'
      BY <1>4, <3>5, <3>6 DEF BetweenHeaders
    <3>8. Len(left'.headers) <= Len(Heads') /\ 2..Len(left'.headers) \subseteq 1..Len(left'.headers)
      BY <1>2, <1>7, <3>2 DEF Reading, HeadersRead
    <3> QED
      BY <3>4, <3>6, <3>7, <3>8 DEF HeadersRead
  <2>2. CASE Len(v) # 1
    <3>1. left'.headers = [left.headers EXCEPT ![1] = [Rest EXCEPT !.value = Tail(@)]]
      BY <1>8, <2>2
    <3>2. /\ Len(left'.headers) = Len(left.headers) /\ left'.headers # << >>
          /\ \A j \in 2..Len(left.headers) : left'.headers[j] = left.headers[j]
          /\ Rest' = [Rest EXCEPT !.value = Tail(@)]
      BY <1>2, <3>1 DEF Rest
    <3>3. Rest'.name = << >> /\ Rest'.value = Tail(v)
      BY <1>1, <1>2, <3>2 DEF Header, v
    <3>4. Done' = Done /\ Full' = Full /\ TypeSoFar' = TypeSoFar
      <4>1. Done' = Done
        BY <1>7, <3>2 DEF Done
      <4> QED
        BY <1>1, <1>4, <1>7, <4>1 DEF Full, TypeSoFar
    <3>5. InValue' /\ TypeIs(p.ctype)'
      BY <1>1, <1>4, <1>5, <1>6, <3>2, <3>3, <3>4 DEF InValue, TypeIs
    <3> QED
      BY <1>7, <3>2, <3>4, <3>5 DEF HeadersRead, Reading
  <2> QED
    BY <2>1, <2>2
<1>10. BodyReadSoFar'
  BY <1>1, <1>4, <1>8 DEF BodyReadSoFar, Reading
<1> QED
  BY <1>1, <1>4, <1>8, <1>9, <1>10 DEF Reading

LEMMA ReadingHeadersComplete ==
  ASSUME TypeOK, Reading, HandleHeadersComplete
  PROVE  Reading'
<1>1. /\ ~p.got /\ left.headers = << >> /\ whole' = whole
      /\ p' = [Completed(p) EXCEPT !.got = TRUE]
      /\ left' = [left EXCEPT !.headers = left.trailers, !.trailers = << >>]
  BY DEF HandleHeadersComplete
<1>2. p \in Parser /\ left \in Response /\ whole \in Response
  BY DEF TypeOK
<1>3. /\ p'.got /\ p'.last = p.last /\ p'.name = p.name /\ p'.value = p.value
      /\ p'.body = p.body /\ p'.ctype = Completed(p).ctype /\ p' \in Parser
  BY <1>1, <1>2, CompletedIs DEF Parser
<1>4. left'.headers = whole.trailers /\ left'.ends = left.ends /\ left'.body = left.body
  <2>1. left.trailers = whole.trailers
    BY <1>1 DEF Reading
  <2> QED
    BY <1>1, <1>2, <2>1 DEF Response
<1>5. Completed(p).ctype = ContentTypeOf(whole) /\ p.last = "value"
  <2>1. BetweenHeaders
    BY <1>1 DEF Reading, HeadersRead, InName, InValue
  <2>2. Heads = whole.headers /\ Len(Heads) \in Nat /\ Done = Len(Heads)
    BY <1>1, <1>2 DEF Heads, Done, Response
  <2>3. TypeSoFar = ContentTypeOf(whole)
    BY <1>1, <1>2, <2>2, TypeAmongAll DEF TypeSoFar
  <2> QED
    BY <1>1, <2>1, <2>3 DEF BetweenHeaders, TypeIs
<1>6. Completed(p').ctype = ContentTypeOf(whole) /\ p'.ctype = ContentTypeOf(whole)
  BY <1>2, <1>3, <1>5, CompletedIs
<1>7. /\ Heads' = whole.trailers /\ Len(whole.trailers) \in Nat /\ Done' = 0
      /\ whole.trailers \in Seq(Header) /\ TypeSoFar' = ContentTypeOf(whole)
  BY <1>1, <1>2, <1>3, <1>4 DEF Heads, Done, TypeSoFar, Response
<1>8. TypeIs(Completed(p).ctype)' /\ TypeIs(p.ctype)'
  BY <1>6, <1>7 DEF TypeIs
<1>9. BetweenHeaders'
  BY <1>3, <1>4, <1>5, <1>7, <1>8 DEF BetweenHeaders, Rest, Full
<1>10. HeadersRead'
  BY <1>4, <1>7, <1>8, <1>9 DEF HeadersRead
<1>11. BodyReadSoFar'
  BY <1>1, <1>3, <1>4 DEF BodyReadSoFar, Reading
<1> QED
  BY <1>1, <1>3, <1>4, <1>10, <1>11 DEF Reading

LEMMA ReadingBody ==
  ASSUME TypeOK, Reading, HandleBody
  PROVE  Reading'
<1>1. /\ left.body # << >> /\ whole' = whole /\ p' = BodyRead(p, Head(left.body))
      /\ left' = [left EXCEPT !.body = Tail(@)]
  BY DEF HandleBody
<1>2. p \in Parser /\ left \in Response
  BY DEF TypeOK
<1>3. /\ left'.headers = left.headers /\ left'.trailers = left.trailers
      /\ left'.ends = left.ends /\ left'.body = Tail(left.body) /\ left.body \in Seq(Text)
  BY <1>1, <1>2 DEF Response
<1>4. /\ p'.last = p.last /\ p'.name = p.name /\ p'.value = p.value /\ p'.got = p.got
      /\ p'.ctype = p.ctype /\ p'.body = p.body \o Head(left.body) /\ p.body \in Text
  BY <1>1, <1>2 DEF BodyRead, Parser
<1>5. Completed(p').ctype = Completed(p).ctype
  <2>1. Head(left.body) \in Text
    BY <1>1, <1>3, HeadTailProperties
  <2>2. p' \in Parser
    BY <1>1, <1>2, <2>1, ParserTyped
  <2> QED
    BY <1>2, <1>4, <2>2, CompletedIs
<1>6. HeadersRead'
  <2>1. Heads' = Heads /\ Done' = Done /\ Full' = Full /\ TypeSoFar' = TypeSoFar /\ Rest' = Rest
    <3>1. Heads' = Heads /\ Done' = Done
      BY <1>1, <1>3, <1>4 DEF Heads, Done
    <3> QED
      BY <1>1, <1>3, <1>4, <3>1 DEF Full, TypeSoFar, Rest
  <2>2. /\ BetweenHeaders => BetweenHeaders'
        /\ InName => InName'
        /\ InValue => InValue'
        /\ TypeIs(p.ctype) => TypeIs(p.ctype)'
    BY <1>1, <1>3, <1>4, <1>5, <2>1 DEF BetweenHeaders, InName, InValue, TypeIs
  <2>3. Len(left'.headers) <= Len(Heads') /\ HeadersRead
    BY <1>3, <2>1 DEF HeadersRead, Reading
  <2>4. \A j \in 2..Len(left'.headers) : left'.headers[j] = Heads'[Done' + j]
    BY <1>3, <2>1, <2>3 DEF HeadersRead
  <2> QED
    BY <1>4, <2>2, <2>3, <2>4 DEF HeadersRead
<1>7. BodyReadSoFar'
  <2>1. (p.body \o Head(left.body)) \o FlattenSeq(Tail(left.body)) = p.body \o FlattenSeq(left.body)
    BY <1>1, <1>3, <1>4, FragmentMoves
  <2> QED
    BY <1>1, <1>3, <1>4, <2>1 DEF BodyReadSoFar, Reading
<1> QED
  BY <1>1, <1>3, <1>4, <1>6, <1>7 DEF Reading

LEMMA StepParserInv == TypeOK /\ ParserInv /\ [Next]_vars => ParserInv'
<1> SUFFICES ASSUME TypeOK, ParserInv, [Next]_vars PROVE ParserInv'
  OBVIOUS
<1>1. CASE UNCHANGED parseVars
  BY <1>1, ParserInvKept
<1>2. ASSUME NEW r \in Requests, ResponseArrives(r) PROVE ParserInv'
  <2>1. parsing' # None
    BY <1>2, NoneIsApart DEF ResponseArrives
  <2>2. Reading'
    BY <1>2, ReadingStarts DEF ResponseArrives
  <2> QED
    BY <2>1, <2>2 DEF ParserInv
<1>3. CASE HandleHeaderField
  BY <1>3, ReadingField DEF ParserInv, HandleHeaderField, InParser
<1>4. CASE HandleHeaderValue
  BY <1>4, ReadingValue DEF ParserInv, HandleHeaderValue, InParser
<1>5. CASE HandleHeadersComplete
  BY <1>5, ReadingHeadersComplete DEF ParserInv, HandleHeadersComplete, InParser
<1>6. CASE HandleBody
  BY <1>6, ReadingBody DEF ParserInv, HandleBody, InParser
<1>7. CASE StopsShort \/ HandleMessageComplete
  <2>1. CASE Dies
    BY <1>1, <2>1 DEF Dies
  <2>2. CASE Finishes
    BY <2>2 DEF Finishes, Finish, ParserInv, NewParser
  <2> QED
    BY <1>7, <2>1, <2>2, MessageEnds
<1>8. ASSUME NEW r \in Requests, NEW k \in Kinds, Start(r, k) \/ StartFails(r, k)
      PROVE  ParserInv'
  BY <1>1, <1>8 DEF Start, StartFails
<1>9. ASSUME NEW r \in Requests, FetchFails(r) PROVE ParserInv'
  BY <1>1, <1>9 DEF FetchFails
<1>10. CASE Cancel \/ Close \/ Reconnect \/ UNCHANGED vars
  BY <1>1, <1>10 DEF Cancel, Close, Reconnect, vars
<1> QED
  BY <1>2, <1>3, <1>4, <1>5, <1>6, <1>7, <1>8, <1>9, <1>10 DEF Next, Parse

LEMMA ParserInvHolds == Spec => [](TypeOK /\ ParserInv)
<1>1. Init => ParserInv
  BY DEF Init, ParserInv, NewParser
<1> QED
  BY InitTyped, StepTyped, StepParserInv, <1>1, PTL DEF Spec

\* _handle_header_field, _handle_header_value, _handle_header_completed and
\* _handle_headers_complete: however the headers are cut into fragments, and
\* whatever trailers follow, the content type is that of the last header with
\* the name, for every response whose trailers do not name one.
THEOREM HeadersAreJoined == Spec => []HeadersJoined
<1>1. ParserInv => HeadersJoined
  BY DEF ParserInv, Reading, HeadersRead, TypeIs, TypeSoFar, HeadersJoined
<1> QED
  BY ParserInvHolds, <1>1, PTL

LEMMA FinishTells ==
  ASSUME NEW a, Finish(a)
  PROVE  told' = a
BY CallReports DEF Finish

LEMMA AtTheEnd ==
  ASSUME TypeOK, ParserInv, parsing # None, AtEnd, NoTypeInTrailers(whole)
  PROVE  /\ whole.ends # "short" /\ p.ctype = ContentTypeOf(whole)
         /\ p.body = FlattenSeq(whole.body)
<1>1. Reading /\ p.got /\ left.body = << >> /\ left.ends = "whole"
  BY DEF ParserInv, AtEnd
<1>2. p.ctype = ContentTypeOf(whole)
  BY <1>1 DEF Reading, HeadersRead, TypeIs, TypeSoFar
<1>3. p.body \o << >> = p.body
  <2>1. p.body \in Text
    BY DEF TypeOK, Parser
  <2> QED
    BY <2>1, TextJoins
<1> QED
  BY <1>1, <1>2, <1>3, FlattenNothing DEF Reading, BodyReadSoFar

LEMMA StepTrue ==
  ASSUME TypeOK, ParserInv, Next, parsing # None, parsing' = None, NoTypeInTrailers(whole)
  PROVE  told' = Verdict(whole)
<1>1. ~Idle
  BY DEF Idle
<1>2. StopsShort \/ HandleMessageComplete
  <2>1. gc # "gone"
    BY DEF TypeOK
  <2> QED
    BY <1>1, <2>1
       DEF Next, Parse, Start, StartFails, Cancel, FetchFails, ResponseArrives, Close,
           Reconnect, HandleHeaderField, HandleHeaderValue, HandleHeadersComplete, HandleBody
<1>3. CASE StopsShort
  <2>1. whole.ends = "short"
    BY <1>3 DEF StopsShort, ParserInv, Reading
  <2>2. told' = Failure
    BY <1>3, FinishTells DEF StopsShort
  <2> QED
    BY <2>1, <2>2 DEF Verdict
<1>4. CASE HandleMessageComplete
  <2>1. AtEnd /\ ~NoReason(p)
    BY <1>4 DEF HandleMessageComplete, parseVars
  <2>2. /\ whole.ends # "short" /\ p.ctype = ContentTypeOf(whole)
        /\ p.body = FlattenSeq(whole.body)
    BY <2>1, AtTheEnd
  <2>3. CASE ~Usable(p)
    <3>1. told' = Failure
      BY <1>4, <2>1, <2>3, FinishTells DEF HandleMessageComplete
    <3> QED
      BY <2>2, <2>3, <3>1 DEF Verdict, Usable
  <2>4. CASE Usable(p)
    <3>1. told' = Answer(IF whole.code >= 300 THEN "bad" ELSE "ok", whole.code,
                         p.ctype = Json, p.body)
      BY <1>4, <2>1, <2>4, FinishTells DEF HandleMessageComplete
    <3> QED
      BY <2>2, <2>4, <3>1 DEF Verdict, Usable
  <2> QED
    BY <2>3, <2>4
<1> QED
  BY <1>2, <1>3, <1>4

\* matrix_api_complete: when a response has been handled, its callback has been
\* told what all of the response says, fragments of headers and body joined; of
\* success only when the response says so.
THEOREM AnswersAreTrue == Spec => AnswersTrue
<1>1. TypeOK /\ ParserInv /\ [Next]_vars
        => [parsing # None /\ parsing' = None /\ NoTypeInTrailers(whole)
            => told' = Verdict(whole)]_vars
  BY StepTrue
<1> QED
  BY ParserInvHolds, <1>1, PTL DEF Spec, AnswersTrue

-----------------------------------------------------------------------------
(* Which answers are final.                                                 *)

\* A step that ends the account for good is the last of a response.
LEMMA FinalCalls ==
  ASSUME TypeOK, Next, gc = "up", gc' = "dying"
  PROVE  /\ parsing # None /\ parsing' = None
         /\ \E a : Finish(a) /\ (a.by = "ok" \/ (a.by = "bad" /\ Fatal(a.code)))
<1>1. \A k, a : Call(k, a) => told' = a /\ (a.by = "ok" \/ (a.by = "bad" /\ Fatal(a.code)))
  BY CallReports DEF Reports
<1>2. ASSUME NEW k, Call(k, Failure) \/ Call(k, Cancelled) PROVE FALSE
  BY <1>1, <1>2, AnswersTyped
<1>3. ASSUME NEW r \in Requests, NEW k \in Kinds, Start(r, k) \/ StartFails(r, k)
      PROVE  FALSE
  BY <1>2, <1>3 DEF Start, StartFails
<1>4. ASSUME NEW r \in Requests, FetchFails(r) \/ ResponseArrives(r) PROVE FALSE
  BY <1>2, <1>4 DEF FetchFails, ResponseArrives
<1>5. CASE Cancel
  BY <1>2, <1>5, CancelCases DEF Cancels, Dies, CallsAgain
<1>6. CASE StopsShort \/ HandleMessageComplete
  <2>1. Finishes /\ parsing # None
    BY <1>6, MessageEnds DEF Dies
  <2>2. PICK a \in Answers : Finish(a)
    BY <2>1 DEF Finishes
  <2> QED
    BY <1>1, <2>1, <2>2 DEF Finish
<1>7. CASE \/ Close \/ Reconnect \/ HandleHeaderField \/ HandleHeaderValue
           \/ HandleHeadersComplete \/ HandleBody
  BY <1>7 DEF Close, Reconnect, HandleHeaderField, HandleHeaderValue,
              HandleHeadersComplete, HandleBody
<1> QED
  BY <1>3, <1>4, <1>5, <1>6, <1>7 DEF Next, Parse

LEMMA StepFinal ==
  ASSUME TypeOK, ParserInv, Next, gc = "up", gc' = "dying", NoTypeInTrailers(whole)
  PROVE  /\ parsing # None /\ Verdict(whole).by \in {"ok", "bad"}
         /\ whole.code # 429 /\ whole.code <= 500
<1>1. /\ parsing # None /\ parsing' = None
      /\ \E a : Finish(a) /\ (a.by = "ok" \/ (a.by = "bad" /\ Fatal(a.code)))
  BY FinalCalls
<1>2. PICK a : Finish(a) /\ (a.by = "ok" \/ (a.by = "bad" /\ Fatal(a.code)))
  BY <1>1
<1>3. Verdict(whole) = a
  BY <1>1, <1>2, StepTrue, FinishTells
<1>4. whole.code \in Nat /\ Failure.by = "error"
  BY AnswersTyped DEF TypeOK, Response
<1>5. \E j, body : a = Answer(IF whole.code >= 300 THEN "bad" ELSE "ok", whole.code, j, body)
  BY <1>2, <1>3, <1>4 DEF Verdict
<1>6. a.code = whole.code /\ a.by = IF whole.code >= 300 THEN "bad" ELSE "ok"
  BY <1>5 DEF Answer
<1>7. whole.code # 429 /\ whole.code <= 500
  BY <1>2, <1>4, <1>6 DEF Fatal
<1> QED
  BY <1>1, <1>2, <1>3, <1>7

\* matrix_api_error, matrix_api_bad_response and the success callbacks that
\* report errors: an account is ended for good only by a response that came
\* whole and can be used, never by 429 or a code over 500, and by nothing that
\* goes wrong before or while one is read, nor by cancelling.
THEOREM FinalAnswers == Spec => FinalOnlyOnAnswer
<1>1. TypeOK /\ ParserInv /\ [Next]_vars
        => [gc = "up" /\ gc' = "dying" /\ NoTypeInTrailers(whole)
            => /\ parsing # None /\ Verdict(whole).by \in {"ok", "bad"}
               /\ whole.code # 429 /\ whole.code <= 500]_vars
  BY StepFinal
<1> QED
  BY ParserInvHolds, <1>1, PTL DEF Spec, FinalOnlyOnAnswer
=============================================================================
