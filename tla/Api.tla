-------------------------------- MODULE Api --------------------------------
(***************************************************************************)
(* Requests to the homeserver (matrix-api.c): how one is started and       *)
(* cancelled, how the answer is read from the fragments in which           *)
(* http_parser hands it over, which of the three callbacks of the request  *)
(* is called, and what that makes of the connection and of the handle kept *)
(* in the room that the requests with a handle are about.                  *)
(*                                                                         *)
(* A text is a sequence of tokens.  libpurple's fetching, http_parser and  *)
(* json-glib are external.  A definition with an underscore is a mutated   *)
(* form of the one after it, used by no action.                            *)
(***************************************************************************)
EXTENDS Naturals, Sequences, SequencesExt

CONSTANTS
  Requests,    \* addresses of MatrixApiRequestData
  Kinds,       \* the kinds of request that are made: see Endpoint
  Responses,   \* what may be answered: see Response
  ContentType, \* the name of that header, as the code compares it
  Json,        \* its value for JSON
  JsonTexts,   \* bodies that json-glib can parse
  None,        \* no request, no answer, no header
  MaxStarts    \* bound on the requests made

VARIABLES
  gc,      \* the PurpleConnection: see Links
  reqs,    \* the requests
  slot,    \* the room's PURPLE_CONV_DATA_ACTIVE_SEND: a request's address or None
  parsing, \* the one whose response matrix_api_complete is handling, or None
  left,    \* what http_parser has not handed over yet of it
  p,       \* MatrixApiResponseParserData
  whole,   \* history: all of the response
  told,    \* history: the last answer given to a caller, or None
  starts   \* history: requests made, bounded by MaxStarts

parseVars == <<parsing, left, p, whole>>
vars == <<gc, reqs, slot, parseVars, told, starts>>

\* "closing" after an error that libpurple may try again after, "dying" after
\* one that it may not; "dead": the process has crashed.
Links == {"up", "closing", "dying", "gone", "dead"}

-----------------------------------------------------------------------------
(* Making a request.                                                        *)

\* What a success callback may make of JSON and of another type or nothing:
\* "final" and "retry" are errors that it reports itself, "left" leaves the
\* handle in the slot.
Ok(json, other) == [json |-> json, other |-> other]

Ignored           == Ok({"quiet"}, {"quiet"})
LoginCompleted    == Ok({"quiet", "final"}, {"final"})
WhoamiCompleted   == Ok({"quiet", "final"}, {"quiet"})
SyncCompleted     == Ok({"quiet", "final"}, {"final"})
UploadCompleted   == Ok({"quiet", "retry"}, {"retry"})
DownloadCompleted == Ok({"quiet", "left"}, {"quiet", "left"})
KeysUploaded      == Ok({"quiet", "final"}, {"quiet", "final"})

\* What becomes of errors and of bad responses ("report" is matrix_api_error
\* and matrix_api_bad_response) and of a success, and whether the room keeps the
\* handle in its slot.
E(error, bad, ok, inSlot) == [error |-> error, bad |-> bad, ok |-> ok, inSlot |-> inSlot]

Login      == E("report", "report", LoginCompleted, FALSE)
Whoami     == E("own", "own", WhoamiCompleted, FALSE)
Sync       == E("report", "report", SyncCompleted, FALSE)
SendEvent  == E("report", "report", Ignored, TRUE)
UploadFile == E("report", "report", UploadCompleted, TRUE)
Download   == E("own", "own", DownloadCompleted, TRUE)
Invite     == E("report", "report", Ignored, FALSE)
Join       == E("report", "own", Ignored, FALSE)
LeaveRoom  == E("report", "report", Ignored, FALSE)
Typing     == E("report", "report", Ignored, FALSE)
UploadKeys == E("report", "report", KeysUploaded, FALSE)

Endpoint ==
  [login |-> Login, whoami |-> Whoami, sync |-> Sync, send |-> SendEvent,
   uploadFile |-> UploadFile, download |-> Download, invite |-> Invite,
   join |-> Join, leave |-> LeaveRoom, typing |-> Typing, uploadKeys |-> UploadKeys]

ASSUME TypeIsAName == ContentType # << >>
ASSUME KindsKnown == Kinds \subseteq DOMAIN Endpoint
ASSUME NoneIsApart == None \notin Requests /\ MaxStarts \in Nat

-----------------------------------------------------------------------------
(* Responses.                                                               *)

Token    == STRING
Text     == Seq(Token)
\* The fragments of each; an empty value comes in one.
Header   == [name : Seq(Text), value : Seq(Text) \ {<< >>}]
\* "ends": "whole", or cut short or not HTTP somewhere ("short").
Response == [code : Nat, headers : Seq(Header), body : Seq(Text),
             trailers : Seq(Header), ends : {"whole", "short"}]

\* http_parser hands over no header without a name.
Named(headers) == \A i \in DOMAIN headers : headers[i].name # << >>

ASSUME ResponsesTyped ==
  \A x \in Responses : x \in Response /\ Named(x.headers) /\ Named(x.trailers)

Parser == [last : {"field", "value"}, name : Text, value : Text,
           ctype : Text \cup {None}, got : BOOLEAN, body : Text]

NewParser ==
  [last |-> "value", name |-> << >>, value |-> << >>, ctype |-> None,
   got |-> FALSE, body |-> << >>]

NoResponse == [code |-> 0, headers |-> << >>, body |-> << >>, trailers |-> << >>, ends |-> "short"]

\* How a request was answered: the callback called, the response code, whether
\* there was JSON, and the body.
Answers == [by : {"error", "cancelled", "bad", "ok"}, code : Nat, json : BOOLEAN, body : Text]
ASSUME NoneIsNoAnswer == None \notin Answers
Answer(by, code, json, body) == [by |-> by, code |-> code, json |-> json, body |-> body]
Failure   == Answer("error", 0, FALSE, << >>)
Cancelled == Answer("cancelled", 0, FALSE, << >>)

\* "abandoned": alive, but its connection is closed; "answered": freed after
\* its callback; "twice": a callback was called for what was freed before.
Ats == {"free", "waiting", "abandoned", "answered", "twice"}

Free == [at |-> "free", kind |-> None, calls |-> 0]

TypeOK ==
  /\ gc \in Links
  /\ reqs \in [Requests -> [at : Ats, kind : Kinds \cup {None}, calls : Nat]]
  /\ \A r \in Requests : reqs[r].at # "free" => reqs[r].kind \in Kinds
  /\ slot \in Requests \cup {None}
  /\ slot # None => reqs[slot].at # "free"
  /\ parsing \in Requests \cup {None}
  /\ parsing # None => gc # "gone" /\ reqs[parsing].at = "waiting"
  /\ left \in Response /\ whole \in Response /\ p \in Parser
  /\ told \in Answers \cup {None}
  /\ starts \in 0..MaxStarts

Init ==
  /\ gc = "up" /\ reqs = [r \in Requests |-> Free] /\ slot = None
  /\ parsing = None /\ left = NoResponse /\ p = NewParser /\ whole = NoResponse
  /\ told = None /\ starts = 0

Alive == gc \notin {"gone", "dead"}

\* The main loop runs one callback at a time.
Idle == Alive /\ parsing = None

-----------------------------------------------------------------------------
(* The callbacks of a request.                                              *)

\* purple_connection_error_reason: the first error counts.
Report(fatal) == gc' = IF gc # "up" THEN gc ELSE IF fatal THEN "dying" ELSE "closing"

Quiet == UNCHANGED gc

\* matrix_api_error
ApiError(a) == IF a.by = "cancelled" THEN Quiet ELSE Report(FALSE)

\* matrix_api_bad_response: whether the error is one to give up after.
Fatal(code) == ~(code = 429 \/ code > 500)

ApiBadResponse(a) == Report(Fatal(a.code))

Emptied(k) == IF Endpoint[k].inSlot THEN None ELSE slot

\* An error callback, a bad response's and that of a success.
ErrorCallback(k, a) ==
  /\ slot' = Emptied(k)
  /\ \/ Endpoint[k].error = "report" /\ ApiError(a)
     \/ Endpoint[k].error = "own" /\ Quiet

BadCallback(k, a) ==
  /\ slot' = Emptied(k)
  /\ \/ Endpoint[k].bad = "report" /\ ApiBadResponse(a)
     \/ Endpoint[k].bad = "own" /\ Quiet

OkCallback(k, a) ==
  \E o \in IF a.json THEN Endpoint[k].ok.json ELSE Endpoint[k].ok.other :
    \/ o = "quiet" /\ Quiet /\ slot' = Emptied(k)
    \/ o = "left"  /\ Quiet /\ UNCHANGED slot
    \/ o = "retry" /\ Report(FALSE) /\ UNCHANGED slot
    \/ o = "final" /\ Report(TRUE) /\ UNCHANGED slot

\* The callbacks of matrix_api_complete, of a start that failed and of cancel.
Call(k, a) ==
  /\ told' = a
  /\ \/ a.by \in {"error", "cancelled"} /\ ErrorCallback(k, a)
     \/ a.by = "bad" /\ BadCallback(k, a)
     \/ a.by = "ok" /\ OkCallback(k, a)

Answered(q) == [q EXCEPT !.at = "answered", !.calls = @ + 1]

-----------------------------------------------------------------------------
(* Starting and cancelling.                                                 *)

Fresh(k) == [at |-> "waiting", kind |-> k, calls |-> 0]

\* Nothing is at the address any more, or has ever been.
Unused(r) == reqs[r].at \notin {"waiting", "abandoned"}

\* matrix_api_start_full, and the handle put into the room's slot.
Start(r, k) ==
  /\ Idle /\ Unused(r) /\ starts < MaxStarts
  /\ starts' = starts + 1
  /\ reqs' = [reqs EXCEPT ![r] = Fresh(k)]
  /\ slot' = IF Endpoint[k].inSlot THEN r ELSE slot
  /\ UNCHANGED <<gc, parseVars, told>>

\* It returns NULL, for the URL is not absolute or libpurple can't fetch, and
\* the error callback has been called: by it, or by matrix_api_complete.
StartFails(r, k) ==
  /\ Idle /\ Unused(r) /\ starts < MaxStarts
  /\ starts' = starts + 1
  /\ reqs' = [reqs EXCEPT ![r] = Answered(Fresh(k))]
  /\ Call(k, Failure)
  /\ UNCHANGED parseVars

\* What the room's slot points to was freed, or is now another's.
Stale == Unused(slot) \/ ~Endpoint[reqs[slot].kind].inSlot

Cancel_GoesOn ==
  /\ Idle /\ slot # None /\ ~Stale
  /\ reqs' = [reqs EXCEPT ![slot].calls = @ + 1]
  /\ Call(reqs[slot].kind, Cancelled)
  /\ UNCHANGED <<parseVars, starts>>

CalledAgain(q) == [q EXCEPT !.at = "twice", !.calls = @ + 1]

\* matrix_api_cancel of what is in the slot, when the room is left.  A stale
\* handle ends the process, by the invalid access or the assertion that follows,
\* or its error callback is called once more.
Cancel ==
  /\ Idle /\ slot # None
  /\ \/ /\ ~Stale /\ reqs' = [reqs EXCEPT ![slot] = Answered(@)]
        /\ Call(reqs[slot].kind, Cancelled)
     \/ /\ Stale /\ gc' = "dead" /\ UNCHANGED <<reqs, slot, told>>
     \/ /\ Unused(slot)
        /\ reqs' = [reqs EXCEPT ![slot] = CalledAgain(@)]
        /\ slot' = None /\ told' = Cancelled /\ UNCHANGED gc
  /\ UNCHANGED <<parseVars, starts>>

Close_NotCancelled ==
  /\ Idle /\ gc' = "gone"
  /\ reqs' = [r \in Requests |->
                IF reqs[r].at = "waiting" /\ reqs[r].kind # "sync"
                THEN [reqs[r] EXCEPT !.at = "abandoned"] ELSE reqs[r]]
  /\ UNCHANGED <<slot, parseVars, told, starts>>

\* matrixprpl_close cancels the active sync; what becomes of the others is the
\* subject of Connection and SendQueue.
Close ==
  /\ Idle /\ gc' = "gone"
  /\ reqs' = [r \in Requests |->
                IF reqs[r].at # "waiting" THEN reqs[r]
                ELSE IF reqs[r].kind = "sync" THEN Answered(reqs[r])
                ELSE [reqs[r] EXCEPT !.at = "abandoned"]]
  /\ UNCHANGED <<slot, parseVars, told, starts>>

Reconnect ==
  /\ gc = "gone" /\ gc' = "up"
  /\ UNCHANGED <<reqs, slot, parseVars, told, starts>>

-----------------------------------------------------------------------------
(* Reading the response: all in one call of matrix_api_complete.            *)

\* The callback that libpurple calls with an error.
FetchFails(r) ==
  /\ Idle /\ reqs[r].at = "waiting"
  /\ reqs' = [reqs EXCEPT ![r] = Answered(@)]
  /\ Call(reqs[r].kind, Failure)
  /\ UNCHANGED <<parseVars, starts>>

ResponseArrives(r) ==
  /\ Idle /\ reqs[r].at = "waiting"
  /\ parsing' = r /\ p' = NewParser /\ told' = None
  /\ \E x \in Responses : whole' = x /\ left' = x
  /\ UNCHANGED <<gc, reqs, slot, starts>>

InParser == parsing # None /\ gc # "dead"

\* _handle_header_completed
Completed(d) == IF d.name = ContentType THEN [d EXCEPT !.ctype = d.value] ELSE d

FieldRead_Whole(d, at) ==
  [Completed(d) EXCEPT !.name = at, !.value = << >>, !.last = "field"]

\* What _handle_header_field makes of the parser data d.
FieldRead(d, at) ==
  IF d.last = "value"
  THEN [Completed(d) EXCEPT !.name = at, !.value = << >>, !.last = "field"]
  ELSE [d EXCEPT !.name = @ \o at]

\* http_parser's callbacks, one for each fragment, those of trailers after
\* the body.
HandleHeaderField ==
  /\ InParser /\ left.headers # << >> /\ left.headers[1].name # << >>
  /\ p.got => left.body = << >>
  /\ left' = [left EXCEPT !.headers[1].name = Tail(@)]
  /\ p' = FieldRead(p, Head(left.headers[1].name))
  /\ UNCHANGED <<gc, reqs, slot, parsing, whole, told, starts>>

HandleHeaderValue ==
  /\ InParser /\ left.headers # << >> /\ left.headers[1].name = << >>
  /\ LET v == left.headers[1].value
     IN /\ p' = [p EXCEPT !.value = @ \o Head(v), !.last = "value"]
        /\ left' = IF Len(v) = 1 THEN [left EXCEPT !.headers = Tail(@)]
                   ELSE [left EXCEPT !.headers[1].value = Tail(@)]
  /\ UNCHANGED <<gc, reqs, slot, parsing, whole, told, starts>>

HandleHeadersComplete ==
  /\ InParser /\ ~p.got /\ left.headers = << >>
  /\ p' = [Completed(p) EXCEPT !.got = TRUE]
  /\ left' = [left EXCEPT !.headers = left.trailers, !.trailers = << >>]
  /\ UNCHANGED <<gc, reqs, slot, parsing, whole, told, starts>>

BodyRead_Last(d, at) == [d EXCEPT !.body = at]

BodyRead(d, at) == [d EXCEPT !.body = @ \o at]

HandleBody ==
  /\ InParser /\ p.got /\ left.body # << >>
  /\ p' = BodyRead(p, Head(left.body))
  /\ left' = [left EXCEPT !.body = Tail(@)]
  /\ UNCHANGED <<gc, reqs, slot, parsing, whole, told, starts>>

\* The end of matrix_api_complete.
Finish(a) ==
  /\ reqs' = [reqs EXCEPT ![parsing] = Answered(@)]
  /\ Call(reqs[parsing].kind, a)
  /\ parsing' = None /\ left' = NoResponse /\ p' = NewParser /\ whole' = NoResponse
  /\ UNCHANGED starts

StopsShort_Ignored ==
  /\ InParser /\ left.ends = "short"
  /\ Finish(IF p.got THEN Answer(IF whole.code >= 300 THEN "bad" ELSE "ok",
                                 whole.code, FALSE, p.body)
            ELSE Failure)

\* http_parser finds an error or the end of the data too early.
StopsShort ==
  /\ InParser /\ left.ends = "short"
  /\ Finish(Failure)

\* _handle_message_complete returns 0.
Usable(d) == d.ctype # None /\ (d.ctype = Json => d.body \in JsonTexts)

\* json_parser_load_from_data refuses a NULL body without giving a reason, and
\* the reason is read.
NoReason(d) == d.ctype = Json /\ d.body = << >>

AtEnd ==
  /\ InParser /\ left.ends = "whole" /\ p.got
  /\ left.headers = << >> /\ left.body = << >>

HandleMessageComplete_Reports ==
  \/ /\ AtEnd /\ ~Usable(p)
     /\ reqs' = [reqs EXCEPT ![parsing] = Answered(@)]
     /\ Call(reqs[parsing].kind, Failure)
     /\ UNCHANGED <<parseVars, starts>>
  \/ /\ AtEnd /\ Usable(p)
     /\ Finish(Answer("ok", whole.code, p.ctype = Json, p.body))

HandleMessageComplete ==
  \/ /\ AtEnd /\ NoReason(p)
     /\ gc' = "dead"
     /\ UNCHANGED <<reqs, slot, parseVars, told, starts>>
  \/ /\ AtEnd /\ ~NoReason(p) /\ ~Usable(p)
     /\ Finish(Failure)
  \/ /\ AtEnd /\ ~NoReason(p) /\ Usable(p)
     /\ Finish(Answer(IF whole.code >= 300 THEN "bad" ELSE "ok", whole.code,
                      p.ctype = Json, p.body))

Parse ==
  \/ HandleHeaderField \/ HandleHeaderValue \/ HandleHeadersComplete
  \/ HandleBody \/ StopsShort \/ HandleMessageComplete

Next ==
  \/ \E r \in Requests, k \in Kinds : Start(r, k) \/ StartFails(r, k)
  \/ \E r \in Requests : FetchFails(r) \/ ResponseArrives(r)
  \/ Parse \/ Cancel \/ Close \/ Reconnect

Spec == Init /\ [][Next]_vars

(* Every request is answered or times out; a callback runs to its end.      *)
FairSpec ==
  /\ Spec
  /\ \A r \in Requests : WF_vars(FetchFails(r) \/ ResponseArrives(r))
  /\ WF_vars(Parse)

-----------------------------------------------------------------------------
(* Properties.                                                              *)

\* The value of the last header with the name, whatever its fragments.
ContentTypeOf(x) ==
  LET named == {i \in DOMAIN x.headers : FlattenSeq(x.headers[i].name) = ContentType}
  IN IF named = {} THEN None
     ELSE FlattenSeq(x.headers[CHOOSE i \in named : \A j \in named : j <= i].value)

\* What a response should be answered with.
Verdict(x) ==
  LET ctype == ContentTypeOf(x)
      body  == FlattenSeq(x.body)
      json  == ctype = Json
  IN IF x.ends = "short" \/ ctype = None \/ (json /\ body \notin JsonTexts)
     THEN Failure
     ELSE Answer(IF x.code >= 300 THEN "bad" ELSE "ok", x.code, json, body)

\* HTTP allows no Content-Type after the body.  The code takes one that another
\* trailer follows, and not one that is the last, for _handle_headers_complete is
\* not called again.
NoTypeInTrailers(x) ==
  \A i \in DOMAIN x.trailers : FlattenSeq(x.trailers[i].name) # ContentType

\* _handle_header_field and _handle_header_value join the fragments: once the
\* headers are complete the content type is the response's, trailers or not.
HeadersJoined ==
  p.got /\ NoTypeInTrailers(whole) => p.ctype = ContentTypeOf(whole)

\* A callback is told what the response says, and is told of success only
\* when the whole of the response says so.
AnswersTrue ==
  [][parsing # None /\ parsing' = None /\ NoTypeInTrailers(whole)
     => told' = Verdict(whole)]_vars

\* "In this case, the error_callback will have been called already": each
\* request has exactly one callback called, however it ends, unless the room is
\* left with a stale handle in its slot.
AnsweredOnce ==
  \A r \in Requests :
    reqs[r].at = "twice" \/ reqs[r].calls = IF reqs[r].at = "answered" THEN 1 ELSE 0

\* Only what the homeserver said may end the account for good: a response that
\* came whole and can be used, a refusal or a success without what is needed,
\* and never with 429 or a code over 500.  A request that fails, can't start or
\* is cancelled, and a response cut short, leave libpurple to try again.  (The
\* comment of matrix_api_bad_response promises the same of 500, its test is for
\* what is over 500: an answer with 500 does end the account.)
FinalOnlyOnAnswer ==
  [][gc = "up" /\ gc' = "dying" /\ NoTypeInTrailers(whole)
     => /\ parsing # None /\ Verdict(whole).by \in {"ok", "bad"}
        /\ whole.code # 429 /\ whole.code <= 500]_vars

\* A request is answered in the end, unless its connection is closed first.
AnswersCome ==
  \A r \in Requests : reqs[r].at = "waiting" ~> reqs[r].at # "waiting" \/ gc = "dead"
=============================================================================
