---------------------------- MODULE ChatsProofs ----------------------------
(***************************************************************************)
(* Proofs about Chats, for any number of rooms, events and failures:       *)
(* conversations, invitations, messages and the user's wishes against what *)
(* the homeserver has.                                                     *)
(***************************************************************************)
EXTENDS Chats, WellFoundedInduction, TLAPS

-----------------------------------------------------------------------------
(* The homeserver's stream.                                                 *)

LEMMA LessThanWellFounded == IsWellFoundedOn({x \in Nat \X Nat : x[1] < x[2]}, Nat)
BY NatLessThanWellFounded DEF OpToRel

\* A set of positions has a last one.
LEMMA LastIsLast ==
  ASSUME NEW n \in Nat, NEW S \in SUBSET (1..n), S # {}
  PROVE  LastOf(S) \in S /\ \A j \in S : j <= LastOf(S)
<1> DEFINE R == {x \in Nat \X Nat : x[1] < x[2]}
           T == {n - i : i \in S}
<1>1. \A i \in S : n - i \in Nat
  OBVIOUS
<1>2. T \subseteq Nat /\ T # {}
  BY <1>1
<1>3. \E x \in T : \A y \in T : ~ (<<y, x>> \in R)
  <2>1. IsWellFoundedOn(R, Nat)
    BY LessThanWellFounded
  <2> HIDE DEF R, T
  <2> QED
    BY <1>2, <2>1, WFMin
<1>4. PICK x \in T : \A y \in T : ~(y < x)
  BY <1>2, <1>3
<1>5. PICK i \in S : x = n - i
  BY <1>4
<1>6. \A j \in S : ~(n - j < n - i)
  BY <1>4, <1>5
<1>7. ASSUME NEW j \in S PROVE j <= i
  <2>1. i \in Int /\ j \in Int /\ ~(n - j < n - i)
    BY <1>6
  <2> QED
    BY <2>1
<1> QED
  BY <1>7 DEF LastOf

LEMMA MemberIsLast ==
  ASSUME log \in Seq(Event), NEW r \in Rooms, NEW n \in 0..Len(log), Moves(r, n) # {}
  PROVE  /\ LastOf(Moves(r, n)) \in Moves(r, n) /\ LastOf(Moves(r, n)) \in 1..Len(log)
         /\ MemberAt(r, n) = log[LastOf(Moves(r, n))].what
<1>1. Moves(r, n) \in SUBSET (1..n) /\ n \in Nat
  BY DEF Moves
<1>2. LastOf(Moves(r, n)) \in Moves(r, n)
  BY <1>1, LastIsLast
<1> QED
  BY <1>1, <1>2 DEF MemberAt

\* The stream grows at its end: what was is as it was, and the new event is the
\* last of its room.
LEMMA HappensLast ==
  ASSUME log \in Seq(Event), NEW what \in What, NEW r \in Rooms, Happens(what, r)
  PROVE  /\ log' \in Seq(Event) /\ Len(log') = Len(log) + 1
         /\ \A s \in Rooms, n \in 0..Len(log) :
              Moves(s, n)' = Moves(s, n) /\ MemberAt(s, n)' = MemberAt(s, n)
         /\ \A s \in Rooms : s # r \/ what = "message" => Member(s)' = Member(s)
         /\ what # "message" => Member(r)' = what
<1> DEFINE e == [what |-> what, room |-> r]
           m == Len(log)
<1>1. e \in Event /\ e.what = what /\ e.room = r
  BY DEF Event
<1>2. /\ log' \in Seq(Event) /\ Len(log') = m + 1 /\ m \in Nat
      /\ \A i \in 1..m : log'[i] = log[i]
      /\ log'[m + 1] = e
  BY <1>1 DEF Happens
<1> HIDE DEF e
<1>3. ASSUME NEW s \in Rooms, NEW n \in 0..m
      PROVE  Moves(s, n)' = Moves(s, n) /\ MemberAt(s, n)' = MemberAt(s, n)
  <2>1. Moves(s, n)' = Moves(s, n)
    BY <1>2 DEF Moves
  <2>2. CASE Moves(s, n) = {}
    BY <2>1, <2>2 DEF MemberAt
  <2>3. CASE Moves(s, n) # {}
    <3>1. LastOf(Moves(s, n)) \in 1..m
      BY <2>3, MemberIsLast
    <3>2. log'[LastOf(Moves(s, n))] = log[LastOf(Moves(s, n))]
      BY <1>2, <3>1
    <3> QED
      BY <2>1, <3>2 DEF MemberAt
  <2> QED
    BY <2>1, <2>2, <2>3
<1>4. ASSUME NEW s \in Rooms, s # r \/ what = "message" PROVE Member(s)' = Member(s)
  <2>1. Moves(s, Len(log))' = Moves(s, Len(log))
    BY <1>1, <1>2, <1>4 DEF Moves
  <2>2. CASE Moves(s, m) = {}
    BY <2>1, <2>2 DEF MemberAt, Member
  <2>3. CASE Moves(s, m) # {}
    <3>1. LastOf(Moves(s, m)) \in 1..m
      BY <1>2, <2>3, MemberIsLast
    <3>2. log'[LastOf(Moves(s, m))] = log[LastOf(Moves(s, m))]
      BY <1>2, <3>1
    <3> QED
      BY <2>1, <3>2 DEF MemberAt, Member
  <2> QED
    BY <2>2, <2>3
<1>5. ASSUME what # "message" PROVE Member(r)' = what
  <2>1. m + 1 \in Moves(r, Len(log))' /\ Moves(r, Len(log))' \in SUBSET (1..(m + 1))
    BY <1>1, <1>2, <1>5 DEF Moves
  <2>2. LastOf(Moves(r, Len(log))') = m + 1
    <3> DEFINE S == Moves(r, Len(log))'
    <3>1. S \in SUBSET (1..(m + 1)) /\ m + 1 \in S
      BY <2>1
    <3> HIDE DEF S
    <3>2. m + 1 \in Nat /\ S # {}
      BY <1>2, <3>1
    <3>3. LastOf(S) \in S /\ m + 1 <= LastOf(S)
      BY <3>1, <3>2, LastIsLast
    <3>4. LastOf(S) \in 1..(m + 1)
      BY <3>1, <3>3
    <3>5. LastOf(S) = m + 1
      BY <3>2, <3>3, <3>4
    <3> QED
      BY <3>5 DEF S
  <2> QED
    BY <1>1, <1>2, <2>1, <2>2 DEF Member, MemberAt, LastOf
<1> QED
  BY <1>2, <1>3, <1>4, <1>5

-----------------------------------------------------------------------------
(* Types.                                                                   *)

\* A conversation is "left" only while there is no connection.
Linked == gc # "gone" => \A r \in Rooms : conv[r] # "left"

Typed == TypeOK /\ Linked

LEMMA TroubleTyped ==
  ASSUME troubles \in 0..MaxTroubles, Trouble
  PROVE  troubles' \in 0..MaxTroubles
BY BoundsAreNumbers DEF Trouble

LEMMA RequestsTyped ==
  /\ \A q \in Request :
       /\ \A at \in {"sent", "done", "refused"} :
            /\ [q EXCEPT !.at = at] \in Request /\ [q EXCEPT !.at = at].at = at
            /\ [q EXCEPT !.at = at].op = q.op /\ [q EXCEPT !.at = at].room = q.room
            /\ [q EXCEPT !.at = at].own = q.own
       /\ [q EXCEPT !.own = FALSE] \in Request /\ ~[q EXCEPT !.own = FALSE].own
       /\ [q EXCEPT !.own = FALSE].op = q.op /\ [q EXCEPT !.own = FALSE].room = q.room
       /\ [q EXCEPT !.own = FALSE].at = q.at
  /\ \A op \in {"join", "leave"}, r \in Rooms :
       /\ Sent(op, r) \in Request /\ Sent(op, r).op = op /\ Sent(op, r).room = r
       /\ Sent(op, r).at = "sent" /\ Sent(op, r).own
BY DEF Request, Sent

\* What a step of the homeserver makes of the requests.
Carried(q, at) == (out \ {q}) \cup {[q EXCEPT !.at = at]}

LEMMA HandlesCases ==
  ASSUME NEW q \in out, Handles(q)
  PROVE  /\ q.at = "sent" /\ UNCHANGED <<clientVars, userVars, seenVars, troubles>>
         /\ \/ /\ q.op = "join" /\ Member(q.room) = "invite"
               /\ Happens("join", q.room) /\ out' = Carried(q, "done")
            \/ /\ q.op = "leave" /\ Member(q.room) # "leave"
               /\ Happens("leave", q.room) /\ out' = Carried(q, "done")
            \/ /\ q.op = "join" /\ Member(q.room) = "join"
               /\ out' = Carried(q, "done") /\ UNCHANGED log
            \/ Member(q.room) = "leave" /\ out' = Carried(q, "refused") /\ UNCHANGED log
BY DEF Handles, Carried

\* What the stream's growing does to the types of what counts its positions.
LEMMA GrownTyped ==
  ASSUME TypeOK, log' \in Seq(Event), Len(log') \in {Len(log), Len(log) + 1},
         UNCHANGED <<since, reply, raised, unshown>>
  PROVE  /\ since' \in 0..Len(log') /\ reply' \in (since'..Len(log')) \cup {None}
         /\ raised' \subseteq 1..Len(log') /\ unshown' \subseteq 1..Len(log')
<1>1. Len(log) \in Nat
  BY DEF TypeOK
<1> QED
  BY <1>1 DEF TypeOK

\* The stream grows by an event, if it does.
Grows == UNCHANGED log \/ \E what \in What, r \in Rooms : Happens(what, r)

LEMMA GrowsTyped ==
  ASSUME TypeOK, Grows
  PROVE  log' \in Seq(Event) /\ Len(log') \in {Len(log), Len(log) + 1}
<1>1. log \in Seq(Event)
  BY DEF TypeOK
<1> QED
  BY <1>1, HappensLast DEF Grows

LEMMA NextGrows == TypeOK /\ [Next]_vars => Grows
<1> SUFFICES ASSUME TypeOK, [Next]_vars PROVE Grows
  OBVIOUS
<1>1. \A q \in out : q.room \in Rooms
  BY DEF TypeOK, Request
<1>2. ASSUME NEW q \in out, Handles(q) PROVE Grows
  BY <1>1, <1>2, HandlesCases DEF Grows, What
<1>3. ASSUME NEW r \in Rooms, Invited(r) \/ Message(r) \/ Elsewhere(r) PROVE Grows
  BY <1>3 DEF Invited, Message, Elsewhere, Grows, What
<1>4. CASE UNCHANGED log
  BY <1>4 DEF Grows
<1> QED
  BY <1>2, <1>3, <1>4
     DEF Next, vars, JoinChat, RejectChat, ChatLeave, CloseWindow, Answered, RequestFails,
         OrphanEnds, ServerResponds, SyncComplete, SyncFails, Connect, Close, clientVars

LEMMA InvitesAreMembers ==
  ASSUME TypeOK, reply # None, NEW r \in InvitesToRaise(since, reply)
  PROVE  /\ r \in Rooms /\ MemberAt(r, reply) = "invite"
         /\ LastOf(Moves(r, reply)) \in 1..Len(log)
<1>1. r \in Rooms /\ MemberAt(r, reply) = "invite"
  BY DEF InvitesToRaise, InviteSection
<1>2. Moves(r, reply) # {}
  BY <1>1 DEF MemberAt
<1>3. reply \in 0..Len(log) /\ log \in Seq(Event)
  BY DEF TypeOK
<1> QED
  BY <1>1, <1>2, <1>3, MemberIsLast

LEMMA InitTyped == Init => Typed
BY BoundsAreNumbers, NoneIsNoPosition
   DEF Init, Typed, TypeOK, Linked, Links, Convs, Wishes

LEMMA SyncCompleteTyped ==
  ASSUME Typed, SyncComplete
  PROVE  Typed' /\ unshown' = unshown
<1> DEFINE ins   == JoinSection(since, reply)
           asks  == InvitesToRaise(since, reply)
           fresh == {r \in ins : conv[r] = "none"}
           new   == [r \in Rooms |-> IF r \in fresh THEN "in" ELSE conv[r]]
<1>1. /\ gc # "gone" /\ reply # None
      /\ blist' = blist \cup ins /\ conv' = new /\ prompt' = prompt \cup asks
      /\ raised' = raised \cup {LastOf(Moves(r, reply)) : r \in asks}
      /\ unshown' = unshown \cup
           UNION {Timeline(r, since, reply) : r \in {s \in ins : new[s] # "in"}}
      /\ stale' = (stale \ ins) \cup {r \in ins : Leaving(r)}
      /\ closed' = closed \ fresh
      /\ since' = reply /\ reply' = None /\ gc' \in {"up", gc}
      /\ UNCHANGED <<log, out, userVars, troubles>>
  BY DEF SyncComplete, Alive
<1>2. ins \subseteq Rooms /\ asks \subseteq Rooms
  BY DEF JoinSection, InvitesToRaise, InviteSection
<1>3. conv \in [Rooms -> Convs] /\ \A r \in Rooms : conv[r] # "left"
  BY <1>1 DEF Typed, TypeOK, Linked
<1>4. new \in [Rooms -> Convs] /\ \A r \in Rooms : new[r] # "left"
  BY <1>3 DEF Convs
<1>5. \A r \in ins : new[r] = "in"
  BY <1>2, <1>3 DEF Convs
<1>6. unshown' = unshown
  <2>1. {s \in ins : new[s] # "in"} = {}
    BY <1>5
  <2> HIDE DEF ins, new
  <2> QED
    BY <1>1, <2>1
<1>7. \A r \in Rooms : new[r] # "none" => r \in blist'
  BY <1>1, <1>2 DEF Typed, TypeOK
<1>8. raised' \subseteq 1..Len(log)
  BY <1>1, InvitesAreMembers DEF Typed, TypeOK
<1> HIDE DEF ins, asks, fresh, new
<1>9. since' \in 0..Len(log) /\ gc' \in Links /\ gc' # "gone"
  BY <1>1 DEF Typed, TypeOK, Links
<1>10. blist' \subseteq Rooms /\ prompt' \subseteq Rooms /\ stale' \subseteq Rooms /\ closed' \subseteq Rooms
  BY <1>1, <1>2 DEF Typed, TypeOK
<1>11. TypeOK'
  BY <1>1, <1>4, <1>6, <1>7, <1>8, <1>9, <1>10 DEF Typed, TypeOK, userVars
<1>12. Linked'
  BY <1>1, <1>4 DEF Linked
<1> QED
  BY <1>6, <1>11, <1>12 DEF Typed

LEMMA StepTyped == Typed /\ [Next]_vars => Typed'
<1> SUFFICES ASSUME Typed, [Next]_vars PROVE TypeOK' /\ Linked'
  BY DEF Typed
<1>0. /\ out \subseteq Request /\ wish \in [Rooms -> Wishes] /\ crossed \subseteq Rooms
      /\ stale \subseteq Rooms /\ closed \subseteq Rooms /\ troubles \in 0..MaxTroubles
  BY DEF Typed, TypeOK
<1>1. ASSUME UNCHANGED <<since, reply, raised, unshown>>
      PROVE  /\ log' \in Seq(Event)
             /\ since' \in 0..Len(log') /\ reply' \in (since'..Len(log')) \cup {None}
             /\ raised' \subseteq 1..Len(log') /\ unshown' \subseteq 1..Len(log')
  BY <1>1, NextGrows, GrowsTyped, GrownTyped DEF Typed
<1>2. ASSUME NEW r \in Rooms, Invited(r) \/ Message(r) \/ Elsewhere(r)
      PROVE  TypeOK' /\ Linked'
  <2>1. /\ UNCHANGED <<clientVars, out, crossed, raised, unshown, closed, troubles>>
        /\ wish' \in [Rooms -> Wishes] /\ stale' \subseteq Rooms
    BY <1>0, <1>2 DEF Invited, Message, Elsewhere, userVars, seenVars, Wishes
  <2> QED
    BY <1>1, <2>1 DEF Typed, TypeOK, Linked, clientVars
<1>3. ASSUME NEW q \in out, Handles(q) PROVE TypeOK' /\ Linked'
  <2>1. UNCHANGED <<clientVars, userVars, seenVars, troubles>>
        /\ \E at \in {"sent", "done", "refused"} : out' = Carried(q, at)
    BY <1>3, HandlesCases
  <2>2. out' \subseteq Request
    <3>1. PICK at \in {"sent", "done", "refused"} : out' = Carried(q, at)
      BY <2>1
    <3>2. [q EXCEPT !.at = at] \in Request
      BY <1>0, RequestsTyped
    <3> QED
      BY <1>0, <3>1, <3>2 DEF Carried
  <2> QED
    BY <1>1, <2>1, <2>2 DEF Typed, TypeOK, Linked, clientVars, userVars, seenVars
<1>4. ASSUME NEW r \in Rooms, JoinChat(r) \/ RejectChat(r) \/ ChatLeave(r) \/ CloseWindow(r)
      PROVE  TypeOK' /\ Linked'
  <2>1. /\ UNCHANGED <<log, gc, since, reply, blist, raised, unshown, troubles>>
        /\ prompt' \subseteq prompt /\ stale' \subseteq Rooms /\ closed' \subseteq Rooms
    BY <1>0, <1>4 DEF JoinChat, RejectChat, ChatLeave, CloseWindow, seenVars
  <2>2. out' \subseteq Request /\ crossed' \subseteq Rooms
    BY <1>0, <1>4, RequestsTyped DEF JoinChat, RejectChat, ChatLeave, CloseWindow, Send
  <2>3. wish' \in [Rooms -> Wishes]
    BY <1>0, <1>4 DEF JoinChat, RejectChat, ChatLeave, CloseWindow, Wishes
  <2>4. /\ conv' \in [Rooms -> Convs]
        /\ \A s \in Rooms : conv'[s] # "none" => conv[s] # "none"
        /\ \A s \in Rooms : conv'[s] = conv[s] \/ conv'[s] = "none" \/ (conv'[s] = "in" /\ gc = "up")
    BY <1>4 DEF JoinChat, RejectChat, ChatLeave, CloseWindow, Convs, Typed, TypeOK
  <2>5. TypeOK'
    BY <2>1, <2>2, <2>3, <2>4, <1>1 DEF Typed, TypeOK
  <2>6. Linked'
    BY <2>1, <2>4 DEF Typed, Linked
  <2> QED
    BY <2>5, <2>6
<1>5. ASSUME NEW q \in out, Answered(q) \/ RequestFails(q) \/ OrphanEnds(q)
      PROVE  TypeOK' /\ Linked'
  <2>1. /\ UNCHANGED <<log, since, reply, conv, blist, prompt, crossed, raised, unshown, stale>>
        /\ gc' \in {gc, "closing"} /\ (gc' = "gone" => gc = "gone")
        /\ (gc = "gone" => gc' = "gone")
    BY <1>5 DEF Answered, RequestFails, OrphanEnds, seenVars, userVars, clientVars, Alive
  <2>2. out' \subseteq Request
    <3>1. [q EXCEPT !.own = FALSE] \in Request
      BY <1>0, RequestsTyped
    <3> QED
      BY <1>0, <1>5, <3>1 DEF Answered, RequestFails, OrphanEnds
  <2>3. wish' \in [Rooms -> Wishes]
    BY <1>0, <1>5 DEF Answered, RequestFails, OrphanEnds, userVars, Wishes
  <2>4. closed' \subseteq Rooms
    BY <1>0, <1>5 DEF Answered, RequestFails, OrphanEnds, seenVars, Request
  <2>5. troubles' \in 0..MaxTroubles
    BY <1>0, <1>5, TroubleTyped DEF Answered, RequestFails, OrphanEnds
  <2>6. TypeOK'
    BY <1>1, <2>1, <2>2, <2>3, <2>4, <2>5 DEF Typed, TypeOK, Links
  <2>7. Linked'
    BY <2>1 DEF Typed, Linked
  <2> QED
    BY <2>6, <2>7
<1>6. CASE ServerResponds
  <2>1. /\ UNCHANGED <<log, gc, since, conv, blist, prompt, out, userVars, seenVars, troubles>>
        /\ reply' = Len(log) /\ gc # "gone"
    BY <1>6 DEF ServerResponds, Alive
  <2>2. reply' \in (since'..Len(log')) \cup {None}
    BY <2>1 DEF Typed, TypeOK
  <2> QED
    BY <2>1, <2>2 DEF Typed, TypeOK, Linked, userVars, seenVars
<1>7. CASE SyncComplete
  BY <1>7, SyncCompleteTyped DEF Typed
<1>8. CASE SyncFails
  <2>1. /\ UNCHANGED <<log, since, conv, blist, prompt, out, userVars, seenVars>>
        /\ reply' = None /\ gc' = "closing" /\ gc # "gone"
    BY <1>8 DEF SyncFails, Alive
  <2>2. troubles' \in 0..MaxTroubles
    BY <1>0, <1>8, TroubleTyped DEF SyncFails
  <2> QED
    BY <2>1, <2>2 DEF Typed, TypeOK, Linked, userVars, seenVars, Links
<1>9. CASE Connect
  <2>1. /\ UNCHANGED <<log, reply, blist, prompt, out, userVars, raised, unshown, stale, troubles>>
        /\ gc = "gone" /\ gc' \in {"connecting", "up"} /\ since' \in {0, since}
        /\ closed' \subseteq closed
        /\ conv' = [r \in Rooms |-> IF conv[r] = "left" THEN "in" ELSE conv[r]]
    <3>1. conv \in [Rooms -> Convs]
      BY DEF Typed, TypeOK
    <3> QED
      BY <1>9, <3>1 DEF Connect
  <2>2. conv' \in [Rooms -> Convs] /\ \A r \in Rooms : conv'[r] # "left" /\ (conv'[r] # "none" => conv[r] # "none")
    BY <2>1 DEF Typed, TypeOK, Convs
  <2>3. since' \in 0..Len(log') /\ reply' = None
    BY <2>1 DEF Typed, TypeOK
  <2>4. TypeOK'
    BY <2>1, <2>2, <2>3 DEF Typed, TypeOK, userVars, Links
  <2>5. Linked'
    BY <2>2 DEF Linked
  <2> QED
    BY <2>4, <2>5
<1>10. CASE Close
  <2>1. /\ UNCHANGED <<log, since, blist, crossed, seenVars>>
        /\ gc' = "gone" /\ reply' = None /\ prompt' = {}
        /\ conv' = [r \in Rooms |-> IF conv[r] = "in" THEN "left" ELSE conv[r]]
        /\ out' = {[q EXCEPT !.own = FALSE] : q \in {x \in out : x.at = "sent"}}
        /\ wish' = [r \in Rooms |-> IF \E q \in out : q.room = r THEN "any" ELSE wish[r]]
    BY <1>10 DEF Close
  <2>2. conv' \in [Rooms -> Convs] /\ \A r \in Rooms : conv'[r] # "in" /\ (conv'[r] # "none" => conv[r] # "none")
    BY <2>1 DEF Typed, TypeOK, Convs
  <2>3. out' \subseteq Request
    <3>1. \A q \in out : [q EXCEPT !.own = FALSE] \in Request
      BY <1>0, RequestsTyped
    <3> QED
      BY <2>1, <3>1
  <2>4. wish' \in [Rooms -> Wishes]
    BY <1>0, <2>1 DEF Wishes
  <2>5. troubles' \in 0..MaxTroubles
    BY <1>0, <1>10, TroubleTyped DEF Close
  <2>6. TypeOK'
    BY <2>1, <2>2, <2>3, <2>4, <2>5 DEF Typed, TypeOK, seenVars, Links
  <2>7. Linked'
    BY <2>1 DEF Linked
  <2> QED
    BY <2>6, <2>7
<1>11. CASE UNCHANGED vars
  BY <1>11 DEF vars, userVars, seenVars, Typed, TypeOK, Linked
<1> QED
  BY <1>2, <1>3, <1>4, <1>5, <1>6, <1>7, <1>8, <1>9, <1>10, <1>11 DEF Next

\* Conversations, requests and positions in the stream keep their types, every
\* conversation has its entry in the buddy list, and none is in use while the
\* account is offline: matrix_sync_room, matrixprpl_close.
THEOREM TypeCorrect == Spec => []TypeOK
<1>1. Typed => TypeOK
  BY DEF Typed
<1> QED
  BY InitTyped, StepTyped, <1>1, PTL DEF Spec

-----------------------------------------------------------------------------
(* Messages and invitations.                                                *)

LEMMA UnshownStays == Typed /\ [Next]_vars => unshown' = unshown
<1> SUFFICES ASSUME Typed, [Next]_vars PROVE unshown' = unshown
  OBVIOUS
<1>1. CASE SyncComplete
  BY <1>1, SyncCompleteTyped
<1>2. CASE UNCHANGED unshown
  BY <1>2
<1> QED
  BY <1>1, <1>2
     DEF Next, vars, seenVars, Invited, Message, Elsewhere, Handles, ServerResponds, Connect,
         SyncFails, JoinChat, RejectChat, ChatLeave, Answered, RequestFails, OrphanEnds, Close,
         CloseWindow

\* Every message of a response's timeline has its conversation in use by then:
\* the first pass of matrix_sync_parse makes the missing ones, and those left by
\* a disconnection are joined again before a response comes.
THEOREM AllShown == Spec => []MessagesShown
<1>1. Init => MessagesShown
  BY DEF Init, MessagesShown
<1>2. MessagesShown /\ unshown' = unshown => MessagesShown'
  BY DEF MessagesShown
<1> QED
  BY InitTyped, StepTyped, UnshownStays, <1>1, <1>2, PTL DEF Spec

\* A room without news is as it was.
LEMMA NoNews ==
  ASSUME TypeOK, reply # None, NEW r \in Rooms, News(r, since, reply) = {}
  PROVE  Moves(r, reply) = Moves(r, since) /\ MemberAt(r, reply) = MemberAt(r, since)
<1>1. since \in Nat /\ reply \in Nat /\ since <= reply
  BY DEF TypeOK
<1>2. \A i \in 1..reply : i \in 1..since \/ i \in (since + 1)..reply
  BY <1>1
<1>3. Moves(r, reply) = Moves(r, since)
  BY <1>1, <1>2 DEF Moves, News
<1> QED
  BY <1>3 DEF MemberAt

LEMMA StepRaised == Typed /\ InvitesRaised /\ [Next]_vars => InvitesRaised'
<1> SUFFICES ASSUME Typed, InvitesRaised, [Next]_vars,
                    NEW r \in Rooms, MemberAt(r, since)' = "invite"
             PROVE  LastOf(Moves(r, since))' \in raised'
  BY DEF InvitesRaised
<1>0. log \in Seq(Event) /\ since \in 0..Len(log)
  BY DEF Typed, TypeOK
<1>1. ASSUME UNCHANGED <<since, raised>> PROVE LastOf(Moves(r, since))' \in raised'
  <2>1. /\ Moves(r, since)' = Moves(r, since)
        /\ MemberAt(r, since)' = MemberAt(r, since)
    <3>1. CASE UNCHANGED log
      BY <1>1, <3>1 DEF Moves, MemberAt
    <3>2. ASSUME NEW what \in What, NEW s \in Rooms, Happens(what, s)
          PROVE  /\ Moves(r, since)' = Moves(r, since)
                 /\ MemberAt(r, since)' = MemberAt(r, since)
      <4>1. \A n \in 0..Len(log) :
              Moves(r, n)' = Moves(r, n) /\ MemberAt(r, n)' = MemberAt(r, n)
        BY <1>0, <3>2, HappensLast
      <4> QED
        BY <1>0, <1>1, <4>1 DEF Moves, MemberAt
    <3> QED
      BY <3>1, <3>2, NextGrows DEF Typed, Grows
  <2>2. LastOf(Moves(r, since))' = LastOf(Moves(r, since))
    BY <2>1 DEF LastOf
  <2> QED
    BY <1>1, <2>1, <2>2 DEF InvitesRaised
<1>2. CASE SyncComplete
  <2>1. /\ reply # None /\ since' = reply /\ UNCHANGED log
        /\ raised' = raised \cup {LastOf(Moves(s, reply)) : s \in InvitesToRaise(since, reply)}
    BY <1>2 DEF SyncComplete
  <2>2. MemberAt(r, reply) = "invite" /\ LastOf(Moves(r, since))' = LastOf(Moves(r, reply))
    BY <2>1 DEF MemberAt, Moves, LastOf
  <2>3. CASE r \in InviteSection(since, reply)
    BY <2>1, <2>2, <2>3 DEF InvitesToRaise
  <2>4. CASE r \notin InviteSection(since, reply)
    <3>1. News(r, since, reply) = {}
      BY <2>2, <2>4 DEF InviteSection
    <3>2. Moves(r, reply) = Moves(r, since) /\ MemberAt(r, reply) = MemberAt(r, since)
      BY <2>1, <3>1, NoNews DEF Typed
    <3> QED
      BY <2>1, <2>2, <3>2 DEF InvitesRaised
  <2> QED
    BY <2>3, <2>4
<1>3. CASE Connect
  <2>1. UNCHANGED <<log, raised>> /\ since' \in {0, since}
    BY <1>3 DEF Connect
  <2>2. since' # 0
    <3> SUFFICES ASSUME since' = 0 PROVE FALSE
      OBVIOUS
    <3>1. Moves(r, since)' = {}
      BY DEF Moves
    <3> QED
      BY <3>1 DEF MemberAt
  <2> QED
    BY <1>1, <2>1, <2>2
<1> QED
  BY <1>1, <1>2, <1>3
     DEF Next, vars, seenVars, clientVars, Invited, Message, Elsewhere, Handles, ServerResponds,
         SyncFails, JoinChat, RejectChat, ChatLeave, Answered, RequestFails, OrphanEnds, Close,
         CloseWindow

\* Once next_batch is past an invitation that stands, it was put before the
\* user: matrix_sync_parse with the responses in order, whatever fails between.
THEOREM AllRaised == Spec => []InvitesRaised
<1>1. Init => InvitesRaised
  <2> SUFFICES ASSUME Init, NEW r \in Rooms PROVE MemberAt(r, since) # "invite"
    BY DEF InvitesRaised
  <2>1. Moves(r, since) = {}
    BY DEF Init, Moves
  <2> QED
    BY <2>1 DEF MemberAt
<1> QED
  BY InitTyped, StepTyped, StepRaised, <1>1, PTL DEF Spec

-----------------------------------------------------------------------------
(* Conversations and wishes.                                                *)

\* The requests that are out for a room.
OutFor(r) == {q \in out : q.room = r}
LeaveSent(r) == \E q \in OutFor(r) : q.op = "leave" /\ q.at = "sent"

\* A room with a conversation that is not stale: the account is in, and nothing
\* that the user has asked for will take it out.
JoinedInv == \A r \in Rooms : conv[r] # "none" /\ r \notin stale => ~Leaving(r)

LEMMA LeavingIs ==
  ASSUME NEW r \in Rooms
  PROVE  /\ Leaving(r) <=> Member(r) # "join" \/ LeaveSent(r)
         /\ Leaving(r)' <=> Member(r)' # "join" \/ LeaveSent(r)'
BY DEF Leaving, LeaveSent, OutFor

LEMMA SameLog ==
  ASSUME UNCHANGED log, NEW r \in Rooms
  PROVE  Member(r)' = Member(r)
BY DEF Member, MemberAt, Moves, LastOf

\* The members of rooms when the homeserver acts.
LEMMA ServerMembers ==
  ASSUME TypeOK, NEW r \in Rooms, NEW s \in Rooms, Invited(r) \/ Message(r) \/ Elsewhere(r)
  PROVE  /\ s # r => Member(s)' = Member(s)
         /\ \/ Member(r)' = Member(r) /\ UNCHANGED <<wish, stale>>
            \/ Member(r) = "leave" /\ Member(r)' = "invite" /\ UNCHANGED <<wish, stale>>
            \/ /\ Member(r)' = "join" /\ UNCHANGED stale
               /\ wish' = [wish EXCEPT ![r] = "any"]
            \/ stale' = stale \cup {r} /\ wish' = [wish EXCEPT ![r] = "any"]
<1>1. log \in Seq(Event)
  BY DEF TypeOK
<1>2. CASE Message(r)
  <2>1. Happens("message", r) /\ UNCHANGED <<wish, stale>>
    BY <1>2 DEF Message, userVars, seenVars
  <2> QED
    BY <1>1, <2>1, HappensLast DEF What
<1>3. CASE Invited(r)
  <2>1. Happens("invite", r) /\ Member(r) = "leave" /\ UNCHANGED <<wish, stale>>
    BY <1>3 DEF Invited, userVars, seenVars
  <2> QED
    BY <1>1, <2>1, HappensLast DEF What
<1>4. CASE Elsewhere(r)
  <2>1. PICK what \in {"join", "leave"} :
          /\ Happens(what, r) /\ wish' = [wish EXCEPT ![r] = "any"]
          /\ \/ what = "join" /\ UNCHANGED stale
             \/ stale' = stale \cup {r}
    BY <1>4 DEF Elsewhere
  <2>2. Member(r)' = what /\ (s # r => Member(s)' = Member(s))
    BY <1>1, <2>1, HappensLast DEF What
  <2> QED
    BY <2>1, <2>2
<1> QED
  BY <1>2, <1>3, <1>4

\* The members of rooms when a request is carried out.
LEMMA HandlesMembers ==
  ASSUME TypeOK, NEW q \in out, Handles(q), NEW s \in Rooms
  PROVE  /\ q \in Request /\ q.at = "sent"
         /\ s # q.room => Member(s)' = Member(s)
         /\ \/ /\ q.op = "join" /\ Member(q.room)' = "join" /\ out' = Carried(q, "done")
            \/ /\ q.op = "leave" /\ Member(q.room)' = "leave" /\ out' = Carried(q, "done")
            \/ /\ Member(q.room) = "leave" /\ Member(q.room)' = "leave"
               /\ out' = Carried(q, "refused")
<1>1. log \in Seq(Event) /\ q \in Request /\ q.room \in Rooms
  BY DEF TypeOK, Request
<1>2. CASE /\ q.op = "join" /\ Happens("join", q.room) /\ out' = Carried(q, "done")
  BY <1>1, <1>2, HappensLast, HandlesCases DEF What
<1>3. CASE /\ q.op = "leave" /\ Happens("leave", q.room) /\ out' = Carried(q, "done")
  BY <1>1, <1>3, HappensLast, HandlesCases DEF What
<1>4. CASE /\ q.op = "join" /\ Member(q.room) = "join" /\ out' = Carried(q, "done")
           /\ UNCHANGED log
  BY <1>1, <1>4, SameLog, HandlesCases
<1>5. CASE Member(q.room) = "leave" /\ out' = Carried(q, "refused") /\ UNCHANGED log
  BY <1>1, <1>5, SameLog, HandlesCases
<1> QED
  BY <1>2, <1>3, <1>4, <1>5, HandlesCases

LEMMA StepJoined == Typed /\ JoinedInv /\ [Next]_vars => JoinedInv'
<1> SUFFICES ASSUME Typed, JoinedInv, [Next]_vars,
                    NEW s \in Rooms, conv'[s] # "none", s \notin stale'
             PROVE  ~Leaving(s)'
  BY DEF JoinedInv
<1>0. out \subseteq Request /\ conv \in [Rooms -> Convs] /\ stale \subseteq Rooms
  BY DEF Typed, TypeOK
<1>1. ASSUME conv[s] # "none", s \notin stale,
             Member(s)' \in {Member(s), "join"}, LeaveSent(s)' => LeaveSent(s)
      PROVE  ~Leaving(s)'
  BY <1>1, LeavingIs DEF JoinedInv
<1>2. ASSUME UNCHANGED out PROVE LeaveSent(s)' => LeaveSent(s)
  BY <1>2 DEF LeaveSent, OutFor
<1>3. ASSUME NEW r \in Rooms, Invited(r) \/ Message(r) \/ Elsewhere(r) PROVE ~Leaving(s)'
  <2>1. UNCHANGED <<conv, out>>
    BY <1>3 DEF Invited, Message, Elsewhere, clientVars
  <2>2. s \notin stale
    BY <1>3, ServerMembers DEF Typed
  <2>3. Member(s) = "join"
    BY <2>1, <2>2, LeavingIs DEF JoinedInv
  <2>4. Member(s)' = "join"
    BY <1>3, <2>3, ServerMembers DEF Typed
  <2> QED
    BY <1>1, <1>2, <2>1, <2>2, <2>4
<1>4. ASSUME NEW q \in out, Handles(q) PROVE ~Leaving(s)'
  <2>1. UNCHANGED <<conv, stale>> /\ q \in Request /\ q.at = "sent"
    BY <1>0, <1>4, HandlesCases DEF clientVars, seenVars
  <2>2. Member(s) = "join" /\ ~LeaveSent(s)
    BY <2>1, LeavingIs DEF JoinedInv
  <2>3. Member(s)' \in {Member(s), "join"}
    <3>1. s = q.room => q.op # "leave"
      BY <2>1, <2>2 DEF LeaveSent, OutFor
    <3> QED
      BY <1>4, <2>2, <3>1, HandlesMembers DEF Typed
  <2>4. LeaveSent(s)' => LeaveSent(s)
    <3>1. \E at \in {"done", "refused"} : out' = Carried(q, at)
      BY <1>4, HandlesCases
    <3>2. \A at \in {"done", "refused"} : [q EXCEPT !.at = at].at # "sent"
      BY <2>1, RequestsTyped
    <3> QED
      BY <3>1, <3>2 DEF LeaveSent, OutFor, Carried
  <2> QED
    BY <1>1, <2>1, <2>3, <2>4
<1>5. ASSUME NEW r \in Rooms, JoinChat(r) PROVE ~Leaving(s)'
  <2>1. /\ UNCHANGED <<log, stale>>
        /\ conv[s] = "none" => conv'[s] = "none" \/ (s = r /\ conv[r] # "none")
    BY <1>0, <1>5 DEF JoinChat, seenVars
  <2>2. LeaveSent(s)' => LeaveSent(s)
    <3>1. out' \in {out, out \cup {Sent("join", r)}}
      BY <1>5 DEF JoinChat, Send
    <3>2. Sent("join", r).op = "join"
      BY RequestsTyped
    <3> QED
      BY <3>1, <3>2 DEF LeaveSent, OutFor
  <2> QED
    BY <1>1, <2>1, <2>2, SameLog
<1>6. ASSUME NEW r \in Rooms, RejectChat(r) \/ ChatLeave(r) PROVE ~Leaving(s)'
  <2>1. /\ UNCHANGED log /\ out' = out \cup {Sent("leave", r)}
        /\ (r = s => conv'[s] = "none" \/ s \in stale')
        /\ (conv[s] = "none" => conv'[s] = "none") /\ (s # r => (s \in stale => s \in stale'))
    BY <1>0, <1>6 DEF RejectChat, ChatLeave, Send
  <2>2. s # r
    BY <2>1
  <2>3. LeaveSent(s)' => LeaveSent(s)
    <3>1. Sent("leave", r).room = r
      BY RequestsTyped
    <3> QED
      BY <2>1, <2>2, <3>1 DEF LeaveSent, OutFor
  <2> QED
    BY <1>1, <2>1, <2>2, <2>3, SameLog
<1>7. ASSUME NEW r \in Rooms, CloseWindow(r) PROVE ~Leaving(s)'
  <2>1. /\ UNCHANGED <<log, out>> /\ s # r /\ (conv[s] = "none" => conv'[s] = "none")
        /\ (s \in stale => s \in stale')
    BY <1>0, <1>7 DEF CloseWindow
  <2> QED
    BY <1>1, <1>2, <2>1, SameLog
<1>8. ASSUME NEW q \in out, Answered(q) \/ RequestFails(q) \/ OrphanEnds(q)
      PROVE  ~Leaving(s)'
  <2>1. UNCHANGED <<log, conv, stale>>
    BY <1>8 DEF Answered, RequestFails, OrphanEnds, seenVars, clientVars
  <2>2. LeaveSent(s)' => LeaveSent(s)
    <3>1. /\ [q EXCEPT !.own = FALSE].at = q.at /\ [q EXCEPT !.own = FALSE].op = q.op
          /\ [q EXCEPT !.own = FALSE].room = q.room
      BY <1>0, RequestsTyped
    <3>2. out' \subseteq out \cup {[q EXCEPT !.own = FALSE]}
      BY <1>8 DEF Answered, RequestFails, OrphanEnds
    <3> QED
      BY <3>1, <3>2 DEF LeaveSent, OutFor
  <2> QED
    BY <1>1, <2>1, <2>2, SameLog
<1>9. CASE SyncComplete
  <2> DEFINE ins   == JoinSection(since, reply)
             fresh == {r \in ins : conv[r] = "none"}
  <2>1. /\ UNCHANGED <<log, out>>
        /\ conv' = [r \in Rooms |-> IF r \in fresh THEN "in" ELSE conv[r]]
        /\ stale' = (stale \ ins) \cup {r \in ins : Leaving(r)}
    BY <1>9 DEF SyncComplete
  <2> HIDE DEF ins
  <2>2. CASE s \in ins
    <3>1. ~Leaving(s)
      BY <2>1, <2>2
    <3> QED
      BY <1>2, <2>1, <3>1, LeavingIs, SameLog
  <2>3. CASE s \notin ins
    <3>1. conv[s] # "none" /\ s \notin stale
      BY <2>1, <2>3
    <3> QED
      BY <1>1, <1>2, <2>1, <3>1, SameLog
  <2> QED
    BY <2>2, <2>3
<1>10. CASE Close
  <2>1. /\ UNCHANGED <<log, stale>> /\ (conv[s] = "none" => conv'[s] = "none")
        /\ out' = {[q EXCEPT !.own = FALSE] : q \in {x \in out : x.at = "sent"}}
    BY <1>0, <1>10 DEF Close, seenVars
  <2>2. LeaveSent(s)' => LeaveSent(s)
    <3>1. \A q \in out : /\ [q EXCEPT !.own = FALSE].op = q.op
                         /\ [q EXCEPT !.own = FALSE].room = q.room
      BY <1>0, RequestsTyped
    <3> QED
      BY <2>1, <3>1 DEF LeaveSent, OutFor
  <2> QED
    BY <1>1, <2>1, <2>2, SameLog
<1>11. CASE UNCHANGED <<log, out, stale>> /\ (conv[s] = "none" => conv'[s] = "none")
  BY <1>1, <1>2, <1>11, SameLog
<1>12. CASE ServerResponds \/ SyncFails \/ Connect \/ UNCHANGED vars
  BY <1>0, <1>11, <1>12 DEF ServerResponds, SyncFails, Connect, vars, seenVars
<1> QED
  BY <1>3, <1>4, <1>5, <1>6, <1>7, <1>8, <1>9, <1>10, <1>12 DEF Next

LEMMA InitJoined == Init => JoinedInv
BY DEF Init, JoinedInv

\* A conversation is that of a room the account is in, but for what is said to be
\* stale: matrix_sync_room makes it, matrix_room_leave_chat ends it.
THEOREM ConversationsFollow == Spec => []ConversationsAreJoined
<1>1. JoinedInv => ConversationsAreJoined
  BY LeavingIs DEF JoinedInv, ConversationsAreJoined
<1> QED
  BY InitTyped, StepTyped, InitJoined, StepJoined, <1>1, PTL DEF Spec

JoinOut(r)  == \E q \in OutFor(r) : q.op = "join" /\ q.own /\ q.at # "done"
LeaveOut(r) == \E q \in OutFor(r) : q.op = "leave" /\ q.own /\ q.at = "sent"

\* One request at most is out for the room; it is what makes the user's wish come
\* true, where it has not done so.
WishRoom(r) ==
  /\ \A p, q \in OutFor(r) : p = q
  /\ wish[r] = "in" /\ r \notin stale => ~Leaving(r) \/ JoinOut(r)
  /\ wish[r] = "out" => /\ \A q \in OutFor(r) : ~(q.op = "join" /\ q.at = "sent")
                        /\ Member(r) # "join" \/ LeaveOut(r)

WishInv == \A r \in Rooms \ crossed : WishRoom(r)

LEMMA WishFrame ==
  ASSUME NEW s \in Rooms, WishRoom(s), UNCHANGED wish[s], Member(s)' = Member(s),
         UNCHANGED OutFor(s), s \in stale => s \in stale'
  PROVE  WishRoom(s)'
BY LeavingIs DEF WishRoom, LeaveSent, JoinOut, LeaveOut

LEMMA WishAny ==
  ASSUME NEW s \in Rooms, wish'[s] = "any", \A p, q \in OutFor(s)' : p = q
  PROVE  WishRoom(s)'
BY DEF WishRoom

\* The user asks, with no other request out for the room.
LEMMA WishSent ==
  ASSUME Typed, NEW r \in Rooms, NEW op \in {"join", "leave"}, Send(op, r),
         NEW s \in Rooms \ crossed'
  PROVE  /\ s # r => OutFor(s)' = OutFor(s) /\ s \notin crossed
         /\ s = r => OutFor(r)' = {Sent(op, r)}
<1>1. Sent(op, r).room = r
  BY RequestsTyped
<1>2. out' = out \cup {Sent(op, r)}
  BY DEF Send
<1>3. CASE s = r
  <2>1. OutFor(r) = {}
    BY <1>3 DEF Send, OutFor
  <2> QED
    BY <1>1, <1>2, <1>3, <2>1 DEF OutFor
<1>4. CASE s # r
  BY <1>1, <1>2, <1>4 DEF Send, OutFor
<1> QED
  BY <1>3, <1>4

\* A request is carried out, or refused.
LEMMA WishHandles ==
  ASSUME Typed, NEW q \in out, Handles(q), NEW s \in Rooms, WishRoom(s)
  PROVE  WishRoom(s)'
<1>1. q \in Request /\ q.at = "sent" /\ UNCHANGED <<wish, stale>>
  BY HandlesMembers, HandlesCases DEF Typed, userVars, seenVars
<1>2. PICK at \in {"done", "refused"} :
        /\ out' = Carried(q, at)
        /\ \/ q.op = "join" /\ Member(q.room)' = "join" /\ at = "done"
           \/ q.op = "leave" /\ Member(q.room)' = "leave"
           \/ Member(q.room) = "leave" /\ Member(q.room)' = "leave" /\ at = "refused"
  <2>1. q.room \in Rooms
    BY <1>1 DEF Request
  <2> QED
    BY <2>1, HandlesMembers DEF Typed
<1> DEFINE h == [q EXCEPT !.at = at]
<1>3. h.at = at /\ h.op = q.op /\ h.room = q.room /\ h.own = q.own
  BY <1>1, RequestsTyped
<1> HIDE DEF h
<1>4. out' = (out \ {q}) \cup {h}
  BY <1>2 DEF Carried, h
<1>5. CASE s # q.room
  <2>1. OutFor(s)' = OutFor(s)
    BY <1>3, <1>4, <1>5 DEF OutFor
  <2> QED
    BY <1>1, <1>5, <2>1, HandlesMembers, WishFrame DEF Typed
<1>6. CASE s = q.room
  <2>1. OutFor(s) = {q} /\ OutFor(s)' = {h}
    BY <1>3, <1>4, <1>6 DEF OutFor, WishRoom
  <2>2. \/ q.op = "join" /\ Member(s)' = "join" /\ at = "done"
        \/ q.op = "leave" /\ Member(s)' = "leave"
        \/ q.op = "join" /\ Member(s) = "leave" /\ Member(s)' = "leave" /\ at = "refused"
    <3>1. q.op \in {"join", "leave"}
      BY <1>1 DEF Request
    <3> QED
      BY <1>2, <1>6, <3>1
  <2>3. CASE q.op = "join" /\ Member(s)' = "join" /\ at = "done"
    <3>1. ~Leaving(s)'
      BY <1>3, <2>1, <2>3, LeavingIs DEF LeaveSent
    <3>2. wish[s] # "out"
      BY <1>1, <2>1, <2>3 DEF WishRoom
    <3> QED
      BY <1>1, <2>1, <3>1, <3>2 DEF WishRoom
  <2>4. CASE q.op = "leave" /\ Member(s)' = "leave"
    <3>1. Leaving(s) /\ ~JoinOut(s)
      BY <1>1, <2>1, <2>4, LeavingIs DEF LeaveSent, JoinOut
    <3>2. ~(wish[s] = "in" /\ s \notin stale)
      BY <3>1 DEF WishRoom
    <3>3. \A x \in OutFor(s)' : x.op # "join"
      BY <1>3, <2>1, <2>4
    <3> QED
      BY <1>1, <2>1, <2>4, <3>2, <3>3 DEF WishRoom
  <2>5. CASE q.op = "join" /\ Member(s) = "leave" /\ Member(s)' = "leave" /\ at = "refused"
    <3>1. Leaving(s)
      BY <2>5, LeavingIs
    <3>2. wish[s] = "in" /\ s \notin stale => q.own
      BY <2>1, <3>1 DEF WishRoom, JoinOut
    <3>3. wish[s] = "in" /\ s \notin stale => JoinOut(s)'
      BY <1>3, <2>1, <2>5, <3>2 DEF JoinOut
    <3>4. wish[s] # "out"
      BY <1>1, <2>1, <2>5 DEF WishRoom
    <3> QED
      BY <1>1, <2>1, <3>3, <3>4 DEF WishRoom
  <2> QED
    BY <2>2, <2>3, <2>4, <2>5
<1> QED
  BY <1>5, <1>6

\* A request is answered, fails or is forgotten.
LEMMA WishEnds ==
  ASSUME Typed, NEW q \in out, Answered(q) \/ RequestFails(q) \/ OrphanEnds(q),
         NEW s \in Rooms, WishRoom(s)
  PROVE  WishRoom(s)'
<1>1. q \in Request /\ q.room \in Rooms /\ wish \in [Rooms -> Wishes]
  BY DEF Typed, TypeOK, Request
<1> DEFINE h == [q EXCEPT !.own = FALSE]
<1>2. h.at = q.at /\ h.op = q.op /\ h.room = q.room
  BY <1>1, RequestsTyped
<1>3. UNCHANGED <<log, stale>> /\ out' \in {out \ {q}, (out \ {q}) \cup {h}}
  BY DEF Answered, RequestFails, OrphanEnds, seenVars, clientVars
<1>4. wish' = wish \/ wish' = [wish EXCEPT ![q.room] = "any"]
  BY DEF Answered, RequestFails, OrphanEnds, userVars
<1>5. RequestFails(q) => wish' = [wish EXCEPT ![q.room] = "any"]
  BY DEF RequestFails
<1>6. ~RequestFails(q) => out' = out \ {q} /\ (q.own => q.at # "sent" /\ Answered(q))
  BY DEF Answered, OrphanEnds
<1>7. Answered(q) /\ q.at = "refused" => wish' = [wish EXCEPT ![q.room] = "any"]
  BY DEF Answered
<1> HIDE DEF h
<1>8. Member(s)' = Member(s)
  BY <1>3, SameLog
<1>9. CASE s # q.room
  <2>1. OutFor(s)' = OutFor(s)
    BY <1>2, <1>3, <1>9 DEF OutFor
  <2>2. wish'[s] = wish[s]
    BY <1>1, <1>4, <1>9
  <2> QED
    BY <1>3, <1>8, <2>1, <2>2, WishFrame
<1>10. CASE s = q.room
  <2>1. OutFor(s) = {q} /\ OutFor(s)' \in {{}, {h}}
    BY <1>2, <1>3, <1>10 DEF OutFor, WishRoom
  <2>2. CASE wish' = [wish EXCEPT ![q.room] = "any"]
    BY <1>1, <1>10, <2>1, <2>2, WishAny
  <2>3. CASE wish' = wish /\ out' = out \ {q} /\ (q.own => q.at = "done")
    <3>1. OutFor(s)' = {} /\ ~JoinOut(s) /\ ~LeaveOut(s)
      BY <1>10, <2>1, <2>3 DEF OutFor, JoinOut, LeaveOut
    <3>2. ~Leaving(s) => ~Leaving(s)'
      BY <1>8, <3>1, LeavingIs DEF LeaveSent
    <3> QED
      BY <1>3, <1>8, <2>3, <3>1, <3>2 DEF WishRoom
  <2>4. q.at \in {"sent", "done", "refused"}
    BY <1>1 DEF Request
  <2> QED
    BY <1>4, <1>5, <1>6, <1>7, <2>2, <2>3, <2>4
<1> QED
  BY <1>9, <1>10

\* The user asks for something.
LEMMA WishAsked ==
  ASSUME Typed, JoinedInv, WishInv, NEW r \in Rooms,
         JoinChat(r) \/ RejectChat(r) \/ ChatLeave(r) \/ CloseWindow(r),
         NEW s \in Rooms \ crossed'
  PROVE  WishRoom(s)'
<1>0. wish \in [Rooms -> Wishes] /\ stale \subseteq Rooms
  BY DEF Typed, TypeOK
<1>1. \A op \in {"join", "leave"} :
        /\ Sent(op, r).op = op /\ Sent(op, r).at = "sent" /\ Sent(op, r).own
  BY RequestsTyped
<1>2. UNCHANGED log /\ Member(s)' = Member(s)
  BY SameLog DEF JoinChat, RejectChat, ChatLeave, CloseWindow
<1>3. s # r => wish'[s] = wish[s] /\ (s \in stale => s \in stale')
  BY <1>0 DEF JoinChat, RejectChat, ChatLeave, CloseWindow, seenVars
<1>4. ASSUME UNCHANGED <<out, crossed>>, s # r PROVE WishRoom(s)'
  <2>1. OutFor(s)' = OutFor(s)
    BY <1>4 DEF OutFor
  <2> QED
    BY <1>2, <1>3, <1>4, <2>1, WishFrame DEF WishInv
<1>5. ASSUME NEW op \in {"join", "leave"}, Send(op, r), s # r PROVE WishRoom(s)'
  <2>1. OutFor(s)' = OutFor(s) /\ s \notin crossed
    BY <1>5, WishSent
  <2> QED
    BY <1>2, <1>3, <1>5, <2>1, WishFrame DEF WishInv
<1>6. CASE RejectChat(r) \/ ChatLeave(r)
  <2>1. Send("leave", r) /\ wish' = [wish EXCEPT ![r] = "out"]
    BY <1>6 DEF RejectChat, ChatLeave
  <2>2. CASE s = r
    <3>1. OutFor(s)' = {Sent("leave", r)} /\ wish'[s] = "out"
      BY <1>0, <2>1, <2>2, WishSent
    <3>2. LeaveOut(s)'
      BY <1>1, <3>1 DEF LeaveOut
    <3>3. \A q \in OutFor(s)' : q.op # "join"
      BY <1>1, <3>1
    <3> QED
      BY <3>1, <3>2, <3>3 DEF WishRoom
  <2> QED
    BY <1>5, <2>1, <2>2
<1>7. CASE CloseWindow(r)
  <2>1. UNCHANGED <<out, crossed>> /\ wish' = [wish EXCEPT ![r] = "any"]
    BY <1>7 DEF CloseWindow
  <2>2. CASE s = r
    <3>1. wish'[s] = "any" /\ OutFor(s)' = OutFor(s)
      BY <1>0, <2>1, <2>2 DEF OutFor
    <3> QED
      BY <2>1, <3>1, WishAny DEF WishInv, WishRoom
  <2> QED
    BY <1>4, <2>1, <2>2
<1>8. CASE JoinChat(r)
  <2>1. wish' = [wish EXCEPT ![r] = "in"] /\ UNCHANGED stale
    BY <1>8 DEF JoinChat, seenVars
  <2>2. CASE conv[r] = "none"
    <3>1. Send("join", r)
      BY <1>8, <2>2 DEF JoinChat
    <3>2. CASE s = r
      <4>1. OutFor(s)' = {Sent("join", r)} /\ wish'[s] = "in"
        BY <1>0, <2>1, <3>1, <3>2, WishSent
      <4>2. JoinOut(s)'
        BY <1>1, <4>1 DEF JoinOut
      <4> QED
        BY <4>1, <4>2 DEF WishRoom
    <3> QED
      BY <1>5, <3>1, <3>2
  <2>3. CASE conv[r] # "none"
    <3>1. UNCHANGED <<out, crossed>>
      BY <1>8, <2>3 DEF JoinChat
    <3>2. CASE s = r
      <4>1. OutFor(s)' = OutFor(s) /\ wish'[s] = "in"
        BY <1>0, <2>1, <3>1, <3>2 DEF OutFor
      <4>2. s \notin stale' => ~Leaving(s)
        BY <2>1, <2>3, <3>2 DEF JoinedInv
      <4>3. ~Leaving(s) => ~Leaving(s)'
        BY <1>2, <4>1, LeavingIs DEF LeaveSent
      <4> QED
        BY <3>1, <4>1, <4>2, <4>3 DEF WishInv, WishRoom
    <3> QED
      BY <1>4, <3>1, <3>2
  <2> QED
    BY <2>2, <2>3
<1> QED
  BY <1>6, <1>7, <1>8

LEMMA StepWish == Typed /\ JoinedInv /\ WishInv /\ [Next]_vars => WishInv'
<1> SUFFICES ASSUME Typed, JoinedInv, WishInv, [Next]_vars, NEW s \in Rooms \ crossed'
             PROVE  WishRoom(s)'
  BY DEF WishInv
<1>0. wish \in [Rooms -> Wishes] /\ stale \subseteq Rooms /\ out \subseteq Request
  BY DEF Typed, TypeOK
<1>1. ASSUME UNCHANGED crossed PROVE WishRoom(s)
  BY <1>1 DEF WishInv
<1>2. ASSUME UNCHANGED out PROVE OutFor(s)' = OutFor(s)
  BY <1>2 DEF OutFor
<1>3. ASSUME NEW r \in Rooms, Invited(r) \/ Message(r) \/ Elsewhere(r) PROVE WishRoom(s)'
  <2>1. UNCHANGED <<out, crossed>>
    BY <1>3 DEF Invited, Message, Elsewhere, userVars
  <2>2. WishRoom(s) /\ OutFor(s)' = OutFor(s)
    BY <1>1, <1>2, <2>1
  <2>3. CASE s # r
    <3>1. Member(s)' = Member(s) /\ wish'[s] = wish[s] /\ (s \in stale => s \in stale')
      BY <1>0, <1>3, <2>3, ServerMembers DEF Typed
    <3> QED
      BY <2>2, <3>1, WishFrame
  <2>4. CASE s = r /\ wish'[s] = "any"
    BY <2>2, <2>4, WishAny DEF WishRoom
  <2>5. CASE s = r /\ Member(s)' = Member(s) /\ UNCHANGED <<wish, stale>>
    BY <2>2, <2>5, WishFrame
  <2>6. CASE s = r /\ Member(s) = "leave" /\ Member(s)' = "invite" /\ UNCHANGED <<wish, stale>>
    <3>1. Leaving(s)
      BY <2>6, LeavingIs
    <3>2. JoinOut(s)' <=> JoinOut(s)
      BY <2>2 DEF JoinOut
    <3> QED
      BY <2>2, <2>6, <3>1, <3>2 DEF WishRoom
  <2> QED
    BY <1>0, <1>3, <2>3, <2>4, <2>5, <2>6, ServerMembers DEF Typed
<1>4. ASSUME NEW q \in out, Handles(q) PROVE WishRoom(s)'
  <2>1. UNCHANGED crossed
    BY <1>4 DEF Handles, userVars
  <2> QED
    BY <1>1, <1>4, <2>1, WishHandles
<1>5. ASSUME NEW q \in out, Answered(q) \/ RequestFails(q) \/ OrphanEnds(q)
      PROVE  WishRoom(s)'
  <2>1. UNCHANGED crossed
    BY <1>5 DEF Answered, RequestFails, OrphanEnds, userVars
  <2> QED
    BY <1>1, <1>5, <2>1, WishEnds
<1>6. CASE SyncComplete
  <2>1. /\ UNCHANGED <<log, out, wish, crossed>>
        /\ stale' = (stale \ JoinSection(since, reply))
                    \cup {r \in JoinSection(since, reply) : Leaving(r)}
    BY <1>6 DEF SyncComplete, userVars
  <2>2. WishRoom(s) /\ OutFor(s)' = OutFor(s) /\ Member(s)' = Member(s)
    BY <1>1, <1>2, <2>1, SameLog
  <2>3. CASE s \in stale => s \in stale'
    BY <2>1, <2>2, <2>3, WishFrame
  <2>4. CASE s \notin stale' /\ ~Leaving(s)
    <3>1. ~Leaving(s)'
      BY <2>2, <2>4, LeavingIs DEF LeaveSent
    <3>2. LeaveOut(s)' <=> LeaveOut(s)
      BY <2>2 DEF LeaveOut
    <3> QED
      BY <2>1, <2>2, <3>1, <3>2 DEF WishRoom
  <2> QED
    BY <2>1, <2>3, <2>4
<1>7. CASE Close
  <2>1. /\ UNCHANGED <<log, stale, crossed>>
        /\ out' = {[q EXCEPT !.own = FALSE] : q \in {x \in out : x.at = "sent"}}
        /\ wish' = [r \in Rooms |-> IF \E q \in out : q.room = r THEN "any" ELSE wish[r]]
    BY <1>7 DEF Close, seenVars
  <2>2. WishRoom(s) /\ Member(s)' = Member(s)
    BY <1>1, <2>1, SameLog
  <2>3. \A q \in out : [q EXCEPT !.own = FALSE].room = q.room
    BY <1>0, RequestsTyped
  <2>4. CASE OutFor(s) = {}
    <3>1. OutFor(s)' = {} /\ wish'[s] = wish[s]
      BY <2>1, <2>3, <2>4 DEF OutFor
    <3> QED
      BY <2>1, <2>2, <2>4, <3>1, WishFrame
  <2>5. CASE OutFor(s) # {}
    <3>1. wish'[s] = "any"
      BY <2>1, <2>5 DEF OutFor
    <3>2. ASSUME NEW p \in OutFor(s)' PROVE \E x \in OutFor(s) : p = [x EXCEPT !.own = FALSE]
      BY <2>1, <2>3, <3>2 DEF OutFor
    <3>3. \A p, q \in OutFor(s)' : p = q
      BY <2>2, <3>2 DEF WishRoom
    <3> QED
      BY <3>1, <3>3, WishAny
  <2> QED
    BY <2>4, <2>5
<1>8. CASE UNCHANGED <<log, out, wish, crossed, stale>>
  BY <1>1, <1>2, <1>8, SameLog, WishFrame
<1>9. CASE ServerResponds \/ SyncFails \/ Connect \/ UNCHANGED vars
  BY <1>8, <1>9 DEF ServerResponds, SyncFails, Connect, vars, userVars, seenVars
<1> QED
  BY <1>3, <1>4, <1>5, <1>6, <1>7, <1>9, WishAsked DEF Next

LEMMA InitWish == Init => WishInv
BY DEF Init, WishInv, WishRoom, OutFor

\* Once nothing is out for a room the account is in it, or out of it, as the user
\* last asked: matrixprpl_join_chat, matrixprpl_reject_chat, matrixprpl_chat_leave
\* against whatever order the answers and the responses to /sync come in.
THEOREM WishesComeTrue == Spec => []WishHonoured
<1>1. WishInv => WishHonoured
  <2> SUFFICES ASSUME WishInv, NEW r \in Rooms \ crossed, ~\E q \in out : q.room = r
               PROVE  /\ wish[r] = "in" /\ r \notin stale => Member(r) = "join"
                      /\ wish[r] = "out" => Member(r) # "join"
    BY DEF WishHonoured
  <2>1. WishRoom(r) /\ ~JoinOut(r) /\ ~LeaveOut(r)
    BY DEF WishInv, JoinOut, LeaveOut, OutFor
  <2> QED
    BY <2>1, LeavingIs DEF WishRoom
<1> QED
  BY InitTyped, StepTyped, InitJoined, StepJoined, InitWish, StepWish, <1>1, PTL DEF Spec

-----------------------------------------------------------------------------
(* Rooms that are still to come.                                            *)

\* Responses to come will have something of the room.
Coming(r) == since = 0 \/ News(r, since, Len(log)) # {}

\* Why a room that the account is in may be without a chat.
Excused(r) == r \in closed \/ Coming(r) \/ LeaveSent(r)

LEMMA ToComeIs ==
  /\ JoinedToCome <=>
       \A r \in Rooms : Member(r) = "join" /\ conv[r] = "none" => Excused(r)
  /\ JoinedToCome' <=>
       \A r \in Rooms : Member(r)' = "join" /\ conv'[r] = "none" => Excused(r)'
BY DEF JoinedToCome, Excused, Coming, LeaveSent, OutFor

\* What is to come stays so while the stream grows, and a room whose membership
\* changes is to come.
LEMMA GrowsComing ==
  ASSUME TypeOK, Grows, UNCHANGED since, NEW r \in Rooms
  PROVE  /\ Coming(r) => Coming(r)'
         /\ Member(r)' # Member(r) => Coming(r)'
<1>1. log \in Seq(Event) /\ Len(log) \in Nat /\ since \in 0..Len(log)
  BY DEF TypeOK
<1>2. CASE UNCHANGED log
  BY <1>2, SameLog DEF Coming, News
<1>3. ASSUME NEW what \in What, NEW s \in Rooms, Happens(what, s)
      PROVE  /\ Coming(r) => Coming(r)'
             /\ Member(r)' # Member(r) => Coming(r)'
  <2>1. [what |-> what, room |-> s] \in Event
    BY DEF Event
  <2>2. /\ Len(log') = Len(log) + 1 /\ log'[Len(log) + 1].room = s
        /\ \A i \in 1..Len(log) : log'[i] = log[i]
    BY <1>1, <1>3, <2>1 DEF Happens
  <2>3. News(r, since, Len(log)) \subseteq News(r, since, Len(log))'
    BY <1>1, <2>2 DEF News
  <2>4. Member(r)' # Member(r) => r = s
    BY <1>1, <1>3, HappensLast
  <2>5. r = s => Len(log) + 1 \in News(r, since, Len(log))'
    BY <1>1, <2>2 DEF News
  <2> QED
    BY <2>3, <2>4, <2>5 DEF Coming
<1> QED
  BY <1>2, <1>3 DEF Grows

\* A room that a response says nothing of, though the account is in it, comes
\* with a later one.
LEMMA LaterComing ==
  ASSUME TypeOK, reply # None, since' = reply, UNCHANGED log, NEW r \in Rooms,
         Member(r) = "join", r \notin JoinSection(since, reply), Coming(r)
  PROVE  Coming(r)'
<1>1. /\ Len(log) \in Nat /\ since \in Nat /\ reply \in Nat
      /\ since <= reply /\ reply <= Len(log)
  BY DEF TypeOK
<1>2. ASSUME NEW i \in 1..Len(log), log[i].room = r, i \notin 1..reply PROVE Coming(r)'
  <2>1. i \in (reply + 1)..Len(log)
    BY <1>1, <1>2
  <2>2. i \in News(r, since, Len(log))'
    BY <1>2, <2>1 DEF News
  <2> QED
    BY <2>2 DEF Coming
<1>3. CASE MemberAt(r, reply) # "join"
  <2>1. Moves(r, reply) # Moves(r, Len(log))
    BY <1>3 DEF Member, MemberAt
  <2>2. Moves(r, reply) \subseteq Moves(r, Len(log))
    BY <1>1 DEF Moves
  <2>3. PICK i \in Moves(r, Len(log)) : i \notin Moves(r, reply)
    BY <2>1, <2>2
  <2>4. i \in 1..Len(log) /\ log[i].room = r /\ i \notin 1..reply
    BY <2>3 DEF Moves
  <2> QED
    BY <1>2, <2>4
<1>4. CASE MemberAt(r, reply) = "join"
  <2>1. since # 0 /\ News(r, since, reply) = {}
    BY <1>4 DEF JoinSection
  <2>2. PICK i \in News(r, since, Len(log)) : TRUE
    BY <2>1 DEF Coming
  <2>3. i \in (since + 1)..Len(log) /\ log[i].room = r /\ i \notin (since + 1)..reply
    BY <2>1, <2>2 DEF News
  <2>4. i \in 1..Len(log) /\ i \notin 1..reply
    BY <1>1, <2>3
  <2> QED
    BY <1>2, <2>3, <2>4
<1> QED
  BY <1>3, <1>4

\* Of the steps at which no response is handled: one that excuses no room any
\* less, and leaves none that it makes without a chat unexcused.
LEMMA KeepsToCome ==
  ASSUME TypeOK, JoinedToCome, Grows, UNCHANGED since, closed \subseteq closed',
         \A r \in Rooms : Member(r)' = "join" /\ LeaveSent(r) => LeaveSent(r)' \/ r \in closed',
         \A r \in Rooms : conv'[r] = "none" =>
           conv[r] = "none" \/ r \in closed' \/ LeaveSent(r)'
  PROVE  JoinedToCome'
<1> SUFFICES ASSUME NEW r \in Rooms, Member(r)' = "join", conv'[r] = "none"
             PROVE  Excused(r)'
  BY ToComeIs
<1>1. CASE Member(r)' # Member(r)
  BY <1>1, GrowsComing DEF Excused
<1>2. CASE Member(r)' = Member(r) /\ conv[r] = "none"
  <2>1. Excused(r)
    BY <1>2, ToComeIs
  <2> QED
    BY <2>1, GrowsComing DEF Excused
<1>3. CASE conv[r] # "none"
  BY <1>3 DEF Excused
<1> QED
  BY <1>1, <1>2, <1>3

LEMMA HandlesToCome ==
  ASSUME TypeOK, JoinedToCome, Grows, NEW q \in out, Handles(q)
  PROVE  JoinedToCome'
<1>1. UNCHANGED <<since, closed, conv>>
  BY HandlesCases DEF clientVars, seenVars
<1>2. ASSUME NEW r \in Rooms, Member(r)' = "join", LeaveSent(r) PROVE LeaveSent(r)'
  <2>1. PICK x \in out : x.room = r /\ x.op = "leave" /\ x.at = "sent"
    BY <1>2 DEF LeaveSent, OutFor
  <2>2. x # q
    BY <1>2, <2>1, HandlesMembers
  <2>3. x \in out'
    BY <2>2, HandlesMembers DEF Carried
  <2> QED
    BY <2>1, <2>3 DEF LeaveSent, OutFor
<1> QED
  BY <1>1, <1>2, KeepsToCome

\* A request that is not yet carried out stays one, whoever waits for it; one
\* that ends unheard leaves the room's window closed.
LEMMA EndsToCome ==
  ASSUME TypeOK, JoinedToCome, Grows, NEW q \in out,
         Answered(q) \/ RequestFails(q) \/ OrphanEnds(q)
  PROVE  JoinedToCome'
<1>0. q \in Request
  BY DEF TypeOK
<1>1. UNCHANGED <<since, conv>> /\ closed \subseteq closed'
  BY DEF Answered, RequestFails, OrphanEnds, clientVars, seenVars
<1>2. ASSUME NEW r \in Rooms, LeaveSent(r) PROVE LeaveSent(r)' \/ r \in closed'
  <2>1. PICK x \in out : x.room = r /\ x.op = "leave" /\ x.at = "sent"
    BY <1>2 DEF LeaveSent, OutFor
  <2>2. CASE x # q
    <3>1. x \in out'
      BY <2>2 DEF Answered, RequestFails, OrphanEnds
    <3> QED
      BY <2>1, <3>1 DEF LeaveSent, OutFor
  <2>3. CASE x = q /\ RequestFails(q)
    <3> DEFINE y == [q EXCEPT !.own = FALSE]
    <3>1. y \in out'
      BY <2>1, <2>3 DEF RequestFails
    <3>2. y.room = r /\ y.op = "leave" /\ y.at = "sent"
      BY <1>0, <2>1, <2>3, RequestsTyped
    <3> HIDE DEF y
    <3> QED
      BY <3>1, <3>2 DEF LeaveSent, OutFor
  <2>4. CASE x = q /\ OrphanEnds(q)
    BY <2>1, <2>4 DEF OrphanEnds
  <2>5. CASE x = q /\ Answered(q)
    BY <2>1, <2>5 DEF Answered
  <2> QED
    BY <2>2, <2>3, <2>4, <2>5
<1> QED
  BY <1>1, <1>2, KeepsToCome

\* The user joins, refuses, leaves or closes a window.
LEMMA AskedToCome ==
  ASSUME TypeOK, JoinedToCome, Grows, NEW r \in Rooms,
         JoinChat(r) \/ RejectChat(r) \/ ChatLeave(r) \/ CloseWindow(r)
  PROVE  JoinedToCome'
<1>1. UNCHANGED since /\ closed \subseteq closed'
  BY DEF JoinChat, RejectChat, ChatLeave, CloseWindow, seenVars
<1>2. out \subseteq out'
  BY DEF JoinChat, RejectChat, ChatLeave, CloseWindow, Send
<1>3. \A s \in Rooms : LeaveSent(s) => LeaveSent(s)'
  BY <1>2 DEF LeaveSent, OutFor
<1>4. ASSUME NEW s \in Rooms, conv'[s] = "none"
      PROVE  conv[s] = "none" \/ s \in closed' \/ LeaveSent(s)'
  <2>1. conv \in [Rooms -> Convs]
    BY DEF TypeOK
  <2>2. CASE JoinChat(r)
    BY <1>4, <2>1, <2>2 DEF JoinChat
  <2>3. CASE RejectChat(r)
    BY <1>4, <2>3 DEF RejectChat
  <2>4. CASE CloseWindow(r)
    BY <1>4, <2>1, <2>4 DEF CloseWindow
  <2>5. CASE ChatLeave(r)
    <3>1. Sent("leave", r) \in out'
      BY <2>5 DEF ChatLeave, Send
    <3>2. LeaveSent(r)'
      BY <3>1, RequestsTyped DEF LeaveSent, OutFor
    <3> QED
      BY <1>4, <2>1, <2>5, <3>2 DEF ChatLeave
  <2> QED
    BY <2>2, <2>3, <2>4, <2>5
<1> QED
  BY <1>1, <1>3, <1>4, KeepsToCome

LEMMA CloseToCome ==
  ASSUME TypeOK, JoinedToCome, Grows, Close
  PROVE  JoinedToCome'
<1>1. UNCHANGED <<since, closed>>
  BY DEF Close, seenVars
<1>2. \A r \in Rooms : conv'[r] = "none" => conv[r] = "none"
  BY DEF Close
<1>3. ASSUME NEW r \in Rooms, LeaveSent(r) PROVE LeaveSent(r)'
  <2>1. PICK x \in out : x.room = r /\ x.op = "leave" /\ x.at = "sent"
    BY <1>3 DEF LeaveSent, OutFor
  <2> DEFINE y == [x EXCEPT !.own = FALSE]
  <2>2. y \in out'
    BY <2>1 DEF Close
  <2>3. y.room = r /\ y.op = "leave" /\ y.at = "sent"
    BY <2>1, RequestsTyped DEF TypeOK
  <2> HIDE DEF y
  <2> QED
    BY <2>2, <2>3 DEF LeaveSent, OutFor
<1> QED
  BY <1>1, <1>2, <1>3, KeepsToCome

\* Only with no conversation left does a connection forget what was closed; and
\* then it starts from the beginning.
LEMMA ConnectToCome ==
  ASSUME TypeOK, JoinedToCome, Grows, Connect
  PROVE  JoinedToCome'
<1>1. CASE since' = 0
  BY <1>1, ToComeIs DEF Excused, Coming
<1>2. CASE UNCHANGED <<since, closed>>
  <2>1. \A r \in Rooms : conv'[r] = "none" => conv[r] = "none"
    BY DEF Connect
  <2>2. \A r \in Rooms : LeaveSent(r) => LeaveSent(r)'
    BY DEF Connect, LeaveSent, OutFor
  <2> QED
    BY <1>2, <2>1, <2>2, KeepsToCome
<1> QED
  BY <1>1, <1>2 DEF Connect

\* The rooms of the response get a chat, and the others wait for the next.
LEMMA SyncCompleteToCome ==
  ASSUME TypeOK, JoinedToCome, SyncComplete
  PROVE  JoinedToCome'
<1> DEFINE ins == JoinSection(since, reply)
<1>1. /\ reply # None /\ since' = reply /\ UNCHANGED <<log, out>>
      /\ closed' = closed \ {r \in ins : conv[r] = "none"}
      /\ conv' = [r \in Rooms |->
                   IF r \in {s \in ins : conv[s] = "none"} THEN "in" ELSE conv[r]]
  BY DEF SyncComplete
<1> SUFFICES ASSUME NEW r \in Rooms, Member(r)' = "join", conv'[r] = "none"
             PROVE  Excused(r)'
  BY ToComeIs
<1>2. conv[r] = "none" /\ r \notin ins
  BY <1>1
<1>3. Member(r) = "join"
  BY <1>1, SameLog
<1>4. CASE r \in closed
  BY <1>1, <1>2, <1>4 DEF Excused
<1>5. CASE LeaveSent(r)
  BY <1>1, <1>5 DEF Excused, LeaveSent, OutFor
<1>6. CASE Coming(r)
  BY <1>1, <1>2, <1>3, <1>6, LaterComing DEF Excused
<1> QED
  BY <1>2, <1>3, <1>4, <1>5, <1>6, ToComeIs DEF Excused

LEMMA StepToCome == Typed /\ JoinedToCome /\ [Next]_vars => JoinedToCome'
<1> SUFFICES ASSUME Typed, JoinedToCome, [Next]_vars PROVE JoinedToCome'
  OBVIOUS
<1>0. TypeOK /\ Grows
  BY NextGrows DEF Typed
<1>1. ASSUME UNCHANGED <<since, closed, out, conv>> PROVE JoinedToCome'
  <2>1. \A r \in Rooms : LeaveSent(r) => LeaveSent(r)'
    BY <1>1 DEF LeaveSent, OutFor
  <2> QED
    BY <1>0, <1>1, <2>1, KeepsToCome
<1>2. ASSUME NEW r \in Rooms, Invited(r) \/ Message(r) \/ Elsewhere(r) PROVE JoinedToCome'
  BY <1>1, <1>2 DEF Invited, Message, Elsewhere, clientVars, seenVars
<1>3. CASE ServerResponds \/ SyncFails \/ UNCHANGED vars
  BY <1>1, <1>3 DEF ServerResponds, SyncFails, vars, seenVars
<1>4. ASSUME NEW r \in Rooms, JoinChat(r) \/ RejectChat(r) \/ ChatLeave(r) \/ CloseWindow(r)
      PROVE  JoinedToCome'
  BY <1>0, <1>4, AskedToCome
<1>5. ASSUME NEW q \in out, Handles(q) PROVE JoinedToCome'
  BY <1>0, <1>5, HandlesToCome
<1>6. ASSUME NEW q \in out, Answered(q) \/ RequestFails(q) \/ OrphanEnds(q)
      PROVE  JoinedToCome'
  BY <1>0, <1>6, EndsToCome
<1>7. CASE SyncComplete
  BY <1>0, <1>7, SyncCompleteToCome
<1>8. CASE Connect
  BY <1>0, <1>8, ConnectToCome
<1>9. CASE Close
  BY <1>0, <1>9, CloseToCome
<1> QED
  BY <1>2, <1>3, <1>4, <1>5, <1>6, <1>7, <1>8, <1>9 DEF Next

\* What JoinedShown rests on: a room that the account is in is in some response
\* to come until it has its chat, whatever was lost, refused or joined elsewhere.
THEOREM NoRoomForgotten == Spec => []JoinedToCome
<1>1. Init => JoinedToCome
  BY DEF Init, JoinedToCome
<1> QED
  BY InitTyped, StepTyped, StepToCome, <1>1, PTL DEF Spec

-----------------------------------------------------------------------------
(* The loop implements SyncLoop.                                            *)

\* A history variable: up to where responses were handled, which since is not
\* once a connection has started from the beginning again.  No step depends
\* on it.
VARIABLE handled

HInit == Init /\ handled = 0
HNext == Next /\ handled' = IF SyncComplete THEN reply ELSE handled
HSpec == HInit /\ [][HNext]_<<vars, handled>>

Loop == INSTANCE SyncLoop WITH
          head      <- Len(log),
          delivered <- 1..handled,
          asking    <- (gc # "gone"),
          asked     <- since,
          answers   <- IF reply = None THEN {} ELSE {reply}

HInv ==
  /\ Typed
  /\ handled \in since..Len(log)
  /\ reply # None => handled <= reply

LEMMA Positions ==
  ASSUME HInv
  PROVE  /\ Len(log) \in Nat /\ since \in Nat /\ handled \in Nat
         /\ since <= handled /\ handled <= Len(log)
         /\ reply # None => reply \in Nat /\ handled <= reply /\ reply <= Len(log)
BY DEF HInv, Typed, TypeOK

LEMMA LoopInitially == HInit => Loop!LoopInit /\ HInv
<1> SUFFICES ASSUME HInit PROVE Loop!LoopInit /\ HInv
  OBVIOUS
<1>1. log = << >> /\ gc = "gone" /\ since = 0 /\ reply = None /\ handled = 0
  BY DEF HInit, Init
<1>2. Typed
  BY InitTyped DEF HInit
<1>3. 1..handled = {} /\ Len(log) = 0
  BY <1>1
<1> QED
  BY <1>1, <1>2, <1>3 DEF Loop!LoopInit, HInv

\* A response has what follows since, up to reply.
LEMMA LoopHandles ==
  ASSUME HInv, SyncComplete, handled' = reply
  PROVE  Loop!Handle
<1>1. /\ gc # "gone" /\ gc' # "gone" /\ reply # None
      /\ since' = reply /\ reply' = None /\ log' = log
  BY DEF SyncComplete, Alive
<1>2. 1..handled' = 1..handled \cup (since + 1)..reply
  BY <1>1, Positions
<1> QED
  BY <1>1, <1>2 DEF Loop!Handle

\* Any other step leaves handled alone.
LEMMA LoopOther ==
  ASSUME HInv, Next, ~SyncComplete, UNCHANGED handled
  PROVE  [Loop!LoopNext]_(Loop!loopVars)
<1> USE DEF clientVars
<1>1. CASE Connect
  <2>1. /\ gc = "gone" /\ gc' # "gone" /\ since' \in {0, since}
        /\ UNCHANGED <<log, reply, handled>>
    BY <1>1 DEF Connect
  <2>2. since' \in 0..Len(log) /\ 1..since' \subseteq 1..handled
    BY <2>1, Positions
  <2>3. Loop!Ask
    BY <2>1, <2>2 DEF Loop!Ask
  <2> QED
    BY <2>3 DEF Loop!LoopNext
<1>2. CASE ServerResponds
  <2>1. /\ gc # "gone" /\ reply = None /\ reply' = Len(log)
        /\ UNCHANGED <<log, gc, since, handled>>
    BY <1>2 DEF ServerResponds, Alive
  <2>2. reply' # None
    BY <2>1, Positions, NoneIsNoPosition
  <2>3. Loop!Respond
    BY <2>1, <2>2 DEF Loop!Respond
  <2> QED
    BY <2>3 DEF Loop!LoopNext
<1>3. CASE SyncFails \/ Close
  <2>1. gc # "gone" /\ reply' = None /\ UNCHANGED <<log, since, handled>>
    BY <1>3 DEF SyncFails, Close, Alive
  <2>2. Loop!Fail
    BY <2>1 DEF Loop!Fail
  <2> QED
    BY <2>2 DEF Loop!LoopNext
<1>4. ASSUME UNCHANGED <<since, reply, handled>>, (gc' # "gone") = (gc # "gone")
      PROVE  [Loop!LoopNext]_(Loop!loopVars)
  <2>1. Len(log') \in {Len(log), Len(log) + 1}
    BY NextGrows, GrowsTyped DEF HInv, Typed
  <2>2. CASE Len(log') = Len(log)
    BY <1>4, <2>2 DEF Loop!loopVars
  <2>3. CASE Len(log') = Len(log) + 1
    <3>1. Loop!Grow
      BY <1>4, <2>3 DEF Loop!Grow
    <3> QED
      BY <3>1 DEF Loop!LoopNext
  <2> QED
    BY <2>1, <2>2, <2>3
<1>5. ASSUME NEW r \in Rooms, Invited(r) \/ Message(r) \/ Elsewhere(r)
      PROVE  [Loop!LoopNext]_(Loop!loopVars)
  BY <1>4, <1>5 DEF Invited, Message, Elsewhere
<1>6. ASSUME NEW r \in Rooms, JoinChat(r) \/ RejectChat(r) \/ ChatLeave(r) \/ CloseWindow(r)
      PROVE  [Loop!LoopNext]_(Loop!loopVars)
  BY <1>4, <1>6 DEF JoinChat, RejectChat, ChatLeave, CloseWindow
<1>7. ASSUME NEW q \in out, Handles(q) \/ OrphanEnds(q)
      PROVE  [Loop!LoopNext]_(Loop!loopVars)
  BY <1>4, <1>7 DEF Handles, OrphanEnds
<1>8. ASSUME NEW q \in out, Answered(q) \/ RequestFails(q)
      PROVE  [Loop!LoopNext]_(Loop!loopVars)
  <2>1. UNCHANGED <<since, reply, handled>> /\ gc # "gone" /\ gc' # "gone"
    BY <1>8 DEF Answered, RequestFails, Alive
  <2> QED
    BY <1>4, <2>1
<1> QED
  BY <1>1, <1>2, <1>3, <1>5, <1>6, <1>7, <1>8 DEF Next

LEMMA LoopStep ==
  ASSUME HInv, [HNext]_<<vars, handled>>
  PROVE  [Loop!LoopNext]_(Loop!loopVars)
<1>1. CASE HNext /\ SyncComplete
  <2>1. Loop!Handle
    BY <1>1, LoopHandles DEF HNext
  <2> QED
    BY <2>1 DEF Loop!LoopNext
<1>2. CASE HNext /\ ~SyncComplete
  BY <1>2, LoopOther DEF HNext
<1>3. CASE UNCHANGED <<vars, handled>>
  BY <1>3 DEF vars, Loop!loopVars
<1> QED
  BY <1>1, <1>2, <1>3

LEMMA StepHInv == HInv /\ [HNext]_<<vars, handled>> => HInv'
<1> SUFFICES ASSUME HInv, [HNext]_<<vars, handled>> PROVE HInv'
  OBVIOUS
<1>1. Typed' /\ Typed /\ [Next]_vars
  BY StepTyped DEF HInv, HNext
<1>2. Len(log') \in {Len(log), Len(log) + 1}
  BY <1>1, NextGrows, GrowsTyped DEF Typed
<1>3. CASE HNext /\ SyncComplete
  <2>1. handled' = reply /\ since' = reply /\ reply' = None /\ reply # None /\ log' = log
    BY <1>3 DEF HNext, SyncComplete
  <2> QED
    BY <1>1, <2>1, Positions DEF HInv
<1>4. ASSUME UNCHANGED handled, since' \in {0, since}, reply' \in {reply, None} PROVE HInv'
  BY <1>1, <1>2, <1>4, Positions DEF HInv
<1>5. ASSUME ServerResponds, UNCHANGED handled PROVE HInv'
  <2>1. reply' = Len(log) /\ UNCHANGED <<log, since, handled>>
    BY <1>5 DEF ServerResponds
  <2> QED
    BY <1>1, <2>1, Positions DEF HInv
<1>6. CASE UNCHANGED <<vars, handled>>
  BY <1>4, <1>6 DEF vars
<1>7. CASE HNext /\ ~SyncComplete
  <2>1. Next /\ UNCHANGED handled
    BY <1>7 DEF HNext
  <2>2. ServerResponds \/ (since' \in {0, since} /\ reply' \in {reply, None})
    BY <1>7, <2>1
       DEF Next, clientVars, Invited, Message, Elsewhere, Handles, Connect, SyncFails, JoinChat,
           RejectChat, ChatLeave, Answered, RequestFails, OrphanEnds, Close, CloseWindow
  <2> QED
    BY <1>4, <1>5, <2>1, <2>2
<1> QED
  BY <1>3, <1>6, <1>7

\* However the account is connected and disconnected, no event of the stream is
\* passed over: neither an invitation nor a message.
THEOREM ChatsAreSyncLoop == HSpec => Loop!LoopSpec
  BY LoopInitially, LoopStep, StepHInv, PTL DEF HSpec, Loop!LoopSpec
=============================================================================
