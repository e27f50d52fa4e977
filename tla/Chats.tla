------------------------------- MODULE Chats -------------------------------
(***************************************************************************)
(* Which rooms the account is in: invitations, joining and leaving         *)
(* (libmatrix.c, matrix-connection.c), the buddy list and conversations    *)
(* that the responses to /sync make (matrix-sync.c), and what the          *)
(* homeserver thinks meanwhile.                                            *)
(*                                                                         *)
(* Logging in and which next_batch survives is the subject of Connection:  *)
(* here one is never lost, and the process goes on.  A definition with an  *)
(* underscore is a mutated form of the one after it, used by no action.    *)
(***************************************************************************)
EXTENDS Naturals, Sequences, FiniteSets

CONSTANTS
  Rooms,
  None,         \* no response
  MaxEvents,    \* bound on the homeserver's stream
  MaxTroubles   \* bound on failures and disconnections

ASSUME BoundsAreNumbers == MaxEvents \in Nat /\ MaxTroubles \in Nat
ASSUME NoneIsNoPosition == None \notin Nat

VARIABLES
  log,       \* the homeserver: what happened, in order; a position is an index
  gc,        \* the PurpleConnection: see Links
  since,     \* next_batch of the account; 0 is NULL
  reply,     \* the position at which a response on its way was made, or None
  conv,      \* the conversation of each room: see Convs
  blist,     \* the rooms with an entry in the buddy list
  prompt,    \* the rooms with an invitation before the user
  out,       \* requests to join or leave that have not ended
  wish,      \* history: what the user last asked for
  crossed,   \* history: rooms whose last request was made beside its opposite
  raised,    \* history: the invitations that were put before the user
  unshown,   \* history: messages for which there was no chat to show them in
  stale,     \* history: see below
  closed,    \* history: see below
  troubles   \* history: failures so far, bounded by MaxTroubles

\* Rooms whose conversation, if there is one, may be there although the account
\* is out: a response from before was handled after the user had asked to leave;
\* others, or another device, took the account out; or the user refused an
\* old invitation to a room that was joined meanwhile.
\* Closed: rooms whose window was closed while the account stays in: offline, or
\* by a request to leave that came to nothing.  Joining again changes nothing on
\* the homeserver, so that no response brings the room until something happens in
\* it, or until the account connects with no conversations left.

userVars == <<wish, crossed>>
seenVars == <<raised, unshown, stale, closed>>
vars == <<log, gc, since, reply, conv, blist, prompt, out, userVars, seenVars, troubles>>

\* Logged in, but not PURPLE_CONNECTED; connected; an error was reported; gone.
Links  == {"connecting", "up", "closing", "gone"}
\* None; in gc->buddy_chats; or there but "left", as after a disconnection.
Convs  == {"none", "in", "left"}
Wishes == {"in", "out", "any"}

What    == {"invite", "join", "leave", "message"}
Event   == [what : What, room : Rooms]
Request == [op : {"join", "leave"}, room : Rooms, at : {"sent", "done", "refused"}, own : BOOLEAN]

TypeOK ==
  /\ log \in Seq(Event) /\ gc \in Links
  /\ since \in 0..Len(log) /\ reply \in (since..Len(log)) \cup {None}
  /\ conv \in [Rooms -> Convs] /\ blist \subseteq Rooms /\ prompt \subseteq Rooms
  /\ out \subseteq Request
  /\ wish \in [Rooms -> Wishes] /\ crossed \subseteq Rooms
  /\ raised \subseteq 1..Len(log) /\ unshown \subseteq 1..Len(log)
  /\ stale \subseteq Rooms /\ closed \subseteq Rooms
  /\ troubles \in 0..MaxTroubles
  /\ gc = "gone" => (\A r \in Rooms : conv[r] # "in") /\ prompt = {} /\ reply = None
  /\ \A r \in Rooms : conv[r] # "none" => r \in blist

Init ==
  /\ log = << >> /\ gc = "gone" /\ since = 0 /\ reply = None
  /\ conv = [r \in Rooms |-> "none"] /\ blist = {} /\ prompt = {} /\ out = {}
  /\ wish = [r \in Rooms |-> "any"] /\ crossed = {}
  /\ raised = {} /\ unshown = {} /\ stale = {} /\ closed = {}
  /\ troubles = 0

Trouble == troubles < MaxTroubles /\ troubles' = troubles + 1
Alive   == gc # "gone"

-----------------------------------------------------------------------------
(* The homeserver (external).                                               *)

Moves(r, n) == {i \in 1..n : log[i].room = r /\ log[i].what # "message"}
LastOf(S)   == CHOOSE i \in S : \A j \in S : j <= i

\* What the account is in a room at a position of the stream.
MemberAt(r, n) == IF Moves(r, n) = {} THEN "leave" ELSE log[LastOf(Moves(r, n))].what
Member(r)      == MemberAt(r, Len(log))

\* The bound leaves a position for every request that is out.
Room == Len(log) + Cardinality(out) < MaxEvents
Happens(what, r) == log' = Append(log, [what |-> what, room |-> r])

clientVars == <<gc, since, reply, conv, blist, prompt>>

Invited(r) ==
  /\ Room /\ Member(r) = "leave" /\ Happens("invite", r)
  /\ UNCHANGED <<clientVars, out, userVars, seenVars, troubles>>

Message(r) ==
  /\ Room /\ Member(r) = "join" /\ Happens("message", r)
  /\ UNCHANGED <<clientVars, out, userVars, seenVars, troubles>>

\* Another device of the user joins, or leaves; or somebody removes the user.
Elsewhere(r) ==
  /\ Room
  /\ \/ Member(r) # "join" /\ Happens("join", r) /\ UNCHANGED stale
     \/ Member(r) # "leave" /\ Happens("leave", r) /\ stale' = stale \cup {r}
  /\ wish' = [wish EXCEPT ![r] = "any"]
  /\ UNCHANGED <<clientVars, out, crossed, raised, unshown, closed, troubles>>

\* A request is carried out.  Rooms are open to those who are invited.
Handles(q) ==
  /\ q.at = "sent"
  /\ \/ /\ q.op = "join" /\ Member(q.room) = "invite"
        /\ Happens("join", q.room)
        /\ out' = (out \ {q}) \cup {[q EXCEPT !.at = "done"]}
     \/ /\ q.op = "leave" /\ Member(q.room) # "leave"
        /\ Happens("leave", q.room)
        /\ out' = (out \ {q}) \cup {[q EXCEPT !.at = "done"]}
     \/ /\ q.op = "join" /\ Member(q.room) = "join"
        /\ out' = (out \ {q}) \cup {[q EXCEPT !.at = "done"]} /\ UNCHANGED log
     \/ /\ Member(q.room) = "leave"
        /\ out' = (out \ {q}) \cup {[q EXCEPT !.at = "refused"]} /\ UNCHANGED log
  /\ UNCHANGED <<clientVars, userVars, seenVars, troubles>>

\* What a response made at upto for a request from a says of a room.
News(r, a, upto)     == {i \in (a + 1)..upto : log[i].room = r}
JoinSection(a, upto) ==
  {r \in Rooms : MemberAt(r, upto) = "join" /\ (a = 0 \/ News(r, a, upto) # {})}
InviteSection(a, upto) ==
  {r \in Rooms : MemberAt(r, upto) = "invite" /\ (a = 0 \/ News(r, a, upto) # {})}
Timeline(r, a, upto) == {i \in News(r, a, upto) : log[i].what = "message"}

ServerResponds ==
  /\ Alive /\ reply = None /\ reply' = Len(log)
  /\ UNCHANGED <<log, gc, since, conv, blist, prompt, out, userVars, seenVars, troubles>>

-----------------------------------------------------------------------------
(* The sync loop.                                                           *)

Connect_NeverFull ==
  /\ gc = "gone" /\ closed' = {}
  /\ gc' = IF since = 0 THEN "connecting" ELSE "up"
  /\ conv' = [r \in Rooms |-> IF conv[r] = "left" THEN "in" ELSE conv[r]]
  /\ UNCHANGED <<log, since, reply, blist, prompt, out, userVars, raised, unshown, stale, troubles>>

\* _start_sync: where conversations are left the connection is CONNECTED
\* before the first request, and libpurple's UI joins their chats again, which
\* is what matrixprpl_join_chat is prepared for.
Connect_Late ==
  /\ gc = "gone" /\ gc' = "connecting"
  /\ since' = IF \A r \in Rooms : conv[r] = "none" THEN 0 ELSE since
  /\ UNCHANGED <<log, reply, conv, blist, prompt, out, userVars, seenVars, troubles>>

Connect ==
  /\ gc = "gone"
  /\ IF \A r \in Rooms : conv[r] = "none"
     THEN gc' = "connecting" /\ since' = 0 /\ closed' = {} /\ UNCHANGED conv
     ELSE /\ gc' = "up" /\ UNCHANGED <<since, closed>>
          /\ conv' = [r \in Rooms |-> IF conv[r] = "left" THEN "in" ELSE conv[r]]
  /\ UNCHANGED <<log, reply, blist, prompt, out, userVars, raised, unshown, stale, troubles>>

\* The account is out of a room, or a request to leave may yet take it out.
Leaving(r) ==
  Member(r) # "join" \/ \E q \in out : q.op = "leave" /\ q.room = r /\ q.at = "sent"

InvitesToRaise_New(a, upto) == {r \in InviteSection(a, upto) : r \notin blist}

\* matrix_sync_parse puts every invitation of a response before the user.
InvitesToRaise(a, upto) == InviteSection(a, upto)

\* matrix_sync_parse with the response: the first pass over the rooms makes what
\* is missing, then come the invitations, then the timelines.  Rooms that
\* were left have a section that is not looked at.
SyncComplete ==
  /\ Alive /\ reply # None
  /\ LET ins   == JoinSection(since, reply)
         asks  == InvitesToRaise(since, reply)
         fresh == {r \in ins : conv[r] = "none"}
         new   == [r \in Rooms |-> IF r \in fresh THEN "in" ELSE conv[r]]
     IN /\ blist' = blist \cup ins
        /\ conv' = new
        /\ prompt' = prompt \cup asks
        /\ raised' = raised \cup {LastOf(Moves(r, reply)) : r \in asks}
        /\ unshown' = unshown \cup
             UNION {Timeline(r, since, reply) : r \in {s \in ins : new[s] # "in"}}
        /\ stale' = (stale \ ins) \cup {r \in ins : Leaving(r)}
        /\ closed' = closed \ fresh
  /\ since' = reply /\ reply' = None
  /\ gc' = IF gc = "connecting" THEN "up" ELSE gc
  /\ UNCHANGED <<log, out, userVars, troubles>>

\* _sync_error, _sync_bad_response
SyncFails ==
  /\ Alive /\ Trouble
  /\ gc' = "closing" /\ reply' = None
  /\ UNCHANGED <<log, since, conv, blist, prompt, out, userVars, seenVars>>

-----------------------------------------------------------------------------
(* Joining and leaving.                                                     *)

Sent(op, r) == [op |-> op, room |-> r, at |-> "sent", own |-> TRUE]

\* One request of a kind is out for a room at a time, which is a bound.
Send(op, r) ==
  /\ Room /\ ~\E q \in out : q.op = op /\ q.room = r
  /\ out' = out \cup {Sent(op, r)}
  /\ crossed' = IF \E q \in out : q.room = r THEN crossed \cup {r} ELSE crossed \ {r}

\* matrixprpl_join_chat, from the buddy list or with an invitation accepted: a
\* request, unless there is a conversation.
JoinChat(r) ==
  /\ gc = "up" /\ (r \in prompt \/ r \in blist)
  /\ prompt' = prompt \ {r}
  /\ wish' = [wish EXCEPT ![r] = "in"]
  /\ IF conv[r] = "none"
     THEN Send("join", r) /\ UNCHANGED conv
     ELSE conv' = [conv EXCEPT ![r] = "in"] /\ UNCHANGED <<out, crossed>>
  /\ UNCHANGED <<log, gc, since, reply, blist, seenVars, troubles>>

RejectChat_Silent(r) ==
  /\ Alive /\ r \in prompt
  /\ prompt' = prompt \ {r}
  /\ wish' = [wish EXCEPT ![r] = "out"]
  /\ UNCHANGED <<log, gc, since, reply, conv, blist, out, crossed, seenVars, troubles>>

\* matrixprpl_reject_chat, matrix_connection_reject_invite
RejectChat(r) ==
  /\ Alive /\ r \in prompt
  /\ prompt' = prompt \ {r}
  /\ wish' = [wish EXCEPT ![r] = "out"]
  /\ Send("leave", r)
  /\ stale' = IF conv[r] = "none" THEN stale ELSE stale \cup {r}
  /\ UNCHANGED <<log, gc, since, reply, conv, blist, raised, unshown, closed, troubles>>

ChatLeave_KeepsRoom(r) ==
  /\ Alive /\ conv[r] # "none"
  /\ wish' = [wish EXCEPT ![r] = "out"]
  /\ Send("leave", r)
  /\ UNCHANGED <<log, gc, since, reply, conv, blist, prompt, seenVars, troubles>>

\* matrixprpl_chat_leave, matrix_room_leave_chat: libpurple destroys the
\* conversation, whatever becomes of the request.
ChatLeave(r) ==
  /\ Alive /\ conv[r] # "none"
  /\ conv' = [conv EXCEPT ![r] = "none"]
  /\ wish' = [wish EXCEPT ![r] = "out"]
  /\ Send("leave", r)
  /\ stale' = stale \ {r}
  /\ UNCHANGED <<log, gc, since, reply, blist, prompt, raised, unshown, closed, troubles>>

\* _join_completed, _join_failed (which tells the user), and the answers to
\* /leave: none, or matrix_api_bad_response.
Answered(q) ==
  /\ Alive /\ q.own /\ q.at # "sent"
  /\ out' = out \ {q}
  /\ gc' = IF q.op = "leave" /\ q.at = "refused" THEN "closing" ELSE gc
  /\ wish' = IF q.at = "refused" THEN [wish EXCEPT ![q.room] = "any"] ELSE wish
  /\ UNCHANGED <<log, since, reply, conv, blist, prompt, crossed, seenVars, troubles>>

\* _join_error, matrix_api_error, whether or not the request was carried out;
\* a request that was not may still be, later.
RequestFails(q) ==
  /\ Alive /\ q.own /\ Trouble
  /\ out' = (out \ {q}) \cup (IF q.at = "sent" THEN {[q EXCEPT !.own = FALSE]} ELSE {})
  /\ gc' = "closing"
  /\ wish' = [wish EXCEPT ![q.room] = "any"]
  /\ UNCHANGED <<log, since, reply, conv, blist, prompt, crossed, seenVars>>

\* A request that nobody waits for any more ends, carried out or not.
OrphanEnds(q) ==
  /\ ~q.own /\ out' = out \ {q}
  /\ closed' = IF q.op = "leave" /\ q.at = "sent" THEN closed \cup {q.room} ELSE closed
  /\ UNCHANGED <<log, clientVars, userVars, raised, unshown, stale, troubles>>

-----------------------------------------------------------------------------
(* The end of the connection.                                               *)

\* matrixprpl_close: libpurple marks the chats as left and takes back what is
\* before the user.  Requests are not cancelled.
Close ==
  /\ Alive
  /\ IF gc = "closing" THEN UNCHANGED troubles ELSE Trouble
  /\ gc' = "gone" /\ reply' = None /\ prompt' = {}
  /\ conv' = [r \in Rooms |-> IF conv[r] = "in" THEN "left" ELSE conv[r]]
  /\ out' = {[q EXCEPT !.own = FALSE] : q \in {x \in out : x.at = "sent"}}
  /\ wish' = [r \in Rooms |-> IF \E q \in out : q.room = r THEN "any" ELSE wish[r]]
  /\ UNCHANGED <<log, since, blist, crossed, seenVars>>

\* The user closes the window of a chat while the account is offline, which is
\* told to nobody.
CloseWindow(r) ==
  /\ ~Alive /\ conv[r] # "none"
  /\ conv' = [conv EXCEPT ![r] = "none"]
  /\ closed' = closed \cup {r} /\ stale' = stale \ {r}
  /\ wish' = [wish EXCEPT ![r] = "any"]
  /\ UNCHANGED <<log, gc, since, reply, blist, prompt, out, crossed, raised, unshown, troubles>>

Next ==
  \/ \E r \in Rooms : Invited(r) \/ Message(r) \/ Elsewhere(r)
  \/ \E r \in Rooms : JoinChat(r) \/ RejectChat(r) \/ ChatLeave(r) \/ CloseWindow(r)
  \/ \E q \in out : Handles(q) \/ Answered(q) \/ RequestFails(q) \/ OrphanEnds(q)
  \/ ServerResponds \/ SyncComplete \/ SyncFails
  \/ Connect \/ Close

Spec == Init /\ [][Next]_vars

(* Requests are carried out and answered, and /sync within its timeout.  The *)
(* user, other devices and failures are free.                               *)
FairSpec ==
  /\ Spec
  /\ WF_vars(ServerResponds) /\ WF_vars(SyncComplete)
  /\ \A r \in Rooms, op \in {"join", "leave"} :
       WF_vars(\E q \in out : q.op = op /\ q.room = r /\ (Handles(q) \/ Answered(q)))

-----------------------------------------------------------------------------
(* Properties.                                                              *)

\* A conversation is that of a room the account is in, unless it is stale:
\* nothing closes it then.
ConversationsAreJoined ==
  \A r \in Rooms :
    conv[r] # "none" => Member(r) = "join" \/ r \in stale

\* When no request is out for a room, the account is in it or not as the user
\* last asked; but not if requests crossed, for the homeserver may take them
\* in the other order, nor, for joining, if there was a conversation of a room the
\* account was not in, for matrixprpl_join_chat does nothing then.
WishHonoured ==
  \A r \in Rooms \ crossed :
    (~\E q \in out : q.room = r) =>
      /\ wish[r] = "in" /\ r \notin stale => Member(r) = "join"
      /\ wish[r] = "out" => Member(r) # "join"

\* An invitation is put before the user before next_batch passes it.
InvitesRaised ==
  \A r \in Rooms :
    MemberAt(r, since) = "invite" => LastOf(Moves(r, since)) \in raised

\* A message that a response brings has a chat to be shown in.
MessagesShown == unshown = {}

\* A room that the account is in and that has no chat is not forgotten: the
\* responses to come have something of it, or all rooms; unless its window was
\* closed, or a request to leave it is still on its way.
JoinedToCome ==
  \A r \in Rooms :
    Member(r) = "join" /\ conv[r] = "none" /\ r \notin closed =>
      \/ since = 0 \/ News(r, since, Len(log)) # {}
      \/ \E q \in out : q.op = "leave" /\ q.room = r /\ q.at = "sent"

\* A room the account is in gets a chat, while the connection lasts.
JoinedShown ==
  \A r \in Rooms :
    (Member(r) = "join" /\ gc = "up" /\ r \notin closed) ~>
      (conv[r] # "none" \/ Member(r) # "join" \/ gc # "up" \/ r \in closed)
=============================================================================
