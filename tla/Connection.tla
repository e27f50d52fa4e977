----------------------------- MODULE Connection -----------------------------
(***************************************************************************)
(* An account's connection: logging in and the loop of /sync requests      *)
(* (matrix-connection.c), the position in the homeserver's stream that is  *)
(* kept with the account, and the conversations that the responses create  *)
(* and fill (matrix-sync.c), which outlive the connection.                 *)
(*                                                                         *)
(* How a response changes a room is the subject of RoomState; here a room  *)
(* has a few keys of state, and a version of a key is the position in the  *)
(* stream at which it was set.                                             *)
(*                                                                         *)
(* A definition with an underscore is a mutated form of the one after it,  *)
(* used by no action: it is there to try what the properties tell apart.   *)
(***************************************************************************)
EXTENDS Naturals, FiniteSets

CONSTANTS
  Rooms,        \* the rooms the account has joined when it is set up
  Keys,         \* the keys of a room's state
  None,         \* no response
  MaxEvents,    \* bound on the positions of the stream
  MaxTroubles   \* bound on failures, disconnections and restarts

Logins == {"whoami", "login"}

ASSUME RoomsAreNoLogins == Rooms \cap Logins = {}
ASSUME TroublesBounded  == MaxTroubles \in Nat /\ MaxEvents \in Nat \ {0}

VARIABLES
  version,    \* the homeserver: the version of each key of each room
  now,        \* the homeserver: the last position in its stream
  joined,     \* the homeserver: the rooms the account is a member of
  gc,         \* the PurpleConnection: see States
  step,       \* what the connection waits for: see Steps
  since,      \* of the active /sync request; 0 is NULL
  full,       \* its full_state
  reply,      \* the response on its way, or None
  leaving,    \* rooms whose /leave request is out
  orphans,    \* requests that have outlived their connection
  account,    \* settings of the account, in memory
  disk,       \* and as libpurple last saved them
  convs,      \* the rooms that have a conversation
  table,      \* versions in their state tables; 0 is no event
  shown,      \* history: the position up to which responses were handled
  seen,       \* history: versions in the last one, or when a room was left
  dropped,    \* history: rooms left or closed and not fully synced since
  repeated,   \* history: an old message was shown despite skip_old_messages
  lostBatch,  \* history: a next_batch was missing, or lost in a crash
  troubles,   \* history: how many failures there were
  fault       \* "no", or the invalid access that killed the process

serverVars  == <<version, now, joined>>
syncVars    == <<since, full, reply>>
linkVars    == <<gc, step, syncVars>>
callVars    == <<leaving, orphans>>
roomVars    == <<convs, table>>
historyVars == <<shown, seen, dropped, repeated, lostBatch>>
vars == <<serverVars, linkVars, callVars, account, disk, roomVars,
          historyVars, troubles, fault>>

\* "failing" and "dying": a non-fatal or fatal error was reported, and
\* libpurple will disconnect.  "halted": no request is out; "dismissed": nor
\* is a prompt, for it was answered with an empty password.
States == {"none", "connecting", "connected", "failing", "dying"}
Steps  == Logins \cup {"none", "prompt", "dismissed", "sync", "halted"}

Versions == [Rooms -> [Keys -> 0..MaxEvents]]
Settings == [token : BOOLEAN, password : BOOLEAN, skip : BOOLEAN, batch : 0..MaxEvents]
Reply    == [version : Versions, upto : 1..MaxEvents, joined : SUBSET Rooms]

TypeOK ==
  /\ version \in Versions /\ now \in 1..MaxEvents /\ joined \in SUBSET Rooms
  /\ gc \in States /\ step \in Steps
  /\ since \in 0..MaxEvents /\ full \in BOOLEAN /\ reply \in Reply \cup {None}
  /\ leaving \in SUBSET Rooms /\ orphans \in SUBSET (Rooms \cup Logins)
  /\ account \in Settings /\ disk \in Settings
  /\ convs \in SUBSET Rooms /\ table \in Versions
  /\ shown \in 0..MaxEvents /\ seen \in Versions /\ dropped \in SUBSET Rooms
  /\ repeated \in BOOLEAN /\ lostBatch \in BOOLEAN
  /\ troubles \in 0..MaxTroubles
  /\ fault \in {"no", "freedConn", "badAccount"}

Empty == [r \in Rooms |-> [k \in Keys |-> 0]]

\* Pidgin has just started, with an account that never was connected.
Init ==
  /\ version = [r \in Rooms |-> [k \in Keys |-> 1]] /\ now = 1 /\ joined = Rooms
  /\ gc = "none" /\ step = "none" /\ since = 0 /\ full = FALSE /\ reply = None
  /\ leaving = {} /\ orphans = {}
  /\ account \in [token : {FALSE}, password : BOOLEAN, skip : BOOLEAN, batch : {0}]
  /\ disk = account
  /\ convs = {} /\ table = Empty
  /\ shown = 0 /\ seen = Empty /\ dropped = {} /\ repeated = FALSE /\ lostBatch = FALSE
  /\ troubles = 0 /\ fault = "no"

Running == fault = "no"
Trouble == troubles < MaxTroubles /\ troubles' = troubles + 1

\* purple_connection_error_reason: only the first report counts.
Reported(fatal) ==
  IF gc \in {"failing", "dying"} THEN gc ELSE IF fatal THEN "dying" ELSE "failing"

-----------------------------------------------------------------------------
(* The homeserver.                                                          *)

RoomChanges(r, k) ==
  /\ Running /\ now < MaxEvents
  /\ now' = now + 1
  /\ version' = [version EXCEPT ![r][k] = now + 1]
  /\ UNCHANGED <<joined, linkVars, callVars, account, disk, roomVars, historyVars,
                 troubles, fault>>

\* The long poll ends, with news or by its timeout.
ServerResponds ==
  /\ Running /\ step = "sync" /\ reply = None
  /\ reply' = [version |-> version, upto |-> now, joined |-> joined]
  /\ UNCHANGED <<serverVars, gc, step, since, full, callVars, account, disk,
                 roomVars, historyVars, troubles, fault>>

\* It takes a request to leave, made by this connection or an earlier one;
\* nothing waits for the answer.
ServerLeaves(r) ==
  /\ Running /\ r \in leaving \cup orphans
  /\ joined' = joined \ {r}
  /\ leaving' = leaving \ {r} /\ orphans' = orphans \ {r}
  /\ UNCHANGED <<version, now, linkVars, account, disk, roomVars, historyVars,
                 troubles, fault>>

-----------------------------------------------------------------------------
(* Logging in.                                                              *)

NeedsFullState_OnceOnly == account.batch = 0

\* _start_sync: whether conversations tell that there was a full sync before
NeedsFullState == account.batch = 0 \/ convs = {}

FirstSince_NoSkip == IF convs = {} THEN 0 ELSE account.batch

\* _start_sync: the since of the first request
FirstSince == IF convs = {} /\ ~account.skip THEN 0 ELSE account.batch

Connected == IF gc = "connecting" THEN "connected" ELSE gc

\* The next request of the loop.  Here and below a request that can't be
\* started is one that fails at once.
BeginSync(from, state, link) ==
  /\ step' = "sync" /\ since' = from /\ full' = state /\ reply' = None
  /\ gc' = link

StartSync ==
  BeginSync(FirstSince, NeedsFullState,
            IF NeedsFullState THEN gc ELSE Connected)

\* _password_login, with the account that the connection belongs to
PasswordLogin == step' = IF account.password THEN "login" ELSE "prompt"

\* matrixprpl_login: the user connects the account, or libpurple does again.
Login ==
  /\ Running /\ gc = "none"
  /\ gc' = "connecting"
  /\ \/ account.token /\ step' = "whoami"
     \/ ~account.token /\ PasswordLogin
  /\ UNCHANGED <<serverVars, syncVars, callVars, account, disk, roomVars,
                 historyVars, troubles, fault>>

WhoamiCompleted ==
  /\ Running /\ step = "whoami"
  /\ StartSync
  /\ UNCHANGED <<serverVars, callVars, account, disk, roomVars, historyVars, troubles, fault>>

WhoamiFails_Halts ==
  /\ Running /\ step = "whoami" /\ Trouble
  /\ step' = "halted"
  /\ UNCHANGED <<serverVars, gc, syncVars, callVars, account, disk, roomVars,
                 historyVars, fault>>

\* _whoami_error and _whoami_badresp: their user_data is the connection, not
\* the account.  The field read as the account's password is the connection's
\* user_id, which is still NULL: the user is prompted for a password, if the
\* rest of what is read as the account doesn't bring the process down.
WhoamiFails ==
  /\ Running /\ step = "whoami" /\ Trouble
  /\ \/ step' = "prompt" /\ UNCHANGED fault
     \/ fault' = "badAccount" /\ UNCHANGED step
  /\ UNCHANGED <<serverVars, gc, syncVars, callVars, account, disk, roomVars, historyVars>>

\* _password_received
PromptAnswered(empty) ==
  /\ Running /\ step = "prompt"
  /\ \/ /\ empty
        /\ step' = "dismissed" /\ UNCHANGED account
     \/ /\ ~empty
        /\ step' = "login" /\ account' = [account EXCEPT !.password = TRUE]
  /\ UNCHANGED <<serverVars, gc, syncVars, callVars, disk, roomVars, historyVars,
                 troubles, fault>>

LoginCompleted ==
  /\ Running /\ step = "login"
  /\ account' = [account EXCEPT !.token = TRUE]
  /\ StartSync
  /\ UNCHANGED <<serverVars, callVars, disk, roomVars, historyVars, troubles, fault>>

\* The default error handlers, or no access_token in the answer.
LoginFails(fatal) ==
  /\ Running /\ step = "login" /\ Trouble
  /\ step' = "halted" /\ gc' = Reported(fatal)
  /\ UNCHANGED <<serverVars, syncVars, callVars, account, disk, roomVars, historyVars, fault>>

-----------------------------------------------------------------------------
(* The loop.                                                                *)

\* What the response has of room r: everything, or what is new since then.
InReply(r) ==
  r \in reply.joined /\ (full \/ since = 0 \/ \E k \in Keys : reply.version[r][k] > since)
Delivered(r, k) == full \/ since = 0 \/ reply.version[r][k] > since

NextSince_OneAhead(batch) == batch + 1
NextSince(batch) == batch

\* matrix_sync_parse, for all the rooms
HandleReply ==
  /\ convs' = convs \cup {r \in Rooms : InReply(r)}
  /\ table' = [r \in Rooms |-> [k \in Keys |->
       IF InReply(r) /\ Delivered(r, k) THEN reply.version[r][k] ELSE table[r][k]]]
  /\ shown' = reply.upto
  /\ seen' = [r \in Rooms |-> IF r \in reply.joined THEN reply.version[r] ELSE seen[r]]
  /\ dropped' = IF full \/ since = 0 THEN dropped \ reply.joined ELSE dropped
  /\ repeated' = (repeated \/ (account.skip /\
       \E r \in reply.joined, k \in Keys : reply.version[r][k] \in (since + 1)..shown))

SyncComplete_NoNext ==
  /\ Running /\ step = "sync" /\ reply # None
  /\ HandleReply
  /\ account' = [account EXCEPT !.batch = reply.upto]
  /\ gc' = Connected /\ step' = "halted" /\ reply' = None
  /\ UNCHANGED <<since, full, lostBatch, troubles, serverVars, callVars, disk, fault>>

\* _sync_complete: the position is kept once the response has been handled,
\* and the next request asks for what follows it.
SyncComplete ==
  /\ Running /\ step = "sync" /\ reply # None
  /\ HandleReply
  /\ account' = [account EXCEPT !.batch = reply.upto]
  /\ BeginSync(NextSince(reply.upto), FALSE, Connected)
  /\ UNCHANGED <<lostBatch, troubles, serverVars, callVars, disk, fault>>

\* The same, but the response has no next_batch.
SyncWithoutBatch ==
  /\ Running /\ step = "sync" /\ reply # None /\ Trouble
  /\ HandleReply
  /\ lostBatch' = TRUE
  /\ step' = "halted" /\ reply' = None /\ gc' = Reported(TRUE)
  /\ UNCHANGED <<since, full, account, serverVars, callVars, disk, fault>>

\* _sync_error, _sync_bad_response, or a body that is no JSON
SyncFails(fatal) ==
  /\ Running /\ step = "sync" /\ Trouble
  /\ step' = "halted" /\ reply' = None /\ gc' = Reported(fatal)
  /\ UNCHANGED <<serverVars, since, full, callVars, account, disk, roomVars,
                 historyVars, fault>>

-----------------------------------------------------------------------------
(* Leaving rooms.                                                           *)

\* The conversation of r is gone, and its tables with it.
Forget(r) ==
  /\ convs' = convs \ {r}
  /\ table' = [table EXCEPT ![r] = Empty[r]]
  /\ dropped' = dropped \cup {r}
  /\ UNCHANGED <<shown, seen, repeated, lostBatch>>

\* matrix_room_leave_chat: everything is freed before the answer is known.
Leave(r) ==
  /\ Running /\ gc # "none" /\ r \in convs
  /\ Forget(r)
  /\ leaving' = leaving \cup {r}
  /\ UNCHANGED <<serverVars, linkVars, orphans, account, disk, troubles, fault>>

\* The default error handlers; the homeserver may have taken the request.
LeaveFails(r, fatal) ==
  /\ Running /\ r \in leaving /\ Trouble
  /\ leaving' = leaving \ {r}
  /\ joined' \in {joined, joined \ {r}}
  /\ gc' = Reported(fatal)
  /\ UNCHANGED <<version, now, step, syncVars, orphans, account, disk, roomVars,
                 historyVars, fault>>

\* libpurple frees a conversation without telling the plugin while the account
\* is not connected.
CloseWhileDown(r) ==
  /\ Running /\ gc = "none" /\ r \in convs /\ Trouble
  /\ Forget(r)
  /\ UNCHANGED <<serverVars, linkVars, callVars, account, disk, fault>>

-----------------------------------------------------------------------------
(* The end of a connection and of the process.                              *)

\* matrixprpl_close: the /sync is cancelled, other requests are not.
Close ==
  /\ gc' = "none" /\ step' = "none" /\ reply' = None
  /\ orphans' = orphans \cup leaving \cup ({step} \cap Logins) /\ leaving' = {}
  /\ UNCHANGED <<serverVars, since, full, account, disk, roomVars, historyVars, fault>>

\* libpurple disconnects after an error.
ErrorCloses == Running /\ gc \in {"failing", "dying"} /\ Close /\ UNCHANGED troubles

\* The user disconnects, or cancels the prompt.
UserCloses == Running /\ gc \in {"connecting", "connected"} /\ Trouble /\ Close

\* A request of a freed connection ends.
OrphanEnds(o) ==
  /\ Running /\ o \in orphans
  /\ orphans' = orphans \ {o}
  /\ fault' \in {"no", "freedConn"}
  /\ UNCHANGED <<serverVars, linkVars, leaving, account, disk, roomVars, historyVars, troubles>>

\* The user edits the account.
ToggleSkip ==
  /\ Running /\ gc = "none" /\ Trouble
  /\ account' = [account EXCEPT !.skip = ~account.skip]
  /\ UNCHANGED <<serverVars, linkVars, callVars, disk, roomVars, historyVars, fault>>

\* libpurple saves the accounts, some seconds after a change or on exit.
Save ==
  /\ Running /\ disk # account
  /\ disk' = account
  /\ UNCHANGED <<serverVars, linkVars, callVars, account, roomVars, historyVars,
                 troubles, fault>>

\* The process ends and is started again.  A password is saved only if the
\* user had it remembered.
Restart ==
  /\ Running /\ Trouble
  /\ gc' = "none" /\ step' = "none" /\ reply' = None
  /\ leaving' = {} /\ orphans' = {}
  /\ \E p \in {FALSE, disk.password} : account' = [disk EXCEPT !.password = p]
  /\ disk' = account'
  /\ convs' = {} /\ table' = Empty
  /\ lostBatch' = (lostBatch \/ disk.batch # account.batch)
  /\ UNCHANGED <<serverVars, since, full, shown, seen, dropped, repeated, fault>>

LoginAnswered ==
  \/ WhoamiCompleted \/ WhoamiFails \/ LoginCompleted
  \/ \E fatal \in BOOLEAN : LoginFails(fatal)
SyncAnswered ==
  \/ SyncComplete \/ SyncWithoutBatch
  \/ \E fatal \in BOOLEAN : SyncFails(fatal)

Next ==
  \/ \E r \in Rooms, k \in Keys : RoomChanges(r, k)
  \/ ServerResponds \/ Login \/ LoginAnswered \/ SyncAnswered
  \/ \E empty \in BOOLEAN : PromptAnswered(empty)
  \/ \E r \in Rooms : ServerLeaves(r) \/ Leave(r) \/ CloseWhileDown(r)
  \/ \E r \in Rooms, fatal \in BOOLEAN : LeaveFails(r, fatal)
  \/ ErrorCloses \/ UserCloses \/ ToggleSkip \/ Save \/ Restart
  \/ \E o \in Rooms \cup Logins : OrphanEnds(o)

Spec == Init /\ [][Next]_vars

(* Requests are answered or time out, the user sees to the prompt, and       *)
(* libpurple disconnects after an error.  Nobody has to connect.             *)
FairSpec ==
  /\ Spec
  /\ WF_vars(ServerResponds) /\ WF_vars(LoginAnswered) /\ WF_vars(SyncAnswered)
  /\ WF_vars(\E empty \in BOOLEAN : PromptAnswered(empty))
  /\ WF_vars(ErrorCloses)

-----------------------------------------------------------------------------
(* Properties.                                                              *)

\* Whatever was lost, interrupted or started again, the tables of a room that
\* was never left or closed hold all of its state as of the last response.
TablesComplete == \A r \in convs \ dropped : table[r] = seen[r]

\* With skip_old_messages only new messages are shown, unless a next_batch was
\* lost: reconnecting and restarting don't bring old ones back.
OnlyNewShown == repeated => lostBatch

\* Logging in ends, with a connection or without, unless the prompt was
\* answered with an empty password.
LoginSettles ==
  gc = "connecting" ~> (gc # "connecting" \/ step = "dismissed" \/ ~Running)

\* While the account is connected, what happens in its rooms gets there.
CatchesUp ==
  \A n \in 1..MaxEvents :
    (gc = "connected" /\ now >= n) ~> (shown >= n \/ gc # "connected" \/ ~Running)

Loop == INSTANCE SyncLoop WITH
          head      <- now,
          delivered <- 1..shown,
          asking    <- (step = "sync"),
          asked     <- since,
          answers   <- IF reply = None THEN {} ELSE {reply.upto}

\* Whatever fails, is interrupted or is started again, no event of the stream
\* is passed over: a request asks only for what follows something that was
\* handled, and what its response has is handled once, and from there on.
ImplementsSyncLoop == Loop!LoopSpec

\* After a failed attempt to leave a room, things get resynced when the user
\* reconnects (matrix_room_leave_chat): what a response to that connection
\* leaves behind is complete again.
Resynced ==
  [][SyncComplete /\ gc = "connected" =>
       \A r \in (convs' \cap joined) \ (leaving \cup orphans) : table'[r] = seen'[r]]_vars

\* If whoami fails the login falls back to the password, and only an account
\* without one is prompted for (_whoami_error).
PromptOnlyWithoutPassword == step = "prompt" => ~account.password
=============================================================================
