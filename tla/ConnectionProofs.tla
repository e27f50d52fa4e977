-------------------------- MODULE ConnectionProofs --------------------------
(***************************************************************************)
(* Proofs about Connection, for any number of rooms, keys, events and      *)
(* failures: the types, that the tables of the rooms stay complete, and    *)
(* that skip_old_messages shows only new messages.                         *)
(***************************************************************************)
EXTENDS Connection, TLAPS

-----------------------------------------------------------------------------
(* Types.                                                                   *)

LEMMA EmptyTyped == Empty \in Versions /\ \A r \in Rooms : Empty[r] \in [Keys -> 0..MaxEvents]
  BY TroublesBounded DEF Empty, Versions

LEMMA InitTyped == Init => TypeOK
<1> SUFFICES ASSUME Init PROVE TypeOK
  OBVIOUS
<1>1. version \in Versions
  BY TroublesBounded DEF Init, Versions
<1>2. account \in Settings /\ disk \in Settings
  <2>1. PICK p \in BOOLEAN, s \in BOOLEAN :
          account = [token |-> FALSE, password |-> p, skip |-> s, batch |-> 0]
    BY DEF Init
  <2>2. 0 \in 0..MaxEvents
    BY TroublesBounded
  <2>3. account \in Settings
    BY <2>1, <2>2 DEF Settings
  <2>4. QED
    BY <2>3 DEF Init
<1>3. QED
  <2>1. now \in 1..MaxEvents /\ since \in 0..MaxEvents /\ shown \in 0..MaxEvents
        /\ troubles \in 0..MaxTroubles
    BY TroublesBounded DEF Init
  <2>2. gc \in States /\ step \in Steps /\ fault \in {"no", "freedConn", "badAccount"}
    BY DEF Init, States, Steps
  <2>3. /\ full \in BOOLEAN /\ repeated \in BOOLEAN /\ lostBatch \in BOOLEAN
        /\ reply \in Reply \cup {None}
    BY DEF Init
  <2>4. /\ joined \in SUBSET Rooms /\ leaving \in SUBSET Rooms
        /\ orphans \in SUBSET (Rooms \cup Logins)
        /\ convs \in SUBSET Rooms /\ dropped \in SUBSET Rooms
    BY DEF Init
  <2>5. table \in Versions /\ seen \in Versions
    BY EmptyTyped DEF Init
  <2>6. QED
    BY <1>1, <1>2, <2>1, <2>2, <2>3, <2>4, <2>5 DEF TypeOK

\* A typed reply leaves typed tables.
LEMMA HandlingTyped ==
  ASSUME TypeOK, reply # None, HandleReply
  PROVE  /\ convs' \in SUBSET Rooms /\ table' \in Versions
         /\ shown' \in 0..MaxEvents /\ seen' \in Versions
         /\ dropped' \in SUBSET Rooms /\ repeated' \in BOOLEAN
<1>1. reply \in Reply
  BY DEF TypeOK
<1>2. /\ reply.version \in Versions /\ reply.upto \in 1..MaxEvents
      /\ reply.joined \in SUBSET Rooms
  BY <1>1 DEF Reply
<1>3. table' \in Versions
  BY <1>2 DEF HandleReply, TypeOK, Versions
<1>4. seen' \in Versions
  BY <1>2 DEF HandleReply, TypeOK, Versions
<1>5. repeated' \in BOOLEAN
  <2>1. repeated' = (repeated \/ (account.skip /\
          \E r \in reply.joined, k \in Keys : reply.version[r][k] \in (since + 1)..shown))
    BY DEF HandleReply
  <2>2. QED
    BY <2>1
<1>6. QED
  BY <1>2, <1>3, <1>4, <1>5, TroublesBounded DEF HandleReply, TypeOK

LEMMA TroubleTyped == TypeOK /\ Trouble => troubles' \in 0..MaxTroubles
  BY TroublesBounded DEF TypeOK, Trouble

LEMMA ReportTyped == TypeOK => \A fatal \in BOOLEAN : Reported(fatal) \in States
  BY DEF TypeOK, Reported, States

LEMMA ForgetTyped ==
  ASSUME TypeOK, NEW r \in Rooms, Forget(r)
  PROVE  convs' \in SUBSET Rooms /\ table' \in Versions /\ dropped' \in SUBSET Rooms
  BY EmptyTyped DEF TypeOK, Forget, Versions

LEMMA StartTyped ==
  ASSUME TypeOK, StartSync
  PROVE  /\ gc' \in States /\ step' \in Steps
         /\ since' \in 0..MaxEvents /\ full' \in BOOLEAN /\ reply' = None
  BY TroublesBounded
  DEF TypeOK, StartSync, BeginSync, FirstSince, NeedsFullState, Connected, States, Steps, Settings

LEMMA NextTyped == TypeOK /\ [Next]_vars => TypeOK'
<1> SUFFICES ASSUME TypeOK, [Next]_vars PROVE TypeOK'
  OBVIOUS
<1> USE DEF serverVars, syncVars, linkVars, callVars, roomVars, historyVars
<1>1. ASSUME NEW r \in Rooms, NEW k \in Keys, RoomChanges(r, k) PROVE TypeOK'
  <2>1. now + 1 \in 1..MaxEvents
    BY <1>1, TroublesBounded DEF TypeOK, RoomChanges
  <2>2. version' \in Versions /\ now' \in 1..MaxEvents
    BY <1>1, <2>1 DEF TypeOK, RoomChanges, Versions
  <2>3. QED
    BY <1>1, <2>2 DEF TypeOK, RoomChanges
<1>2. CASE ServerResponds
  <2>1. reply' \in Reply
    BY <1>2 DEF TypeOK, ServerResponds, Reply
  <2>2. QED
    BY <1>2, <2>1 DEF TypeOK, ServerResponds
<1>3. ASSUME NEW r \in Rooms, ServerLeaves(r) PROVE TypeOK'
  BY <1>3 DEF TypeOK, ServerLeaves
<1>4. CASE Login
  BY <1>4 DEF TypeOK, Login, PasswordLogin, States, Steps, Logins
<1>5. CASE WhoamiCompleted
  BY <1>5, StartTyped DEF TypeOK, WhoamiCompleted
<1>6. CASE WhoamiFails
  BY <1>6, TroubleTyped DEF TypeOK, WhoamiFails, Steps
<1>7. ASSUME NEW empty \in BOOLEAN, PromptAnswered(empty) PROVE TypeOK'
  <2>1. account' \in Settings /\ step' \in Steps
    BY <1>7 DEF TypeOK, PromptAnswered, Settings, Steps, Logins
  <2>2. QED
    BY <1>7, <2>1 DEF TypeOK, PromptAnswered
<1>8. CASE LoginCompleted
  <2>1. account' \in Settings
    BY <1>8 DEF TypeOK, LoginCompleted, Settings
  <2>2. QED
    BY <1>8, <2>1, StartTyped DEF TypeOK, LoginCompleted
<1>9. ASSUME NEW fatal \in BOOLEAN, LoginFails(fatal) PROVE TypeOK'
  BY <1>9, TroubleTyped, ReportTyped DEF TypeOK, LoginFails, Steps
<1>10. CASE SyncComplete
  <2>1. reply \in Reply
    BY <1>10 DEF TypeOK, SyncComplete
  <2>2. reply.upto \in 1..MaxEvents
    BY <2>1 DEF Reply
  <2>3. account' \in Settings
    BY <1>10, <2>2 DEF TypeOK, SyncComplete, Settings
  <2>4. /\ gc' \in States /\ step' \in Steps
        /\ since' \in 0..MaxEvents /\ full' \in BOOLEAN /\ reply' = None
    <3>1. BeginSync(reply.upto, FALSE, Connected)
      BY <1>10 DEF SyncComplete, NextSince
    <3>2. reply.upto \in 0..MaxEvents
      BY <2>2, TroublesBounded
    <3>3. Connected \in States
      BY DEF TypeOK, Connected, States
    <3>4. QED
      BY <3>1, <3>2, <3>3 DEF BeginSync, Steps
  <2>5. QED
    BY <1>10, <2>3, <2>4, HandlingTyped DEF TypeOK, SyncComplete
<1>11. CASE SyncWithoutBatch
  BY <1>11, HandlingTyped, TroubleTyped, ReportTyped DEF TypeOK, SyncWithoutBatch, Steps
<1>12. ASSUME NEW fatal \in BOOLEAN, SyncFails(fatal) PROVE TypeOK'
  BY <1>12, TroubleTyped, ReportTyped DEF TypeOK, SyncFails, Steps
<1>13. ASSUME NEW r \in Rooms, Leave(r) PROVE TypeOK'
  BY <1>13, ForgetTyped DEF TypeOK, Leave, Forget
<1>14. ASSUME NEW r \in Rooms, NEW fatal \in BOOLEAN, LeaveFails(r, fatal) PROVE TypeOK'
  BY <1>14, TroubleTyped, ReportTyped DEF TypeOK, LeaveFails
<1>15. ASSUME NEW r \in Rooms, CloseWhileDown(r) PROVE TypeOK'
  BY <1>15, ForgetTyped, TroubleTyped DEF TypeOK, CloseWhileDown, Forget
<1>16. CASE ErrorCloses \/ UserCloses
  <2>1. Close /\ troubles' \in 0..MaxTroubles
    BY <1>16, TroubleTyped DEF TypeOK, ErrorCloses, UserCloses
  <2>2. QED
    BY <2>1 DEF TypeOK, Close, States, Steps
<1>17. CASE ToggleSkip
  <2>1. account' \in Settings
    BY <1>17 DEF TypeOK, ToggleSkip, Settings
  <2>2. QED
    BY <1>17, <2>1, TroubleTyped DEF TypeOK, ToggleSkip
<1>18. CASE Save
  BY <1>18 DEF TypeOK, Save
<1>19. CASE Restart
  <2>1. account' \in Settings /\ disk' \in Settings
    BY <1>19 DEF TypeOK, Restart, Settings
  <2>2. QED
    BY <1>19, <2>1, EmptyTyped, TroubleTyped DEF TypeOK, Restart, States, Steps
<1>20. ASSUME NEW o \in Rooms \cup Logins, OrphanEnds(o) PROVE TypeOK'
  BY <1>20 DEF TypeOK, OrphanEnds
<1>21. CASE UNCHANGED vars
  BY <1>21 DEF TypeOK, vars
<1>22. QED
  BY <1>1, <1>2, <1>3, <1>4, <1>5, <1>6, <1>7, <1>8, <1>9, <1>10, <1>11, <1>12, <1>13,
     <1>14, <1>15, <1>16, <1>17, <1>18, <1>19, <1>20, <1>21
  DEF Next, LoginAnswered, SyncAnswered

\* Every variable keeps its type.
THEOREM TypeCorrect == Spec => []TypeOK
  BY InitTyped, NextTyped, PTL DEF Spec

-----------------------------------------------------------------------------
(* The invariant.                                                           *)

\* Positions: nothing is ahead of the stream, and no kept position is ahead
\* of what was handled.
Ordered ==
  /\ \A r \in Rooms, k \in Keys : 1 <= version[r][k] /\ version[r][k] <= now
  /\ shown <= now /\ account.batch <= shown /\ disk.batch <= shown

\* What was not set since the last response is what that response said.
SeenIsCurrent ==
  \A r \in joined, k \in Keys : version[r][k] <= shown => seen[r][k] = version[r][k]

\* Where there are conversations, all rooms have one or are excused.
RoomsKnown == convs # {} => joined \subseteq convs \cup dropped

\* A request for less than the full state leaves no gap, and has no room that
\* is new.
Whole == full \/ since = 0
RequestFits ==
  /\ gc = "none" => step = "none"
  /\ step = "sync" => since <= shown /\ (Whole \/ joined \subseteq convs \cup dropped)

ReplyFits ==
  /\ step = "sync" /\ shown <= reply.upto /\ reply.upto <= now
  /\ joined \subseteq reply.joined
  /\ \A r \in Rooms, k \in Keys :
       version[r][k] <= reply.upto => reply.version[r][k] = version[r][k]
  /\ \A r \in reply.joined, k \in Keys :
       reply.version[r][k] <= shown => seen[r][k] = reply.version[r][k]
  /\ Whole \/ reply.joined \subseteq convs \cup dropped

\* With skip_old_messages each request begins where the last one ended.
BatchKept ==
  /\ ~lostBatch => account.batch = shown
  /\ step = "sync" /\ account.skip /\ ~lostBatch => since = shown

Inv ==
  /\ TypeOK /\ Ordered /\ SeenIsCurrent /\ RoomsKnown /\ RequestFits
  /\ reply # None => ReplyFits
  /\ BatchKept /\ TablesComplete /\ OnlyNewShown

LEMMA InitInv == Init => Inv
<1> SUFFICES ASSUME Init PROVE Inv
  OBVIOUS
<1>1. \A r \in Rooms, k \in Keys : version[r][k] = 1
  BY DEF Init
<1>2. now = 1 /\ shown = 0 /\ step = "none" /\ convs = {} /\ ~repeated /\ ~lostBatch /\ reply = None
  BY DEF Init
<1>3. account.batch = 0 /\ disk.batch = 0
  BY DEF Init
<1>4. Ordered /\ SeenIsCurrent
  BY <1>1, <1>2, <1>3 DEF Ordered, SeenIsCurrent, Init
<1>5. RoomsKnown /\ RequestFits /\ BatchKept /\ TablesComplete /\ OnlyNewShown
  BY <1>2, <1>3 DEF RoomsKnown, RequestFits, BatchKept, TablesComplete, OnlyNewShown
<1>6. QED
  BY <1>2, <1>4, <1>5, InitTyped DEF Inv

\* Steps that leave the rooms, the stream and the position alone, and either
\* leave the loop alone too or end it.
Quiet ==
  /\ UNCHANGED <<version, now, joined, roomVars, historyVars>>
  /\ account'.batch = account.batch /\ disk'.batch = disk.batch
  /\ account'.skip = account.skip
  /\ \/ UNCHANGED <<step, syncVars>> /\ (gc' = "none" => gc = "none")
     \/ step' # "sync" /\ reply' = None /\ (gc' = "none" => step' = "none")

LEMMA QuietKeeps == Inv /\ TypeOK' /\ Quiet => Inv'
<1> SUFFICES ASSUME Inv, TypeOK', Quiet PROVE Inv'
  OBVIOUS
<1> USE DEF roomVars, historyVars, syncVars
<1>1. Ordered'
  BY DEF Inv, Quiet, Ordered
<1>2. SeenIsCurrent' /\ RoomsKnown'
  BY DEF Inv, Quiet, SeenIsCurrent, RoomsKnown
<1>3. RequestFits'
  BY DEF Inv, Quiet, RequestFits, Whole
<1>4. reply' # None => ReplyFits'
  BY DEF Inv, Quiet, ReplyFits, Whole
<1>5. BatchKept'
  BY DEF Inv, Quiet, BatchKept
<1>6. TablesComplete' /\ OnlyNewShown'
  BY DEF Inv, Quiet, TablesComplete, OnlyNewShown
<1>7. QED
  BY <1>1, <1>2, <1>3, <1>4, <1>5, <1>6 DEF Inv

\* A request that starts from the kept position, on StartSync's terms.
LEMMA StartKeeps ==
  ASSUME Inv, TypeOK', StartSync, gc # "none",
         UNCHANGED <<version, now, joined, roomVars, historyVars, disk>>,
         account'.batch = account.batch, account'.skip = account.skip
  PROVE  Inv'
<1> USE DEF roomVars, historyVars
<1>1. /\ step' = "sync" /\ since' = FirstSince /\ full' = NeedsFullState /\ reply' = None
      /\ gc' # "none"
  BY DEF StartSync, BeginSync, Connected
<1>2. account.batch \in Nat /\ shown \in Nat /\ now \in Nat
  BY TroublesBounded DEF Inv, TypeOK, Settings
<1>3. Ordered' /\ SeenIsCurrent' /\ RoomsKnown'
  BY DEF Inv, Ordered, SeenIsCurrent, RoomsKnown
<1>4. since' <= shown'
  BY <1>1, <1>2 DEF Inv, Ordered, FirstSince
<1>5. Whole' \/ joined' \subseteq convs' \cup dropped'
  BY <1>1 DEF Inv, RoomsKnown, NeedsFullState, Whole
<1>6. RequestFits'
  BY <1>1, <1>4, <1>5 DEF RequestFits
<1>7. BatchKept'
  BY <1>1 DEF Inv, BatchKept, FirstSince
<1>8. TablesComplete' /\ OnlyNewShown'
  BY DEF Inv, TablesComplete, OnlyNewShown
<1>9. QED
  BY <1>1, <1>3, <1>6, <1>7, <1>8 DEF Inv

\* What handling a response leaves behind, whether or not it has a next_batch.
LEMMA HandlingKeeps ==
  ASSUME Inv, reply # None, HandleReply, UNCHANGED <<version, now, joined>>
  PROVE  /\ SeenIsCurrent' /\ TablesComplete'
         /\ joined' \subseteq convs' \cup dropped'
         /\ shown <= shown' /\ shown' <= now /\ shown' = reply.upto
         /\ account.skip /\ ~lostBatch => repeated' = repeated
<1>0. ReplyFits /\ TypeOK
  BY DEF Inv
<1>1. /\ reply.version \in Versions /\ reply.upto \in 1..MaxEvents
      /\ reply.joined \in SUBSET Rooms
  BY <1>0 DEF TypeOK, Reply
<1>2. /\ shown' = reply.upto
      /\ seen' = [r \in Rooms |-> IF r \in reply.joined THEN reply.version[r] ELSE seen[r]]
      /\ convs' = convs \cup {r \in Rooms : InReply(r)}
      /\ table' = [r \in Rooms |-> [k \in Keys |->
           IF InReply(r) /\ Delivered(r, k) THEN reply.version[r][k] ELSE table[r][k]]]
      /\ dropped' = IF Whole THEN dropped \ reply.joined ELSE dropped
  BY DEF HandleReply, Whole
<1>3. SeenIsCurrent'
  <2> SUFFICES ASSUME NEW r \in joined, NEW k \in Keys, version[r][k] <= reply.upto
               PROVE  seen'[r][k] = version[r][k]
    BY <1>2 DEF SeenIsCurrent
  <2>1. r \in reply.joined /\ r \in Rooms
    BY <1>0, <1>1 DEF ReplyFits
  <2>2. QED
    BY <1>0, <1>2, <2>1 DEF ReplyFits
<1>4. joined' \subseteq convs' \cup dropped'
  <2>1. joined \subseteq reply.joined /\ joined \subseteq Rooms
    BY <1>0, <1>1 DEF ReplyFits
  <2>2. CASE Whole
    BY <1>1, <1>2, <2>1, <2>2 DEF InReply, Whole
  <2>3. CASE ~Whole
    BY <1>0, <1>2, <2>1, <2>3 DEF ReplyFits
  <2>4. QED
    BY <2>2, <2>3
<1>5. TablesComplete'
  <2> SUFFICES ASSUME NEW r \in convs', r \notin dropped'
               PROVE  table'[r] = seen'[r]
    BY DEF TablesComplete
  <2>1. r \in Rooms
    BY <1>0, <1>2 DEF TypeOK
  <2>2. table'[r] = [k \in Keys |-> IF InReply(r) /\ Delivered(r, k)
                                    THEN reply.version[r][k] ELSE table[r][k]]
    BY <1>2, <2>1
  <2>3. reply.version[r] \in [Keys -> 0..MaxEvents] /\ seen[r] \in [Keys -> 0..MaxEvents]
    BY <1>0, <1>1, <2>1 DEF TypeOK, Versions
  <2>4. CASE r \notin reply.joined
    <3>1. ~InReply(r) /\ seen'[r] = seen[r] /\ r \in convs /\ r \notin dropped
      BY <1>2, <2>1, <2>4 DEF InReply
    <3>2. table[r] = seen[r]
      BY <3>1 DEF Inv, TablesComplete
    <3>3. QED
      BY <2>2, <2>3, <3>1, <3>2
  <2>5. CASE r \in reply.joined /\ Whole
    <3>1. InReply(r) /\ \A k \in Keys : Delivered(r, k)
      BY <2>5 DEF InReply, Delivered, Whole
    <3>2. seen'[r] = reply.version[r]
      BY <1>2, <2>1, <2>5
    <3>3. QED
      BY <2>2, <2>3, <3>1, <3>2
  <2>6. CASE r \in reply.joined /\ ~Whole
    <3>1. r \in convs /\ r \notin dropped
      BY <1>0, <1>2, <2>6 DEF ReplyFits
    <3>2. table[r] = seen[r]
      BY <3>1 DEF Inv, TablesComplete
    <3>3. seen'[r] = reply.version[r]
      BY <1>2, <2>1, <2>6
    <3>4. ASSUME NEW k \in Keys, ~(InReply(r) /\ Delivered(r, k))
          PROVE  seen[r][k] = reply.version[r][k]
      <4>1. since \in Nat /\ shown \in Nat /\ since <= shown
        BY <1>0 DEF Inv, RequestFits, ReplyFits, TypeOK
      <4>2. reply.version[r][k] \in Nat
        BY <2>3
      <4>3. reply.version[r][k] <= since
        BY <2>6, <3>4, <4>1, <4>2 DEF InReply, Delivered
      <4>4. reply.version[r][k] <= shown
        BY <4>1, <4>2, <4>3
      <4>5. QED
        BY <1>0, <2>6, <4>4 DEF ReplyFits
    <3>5. QED
      BY <2>2, <2>3, <3>2, <3>3, <3>4
  <2>7. QED
    BY <2>4, <2>5, <2>6
<1>6. account.skip /\ ~lostBatch => repeated' = repeated
  <2> SUFFICES ASSUME account.skip, ~lostBatch PROVE repeated' = repeated
    OBVIOUS
  <2>1. since = shown /\ shown \in Nat
    BY <1>0 DEF Inv, BatchKept, ReplyFits, TypeOK
  <2>2. (since + 1)..shown = {}
    BY <2>1
  <2>3. repeated' = (repeated \/ (account.skip /\
          \E r \in reply.joined, k \in Keys : reply.version[r][k] \in (since + 1)..shown))
    BY DEF HandleReply
  <2>4. repeated \in BOOLEAN
    BY <1>0 DEF TypeOK
  <2>5. QED
    BY <2>2, <2>3, <2>4
<1>7. QED
  BY <1>0, <1>2, <1>3, <1>4, <1>5, <1>6 DEF ReplyFits

\* A room's conversation goes, and the room is excused.
LEMMA ForgettingKeeps ==
  ASSUME Inv, TypeOK', NEW r \in Rooms, Forget(r),
         UNCHANGED <<version, now, joined, linkVars, account, disk>>
  PROVE  Inv'
<1> USE DEF linkVars, syncVars
<1>1. /\ convs' = convs \ {r} /\ dropped' = dropped \cup {r}
      /\ table' = [table EXCEPT ![r] = Empty[r]]
      /\ UNCHANGED <<shown, seen, repeated, lostBatch>>
  BY DEF Forget
<1>2. convs \cup dropped \subseteq convs' \cup dropped'
  BY <1>1
<1>3. Ordered' /\ SeenIsCurrent' /\ BatchKept' /\ OnlyNewShown'
  BY <1>1 DEF Inv, Ordered, SeenIsCurrent, BatchKept, OnlyNewShown
<1>4. RoomsKnown'
  BY <1>1, <1>2 DEF Inv, RoomsKnown
<1>5. RequestFits'
  BY <1>1, <1>2 DEF Inv, RequestFits, Whole
<1>6. reply' # None => ReplyFits'
  BY <1>1, <1>2 DEF Inv, ReplyFits, Whole
<1>7. TablesComplete'
  <2> SUFFICES ASSUME NEW q \in convs' \ dropped' PROVE table'[q] = seen'[q]
    BY DEF TablesComplete
  <2>1. q # r /\ q \in convs \ dropped
    BY <1>1
  <2>2. q \in Rooms /\ table \in Versions
    BY <2>1 DEF Inv, TypeOK
  <2>3. table'[q] = table[q]
    BY <1>1, <2>1, <2>2 DEF Versions
  <2>4. QED
    BY <1>1, <2>1, <2>3 DEF Inv, TablesComplete
<1>8. QED
  BY <1>3, <1>4, <1>5, <1>6, <1>7 DEF Inv

\* The homeserver drops the account from some rooms, and nothing else happens.
LEMMA PartingKeeps ==
  ASSUME Inv, TypeOK', joined' \subseteq joined, gc' = "none" => gc = "none",
         UNCHANGED <<version, now, step, syncVars, account, disk, roomVars, historyVars>>
  PROVE  Inv'
<1> USE DEF syncVars, roomVars, historyVars
<1>1. Ordered' /\ SeenIsCurrent' /\ BatchKept' /\ OnlyNewShown' /\ TablesComplete'
  BY DEF Inv, Ordered, SeenIsCurrent, BatchKept, OnlyNewShown, TablesComplete
<1>2. RoomsKnown' /\ RequestFits'
  BY DEF Inv, RoomsKnown, RequestFits, Whole
<1>3. reply' # None => ReplyFits'
  BY DEF Inv, ReplyFits, Whole
<1>4. QED
  BY <1>1, <1>2, <1>3 DEF Inv

LEMMA RoomChangesKeeps ==
  ASSUME Inv, TypeOK', NEW r \in Rooms, NEW k \in Keys, RoomChanges(r, k)
  PROVE  Inv'
<1> USE DEF linkVars, syncVars, roomVars, historyVars
<1>1. /\ now' = now + 1 /\ version' = [version EXCEPT ![r][k] = now + 1]
      /\ UNCHANGED <<joined, linkVars, account, disk, roomVars, historyVars>>
  BY DEF RoomChanges
<1>2. /\ now \in Nat /\ shown \in Nat /\ version \in Versions
      /\ account.batch \in Nat /\ disk.batch \in Nat /\ joined \subseteq Rooms
  BY DEF Inv, TypeOK, Settings
<1>3. \A q \in Rooms, j \in Keys :
        /\ version[q][j] \in Nat
        /\ version'[q][j] = IF q = r /\ j = k THEN now + 1 ELSE version[q][j]
  BY <1>1, <1>2 DEF Versions
<1>4. shown <= now
  BY DEF Inv, Ordered
<1>5. Ordered'
  BY <1>1, <1>2, <1>3 DEF Inv, Ordered
<1>6. SeenIsCurrent'
  BY <1>1, <1>2, <1>3, <1>4 DEF Inv, SeenIsCurrent
<1>7. RoomsKnown' /\ RequestFits' /\ BatchKept' /\ TablesComplete' /\ OnlyNewShown'
  BY <1>1 DEF Inv, RoomsKnown, RequestFits, Whole, BatchKept, TablesComplete, OnlyNewShown
<1>8. reply' # None => ReplyFits'
  <2> SUFFICES ASSUME reply # None PROVE ReplyFits'
    BY <1>1
  <2>1. ReplyFits /\ reply.upto \in Nat
    BY DEF Inv, TypeOK, Reply
  <2>2. reply.upto <= now
    BY <2>1 DEF ReplyFits
  <2>3. \A q \in Rooms, j \in Keys :
          version'[q][j] <= reply.upto => reply.version[q][j] = version'[q][j]
    BY <1>2, <1>3, <2>1, <2>2 DEF ReplyFits
  <2>4. QED
    BY <1>1, <1>2, <2>1, <2>3 DEF ReplyFits, Whole
<1>9. QED
  BY <1>5, <1>6, <1>7, <1>8 DEF Inv

LEMMA ServerRespondsKeeps ==
  ASSUME Inv, TypeOK', ServerResponds
  PROVE  Inv'
<1> USE DEF serverVars, roomVars, historyVars
<1>1. /\ step = "sync" /\ reply' = [version |-> version, upto |-> now, joined |-> joined]
      /\ UNCHANGED <<version, now, joined, gc, step, since, full, account, disk,
                     roomVars, historyVars>>
  BY DEF ServerResponds
<1>2. /\ Ordered' /\ SeenIsCurrent' /\ RoomsKnown' /\ RequestFits'
      /\ BatchKept' /\ TablesComplete' /\ OnlyNewShown'
  BY <1>1 DEF Inv, Ordered, SeenIsCurrent, RoomsKnown, RequestFits, Whole, BatchKept,
              TablesComplete, OnlyNewShown
<1>3. now \in Nat
  BY DEF Inv, TypeOK
<1>4. shown <= now /\ (Whole \/ joined \subseteq convs \cup dropped)
  BY <1>1 DEF Inv, Ordered, RequestFits
<1>5. \A r \in joined, k \in Keys : version[r][k] <= shown => seen[r][k] = version[r][k]
  BY DEF Inv, SeenIsCurrent
<1>6. /\ reply'.version = version /\ reply'.upto = now /\ reply'.joined = joined
  BY <1>1
<1>7. ReplyFits'
  BY <1>1, <1>3, <1>4, <1>5, <1>6 DEF ReplyFits, Whole
<1>8. QED
  BY <1>2, <1>7 DEF Inv

LEMMA SyncCompleteKeeps ==
  ASSUME Inv, TypeOK', SyncComplete
  PROVE  Inv'
<1> USE DEF serverVars
<1>1. /\ step = "sync" /\ reply # None /\ HandleReply
      /\ account' = [account EXCEPT !.batch = reply.upto]
      /\ BeginSync(reply.upto, FALSE, Connected)
      /\ UNCHANGED <<lostBatch, version, now, joined, disk>>
  BY DEF SyncComplete, NextSince
<1>2. /\ SeenIsCurrent' /\ TablesComplete'
      /\ joined' \subseteq convs' \cup dropped'
      /\ shown <= shown' /\ shown' <= now /\ shown' = reply.upto
      /\ account.skip /\ ~lostBatch => repeated' = repeated
  BY <1>1, HandlingKeeps
<1>3. account'.batch = reply.upto /\ account'.skip = account.skip
  BY <1>1 DEF Inv, TypeOK, Settings
<1>4. /\ step' = "sync" /\ since' = reply.upto /\ reply' = None /\ gc' = Connected
  BY <1>1 DEF BeginSync
<1>5. gc' # "none"
  BY <1>1, <1>4 DEF Inv, RequestFits, Connected
<1>6. /\ shown \in Nat /\ shown' \in Nat /\ now \in Nat /\ disk.batch \in Nat
  BY DEF Inv, TypeOK, Settings
<1>7. Ordered'
  BY <1>1, <1>2, <1>3, <1>6 DEF Inv, Ordered
<1>8. RoomsKnown' /\ RequestFits' /\ BatchKept'
  BY <1>1, <1>2, <1>3, <1>4, <1>5, <1>6 DEF RoomsKnown, RequestFits, BatchKept
<1>9. OnlyNewShown'
  <2>1. CASE account.skip
    BY <1>1, <1>2, <2>1 DEF Inv, OnlyNewShown
  <2>2. CASE ~account.skip
    BY <1>1, <2>2 DEF Inv, OnlyNewShown, HandleReply
  <2>3. QED
    BY <2>1, <2>2
<1>10. QED
  BY <1>2, <1>4, <1>7, <1>8, <1>9 DEF Inv

LEMMA SyncWithoutBatchKeeps ==
  ASSUME Inv, TypeOK', SyncWithoutBatch
  PROVE  Inv'
<1> USE DEF serverVars
<1>1. /\ reply # None /\ HandleReply /\ lostBatch' = TRUE
      /\ step' = "halted" /\ reply' = None
      /\ UNCHANGED <<account, version, now, joined, disk>>
  BY DEF SyncWithoutBatch
<1>2. /\ SeenIsCurrent' /\ TablesComplete'
      /\ joined' \subseteq convs' \cup dropped'
      /\ shown <= shown' /\ shown' <= now
  BY <1>1, HandlingKeeps
<1>3. /\ shown \in Nat /\ shown' \in Nat /\ now \in Nat /\ disk.batch \in Nat
      /\ account.batch \in Nat
  BY DEF Inv, TypeOK, Settings
<1>4. Ordered'
  BY <1>1, <1>2, <1>3 DEF Inv, Ordered
<1>5. gc' # "none"
  BY DEF Inv, RequestFits, SyncWithoutBatch, Reported
<1>6. RoomsKnown' /\ RequestFits' /\ BatchKept' /\ OnlyNewShown'
  BY <1>1, <1>2, <1>5 DEF RoomsKnown, RequestFits, BatchKept, OnlyNewShown
<1>7. QED
  BY <1>1, <1>2, <1>4, <1>6 DEF Inv

LEMMA RestartKeeps ==
  ASSUME Inv, TypeOK', Restart
  PROVE  Inv'
<1> USE DEF serverVars
<1>1. /\ gc' = "none" /\ step' = "none" /\ reply' = None /\ convs' = {}
      /\ lostBatch' = (lostBatch \/ disk.batch # account.batch)
      /\ UNCHANGED <<version, now, joined, shown, seen, dropped, repeated>>
  BY DEF Restart
<1>2. account'.batch = disk.batch /\ disk'.batch = disk.batch
  BY DEF Inv, TypeOK, Settings, Restart
<1>3. Ordered' /\ SeenIsCurrent'
  BY <1>1, <1>2 DEF Inv, Ordered, SeenIsCurrent
<1>4. RoomsKnown' /\ RequestFits' /\ TablesComplete' /\ OnlyNewShown'
  BY <1>1 DEF Inv, RoomsKnown, RequestFits, TablesComplete, OnlyNewShown
<1>5. BatchKept'
  BY <1>1, <1>2 DEF Inv, BatchKept
<1>6. QED
  BY <1>1, <1>3, <1>4, <1>5 DEF Inv

\* While nobody is connected there is no reply either.
LEMMA ToggleSkipKeeps ==
  ASSUME Inv, TypeOK', ToggleSkip
  PROVE  Inv'
<1> USE DEF serverVars, linkVars, syncVars, roomVars, historyVars
<1>1. /\ gc = "none" /\ account'.batch = account.batch
      /\ UNCHANGED <<serverVars, linkVars, disk, roomVars, historyVars>>
  BY DEF Inv, TypeOK, Settings, ToggleSkip
<1>2. step # "sync" /\ reply = None
  BY <1>1 DEF Inv, RequestFits, ReplyFits
<1>3. Ordered' /\ SeenIsCurrent' /\ RoomsKnown' /\ TablesComplete' /\ OnlyNewShown'
  BY <1>1 DEF Inv, Ordered, SeenIsCurrent, RoomsKnown, TablesComplete, OnlyNewShown
<1>4. RequestFits' /\ BatchKept'
  BY <1>1, <1>2 DEF Inv, RequestFits, BatchKept
<1>5. QED
  BY <1>1, <1>2, <1>3, <1>4 DEF Inv

LEMMA SaveKeeps ==
  ASSUME Inv, TypeOK', Save
  PROVE  Inv'
<1> USE DEF serverVars, linkVars, syncVars, roomVars, historyVars
<1>1. disk' = account /\ UNCHANGED <<serverVars, linkVars, account, roomVars, historyVars>>
  BY DEF Save
<1>2. Ordered' /\ SeenIsCurrent' /\ RoomsKnown' /\ TablesComplete' /\ OnlyNewShown'
  BY <1>1 DEF Inv, Ordered, SeenIsCurrent, RoomsKnown, TablesComplete, OnlyNewShown
<1>3. RequestFits' /\ BatchKept'
  BY <1>1 DEF Inv, RequestFits, Whole, BatchKept
<1>4. reply' # None => ReplyFits'
  BY <1>1 DEF Inv, ReplyFits, Whole
<1>5. QED
  BY <1>2, <1>3, <1>4 DEF Inv

LEMMA NextInv == Inv /\ [Next]_vars => Inv'
<1> SUFFICES ASSUME Inv, [Next]_vars PROVE Inv'
  OBVIOUS
<1>0. TypeOK'
  BY NextTyped DEF Inv
<1> USE DEF serverVars, syncVars, linkVars, callVars, roomVars, historyVars
<1>a. step # "sync" => reply = None
  BY DEF Inv, ReplyFits
<1>b. gc = "none" => step = "none"
  BY DEF Inv, RequestFits
<1>1. ASSUME NEW r \in Rooms, NEW k \in Keys, RoomChanges(r, k) PROVE Inv'
  BY <1>0, <1>1, RoomChangesKeeps
<1>2. CASE ServerResponds
  BY <1>0, <1>2, ServerRespondsKeeps
<1>3. ASSUME NEW r \in Rooms, ServerLeaves(r) PROVE Inv'
  BY <1>0, <1>3, PartingKeeps DEF ServerLeaves
<1>4. CASE Login
  <2>1. Quiet
    BY <1>4, <1>a, <1>b DEF Login, PasswordLogin, Quiet
  <2>2. QED
    BY <1>0, <2>1, QuietKeeps
<1>5. CASE WhoamiCompleted
  <2>1. gc # "none"
    BY <1>5, <1>b DEF WhoamiCompleted
  <2>2. QED
    BY <1>0, <1>5, <2>1, StartKeeps DEF WhoamiCompleted
<1>6. CASE WhoamiFails
  <2>1. Quiet
    BY <1>6, <1>a, <1>b DEF WhoamiFails, Quiet
  <2>2. QED
    BY <1>0, <2>1, QuietKeeps
<1>7. ASSUME NEW empty \in BOOLEAN, PromptAnswered(empty) PROVE Inv'
  <2>1. account'.batch = account.batch /\ account'.skip = account.skip
    BY <1>7 DEF Inv, TypeOK, Settings, PromptAnswered
  <2>2. Quiet
    BY <1>7, <1>a, <1>b, <2>1 DEF PromptAnswered, Quiet
  <2>3. QED
    BY <1>0, <2>2, QuietKeeps
<1>8. CASE LoginCompleted
  <2>1. gc # "none"
    BY <1>8, <1>b DEF LoginCompleted
  <2>2. account'.batch = account.batch /\ account'.skip = account.skip
    BY <1>8 DEF Inv, TypeOK, Settings, LoginCompleted
  <2>3. QED
    BY <1>0, <1>8, <2>1, <2>2, StartKeeps DEF LoginCompleted
<1>9. ASSUME NEW fatal \in BOOLEAN, LoginFails(fatal) PROVE Inv'
  <2>1. gc' # "none"
    BY <1>9, <1>b DEF LoginFails, Reported
  <2>2. Quiet
    BY <1>9, <1>a, <2>1 DEF LoginFails, Quiet
  <2>3. QED
    BY <1>0, <2>2, QuietKeeps
<1>10. CASE SyncComplete
  BY <1>0, <1>10, SyncCompleteKeeps
<1>11. CASE SyncWithoutBatch
  BY <1>0, <1>11, SyncWithoutBatchKeeps
<1>12. ASSUME NEW fatal \in BOOLEAN, SyncFails(fatal) PROVE Inv'
  <2>1. gc' # "none"
    BY <1>12, <1>b DEF SyncFails, Reported
  <2>2. Quiet
    BY <1>12, <2>1 DEF SyncFails, Quiet
  <2>3. QED
    BY <1>0, <2>2, QuietKeeps
<1>13. ASSUME NEW r \in Rooms, Leave(r) PROVE Inv'
  BY <1>0, <1>13, ForgettingKeeps DEF Leave
<1>14. ASSUME NEW r \in Rooms, NEW fatal \in BOOLEAN, LeaveFails(r, fatal) PROVE Inv'
  <2>1. joined' \subseteq joined /\ (gc' = "none" => gc = "none")
    BY <1>14 DEF LeaveFails, Reported
  <2>2. QED
    BY <1>0, <1>14, <2>1, PartingKeeps DEF LeaveFails
<1>15. ASSUME NEW r \in Rooms, CloseWhileDown(r) PROVE Inv'
  BY <1>0, <1>15, ForgettingKeeps DEF CloseWhileDown
<1>16. CASE ErrorCloses \/ UserCloses
  <2>1. Close
    BY <1>16 DEF ErrorCloses, UserCloses
  <2>2. Quiet
    BY <2>1 DEF Close, Quiet
  <2>3. QED
    BY <1>0, <2>2, QuietKeeps
<1>17. CASE ToggleSkip
  BY <1>0, <1>17, ToggleSkipKeeps
<1>18. CASE Save
  BY <1>0, <1>18, SaveKeeps
<1>19. CASE Restart
  BY <1>0, <1>19, RestartKeeps
<1>20. ASSUME NEW o \in Rooms \cup Logins, OrphanEnds(o) PROVE Inv'
  <2>1. Quiet
    BY <1>20 DEF OrphanEnds, Quiet
  <2>2. QED
    BY <1>0, <2>1, QuietKeeps
<1>21. CASE UNCHANGED vars
  <2>1. Quiet
    BY <1>21 DEF vars, Quiet
  <2>2. QED
    BY <1>0, <2>1, QuietKeeps
<1>22. QED
  BY <1>1, <1>2, <1>3, <1>4, <1>5, <1>6, <1>7, <1>8, <1>9, <1>10, <1>11, <1>12, <1>13,
     <1>14, <1>15, <1>16, <1>17, <1>18, <1>19, <1>20, <1>21
  DEF Next, LoginAnswered, SyncAnswered

-----------------------------------------------------------------------------
(* The theorems.                                                            *)

\* The invariant holds in every reachable state.
THEOREM AlwaysInv == Spec => []Inv
  BY InitInv, NextInv, PTL DEF Spec

\* The tables of a room that was never left or closed hold all of its state
\* as of the last response, through failures, reconnections and restarts.
THEOREM TablesStayComplete == Spec => []TablesComplete
<1>1. Inv => TablesComplete
  BY DEF Inv
<1>2. QED
  BY <1>1, AlwaysInv, PTL

\* With skip_old_messages nothing old is shown unless a next_batch was lost.
THEOREM SkipsOldMessages == Spec => []OnlyNewShown
<1>1. Inv => OnlyNewShown
  BY DEF Inv
<1>2. QED
  BY <1>1, AlwaysInv, PTL

-----------------------------------------------------------------------------
(* The connection implements SyncLoop.                                      *)

Answers == IF reply = None THEN {} ELSE {reply.upto}

LEMMA LoopInitially == Init => Loop!LoopInit
<1> SUFFICES ASSUME Init PROVE Loop!LoopInit
  OBVIOUS
<1>1. now = 1 /\ shown = 0 /\ step = "none" /\ since = 0 /\ reply = None
  BY DEF Init
<1>2. 1..shown = {}
  BY <1>1
<1>3. QED
  BY <1>1, <1>2 DEF Loop!LoopInit

\* What is neither the stream's, nor the request's, nor its response's.
LEMMA LoopStutters ==
  ASSUME UNCHANGED <<now, shown, step, since, reply>>
  PROVE  UNCHANGED (Loop!loopVars)
  BY DEF Loop!loopVars

\* The loop ends, if it was running.
LEMMA LoopEnds ==
  ASSUME Inv, UNCHANGED <<now, shown, since>>, step' # "sync", reply' = None
  PROVE  [Loop!LoopNext]_(Loop!loopVars)
<1>1. CASE step = "sync"
  <2>1. Loop!Fail
    BY <1>1 DEF Loop!Fail
  <2>2. QED
    BY <2>1 DEF Loop!LoopNext
<1>2. CASE step # "sync"
  <2>1. reply = None
    BY <1>2 DEF Inv, ReplyFits
  <2>2. UNCHANGED (Loop!loopVars)
    BY <1>2, <2>1 DEF Loop!loopVars
  <2>3. QED
    BY <2>2
<1>3. QED
  BY <1>1, <1>2

\* StartSync asks from the kept position, which was handled, or from the start.
LEMMA LoopStarts ==
  ASSUME Inv, StartSync, step # "sync", UNCHANGED <<now, shown>>
  PROVE  Loop!Ask
<1>1. step' = "sync" /\ since' = FirstSince /\ reply' = None
  BY DEF StartSync, BeginSync
<1>2. account.batch \in Nat /\ shown \in Nat /\ now \in Nat
  BY TroublesBounded DEF Inv, TypeOK, Settings
<1>3. account.batch <= shown /\ shown <= now
  BY DEF Inv, Ordered
<1>4. since' \in 0..shown
  BY <1>1, <1>2, <1>3 DEF FirstSince
<1>5. since' \in 0..now /\ 1..since' \subseteq 1..shown
  BY <1>2, <1>3, <1>4
<1>6. reply = None
  BY DEF Inv, ReplyFits
<1>7. QED
  BY <1>1, <1>5, <1>6 DEF Loop!Ask

\* A response is handled: what it has begins where the handled part ends, or
\* before, and reaches beyond it.
LEMMA LoopHandles ==
  ASSUME Inv, reply # None, step = "sync", HandleReply, UNCHANGED now, reply' = None,
         \/ step' = "sync" /\ since' = reply.upto
         \/ step' # "sync" /\ since' = since
  PROVE  Loop!Handle
<1>1. shown' = reply.upto
  BY DEF HandleReply
<1>2. since <= shown /\ shown <= reply.upto
  BY DEF Inv, RequestFits, ReplyFits
<1>3. since \in Nat /\ shown \in Nat /\ reply.upto \in Nat
  BY TroublesBounded DEF Inv, TypeOK, Reply
<1>4. 1..shown' = 1..shown \cup (since + 1)..reply.upto
  BY <1>1, <1>2, <1>3
<1>5. reply.upto \in Answers /\ Answers' = {}
  BY DEF Answers
<1>6. QED
  BY <1>4, <1>5 DEF Loop!Handle, Answers

LEMMA LoopStep ==
  ASSUME Inv, [Next]_vars
  PROVE  [Loop!LoopNext]_(Loop!loopVars)
<1> USE DEF serverVars, syncVars, linkVars, callVars, roomVars, historyVars
<1>1. ASSUME NEW r \in Rooms, NEW k \in Keys, RoomChanges(r, k) PROVE Loop!Grow
  BY <1>1 DEF RoomChanges, Loop!Grow
<1>2. CASE ServerResponds
  <2>1. reply = None /\ step = "sync" /\ UNCHANGED <<now, shown, step, since>>
    BY <1>2 DEF ServerResponds
  <2>2. CASE reply' = None
    BY <2>1, <2>2, LoopStutters
  <2>3. CASE reply' # None
    <3>1. reply'.upto = now
      BY <1>2 DEF ServerResponds
    <3>2. Loop!Respond
      BY <2>1, <2>3, <3>1 DEF Loop!Respond
    <3>3. QED
      BY <3>2 DEF Loop!LoopNext
  <2>4. QED
    BY <2>2, <2>3
<1>3. CASE WhoamiCompleted \/ LoginCompleted
  BY <1>3, LoopStarts DEF WhoamiCompleted, LoginCompleted, Loop!LoopNext
<1>4. CASE SyncComplete
  <2>1. BeginSync(reply.upto, FALSE, Connected) /\ UNCHANGED now
    BY <1>4 DEF SyncComplete, NextSince
  <2>2. Loop!Handle
    BY <1>4, <2>1, LoopHandles DEF SyncComplete, BeginSync
  <2>3. QED
    BY <2>2 DEF Loop!LoopNext
<1>5. CASE SyncWithoutBatch
  <2>1. Loop!Handle
    BY <1>5, LoopHandles DEF SyncWithoutBatch
  <2>2. QED
    BY <2>1 DEF Loop!LoopNext
<1>6. ASSUME NEW fatal \in BOOLEAN, SyncFails(fatal) PROVE [Loop!LoopNext]_(Loop!loopVars)
  BY <1>6, LoopEnds DEF SyncFails
<1>7. CASE ErrorCloses \/ UserCloses
  BY <1>7, LoopEnds DEF ErrorCloses, UserCloses, Close
<1>8. CASE Restart
  BY <1>8, LoopEnds DEF Restart
<1>9. CASE Login
  <2>1. step # "sync" /\ step' # "sync" /\ UNCHANGED <<now, shown, since, reply>>
    BY <1>9 DEF Login, PasswordLogin, Inv, RequestFits
  <2>2. UNCHANGED (Loop!loopVars)
    BY <2>1 DEF Loop!loopVars
  <2>3. QED
    BY <2>2
<1>10. CASE WhoamiFails
  <2>1. step # "sync" /\ step' # "sync" /\ UNCHANGED <<now, shown, since, reply>>
    BY <1>10 DEF WhoamiFails
  <2>2. UNCHANGED (Loop!loopVars)
    BY <2>1 DEF Loop!loopVars
  <2>3. QED
    BY <2>2
<1>11. ASSUME \/ \E fatal \in BOOLEAN : LoginFails(fatal)
              \/ \E empty \in BOOLEAN : PromptAnswered(empty)
       PROVE  UNCHANGED (Loop!loopVars)
  <2>1. step # "sync" /\ step' # "sync" /\ UNCHANGED <<now, shown, since, reply>>
    BY <1>11 DEF LoginFails, PromptAnswered
  <2>2. QED
    BY <2>1 DEF Loop!loopVars
<1>12. ASSUME NEW r \in Rooms, ServerLeaves(r) \/ Leave(r) \/ CloseWhileDown(r)
       PROVE  UNCHANGED (Loop!loopVars)
  BY <1>12, LoopStutters DEF ServerLeaves, Leave, CloseWhileDown, Forget
<1>13. ASSUME NEW r \in Rooms, NEW fatal \in BOOLEAN, LeaveFails(r, fatal)
       PROVE  UNCHANGED (Loop!loopVars)
  BY <1>13, LoopStutters DEF LeaveFails
<1>14. CASE ToggleSkip \/ Save \/ \E o \in Rooms \cup Logins : OrphanEnds(o)
  BY <1>14, LoopStutters DEF ToggleSkip, Save, OrphanEnds
<1>15. CASE UNCHANGED vars
  BY <1>15, LoopStutters DEF vars
<1>16. QED
  BY <1>1, <1>2, <1>3, <1>4, <1>5, <1>6, <1>7, <1>8, <1>9, <1>10, <1>11, <1>12, <1>13,
     <1>14, <1>15
  DEF Next, LoginAnswered, SyncAnswered, Loop!LoopNext

\* The connection is a loop that passes nothing over, whatever fails, is
\* interrupted or is started again.
THEOREM ConnectionIsSyncLoop == Spec => ImplementsSyncLoop
  BY LoopInitially, LoopStep, AlwaysInv, PTL DEF Spec, ImplementsSyncLoop, Loop!LoopSpec

-----------------------------------------------------------------------------
(* The connection never waits for nothing.                                  *)

\* While nothing was reported to libpurple, a request is out or the user is
\* asked: a /sync if the account is connected.
NeverIdle ==
  /\ gc = "connected" => step = "sync"
  /\ gc = "connecting" => step \in Logins \cup {"prompt", "dismissed", "sync"}

LEMMA ReportsBusy == \A fatal \in BOOLEAN : Reported(fatal) \notin {"connecting", "connected"}
  BY DEF Reported

LEMMA StartsBusy ==
  ASSUME StartSync PROVE NeverIdle'
  BY DEF StartSync, BeginSync, NeverIdle

LEMMA NextBusy == NeverIdle /\ [Next]_vars => NeverIdle'
<1> SUFFICES ASSUME NeverIdle, [Next]_vars PROVE NeverIdle'
  OBVIOUS
<1> USE DEF syncVars, linkVars
<1>1. CASE UNCHANGED <<gc, step>>
  BY <1>1 DEF NeverIdle
<1>2. CASE Login
  BY <1>2 DEF Login, PasswordLogin, NeverIdle, Logins
<1>3. CASE WhoamiCompleted \/ LoginCompleted
  BY <1>3, StartsBusy DEF WhoamiCompleted, LoginCompleted
<1>4. CASE WhoamiFails
  BY <1>4 DEF WhoamiFails, NeverIdle, Logins
<1>5. ASSUME NEW empty \in BOOLEAN, PromptAnswered(empty) PROVE NeverIdle'
  BY <1>5 DEF PromptAnswered, NeverIdle, Logins
<1>6. ASSUME NEW fatal \in BOOLEAN, LoginFails(fatal) \/ SyncFails(fatal) PROVE NeverIdle'
  BY <1>6, ReportsBusy DEF LoginFails, SyncFails, NeverIdle
<1>7. CASE SyncComplete
  BY <1>7 DEF SyncComplete, BeginSync, NeverIdle
<1>8. CASE SyncWithoutBatch
  BY <1>8, ReportsBusy DEF SyncWithoutBatch, NeverIdle
<1>9. ASSUME NEW r \in Rooms, NEW fatal \in BOOLEAN, LeaveFails(r, fatal) PROVE NeverIdle'
  BY <1>9, ReportsBusy DEF LeaveFails, NeverIdle
<1>10. CASE ErrorCloses \/ UserCloses \/ Restart
  BY <1>10 DEF ErrorCloses, UserCloses, Close, Restart, NeverIdle
<1>11. QED
  BY <1>1, <1>2, <1>3, <1>4, <1>5, <1>6, <1>7, <1>8, <1>9, <1>10
  DEF Next, LoginAnswered, SyncAnswered, vars, RoomChanges, ServerResponds, ServerLeaves,
      Leave, CloseWhileDown, ToggleSkip, Save, OrphanEnds

\* What LoginSettles and CatchesUp rest on: each completion makes the next
\* request or reports an error, so that an account on which no error was
\* reported has a request out, or the user before a prompt.
THEOREM SomethingIsAwaited == Spec => []NeverIdle
<1>1. Init => NeverIdle
  BY DEF Init, NeverIdle
<1>2. QED
  BY <1>1, NextBusy, PTL DEF Spec
=============================================================================
