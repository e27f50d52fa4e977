----------------------------- MODULE RoomState -----------------------------
(***************************************************************************)
(* How one room's state follows the homeserver: the responses to /sync     *)
(* (matrix-sync.c), the state table (matrix-statetable.c), the member      *)
(* table with its lists of changes (matrix-roommembers.c), and what        *)
(* libpurple is told of the chat's users and of its title (matrix-room.c). *)
(*                                                                         *)
(* A response is handled in one callback, here one step per event and per  *)
(* member told to libpurple; what the homeserver does meanwhile is in the  *)
(* next response.                                                          *)
(*                                                                         *)
(* A definition with an underscore is a mutated form of the one after it,  *)
(* used by no action: it is there to try what the properties tell apart.   *)
(***************************************************************************)
EXTENDS Naturals, Sequences, FiniteSets

CONSTANTS
  Users, Me,      \* user ids; Me is conn->user_id
  RoomId,         \* the conversation's name
  Displaynames,   \* names that users give themselves
  Values,         \* values of m.room.name and of the aliases
  Memberships,    \* which of AllMemberships, and
  NameKeys,       \* which of AllNameKeys, the homeserver sets
  None,           \* a field, or a whole event, that is absent
  MaxChanges      \* bound on the state events of the room

AllMemberships == {"join", "leave", "invite", "ban"}
AllNameKeys == {"m.room.name", "m.room.canonical_alias", "m.room.aliases"}

ASSUME FewUsers      == IsFiniteSet(Users) /\ Me \in Users
ASSUME NamesAreKeys  == NameKeys \subseteq AllNameKeys /\ Users \cap AllNameKeys = {}
ASSUME MembershipsKnown == Memberships \subseteq AllMemberships
ASSUME ChangesBounded == MaxChanges \in Nat

VARIABLES
  truth,      \* the room's state at the homeserver
  pending,    \* state events since the account's next_batch
  changes,    \* history: how many state events there were
  seen,       \* history: truth when the last response was made
  phase,      \* of handling a response: see Phases
  pass,       \* matrix_sync_room runs twice on a response
  batch,      \* the response's state events
  todo,       \* those the current pass has still to handle
  timeline,   \* the state events in the timeline still to handle
  table,      \* MatrixRoomStateEventTable, by type or by member
  member,     \* membership and state_displayname in the member table
  newMembers, renamedMembers, leftMembers,  \* changes libpurple must be told
  opaque,     \* opaque_data: the name libpurple has for the member, or None
  listed,     \* how many users of this name libpurple was told to show
  needsName,  \* PURPLE_CONV_FLAG_NEEDS_NAME_UPDATE
  title,      \* the chat's alias and title
  fault       \* "no", or "assert" when a g_assert has failed

serverVars == <<truth, pending, changes, seen>>
syncVars   == <<phase, pass, batch, todo, timeline>>
memberVars == <<member, newMembers, renamedMembers, leftMembers>>
chatVars   == <<opaque, listed, needsName, title, fault>>
vars == <<serverVars, syncVars, table, memberVars, chatVars>>

Phases == {"idle", "state", "flush", "timeline"}

\* What an m.room.member event says.  A ban or a knock is no known membership.
MemberContent ==
  [membership : Memberships, displayname : Displaynames \cup {None}]

ASSUME NoneIsNoValue ==
  None \notin Users \cup Displaynames \cup Values \cup MemberContent

ParseMembership(m) == IF m = "ban" THEN "none" ELSE m

Member == [membership : {"none", "join", "leave", "invite"},
           displayname : Displaynames \cup {None}]

Keys    == Users \cup AllNameKeys
Content(k) == IF k \in Users THEN MemberContent ELSE Values \cup {None}
Event   == [key : Users, content : MemberContent]
             \cup [key : AllNameKeys, content : Values \cup {None}]
State   == {s \in [Keys -> MemberContent \cup Values \cup {None}] :
              \A k \in Keys : s[k] \in Content(k) \cup {None}}
ShownNames == Users \cup Displaynames

\* matrix_roommember_get_displayname, in a member table m
NameOf(m, u) == IF m[u].displayname # None THEN m[u].displayname ELSE u
Displayname(u) == NameOf(member, u)

TypeOK ==
  /\ truth \in State /\ seen \in State /\ table \in State
  /\ pending \in Seq(Event) /\ timeline \in Seq(Event)
  /\ changes \in 0..MaxChanges
  /\ phase \in Phases /\ pass \in 1..2
  /\ batch \in SUBSET Event /\ todo \in SUBSET batch
  /\ member \in [Users -> Member]
  /\ newMembers \in Seq(Users) /\ renamedMembers \in Seq(Users)
  /\ leftMembers \in Seq(Users)
  /\ opaque \in [Users -> ShownNames \cup {None}]
  /\ listed \in [ShownNames -> Nat]
  /\ needsName \in BOOLEAN
  /\ fault \in {"no", "assert"}

Absent == [membership |-> "none", displayname |-> None]

\* A conversation that matrix_room_create_conversation has just made, for a
\* room of which the homeserver has sent nothing yet.
Init ==
  /\ truth = [k \in Keys |-> None] /\ pending = << >> /\ changes = 0
  /\ seen = truth /\ table = truth
  /\ phase = "idle" /\ pass = 1 /\ batch = {} /\ todo = {} /\ timeline = << >>
  /\ member = [u \in Users |-> Absent]
  /\ newMembers = << >> /\ renamedMembers = << >> /\ leftMembers = << >>
  /\ opaque = [u \in Users |-> None] /\ listed = [n \in ShownNames |-> 0]
  /\ needsName = FALSE /\ title = << RoomId >> /\ fault = "no"

-----------------------------------------------------------------------------
(* The homeserver.                                                          *)

\* Somebody changes the state of the room.
ServerChanges(e) ==
  /\ phase = "idle" /\ fault = "no" /\ changes < MaxChanges
  /\ truth' = [truth EXCEPT ![e.key] = e.content]
  /\ pending' = Append(pending, e)
  /\ changes' = changes + 1
  /\ UNCHANGED <<seen, syncVars, table, memberVars, chatVars>>

\* The events of s that no later one in s replaces.
Latest(s) ==
  {s[i] : i \in {i \in DOMAIN s : \A j \in DOMAIN s : j > i => s[j].key # s[i].key}}

\* A response arrives: the last k events are its timeline, and what happened
\* before them is in its state array, one event per key.  Without a new
\* next_batch the same events will be in the next response too.
SyncArrives(k, lastBatchStays) ==
  /\ phase = "idle" /\ fault = "no" /\ pending # << >> /\ k \in 0..Len(pending)
  /\ LET before == Len(pending) - k
     IN /\ batch' = Latest(SubSeq(pending, 1, before))
        /\ timeline' = SubSeq(pending, before + 1, Len(pending))
  /\ todo' = batch' /\ phase' = "state" /\ pass' = 1
  /\ seen' = truth
  /\ pending' = IF lastBatchStays THEN pending ELSE << >>
  /\ UNCHANGED <<truth, changes, table, memberVars, chatVars>>

-----------------------------------------------------------------------------
(* State events.                                                            *)

NameChanged_BothKnown(old, new) == old # None /\ new # None /\ old # new

NameChanged(old, new) == old # new

\* matrix_roommembers_update_member
UpdateMember(u, content) ==
  LET old  == member[u]
      new  == [membership  |-> ParseMembership(content.membership),
               displayname |-> content.displayname]
      was  == old.membership = "join"
      is   == new.membership = "join"
  IN /\ member' = [member EXCEPT ![u] = new]
     /\ newMembers' = IF is /\ ~was THEN Append(newMembers, u) ELSE newMembers
     /\ renamedMembers' =
          IF is /\ was /\ NameChanged(old.displayname, new.displayname)
          THEN Append(renamedMembers, u) ELSE renamedMembers
     /\ leftMembers' = IF ~is /\ was THEN Append(leftMembers, u) ELSE leftMembers

Schedules_JoinsOnly(e) ==
  IF e.key \in Users THEN e.content.membership \in {"join", "leave"}
  ELSE e.key # "m.room.aliases"

\* Which events make _on_state_update schedule a name update: not the type
\* "m.room.aliases", for the name it compares with is "m.room.alias".
Schedules(e) == e.key # "m.room.aliases"

\* matrix_room_handle_state_event: the callback of matrix_statetable_update
\* runs, and then the event replaces the old one in the table.
HandleStateEvent(e) ==
  /\ IF e.key \in Users THEN UpdateMember(e.key, e.content) ELSE UNCHANGED memberVars
  /\ needsName' = (needsName \/ Schedules(e))
  /\ table' = [table EXCEPT ![e.key] = e.content]
  /\ UNCHANGED <<opaque, listed, title, fault>>

\* One event of the state array; the order in the array is not relied on.
StateEvent(e) ==
  /\ phase = "state" /\ e \in todo
  /\ HandleStateEvent(e)
  /\ todo' = todo \ {e}
  /\ UNCHANGED <<serverVars, phase, pass, batch, timeline>>

\* The state array is done: matrix_room_complete_state_update begins.
StateDone ==
  /\ phase = "state" /\ todo = {}
  /\ phase' = "flush"
  /\ UNCHANGED <<serverVars, pass, batch, todo, timeline, table, memberVars, chatVars>>

\* A state event of the timeline is completed on its own.
TimelineEvent ==
  /\ phase = "timeline" /\ timeline # << >>
  /\ HandleStateEvent(Head(timeline))
  /\ timeline' = Tail(timeline)
  /\ phase' = "flush"
  /\ UNCHANGED <<serverVars, pass, batch, todo>>

ResponseDone ==
  /\ phase = "timeline" /\ timeline = << >>
  /\ phase' = "idle"
  /\ UNCHANGED <<serverVars, pass, batch, todo, timeline, table, memberVars, chatVars>>

-----------------------------------------------------------------------------
(* matrix_room_complete_state_update: libpurple is told the changes.        *)

Flushing == phase = "flush" /\ fault = "no"

\* g_assert fails, and the process is aborted.
Asserts ==
  /\ fault' = "assert"
  /\ UNCHANGED <<serverVars, syncVars, table, memberVars, opaque, listed, needsName, title>>

\* _handle_new_members, for one of them
HandleNewMember ==
  /\ Flushing /\ newMembers # << >>
  /\ LET u == Head(newMembers)
     IN \/ opaque[u] # None /\ Asserts
        \/ /\ opaque[u] = None
           /\ opaque' = [opaque EXCEPT ![u] = Displayname(u)]
           /\ listed' = [listed EXCEPT ![Displayname(u)] = @ + 1]
           /\ newMembers' = Tail(newMembers)
           /\ UNCHANGED <<serverVars, syncVars, table, member, renamedMembers,
                          leftMembers, needsName, title, fault>>

ListedName_Current(u) == Displayname(u)

\* The name under which libpurple was told of u.
ListedName(u) == opaque[u]

\* _handle_renamed_members, for one of them
HandleRenamedMember ==
  /\ Flushing /\ newMembers = << >> /\ renamedMembers # << >>
  /\ LET u == Head(renamedMembers)
         without == [listed EXCEPT ![ListedName(u)] = @ - 1]
     IN \/ opaque[u] = None /\ Asserts
        \/ /\ opaque[u] # None
           /\ opaque' = [opaque EXCEPT ![u] = Displayname(u)]
           /\ listed' = [without EXCEPT ![Displayname(u)] = @ + 1]
           /\ renamedMembers' = Tail(renamedMembers)
           /\ UNCHANGED <<serverVars, syncVars, table, member, newMembers,
                          leftMembers, needsName, title, fault>>

HandleLeftMember_KeepsName ==
  /\ Flushing /\ newMembers = << >> /\ renamedMembers = << >> /\ leftMembers # << >>
  /\ listed' = [listed EXCEPT ![opaque[Head(leftMembers)]] = @ - 1]
  /\ leftMembers' = Tail(leftMembers)
  /\ UNCHANGED <<serverVars, syncVars, table, member, newMembers, renamedMembers,
                 opaque, needsName, title, fault>>

\* _handle_left_members, for one of them
HandleLeftMember ==
  /\ Flushing /\ newMembers = << >> /\ renamedMembers = << >> /\ leftMembers # << >>
  /\ LET u == Head(leftMembers)
     IN \/ opaque[u] = None /\ Asserts
        \/ /\ opaque[u] # None
           /\ opaque' = [opaque EXCEPT ![u] = None]
           /\ listed' = [listed EXCEPT ![ListedName(u)] = @ - 1]
           /\ leftMembers' = Tail(leftMembers)
           /\ UNCHANGED <<serverVars, syncVars, table, member, newMembers,
                          renamedMembers, needsName, title, fault>>

\* _get_room_name_from_members: the hash table gives the members in any order.
NamesFromMembers(m) ==
  LET others == {u \in Users \ {Me} : m[u].membership \in {"join", "invite"}}
  IN CASE Cardinality(others) = 0 -> {<< RoomId >>}
       [] Cardinality(others) = 1 -> {<< NameOf(m, u) >> : u \in others}
       [] Cardinality(others) = 2 ->
            {<< NameOf(m, p[1]), NameOf(m, p[2]) >> : p \in {p \in others \X others : p[1] # p[2]}}
       [] OTHER -> {<< NameOf(m, u), Cardinality(others) >> : u \in others}

\* _get_room_name with the state s and the members m; see also
\* matrix_statetable_get_room_alias.
RoomNames(s, m) ==
  IF s["m.room.name"] # None THEN {<< s["m.room.name"] >>}
  ELSE IF s["m.room.canonical_alias"] # None THEN {<< s["m.room.canonical_alias"] >>}
  ELSE IF s["m.room.aliases"] # None THEN {<< s["m.room.aliases"] >>}
  ELSE NamesFromMembers(m)

\* The end of matrix_room_complete_state_update: _update_room_alias where it
\* was scheduled.  After the first pass over the rooms comes the second.
UpdateDone ==
  /\ Flushing /\ newMembers = << >> /\ renamedMembers = << >> /\ leftMembers = << >>
  /\ \/ needsName /\ title' \in RoomNames(table, member)
     \/ ~needsName /\ UNCHANGED title
  /\ needsName' = FALSE
  /\ \/ /\ pass = 1
        /\ pass' = 2 /\ phase' = "state" /\ todo' = batch /\ UNCHANGED batch
     \/ /\ pass = 2
        /\ phase' = "timeline" /\ batch' = {} /\ UNCHANGED <<pass, todo>>
  /\ UNCHANGED <<serverVars, timeline, table, memberVars, opaque, listed, fault>>

Next ==
  \/ \E u \in Users, c \in MemberContent : ServerChanges([key |-> u, content |-> c])
  \/ \E k \in NameKeys, c \in Values \cup {None} : ServerChanges([key |-> k, content |-> c])
  \/ \E k \in 0..Len(pending), stays \in BOOLEAN : SyncArrives(k, stays)
  \/ \E e \in todo : StateEvent(e)
  \/ StateDone \/ TimelineEvent \/ ResponseDone
  \/ HandleNewMember \/ HandleRenamedMember \/ HandleLeftMember \/ UpdateDone

Spec == Init /\ [][Next]_vars

-----------------------------------------------------------------------------
(* Properties.                                                              *)

\* The assertions of _handle_new_members, _handle_renamed_members and
\* _handle_left_members hold: the lists of changes agree with what libpurple
\* was told, through both passes, gaps and responses handled again.
AssertsHold == fault = "no"

Joined(s) == {u \in Users : s[u] # None /\ s[u].membership = "join"}

MembersIn(s) == [u \in Users |->
  IF s[u] = None THEN Absent
  ELSE [membership |-> ParseMembership(s[u].membership), displayname |-> s[u].displayname]]

\* Once a response is handled, libpurple shows each user who had joined when
\* it was made, once, under the name the user had then, and nobody else.
UserListMirrors ==
  phase = "idle" =>
    \A n \in ShownNames :
      listed[n] = Cardinality({u \in Joined(seen) : NameOf(MembersIn(seen), u) = n})

\* Once a response is handled, the title is one that the room's state gives:
\* each change that matters to it has scheduled an update, and the update
\* came after the table and the members had changed.
TitleCurrent ==
  phase = "idle" => title \in RoomNames(seen, MembersIn(seen))
=============================================================================
