-------------------------- MODULE RoomStateProofs --------------------------
(***************************************************************************)
(* What holds of RoomState for every set of users and names and any number *)
(* of changes: the assertions of the code hold, and the user list and the  *)
(* title are those of the homeserver's state once a response is handled.   *)
(***************************************************************************)
EXTENDS RoomState, FiniteSetTheorems, TLAPS

-----------------------------------------------------------------------------
(* Sequences, read as the sets of their elements.                           *)

Elems(s) == {s[i] : i \in DOMAIN s}
Distinct(s) == \A i, j \in DOMAIN s : s[i] = s[j] => i = j

\* Appending a new element, as update_member does to its lists.
LEMMA AppendElems ==
  ASSUME NEW S, NEW s \in Seq(S), NEW x \in S
  PROVE  /\ Append(s, x) \in Seq(S)
         /\ Elems(Append(s, x)) = Elems(s) \cup {x}
         /\ Distinct(s) /\ x \notin Elems(s) => Distinct(Append(s, x))
<1> DEFINE t == Append(s, x)
<1>1. t \in Seq(S) /\ Len(t) = Len(s) + 1 /\ DOMAIN t = 1..Len(s)+1 /\ DOMAIN s = 1..Len(s)
  OBVIOUS
<1>2. \A i \in 1..Len(s) : t[i] = s[i]
  OBVIOUS
<1>3. t[Len(s)+1] = x
  OBVIOUS
<1>4. Len(s) \in Nat
  OBVIOUS
<1> HIDE DEF t
<1>5. Elems(t) = Elems(s) \cup {x}
  BY <1>1, <1>2, <1>3, <1>4 DEF Elems
<1>6. ASSUME Distinct(s), x \notin Elems(s) PROVE Distinct(t)
  BY <1>1, <1>2, <1>3, <1>4, <1>6 DEF Distinct, Elems
<1>7. QED
  BY <1>1, <1>5, <1>6 DEF t

\* Taking the first element of a list without repetitions, as the flush does.
LEMMA TailElems ==
  ASSUME NEW S, NEW s \in Seq(S), s # << >>
  PROVE  /\ Tail(s) \in Seq(S) /\ Head(s) \in S /\ Head(s) \in Elems(s)
         /\ Distinct(s) => Distinct(Tail(s)) /\ Elems(Tail(s)) = Elems(s) \ {Head(s)}
<1> DEFINE t == Tail(s)
<1>1. t \in Seq(S) /\ Len(t) = Len(s) - 1 /\ DOMAIN t = 1..Len(s)-1 /\ DOMAIN s = 1..Len(s)
  OBVIOUS
<1>2. Len(s) \in Nat /\ Len(s) > 0 /\ Head(s) = s[1] /\ s[1] \in S
  OBVIOUS
<1>3. \A i \in 1..Len(s)-1 : t[i] = s[i+1]
  OBVIOUS
<1> HIDE DEF t
<1>4. Head(s) \in Elems(s)
  BY <1>1, <1>2 DEF Elems
<1>5. ASSUME Distinct(s) PROVE Distinct(t)
  <2> SUFFICES ASSUME NEW i \in 1..Len(s)-1, NEW j \in 1..Len(s)-1, t[i] = t[j]
               PROVE  i = j
    BY <1>1 DEF Distinct
  <2>1. i + 1 \in DOMAIN s /\ j + 1 \in DOMAIN s /\ s[i+1] = s[j+1]
    BY <1>1, <1>2, <1>3
  <2>2. i + 1 = j + 1
    BY <2>1, <1>5 DEF Distinct
  <2>3. QED
    BY <2>2
<1>6. ASSUME Distinct(s) PROVE Elems(t) = Elems(s) \ {Head(s)}
  <2>1. ASSUME NEW x \in Elems(t) PROVE x \in Elems(s) /\ x # Head(s)
    <3>1. PICK i \in 1..Len(s)-1 : x = s[i+1]
      BY <1>1, <1>3 DEF Elems
    <3>2. i + 1 \in DOMAIN s /\ i + 1 # 1 /\ 1 \in DOMAIN s
      BY <1>1, <1>2
    <3>3. QED
      BY <3>1, <3>2, <1>2, <1>6 DEF Elems, Distinct
  <2>2. ASSUME NEW x \in Elems(s), x # Head(s) PROVE x \in Elems(t)
    <3>1. PICK i \in 1..Len(s) : x = s[i]
      BY <1>1 DEF Elems
    <3>2. i # 1 /\ i - 1 \in 1..Len(s)-1 /\ (i - 1) + 1 = i
      BY <3>1, <2>2, <1>2
    <3>3. QED
      BY <3>1, <3>2, <1>1, <1>3 DEF Elems
  <2>3. QED
    BY <2>1, <2>2
<1>7. QED
  BY <1>1, <1>2, <1>4, <1>5, <1>6 DEF t

\* The empty list.
LEMMA EmptyElems == Elems(<< >>) = {} /\ Distinct(<< >>)
  BY DEF Elems, Distinct

-----------------------------------------------------------------------------
(* How many members bear a name, when one of them changes it.               *)

Bearers(o, n) == {u \in Users : o[u] = n}
Same(x, n) == IF x = n THEN 1 ELSE 0

LEMMA CountMove ==
  ASSUME NEW o \in [Users -> ShownNames \cup {None}], NEW u \in Users,
         NEW x \in ShownNames \cup {None}, NEW n \in ShownNames,
         NEW p, p = [o EXCEPT ![u] = x]
  PROVE  /\ Cardinality(Bearers(o, n)) \in Nat
         /\ Cardinality(Bearers(p, n)) \in Nat
         /\ Cardinality(Bearers(p, n)) =
              Cardinality(Bearers(o, n)) - Same(o[u], n)
                                         + Same(x, n)
<1> DEFINE B == Bearers(o, n)  C == Bearers(p, n)  A == B \ {u}
<1>1. IsFiniteSet(B)
  BY FS_Subset, FewUsers, B \in SUBSET Users DEF Bearers
<1>2. IsFiniteSet(A) /\ Cardinality(A) = IF u \in B THEN Cardinality(B) - 1 ELSE Cardinality(B)
  <2> HIDE DEF B
  <2> QED BY <1>1, FS_RemoveElement
<1>3. Cardinality(A \cup {u}) = Cardinality(A) + 1
  <2>1. u \notin A OBVIOUS
  <2> HIDE DEF A
  <2> QED BY <1>2, <2>1, FS_AddElement
<1>4. C = IF x = n THEN A \cup {u} ELSE A
  BY DEF Bearers
<1>5. u \in B <=> o[u] = n
  BY DEF Bearers
<1>6. Cardinality(A) \in Nat /\ Cardinality(B) \in Nat
  BY <1>1, <1>2, FS_CardinalityType
<1> HIDE DEF A, B, C
<1>7. QED
  BY <1>2, <1>3, <1>4, <1>5, <1>6 DEF B, C, Same

-----------------------------------------------------------------------------
(* The inductive invariant.                                                 *)

IsIn(u) == member[u].membership = "join"

\* Members about whom libpurple has still to be told something.
Waiting == Elems(newMembers) \cup Elems(renamedMembers) \cup Elems(leftMembers)

\* A member is in at most one list, once; the list and the opaque data say
\* the same of it; and libpurple knows those who are in none by their name.
ListsAgree ==
  /\ Distinct(newMembers) /\ Distinct(renamedMembers) /\ Distinct(leftMembers)
  /\ \A u \in Users :
       /\ u \in Elems(newMembers) =>
            /\ IsIn(u) /\ opaque[u] = None
            /\ u \notin Elems(renamedMembers) /\ u \notin Elems(leftMembers)
       /\ u \in Elems(renamedMembers) =>
            IsIn(u) /\ opaque[u] # None /\ u \notin Elems(leftMembers)
       /\ u \in Elems(leftMembers) => ~IsIn(u) /\ opaque[u] # None
       /\ u \notin Waiting => opaque[u] = IF IsIn(u) THEN Displayname(u) ELSE None

\* What is left to do in each phase; a batch has one event per key, so that
\* the key of one still to handle waits in no list.
Phased ==
  /\ phase \in {"idle", "timeline"} =>
       /\ newMembers = << >> /\ renamedMembers = << >> /\ leftMembers = << >>
       /\ batch = {} /\ ~needsName
  /\ phase = "idle" => timeline = << >>
  /\ phase # "state" => todo = {}
  /\ \A e \in todo : e.key \notin Waiting
  /\ \A e, f \in batch : e.key = f.key => e = f

\* libpurple shows a name once for each member it knows by that name.
Told == \A n \in ShownNames : listed[n] = Cardinality(Bearers(opaque, n))

\* The member table says what the state table says.
MembersFollow == \A u \in Users : member[u] = MembersIn(table)[u]

\* Of each key that a prefix of s touches, one event is the last.
PrefixLasts(s) ==
  \A m \in 0..Len(s), k \in Keys :
    \/ \A i \in 1..m : s[i].key # k
    \/ \E i \in 1..m : s[i].key = k /\ \A j \in 1..m : j > i => s[j].key # k

\* The homeserver: a key's state is that of its last pending event, or as it
\* was.
ServerAgrees ==
  /\ \A k \in Keys : (\A i \in DOMAIN pending : pending[i].key # k) => truth[k] = seen[k]
  /\ \A i \in DOMAIN pending :
       (\A j \in DOMAIN pending : j > i => pending[j].key # pending[i].key) =>
         truth[pending[i].key] = pending[i].content
  /\ PrefixLasts(pending)

Ahead(k) == \E i \in DOMAIN timeline : timeline[i].key = k

\* The client: what the response still holds for a key leads to its state.
ClientAgrees ==
  /\ \A i \in DOMAIN timeline :
       (\A j \in DOMAIN timeline : j > i => timeline[j].key # timeline[i].key) =>
         timeline[i].content = seen[timeline[i].key]
  /\ \A e \in batch : ~Ahead(e.key) => e.content = seen[e.key]
  /\ \A k \in Keys : ~Ahead(k) /\ (\A e \in todo : e.key # k) => table[k] = seen[k]

Consistent ==
  /\ TypeOK /\ ListsAgree /\ Phased /\ Told /\ MembersFollow
  /\ ServerAgrees /\ ClientAgrees /\ fault = "no"

-----------------------------------------------------------------------------
(* State events.                                                            *)

LEMMA EventShape ==
  ASSUME NEW e \in Event
  PROVE  /\ e.key \in Keys /\ e.content \in Content(e.key)
         /\ e.key \in Users => e.content \in MemberContent
         /\ e.key \notin Users => e.key \in AllNameKeys /\ e.content \in Values \cup {None}
<1>1. CASE e \in [key : Users, content : MemberContent]
  BY <1>1 DEF Keys, Content
<1>2. CASE e \in [key : AllNameKeys, content : Values \cup {None}]
  <2>1. e.key \in AllNameKeys /\ e.content \in Values \cup {None}
    BY <1>2
  <2>2. e.key \notin Users
    BY <2>1, NamesAreKeys
  <2>3. QED
    BY <2>1, <2>2 DEF Keys, Content
<1>3. QED
  BY <1>1, <1>2 DEF Event

\* Setting one key of a state leaves a state.
LEMMA SetKey ==
  ASSUME NEW s \in State, NEW e \in Event
  PROVE  [s EXCEPT ![e.key] = e.content] \in State
<1> DEFINE t == [s EXCEPT ![e.key] = e.content]
<1>1. e.key \in Keys /\ e.content \in Content(e.key)
  BY EventShape
<1>2. s \in [Keys -> MemberContent \cup Values \cup {None}]
  BY DEF State
<1>3. \A k \in Keys : s[k] \in Content(k) \cup {None}
  BY DEF State
<1>4. e.content \in MemberContent \cup Values \cup {None}
  BY <1>1 DEF Content
<1>5. t \in [Keys -> MemberContent \cup Values \cup {None}]
  BY <1>2, <1>4
<1>6. ASSUME NEW k \in Keys PROVE t[k] \in Content(k) \cup {None}
  <2>1. CASE k = e.key
    <3>1. t[k] = e.content BY <1>2, <2>1
    <3>2. QED BY <1>1, <2>1, <3>1
  <2>2. CASE k # e.key
    <3>1. t[k] = s[k] BY <1>2, <2>2
    <3>2. QED BY <1>3, <3>1
  <2>3. QED BY <2>1, <2>2
<1> HIDE DEF t
<1>7. QED
  <2>1. t \in State BY <1>5, <1>6 DEF State
  <2>2. QED BY <2>1 DEF t

\* An event content becomes a member record.
LEMMA ParsedMember ==
  ASSUME NEW c \in MemberContent
  PROVE  [membership |-> ParseMembership(c.membership), displayname |-> c.displayname]
           \in Member
<1>1. c.membership \in {"join", "leave", "invite", "ban"}
  BY MembershipsKnown DEF MemberContent, AllMemberships
<1>2. c.displayname \in Displaynames \cup {None}
  BY DEF MemberContent
<1>3. QED
  BY <1>1, <1>2 DEF ParseMembership, Member

LEMMA NameShape ==
  ASSUME member \in [Users -> Member], NEW u \in Users
  PROVE  Displayname(u) \in ShownNames /\ Displayname(u) # None
  BY NoneIsNoValue DEF Displayname, NameOf, Member, ShownNames

\* What update_member does to the lists keeps them in agreement, for a member
\* that is in none of them.
LEMMA UpdateKeepsLists ==
  ASSUME TypeOK, ListsAgree, NEW u \in Users, NEW c \in MemberContent,
         u \notin Waiting, UpdateMember(u, c), UNCHANGED opaque
  PROVE  /\ member' \in [Users -> Member]
         /\ newMembers' \in Seq(Users) /\ renamedMembers' \in Seq(Users)
         /\ leftMembers' \in Seq(Users)
         /\ ListsAgree'
         /\ Waiting' \subseteq Waiting \cup {u}
<1> DEFINE old == member[u]
           new == [membership |-> ParseMembership(c.membership), displayname |-> c.displayname]
<1>1. new \in Member
  BY ParsedMember
<1>2. member' = [member EXCEPT ![u] = new]
  BY DEF UpdateMember
<1>3. member \in [Users -> Member] /\ newMembers \in Seq(Users)
      /\ renamedMembers \in Seq(Users) /\ leftMembers \in Seq(Users)
  BY DEF TypeOK
<1>4. member' \in [Users -> Member] /\ member'[u] = new
      /\ \A v \in Users : v # u => member'[v] = member[v]
  BY <1>1, <1>2, <1>3
<1>5. u \notin Elems(newMembers) /\ u \notin Elems(renamedMembers) /\ u \notin Elems(leftMembers)
  BY DEF Waiting
<1>6. Distinct(newMembers) /\ Distinct(renamedMembers) /\ Distinct(leftMembers)
  BY DEF ListsAgree
<1>7. opaque[u] = IF old.membership = "join" THEN Displayname(u) ELSE None
  BY DEF ListsAgree, IsIn
<1>8. Displayname(u) # None
  BY <1>3, NameShape
\* The others: nothing that ListsAgree says of them has changed.
<1>9. ASSUME NEW v \in Users, v # u
      PROVE  IsIn(v)' = IsIn(v) /\ Displayname(v)' = Displayname(v) /\ opaque'[v] = opaque[v]
  BY <1>4, <1>9 DEF IsIn, Displayname, NameOf
<1>10. IsIn(u)' = (new.membership = "join")
  BY <1>4 DEF IsIn
\* The four ways in which the lists change.
<1> DEFINE was == old.membership = "join"  is == new.membership = "join"
           renamed == is /\ was /\ old.displayname # new.displayname
<1>11. /\ newMembers' = IF is /\ ~was THEN Append(newMembers, u) ELSE newMembers
       /\ renamedMembers' = IF renamed THEN Append(renamedMembers, u) ELSE renamedMembers
       /\ leftMembers' = IF ~is /\ was THEN Append(leftMembers, u) ELSE leftMembers
  BY DEF UpdateMember, NameChanged
<1> HIDE DEF new, old
<1>12. /\ newMembers' \in Seq(Users) /\ Distinct(newMembers')
       /\ Elems(newMembers') = IF is /\ ~was THEN Elems(newMembers) \cup {u} ELSE Elems(newMembers)
  BY <1>3, <1>5, <1>6, <1>11, AppendElems
<1>13. /\ renamedMembers' \in Seq(Users) /\ Distinct(renamedMembers')
       /\ Elems(renamedMembers') = IF renamed THEN Elems(renamedMembers) \cup {u}
                                   ELSE Elems(renamedMembers)
  BY <1>3, <1>5, <1>6, <1>11, AppendElems
<1>14. /\ leftMembers' \in Seq(Users) /\ Distinct(leftMembers')
       /\ Elems(leftMembers') = IF ~is /\ was THEN Elems(leftMembers) \cup {u} ELSE Elems(leftMembers)
  BY <1>3, <1>5, <1>6, <1>11, AppendElems
<1>15. Elems(newMembers)' = Elems(newMembers') /\ Elems(renamedMembers)' = Elems(renamedMembers')
       /\ Elems(leftMembers)' = Elems(leftMembers')
  BY DEF Elems
<1>16. Waiting' \subseteq Waiting \cup {u}
  BY <1>12, <1>13, <1>14, <1>15 DEF Waiting
<1>17. ~is /\ ~was => opaque[u] = None
  BY <1>7
<1>18. is /\ was /\ ~renamed => Displayname(u)' = Displayname(u)
  BY <1>4 DEF Displayname, NameOf, old, new
<1>19. ListsAgree'
  <2> SUFFICES ASSUME NEW v \in Users
               PROVE  /\ v \in Elems(newMembers)' =>
                           /\ IsIn(v)' /\ opaque'[v] = None
                           /\ v \notin Elems(renamedMembers)' /\ v \notin Elems(leftMembers)'
                      /\ v \in Elems(renamedMembers)' =>
                           IsIn(v)' /\ opaque'[v] # None /\ v \notin Elems(leftMembers)'
                      /\ v \in Elems(leftMembers)' => ~IsIn(v)' /\ opaque'[v] # None
                      /\ v \notin Waiting' =>
                           opaque'[v] = IF IsIn(v)' THEN Displayname(v)' ELSE None
    BY <1>12, <1>13, <1>14 DEF ListsAgree, Distinct
  <2>1. CASE v = u
    <3>1. opaque'[u] = opaque[u]
      OBVIOUS
    <3>2. v \in Elems(newMembers)' <=> is /\ ~was
      BY <2>1, <1>5, <1>12, <1>15
    <3>3. v \in Elems(renamedMembers)' <=> renamed
      BY <2>1, <1>5, <1>13, <1>15
    <3>4. v \in Elems(leftMembers)' <=> ~is /\ was
      BY <2>1, <1>5, <1>14, <1>15
    <3>5. IsIn(v)' <=> is
      BY <2>1, <1>10
    <3>6. was => opaque[u] = Displayname(u) /\ opaque[u] # None
      BY <1>7, <1>8
    <3>7. ~was => opaque[u] = None
      BY <1>7
    <3> HIDE DEF was
    <3>8. QED
      BY <2>1, <3>1, <3>2, <3>3, <3>4, <3>5, <3>6, <3>7, <1>18 DEF Waiting
  <2>2. CASE v # u
    <3>1. /\ v \in Elems(newMembers)' <=> v \in Elems(newMembers)
          /\ v \in Elems(renamedMembers)' <=> v \in Elems(renamedMembers)
          /\ v \in Elems(leftMembers)' <=> v \in Elems(leftMembers)
      BY <2>2, <1>12, <1>13, <1>14, <1>15
    <3>2. v \in Waiting' <=> v \in Waiting
      BY <3>1 DEF Waiting
    <3>3. IsIn(v)' = IsIn(v) /\ Displayname(v)' = Displayname(v) /\ opaque'[v] = opaque[v]
      BY <1>9, <2>2
    <3>4. QED
      BY <3>1, <3>2, <3>3 DEF ListsAgree
  <2>3. QED
    BY <2>1, <2>2
<1>20. QED
  BY <1>4, <1>12, <1>13, <1>14, <1>16, <1>19

\* What handling a state event does, for a key that waits in no list.
LEMMA HandleKeeps ==
  ASSUME TypeOK, ListsAgree, Told, MembersFollow, NEW e \in Event,
         e.key \notin Waiting, HandleStateEvent(e)
  PROVE  /\ table' \in State /\ member' \in [Users -> Member]
         /\ newMembers' \in Seq(Users) /\ renamedMembers' \in Seq(Users)
         /\ leftMembers' \in Seq(Users)
         /\ needsName' \in BOOLEAN
         /\ ListsAgree' /\ Told' /\ MembersFollow'
         /\ Waiting' \subseteq Waiting \cup {e.key}
         /\ \A k \in Keys : table'[k] = IF k = e.key THEN e.content ELSE table[k]
<1>1. /\ e.key \in Keys
      /\ e.key \in Users => e.content \in MemberContent
      /\ e.key \notin Users => e.key \in AllNameKeys
  BY EventShape
<1>2. table \in State /\ table' = [table EXCEPT ![e.key] = e.content]
  BY DEF TypeOK, HandleStateEvent
<1>3. table' \in State
  BY <1>2, SetKey
<1>4. \A k \in Keys : table'[k] = IF k = e.key THEN e.content ELSE table[k]
  BY <1>1, <1>2 DEF State
<1>5. UNCHANGED <<opaque, listed>>
  BY DEF HandleStateEvent
<1>6. Told'
  BY <1>5 DEF Told, Bearers
<1>7. needsName' \in BOOLEAN
  BY DEF HandleStateEvent, TypeOK, Schedules
<1>8. Users \subseteq Keys
  BY DEF Keys
<1>9. CASE e.key \in Users
  <2> DEFINE new == [membership  |-> ParseMembership(e.content.membership),
                     displayname |-> e.content.displayname]
  <2>1. UpdateMember(e.key, e.content) /\ e.content \in MemberContent
    BY <1>1, <1>9 DEF HandleStateEvent
  <2>2. /\ member' \in [Users -> Member]
        /\ newMembers' \in Seq(Users) /\ renamedMembers' \in Seq(Users)
        /\ leftMembers' \in Seq(Users)
        /\ ListsAgree'
        /\ Waiting' \subseteq Waiting \cup {e.key}
    BY <1>5, <1>9, <2>1, UpdateKeepsLists
  <2>3. member' = [member EXCEPT ![e.key] = new] /\ member \in [Users -> Member]
    BY <2>1 DEF UpdateMember, TypeOK
  <2>4. e.content # None
    BY <2>1, NoneIsNoValue
  <2>5. ASSUME NEW u \in Users PROVE member'[u] = MembersIn(table')[u]
    <3>1. CASE u = e.key
      <4>1. table'[u] = e.content
        BY <3>1, <1>4, <1>1
      <4>2. member'[u] = new
        BY <3>1, <2>3
      <4>3. QED
        BY <4>1, <4>2, <2>4 DEF MembersIn
    <3>2. CASE u # e.key
      <4>1. table'[u] = table[u]
        BY <3>2, <1>4, <1>8
      <4>2. member'[u] = member[u]
        BY <3>2, <2>3
      <4>3. QED
        BY <4>1, <4>2 DEF MembersIn, MembersFollow
    <3>3. QED BY <3>1, <3>2
  <2>6. MembersFollow'
    BY <2>5 DEF MembersFollow, MembersIn
  <2>7. QED
    BY <1>3, <1>4, <1>6, <1>7, <2>2, <2>6
<1>10. CASE e.key \notin Users
  <2>1. UNCHANGED memberVars
    BY <1>10 DEF HandleStateEvent
  <2>2. UNCHANGED <<member, newMembers, renamedMembers, leftMembers>>
    BY <2>1 DEF memberVars
  <2>3. ListsAgree' /\ Waiting' = Waiting
    BY <2>2, <1>5 DEF ListsAgree, Waiting, Elems, Distinct, IsIn, Displayname, NameOf
  <2>4. \A u \in Users : table'[u] = table[u]
    BY <1>4, <1>8, <1>10
  <2>5. MembersFollow'
    BY <2>2, <2>4 DEF MembersFollow, MembersIn
  <2>6. QED
    BY <1>3, <1>4, <1>6, <1>7, <2>2, <2>3, <2>5 DEF TypeOK
<1>11. QED
  BY <1>9, <1>10

\* While the homeserver does nothing, it stays in agreement.
LEMMA ServerIdle ==
  ASSUME ServerAgrees, UNCHANGED <<truth, pending, seen>>
  PROVE  ServerAgrees'
<1>1. truth' = truth /\ pending' = pending /\ seen' = seen
  OBVIOUS
<1>2. QED
  BY <1>1 DEF ServerAgrees

LEMMA StateEventStep ==
  ASSUME Consistent, NEW e \in todo, StateEvent(e)
  PROVE  Consistent'
<1> USE DEF Consistent
<1>1. phase = "state" /\ e \in todo /\ todo \subseteq batch /\ e \in Event
  BY DEF StateEvent, TypeOK
<1>2. e.key \notin Waiting
  BY <1>1 DEF Phased
<1>3. /\ HandleStateEvent(e) /\ todo' = todo \ {e}
      /\ UNCHANGED <<serverVars, phase, pass, batch, timeline>>
  BY DEF StateEvent
<1>4. UNCHANGED <<truth, pending, changes, seen, phase, pass, batch, timeline, opaque,
                  listed, title, fault>>
  BY <1>3 DEF serverVars, HandleStateEvent
<1>5. /\ table' \in State /\ member' \in [Users -> Member]
      /\ newMembers' \in Seq(Users) /\ renamedMembers' \in Seq(Users)
      /\ leftMembers' \in Seq(Users)
      /\ needsName' \in BOOLEAN
      /\ ListsAgree' /\ Told' /\ MembersFollow'
      /\ Waiting' \subseteq Waiting \cup {e.key}
      /\ \A k \in Keys : table'[k] = IF k = e.key THEN e.content ELSE table[k]
  BY <1>1, <1>2, <1>3, HandleKeeps
<1>6. TypeOK'
  BY <1>3, <1>4, <1>5 DEF TypeOK
<1>7. \A f \in todo' : f.key # e.key
  BY <1>1, <1>3 DEF Phased
<1>8. Phased'
  BY <1>1, <1>3, <1>4, <1>5, <1>7 DEF Phased
<1>9. ServerAgrees'
  BY <1>4, ServerIdle
<1>10. ClientAgrees'
  <2>1. \A k \in Keys : Ahead(k)' = Ahead(k)
    BY <1>4 DEF Ahead
  <2>2. \A f \in batch' : ~Ahead(f.key)' => f.content = seen'[f.key]
    BY <1>4 DEF Ahead, ClientAgrees
  <2>3. ASSUME NEW k \in Keys, ~Ahead(k)', \A f \in todo' : f.key # k
        PROVE  table'[k] = seen'[k]
    <3>1. CASE k = e.key
      BY <3>1, <2>1, <2>3, <1>1, <1>4, <1>5 DEF ClientAgrees
    <3>2. CASE k # e.key
      <4>1. \A f \in todo : f.key # k
        BY <3>2, <2>3, <1>3
      <4>2. QED
        BY <3>2, <4>1, <2>1, <2>3, <1>4, <1>5 DEF ClientAgrees
    <3>3. QED BY <3>1, <3>2
  <2>4. QED
    BY <2>2, <2>3, <1>4 DEF ClientAgrees
<1>11. QED
  BY <1>4, <1>5, <1>6, <1>8, <1>9, <1>10

LEMMA TimelineEventStep ==
  ASSUME Consistent, TimelineEvent
  PROVE  Consistent'
<1> USE DEF Consistent
<1>0. timeline \in Seq(Event) /\ timeline # << >> /\ Head(timeline) \in Event
  BY DEF TimelineEvent, TypeOK
<1> PICK e \in Event : e = Head(timeline)
  BY <1>0
<1>1. /\ phase = "timeline" /\ timeline # << >> /\ HandleStateEvent(e)
      /\ timeline' = Tail(timeline) /\ phase' = "flush"
      /\ UNCHANGED <<serverVars, pass, batch, todo>>
  BY DEF TimelineEvent
<1>2. timeline \in Seq(Event)
  BY DEF TypeOK
<1>3. e \in Event /\ timeline' \in Seq(Event) /\ e = timeline[1]
      /\ Len(timeline) \in Nat /\ Len(timeline) > 0
      /\ DOMAIN timeline = 1..Len(timeline) /\ DOMAIN timeline' = 1..Len(timeline) - 1
      /\ \A i \in 1..Len(timeline) - 1 : timeline'[i] = timeline[i + 1]
  BY <1>1, <1>2
<1>4. UNCHANGED <<truth, pending, changes, seen, pass, batch, todo, opaque,
                  listed, title, fault>>
  BY <1>1 DEF serverVars, HandleStateEvent
<1>5. Waiting = {} /\ batch = {} /\ todo = {}
  BY <1>1, EmptyElems DEF Phased, Waiting
<1>6. /\ table' \in State /\ member' \in [Users -> Member]
      /\ newMembers' \in Seq(Users) /\ renamedMembers' \in Seq(Users)
      /\ leftMembers' \in Seq(Users)
      /\ needsName' \in BOOLEAN
      /\ ListsAgree' /\ Told' /\ MembersFollow'
      /\ \A k \in Keys : table'[k] = IF k = e.key THEN e.content ELSE table[k]
  BY <1>1, <1>3, <1>5, HandleKeeps
<1>7. TypeOK'
  BY <1>1, <1>3, <1>4, <1>6 DEF TypeOK, Phases
<1>8. Phased'
  BY <1>1, <1>4, <1>5 DEF Phased
<1>9. ServerAgrees'
  BY <1>4, ServerIdle
<1>10. ASSUME NEW k \in Keys, Ahead(k), k # e.key PROVE Ahead(k)'
  <2>1. PICK i \in 1..Len(timeline) : timeline[i].key = k
    BY <1>3, <1>10 DEF Ahead
  <2>2. i # 1 /\ i - 1 \in 1..Len(timeline) - 1 /\ timeline'[i - 1] = timeline[i]
    <3>1. i # 1
      BY <1>3, <1>10, <2>1
    <3>2. i - 1 \in 1..Len(timeline) - 1 /\ (i - 1) + 1 = i
      BY <3>1, <1>3
    <3>3. QED
      BY <3>1, <3>2, <1>3
  <2>3. QED
    BY <1>3, <2>1, <2>2 DEF Ahead
<1>11. ASSUME ~Ahead(e.key)' PROVE e.content = seen[e.key]
  <2>1. \A j \in 1..Len(timeline) : j > 1 => timeline[j].key # e.key
    <3> SUFFICES ASSUME NEW j \in 1..Len(timeline), j > 1, timeline[j].key = e.key
                 PROVE  FALSE
      OBVIOUS
    <3>1. j - 1 \in 1..Len(timeline) - 1 /\ (j - 1) + 1 = j
      BY <1>3
    <3>2. QED
      BY <3>1, <1>3, <1>11 DEF Ahead
  <2>2. 1 \in DOMAIN timeline
    BY <1>3
  <2>3. QED
    BY <2>1, <2>2, <1>3 DEF ClientAgrees
<1>12. ClientAgrees'
  <2>1. ASSUME NEW i \in DOMAIN timeline',
               \A j \in DOMAIN timeline' : j > i => timeline'[j].key # timeline'[i].key
        PROVE  timeline'[i].content = seen'[timeline'[i].key]
    <3>1. i + 1 \in DOMAIN timeline /\ timeline'[i] = timeline[i + 1]
      BY <1>3
    <3>2. ASSUME NEW j \in DOMAIN timeline, j > i + 1
          PROVE  timeline[j].key # timeline[i + 1].key
      <4>1. j - 1 \in DOMAIN timeline' /\ j - 1 > i /\ timeline'[j - 1] = timeline[j]
        <5>1. j - 1 \in 1..Len(timeline) - 1 /\ (j - 1) + 1 = j
          BY <1>3, <3>2
        <5>2. QED
          BY <5>1, <1>3, <3>2
      <4>2. QED
        BY <4>1, <3>1, <2>1
    <3>3. QED
      BY <3>1, <3>2, <1>4 DEF ClientAgrees
  <2>2. ASSUME NEW k \in Keys, ~Ahead(k)' PROVE table'[k] = seen'[k]
    <3>1. CASE k = e.key
      <4>1. ~Ahead(e.key)'
        BY <3>1, <2>2 DEF Ahead
      <4>2. QED
        BY <3>1, <4>1, <1>4, <1>6, <1>11
    <3>2. CASE k # e.key
      <4>1. ~Ahead(k)
        BY <3>2, <2>2, <1>10
      <4>2. QED
        BY <3>2, <4>1, <1>4, <1>5, <1>6 DEF ClientAgrees
    <3>3. QED BY <3>1, <3>2
  <2>3. QED
    BY <2>1, <2>2, <1>4, <1>5 DEF ClientAgrees
<1>13. QED
  BY <1>4, <1>6, <1>7, <1>8, <1>9, <1>12

-----------------------------------------------------------------------------
(* What libpurple is told.                                                  *)

\* A step of the flush touches neither the response nor the tables.
LEMMA FlushLeaves ==
  ASSUME Consistent, Flushing, UNCHANGED <<serverVars, syncVars, table, member, needsName, fault>>
  PROVE  /\ Phased' /\ MembersFollow' /\ ServerAgrees' /\ ClientAgrees' /\ fault' = "no"
<1>1. UNCHANGED <<truth, pending, changes, seen, phase, pass, batch, todo, timeline,
                  table, member, needsName, fault>>
  BY DEF serverVars, syncVars
<1>2. phase = "flush" /\ todo = {}
  BY DEF Flushing, Consistent, Phased
<1>3. Phased'
  BY <1>1, <1>2 DEF Phased, Consistent
<1>4. MembersFollow'
  BY <1>1 DEF MembersFollow, MembersIn, Consistent
<1>5. ServerAgrees'
  BY <1>1, ServerIdle DEF Consistent
<1>6. ClientAgrees'
  <2>1. truth' = truth /\ timeline' = timeline /\ batch' = batch /\ todo' = todo
        /\ table' = table /\ seen' = seen
    BY <1>1
  <2>2. \A k \in Keys : Ahead(k)' = Ahead(k)
    BY <2>1 DEF Ahead
  <2>3. QED
    BY <2>1, <2>2 DEF Consistent, ClientAgrees, Ahead
<1>7. QED
  BY <1>1, <1>3, <1>4, <1>5, <1>6 DEF Consistent

\* One member's name changes in what libpurple was told.
LEMMA TellKeeps ==
  ASSUME TypeOK, Told, NEW u \in Users, NEW x \in ShownNames \cup {None},
         opaque' = [opaque EXCEPT ![u] = x], listed' \in [ShownNames -> Int],
         \A n \in ShownNames :
           listed'[n] = listed[n] - Same(opaque[u], n)
                                  + Same(x, n)
  PROVE  Told' /\ listed' \in [ShownNames -> Nat]
         /\ opaque' \in [Users -> ShownNames \cup {None}]
<1>1. opaque \in [Users -> ShownNames \cup {None}] /\ listed \in [ShownNames -> Nat]
  BY DEF TypeOK
<1>2. opaque' \in [Users -> ShownNames \cup {None}]
  BY <1>1
<1>3. ASSUME NEW n \in ShownNames
      PROVE  listed'[n] = Cardinality(Bearers(opaque', n)) /\ listed'[n] \in Nat
  <2>1. listed[n] = Cardinality(Bearers(opaque, n))
    BY DEF Told
  <2>2. /\ Cardinality(Bearers(opaque', n)) \in Nat
        /\ Cardinality(Bearers(opaque', n)) =
             Cardinality(Bearers(opaque, n)) - Same(opaque[u], n)
                                             + Same(x, n)
    BY <1>1, CountMove, Zenon
  <2>3. listed'[n] = listed[n] - Same(opaque[u], n) + Same(x, n)
    OBVIOUS
  <2>4. QED
    BY <2>1, <2>2, <2>3 DEF Same
<1>4. listed' \in [ShownNames -> Nat]
  BY <1>3
<1>5. Told'
  BY <1>3 DEF Told, Bearers
<1>6. QED
  BY <1>2, <1>4, <1>5

LEMMA HandleNewMemberStep ==
  ASSUME Consistent, HandleNewMember
  PROVE  Consistent'
<1> USE DEF Consistent
<1>0. newMembers \in Seq(Users) /\ newMembers # << >>
  BY DEF HandleNewMember, TypeOK
<1>1. /\ Head(newMembers) \in Users /\ Head(newMembers) \in Elems(newMembers)
      /\ Tail(newMembers) \in Seq(Users)
      /\ Distinct(Tail(newMembers)) /\ Elems(Tail(newMembers)) = Elems(newMembers) \ {Head(newMembers)}
  BY <1>0, TailElems DEF ListsAgree
<1> PICK u \in Users : u = Head(newMembers)
  BY <1>1
<1>2. /\ IsIn(u) /\ opaque[u] = None
      /\ u \notin Elems(renamedMembers) /\ u \notin Elems(leftMembers)
  BY <1>1 DEF ListsAgree
<1> PICK x \in ShownNames : x = Displayname(u) /\ x # None
  BY NameShape DEF TypeOK
<1>3. /\ Flushing
      /\ opaque' = [opaque EXCEPT ![u] = x]
      /\ listed' = [listed EXCEPT ![x] = @ + 1]
      /\ newMembers' = Tail(newMembers)
      /\ UNCHANGED <<serverVars, syncVars, table, member, renamedMembers,
                     leftMembers, needsName, title, fault>>
  BY <1>2 DEF HandleNewMember
<1>4. UNCHANGED <<serverVars, syncVars, table, member, needsName, fault>>
  BY <1>3
<1>5. Phased' /\ MembersFollow' /\ ServerAgrees' /\ ClientAgrees' /\ fault' = "no"
  BY <1>3, <1>4, FlushLeaves
<1>6. /\ listed' \in [ShownNames -> Int]
      /\ \A n \in ShownNames :
           listed'[n] = listed[n] - Same(opaque[u], n)
                                  + Same(x, n)
  <2>1. listed \in [ShownNames -> Nat] /\ None \notin ShownNames
    BY NoneIsNoValue DEF TypeOK, ShownNames
  <2>2. \A n \in ShownNames : listed[n] \in Nat /\ opaque[u] # n
    BY <1>2, <2>1
  <2>3. listed' \in [ShownNames -> Int]
    BY <1>3, <2>1
  <2>4. \A n \in ShownNames : listed'[n] = IF x = n THEN listed[n] + 1 ELSE listed[n]
    BY <1>3, <2>1
  <2>5. QED
    BY <2>2, <2>3, <2>4 DEF Same
<1>7. Told' /\ listed' \in [ShownNames -> Nat]
      /\ opaque' \in [Users -> ShownNames \cup {None}]
  <2>1. opaque' = [opaque EXCEPT ![u] = x] /\ x \in ShownNames \cup {None}
    BY <1>3
  <2>2. TypeOK /\ Told
    OBVIOUS
  <2>3. QED
    BY <2>1, <2>2, <1>6, TellKeeps
<1>8. TypeOK'
  BY <1>1, <1>3, <1>7 DEF TypeOK, serverVars, syncVars
<1>9. ListsAgree'
  <2>1. /\ Elems(newMembers)' = Elems(newMembers) \ {u}
        /\ Elems(renamedMembers)' = Elems(renamedMembers)
        /\ Elems(leftMembers)' = Elems(leftMembers)
    BY <1>1, <1>3 DEF Elems
  <2>2. Distinct(newMembers)' /\ Distinct(renamedMembers)' /\ Distinct(leftMembers)'
    BY <1>1, <1>3 DEF ListsAgree, Distinct
  <2>3. opaque \in [Users -> ShownNames \cup {None}]
    BY DEF TypeOK
  <2>4. \A v \in Users : IsIn(v)' = IsIn(v) /\ Displayname(v)' = Displayname(v)
    BY <1>3 DEF IsIn, Displayname, NameOf
  <2>5. opaque'[u] = x /\ \A v \in Users : v # u => opaque'[v] = opaque[v]
    BY <1>3, <2>3
  <2>6. \A v \in Users : v \in Waiting' <=> v \in Waiting /\ v # u
    BY <2>1, <1>2 DEF Waiting
  <2>7. ASSUME NEW v \in Users, v # u
        PROVE  /\ v \in Elems(newMembers)' =>
                    /\ IsIn(v)' /\ opaque'[v] = None
                    /\ v \notin Elems(renamedMembers)' /\ v \notin Elems(leftMembers)'
               /\ v \in Elems(renamedMembers)' =>
                    IsIn(v)' /\ opaque'[v] # None /\ v \notin Elems(leftMembers)'
               /\ v \in Elems(leftMembers)' => ~IsIn(v)' /\ opaque'[v] # None
               /\ v \notin Waiting' =>
                    opaque'[v] = IF IsIn(v)' THEN Displayname(v)' ELSE None
    BY <2>1, <2>4, <2>5, <2>6, <2>7 DEF ListsAgree
  <2>8. /\ u \notin Elems(newMembers)' /\ u \notin Elems(renamedMembers)'
        /\ u \notin Elems(leftMembers)' /\ opaque'[u] = Displayname(u)' /\ IsIn(u)'
    BY <1>2, <2>1, <2>4, <2>5
  <2>9. QED
    BY <2>2, <2>7, <2>8 DEF ListsAgree
<1>10. QED
  BY <1>5, <1>7, <1>8, <1>9

LEMMA HandleRenamedMemberStep ==
  ASSUME Consistent, HandleRenamedMember
  PROVE  Consistent'
<1> USE DEF Consistent
<1>0. renamedMembers \in Seq(Users) /\ renamedMembers # << >>
  BY DEF HandleRenamedMember, TypeOK
<1>1. /\ Head(renamedMembers) \in Users /\ Head(renamedMembers) \in Elems(renamedMembers)
      /\ Tail(renamedMembers) \in Seq(Users) /\ Distinct(Tail(renamedMembers))
      /\ Elems(Tail(renamedMembers)) = Elems(renamedMembers) \ {Head(renamedMembers)}
  BY <1>0, TailElems DEF ListsAgree
<1> PICK u \in Users : u = Head(renamedMembers)
  BY <1>1
<1>2. /\ IsIn(u) /\ opaque[u] # None
      /\ u \notin Elems(newMembers) /\ u \notin Elems(leftMembers)
  BY <1>1 DEF ListsAgree
<1> PICK x \in ShownNames : x = Displayname(u) /\ x # None
  BY NameShape DEF TypeOK
<1>a. opaque[u] \in ShownNames
  BY <1>2 DEF TypeOK
<1>3. /\ Flushing
      /\ opaque' = [opaque EXCEPT ![u] = x]
      /\ listed' = [[listed EXCEPT ![opaque[u]] = @ - 1] EXCEPT ![x] = @ + 1]
      /\ renamedMembers' = Tail(renamedMembers)
      /\ UNCHANGED <<serverVars, syncVars, table, member, newMembers,
                     leftMembers, needsName, title, fault>>
  BY <1>2 DEF HandleRenamedMember, ListedName
<1>4. UNCHANGED <<serverVars, syncVars, table, member, needsName, fault>>
  BY <1>3
<1>5. Phased' /\ MembersFollow' /\ ServerAgrees' /\ ClientAgrees' /\ fault' = "no"
  BY <1>3, <1>4, FlushLeaves
<1>6. /\ listed' \in [ShownNames -> Int]
      /\ \A n \in ShownNames :
           listed'[n] = listed[n] - Same(opaque[u], n)
                                  + Same(x, n)
  <2>1. listed \in [ShownNames -> Nat]
    BY DEF TypeOK
  <2> DEFINE without == [listed EXCEPT ![opaque[u]] = @ - 1]
  <2>2. /\ without \in [ShownNames -> Int]
        /\ \A n \in ShownNames :
             without[n] = IF opaque[u] = n THEN listed[n] - 1 ELSE listed[n]
    BY <1>a, <2>1
  <2>3. listed' = [without EXCEPT ![x] = @ + 1]
    BY <1>3
  <2> HIDE DEF without
  <2>4. /\ listed' \in [ShownNames -> Int]
        /\ \A n \in ShownNames :
             listed'[n] = IF x = n THEN without[n] + 1 ELSE without[n]
    BY <2>2, <2>3
  <2>5. \A n \in ShownNames : listed[n] \in Int
    BY <2>1
  <2>6. QED
    BY <2>2, <2>4, <2>5 DEF Same
<1>7. Told' /\ listed' \in [ShownNames -> Nat]
      /\ opaque' \in [Users -> ShownNames \cup {None}]
  <2>1. opaque' = [opaque EXCEPT ![u] = x] /\ x \in ShownNames \cup {None}
    BY <1>3
  <2>2. TypeOK /\ Told
    OBVIOUS
  <2>3. QED
    BY <2>1, <2>2, <1>6, TellKeeps
<1>8. TypeOK'
  BY <1>1, <1>3, <1>7 DEF TypeOK, serverVars, syncVars
<1>9. ListsAgree'
  <2>1. /\ Elems(newMembers)' = Elems(newMembers)
        /\ Elems(renamedMembers)' = Elems(renamedMembers) \ {u}
        /\ Elems(leftMembers)' = Elems(leftMembers)
    BY <1>1, <1>3 DEF Elems
  <2>2. Distinct(newMembers)' /\ Distinct(renamedMembers)' /\ Distinct(leftMembers)'
    BY <1>1, <1>3 DEF ListsAgree, Distinct
  <2>3. opaque \in [Users -> ShownNames \cup {None}]
    BY DEF TypeOK
  <2>4. \A v \in Users : IsIn(v)' = IsIn(v) /\ Displayname(v)' = Displayname(v)
    BY <1>3 DEF IsIn, Displayname, NameOf
  <2>5. opaque'[u] = x /\ \A v \in Users : v # u => opaque'[v] = opaque[v]
    BY <1>3, <2>3
  <2>6. \A v \in Users : v \in Waiting' <=> v \in Waiting /\ v # u
    BY <2>1, <1>2 DEF Waiting
  <2>7. ASSUME NEW v \in Users, v # u
        PROVE  /\ v \in Elems(newMembers)' =>
                    /\ IsIn(v)' /\ opaque'[v] = None
                    /\ v \notin Elems(renamedMembers)' /\ v \notin Elems(leftMembers)'
               /\ v \in Elems(renamedMembers)' =>
                    IsIn(v)' /\ opaque'[v] # None /\ v \notin Elems(leftMembers)'
               /\ v \in Elems(leftMembers)' => ~IsIn(v)' /\ opaque'[v] # None
               /\ v \notin Waiting' =>
                    opaque'[v] = IF IsIn(v)' THEN Displayname(v)' ELSE None
    BY <2>1, <2>4, <2>5, <2>6, <2>7 DEF ListsAgree
  <2>8. /\ u \notin Elems(newMembers)' /\ u \notin Elems(renamedMembers)'
        /\ u \notin Elems(leftMembers)' /\ opaque'[u] = Displayname(u)' /\ IsIn(u)'
    BY <1>2, <2>1, <2>4, <2>5
  <2>9. QED
    BY <2>2, <2>7, <2>8 DEF ListsAgree
<1>10. QED
  BY <1>5, <1>7, <1>8, <1>9

LEMMA HandleLeftMemberStep ==
  ASSUME Consistent, HandleLeftMember
  PROVE  Consistent'
<1> USE DEF Consistent
<1>0. leftMembers \in Seq(Users) /\ leftMembers # << >>
  BY DEF HandleLeftMember, TypeOK
<1>1. /\ Head(leftMembers) \in Users /\ Head(leftMembers) \in Elems(leftMembers)
      /\ Tail(leftMembers) \in Seq(Users) /\ Distinct(Tail(leftMembers))
      /\ Elems(Tail(leftMembers)) = Elems(leftMembers) \ {Head(leftMembers)}
  BY <1>0, TailElems DEF ListsAgree
<1> PICK u \in Users : u = Head(leftMembers)
  BY <1>1
<1>2. /\ ~IsIn(u) /\ opaque[u] # None
      /\ u \notin Elems(newMembers) /\ u \notin Elems(renamedMembers)
  BY <1>1 DEF ListsAgree
<1>a. opaque[u] \in ShownNames
  BY <1>2 DEF TypeOK
<1>3. /\ Flushing
      /\ opaque' = [opaque EXCEPT ![u] = None]
      /\ listed' = [listed EXCEPT ![opaque[u]] = @ - 1]
      /\ leftMembers' = Tail(leftMembers)
      /\ UNCHANGED <<serverVars, syncVars, table, member, newMembers,
                     renamedMembers, needsName, title, fault>>
  BY <1>2 DEF HandleLeftMember, ListedName
<1>4. UNCHANGED <<serverVars, syncVars, table, member, needsName, fault>>
  BY <1>3
<1>5. Phased' /\ MembersFollow' /\ ServerAgrees' /\ ClientAgrees' /\ fault' = "no"
  BY <1>3, <1>4, FlushLeaves
<1>6. /\ listed' \in [ShownNames -> Int]
      /\ \A n \in ShownNames :
           listed'[n] = listed[n] - Same(opaque[u], n)
                                  + Same(None, n)
  <2>1. listed \in [ShownNames -> Nat] /\ None \notin ShownNames
    BY NoneIsNoValue DEF TypeOK, ShownNames
  <2>2. /\ listed' \in [ShownNames -> Int]
        /\ \A n \in ShownNames :
             listed'[n] = IF opaque[u] = n THEN listed[n] - 1 ELSE listed[n]
    BY <1>a, <1>3, <2>1
  <2>3. \A n \in ShownNames : None # n /\ listed[n] \in Int
    BY <2>1
  <2>4. QED
    BY <2>2, <2>3 DEF Same
<1>7. Told' /\ listed' \in [ShownNames -> Nat]
      /\ opaque' \in [Users -> ShownNames \cup {None}]
  <2>1. None \in ShownNames \cup {None}
    OBVIOUS
  <2>2. QED
    BY <2>1, <1>3, <1>6, TellKeeps
<1>8. TypeOK'
  BY <1>1, <1>3, <1>7 DEF TypeOK, serverVars, syncVars
<1>9. ListsAgree'
  <2>1. /\ Elems(newMembers)' = Elems(newMembers)
        /\ Elems(renamedMembers)' = Elems(renamedMembers)
        /\ Elems(leftMembers)' = Elems(leftMembers) \ {u}
    BY <1>1, <1>3 DEF Elems
  <2>2. Distinct(newMembers)' /\ Distinct(renamedMembers)' /\ Distinct(leftMembers)'
    BY <1>1, <1>3 DEF ListsAgree, Distinct
  <2>3. opaque \in [Users -> ShownNames \cup {None}]
    BY DEF TypeOK
  <2>4. \A v \in Users : IsIn(v)' = IsIn(v) /\ Displayname(v)' = Displayname(v)
    BY <1>3 DEF IsIn, Displayname, NameOf
  <2>5. opaque'[u] = None /\ \A v \in Users : v # u => opaque'[v] = opaque[v]
    BY <1>3, <2>3
  <2>6. \A v \in Users : v \in Waiting' <=> v \in Waiting /\ v # u
    BY <2>1, <1>2 DEF Waiting
  <2>7. ASSUME NEW v \in Users, v # u
        PROVE  /\ v \in Elems(newMembers)' =>
                    /\ IsIn(v)' /\ opaque'[v] = None
                    /\ v \notin Elems(renamedMembers)' /\ v \notin Elems(leftMembers)'
               /\ v \in Elems(renamedMembers)' =>
                    IsIn(v)' /\ opaque'[v] # None /\ v \notin Elems(leftMembers)'
               /\ v \in Elems(leftMembers)' => ~IsIn(v)' /\ opaque'[v] # None
               /\ v \notin Waiting' =>
                    opaque'[v] = IF IsIn(v)' THEN Displayname(v)' ELSE None
    BY <2>1, <2>4, <2>5, <2>6, <2>7 DEF ListsAgree
  <2>8. /\ u \notin Elems(newMembers)' /\ u \notin Elems(renamedMembers)'
        /\ u \notin Elems(leftMembers)' /\ opaque'[u] = None /\ ~IsIn(u)'
    BY <1>2, <2>1, <2>4, <2>5
  <2>9. QED
    BY <2>2, <2>7, <2>8 DEF ListsAgree
<1>10. QED
  BY <1>5, <1>7, <1>8, <1>9

-----------------------------------------------------------------------------
(* From one phase to the next.                                              *)

\* Steps that leave the tables and what libpurple knows alone.
LEMMA TablesIdle ==
  ASSUME Consistent, UNCHANGED <<table, memberVars, opaque, listed>>
  PROVE  ListsAgree' /\ Told' /\ MembersFollow' /\ Waiting' = Waiting
<1>1. UNCHANGED <<table, member, newMembers, renamedMembers, leftMembers, opaque, listed>>
  BY DEF memberVars
<1>2. ListsAgree' /\ Waiting' = Waiting
  BY <1>1 DEF Consistent, ListsAgree, Waiting, Elems, Distinct, IsIn, Displayname, NameOf
<1>3. Told'
  BY <1>1 DEF Consistent, Told, Bearers
<1>4. MembersFollow'
  BY <1>1 DEF Consistent, MembersFollow, MembersIn
<1>5. QED
  BY <1>2, <1>3, <1>4

\* ClientAgrees depends on four variables only.
LEMMA ClientIdle ==
  ASSUME ClientAgrees, UNCHANGED <<timeline, batch, todo, table, seen>>
  PROVE  ClientAgrees'
<1>1. timeline' = timeline /\ batch' = batch /\ todo' = todo /\ table' = table /\ seen' = seen
  OBVIOUS
<1>2. QED
  BY <1>1 DEF ClientAgrees, Ahead

LEMMA StateDoneStep ==
  ASSUME Consistent, StateDone
  PROVE  Consistent'
<1> USE DEF Consistent
<1>1. /\ todo = {} /\ phase' = "flush"
      /\ UNCHANGED <<truth, pending, changes, seen, pass, batch, todo, timeline, table,
                     memberVars, opaque, listed, needsName, title, fault>>
  BY DEF StateDone, serverVars, chatVars
<1>2. ListsAgree' /\ Told' /\ MembersFollow' /\ Waiting' = Waiting
  BY <1>1, TablesIdle
<1>3. ServerAgrees' /\ ClientAgrees'
  BY <1>1, ServerIdle, ClientIdle
<1>4. TypeOK'
  BY <1>1 DEF TypeOK, memberVars, Phases
<1>5. Phased'
  BY <1>1, <1>2 DEF Phased
<1>6. QED
  BY <1>1, <1>2, <1>3, <1>4, <1>5

LEMMA ResponseDoneStep ==
  ASSUME Consistent, ResponseDone
  PROVE  Consistent'
<1> USE DEF Consistent
<1>1. /\ phase = "timeline" /\ timeline = << >> /\ phase' = "idle"
      /\ UNCHANGED <<truth, pending, changes, seen, pass, batch, todo, timeline, table,
                     memberVars, opaque, listed, needsName, title, fault>>
  BY DEF ResponseDone, serverVars, chatVars
<1>2. ListsAgree' /\ Told' /\ MembersFollow' /\ Waiting' = Waiting
  BY <1>1, TablesIdle
<1>3. ServerAgrees' /\ ClientAgrees'
  BY <1>1, ServerIdle, ClientIdle
<1>4. TypeOK'
  BY <1>1 DEF TypeOK, memberVars, Phases
<1>5. Phased'
  BY <1>1, <1>2 DEF Phased, memberVars
<1>6. QED
  BY <1>1, <1>2, <1>3, <1>4, <1>5

LEMMA UpdateDoneStep ==
  ASSUME Consistent, UpdateDone
  PROVE  Consistent'
<1> USE DEF Consistent
<1>1. /\ phase = "flush"
      /\ newMembers = << >> /\ renamedMembers = << >> /\ leftMembers = << >>
      /\ needsName' = FALSE
      /\ UNCHANGED <<truth, pending, changes, seen, timeline, table, memberVars,
                     opaque, listed, fault>>
  BY DEF UpdateDone, Flushing, serverVars
<1>2. ListsAgree' /\ Told' /\ MembersFollow' /\ Waiting' = Waiting
  BY <1>1, TablesIdle
<1>3. ServerAgrees'
  BY <1>1, ServerIdle
<1>4. Waiting = {} /\ todo = {}
  BY <1>1, EmptyElems DEF Waiting, Phased
<1>5. UNCHANGED <<newMembers, renamedMembers, leftMembers, member>>
  BY <1>1 DEF memberVars
<1>6. \A k \in Keys : Ahead(k)' = Ahead(k)
  BY <1>1 DEF Ahead
<1>7. CASE pass = 1
  <2>1. pass' = 2 /\ phase' = "state" /\ todo' = batch /\ batch' = batch
    BY <1>7 DEF UpdateDone
  <2>a. todo' \in SUBSET batch' /\ batch' \in SUBSET Event /\ pass' \in 1..2
        /\ phase' \in Phases /\ needsName' \in BOOLEAN
    <3>1. batch \in SUBSET Event
      BY DEF TypeOK
    <3>2. todo' \in SUBSET batch' /\ batch' \in SUBSET Event
      BY <2>1, <3>1
    <3>3. pass' \in 1..2
      BY <2>1
    <3>4. phase' \in Phases /\ needsName' \in BOOLEAN
      BY <1>1, <2>1 DEF Phases
    <3>5. QED
      BY <3>2, <3>3, <3>4
  <2>2. TypeOK'
    BY <1>1, <1>5, <2>a DEF TypeOK
  <2>3. Phased'
    BY <1>2, <1>4, <2>1 DEF Phased
  <2>4. ClientAgrees'
    BY <1>1, <1>4, <1>6, <2>1 DEF ClientAgrees, Ahead
  <2>5. QED
    BY <1>1, <1>2, <1>3, <2>2, <2>3, <2>4
<1>8. CASE pass = 2
  <2>1. phase' = "timeline" /\ batch' = {} /\ pass' = pass /\ todo' = todo
    BY <1>8 DEF UpdateDone
  <2>2. TypeOK'
    BY <1>1, <1>4, <1>5, <2>1 DEF TypeOK, Phases
  <2>3. Phased'
    BY <1>1, <1>4, <1>5, <2>1 DEF Phased
  <2>4. ClientAgrees'
    BY <1>1, <1>4, <1>6, <2>1 DEF ClientAgrees, Ahead
  <2>5. QED
    BY <1>1, <1>2, <1>3, <2>2, <2>3, <2>4
<1>9. QED
  BY <1>7, <1>8 DEF TypeOK

-----------------------------------------------------------------------------
(* The homeserver.                                                          *)

LEMMA ServerChangesStep ==
  ASSUME Consistent, NEW e \in Event, ServerChanges(e)
  PROVE  Consistent'
<1> USE DEF Consistent
<1>1. /\ phase = "idle" /\ changes < MaxChanges
      /\ truth' = [truth EXCEPT ![e.key] = e.content]
      /\ pending' = Append(pending, e) /\ changes' = changes + 1
      /\ UNCHANGED <<seen, phase, pass, batch, todo, timeline, table, memberVars,
                     opaque, listed, needsName, title, fault>>
  BY DEF ServerChanges, syncVars, chatVars
<1>2. ListsAgree' /\ Told' /\ MembersFollow' /\ Waiting' = Waiting
  BY <1>1, TablesIdle
<1>3. ClientAgrees'
  BY <1>1, ClientIdle
<1>4. truth' \in State
  BY <1>1, SetKey DEF TypeOK
<1>5. pending \in Seq(Event) /\ pending' \in Seq(Event)
  BY <1>1 DEF TypeOK
<1>6. TypeOK'
  <2>1. changes' \in 0..MaxChanges
    BY <1>1, ChangesBounded DEF TypeOK
  <2>2. QED
    BY <1>1, <1>4, <1>5, <2>1 DEF TypeOK, memberVars
<1>7. Phased'
  BY <1>1, <1>2 DEF Phased, memberVars
<1>8. /\ Len(pending) \in Nat /\ Len(pending') = Len(pending) + 1
      /\ DOMAIN pending = 1..Len(pending) /\ DOMAIN pending' = 1..Len(pending) + 1
      /\ \A i \in 1..Len(pending) : pending'[i] = pending[i]
      /\ pending'[Len(pending) + 1] = e
  BY <1>1, <1>5
<1>9. e.key \in Keys
  BY EventShape
<1>10. \A k \in Keys : truth'[k] = IF k = e.key THEN e.content ELSE truth[k]
  BY <1>1 DEF TypeOK, State
<1>11. \A i \in 1..Len(pending) : pending[i].key \in Keys
  BY <1>5, <1>8, EventShape
<1>12. ServerAgrees'
  <2>1. ASSUME NEW k \in Keys, \A i \in DOMAIN pending' : pending'[i].key # k
        PROVE  truth'[k] = seen'[k]
    <3>1. k # e.key /\ \A i \in DOMAIN pending : pending[i].key # k
      BY <1>8, <2>1
    <3>2. QED
      BY <3>1, <1>1, <1>10 DEF ServerAgrees
  <2>2. ASSUME NEW i \in DOMAIN pending',
               \A j \in DOMAIN pending' : j > i => pending'[j].key # pending'[i].key
        PROVE  truth'[pending'[i].key] = pending'[i].content
    <3>1. CASE i = Len(pending) + 1
      BY <3>1, <1>8, <1>9, <1>10
    <3>2. CASE i # Len(pending) + 1
      <4>1. i \in DOMAIN pending /\ pending'[i] = pending[i]
        BY <3>2, <1>8
      <4>2. pending[i].key # e.key
        BY <4>1, <2>2, <1>8
      <4>3. \A j \in DOMAIN pending : j > i => pending[j].key # pending[i].key
        BY <4>1, <2>2, <1>8
      <4>4. QED
        BY <4>1, <4>2, <4>3, <1>8, <1>10, <1>11 DEF ServerAgrees
    <3>3. QED BY <3>1, <3>2
  <2>3. ASSUME NEW m \in 0..Len(pending'), NEW k \in Keys
        PROVE  \/ \A i \in 1..m : pending'[i].key # k
               \/ \E i \in 1..m : /\ pending'[i].key = k
                                  /\ \A j \in 1..m : j > i => pending'[j].key # k
    <3> DEFINE Untouched(n) == \A i \in 1..n : pending[i].key # k
               Latest1(n, i) == /\ pending[i].key = k
                                /\ \A j \in 1..n : j > i => pending[j].key # k
    <3>1. \A n \in 0..Len(pending) : Untouched(n) \/ \E i \in 1..n : Latest1(n, i)
      BY DEF ServerAgrees, PrefixLasts
    <3>2. CASE m \in 0..Len(pending)
      <4>1. \A i \in 1..m : pending'[i] = pending[i]
        BY <3>2, <1>8
      <4>2. QED
        BY <3>1, <3>2, <4>1
    <3>3. CASE m = Len(pending) + 1 /\ e.key = k
      BY <3>3, <1>8
    <3>4. CASE m = Len(pending) + 1 /\ e.key # k
      <4>1. CASE Untouched(Len(pending))
        BY <4>1, <3>4, <1>8
      <4>2. CASE \E i \in 1..Len(pending) : Latest1(Len(pending), i)
        <5>1. PICK i \in 1..Len(pending) : Latest1(Len(pending), i)
          BY <4>2
        <5>2. i \in 1..m /\ pending'[i].key = k
          BY <5>1, <3>4, <1>8
        <5>3. \A j \in 1..m : j > i => pending'[j].key # k
          BY <5>1, <3>4, <1>8
        <5>4. QED
          BY <5>2, <5>3
      <4>3. QED
        BY <4>1, <4>2, <3>1, <1>8
    <3>5. QED
      BY <3>2, <3>3, <3>4, <1>8
  <2>4. QED
    BY <2>1, <2>2, <2>3 DEF ServerAgrees, PrefixLasts
<1>13. QED
  BY <1>1, <1>2, <1>3, <1>6, <1>7, <1>12

Carries(S, t) ==
  /\ S \in SUBSET Event /\ t \in Seq(Event)
  /\ \A e, f \in S : e.key = f.key => e = f
  /\ \A i \in DOMAIN t :
       (\A j \in DOMAIN t : j > i => t[j].key # t[i].key) =>
         t[i].content = truth[t[i].key]
  /\ \A e \in S : (\A i \in DOMAIN t : t[i].key # e.key) => e.content = truth[e.key]
  /\ \A k \in Keys : (\A i \in DOMAIN t : t[i].key # k) /\ (\A e \in S : e.key # k) =>
       truth[k] = seen[k]

\* What a response carries: its state array has one event per key, and for
\* each key its timeline does not touch, the room's present state.
LEMMA ResponseCarries ==
  ASSUME TypeOK, ServerAgrees, NEW n \in 0..Len(pending),
         NEW S, S = Latest(SubSeq(pending, 1, n)),
         NEW t, t = SubSeq(pending, n + 1, Len(pending))
  PROVE  Carries(S, t)
<1> DEFINE N == Len(pending)
           b == SubSeq(pending, 1, n)
<1>1. pending \in Seq(Event) /\ N \in Nat /\ n \in Nat /\ n <= N /\ DOMAIN pending = 1..N
  BY DEF TypeOK
<1>2. /\ b \in Seq(Event) /\ DOMAIN b = 1..n
      /\ \A i \in 1..n : b[i] = pending[i] /\ pending[i] \in Event
  BY <1>1
<1>3. /\ t \in Seq(Event) /\ DOMAIN t = 1..N - n
      /\ \A i \in 1..N - n : t[i] = pending[n + i]
  BY <1>1
<1> DEFINE Last(i) == \A j \in 1..n : j > i => pending[j].key # pending[i].key
<1>4. S = {pending[i] : i \in {i \in 1..n : Last(i)}}
  BY <1>2 DEF Latest
<1>5. \A e \in S : \E i \in 1..n : e = pending[i] /\ Last(i)
  BY <1>4
<1>6. \A i \in 1..n : Last(i) => pending[i] \in S
  BY <1>4
<1> HIDE DEF b, N
<1>7. S \in SUBSET Event
  BY <1>2, <1>5
<1>8. ASSUME NEW e \in S, NEW f \in S, e.key = f.key PROVE e = f
  <2>1. PICK i \in 1..n : e = pending[i] /\ Last(i)
    BY <1>5
  <2>2. PICK j \in 1..n : f = pending[j] /\ Last(j)
    BY <1>5
  <2>3. ~(i < j) /\ ~(j < i)
    BY <1>8, <2>1, <2>2
  <2>4. i = j
    BY <2>3, <1>1
  <2>5. QED
    BY <2>1, <2>2, <2>4
\* An index of t, moved to where it is in pending.
<1>9. \A j \in 1..N : j > n => j - n \in 1..N - n /\ t[j - n] = pending[j]
  <2> SUFFICES ASSUME NEW j \in 1..N, j > n
               PROVE  j - n \in 1..N - n /\ t[j - n] = pending[j]
    OBVIOUS
  <2>1. j - n \in 1..N - n /\ n + (j - n) = j
    BY <1>1
  <2>2. QED
    BY <2>1, <1>3
<1>10. ASSUME NEW i \in DOMAIN t, \A j \in DOMAIN t : j > i => t[j].key # t[i].key
       PROVE  t[i].content = truth[t[i].key]
  <2>1. n + i \in 1..N /\ t[i] = pending[n + i]
    BY <1>1, <1>3
  <2>2. ASSUME NEW j \in 1..N, j > n + i PROVE pending[j].key # pending[n + i].key
    <3>1. j > n /\ j - n > i
      BY <1>1, <1>3, <2>2
    <3>2. j - n \in DOMAIN t /\ t[j - n] = pending[j]
      BY <3>1, <1>3, <1>9
    <3>3. QED
      BY <3>1, <3>2, <2>1, <1>10
  <2>3. QED
    BY <2>1, <2>2, <1>1 DEF ServerAgrees
<1>11. ASSUME NEW e \in S, \A i \in DOMAIN t : t[i].key # e.key
       PROVE  e.content = truth[e.key]
  <2>1. PICK i \in 1..n : e = pending[i] /\ Last(i)
    BY <1>5
  <2>2. i \in DOMAIN pending
    BY <1>1
  <2>3. ASSUME NEW j \in DOMAIN pending, j > i PROVE pending[j].key # pending[i].key
    <3>1. CASE j <= n
      BY <3>1, <2>1, <2>3, <1>1
    <3>2. CASE j > n
      BY <3>2, <2>1, <1>1, <1>3, <1>9, <1>11
    <3>3. QED BY <3>1, <3>2, <1>1
  <2>4. QED
    BY <2>1, <2>2, <2>3 DEF ServerAgrees
<1>12. ASSUME NEW k \in Keys, \A i \in DOMAIN t : t[i].key # k, \A e \in S : e.key # k
       PROVE  truth[k] = seen[k]
  <2>1. n \in 0..Len(pending)
    OBVIOUS
  <2>2. \/ \A i \in 1..n : pending[i].key # k
        \/ \E i \in 1..n : pending[i].key = k /\ \A j \in 1..n : j > i => pending[j].key # k
    BY <2>1 DEF ServerAgrees, PrefixLasts
  <2>3. CASE \E i \in 1..n : pending[i].key = k /\ \A j \in 1..n : j > i => pending[j].key # k
    <3>1. PICK i \in 1..n : pending[i].key = k /\ \A j \in 1..n : j > i => pending[j].key # k
      BY <2>3
    <3>2. pending[i] \in S
      BY <3>1, <1>6
    <3>3. QED
      BY <3>1, <3>2, <1>12
  <2>4. CASE \A i \in 1..n : pending[i].key # k
    <3>1. ASSUME NEW i \in DOMAIN pending PROVE pending[i].key # k
      <4>1. CASE i <= n
        BY <4>1, <2>4, <1>1
      <4>2. CASE i > n
        BY <4>2, <1>1, <1>3, <1>9, <1>12
      <4>3. QED BY <4>1, <4>2, <1>1
    <3>2. QED
      BY <3>1 DEF ServerAgrees
  <2>5. QED
    BY <2>2, <2>3, <2>4
<1>13. QED
  BY <1>3, <1>7, <1>8, <1>10, <1>11, <1>12 DEF Carries

LEMMA SyncArrivesStep ==
  ASSUME Consistent, NEW k \in 0..Len(pending), NEW stays \in BOOLEAN, SyncArrives(k, stays)
  PROVE  Consistent'
<1> USE DEF Consistent
<1>0. Len(pending) - k \in 0..Len(pending)
  BY DEF TypeOK
<1> PICK n \in 0..Len(pending) : n = Len(pending) - k
  BY <1>0
<1>1. /\ phase = "idle"
      /\ batch' = Latest(SubSeq(pending, 1, n))
      /\ timeline' = SubSeq(pending, n + 1, Len(pending))
      /\ todo' = batch' /\ phase' = "state" /\ pass' = 1
      /\ seen' = truth
      /\ pending' = IF stays THEN pending ELSE << >>
      /\ UNCHANGED <<truth, changes, table, memberVars, opaque, listed, needsName, title, fault>>
  BY DEF SyncArrives, chatVars
<1>2. pending \in Seq(Event) /\ n \in 0..Len(pending)
  BY DEF TypeOK
<1>3. /\ batch' \in SUBSET Event /\ timeline' \in Seq(Event)
      /\ \A e, f \in batch' : e.key = f.key => e = f
      /\ \A i \in DOMAIN timeline' :
           (\A j \in DOMAIN timeline' : j > i => timeline'[j].key # timeline'[i].key) =>
             timeline'[i].content = truth[timeline'[i].key]
      /\ \A e \in batch' : (\A i \in DOMAIN timeline' : timeline'[i].key # e.key) =>
           e.content = truth[e.key]
      /\ \A x \in Keys :
           (\A i \in DOMAIN timeline' : timeline'[i].key # x) /\ (\A e \in batch' : e.key # x)
             => truth[x] = seen[x]
  <2> PICK S, t : S = Latest(SubSeq(pending, 1, n)) /\ t = SubSeq(pending, n + 1, Len(pending))
    OBVIOUS
  <2>1. S = batch' /\ t = timeline'
    BY <1>1
  <2>2. Carries(S, t)
    BY ResponseCarries
  <2>3. QED
    BY <2>1, <2>2 DEF Carries
<1>4. ListsAgree' /\ Told' /\ MembersFollow' /\ Waiting' = Waiting
  BY <1>1, TablesIdle
<1>5. Waiting = {} /\ todo = {} /\ timeline = << >>
  BY <1>1, EmptyElems DEF Waiting, Phased
<1>6. TypeOK'
  <2>1. pending' \in Seq(Event)
    BY <1>1, <1>2
  <2>2. todo' \in SUBSET batch' /\ pass' \in 1..2 /\ phase' \in Phases
    BY <1>1 DEF Phases
  <2>3. QED
    BY <1>1, <1>3, <2>1, <2>2 DEF TypeOK, memberVars
<1>7. Phased'
  BY <1>1, <1>3, <1>4, <1>5 DEF Phased
<1>8. ClientAgrees'
  <2>1. \A x \in Keys : table[x] = seen[x]
    BY <1>5 DEF ClientAgrees, Ahead
  <2>2. \A x : Ahead(x)' <=> \E i \in DOMAIN timeline' : timeline'[i].key = x
    BY DEF Ahead
  <2>3. ASSUME NEW x \in Keys, ~Ahead(x)', \A e \in todo' : e.key # x
        PROVE  table'[x] = seen'[x]
    BY <2>1, <2>2, <2>3, <1>1, <1>3
  <2>4. QED
    BY <2>2, <2>3, <1>1, <1>3 DEF ClientAgrees
<1>9. ServerAgrees'
  <2>1. CASE stays
    <3>1. pending' = pending /\ truth' = truth /\ seen' = truth
      BY <2>1, <1>1
    <3>2. \A x \in Keys : truth'[x] = seen'[x]
      BY <3>1
    <3>3. \A i \in DOMAIN pending' :
            (\A j \in DOMAIN pending' : j > i => pending'[j].key # pending'[i].key) =>
              truth'[pending'[i].key] = pending'[i].content
      BY <3>1 DEF ServerAgrees
    <3>4. PrefixLasts(pending')
      BY <3>1 DEF ServerAgrees
    <3>5. QED
      BY <3>2, <3>3, <3>4, Zenon DEF ServerAgrees
  <2>2. CASE ~stays
    <3>1. pending' = << >> /\ truth' = truth /\ seen' = truth /\ Len(pending') = 0
          /\ DOMAIN pending' = {}
      BY <2>2, <1>1
    <3>2. \A m \in 0..Len(pending'), x \in Keys : \A i \in 1..m : pending'[i].key # x
      BY <3>1
    <3>3. QED
      BY <3>1, <3>2 DEF ServerAgrees, PrefixLasts
  <2>3. QED BY <2>1, <2>2
<1>10. QED
  BY <1>1, <1>4, <1>6, <1>7, <1>8, <1>9

LEMMA InitConsistent == Init => Consistent
<1> SUFFICES ASSUME Init PROVE Consistent
  OBVIOUS
<1>1. /\ truth = [k \in Keys |-> None] /\ pending = << >> /\ changes = 0
      /\ seen = truth /\ table = truth
      /\ phase = "idle" /\ pass = 1 /\ batch = {} /\ todo = {} /\ timeline = << >>
      /\ member = [u \in Users |-> Absent]
      /\ newMembers = << >> /\ renamedMembers = << >> /\ leftMembers = << >>
      /\ opaque = [u \in Users |-> None] /\ listed = [m \in ShownNames |-> 0]
      /\ needsName = FALSE /\ fault = "no"
  BY DEF Init
<1>2. truth \in State
  BY <1>1 DEF State, Content
<1>3. Absent \in Member /\ Absent.membership = "none"
  BY DEF Absent, Member
<1>4. TypeOK
  <2>1. /\ member \in [Users -> Member]
        /\ opaque \in [Users -> ShownNames \cup {None}]
        /\ listed \in [ShownNames -> Nat]
    BY <1>1, <1>3
  <2>2. changes \in 0..MaxChanges
    BY <1>1, ChangesBounded
  <2>3. truth \in State /\ seen \in State /\ table \in State
    BY <1>1, <1>2
  <2>4. /\ pending \in Seq(Event) /\ timeline \in Seq(Event)
        /\ newMembers \in Seq(Users) /\ renamedMembers \in Seq(Users)
        /\ leftMembers \in Seq(Users)
    BY <1>1
  <2>5. pass \in 1..2 /\ batch \in SUBSET Event /\ todo \in SUBSET batch
    BY <1>1
  <2>6. phase \in Phases /\ needsName \in BOOLEAN /\ fault \in {"no", "assert"}
    BY <1>1 DEF Phases
  <2>7. QED
    BY <2>1, <2>2, <2>3, <2>4, <2>5, <2>6 DEF TypeOK
<1>5. Waiting = {}
  BY <1>1, EmptyElems DEF Waiting
<1>6. ListsAgree
  <2>1. \A u \in Users : ~IsIn(u) /\ opaque[u] = None
    BY <1>1, <1>3 DEF IsIn
  <2>2. QED
    BY <1>1, <1>5, <2>1, EmptyElems DEF ListsAgree, Waiting
<1>7. Phased
  BY <1>1 DEF Phased
<1>8. Told
  <2>1. ASSUME NEW m \in ShownNames PROVE listed[m] = Cardinality(Bearers(opaque, m))
    <3>1. None # m
      BY NoneIsNoValue DEF ShownNames
    <3>2. Bearers(opaque, m) = {}
      BY <3>1, <1>1 DEF Bearers
    <3>3. QED
      BY <3>2, <1>1, FS_EmptySet
  <2>2. QED
    BY <2>1 DEF Told
<1>9. MembersFollow
  <2>1. \A u \in Users : table[u] = None
    BY <1>1 DEF Keys
  <2>2. QED
    BY <2>1, <1>1 DEF MembersFollow, MembersIn
<1>10. ServerAgrees
  <2>1. Len(pending) = 0 /\ DOMAIN pending = {}
    BY <1>1
  <2>2. QED
    BY <1>1, <2>1 DEF ServerAgrees, PrefixLasts
<1>11. ClientAgrees
  <2>1. DOMAIN timeline = {} /\ batch = {}
    BY <1>1
  <2>2. QED
    BY <1>1, <2>1 DEF ClientAgrees
<1>12. QED
  BY <1>1, <1>4, <1>6, <1>7, <1>8, <1>9, <1>10, <1>11 DEF Consistent

-----------------------------------------------------------------------------
(* The theorems.                                                            *)

\* What the homeserver can say is an event.
LEMMA ChangeIsEvent ==
  /\ \A u \in Users, c \in MemberContent : [key |-> u, content |-> c] \in Event
  /\ \A k \in NameKeys, c \in Values \cup {None} : [key |-> k, content |-> c] \in Event
  BY NamesAreKeys DEF Event

LEMMA NextConsistent == Consistent /\ [Next]_vars => Consistent'
<1> SUFFICES ASSUME Consistent, [Next]_vars PROVE Consistent'
  OBVIOUS
<1>1. ASSUME NEW u \in Users, NEW c \in MemberContent,
             ServerChanges([key |-> u, content |-> c])
      PROVE  Consistent'
  BY <1>1, ChangeIsEvent, ServerChangesStep
<1>2. ASSUME NEW k \in NameKeys, NEW c \in Values \cup {None},
             ServerChanges([key |-> k, content |-> c])
      PROVE  Consistent'
  BY <1>2, ChangeIsEvent, ServerChangesStep
<1>3. ASSUME NEW k \in 0..Len(pending), NEW stays \in BOOLEAN, SyncArrives(k, stays)
      PROVE  Consistent'
  BY <1>3, SyncArrivesStep
<1>4. ASSUME NEW e \in todo, StateEvent(e) PROVE Consistent'
  BY <1>4, StateEventStep
<1>5. CASE StateDone
  BY <1>5, StateDoneStep
<1>6. CASE TimelineEvent
  BY <1>6, TimelineEventStep
<1>7. CASE ResponseDone
  BY <1>7, ResponseDoneStep
<1>8. CASE HandleNewMember
  BY <1>8, HandleNewMemberStep
<1>9. CASE HandleRenamedMember
  BY <1>9, HandleRenamedMemberStep
<1>10. CASE HandleLeftMember
  BY <1>10, HandleLeftMemberStep
<1>11. CASE UpdateDone
  BY <1>11, UpdateDoneStep
<1>12. CASE UNCHANGED vars
  <2>1. UNCHANGED <<truth, pending, changes, seen, phase, pass, batch, todo, timeline, table,
                    memberVars, opaque, listed, needsName, title, fault>>
    BY <1>12 DEF vars, serverVars, syncVars, chatVars
  <2>2. ListsAgree' /\ Told' /\ MembersFollow' /\ Waiting' = Waiting
    BY <2>1, TablesIdle
  <2>3. ServerAgrees' /\ ClientAgrees'
    BY <2>1, ServerIdle, ClientIdle DEF Consistent
  <2>4. TypeOK'
    BY <2>1 DEF TypeOK, Consistent, memberVars
  <2>5. Phased'
    BY <2>1, <2>2 DEF Phased, Consistent, memberVars
  <2>6. QED
    BY <2>1, <2>2, <2>3, <2>4, <2>5 DEF Consistent
<1>13. QED
  BY <1>1, <1>2, <1>3, <1>4, <1>5, <1>6, <1>7, <1>8, <1>9, <1>10, <1>11, <1>12 DEF Next

\* The lists of changes, what libpurple was told, the tables and what is left
\* of a response always agree with the homeserver.
THEOREM AlwaysConsistent == Spec => []Consistent
<1>1. QED
  BY InitConsistent, NextConsistent, PTL DEF Spec

\* The state is well formed; in particular no name is taken away from
\* libpurple more often than it was given.
THEOREM TypeCorrect == Spec => []TypeOK
<1>1. Consistent => TypeOK
  BY DEF Consistent
<1>2. QED
  BY <1>1, AlwaysConsistent, PTL

\* The assertions in the _handle_*_members functions never fail.
THEOREM AssertionsHold == Spec => []AssertsHold
<1>1. Consistent => AssertsHold
  BY DEF Consistent, AssertsHold
<1>2. QED
  BY <1>1, AlwaysConsistent, PTL

\* Between responses the tables are those of the state last seen.
LEMMA IdleTables ==
  ASSUME Consistent, phase = "idle"
  PROVE  /\ table = seen /\ member = MembersIn(seen) /\ ~needsName /\ Waiting = {}
         /\ \A u \in Users : IsIn(u) <=> u \in Joined(seen)
<1>1. Waiting = {} /\ timeline = << >> /\ todo = {} /\ ~needsName
  BY EmptyElems DEF Consistent, Phased, Waiting
<1>2. \A k \in Keys : table[k] = seen[k]
  BY <1>1 DEF Consistent, ClientAgrees, Ahead
<1>3. table = seen
  BY <1>2 DEF Consistent, TypeOK, State
<1>4. member \in [Users -> Member] /\ \A u \in Users : member[u] = MembersIn(seen)[u]
  BY <1>3 DEF Consistent, TypeOK, MembersFollow
<1>5. member = MembersIn(seen)
  BY <1>4 DEF MembersIn
<1>6. ASSUME NEW u \in Users PROVE IsIn(u) <=> u \in Joined(seen)
  <2>1. IsIn(u) <=> MembersIn(seen)[u].membership = "join"
    BY <1>4 DEF IsIn
  <2>2. CASE seen[u] = None
    BY <2>1, <2>2 DEF MembersIn, Absent, Joined
  <2>3. CASE seen[u] # None
    <3>1. MembersIn(seen)[u].membership = ParseMembership(seen[u].membership)
      BY <2>3 DEF MembersIn
    <3>2. ParseMembership(seen[u].membership) = "join" <=> seen[u].membership = "join"
      BY DEF ParseMembership
    <3>3. QED
      BY <2>1, <2>3, <3>1, <3>2 DEF Joined
  <2>4. QED BY <2>2, <2>3
<1>7. QED
  BY <1>1, <1>3, <1>5, <1>6

\* After each response libpurple's user list is that of the room's members.
THEOREM RosterMirrors == Spec => []UserListMirrors
<1>1. Consistent => UserListMirrors
  <2> SUFFICES ASSUME Consistent, phase = "idle", NEW n \in ShownNames
               PROVE  listed[n] =
                        Cardinality({u \in Joined(seen) : NameOf(MembersIn(seen), u) = n})
    BY DEF UserListMirrors
  <2>1. /\ member = MembersIn(seen) /\ Waiting = {}
        /\ \A u \in Users : IsIn(u) <=> u \in Joined(seen)
    BY IdleTables
  <2>2. \A u \in Users : opaque[u] = IF IsIn(u) THEN Displayname(u) ELSE None
    BY <2>1 DEF Consistent, ListsAgree
  <2>3. None # n
    BY NoneIsNoValue DEF ShownNames
  <2>4. Bearers(opaque, n) = {u \in Joined(seen) : NameOf(MembersIn(seen), u) = n}
    BY <2>1, <2>2, <2>3 DEF Bearers, Joined, Displayname
  <2>5. QED
    BY <2>4 DEF Consistent, Told
<1>2. QED
  BY <1>1, AlwaysConsistent, PTL

-----------------------------------------------------------------------------
(* The title, in a room without m.room.aliases.                             *)

NoAliases == "m.room.aliases" \notin NameKeys

\* Either an update of the title is due, or it is what the tables give.
Titled ==
  /\ needsName \/ title \in RoomNames(table, member)
  /\ \A i \in DOMAIN pending : pending[i].key # "m.room.aliases"
  /\ \A e \in batch : e.key # "m.room.aliases"
  /\ \A i \in DOMAIN timeline : timeline[i].key # "m.room.aliases"

\* Every state event but m.room.aliases makes an update due.
LEMMA HandlingSchedules ==
  ASSUME NEW e, HandleStateEvent(e), e.key # "m.room.aliases"
  PROVE  needsName'
  BY DEF HandleStateEvent, Schedules

LEMMA InitTitled == Init => Titled
<1> SUFFICES ASSUME Init PROVE Titled
  OBVIOUS
<1>1. DOMAIN pending = {} /\ batch = {} /\ DOMAIN timeline = {} /\ title = << RoomId >>
  BY DEF Init
<1>2. \A k \in AllNameKeys : table[k] = None
  BY DEF Init, Keys
<1>3. {u \in Users \ {Me} : member[u].membership \in {"join", "invite"}} = {}
  BY DEF Init, Absent
<1>4. title \in NamesFromMembers(member)
  <2> DEFINE others == {u \in Users \ {Me} : member[u].membership \in {"join", "invite"}}
  <2>1. Cardinality(others) = 0
    BY <1>3, FS_EmptySet
  <2> HIDE DEF others
  <2>2. Cardinality(others) = 0 /\ Cardinality(others) # 1 /\ Cardinality(others) # 2
    BY <2>1
  <2>3. NamesFromMembers(member) = {<< RoomId >>}
    BY <2>2 DEF NamesFromMembers, others
  <2>4. QED
    BY <1>1, <2>3
<1>5. title \in RoomNames(table, member)
  BY <1>2, <1>4 DEF RoomNames, AllNameKeys
<1>6. QED
  BY <1>1, <1>5 DEF Titled

LEMMA NextTitled ==
  ASSUME NoAliases
  PROVE  Consistent /\ Titled /\ [Next]_vars => Titled'
<1> SUFFICES ASSUME Consistent, Titled, [Next]_vars PROVE Titled'
  OBVIOUS
<1>0. pending \in Seq(Event) /\ timeline \in Seq(Event) /\ todo \subseteq batch
  BY DEF Consistent, TypeOK
<1>1. ASSUME NEW e \in Event, ServerChanges(e), e.key # "m.room.aliases" PROVE Titled'
  <2>1. \A i \in DOMAIN pending' : pending'[i].key # "m.room.aliases"
    BY <1>0, <1>1 DEF ServerChanges, Titled
  <2>2. UNCHANGED <<needsName, title, table, member, batch, timeline>>
    BY <1>1 DEF ServerChanges, syncVars, memberVars, chatVars
  <2>3. QED
    BY <2>1, <2>2 DEF Titled
<1>2. ASSUME NEW k \in 0..Len(pending), NEW stays \in BOOLEAN, SyncArrives(k, stays)
      PROVE  Titled'
  <2> DEFINE n == Len(pending) - k
             b == SubSeq(pending, 1, n)
             t == SubSeq(pending, n + 1, Len(pending))
  <2>1. /\ batch' = Latest(b) /\ timeline' = t
        /\ pending' = IF stays THEN pending ELSE << >>
        /\ UNCHANGED <<needsName, title, table, member>>
    BY <1>2 DEF SyncArrives, memberVars, chatVars
  <2>2. n \in 0..Len(pending) /\ DOMAIN pending = 1..Len(pending)
    BY <1>0
  <2>3. DOMAIN b = 1..n /\ \A i \in 1..n : b[i] = pending[i] /\ i \in DOMAIN pending
    BY <1>0, <2>2
  <2>4. \A i \in DOMAIN t : t[i] = pending[n + i] /\ n + i \in DOMAIN pending
    BY <1>0, <2>2
  <2>5. \A i \in DOMAIN pending : pending[i].key # "m.room.aliases"
    BY DEF Titled
  <2> HIDE DEF n, b, t
  <2>6. \A e \in Latest(b) : e.key # "m.room.aliases"
    BY <2>3, <2>5 DEF Latest
  <2>7. \A i \in DOMAIN t : t[i].key # "m.room.aliases"
    BY <2>4, <2>5
  <2>8. \A i \in DOMAIN pending' : pending'[i].key # "m.room.aliases"
    BY <2>1, <2>5
  <2>9. QED
    BY <2>1, <2>6, <2>7, <2>8 DEF Titled
<1>3. ASSUME NEW e \in todo, StateEvent(e) PROVE Titled'
  <2>1. e.key # "m.room.aliases"
    BY <1>0 DEF Titled
  <2>2. needsName'
    BY <1>3, <2>1, HandlingSchedules DEF StateEvent
  <2>3. UNCHANGED <<pending, batch, timeline>>
    BY <1>3 DEF StateEvent, serverVars
  <2>4. QED
    BY <2>2, <2>3 DEF Titled
<1>4. CASE TimelineEvent
  <2>1. timeline # << >> /\ HandleStateEvent(Head(timeline)) /\ timeline' = Tail(timeline)
        /\ UNCHANGED <<pending, batch>>
    BY <1>4 DEF TimelineEvent, serverVars
  <2>2. Head(timeline) = timeline[1] /\ 1 \in DOMAIN timeline
        /\ \A i \in DOMAIN timeline' : timeline'[i] = timeline[i + 1] /\ i + 1 \in DOMAIN timeline
    BY <1>0, <2>1
  <2>3. Head(timeline).key # "m.room.aliases"
    BY <2>2 DEF Titled
  <2>4. needsName'
    BY <2>1, <2>3, HandlingSchedules
  <2>5. \A i \in DOMAIN timeline' : timeline'[i].key # "m.room.aliases"
    BY <2>2 DEF Titled
  <2>6. QED
    BY <2>1, <2>4, <2>5 DEF Titled
<1>5. CASE UpdateDone
  <2>1. /\ UNCHANGED <<pending, timeline, table, member>>
        /\ batch' = batch \/ batch' = {}
    BY <1>5 DEF UpdateDone, serverVars, memberVars
  <2>2. title' \in RoomNames(table, member)
    BY <1>5 DEF UpdateDone, Titled
  <2>3. QED
    BY <2>1, <2>2 DEF Titled
<1>6. ASSUME UNCHANGED <<needsName, title, table, member, pending, batch, timeline>>
      PROVE  Titled'
  BY <1>6 DEF Titled
<1>7. CASE StateDone \/ ResponseDone
  <2>1. UNCHANGED <<needsName, title, table, member, pending, batch, timeline>>
    <3>1. CASE StateDone
      BY <3>1 DEF StateDone, serverVars, memberVars, chatVars
    <3>2. CASE ResponseDone
      BY <3>2 DEF ResponseDone, serverVars, memberVars, chatVars
    <3>3. QED
      BY <1>7, <3>1, <3>2
  <2>2. QED
    BY <1>6, <2>1
<1>8. CASE HandleNewMember \/ HandleRenamedMember \/ HandleLeftMember
  <2>1. UNCHANGED <<needsName, title, table, member, pending, batch, timeline>>
    <3>1. CASE HandleNewMember
      BY <3>1 DEF HandleNewMember, Asserts, serverVars, syncVars, memberVars
    <3>2. CASE HandleRenamedMember
      BY <3>2 DEF HandleRenamedMember, Asserts, serverVars, syncVars, memberVars
    <3>3. CASE HandleLeftMember
      BY <3>3 DEF HandleLeftMember, Asserts, serverVars, syncVars, memberVars
    <3>4. QED
      BY <1>8, <3>1, <3>2, <3>3
  <2>2. QED
    BY <1>6, <2>1
<1>9. CASE UNCHANGED vars
  BY <1>6, <1>9 DEF vars, serverVars, syncVars, memberVars, chatVars
<1>10. ASSUME NEW u \in Users, NEW c \in MemberContent,
              ServerChanges([key |-> u, content |-> c])
       PROVE  Titled'
  <2>1. u # "m.room.aliases"
    BY NamesAreKeys DEF AllNameKeys
  <2>2. QED
    BY <1>1, <1>10, <2>1, ChangeIsEvent
<1>11. ASSUME NEW k \in NameKeys, NEW c \in Values \cup {None},
              ServerChanges([key |-> k, content |-> c])
       PROVE  Titled'
  <2>1. k # "m.room.aliases"
    BY NoAliases DEF NoAliases
  <2>2. QED
    BY <1>1, <1>11, <2>1, ChangeIsEvent
<1>12. QED
  BY <1>2, <1>3, <1>4, <1>5, <1>7, <1>8, <1>9, <1>10, <1>11 DEF Next

\* After each response the title is one that the room's state gives, provided
\* that nobody sets m.room.aliases, of which the code takes no notice.
THEOREM TitleFollows ==
  ASSUME NoAliases
  PROVE  Spec => []TitleCurrent
<1>1. Spec => []Titled
  BY AlwaysConsistent, InitTitled, NextTitled, PTL DEF Spec
<1>2. Consistent /\ Titled => TitleCurrent
  BY IdleTables DEF Titled, TitleCurrent
<1>3. QED
  BY <1>1, <1>2, AlwaysConsistent, PTL
=============================================================================
