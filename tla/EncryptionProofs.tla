-------------------------- MODULE EncryptionProofs --------------------------
(***************************************************************************)
(* Proofs about Encryption, for any number of devices, rooms, sessions,    *)
(* messages and restarts: no message to the device is decrypted twice, and *)
(* which messages can be missed.                                           *)
(***************************************************************************)
EXTENDS Encryption, TLAPS

-----------------------------------------------------------------------------
(* The invariant.                                                           *)

KeyAt(k)  == k \in 1..Len(stream) /\ stream[k].kind = "key"
Sender(k) == stream[k].session[1]

\* No position is ahead of the stream, nor of the response being handled.
Ordered ==
  /\ acked <= Len(stream) /\ since <= Len(stream) /\ upto <= Len(stream)
  /\ account.batch <= Len(stream) /\ disk.batch <= Len(stream)
  /\ phase \in {"answered", "device"} =>
       since <= acked /\ acked <= upto /\ account.batch <= upto
  /\ phase = "device" => \A k \in todo : KeyAt(k) /\ acked < k /\ k <= upto
  /\ phase # "device" => todo = {}

\* Whatever was decrypted is marked in the session that the database has, and
\* nothing else is; the sessions in memory are those of the database.
Moved ==
  \A k \in opened \cup lost :
    /\ KeyAt(k) /\ db[Sender(k)] # None
    /\ db[Sender(k)].session = stream[k].session /\ k \in db[Sender(k)].used
UsedOpened ==
  \A d \in Devices : db[d] # None =>
    db[d].session[1] = d /\ db[d].used \subseteq opened \cup lost
Cached == \A x \in memory : db[x.session[1]] = x

\* A one-time key is missing only if its device has a session.
KeysLeft ==
  \A s \in Sessions :
    (s \notin account.keys \/ s \notin disk.keys \/ (phase # "down" /\ s \notin oa))
      => db[s[1]] # None

\* Message k was decrypted, or its device has another session.
Handled(k) ==
  \/ k \in opened \cup lost
  \/ db[Sender(k)] # None /\ db[Sender(k)].session # stream[k].session
\* The messages to the device whose turn is past.
Past(k) ==
  \/ k <= acked \/ k <= account.batch \/ k <= disk.batch
  \/ phase # "down" /\ k <= since
  \/ phase = "device" /\ k <= upto /\ k \notin todo
AllHandled ==
  \A k \in 1..Len(stream) : stream[k].kind = "key" /\ Past(k) => Handled(k)

\* Rooms joined by the position p have their conversation.
Made(p) == \A r \in Rooms : JoinedBy(r, p) => r \in convs
RoomsMade ==
  /\ convs # {} => Made(account.batch)
  /\ phase \in {"waiting", "answered"} => full \/ since = 0 \/ Made(since)
  /\ phase = "device" => Made(upto)

\* The key of a room is the first that was decrypted on this connection.
KeysKept ==
  /\ \A d \in Devices, r \in Rooms : megolm[d][r] # 0 => megolm[d][r] \in opened
  /\ \A k \in opened : JoinedBy(stream[k].room, k) =>
       megolm[Sender(k)][stream[k].room] # 0 /\ megolm[Sender(k)][stream[k].room] <= k
  /\ phase = "down" => opened = {}
  /\ phase \in {"waiting", "answered"} => \A k \in opened : k <= since
  /\ phase = "device" => \A k \in opened : k <= upto /\ \A j \in todo : k < j

MissedAreMessages ==
  \A p \in missed : p \in 1..Len(stream) /\ stream[p].kind = "message"

Inv ==
  /\ TypeOK /\ Ordered /\ Moved /\ UsedOpened /\ Cached /\ KeysLeft /\ AllHandled
  /\ RoomsMade /\ KeysKept /\ MissedAreMessages /\ OpenedOnce /\ KeyedMessagesRead

-----------------------------------------------------------------------------
(* Types.                                                                   *)

LEMMA PositionsTyped == 0 \in 0..MaxSent /\ 0 \in 0..MaxTroubles
                        /\ Positions \subseteq 0..MaxSent
  BY BoundsAreNumbers DEF Positions

LEMMA NoKeysTyped == NoKeys \in [Devices -> [Rooms -> 0..MaxSent]]
  BY PositionsTyped DEF NoKeys

LEMMA NoneIsNoRatchet == None \notin Ratchet
<1> SUFFICES ASSUME None \in Ratchet PROVE FALSE
  OBVIOUS
<1>1. PICK s \in Sessions, u \in SUBSET (1..MaxSent) : None = [session |-> s, used |-> u]
  BY DEF Ratchet, Positions
<1>2. s[1] \in Devices
  BY DEF Sessions
<1>3. QED
  BY <1>1, <1>2, NoneIsNoSession

\* What the items of the stream are.
LEMMA ItemTyped ==
  ASSUME NEW x \in Item
  PROVE  /\ x.room \in Rooms
         /\ x.kind = "key" => x.session \in Sessions /\ x.session[1] \in Devices
         /\ x.kind = "message" => x.device \in Devices
         /\ x.kind \in {"join", "key", "message"}
  BY DEF Item, Sessions

LEMMA KeyTyped ==
  ASSUME TypeOK, NEW k \in 1..Len(stream), stream[k].kind = "key"
  PROVE  stream[k].session \in Sessions /\ stream[k].session[1] \in Devices
         /\ stream[k].room \in Rooms
<1>1. stream[k] \in Item
  BY DEF TypeOK
<1>2. QED
  BY <1>1, ItemTyped

LEMMA KnownTyped == TypeOK => \A d \in Devices : Known(d) \in SUBSET Ratchet
  BY DEF TypeOK, Known

LEMMA InitTyped == Init => TypeOK
<1> SUFFICES ASSUME Init PROVE TypeOK
  OBVIOUS
<1>1. account \in Settings /\ disk \in Settings
  <2>1. PICK b \in BOOLEAN : account = [batch |-> 0, keys |-> Sessions, skip |-> b]
    BY DEF Init
  <2>2. QED
    BY <2>1, PositionsTyped DEF Init, Settings
<1>2. stream \in Seq(Item) /\ Len(stream) <= MaxSent
  BY BoundsAreNumbers DEF Init
<1>3. QED
  BY <1>1, <1>2, PositionsTyped, NoKeysTyped DEF Init, TypeOK, Phases

LEMMA SentTyped ==
  ASSUME TypeOK, NEW x \in Item, Sent(x) PROVE TypeOK'
<1>1. stream' \in Seq(Item) /\ Len(stream') <= MaxSent
  BY BoundsAreNumbers DEF TypeOK, Sent
<1>2. QED
  BY <1>1 DEF TypeOK, Sent, syncVars, sessionVars, historyVars

KeepsTyped ==
  /\ memory \in SUBSET Ratchet /\ db \in [Devices -> Ratchet \cup {None}]
  /\ megolm \in [Devices -> [Rooms -> 0..MaxSent]]
  /\ account \in Settings /\ opened \in SUBSET Positions

\* What decrypt_olm leaves is typed.
LEMMA DecryptedTyped ==
  ASSUME TypeOK, NEW k \in Positions, NEW d \in Devices, NEW y \in Ratchet,
         NEW known \in SUBSET Ratchet, stream[k].room \in Rooms,
         oa' \in SUBSET Sessions, Decrypted(k, y, d, known)
  PROVE  KeepsTyped'
<1> DEFINE x == [y EXCEPT !.used = @ \cup {k}]
<1>1. x \in Ratchet
  BY DEF Ratchet
<1>2. memory' = ((memory \cup known) \ {y}) \cup {x} /\ db' = [db EXCEPT ![d] = x]
  BY DEF Decrypted, Updated
<1>3. memory' \in SUBSET Ratchet /\ db' \in [Devices -> Ratchet \cup {None}]
  BY <1>1, <1>2 DEF TypeOK
<1>4. megolm' \in [Devices -> [Rooms -> 0..MaxSent]]
  BY PositionsTyped DEF Decrypted, RoomKey, TypeOK
<1>5. account' \in Settings /\ opened' \in SUBSET Positions
  BY DEF Decrypted, Stored, TypeOK, Settings
<1>6. QED
  BY <1>3, <1>4, <1>5 DEF KeepsTyped

LEMMA CleanupTyped ==
  ASSUME TypeOK, Cleanup, Trouble, convs' \in SUBSET Rooms,
         account' \in Settings, disk' \in Settings,
         db' \in [Devices -> Ratchet \cup {None}]
  PROVE  TypeOK'
<1>1. troubles' \in 0..MaxTroubles
  BY BoundsAreNumbers DEF TypeOK, Trouble
<1>2. QED
  BY <1>1, NoKeysTyped DEF TypeOK, Cleanup, streamVars, Phases

\* The four outcomes of a message to the device.
Again(k)   == /\ \E y \in Known(Sender(k)) : y.session = stream[k].session /\ k \in y.used
              /\ oa' = oa /\ GivenUp(Known(Sender(k)))
Further(k) == \E y \in Known(Sender(k)) :
                /\ y.session = stream[k].session /\ k \notin y.used
                /\ oa' = oa /\ Decrypted(k, y, Sender(k), Known(Sender(k)))
First(k)   == /\ Begins(k)
              /\ oa' = oa \ {stream[k].session}
              /\ Decrypted(k, Fresh(k), Sender(k), Known(Sender(k)))
Refused(k) == /\ \A y \in Known(Sender(k)) : y.session # stream[k].session
              /\ ~Begins(k)
              /\ oa' = oa \ {stream[k].session}
              /\ GivenUp(Known(Sender(k)))

LEMMA Outcomes ==
  ASSUME NEW k \in todo, DeviceMessage(k)
  PROVE  Again(k) \/ Further(k) \/ First(k) \/ Refused(k)
  BY DEF DeviceMessage, Again, Further, First, Refused, Begins, Sender

LEMMA TodoKeys ==
  ASSUME TypeOK, Ordered, NEW k \in todo, phase = "device"
  PROVE  /\ KeyAt(k) /\ k \in Positions /\ stream[k].room \in Rooms
         /\ stream[k].session \in Sessions /\ Sender(k) \in Devices
  BY KeyTyped DEF Ordered, KeyAt, Sender, TypeOK

LEMMA DeviceMessageTyped ==
  ASSUME TypeOK, Ordered, NEW k \in todo, DeviceMessage(k) PROVE TypeOK'
<1> DEFINE d == Sender(k)
           known == Known(d)
<1>1. /\ KeyAt(k) /\ k \in Positions /\ stream[k].room \in Rooms
      /\ stream[k].session \in Sessions /\ d \in Devices
  BY TodoKeys DEF DeviceMessage, Turn
<1>2. known \in SUBSET Ratchet
  BY <1>1, KnownTyped
<1>3. oa' \in SUBSET Sessions
  BY DEF DeviceMessage, TypeOK
<1>4. KeepsTyped'
  <2>1. CASE GivenUp(known)
    BY <2>1, <1>2 DEF GivenUp, TypeOK, KeepsTyped
  <2>2. ASSUME NEW y \in Ratchet, Decrypted(k, y, d, known) PROVE KeepsTyped'
    BY <1>1, <1>2, <1>3, <2>2, DecryptedTyped
  <2>3. Fresh(k) \in Ratchet
    BY <1>1 DEF Ratchet, Fresh
  <2>4. QED
    BY <1>2, <2>1, <2>2, <2>3, Outcomes DEF Again, Further, First, Refused
<1>5. QED
  BY <1>3, <1>4 DEF DeviceMessage, TypeOK, streamVars, KeepsTyped

LEMMA NextTyped == TypeOK /\ Ordered /\ [Next]_vars => TypeOK'
<1> SUFFICES ASSUME TypeOK, Ordered, [Next]_vars PROVE TypeOK'
  OBVIOUS
<1> USE DEF streamVars, syncVars, sessionVars, historyVars
<1>1. ASSUME NEW r \in Rooms, RoomJoined(r) PROVE TypeOK'
  BY <1>1, SentTyped DEF RoomJoined, Item
<1>2. ASSUME NEW s \in Sessions, NEW r \in Rooms, KeyShared(s, r) PROVE TypeOK'
  BY <1>2, SentTyped DEF KeyShared, Item
<1>3. ASSUME NEW d \in Devices, NEW r \in Rooms, MessageSent(d, r) PROVE TypeOK'
  BY <1>3, SentTyped DEF MessageSent, Item
<1>4. CASE ServerResponds
  <2>1. Len(stream) \in 0..MaxSent
    BY BoundsAreNumbers DEF TypeOK
  <2>2. QED
    BY <1>4, <2>1 DEF TypeOK, ServerResponds, Phases
<1>5. CASE Connect
  BY <1>5, PositionsTyped DEF TypeOK, Connect, Restored, Phases, Settings
<1>6. CASE RoomsPass
  <2>1. todo' \in SUBSET Positions
    BY <1>6, BoundsAreNumbers DEF TypeOK, RoomsPass, Positions
  <2>2. QED
    BY <1>6, <2>1 DEF TypeOK, RoomsPass, Phases
<1>7. CASE TimelinePass
  <2>1. missed' \in SUBSET Positions
    BY <1>7, BoundsAreNumbers DEF TypeOK, TimelinePass, Positions
  <2>2. account' \in Settings
    BY <1>7 DEF TypeOK, TimelinePass, Settings
  <2>3. QED
    BY <1>7, <2>1, <2>2 DEF TypeOK, TimelinePass, Phases
<1>8. ASSUME NEW k \in todo, DeviceMessage(k) PROVE TypeOK'
  BY <1>8, DeviceMessageTyped
<1>9. CASE Disconnect
  BY <1>9, CleanupTyped DEF Disconnect, TypeOK
<1>10. CASE Save
  BY <1>10 DEF Save, TypeOK
<1>11. CASE Restart
  <2>1. ASSUME NEW k \in todo, Turn(k), db' = Updated(Fresh(k), stream[k].session[1])
        PROVE  db' \in [Devices -> Ratchet \cup {None}]
    BY <2>1, TodoKeys DEF Turn, Updated, Fresh, Ratchet, Sender, TypeOK
  <2>2. QED
    BY <1>11, <2>1, CleanupTyped DEF Restart, TypeOK
<1>12. CASE UNCHANGED vars
  BY <1>12 DEF vars, TypeOK
<1>13. QED
  BY <1>1, <1>2, <1>3, <1>4, <1>5, <1>6, <1>7, <1>8, <1>9, <1>10, <1>11, <1>12 DEF Next

-----------------------------------------------------------------------------
(* The order of the positions.                                              *)

\* What was sent stays where it is in the stream.
LEMMA SentKeeps ==
  ASSUME TypeOK, NEW x \in Item, Sent(x)
  PROVE  /\ Len(stream') = Len(stream) + 1
         /\ \A k \in 1..Len(stream) : stream'[k] = stream[k]
         /\ stream'[Len(stream) + 1] = x
         /\ Len(stream) \in Nat
  BY DEF TypeOK, Sent

LEMMA SentOrdered ==
  ASSUME TypeOK, Ordered, NEW x \in Item, Sent(x) PROVE Ordered'
<1>1. /\ Len(stream') = Len(stream) + 1 /\ Len(stream) \in Nat
      /\ \A k \in 1..Len(stream) : stream'[k] = stream[k]
  BY SentKeeps
<1>2. UNCHANGED <<acked, since, upto, account, disk, phase, todo>>
  BY DEF Sent, syncVars
<1>3. acked \in Nat /\ since \in Nat /\ upto \in Nat /\ account.batch \in Nat
      /\ disk.batch \in Nat
  BY DEF TypeOK, Settings
<1>4. QED
  BY <1>1, <1>2, <1>3 DEF Ordered, KeyAt

LEMMA CleanupOrdered ==
  ASSUME TypeOK, Ordered, Cleanup, account' \in {account, disk}, disk' = disk
  PROVE  Ordered'
  BY DEF Ordered, Cleanup, streamVars

LEMMA NextOrdered == TypeOK /\ Ordered /\ [Next]_vars => Ordered'
<1> SUFFICES ASSUME TypeOK, Ordered, [Next]_vars PROVE Ordered'
  OBVIOUS
<1> USE DEF streamVars, syncVars, sessionVars, historyVars
<1>0. /\ acked \in Nat /\ since \in Nat /\ upto \in Nat /\ account.batch \in Nat
      /\ disk.batch \in Nat /\ Len(stream) \in Nat
  BY DEF TypeOK, Settings
<1>1. ASSUME NEW r \in Rooms, RoomJoined(r) PROVE Ordered'
  BY <1>1, SentOrdered DEF RoomJoined, Item
<1>2. ASSUME NEW s \in Sessions, NEW r \in Rooms, KeyShared(s, r) PROVE Ordered'
  BY <1>2, SentOrdered DEF KeyShared, Item
<1>3. ASSUME NEW d \in Devices, NEW r \in Rooms, MessageSent(d, r) PROVE Ordered'
  BY <1>3, SentOrdered DEF MessageSent, Item
<1>4. CASE ServerResponds
  BY <1>0, <1>4 DEF Ordered, ServerResponds
<1>5. CASE Connect
  BY <1>0, <1>5 DEF Ordered, Connect
<1>6. CASE RoomsPass
  BY <1>0, <1>6 DEF Ordered, RoomsPass, KeyAt, TypeOK, Positions
<1>7. CASE TimelinePass
  <2>1. account'.batch = upto
    BY <1>7 DEF TimelinePass, TypeOK, Settings
  <2>2. QED
    BY <1>0, <1>7, <2>1 DEF Ordered, TimelinePass
<1>8. ASSUME NEW k \in todo, DeviceMessage(k) PROVE Ordered'
  <2>1. account'.batch = account.batch
    BY <1>8, Outcomes
    DEF TypeOK, Settings, Again, Further, First, Refused, Decrypted, Stored, GivenUp
  <2>2. QED
    BY <1>8, <2>1 DEF Ordered, DeviceMessage, KeyAt
<1>9. CASE Disconnect
  BY <1>9, CleanupOrdered DEF Disconnect
<1>10. CASE Save
  BY <1>10 DEF Save, Ordered, KeyAt
<1>11. CASE Restart
  BY <1>11, CleanupOrdered DEF Restart
<1>12. CASE UNCHANGED vars
  BY <1>12 DEF vars, Ordered, KeyAt
<1>13. QED
  BY <1>1, <1>2, <1>3, <1>4, <1>5, <1>6, <1>7, <1>8, <1>9, <1>10, <1>11, <1>12 DEF Next

LEMMA InitOrdered == Init => Ordered
<1> SUFFICES ASSUME Init PROVE Ordered
  OBVIOUS
<1>1. account.batch = 0 /\ disk = account
  BY DEF Init
<1>2. QED
  BY <1>1 DEF Init, Ordered, KeyAt

\* Types.  In particular every position that the plugin holds, in its
\* requests, its settings and its sessions, is one of the stream's.
THEOREM TypeCorrect == Spec => [](TypeOK /\ Ordered)
<1>1. Init => TypeOK /\ Ordered
  BY InitTyped, InitOrdered
<1>2. (TypeOK /\ Ordered) /\ [Next]_vars => (TypeOK /\ Ordered)'
  BY NextTyped, NextOrdered
<1>3. QED
  BY <1>1, <1>2, PTL DEF Spec

-----------------------------------------------------------------------------
(* No message is decrypted twice.                                           *)

ReadOnce == Moved /\ UsedOpened /\ Cached /\ OpenedOnce

\* What find_olm_session finds is what the database has.
LEMMA KnownIsStored ==
  ASSUME TypeOK, UsedOpened, Cached, NEW d \in Devices
  PROVE  /\ Known(d) = {db[d]} \ {None}
         /\ \A y \in Known(d) : y = db[d] /\ y # None /\ y.session[1] = d
<1> DEFINE cached == {x \in memory : x.session[1] = d}
<1>1. \A x \in cached : x = db[d] /\ x # None
  BY NoneIsNoRatchet DEF Cached, TypeOK
<1>2. Known(d) = IF cached # {} THEN cached ELSE {db[d]} \ {None}
  BY DEF Known
<1>3. Known(d) = {db[d]} \ {None}
  BY <1>1, <1>2
<1>4. QED
  BY <1>3 DEF UsedOpened

\* A message that is decrypted was not before, and goes to what the database
\* has of the device, if anything.
LEMMA DecryptedIsNew ==
  ASSUME TypeOK, Ordered, ReadOnce, NEW k \in todo, phase = "device",
         Further(k) \/ First(k)
  PROVE  /\ k \notin opened \cup lost
         /\ \E y \in Ratchet :
              /\ y.session = stream[k].session
              /\ y = db[Sender(k)] \/ (db[Sender(k)] = None /\ y.used = {})
              /\ Decrypted(k, y, Sender(k), {db[Sender(k)]} \ {None})
<1>1. Sender(k) \in Devices /\ stream[k].session \in Sessions
  BY TodoKeys
<1>2. /\ Known(Sender(k)) = {db[Sender(k)]} \ {None}
      /\ \A y \in Known(Sender(k)) : y = db[Sender(k)] /\ y # None
  BY <1>1, KnownIsStored DEF ReadOnce
<1>3. CASE Further(k)
  <2>1. PICK y \in Known(Sender(k)) :
          y.session = stream[k].session /\ k \notin y.used
          /\ Decrypted(k, y, Sender(k), Known(Sender(k)))
    BY <1>3 DEF Further
  <2>2. y = db[Sender(k)] /\ y \in Ratchet
    BY <1>1, <1>2 DEF TypeOK
  <2>3. QED
    BY <1>2, <2>1, <2>2 DEF ReadOnce, Moved
<1>4. CASE First(k)
  <2>1. Fresh(k) \in Ratchet /\ Fresh(k).session = stream[k].session /\ Fresh(k).used = {}
    BY <1>1 DEF Fresh, Ratchet
  <2>2. QED
    BY <1>2, <1>4, <2>1 DEF First, Begins, Sender, ReadOnce, Moved
<1>5. QED
  BY <1>3, <1>4

LEMMA DecryptedReadOnce ==
  ASSUME TypeOK, Ordered, ReadOnce, NEW k \in todo, phase = "device",
         NEW y \in Ratchet, y.session = stream[k].session,
         y = db[Sender(k)] \/ (db[Sender(k)] = None /\ y.used = {}),
         Decrypted(k, y, Sender(k), {db[Sender(k)]} \ {None}),
         k \notin opened \cup lost, UNCHANGED <<stream, lost>>
  PROVE  ReadOnce'
<1> DEFINE d == Sender(k)
           x == [y EXCEPT !.used = @ \cup {k}]
<1>1. KeyAt(k) /\ d \in Devices /\ d = stream[k].session[1]
  BY TodoKeys DEF Sender
<1>2. x \in Ratchet /\ x.session = y.session /\ x.used = y.used \cup {k} /\ x # None
  <2>1. k \in Positions
    BY DEF TypeOK
  <2>2. x \in Ratchet /\ x.session = y.session /\ x.used = y.used \cup {k}
    BY <2>1 DEF Ratchet
  <2>3. QED
    BY <2>2, NoneIsNoRatchet
<1>3. /\ memory' = ((memory \cup ({db[d]} \ {None})) \ {y}) \cup {x}
      /\ db' = [db EXCEPT ![d] = x] /\ opened' = opened \cup {k}
  BY DEF Decrypted, Updated
<1>4. db'[d] = x /\ \A e \in Devices : e # d => db'[e] = db[e]
  BY <1>1, <1>3 DEF TypeOK
<1> HIDE DEF x, d
<1>5. Moved'
  <2> SUFFICES ASSUME NEW j \in opened \cup lost \cup {k}
               PROVE  /\ KeyAt(j) /\ db'[Sender(j)] # None
                      /\ db'[Sender(j)].session = stream[j].session
                      /\ j \in db'[Sender(j)].used
    BY <1>3 DEF Moved, KeyAt, Sender
  <2>1. CASE j = k
    BY <1>1, <1>2, <1>4, <2>1 DEF d
  <2>2. CASE j \in opened \cup lost
    <3>1. /\ KeyAt(j) /\ db[Sender(j)] # None
          /\ db[Sender(j)].session = stream[j].session /\ j \in db[Sender(j)].used
      BY <2>2 DEF ReadOnce, Moved
    <3>2. Sender(j) \in Devices
      BY <3>1, KeyTyped DEF KeyAt, Sender
    <3>3. CASE Sender(j) = d
      <4>1. y = db[d]
        BY <3>1, <3>3 DEF d
      <4>2. QED
        BY <1>2, <1>4, <3>1, <3>3, <4>1
    <3>4. CASE Sender(j) # d
      BY <1>4, <3>1, <3>2, <3>4
    <3>5. QED
      BY <3>3, <3>4
  <2>3. QED
    BY <2>1, <2>2
<1>6. UsedOpened'
  <2> SUFFICES ASSUME NEW e \in Devices, db'[e] # None
               PROVE  db'[e].session[1] = e /\ db'[e].used \subseteq opened' \cup lost
    BY DEF UsedOpened
  <2>1. CASE e = d
    <3>1. y.used \subseteq opened \cup lost
      BY <1>1, <1>2, NoneIsNoRatchet DEF ReadOnce, UsedOpened, d
    <3>2. QED
      BY <1>1, <1>2, <1>3, <1>4, <2>1, <3>1
  <2>2. CASE e # d
    BY <1>3, <1>4, <2>2 DEF ReadOnce, UsedOpened
  <2>3. QED
    BY <2>1, <2>2
<1>7. Cached'
  <2> SUFFICES ASSUME NEW z \in memory' PROVE db'[z.session[1]] = z
    BY DEF Cached
  <2>1. CASE z = x
    BY <1>1, <1>2, <1>4, <2>1
  <2>2. CASE z # x
    <3>1. z \in memory \cup ({db[d]} \ {None}) /\ z # y
      BY <1>3, <2>2
    <3>2. z \in Ratchet /\ z # None
      BY <1>1, <3>1, NoneIsNoRatchet DEF TypeOK
    <3>3. db[z.session[1]] = z
      BY <1>1, <3>1 DEF ReadOnce, Cached, UsedOpened
    <3>4. z.session[1] \in Devices
      BY <3>2 DEF Ratchet, Sessions
    <3>5. z.session[1] # d
      BY <3>1, <3>2, <3>3 DEF d
    <3>6. QED
      BY <1>4, <3>3, <3>4, <3>5
  <2>3. QED
    BY <2>1, <2>2
<1>8. OpenedOnce'
  BY <1>3 DEF ReadOnce, OpenedOnce
<1>9. QED
  BY <1>5, <1>6, <1>7, <1>8 DEF ReadOnce

\* A step that leaves the sessions and the stream's past alone.
LEMMA KeepsReadOnce ==
  ASSUME TypeOK, Ordered, ReadOnce, UNCHANGED <<memory, db, opened, lost>>,
         Len(stream) <= Len(stream'), Len(stream') \in Nat,
         \A k \in 1..Len(stream) : stream'[k] = stream[k]
  PROVE  ReadOnce'
<1>1. Len(stream) \in Nat
  BY DEF TypeOK
<1>2. Moved'
  BY <1>1 DEF ReadOnce, Moved, KeyAt, Sender
<1>3. QED
  BY <1>2 DEF ReadOnce, UsedOpened, Cached, OpenedOnce

LEMMA GivenUpReadOnce ==
  ASSUME TypeOK, Ordered, ReadOnce, NEW d \in Devices, GivenUp(Known(d)),
         UNCHANGED <<stream, lost>>
  PROVE  ReadOnce'
<1>1. \A y \in Known(d) : y = db[d] /\ y # None /\ y.session[1] = d
  BY KnownIsStored DEF ReadOnce
<1>2. Cached'
  BY <1>1 DEF ReadOnce, Cached, GivenUp
<1>3. QED
  BY <1>2 DEF ReadOnce, Moved, KeyAt, Sender, UsedOpened, OpenedOnce, GivenUp

LEMMA DeviceMessageReadOnce ==
  ASSUME TypeOK, Ordered, ReadOnce, NEW k \in todo, DeviceMessage(k)
  PROVE  ReadOnce'
<1>1. phase = "device" /\ Sender(k) \in Devices /\ UNCHANGED <<stream, lost>>
  BY TodoKeys DEF DeviceMessage, Turn, streamVars
<1>2. CASE Further(k) \/ First(k)
  BY <1>1, <1>2, DecryptedIsNew, DecryptedReadOnce
<1>3. CASE Again(k) \/ Refused(k)
  BY <1>1, <1>3, GivenUpReadOnce DEF Again, Refused
<1>4. QED
  BY <1>2, <1>3, Outcomes

\* The database after the end of a connection or of the process: a session may
\* have been added for a device that had none.
Added(k) ==
  /\ KeyAt(k) /\ Sender(k) \in Devices /\ db[Sender(k)] = None
  /\ Fresh(k) \in Ratchet /\ Fresh(k).session = stream[k].session /\ Fresh(k).used = {}
  /\ db' = [db EXCEPT ![Sender(k)] = Fresh(k)]
Left == db' = db \/ \E k \in todo : Added(k)

LEMMA EndLeaves ==
  ASSUME TypeOK, Ordered, Disconnect \/ Restart
  PROVE  Left /\ Cleanup
<1>1. ASSUME NEW k \in todo, Turn(k), Begins(k),
             db' = Updated(Fresh(k), stream[k].session[1])
      PROVE  Left
  <2>1. KeyAt(k) /\ Sender(k) \in Devices /\ stream[k].session \in Sessions
    BY <1>1, TodoKeys DEF Turn
  <2>2. Fresh(k) \in Ratchet /\ Fresh(k).session = stream[k].session /\ Fresh(k).used = {}
    BY <2>1 DEF Fresh, Ratchet
  <2>3. QED
    BY <1>1, <2>1, <2>2 DEF Left, Added, Begins, Updated, Sender
<1>2. QED
  BY <1>1 DEF Disconnect, Restart, Left

LEMMA LeftSessions ==
  ASSUME TypeOK, Left
  PROVE  \A d \in Devices :
           \/ db'[d] = db[d]
           \/ /\ db[d] = None /\ db'[d] # None
              /\ db'[d].session[1] = d /\ db'[d].used = {}
<1>1. CASE db' = db
  BY <1>1
<1>2. CASE db' # db
  <2>1. PICK k \in todo : Added(k)
    BY <1>2 DEF Left
  <2>2. Fresh(k) # None
    BY <2>1, NoneIsNoRatchet DEF Added
  <2>3. db'[Sender(k)] = Fresh(k) /\ \A d \in Devices : d # Sender(k) => db'[d] = db[d]
    BY <2>1 DEF Added, TypeOK
  <2>4. QED
    BY <2>1, <2>2, <2>3 DEF Added, Sender
<1>3. QED
  BY <1>1, <1>2

LEMMA EndReadOnce ==
  ASSUME TypeOK, Ordered, ReadOnce, Disconnect \/ Restart
  PROVE  ReadOnce'
<1>1. /\ memory' = {} /\ opened' = {} /\ lost' = lost \cup opened /\ stream' = stream
      /\ Left
  BY EndLeaves DEF Cleanup, streamVars
<1>2. \A d \in Devices :
        \/ db'[d] = db[d]
        \/ /\ db[d] = None /\ db'[d] # None
           /\ db'[d].session[1] = d /\ db'[d].used = {}
  BY <1>1, LeftSessions
<1>3. Moved'
  <2>1. \A k \in opened \cup lost : KeyAt(k) /\ Sender(k) \in Devices
    BY KeyTyped DEF ReadOnce, Moved, KeyAt, Sender
  <2>2. QED
    BY <1>1, <1>2, <2>1 DEF ReadOnce, Moved, KeyAt, Sender
<1>4. UsedOpened'
  BY <1>1, <1>2 DEF ReadOnce, UsedOpened
<1>5. QED
  BY <1>1, <1>3, <1>4 DEF ReadOnce, Cached, OpenedOnce

LEMMA SentReadOnce ==
  ASSUME TypeOK, Ordered, ReadOnce, NEW x \in Item, Sent(x)
  PROVE  ReadOnce'
<1>1. UNCHANGED <<memory, db, opened, lost>>
  BY DEF Sent, sessionVars, historyVars
<1>2. QED
  BY <1>1, SentKeeps, KeepsReadOnce

LEMMA NextReadOnce == TypeOK /\ Ordered /\ ReadOnce /\ [Next]_vars => ReadOnce'
<1> SUFFICES ASSUME TypeOK, Ordered, ReadOnce, [Next]_vars PROVE ReadOnce'
  OBVIOUS
<1>0. Len(stream) \in Nat
  BY DEF TypeOK
<1>1. ASSUME NEW r \in Rooms, RoomJoined(r) PROVE ReadOnce'
  BY <1>1, SentReadOnce DEF RoomJoined, Item
<1>2. ASSUME NEW s \in Sessions, NEW r \in Rooms, KeyShared(s, r) PROVE ReadOnce'
  BY <1>2, SentReadOnce DEF KeyShared, Item
<1>3. ASSUME NEW d \in Devices, NEW r \in Rooms, MessageSent(d, r) PROVE ReadOnce'
  BY <1>3, SentReadOnce DEF MessageSent, Item
<1>4. CASE ServerResponds \/ Connect \/ RoomsPass \/ TimelinePass \/ Save \/ UNCHANGED vars
  <2>1. UNCHANGED <<stream, memory, db, opened, lost>>
    BY <1>4 DEF ServerResponds, Connect, RoomsPass, TimelinePass, Save, vars,
                streamVars, sessionVars, historyVars
  <2>2. QED
    BY <1>0, <2>1, KeepsReadOnce
<1>5. ASSUME NEW k \in todo, DeviceMessage(k) PROVE ReadOnce'
  BY <1>5, DeviceMessageReadOnce
<1>6. CASE Disconnect \/ Restart
  BY <1>6, EndReadOnce
<1>7. QED
  BY <1>1, <1>2, <1>3, <1>4, <1>5, <1>6 DEF Next

LEMMA InitReadOnce == Init => ReadOnce
  BY DEF Init, ReadOnce, Moved, UsedOpened, Cached, OpenedOnce

\* No message to the device is decrypted a second time, whatever the settings
\* were when it was restarted: decrypt_olm updates the database before anything
\* else is kept, and the session there knows what it has decrypted.
THEOREM NothingOpenedTwice == Spec => []OpenedOnce
<1>1. Init => TypeOK /\ Ordered /\ ReadOnce
  BY InitTyped, InitOrdered, InitReadOnce
<1>2. (TypeOK /\ Ordered /\ ReadOnce) /\ [Next]_vars => (TypeOK /\ Ordered /\ ReadOnce)'
  BY NextTyped, NextOrdered, NextReadOnce
<1>3. ReadOnce => OpenedOnce
  BY DEF ReadOnce
<1>4. QED
  BY <1>1, <1>2, <1>3, PTL DEF Spec

-----------------------------------------------------------------------------
(* Every message to the device that is past was handled.                    *)

Base == TypeOK /\ Ordered /\ ReadOnce

\* The past of the stream and what was decrypted stay, and so does a session
\* that is in the database.
Grows ==
  /\ Len(stream) <= Len(stream') /\ Len(stream') \in Nat /\ Len(stream) \in Nat
  /\ \A k \in 1..Len(stream) : stream'[k] = stream[k]
  /\ opened \cup lost \subseteq opened' \cup lost' /\ lost \subseteq lost'
  /\ \A d \in Devices : db[d] # None =>
       db'[d] # None /\ db'[d].session = db[d].session

LEMMA SentGrows == ASSUME Base, NEW x \in Item, Sent(x) PROVE Grows
<1>1. UNCHANGED <<db, opened, lost>>
  BY DEF Sent, sessionVars, historyVars
<1>2. QED
  BY <1>1, SentKeeps DEF Base, Grows

LEMMA DecryptedGrows ==
  ASSUME Base, NEW k \in todo, phase = "device", Further(k) \/ First(k),
         UNCHANGED <<stream, lost>>
  PROVE  /\ Grows /\ opened' = opened \cup {k}
         /\ db'[Sender(k)] # None
         /\ RoomKey(k, Sender(k), stream[k].room)
         /\ account' = Stored(oa')
<1> DEFINE d == Sender(k)
<1>1. d \in Devices /\ k \in Positions
  BY TodoKeys DEF Base
<1>2. PICK y \in Ratchet :
        /\ y.session = stream[k].session
        /\ y = db[d] \/ (db[d] = None /\ y.used = {})
        /\ Decrypted(k, y, d, {db[d]} \ {None})
  BY DecryptedIsNew DEF Base
<1> DEFINE x == [y EXCEPT !.used = @ \cup {k}]
<1>3. x \in Ratchet /\ x.session = y.session
  BY <1>1 DEF Ratchet
<1>4. /\ db' = [db EXCEPT ![d] = x] /\ opened' = opened \cup {k}
      /\ RoomKey(k, d, stream[k].room) /\ account' = Stored(oa')
  BY <1>2 DEF Decrypted, Updated
<1>5. x # None
  BY <1>3, NoneIsNoRatchet
<1> HIDE DEF x
<1>6. db'[d] = x /\ \A e \in Devices : e # d => db'[e] = db[e]
  BY <1>1, <1>4 DEF Base, TypeOK
<1>7. Len(stream) \in Nat
  BY DEF Base, TypeOK
<1>8. \A e \in Devices : db[e] # None => db'[e] # None /\ db'[e].session = db[e].session
  BY <1>2, <1>3, <1>5, <1>6
<1>9. QED
  BY <1>4, <1>5, <1>6, <1>7, <1>8 DEF Grows

LEMMA StepGrows == Base /\ [Next]_vars => Grows
<1> SUFFICES ASSUME Base, [Next]_vars PROVE Grows
  OBVIOUS
<1>0. Len(stream) \in Nat
  BY DEF Base, TypeOK
<1>1. ASSUME NEW r \in Rooms, RoomJoined(r) PROVE Grows
  BY <1>1, SentGrows DEF RoomJoined, Item
<1>2. ASSUME NEW s \in Sessions, NEW r \in Rooms, KeyShared(s, r) PROVE Grows
  BY <1>2, SentGrows DEF KeyShared, Item
<1>3. ASSUME NEW d \in Devices, NEW r \in Rooms, MessageSent(d, r) PROVE Grows
  BY <1>3, SentGrows DEF MessageSent, Item
<1>4. CASE ServerResponds \/ Connect \/ RoomsPass \/ TimelinePass \/ Save \/ UNCHANGED vars
  <2>1. UNCHANGED <<stream, db, opened, lost>>
    BY <1>4 DEF ServerResponds, Connect, RoomsPass, TimelinePass, Save, vars,
                streamVars, sessionVars, historyVars
  <2>2. QED
    BY <1>0, <2>1 DEF Grows
<1>5. ASSUME NEW k \in todo, DeviceMessage(k) PROVE Grows
  <2>1. phase = "device" /\ UNCHANGED <<stream, lost>>
    BY <1>5 DEF DeviceMessage, Turn, streamVars
  <2>2. CASE Again(k) \/ Refused(k)
    BY <1>0, <2>1, <2>2 DEF Again, Refused, GivenUp, Grows
  <2>3. QED
    BY <1>5, <2>1, <2>2, Outcomes, DecryptedGrows
<1>6. CASE Disconnect \/ Restart
  <2>1. stream' = stream /\ opened' = {} /\ lost' = lost \cup opened /\ Left
    BY <1>6, EndLeaves DEF Base, Cleanup, streamVars
  <2>2. \A d \in Devices : db[d] # None => db'[d] = db[d]
    BY <2>1, LeftSessions DEF Base
  <2>3. QED
    BY <1>0, <2>1, <2>2 DEF Grows
<1>7. QED
  BY <1>1, <1>2, <1>3, <1>4, <1>5, <1>6 DEF Next

\* What was handled stays so.
LEMMA StaysHandled ==
  ASSUME Base, Grows, NEW k \in 1..Len(stream), stream[k].kind = "key", Handled(k)
  PROVE  Handled(k)'
<1>1. stream'[k] = stream[k] /\ Sender(k) \in Devices
  BY KeyTyped DEF Grows, Base, Sender
<1>2. Sender(k)' = Sender(k)
  BY <1>1 DEF Sender
<1>3. QED
  BY <1>1, <1>2 DEF Handled, Grows

\* The message at the head is handled: if it is not decrypted then its device
\* has another session, for a one-time key that is gone went with a session.
LEMMA DeviceMessageHandles ==
  ASSUME Base, KeysLeft, NEW k \in todo, DeviceMessage(k)
  PROVE  Handled(k)'
<1>1. /\ phase = "device" /\ UNCHANGED <<stream, lost>>
      /\ Sender(k) \in Devices /\ stream[k].session \in Sessions
  BY TodoKeys DEF DeviceMessage, Turn, streamVars, Base
<1>2. /\ Known(Sender(k)) = {db[Sender(k)]} \ {None}
      /\ \A y \in Known(Sender(k)) : y = db[Sender(k)] /\ y # None
  BY <1>1, KnownIsStored DEF Base, ReadOnce
<1>3. CASE Further(k) \/ First(k)
  BY <1>1, <1>3, DecryptedGrows DEF Handled
<1>4. CASE Again(k)
  <2>1. k \in opened \cup lost
    BY <1>1, <1>2, <1>4 DEF Again, Base, ReadOnce, UsedOpened
  <2>2. QED
    BY <1>1, <1>4, <2>1 DEF Again, GivenUp, Handled
<1>5. CASE Refused(k)
  <2>1. db[Sender(k)] # None
    BY <1>1, <1>5 DEF Refused, Begins, KeysLeft, Sender
  <2>2. db[Sender(k)].session # stream[k].session
    BY <1>2, <1>5, <2>1 DEF Refused
  <2>3. QED
    BY <1>1, <1>5, <2>1, <2>2 DEF Refused, GivenUp, Handled, Sender
<1>6. QED
  BY <1>3, <1>4, <1>5, Outcomes

LEMMA DeviceMessageSettings ==
  ASSUME TypeOK, NEW k \in todo, DeviceMessage(k)
  PROVE  /\ account'.batch = account.batch
         /\ account'.keys \in {account.keys, oa'}
         /\ oa' = oa \/ oa' = oa \ {stream[k].session}
  BY Outcomes DEF TypeOK, Settings, Again, Further, First, Refused, Decrypted, Stored, GivenUp

LEMMA NextKeysLeft == Base /\ KeysLeft /\ [Next]_vars => KeysLeft'
<1> SUFFICES ASSUME Base, KeysLeft, [Next]_vars,
                    NEW s \in Sessions,
                    s \notin account'.keys \/ s \notin disk'.keys
                      \/ (phase' # "down" /\ s \notin oa')
             PROVE  db'[s[1]] # None
  BY DEF KeysLeft
<1> USE DEF streamVars, syncVars, sessionVars
<1>0. /\ s[1] \in Devices /\ (db[s[1]] # None => db'[s[1]] # None)
      /\ account.keys \subseteq Sessions /\ TypeOK
  BY StepGrows DEF Grows, Sessions, Base, TypeOK, Settings
<1>1. CASE \/ s \notin account.keys \/ s \notin disk.keys
           \/ phase # "down" /\ s \notin oa
  BY <1>0, <1>1 DEF KeysLeft
<1>2. CASE /\ s \in account.keys /\ s \in disk.keys
           /\ phase = "down" \/ s \in oa
  <2>1. ~(\E r \in Rooms : RoomJoined(r)) /\ ~(\E d \in Devices, r \in Rooms : MessageSent(d, r))
        /\ ~(\E q \in Sessions, r \in Rooms : KeyShared(q, r))
    BY <1>2 DEF Sent, RoomJoined, MessageSent, KeyShared
  <2>2. ~ServerResponds /\ ~RoomsPass /\ ~UNCHANGED vars
    BY <1>2 DEF ServerResponds, RoomsPass, vars
  <2>3. ~Connect
    BY <1>2 DEF Connect, Restored
  <2>4. ~TimelinePass
    <3>1. ASSUME TimelinePass PROVE account'.keys = account.keys
      BY <1>0, <3>1 DEF TimelinePass, TypeOK, Settings
    <3>2. QED
      BY <1>2, <3>1 DEF TimelinePass
  <2>5. ~Save
    BY <1>2 DEF Save
  <2>6. ~Disconnect /\ ~Restart
    BY <1>2 DEF Disconnect, Restart, Cleanup
  <2>7. PICK k \in todo : DeviceMessage(k)
    BY <2>1, <2>2, <2>3, <2>4, <2>5, <2>6 DEF Next
  <2>8. phase = "device" /\ disk' = disk /\ UNCHANGED <<stream, lost>>
    BY <2>7 DEF DeviceMessage, Turn
  <2>9. s = stream[k].session
    BY <1>0, <1>2, <2>7, <2>8, DeviceMessageSettings
  <2>10. CASE First(k) \/ Further(k)
    BY <2>8, <2>9, <2>10, DecryptedGrows DEF Sender
  <2>11. CASE Again(k)
    BY <1>2, <2>8, <2>9, <2>11 DEF Again, GivenUp
  <2>12. CASE Refused(k)
    BY <1>0, <1>2, <2>8, <2>9, <2>12 DEF Refused, Begins, Sender
  <2>13. QED
    BY <2>7, <2>10, <2>11, <2>12, Outcomes
<1>3. QED
  BY <1>1, <1>2

LEMMA PastOfStream == TypeOK /\ Ordered => \A k \in Nat : Past(k) => k <= Len(stream)
  BY DEF Past, Ordered, TypeOK, Settings

\* Only what is handled becomes past.
LEMMA PastGrows ==
  ASSUME Base, [Next]_vars, NEW k \in 1..Len(stream), stream[k].kind = "key", Past(k)'
  PROVE  Past(k) \/ (k \in todo /\ DeviceMessage(k))
<1> USE DEF streamVars, syncVars, sessionVars
<1>0. /\ acked \in Nat /\ since \in Nat /\ upto \in Nat /\ account.batch \in Nat
      /\ disk.batch \in Nat /\ Len(stream) \in Nat /\ TypeOK /\ Ordered
  BY DEF Base, TypeOK, Settings
<1>1. CASE UNCHANGED <<acked, account, disk, phase, since, upto, todo>>
  BY <1>1 DEF Past
<1>2. CASE ServerResponds
  BY <1>0, <1>2 DEF ServerResponds, Past
<1>3. CASE Connect
  BY <1>0, <1>3 DEF Connect, Past
<1>4. CASE RoomsPass
  BY <1>0, <1>4 DEF RoomsPass, Past
<1>5. CASE TimelinePass
  <2>1. account'.batch = upto
    BY <1>0, <1>5 DEF TimelinePass, TypeOK, Settings
  <2>2. QED
    BY <1>0, <1>5, <2>1 DEF TimelinePass, Past, Ordered
<1>6. ASSUME NEW j \in todo, DeviceMessage(j) PROVE Past(k) \/ (k \in todo /\ DeviceMessage(k))
  <2>1. account'.batch = account.batch
    BY <1>0, <1>6, DeviceMessageSettings
  <2>2. QED
    BY <1>0, <1>6, <2>1 DEF DeviceMessage, Past
<1>7. CASE Save
  BY <1>7 DEF Save, Past
<1>8. CASE Disconnect
  BY <1>8 DEF Disconnect, Cleanup, Past
<1>9. CASE Restart
  BY <1>9 DEF Restart, Cleanup, Past
<1>10. QED
  BY <1>1, <1>2, <1>3, <1>4, <1>5, <1>6, <1>7, <1>8, <1>9
  DEF Next, RoomJoined, KeyShared, MessageSent, Sent, vars

LEMMA NextAllHandled == Base /\ KeysLeft /\ AllHandled /\ [Next]_vars => AllHandled'
<1> SUFFICES ASSUME Base, KeysLeft, AllHandled, [Next]_vars,
                    NEW k \in 1..Len(stream'), stream'[k].kind = "key", Past(k)'
             PROVE  Handled(k)'
  BY DEF AllHandled
<1>1. Grows /\ TypeOK /\ Ordered /\ (TypeOK /\ Ordered)'
  BY StepGrows, NextTyped, NextOrdered DEF Base
<1>2. k \in 1..Len(stream)
  <2>1. CASE k <= Len(stream)
    BY <1>1, <2>1 DEF Grows
  <2>2. CASE stream' # stream
    <3>1. UNCHANGED <<acked, syncVars, account, disk>>
      BY <2>2 DEF Next, RoomJoined, KeyShared, MessageSent, Sent, ServerResponds, Connect,
           RoomsPass, TimelinePass, DeviceMessage, Disconnect, Restart, Save, Cleanup,
           streamVars, vars
    <3>2. Past(k)
      BY <3>1 DEF Past, syncVars
    <3>3. QED
      BY <1>1, <3>2, PastOfStream, <2>1
  <2>3. QED
    BY <2>1, <2>2
<1>3. stream[k].kind = "key"
  BY <1>1, <1>2 DEF Grows
<1>4. Past(k) \/ (k \in todo /\ DeviceMessage(k))
  BY <1>2, <1>3, PastGrows
<1>5. CASE Past(k)
  <2>1. Handled(k)
    BY <1>2, <1>3, <1>5 DEF AllHandled
  <2>2. QED
    BY <1>1, <1>2, <1>3, <2>1, StaysHandled
<1>6. CASE k \in todo /\ DeviceMessage(k)
  BY <1>6, DeviceMessageHandles
<1>7. QED
  BY <1>4, <1>5, <1>6

-----------------------------------------------------------------------------
(* Conversations are made before keys are handled.                          *)

\* What was joined by a position of the stream stays so.
LEMMA JoinedStays ==
  ASSUME Grows, NEW r, NEW p \in Nat, p <= Len(stream)
  PROVE  JoinedBy(r, p)' <=> JoinedBy(r, p)
  BY DEF Grows, JoinedBy

LEMMA SentRoomsMade ==
  ASSUME Base, RoomsMade, NEW x \in Item, Sent(x) PROVE RoomsMade'
<1>1. /\ account.batch \in Nat /\ since \in Nat /\ upto \in Nat
      /\ account.batch <= Len(stream) /\ since <= Len(stream) /\ upto <= Len(stream)
  BY DEF Base, TypeOK, Settings, Ordered
<1>2. UNCHANGED <<account, since, upto, full, convs, phase>>
  BY DEF Sent, syncVars
<1>3. ASSUME NEW p \in Nat, p <= Len(stream), p' = p, Made(p) PROVE Made(p)'
  BY <1>2, <1>3, SentGrows, JoinedStays DEF Made
<1>4. QED
  BY <1>1, <1>2, <1>3, SentGrows, JoinedStays DEF RoomsMade, Made

LEMMA RoomsPassMakes ==
  ASSUME Base, RoomsMade, RoomsPass PROVE Made(upto)' /\ Made(account.batch)'
<1> USE DEF streamVars
<1>1. /\ account.batch \in Nat /\ since \in Nat /\ upto \in Nat /\ account.batch <= upto
      /\ upto <= Len(stream) /\ Len(stream) \in Nat /\ since <= upto /\ acked \in Nat
  BY DEF Base, TypeOK, Settings, Ordered, RoomsPass
<1>2. /\ convs' = convs \cup {r \in Rooms : InReply(r)}
      /\ UNCHANGED <<stream, account, upto>>
      /\ full \/ since = 0 \/ Made(since)
  BY DEF RoomsPass, RoomsMade
<1>3. ASSUME NEW r \in Rooms, JoinedBy(r, upto) PROVE r \in convs'
  <2>1. CASE full \/ since = 0
    BY <1>2, <1>3, <2>1 DEF InReply
  <2>2. CASE Made(since)
    <3>1. PICK k \in 1..upto : stream[k] = [kind |-> "join", room |-> r]
      BY <1>3 DEF JoinedBy
    <3>2. CASE k <= since
      BY <1>1, <1>2, <2>2, <3>1, <3>2 DEF Made, JoinedBy
    <3>3. CASE k > since
      <4>1. k \in since + 1..upto /\ stream[k].kind # "key" /\ stream[k].room = r
        BY <1>1, <3>1, <3>3
      <4>2. InReply(r)
        BY <1>3, <4>1 DEF InReply
      <4>3. QED
        BY <1>2, <4>2
    <3>4. QED
      BY <1>1, <3>2, <3>3
  <2>3. QED
    BY <1>2, <2>1, <2>2
<1>4. QED
  BY <1>1, <1>2, <1>3 DEF Made, JoinedBy

LEMMA NextRoomsMade == Base /\ RoomsMade /\ [Next]_vars => RoomsMade'
<1> SUFFICES ASSUME Base, RoomsMade, [Next]_vars PROVE RoomsMade'
  OBVIOUS
<1> USE DEF streamVars, syncVars, sessionVars
<1>1. ASSUME NEW r \in Rooms, RoomJoined(r) PROVE RoomsMade'
  BY <1>1, SentRoomsMade DEF RoomJoined, Item
<1>2. ASSUME NEW s \in Sessions, NEW r \in Rooms, KeyShared(s, r) PROVE RoomsMade'
  BY <1>2, SentRoomsMade DEF KeyShared, Item
<1>3. ASSUME NEW d \in Devices, NEW r \in Rooms, MessageSent(d, r) PROVE RoomsMade'
  BY <1>3, SentRoomsMade DEF MessageSent, Item
<1>4. CASE ServerResponds
  BY <1>4 DEF ServerResponds, RoomsMade, Made, JoinedBy
<1>5. CASE Connect
  <2>1. account.batch \in Nat
    BY DEF Base, TypeOK, Settings
  <2>2. QED
    BY <1>5, <2>1 DEF Connect, RoomsMade, Made, JoinedBy
<1>6. CASE RoomsPass
  BY <1>6, RoomsPassMakes DEF RoomsPass, RoomsMade
<1>7. CASE TimelinePass
  <2>1. account'.batch = upto
    BY <1>7 DEF TimelinePass, Base, TypeOK, Settings
  <2>2. QED
    BY <1>7, <2>1 DEF TimelinePass, RoomsMade, Made, JoinedBy
<1>8. ASSUME NEW k \in todo, DeviceMessage(k) PROVE RoomsMade'
  <2>1. account'.batch = account.batch
    BY <1>8, DeviceMessageSettings DEF Base
  <2>2. QED
    BY <1>8, <2>1 DEF DeviceMessage, RoomsMade, Made, JoinedBy
<1>9. CASE Disconnect
  BY <1>9 DEF Disconnect, Cleanup, RoomsMade, Made, JoinedBy
<1>10. CASE Save \/ UNCHANGED vars
  BY <1>10 DEF Save, RoomsMade, Made, JoinedBy, vars
<1>11. CASE Restart
  BY <1>11 DEF Restart, Cleanup, RoomsMade
<1>12. QED
  BY <1>1, <1>2, <1>3, <1>4, <1>5, <1>6, <1>7, <1>8, <1>9, <1>10, <1>11 DEF Next

-----------------------------------------------------------------------------
(* The key of a room is the first that was decrypted.                       *)

LEMMA SentKeysKept ==
  ASSUME Base, KeysKept, NEW x \in Item, Sent(x) PROVE KeysKept'
<1>1. Grows /\ UNCHANGED <<syncVars, opened, megolm>>
  BY SentGrows DEF Sent, historyVars, sessionVars
<1>2. \A k \in opened : k \in 1..Len(stream) /\ k \in Nat
  BY DEF Base, ReadOnce, Moved, KeyAt
<1>3. ASSUME NEW k \in opened, JoinedBy(stream[k].room, k)'
      PROVE  /\ megolm[Sender(k)'][stream'[k].room] # 0
             /\ megolm[Sender(k)'][stream'[k].room] <= k
  <2>1. stream'[k] = stream[k] /\ k \in Nat /\ k <= Len(stream)
    BY <1>1, <1>2 DEF Grows
  <2>2. JoinedBy(stream[k].room, k)
    <3>1. PICK i \in 1..k : stream'[i] = [kind |-> "join", room |-> stream'[k].room]
      BY <1>3 DEF JoinedBy
    <3>2. stream'[i] = stream[i]
      BY <1>1, <2>1 DEF Grows
    <3>3. QED
      BY <2>1, <3>1, <3>2 DEF JoinedBy
  <2>3. QED
    BY <2>1, <2>2 DEF KeysKept, Sender
<1>4. UNCHANGED <<opened, megolm, phase, since, upto, todo>>
  BY <1>1 DEF syncVars
<1>5. /\ \A d \in Devices, r \in Rooms : megolm'[d][r] # 0 => megolm'[d][r] \in opened'
      /\ \A k \in opened' : JoinedBy(stream[k].room, k)' =>
           megolm'[Sender(k)'][stream'[k].room] # 0 /\ megolm'[Sender(k)'][stream'[k].room] <= k
  BY <1>3, <1>4 DEF KeysKept
<1>6. QED
  BY <1>4, <1>5 DEF KeysKept, Sender, JoinedBy

LEMMA DecryptedKeysKept ==
  ASSUME Base, RoomsMade, KeysKept, NEW k \in todo, DeviceMessage(k),
         Further(k) \/ First(k)
  PROVE  KeysKept'
<1> DEFINE d == Sender(k)
           r == stream[k].room
<1>1. /\ phase = "device" /\ \A j \in todo : k <= j
      /\ todo' = todo \ {k} /\ UNCHANGED <<stream, phase, upto, since, convs, lost>>
  BY DEF DeviceMessage, Turn, streamVars
<1>2. opened' = opened \cup {k} /\ RoomKey(k, d, r)
  BY <1>1, DecryptedGrows
<1>3. d \in Devices /\ r \in Rooms /\ k \in Nat /\ k # 0 /\ k <= upto /\ upto \in Nat
  BY <1>1, TodoKeys DEF Base, Ordered, TypeOK, Positions
<1>4. /\ \A j \in opened : j <= upto /\ j \in Nat /\ \A i \in todo : j < i
      /\ \A i \in todo : i \in Nat
  BY <1>1 DEF KeysKept, Base, TypeOK, Positions
<1>5. megolm \in [Devices -> [Rooms -> 0..MaxSent]]
  BY DEF Base, TypeOK
<1>6. JoinedBy(r, k) => r \in convs
  <2>1. ASSUME JoinedBy(r, k) PROVE JoinedBy(r, upto)
    BY <1>3, <2>1 DEF JoinedBy
  <2>2. QED
    BY <1>1, <1>3, <2>1 DEF RoomsMade, Made
<1>7. /\ megolm'[d][r] = IF r \in convs /\ megolm[d][r] = 0 THEN k ELSE megolm[d][r]
      /\ \A e \in Devices, q \in Rooms : e # d \/ q # r => megolm'[e][q] = megolm[e][q]
  BY <1>2, <1>3, <1>5 DEF RoomKey
<1> HIDE DEF d, r
<1>8. ASSUME NEW e \in Devices, NEW q \in Rooms, megolm'[e][q] # 0
      PROVE  megolm'[e][q] \in opened'
  BY <1>2, <1>7, <1>8 DEF KeysKept
<1>9. ASSUME NEW j \in opened', JoinedBy(stream[j].room, j)
      PROVE  megolm'[Sender(j)][stream[j].room] # 0
             /\ megolm'[Sender(j)][stream[j].room] <= j
  <2>1. CASE j = k
    <3>1. megolm[d][r] # 0 => megolm[d][r] < k
      BY <1>3, <1>4 DEF KeysKept
    <3>2. megolm'[d][r] # 0 /\ megolm'[d][r] <= k
      BY <1>3, <1>5, <1>6, <1>7, <1>9, <2>1, <3>1 DEF r
    <3>3. QED
      BY <2>1, <3>2 DEF d, r
  <2>2. CASE j \in opened
    <3>1. megolm[Sender(j)][stream[j].room] # 0 /\ megolm[Sender(j)][stream[j].room] <= j
      BY <1>9, <2>2 DEF KeysKept
    <3>2. Sender(j) \in Devices /\ stream[j].room \in Rooms
      BY <2>2, KeyTyped DEF Base, ReadOnce, Moved, KeyAt, Sender
    <3>3. QED
      BY <1>7, <3>1, <3>2
  <2>3. QED
    BY <1>2, <2>1, <2>2
<1>10. \A j \in opened' : j <= upto /\ \A i \in todo' : j < i
  BY <1>1, <1>2, <1>3, <1>4
<1>11. QED
  BY <1>1, <1>8, <1>9, <1>10 DEF KeysKept, Sender, JoinedBy

LEMMA NextKeysKept == Base /\ RoomsMade /\ KeysKept /\ [Next]_vars => KeysKept'
<1> SUFFICES ASSUME Base, RoomsMade, KeysKept, [Next]_vars PROVE KeysKept'
  OBVIOUS
<1> USE DEF streamVars, syncVars, sessionVars, historyVars
<1>0. /\ acked \in Nat /\ since \in Nat /\ upto \in Nat /\ TypeOK /\ Ordered
      /\ opened \subseteq Nat
  BY DEF Base, TypeOK, Positions
<1>1. ASSUME NEW r \in Rooms, RoomJoined(r) PROVE KeysKept'
  BY <1>1, SentKeysKept DEF RoomJoined, Item
<1>2. ASSUME NEW s \in Sessions, NEW r \in Rooms, KeyShared(s, r) PROVE KeysKept'
  BY <1>2, SentKeysKept DEF KeyShared, Item
<1>3. ASSUME NEW d \in Devices, NEW r \in Rooms, MessageSent(d, r) PROVE KeysKept'
  BY <1>3, SentKeysKept DEF MessageSent, Item
<1>4. CASE ServerResponds \/ Save \/ UNCHANGED vars
  BY <1>4 DEF ServerResponds, Save, vars, KeysKept, Sender, JoinedBy
<1>5. CASE Connect
  BY <1>5 DEF Connect, KeysKept, Sender, JoinedBy
<1>6. CASE RoomsPass
  <2>1. \A k \in opened : k <= since
    BY <1>6 DEF RoomsPass, KeysKept
  <2>2. since <= acked /\ since <= upto
    BY <1>0, <1>6 DEF RoomsPass, Ordered
  <2>3. \A k \in opened : k <= upto /\ \A j \in todo' : k < j
    BY <1>0, <1>6, <2>1, <2>2 DEF RoomsPass
  <2>4. QED
    BY <1>6, <2>3 DEF RoomsPass, KeysKept, Sender, JoinedBy
<1>7. CASE TimelinePass
  BY <1>7 DEF TimelinePass, KeysKept, Sender, JoinedBy
<1>8. ASSUME NEW k \in todo, DeviceMessage(k) PROVE KeysKept'
  <2>1. CASE Further(k) \/ First(k)
    BY <1>8, <2>1, DecryptedKeysKept
  <2>2. CASE Again(k) \/ Refused(k)
    <3>1. UNCHANGED <<opened, megolm, stream, phase, upto, since>> /\ todo' \subseteq todo
          /\ phase = "device"
      BY <1>8, <2>2 DEF DeviceMessage, Turn, Again, Refused, GivenUp
    <3>2. QED
      BY <3>1 DEF KeysKept, Sender, JoinedBy
  <2>3. QED
    BY <1>8, <2>1, <2>2, Outcomes
<1>9. CASE Disconnect \/ Restart
  <2>1. /\ opened' = {} /\ phase' = "down"
        /\ \A d \in Devices, r \in Rooms : megolm'[d][r] = 0
    BY <1>9 DEF Disconnect, Restart, Cleanup, NoKeys
  <2>2. QED
    BY <2>1 DEF KeysKept
<1>10. QED
  BY <1>1, <1>2, <1>3, <1>4, <1>5, <1>6, <1>7, <1>8, <1>9 DEF Next

-----------------------------------------------------------------------------
(* What can be missed.                                                      *)

\* Why message p may be missed although k was its key.
Excused(k, p) ==
  \/ k \in lost
  \/ ~JoinedBy(stream[p].room, k)
  \/ db[stream[p].device] # None /\ db[stream[p].device].session # stream[k].session

LEMMA StaysExcused ==
  ASSUME Base, Grows, NEW p \in 1..Len(stream), stream[p].kind = "message",
         NEW k \in 1..p - 1, Excused(k, p)
  PROVE  Excused(k, p)'
<1>1. /\ stream'[p] = stream[p] /\ stream'[k] = stream[k] /\ k <= Len(stream)
      /\ k \in Nat /\ lost \subseteq lost' /\ stream[p] \in Item
  BY DEF Grows, Base, TypeOK
<1>2. stream[p].device \in Devices
  BY <1>1, ItemTyped
<1>3. ASSUME ~JoinedBy(stream[p].room, k) PROVE ~JoinedBy(stream[p].room, k)'
  <2>1. \A i \in 1..k : stream'[i] = stream[i]
    BY <1>1 DEF Grows
  <2>2. QED
    BY <1>1, <1>3, <2>1 DEF JoinedBy
<1>4. ASSUME db[stream[p].device] # None,
             db[stream[p].device].session # stream[k].session
      PROVE  /\ db'[stream'[p].device] # None
             /\ db'[stream'[p].device].session # stream'[k].session
  BY <1>1, <1>2, <1>4 DEF Grows
<1>5. QED
  BY <1>1, <1>3, <1>4 DEF Excused

\* A message that cannot be read when its response is handled.
LEMMA UnreadableExcused ==
  ASSUME Base, AllHandled, KeysKept, phase = "device", todo = {},
         NEW p \in 1..upto, stream[p].kind = "message", ~Readable(p),
         NEW k \in 1..p - 1, IsKey(k, stream[p].device, stream[p].room)
  PROVE  Excused(k, p)
<1>1. upto \in Nat /\ upto <= Len(stream) /\ Len(stream) \in Nat
  BY DEF Base, TypeOK, Ordered
<1>2. k \in 1..Len(stream) /\ k <= upto /\ k < p
  BY <1>1
<1>3. /\ stream[k].kind = "key" /\ Sender(k) = stream[p].device
      /\ stream[k].room = stream[p].room
  BY DEF IsKey, Sender
<1>4. Handled(k)
  BY <1>2, <1>3 DEF AllHandled, Past
<1>5. ASSUME k \in opened, JoinedBy(stream[p].room, k) PROVE FALSE
  <2>1. /\ megolm[stream[p].device][stream[p].room] # 0
        /\ megolm[stream[p].device][stream[p].room] <= k
    BY <1>3, <1>5 DEF KeysKept
  <2>2. megolm[stream[p].device][stream[p].room] \in Nat
    <3>1. Sender(k) \in Devices /\ stream[k].room \in Rooms
      BY <1>2, <1>3, KeyTyped DEF Base, Sender
    <3>2. QED
      BY <1>3, <3>1 DEF Base, TypeOK
  <2>3. QED
    BY <1>2, <2>1, <2>2 DEF Readable
<1>6. QED
  BY <1>3, <1>4, <1>5 DEF Handled, Excused

LEMMA NextMissed ==
  ASSUME Base, AllHandled, KeysKept, MissedAreMessages, KeyedMessagesRead, [Next]_vars
  PROVE  MissedAreMessages' /\ KeyedMessagesRead'
<1>1. Grows /\ TypeOK /\ Ordered
  BY StepGrows DEF Base
<1>2. ASSUME NEW p \in missed'
      PROVE  p \in 1..Len(stream) /\ stream[p].kind = "message"
             /\ \A k \in 1..p - 1 : IsKey(k, stream[p].device, stream[p].room) => Excused(k, p)
  <2>1. CASE p \in missed
    BY <2>1 DEF MissedAreMessages, KeyedMessagesRead, Excused
  <2>2. CASE p \notin missed
    <3>1. TimelinePass
      BY <1>2, <2>2 DEF Next, RoomJoined, KeyShared, MessageSent, Sent, ServerResponds,
           Connect, RoomsPass, DeviceMessage, Disconnect, Restart, Save, Cleanup,
           historyVars, vars
    <3>2. /\ p \in since + 1..upto /\ stream[p].kind = "message" /\ ~Readable(p)
          /\ phase = "device" /\ todo = {}
      BY <1>2, <2>2, <3>1 DEF TimelinePass
    <3>3. p \in 1..upto /\ p \in 1..Len(stream)
      BY <1>1, <3>2 DEF TypeOK, Ordered
    <3>4. QED
      BY <3>2, <3>3, UnreadableExcused
  <2>3. QED
    BY <2>1, <2>2
<1>3. ASSUME NEW p \in missed'
      PROVE  p \in 1..Len(stream') /\ stream'[p].kind = "message"
             /\ \A k \in 1..p - 1 :
                  IsKey(k, stream[p].device, stream[p].room)' => Excused(k, p)'
  <2>1. p \in 1..Len(stream') /\ stream'[p] = stream[p] /\ Len(stream) \in Nat
    BY <1>1, <1>2 DEF Grows
  <2>2. ASSUME NEW k \in 1..p - 1, IsKey(k, stream[p].device, stream[p].room)'
        PROVE  Excused(k, p)'
    <3>1. stream'[k] = stream[k]
      BY <1>1, <1>2, <2>1 DEF Grows
    <3>2. IsKey(k, stream[p].device, stream[p].room)
      BY <2>1, <2>2, <3>1 DEF IsKey
    <3>3. QED
      BY <1>1, <1>2, <3>2, StaysExcused
  <2>3. QED
    BY <1>2, <2>1, <2>2
<1>4. QED
  BY <1>3 DEF MissedAreMessages, KeyedMessagesRead, Excused

LEMMA InitInv == Init => Inv
<1> SUFFICES ASSUME Init PROVE Inv
  OBVIOUS
<1>1. TypeOK /\ Ordered /\ ReadOnce
  BY InitTyped, InitOrdered, InitReadOnce
<1>2. account.keys = Sessions /\ disk.keys = Sessions /\ phase = "down"
  BY DEF Init
<1>3. KeysLeft
  BY <1>2 DEF KeysLeft
<1>4. /\ AllHandled /\ RoomsMade /\ KeysKept /\ MissedAreMessages /\ KeyedMessagesRead
  <2>1. stream = << >> /\ convs = {} /\ opened = {} /\ missed = {} /\ megolm = NoKeys
    BY DEF Init
  <2>2. QED
    BY <1>2, <2>1
    DEF AllHandled, RoomsMade, KeysKept, MissedAreMessages, KeyedMessagesRead, NoKeys
<1>5. QED
  BY <1>1, <1>3, <1>4 DEF Inv, ReadOnce

LEMMA NextInv == Inv /\ [Next]_vars => Inv'
<1> SUFFICES ASSUME Inv, [Next]_vars PROVE Inv'
  OBVIOUS
<1>1. Base
  BY DEF Inv, Base, ReadOnce
<1>2. TypeOK' /\ Ordered' /\ ReadOnce'
  BY <1>1, NextTyped, NextOrdered, NextReadOnce DEF Base
<1>3. KeysLeft' /\ AllHandled' /\ RoomsMade' /\ KeysKept'
  BY <1>1, NextKeysLeft, NextAllHandled, NextRoomsMade, NextKeysKept DEF Inv
<1>4. MissedAreMessages' /\ KeyedMessagesRead'
  BY <1>1, NextMissed DEF Inv
<1>5. QED
  BY <1>2, <1>3, <1>4 DEF Inv, ReadOnce

\* A message for which the key was sent to this device is read, unless the key
\* was lost with an earlier connection, or came before the room was joined or
\* over a second session of its device; however the stream was cut into
\* responses, and whatever the settings were when the plugin was restarted.
THEOREM MissedAreExcused == Spec => []KeyedMessagesRead
<1>1. Init => Inv
  BY InitInv
<1>2. Inv /\ [Next]_vars => Inv'
  BY NextInv
<1>3. Inv => KeyedMessagesRead
  BY DEF Inv
<1>4. QED
  BY <1>1, <1>2, <1>3, PTL DEF Spec

-----------------------------------------------------------------------------
(* The loop implements SyncLoop.                                            *)

\* A history variable: up to where responses were handled, which neither since
\* nor the kept position is after a restart.  No step depends on it.
VARIABLE handled

HInit == Init /\ handled = 0
HNext == Next /\ handled' = IF TimelinePass THEN upto ELSE handled
HSpec == HInit /\ [][HNext]_<<vars, handled>>

Responded == phase \in {"answered", "device"}

Loop == INSTANCE SyncLoop WITH
          head      <- Len(stream),
          delivered <- 1..handled,
          asking    <- (phase # "down"),
          asked     <- since,
          answers   <- IF Responded THEN {upto} ELSE {}

\* No position that the plugin holds, nor the end of a response, is wrong
\* about what was handled.
HandledFits ==
  /\ handled \in 0..Len(stream)
  /\ since <= handled /\ account.batch <= handled /\ disk.batch <= handled
  /\ Responded => handled <= upto

HInv == TypeOK /\ Ordered /\ HandledFits

LEMMA HandledTyped ==
  ASSUME HInv
  PROVE  /\ Len(stream) \in Nat /\ handled \in Nat /\ since \in Nat /\ upto \in Nat
         /\ account.batch \in Nat /\ disk.batch \in Nat
         /\ handled <= Len(stream) /\ upto <= Len(stream)
         /\ since <= handled /\ account.batch <= handled /\ disk.batch <= handled
         /\ Responded => handled <= upto
BY DEF HInv, HandledFits, TypeOK, Ordered, Settings

LEMMA LoopInitially == HInit => Loop!LoopInit /\ HInv
<1> SUFFICES ASSUME HInit PROVE Loop!LoopInit /\ HInv
  OBVIOUS
<1>1. /\ stream = << >> /\ phase = "down" /\ since = 0 /\ handled = 0
      /\ account.batch = 0 /\ disk = account /\ ~Responded
  BY DEF HInit, Init, Responded
<1>2. 1..handled = {} /\ Len(stream) = 0
  BY <1>1
<1>3. TypeOK /\ Ordered
  BY InitTyped, InitOrdered DEF HInit
<1>4. QED
  BY <1>1, <1>2, <1>3 DEF Loop!LoopInit, HInv, HandledFits

\* The steps of the homeserver and of the other devices.
LEMMA LoopSent ==
  ASSUME HInv, NEW x \in Item, Sent(x), UNCHANGED handled
  PROVE  Loop!Grow /\ HandledFits'
<1>1. /\ Len(stream') = Len(stream) + 1
      /\ UNCHANGED <<phase, since, upto, account, disk, handled>>
  BY SentKeeps DEF HInv, Sent, syncVars
<1>2. Loop!Grow
  BY <1>1 DEF Loop!Grow, Responded
<1>3. HandledFits'
  BY <1>1, HandledTyped DEF HandledFits, Responded
<1>4. QED
  BY <1>2, <1>3

\* The steps that the loop does not notice.
LEMMA LoopStutters ==
  ASSUME HInv, UNCHANGED <<stream, since, upto, handled>>,
         (phase' # "down") = (phase # "down"), Responded' = Responded,
         account'.batch = account.batch, disk'.batch \in {disk.batch, account.batch}
  PROVE  UNCHANGED (Loop!loopVars) /\ HandledFits'
<1>1. UNCHANGED (Loop!loopVars)
  BY DEF Loop!loopVars
<1>2. HandledFits'
  BY HandledTyped DEF HandledFits
<1>3. QED
  BY <1>1, <1>2

\* A connection ends, or the process: the settings are those in memory, or those
\* that were saved.
LEMMA LoopEnds ==
  ASSUME HInv, Cleanup, UNCHANGED <<handled, disk>>, account' \in {account, disk}
  PROVE  [Loop!LoopNext]_(Loop!loopVars) /\ HandledFits'
<1>1. phase' = "down" /\ ~Responded' /\ UNCHANGED <<stream, since, upto>>
  BY DEF Cleanup, streamVars, Responded
<1>2. HandledFits'
  BY <1>1, HandledTyped DEF HandledFits
<1>3. CASE phase = "down"
  <2>1. UNCHANGED (Loop!loopVars)
    BY <1>1, <1>3 DEF Loop!loopVars, Responded
  <2>2. QED
    BY <1>2, <2>1
<1>4. CASE phase # "down"
  <2>1. Loop!Fail
    BY <1>1, <1>4 DEF Loop!Fail
  <2>2. QED
    BY <1>2, <2>1 DEF Loop!LoopNext
<1>5. QED
  BY <1>3, <1>4

\* The response is handled with its timelines: it has what follows since, up to
\* upto.
LEMMA LoopHandles ==
  ASSUME HInv, TimelinePass, handled' = upto
  PROVE  Loop!Handle /\ HandledFits'
<1>1. /\ phase = "device" /\ phase' = "waiting" /\ since' = upto
      /\ UNCHANGED <<stream, upto, disk>>
      /\ account'.batch = upto
  BY DEF TimelinePass, streamVars, HInv, TypeOK, Settings
<1>2. Responded /\ ~Responded'
  BY <1>1 DEF Responded
<1>3. 1..handled' = 1..handled \cup (since + 1)..upto
  BY <1>2, HandledTyped
<1>4. Loop!Handle
  BY <1>1, <1>2, <1>3 DEF Loop!Handle
<1>5. HandledFits'
  BY <1>1, <1>2, HandledTyped DEF HandledFits
<1>6. QED
  BY <1>4, <1>5

\* Any other step leaves handled alone.
LEMMA LoopOther ==
  ASSUME HInv, Next, ~TimelinePass, UNCHANGED handled
  PROVE  [Loop!LoopNext]_(Loop!loopVars) /\ HandledFits'
<1> USE DEF streamVars, syncVars, sessionVars
<1>1. ASSUME NEW r \in Rooms, RoomJoined(r)
      PROVE  Loop!Grow /\ HandledFits'
  BY <1>1, LoopSent DEF RoomJoined, Item
<1>2. ASSUME NEW s \in Sessions, NEW r \in Rooms, KeyShared(s, r)
      PROVE  Loop!Grow /\ HandledFits'
  BY <1>2, LoopSent DEF KeyShared, Item
<1>3. ASSUME NEW d \in Devices, NEW r \in Rooms, MessageSent(d, r)
      PROVE  Loop!Grow /\ HandledFits'
  BY <1>3, LoopSent DEF MessageSent, Item
<1>4. CASE ServerResponds
  <2>1. /\ phase = "waiting" /\ phase' = "answered" /\ upto' = Len(stream)
        /\ UNCHANGED <<stream, since, account, disk, handled>>
    BY <1>4 DEF ServerResponds
  <2>2. ~Responded /\ Responded'
    BY <2>1 DEF Responded
  <2>3. Loop!Respond
    BY <2>1, <2>2 DEF Loop!Respond
  <2>4. HandledFits'
    BY <2>1, HandledTyped DEF HandledFits
  <2>5. QED
    BY <2>3, <2>4 DEF Loop!LoopNext
<1>5. CASE Connect
  <2>1. /\ phase = "down" /\ phase' = "waiting" /\ since' \in {0, account.batch}
        /\ UNCHANGED <<stream, upto, account, disk, handled>>
    BY <1>5 DEF Connect
  <2>2. ~Responded /\ ~Responded'
    BY <2>1 DEF Responded
  <2>3. since' \in 0..Len(stream) /\ since' <= handled /\ 1..since' \subseteq 1..handled
    BY <2>1, HandledTyped
  <2>4. Loop!Ask
    BY <2>1, <2>2, <2>3 DEF Loop!Ask
  <2>5. HandledFits'
    BY <2>1, <2>2, <2>3, HandledTyped DEF HandledFits
  <2>6. QED
    BY <2>4, <2>5 DEF Loop!LoopNext
<1>6. CASE RoomsPass
  <2>1. phase = "answered" /\ phase' = "device" /\ Responded /\ Responded'
    BY <1>6 DEF RoomsPass, Responded
  <2>2. QED
    BY <1>6, <2>1, LoopStutters DEF RoomsPass
<1>7. ASSUME NEW k \in todo, DeviceMessage(k)
      PROVE  UNCHANGED (Loop!loopVars) /\ HandledFits'
  <2>1. account'.batch = account.batch
    BY <1>7, Outcomes
    DEF HInv, TypeOK, Settings, Again, Further, First, Refused, Decrypted, Stored, GivenUp
  <2>2. UNCHANGED <<stream, phase, since, upto, disk, handled>>
    BY <1>7 DEF DeviceMessage
  <2>3. QED
    BY <2>1, <2>2, LoopStutters DEF Responded
<1>8. CASE Disconnect
  BY <1>8, LoopEnds DEF Disconnect
<1>9. CASE Save
  BY <1>9, LoopStutters DEF Save, Responded
<1>10. CASE Restart
  BY <1>10, LoopEnds DEF Restart
<1>11. QED
  BY <1>1, <1>2, <1>3, <1>4, <1>5, <1>6, <1>7, <1>8, <1>9, <1>10 DEF Next, Loop!LoopNext

LEMMA LoopStep ==
  ASSUME HInv, [HNext]_<<vars, handled>>
  PROVE  [Loop!LoopNext]_(Loop!loopVars) /\ HInv'
<1>1. TypeOK' /\ Ordered'
  BY NextTyped, NextOrdered DEF HInv, HNext
<1>2. CASE HNext /\ TimelinePass
  <2>1. Loop!Handle /\ HandledFits'
    BY <1>2, LoopHandles DEF HNext
  <2>2. QED
    BY <1>1, <2>1 DEF HInv, Loop!LoopNext
<1>3. CASE HNext /\ ~TimelinePass
  BY <1>1, <1>3, LoopOther DEF HNext, HInv
<1>4. CASE UNCHANGED <<vars, handled>>
  <2>1. UNCHANGED (Loop!loopVars) /\ HandledFits'
    BY <1>4, LoopStutters DEF vars, streamVars, syncVars, Responded
  <2>2. QED
    BY <1>1, <2>1 DEF HInv
<1>5. QED
  BY <1>2, <1>3, <1>4

\* No part of the stream is passed over, neither a room key nor a message,
\* though the process may die while it handles a response, or be started again
\* with settings from before the last ones.
THEOREM EncryptionIsSyncLoop == HSpec => Loop!LoopSpec
<1>1. HInit => Loop!LoopInit /\ HInv
  BY LoopInitially
<1>2. HInv /\ [HNext]_<<vars, handled>> => HInv'
  BY LoopStep
<1>3. HInv /\ [HNext]_<<vars, handled>> => [Loop!LoopNext]_(Loop!loopVars)
  BY LoopStep
<1>4. QED
  BY <1>1, <1>2, <1>3, PTL DEF HSpec, Loop!LoopSpec
=============================================================================
