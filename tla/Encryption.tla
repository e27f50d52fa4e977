----------------------------- MODULE Encryption -----------------------------
(***************************************************************************)
(* Reading encrypted rooms: the Olm sessions of other devices with this    *)
(* one, in memory and in the sqlite database, the Megolm keys they bring,  *)
(* which are kept with the conversations (matrix-e2e.c), and the order in  *)
(* which a response to /sync is handled (matrix-sync.c).                   *)
(*                                                                         *)
(* The homeserver's stream is a sequence of joined rooms, of room keys     *)
(* sent to this device and of encrypted messages.  The plugin sends        *)
(* nothing over Olm, so that all it receives are "prekey" messages, each   *)
(* with what it takes to make the session.                                 *)
(*                                                                         *)
(* A definition with an underscore is a mutated form of the one after it,  *)
(* used by no action: it is there to try what the properties tell apart.   *)
(***************************************************************************)
EXTENDS Naturals, Sequences

CONSTANTS
  Devices,      \* of other users; stands for sender_id and sender_key
  Rooms,
  Numbers,      \* of the Olm sessions that a device may begin
  None,         \* no session
  MaxSent,      \* bound on the length of the stream
  MaxTroubles   \* bound on disconnections and restarts

ASSUME BoundsAreNumbers == MaxSent \in Nat /\ MaxTroubles \in Nat

\* An Olm session; it stands for the one-time key it was made with too.
Sessions == Devices \X Numbers

ASSUME NoneIsNoSession == \A d \in Devices, s \in Sessions, u \in SUBSET (1..MaxSent) :
                            None # [session |-> s, used |-> u]

VARIABLES
  stream,     \* the homeserver: what happened, in order
  acked,      \* the homeserver: what was sent to the device up to here is deleted
  phase,      \* of the connection: see Phases
  since,      \* of the active /sync request; 0 is NULL
  full,       \* its full_state
  upto,       \* the end of its response
  todo,       \* messages to the device that are still to handle
  convs,      \* the rooms that have a conversation
  oa,         \* one-time keys of the OlmAccount in memory
  account,    \* settings of the account, in memory
  disk,       \* and as libpurple last saved them
  memory,     \* olm_session_hash
  db,         \* the table olmsessions: a session for each device, or None
  megolm,     \* megolm_sessions_inbound: the position of the key, or 0
  opened,     \* history: messages to the device that were decrypted, and
  lost,       \* those that were decrypted on an earlier connection
  missed,     \* history: messages that could not be read
  troubles    \* history: disconnections and restarts

streamVars  == <<stream, acked>>
syncVars    == <<phase, since, full, upto, todo>>
sessionVars == <<oa, memory, db, megolm>>
historyVars == <<opened, lost, missed>>
vars == <<streamVars, syncVars, convs, account, disk, sessionVars, historyVars, troubles>>

\* Not connected; waiting for a response; one has arrived; handling what it
\* has for the device.
Phases == {"down", "waiting", "answered", "device"}

Positions == 1..MaxSent
Item == [kind : {"join"}, room : Rooms]
          \cup [kind : {"key"}, session : Sessions, room : Rooms]
          \cup [kind : {"message"}, device : Devices, room : Rooms]

\* A session and the messages that it has decrypted, which it can't again.
Ratchet  == [session : Sessions, used : SUBSET Positions]
Settings == [batch : 0..MaxSent, keys : SUBSET Sessions, skip : BOOLEAN]

TypeOK ==
  /\ stream \in Seq(Item) /\ Len(stream) <= MaxSent /\ acked \in 0..MaxSent
  /\ phase \in Phases /\ since \in 0..MaxSent /\ full \in BOOLEAN /\ upto \in 0..MaxSent
  /\ todo \in SUBSET Positions
  /\ convs \in SUBSET Rooms
  /\ oa \in SUBSET Sessions /\ account \in Settings /\ disk \in Settings
  /\ memory \in SUBSET Ratchet
  /\ db \in [Devices -> Ratchet \cup {None}]
  /\ megolm \in [Devices -> [Rooms -> 0..MaxSent]]
  /\ opened \in SUBSET Positions /\ lost \in SUBSET Positions
  /\ missed \in SUBSET Positions
  /\ troubles \in 0..MaxTroubles

NoKeys == [d \in Devices |-> [r \in Rooms |-> 0]]

\* An account that has published its one-time keys, and is not in any room.
Init ==
  /\ stream = << >> /\ acked = 0
  /\ phase = "down" /\ since = 0 /\ full = FALSE /\ upto = 0 /\ todo = {}
  /\ convs = {} /\ oa = {}
  /\ account \in [batch : {0}, keys : {Sessions}, skip : BOOLEAN] /\ disk = account
  /\ memory = {} /\ db = [d \in Devices |-> None] /\ megolm = NoKeys
  /\ opened = {} /\ lost = {} /\ missed = {} /\ troubles = 0

Trouble == troubles < MaxTroubles /\ troubles' = troubles + 1

-----------------------------------------------------------------------------
(* The homeserver and the other devices.                                    *)

Sent(item) ==
  /\ Len(stream) < MaxSent
  /\ stream' = Append(stream, item)
  /\ UNCHANGED <<acked, syncVars, convs, account, disk, sessionVars, historyVars, troubles>>

JoinedBy(r, p) == \E k \in 1..p : stream[k] = [kind |-> "join", room |-> r]

RoomJoined(r) ==
  ~JoinedBy(r, Len(stream)) /\ Sent([kind |-> "join", room |-> r])

\* Item k gives this device the key with which d encrypts in room r.
IsKey(k, d, r) ==
  stream[k].kind = "key" /\ stream[k].session[1] = d /\ stream[k].room = r

\* A device sends its key for a room to this one, which may have been invited
\* only, in a session that it may have begun for that.
KeyShared(s, r) == Sent([kind |-> "key", session |-> s, room |-> r])

MessageSent(d, r) ==
  /\ JoinedBy(r, Len(stream))
  /\ \E k \in DOMAIN stream : IsKey(k, d, r)
  /\ Sent([kind |-> "message", device |-> d, room |-> r])

\* A request tells the homeserver what need not be sent to the device again.
ServerResponds ==
  /\ phase = "waiting"
  /\ acked' = IF since > acked THEN since ELSE acked
  /\ upto' = Len(stream) /\ phase' = "answered"
  /\ UNCHANGED <<stream, since, full, todo, convs, account, disk, sessionVars,
                 historyVars, troubles>>

-----------------------------------------------------------------------------
(* Connecting, and handling a response.                                     *)

\* matrix_store_e2e_account and matrix_restore_e2e_account: the OlmAccount goes
\* to the settings of the account, and comes back when it connects.
Stored(keys) == [account EXCEPT !.keys = keys]
Restored     == account.keys

\* _start_sync, with matrix_e2e_get_device_keys.
Connect ==
  /\ phase = "down"
  /\ phase' = "waiting"
  /\ oa' = Restored
  /\ since' = IF convs = {} /\ ~account.skip THEN 0 ELSE account.batch
  /\ full' = (convs = {} \/ account.batch = 0)
  /\ UNCHANGED <<streamVars, upto, todo, convs, account, disk, memory, db, megolm,
                 historyVars, troubles>>

\* The rooms that the response says something of.
InReply(r) ==
  /\ JoinedBy(r, upto)
  /\ \/ full \/ since = 0
     \/ \E k \in since + 1..upto : stream[k].kind # "key" /\ stream[k].room = r

\* The first pass over the rooms of a response makes their conversations.
RoomsPass ==
  /\ phase = "answered"
  /\ convs' = convs \cup {r \in Rooms : InReply(r)}
  /\ todo' = {k \in acked + 1..upto : stream[k].kind = "key"}
  /\ phase' = "device"
  /\ UNCHANGED <<streamVars, since, full, upto, account, disk, sessionVars,
                 historyVars, troubles>>

\* find_olm_session: the sessions of d, from the database if there are none
\* in memory.
Known(d) ==
  LET cached == {x \in memory : x.session[1] = d}
  IN IF cached # {} THEN cached ELSE {db[d]} \ {None}

RoomKey_Replaces(k, d, r) ==
  megolm' = IF r \in convs THEN [megolm EXCEPT ![d][r] = k] ELSE megolm

\* handle_m_room_key: kept with the conversation, unless that has one already.
RoomKey(k, d, r) ==
  megolm' = IF r \in convs /\ megolm[d][r] = 0
            THEN [megolm EXCEPT ![d][r] = k] ELSE megolm

Updated_Forgotten(x, d) == IF db[d] = None THEN [db EXCEPT ![d] = x] ELSE db

\* store_olm_session and update_olm_session.
Updated(x, d) == [db EXCEPT ![d] = x]

\* decrypt_olm once session y of device d has decrypted message k: what was
\* known of it, known, is replaced, and the OlmAccount is stored.
Decrypted(k, y, d, known) ==
  LET x == [y EXCEPT !.used = @ \cup {k}]
  IN /\ memory' = ((memory \cup known) \ {y}) \cup {x}
     /\ db' = Updated(x, d)
     /\ RoomKey(k, d, stream[k].room)
     /\ account' = Stored(oa')
     /\ opened' = opened \cup {k}

\* decrypt_olm gives up.  Its sessions stay in memory.
GivenUp(known) ==
  /\ memory' = memory \cup known
  /\ UNCHANGED <<db, megolm, account, opened>>

\* A session that was just made.
Fresh(k) == [session |-> stream[k].session, used |-> {}]

\* Message k matches no session, and begins one: its one-time key is there,
\* and the table, which takes one session of a device, has none.
Begins(k) ==
  LET s == stream[k].session
  IN (\A y \in Known(s[1]) : y.session # s) /\ s \in oa /\ db[s[1]] = None

\* Messages are handled in the order of the stream.
Turn(k) == phase = "device" /\ k \in todo /\ \A j \in todo : k <= j

\* matrix_e2e_decrypt_d2d for message k.
DeviceMessage(k) ==
  /\ Turn(k)
  /\ todo' = todo \ {k}
  /\ LET s     == stream[k].session
         d     == s[1]
         known == Known(d)
     IN \/ \E y \in known :            \* a session that it matches
             /\ y.session = s
             /\ UNCHANGED oa
             /\ IF k \in y.used THEN GivenUp(known) ELSE Decrypted(k, y, d, known)
        \/ /\ \A y \in known : y.session # s
           /\ oa' = oa \ {s}           \* a new one uses its one-time key up
           /\ IF Begins(k) THEN Decrypted(k, Fresh(k), d, known) ELSE GivenUp(known)
  /\ UNCHANGED <<streamVars, phase, since, full, upto, convs, disk, lost, missed, troubles>>

\* matrix_e2e_decrypt_room: the key is there, and no younger than the message.
Readable(p) ==
  LET k == megolm[stream[p].device][stream[p].room]
  IN k # 0 /\ k < p

\* The second pass over the rooms reads the timelines; then the position is
\* kept, and the next request made.
TimelinePass ==
  /\ phase = "device" /\ todo = {}
  /\ missed' = missed \cup {p \in since + 1..upto : stream[p].kind = "message" /\ ~Readable(p)}
  /\ account' = [account EXCEPT !.batch = upto]
  /\ phase' = "waiting" /\ since' = upto /\ full' = FALSE
  /\ UNCHANGED <<streamVars, upto, todo, convs, disk, sessionVars, opened, lost, troubles>>

-----------------------------------------------------------------------------
(* The end of a connection and of the process.                              *)

\* matrix_e2e_cleanup_connection: the sessions in memory and the keys of the
\* conversations are freed.
Cleanup ==
  /\ phase' = "down" /\ todo' = {}
  /\ oa' = {} /\ memory' = {} /\ megolm' = NoKeys
  /\ lost' = lost \cup opened /\ opened' = {}
  /\ UNCHANGED <<streamVars, since, full, upto, missed>>

\* By the user, or after an error.  Handling a response is one callback.
Disconnect ==
  /\ phase \in {"waiting", "answered"} /\ Trouble
  /\ Cleanup
  /\ UNCHANGED <<convs, account, disk, db>>

\* libpurple saves the accounts, some seconds after a change.
Save ==
  /\ disk # account
  /\ disk' = account
  /\ UNCHANGED <<streamVars, syncVars, convs, account, sessionVars, historyVars, troubles>>

\* The process dies, at any point, and is started again: also after
\* store_olm_session has put a session in the table, which has still to decrypt
\* the message that it was made for.
Restart ==
  /\ Trouble
  /\ Cleanup
  /\ convs' = {} /\ account' = disk /\ UNCHANGED disk
  /\ \/ UNCHANGED db
     \/ \E k \in todo : Turn(k) /\ Begins(k) /\ db' = Updated(Fresh(k), stream[k].session[1])

Next ==
  \/ \E r \in Rooms : RoomJoined(r)
  \/ \E s \in Sessions, r \in Rooms : KeyShared(s, r)
  \/ \E d \in Devices, r \in Rooms : MessageSent(d, r)
  \/ ServerResponds \/ Connect \/ RoomsPass \/ TimelinePass
  \/ \E k \in todo : DeviceMessage(k)
  \/ Disconnect \/ Save \/ Restart

Spec == Init /\ [][Next]_vars

-----------------------------------------------------------------------------
(* Properties.                                                              *)

\* A message is missed only where its key was lost with an earlier connection,
\* was sent before the room was joined, or came over a second session of the
\* device: conversations are made before keys are handled, and keys before
\* the messages they are for, however the stream is cut into responses.
KeyedMessagesRead ==
  \A p \in missed : \A k \in 1..p - 1 :
    IsKey(k, stream[p].device, stream[p].room) =>
      \/ k \in lost
      \/ ~JoinedBy(stream[p].room, k)
      \/ db[stream[p].device] # None /\ db[stream[p].device].session # stream[k].session

\* No message to the device is decrypted a second time, even if a restart from
\* older settings makes the homeserver send it again: the session in the
\* database has moved on before the settings do.
OpenedOnce == opened \cap lost = {}
=============================================================================
