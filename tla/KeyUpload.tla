----------------------------- MODULE KeyUpload -----------------------------
(***************************************************************************)
(* The one-time keys of this device: those in the OlmAccount, those in its *)
(* stored copies, and those the homeserver offers to other devices; the    *)
(* uploads between them, started by the counts that come with the answers  *)
(* to /sync and to /keys/upload (matrix-e2e.c).                            *)
(*                                                                         *)
(* The OlmAccount and its identity keys have been made and stored before.  *)
(* A key is a number, in the order of making; what libolm and the          *)
(* homeserver do with keys is external.  A definition with an underscore   *)
(* is a mutated form of the one after it, used by no action.               *)
(***************************************************************************)
EXTENDS Naturals, FiniteSets

CONSTANTS
  Max,          \* olm_account_max_number_of_one_time_keys
  None,         \* counts that name no algorithm
  MaxUploads,   \* bound on the requests in flight at once
  MaxClaims,    \* bound on the keys that other devices ask for
  MaxTroubles   \* bound on failures, disconnections and crashes

ASSUME MaxHasHalf    == Max \in Nat /\ Max >= 2
ASSUME NoneIsNoCount == None \notin Nat
ASSUME BoundsAreNumbers == MaxUploads \in Nat /\ MaxClaims \in Nat /\ MaxTroubles \in Nat

VARIABLES
  phase,     \* of the connection: see Phases
  oa,        \* conn->e2e->oa, while there is one
  stored,    \* its pickle in the settings of the account
  disk,      \* and as libpurple last saved them
  uploads,   \* requests to /keys/upload that the network still has
  sync,      \* the request to /sync: see Syncs
  offered,   \* the homeserver: keys it will give to other devices
  claimed,   \* keys given to another device that has not written with it yet
  used,      \* keys another device has written with
  made,      \* history: how many keys were made
  reached,   \* history: keys the homeserver was sent
  claims,    \* history: keys given out, bounded by MaxClaims
  troubles,  \* history: failures so far, bounded by MaxTroubles
  mishaps    \* history: see Mishaps

accountVars == <<oa, stored, disk>>
serverVars  == <<offered, claimed, used, reached, claims>>
netVars     == <<uploads, sync>>
vars == <<phase, accountVars, netVars, serverVars, made, troubles, mishaps>>

\* "closing": an error was reported, and libpurple will close the connection.
Phases == {"down", "up", "closing"}

\* Two uploads of one-time keys were under way at once; one was not answered,
\* or its answer not handled; libolm had no room for a key and dropped the
\* oldest one; the settings were lost before they were saved.
Mishaps == {"overlap", "unanswered", "dropped", "unsaved"}

Key     == Nat \ {0}
Counts  == Nat \cup {None}
\* The keys libolm has, and those of them that are marked as published.
Account == [keys : SUBSET Key, pub : SUBSET Key]
\* What key_upload_callback is given as user_data is "otk".  The counts of the
\* answer are there once the homeserver has handled the request ("done").
Upload  == [keys : SUBSET Key, otk : BOOLEAN, done : BOOLEAN, counts : Counts, own : BOOLEAN]

\* A /sync that is waiting has a response as soon as the homeserver has made it.
Syncs   == [at : {"none", "waiting", "answered"}, counts : Counts]
NoSync  == [at |-> "none", counts |-> None]
NewSync == [at |-> "waiting", counts |-> None]

Empty == [keys |-> {}, pub |-> {}]

TypeOK ==
  /\ phase \in Phases
  /\ oa \in Account /\ stored \in Account /\ disk \in Account
  /\ \A a \in {oa, stored, disk} : a.pub \subseteq a.keys /\ a.keys \subseteq 1..made
  /\ uploads \subseteq Upload /\ \A u \in uploads : u.keys \subseteq 1..made
  /\ sync \in Syncs
  /\ offered \subseteq reached /\ claimed \subseteq reached /\ used \subseteq reached
  /\ made \in Nat /\ reached \subseteq 1..made
  /\ claims \in 0..MaxClaims /\ troubles \in 0..MaxTroubles
  /\ mishaps \in SUBSET Mishaps

Init ==
  /\ phase = "down" /\ oa = Empty /\ stored = Empty /\ disk = Empty
  /\ uploads = {} /\ sync = NoSync
  /\ offered = {} /\ claimed = {} /\ used = {}
  /\ made = 0 /\ reached = {}
  /\ claims = 0 /\ troubles = 0 /\ mishaps = {}

Trouble  == troubles < MaxTroubles /\ troubles' = troubles + 1
NewUpload(keys, otk) ==
  [keys |-> keys, otk |-> otk, done |-> FALSE, counts |-> None, own |-> TRUE]

OtkIn(net) == \E u \in net : u.otk

-----------------------------------------------------------------------------
(* What libolm does to the account (external).                              *)

Newest(n) == (made + 1)..(made + n)

\* olm_account_generate_one_time_keys keeps the Max newest.
Generated(a, n) ==
  LET all  == a.keys \cup Newest(n)
      kept == {k \in all : Cardinality({j \in all : j > k}) < Max}
  IN [keys |-> kept, pub |-> a.pub \cap kept]

\* olm_account_one_time_keys
Unpublished(a) == a.keys \ a.pub

\* olm_account_mark_keys_as_published
Published(a) == [a EXCEPT !.pub = a.keys]

\* olm_remove_one_time_keys
Removed(a, k) == [keys |-> a.keys \ {k}, pub |-> a.pub \ {k}]

-----------------------------------------------------------------------------
(* Counts and uploads.                                                      *)

Half == Max \div 2

NeedToSend_NamedOnly(c) == IF c = None THEN FALSE ELSE c < Half

NeedToSend_AtHalf(c) == IF c = None THEN TRUE ELSE c <= Half

\* Whether matrix_e2e_handle_sync_key_counts sends keys
NeedToSend(c) == IF c = None THEN TRUE ELSE c < Half

\* and how many it makes.
ToCreate(c) == IF c = None THEN Max ELSE Half - c

KeysToSend_NewOnly(a, n) == Newest(n)

\* send_one_time_keys puts into its request all that were not published yet.
KeysToSend(a, n) == Unpublished(a)

\* matrix_e2e_handle_sync_key_counts with the account a, the requests net in
\* flight and the mishaps so far.
HandleCounts(a, net, bad, c) ==
  \/ /\ ~NeedToSend(c)
     /\ oa' = a /\ uploads' = net /\ mishaps' = bad
     /\ UNCHANGED <<made, phase, troubles>>
  \/ /\ NeedToSend(c)
     /\ LET n == ToCreate(c)
            b == Generated(a, n)
            more == (IF OtkIn(net) THEN {"overlap"} ELSE {})
                      \cup (IF Cardinality(a.keys) + n > Max THEN {"dropped"} ELSE {})
        IN /\ oa' = b /\ made' = made + n
           /\ \/ /\ uploads' = net \cup {NewUpload(KeysToSend(b, n), TRUE)}
                 /\ mishaps' = bad \cup more
                 /\ UNCHANGED <<phase, troubles>>
              \/ /\ Trouble    \* the request can't be started
                 /\ uploads' = net /\ phase' = "closing"
                 /\ mishaps' = bad \cup more \cup {"unanswered"}

Connected == phase # "down"

\* _sync_complete, as far as key counts go; the next request is sent.  The
\* bound on uploads delays the response.
SyncComplete ==
  /\ Connected /\ sync.at = "answered" /\ Cardinality(uploads) < MaxUploads
  /\ HandleCounts(oa, uploads, mishaps, sync.counts)
  /\ sync' = NewSync
  /\ UNCHANGED <<stored, disk, serverVars>>

\* _sync_error, _sync_bad_response, or no next request.
SyncFails ==
  /\ Connected /\ sync.at # "none" /\ Trouble
  /\ sync' = NoSync /\ phase' = "closing"
  /\ UNCHANGED <<accountVars, uploads, serverVars, made, mishaps>>

KeyUploadCallback_NotStored(u) ==
  /\ Connected /\ u.own /\ u.done
  /\ HandleCounts(IF u.otk THEN Published(oa) ELSE oa, uploads \ {u}, mishaps, u.counts)
  /\ UNCHANGED <<stored, disk, sync, serverVars>>

KeyUploadCallback_MarksSent(u) ==
  /\ Connected /\ u.own /\ u.done
  /\ LET a == [oa EXCEPT !.pub = @ \cup u.keys]
     IN /\ stored' = IF u.otk THEN a ELSE stored
        /\ HandleCounts(a, uploads \ {u}, mishaps, u.counts)
  /\ UNCHANGED <<disk, sync, serverVars>>

KeyUploadCallback_NotMarked(u) ==
  /\ Connected /\ u.own /\ u.done
  /\ stored' = IF u.otk THEN oa ELSE stored
  /\ HandleCounts(oa, uploads \ {u}, mishaps, u.counts)
  /\ UNCHANGED <<disk, sync, serverVars>>

\* key_upload_callback: the keys, whichever they are by now, are marked as
\* published and the account is stored; then the counts are looked at.
KeyUploadCallback(u) ==
  /\ Connected /\ u.own /\ u.done
  /\ LET a == IF u.otk THEN Published(oa) ELSE oa
     IN /\ stored' = IF u.otk THEN a ELSE stored
        /\ HandleCounts(a, uploads \ {u}, mishaps, u.counts)
  /\ UNCHANGED <<disk, sync, serverVars>>

\* matrix_api_error or matrix_api_bad_response, whether or not the homeserver
\* has handled the request.
UploadFails(u) ==
  /\ Connected /\ u.own /\ Trouble
  /\ uploads' = uploads \ {u} /\ phase' = "closing"
  /\ mishaps' = IF u.otk THEN mishaps \cup {"unanswered"} ELSE mishaps
  /\ UNCHANGED <<accountVars, sync, serverVars, made>>

-----------------------------------------------------------------------------
(* The homeserver and other devices (external).                             *)

\* An algorithm without keys is counted as zero, or not named.  A count of
\* half or more is taken as half: NeedToSend tells no more.
CountsOf(keys) ==
  IF keys = {} THEN {0, None}
  ELSE {IF Cardinality(keys) < Half THEN Cardinality(keys) ELSE Half}

\* The keys are taken up; one that is offered already is not taken again, but
\* one that was given away is not known any more.
ServerHandles(u) ==
  /\ ~u.done
  /\ offered' = offered \cup u.keys /\ reached' = reached \cup u.keys
  /\ \/ /\ u.own
        /\ \E c \in CountsOf(offered') :
             uploads' = (uploads \ {u}) \cup {[u EXCEPT !.done = TRUE, !.counts = c]}
     \/ /\ ~u.own
        /\ uploads' = uploads \ {u}
  /\ UNCHANGED <<phase, accountVars, sync, claimed, used, claims, made, troubles, mishaps>>

\* A response to /sync is made.
ServerResponds ==
  /\ Connected /\ sync.at = "waiting"
  /\ \E c \in CountsOf(offered) : sync' = [at |-> "answered", counts |-> c]
  /\ UNCHANGED <<phase, accountVars, uploads, serverVars, made, troubles, mishaps>>

\* Another device asks for a key, to write to this one.
Claim(k) ==
  /\ k \in offered /\ claims < MaxClaims
  /\ offered' = offered \ {k} /\ claimed' = claimed \cup {k} /\ claims' = claims + 1
  /\ UNCHANGED <<phase, accountVars, netVars, used, reached, made, troubles, mishaps>>

\* decrypt_olm for the first message made with k: if the account has the key
\* it makes a session with it, and is stored unless the session can't be.
FirstMessage(k) ==
  /\ Connected /\ k \in claimed
  /\ claimed' = claimed \ {k} /\ used' = used \cup {k}
  /\ IF k \in oa.keys
     THEN oa' = Removed(oa, k) /\ stored' \in {stored, oa'}
     ELSE UNCHANGED <<oa, stored>>
  /\ UNCHANGED <<phase, disk, netVars, offered, reached, claims, made, troubles, mishaps>>

\* And for later ones: the account is stored at the end.
LaterMessage ==
  /\ Connected /\ used # {} /\ stored' = oa
  /\ UNCHANGED <<phase, oa, disk, netVars, serverVars, made, troubles, mishaps>>

-----------------------------------------------------------------------------
(* The account's connection.                                                *)

\* _start_sync: matrix_e2e_get_device_keys restores the account and sends the
\* device keys; the sync loop starts.
Connect ==
  /\ phase = "down" /\ Cardinality(uploads) < MaxUploads
  /\ oa' = stored /\ sync' = NewSync
  /\ \/ /\ uploads' = uploads \cup {NewUpload({}, FALSE)} /\ phase' = "up"
        /\ UNCHANGED troubles
     \/ /\ Trouble    \* the request can't be started
        /\ phase' = "closing" /\ UNCHANGED uploads
  /\ UNCHANGED <<stored, disk, serverVars, made, mishaps>>

\* The requests live on, without an answer that matters here: the callbacks
\* run on freed memory.
Orphaned ==
  {[u EXCEPT !.own = FALSE] : u \in {v \in uploads : v.otk /\ ~v.done}}

Unanswered ==
  IF \E u \in uploads : u.own /\ u.otk THEN {"unanswered"} ELSE {}

\* matrixprpl_close: matrix_e2e_cleanup_connection frees the account as it is.
Close ==
  /\ Connected
  /\ IF phase = "closing" THEN UNCHANGED troubles ELSE Trouble
  /\ phase' = "down" /\ oa' = Empty
  /\ uploads' = Orphaned /\ sync' = NoSync
  /\ mishaps' = mishaps \cup Unanswered
  /\ UNCHANGED <<stored, disk, serverVars, made>>

\* The process ends, with settings that were not saved.
Crash ==
  /\ Trouble
  /\ phase' = "down" /\ oa' = Empty /\ stored' = disk
  /\ uploads' = Orphaned /\ sync' = NoSync
  /\ mishaps' = mishaps \cup Unanswered \cup (IF stored # disk THEN {"unsaved"} ELSE {})
  /\ UNCHANGED <<disk, serverVars, made>>

\* libpurple saves the settings, some time after they changed.
Save ==
  /\ disk # stored /\ disk' = stored
  /\ UNCHANGED <<phase, oa, stored, netVars, serverVars, made, troubles, mishaps>>

Network(u) == ServerHandles(u) \/ KeyUploadCallback(u)

Next ==
  \/ \E u \in uploads : Network(u) \/ UploadFails(u)
  \/ ServerResponds \/ SyncComplete \/ SyncFails
  \/ \E k \in offered : Claim(k)
  \/ \E k \in claimed : FirstMessage(k)
  \/ LaterMessage
  \/ Connect \/ Close \/ Crash \/ Save

Spec == Init /\ [][Next]_vars

(* Requests are answered, and /sync within its timeout.  Nobody has to log   *)
(* in, to ask for a key or to write.                                        *)
FairSpec ==
  /\ Spec
  /\ WF_vars(\E u \in uploads : Network(u))
  /\ WF_vars(ServerResponds) /\ WF_vars(SyncComplete)

-----------------------------------------------------------------------------
(* Properties.                                                              *)

\* The account that is, or will be, in use.
Held == IF Connected THEN oa ELSE stored

\* A key that another device may write with, or has been given, is in the
\* account, through uploads, disconnections and restarts: it is stored before
\* anything can lose it.
OfferedKeysHeld ==
  mishaps = {} => offered \cup claimed \subseteq Held.keys

\* "Tell Olm that these one time keys are uploaded": what is marked has been
\* sent, unless two uploads overlapped, when the answer to one marks the other's.
MarkedWereSent ==
  "overlap" \notin mishaps =>
    oa.pub \cup stored.pub \cup disk.pub \subseteq reached

\* "One-time": a key that was given to a device is not offered to another.
OneTimeOnly ==
  mishaps \cap {"overlap", "unanswered", "unsaved"} = {} =>
    offered \cap (claimed \cup used) = {}

\* While connected, the homeserver gets to have half of Max again.
StockRefilled == []<>(phase # "up" \/ Cardinality(offered) >= Half)

\* An answer to an upload may start the next one, but not for ever.
UploadsSettle == <>[](~OtkIn(uploads))
=============================================================================
