-------------------------- MODULE KeyUploadProofs --------------------------
(***************************************************************************)
(* Proofs about KeyUpload, for any number of keys, uploads and failures:   *)
(* what is marked as published was sent, and, as long as nothing goes      *)
(* wrong, every key on offer is held and none is offered twice.            *)
(***************************************************************************)
EXTENDS KeyUpload, FiniteSetTheorems, TLAPS

-----------------------------------------------------------------------------
(* Counts.                                                                  *)

LEMMA HalfIsPositive == Half \in Nat /\ Half >= 1 /\ Half <= Max
BY MaxHasHalf DEF Half

LEMMA CountsTyped ==
  ASSUME NEW n \in Nat, NEW keys \in SUBSET (1..n)
  PROVE  CountsOf(keys) \subseteq Counts
<1>1. IsFiniteSet(1..n)
  BY FS_Interval
<1>2. Cardinality(keys) \in Nat
  BY <1>1, FS_Subset, FS_CardinalityType
<1> QED
  BY <1>2, HalfIsPositive DEF CountsOf, Counts

LEMMA ToCreateTyped ==
  ASSUME NEW c \in Counts, NeedToSend(c)
  PROVE  ToCreate(c) \in Nat
BY HalfIsPositive, MaxHasHalf DEF Counts, NeedToSend, ToCreate

\* Making keys drops none while there is room for all of them.
LEMMA NothingDropped ==
  ASSUME made \in Nat, NEW n \in Nat,
         NEW a \in Account, a.keys \subseteq 1..made,
         Cardinality(a.keys) + n <= Max
  PROVE  a.keys \subseteq Generated(a, n).keys
<1> DEFINE all == a.keys \cup Newest(n)
           kept == {k \in all : Cardinality({j \in all : j > k}) < Max}
<1>1. IsFiniteSet(a.keys) /\ Cardinality(a.keys) \in Nat
  <2>1. IsFiniteSet(1..made)
    BY FS_Interval
  <2> QED
    BY <2>1, FS_Subset, FS_CardinalityType
<1>2. IsFiniteSet(Newest(n)) /\ Cardinality(Newest(n)) <= n
  <2>1. made + 1 \in Int /\ made + n \in Int
    OBVIOUS
  <2>2. /\ IsFiniteSet((made + 1)..(made + n))
        /\ Cardinality((made + 1)..(made + n)) =
             IF made + 1 > made + n THEN 0 ELSE (made + n) - (made + 1) + 1
    BY <2>1, FS_Interval
  <2> QED
    BY <2>2 DEF Newest
<1>3. Cardinality(Newest(n)) \in Nat
  BY <1>2, FS_CardinalityType
<1>4. /\ IsFiniteSet(all)
      /\ Cardinality(all) =
           Cardinality(a.keys) + Cardinality(Newest(n)) - Cardinality(a.keys \cap Newest(n))
  BY <1>1, <1>2, FS_Union
<1>5. Cardinality(a.keys \cap Newest(n)) \in Nat
  BY <1>1, FS_Intersection, FS_CardinalityType
<1>6. Cardinality(all) \in Nat /\ Cardinality(all) <= Max
  <2>1. Cardinality(all) \in Nat
    BY <1>4, FS_CardinalityType
  <2> HIDE DEF all
  <2> QED
    BY <2>1, <1>1, <1>2, <1>3, <1>4, <1>5, MaxHasHalf
<1>7. ASSUME NEW k \in a.keys PROVE Cardinality({j \in all : j > k}) < Max
  <2> DEFINE later == {j \in all : j > k}
  <2>1. k \in all /\ k \in Nat
    BY <1>7
  <2>2. later \subseteq all \ {k}
    BY <2>1
  <2> HIDE DEF all
  <2>3. IsFiniteSet(all \ {k}) /\ Cardinality(all \ {k}) = Cardinality(all) - 1
    BY <1>4, <2>1, FS_RemoveElement
  <2> HIDE DEF later
  <2>4. Cardinality(later) <= Cardinality(all \ {k}) /\ Cardinality(later) \in Nat
    BY <2>2, <2>3, FS_Subset, FS_CardinalityType
  <2>5. Cardinality(later) < Max
    BY <2>3, <2>4, <1>6, MaxHasHalf
  <2> QED
    BY <2>5 DEF later
<1>8. a.keys \subseteq kept
  BY <1>7
<1> QED
  BY <1>8 DEF Generated

-----------------------------------------------------------------------------
(* What looking at the counts does.                                         *)

\* The account may get new keys, which are not marked, and be sent.
Restocks(a, net, bad) ==
  /\ made' \in Nat /\ made <= made'
  /\ oa' \in Account /\ oa'.pub \subseteq oa'.keys /\ oa'.keys \subseteq 1..made'
  /\ oa'.pub \subseteq a.pub
  /\ \A k \in oa'.keys : k \in a.keys \/ k > made
  /\ \A k \in oa'.keys : k \in a.pub => k \in oa'.pub
  /\ bad \subseteq mishaps' /\ mishaps' \subseteq bad \cup Mishaps
  /\ "dropped" \notin mishaps' => a.keys \subseteq oa'.keys
  /\ OtkIn(net) => (oa' = a /\ uploads' = net) \/ "overlap" \in mishaps'
  /\ \/ oa' = a /\ uploads' = net
     \/ "unanswered" \in mishaps' /\ uploads' = net
     \/ uploads' = net \cup {NewUpload(oa'.keys \ oa'.pub, TRUE)}
  /\ phase' \in {phase, "closing"} /\ troubles' \in 0..MaxTroubles

LEMMA HandleCountsRestocks ==
  ASSUME NEW a \in Account, NEW net, NEW bad, NEW c \in Counts,
         a.pub \subseteq a.keys, a.keys \subseteq 1..made, made \in Nat,
         troubles \in 0..MaxTroubles, HandleCounts(a, net, bad, c)
  PROVE  Restocks(a, net, bad)
<1>1. CASE ~NeedToSend(c)
  <2>1. oa' = a /\ uploads' = net /\ mishaps' = bad /\ UNCHANGED <<made, phase, troubles>>
    BY <1>1 DEF HandleCounts
  <2>2. \A k \in oa'.keys : (k \in a.keys \/ k > made) /\ (k \in a.pub => k \in oa'.pub)
    BY <2>1
  <2>3. bad \subseteq mishaps' /\ mishaps' \subseteq bad \cup Mishaps
    BY <2>1
  <2> QED
    BY <2>1, <2>2, <2>3 DEF Restocks
<1>2. CASE NeedToSend(c)
  <2> DEFINE n == ToCreate(c)
             b == Generated(a, n)
  <2>1. n \in Nat
    BY <1>2, ToCreateTyped
  <2>2. oa' = b /\ made' = made + n
    BY <1>2 DEF HandleCounts
  <2>3. b \in Account /\ b.pub \subseteq b.keys /\ b.keys \subseteq 1..made' /\ b.pub \subseteq a.pub
    BY <2>1, <2>2 DEF Generated, Account, Key, Newest
  <2>4. /\ \A k \in b.keys : k \in a.keys \/ k > made
        /\ \A k \in b.keys : k \in a.pub => k \in b.pub
    BY <2>1 DEF Generated, Account, Newest
  <2>5. /\ bad \subseteq mishaps' /\ mishaps' \subseteq bad \cup Mishaps
        /\ OtkIn(net) => "overlap" \in mishaps'
        /\ Cardinality(a.keys) + n > Max => "dropped" \in mishaps'
    BY <1>2 DEF HandleCounts, Mishaps
  <2>6. \/ "unanswered" \in mishaps' /\ uploads' = net
        \/ uploads' = net \cup {NewUpload(b.keys \ b.pub, TRUE)}
    BY <1>2 DEF HandleCounts, KeysToSend, Unpublished
  <2>7. phase' \in {phase, "closing"} /\ troubles' \in 0..MaxTroubles
    <3>1. UNCHANGED <<phase, troubles>> \/ (Trouble /\ phase' = "closing")
      BY <1>2 DEF HandleCounts
    <3>2. CASE UNCHANGED <<phase, troubles>>
      BY <3>2
    <3>3. CASE Trouble /\ phase' = "closing"
      BY <3>3, BoundsAreNumbers DEF Trouble
    <3> QED
      BY <3>1, <3>2, <3>3
  <2>8. "dropped" \notin mishaps' => a.keys \subseteq b.keys
    <3>1. Cardinality(a.keys) \in Nat
      <4>1. IsFiniteSet(1..made)
        BY FS_Interval
      <4> QED
        BY <4>1, FS_Subset, FS_CardinalityType
    <3>2. Cardinality(a.keys) + n <= Max => a.keys \subseteq b.keys
      BY <2>1, NothingDropped
    <3> QED
      BY <3>1, <3>2, <2>1, <2>5, MaxHasHalf
  <2>9. made' \in Nat /\ made <= made'
    BY <2>1, <2>2
  <2> HIDE DEF n, b
  <2> QED
    BY <2>2, <2>3, <2>4, <2>5, <2>6, <2>7, <2>8, <2>9 DEF Restocks
<1> QED
  BY <1>1, <1>2

-----------------------------------------------------------------------------
(* Types.                                                                   *)

\* Only uploads of one-time keys have some, which the homeserver has seen once
\* it has handled them; nobody waits for an answer while disconnected.
Shape ==
  /\ \A u \in uploads : ~u.otk => u.keys = {}
  /\ \A u \in uploads : u.done => u.own /\ u.keys \subseteq reached
  /\ phase = "down" => \A u \in uploads : ~u.own

Typed == TypeOK /\ Shape

LEMMA KeysAreNatural == ASSUME NEW n \in Nat PROVE 1..n \subseteq Key
BY DEF Key

LEMMA NewUploadTyped ==
  ASSUME NEW keys \in SUBSET Key, NEW otk \in BOOLEAN
  PROVE  /\ NewUpload(keys, otk) \in Upload
         /\ NewUpload(keys, otk).keys = keys /\ NewUpload(keys, otk).otk = otk
         /\ ~NewUpload(keys, otk).done /\ NewUpload(keys, otk).own
BY DEF NewUpload, Upload, Counts

LEMMA AccountsTyped ==
  /\ Empty \in Account /\ Empty.keys = {} /\ Empty.pub = {}
  /\ \A a \in Account : a.pub \subseteq a.keys =>
       /\ Published(a) \in Account /\ Published(a).keys = a.keys /\ Published(a).pub = a.keys
       /\ \A k : /\ Removed(a, k) \in Account
                 /\ Removed(a, k).keys = a.keys \ {k} /\ Removed(a, k).pub = a.pub \ {k}
BY DEF Empty, Account, Published, Removed

LEMMA TroubleTyped ==
  ASSUME troubles \in 0..MaxTroubles, Trouble
  PROVE  troubles' \in 0..MaxTroubles
BY BoundsAreNumbers DEF Trouble

\* Looking at the counts keeps the types, whatever uploads net is left of.
LEMMA RestocksTyped ==
  ASSUME Typed, NEW a, NEW net \in SUBSET uploads, Restocks(a, net, mishaps),
         phase # "down", reached' = reached
  PROVE  /\ oa' \in Account /\ oa'.pub \subseteq oa'.keys /\ oa'.keys \subseteq 1..made'
         /\ uploads' \subseteq Upload /\ \A u \in uploads' : u.keys \subseteq 1..made'
         /\ made' \in Nat /\ 1..made \subseteq 1..made'
         /\ phase' \in Phases /\ troubles' \in 0..MaxTroubles /\ mishaps' \in SUBSET Mishaps
         /\ Shape'
<1>1. /\ made \in Nat /\ made' \in Nat /\ made <= made'
      /\ oa' \in Account /\ oa'.pub \subseteq oa'.keys /\ oa'.keys \subseteq 1..made'
  BY DEF Typed, TypeOK, Restocks
<1>2. 1..made \subseteq 1..made'
  BY <1>1
<1> DEFINE keys == oa'.keys \ oa'.pub
           new  == NewUpload(keys, TRUE)
<1>3. keys \in SUBSET Key /\ keys \subseteq 1..made'
  BY <1>1, KeysAreNatural
<1>4. new \in Upload /\ new.keys = keys /\ new.otk /\ ~new.done
  BY <1>3, NewUploadTyped
<1>5. uploads' \subseteq net \cup {new}
  BY DEF Restocks
<1>6. /\ net \subseteq Upload
      /\ \A u \in net : /\ u.keys \subseteq 1..made /\ (~u.otk => u.keys = {})
                        /\ u.done => u.own /\ u.keys \subseteq reached
  BY DEF Typed, TypeOK, Shape
<1> HIDE DEF keys, new
<1>7. uploads' \subseteq Upload /\ \A u \in uploads' : u.keys \subseteq 1..made'
  BY <1>2, <1>3, <1>4, <1>5, <1>6
<1>8. \A u \in uploads' : (~u.otk => u.keys = {}) /\ (u.done => u.own /\ u.keys \subseteq reached)
  BY <1>4, <1>5, <1>6
<1>9. phase' \in Phases \ {"down"}
  BY DEF Restocks, Typed, TypeOK, Phases
<1>10. troubles' \in 0..MaxTroubles /\ mishaps' \in SUBSET Mishaps
  BY DEF Restocks, Typed, TypeOK
<1>11. Shape'
  BY <1>8, <1>9 DEF Shape
<1> QED
  BY <1>1, <1>2, <1>7, <1>9, <1>10, <1>11

LEMMA InitTyped == Init => Typed
<1> SUFFICES ASSUME Init PROVE Typed
  OBVIOUS
<1>1. TypeOK
  BY AccountsTyped, BoundsAreNumbers
     DEF Init, TypeOK, Phases, Syncs, NoSync, Counts, Upload, Mishaps
<1>2. Shape
  BY DEF Init, Shape
<1> QED
  BY <1>1, <1>2 DEF Typed

LEMMA SyncCompleteRestocks ==
  ASSUME Typed, SyncComplete
  PROVE  Restocks(oa, uploads, mishaps)
<1>1. sync.counts \in Counts
  BY DEF Typed, TypeOK, Syncs
<1>2. /\ oa \in Account /\ oa.pub \subseteq oa.keys /\ oa.keys \subseteq 1..made
      /\ made \in Nat /\ troubles \in 0..MaxTroubles
  BY DEF Typed, TypeOK
<1>3. HandleCounts(oa, uploads, mishaps, sync.counts)
  BY DEF SyncComplete
<1> QED
  BY <1>1, <1>2, <1>3, HandleCountsRestocks

\* The account that key_upload_callback goes on with.
Marked(u) == IF u.otk THEN Published(oa) ELSE oa

LEMMA CallbackRestocks ==
  ASSUME Typed, NEW u \in uploads, KeyUploadCallback(u)
  PROVE  /\ Marked(u) \in Account /\ Marked(u).keys = oa.keys
         /\ Marked(u).pub = IF u.otk THEN oa.keys ELSE oa.pub
         /\ stored' = IF u.otk THEN Published(oa) ELSE stored
         /\ Restocks(Marked(u), uploads \ {u}, mishaps)
<1>1. u.counts \in Counts
  BY DEF Typed, TypeOK, Upload
<1>2. /\ oa \in Account /\ oa.pub \subseteq oa.keys /\ oa.keys \subseteq 1..made
      /\ made \in Nat /\ troubles \in 0..MaxTroubles
  BY DEF Typed, TypeOK
<1>3. /\ Marked(u) \in Account /\ Marked(u).keys = oa.keys
      /\ Marked(u).pub = IF u.otk THEN oa.keys ELSE oa.pub
  BY <1>2, AccountsTyped DEF Marked
<1>4. HandleCounts(Marked(u), uploads \ {u}, mishaps, u.counts)
  BY DEF KeyUploadCallback, Marked
<1>5. Marked(u).pub \subseteq Marked(u).keys
  BY <1>2, <1>3
<1>6. stored' = IF u.otk THEN Published(oa) ELSE stored
  BY DEF KeyUploadCallback
<1> HIDE DEF Marked
<1>7. Restocks(Marked(u), uploads \ {u}, mishaps)
  BY <1>1, <1>2, <1>3, <1>4, <1>5, HandleCountsRestocks
<1> QED
  BY <1>3, <1>6, <1>7

LEMMA OrphanedTyped ==
  Typed => \A v \in Orphaned :
    /\ v \in Upload /\ v.otk /\ ~v.done /\ ~v.own
    /\ \E u \in uploads : u.otk /\ ~u.done /\ v.keys = u.keys /\ u.keys \subseteq 1..made
BY DEF Typed, TypeOK, Orphaned, Upload

LEMMA ServerHandlesTyped ==
  ASSUME Typed, NEW u \in uploads, ServerHandles(u)
  PROVE  Typed'
<1>1. u \in Upload /\ u.keys \subseteq 1..made /\ made \in Nat
  BY DEF Typed, TypeOK
<1>2. offered' \subseteq reached' /\ reached' \subseteq 1..made /\ reached \subseteq reached'
  BY <1>1 DEF ServerHandles, Typed, TypeOK
<1>3. CASE u.own
  <2>1. PICK c \in CountsOf(offered') :
          uploads' = (uploads \ {u}) \cup {[u EXCEPT !.done = TRUE, !.counts = c]}
    BY <1>3 DEF ServerHandles
  <2>2. c \in Counts
    BY <1>1, <1>2, CountsTyped
  <2> DEFINE v == [u EXCEPT !.done = TRUE, !.counts = c]
  <2>3. v \in Upload /\ v.keys = u.keys /\ v.otk = u.otk /\ v.own
    BY <1>1, <1>3, <2>2 DEF Upload
  <2>4. u.keys \subseteq reached'
    BY DEF ServerHandles
  <2> HIDE DEF v
  <2>5. uploads' = (uploads \ {u}) \cup {v}
    BY <2>1 DEF v
  <2>6. UNCHANGED <<phase, accountVars, sync, claimed, used, claims, made, troubles, mishaps>>
    BY DEF ServerHandles
  <2>7. TypeOK'
    BY <1>1, <1>2, <2>3, <2>5, <2>6 DEF Typed, TypeOK, accountVars
  <2>8. Shape'
    <3>1. \A w \in uploads' : ~w.otk => w.keys = {}
      BY <2>3, <2>5 DEF Typed, Shape
    <3>2. \A w \in uploads' : w.done => w.own /\ w.keys \subseteq reached'
      BY <1>2, <2>3, <2>4, <2>5 DEF Typed, Shape
    <3>3. phase' # "down"
      BY <1>3, <2>6 DEF Typed, Shape
    <3> QED
      BY <3>1, <3>2, <3>3 DEF Shape
  <2> QED
    BY <2>7, <2>8 DEF Typed
<1>4. CASE ~u.own
  <2>1. uploads' = uploads \ {u}
    BY <1>4 DEF ServerHandles
  <2>2. TypeOK'
    BY <1>1, <1>2, <2>1 DEF ServerHandles, Typed, TypeOK, accountVars
  <2>3. Shape'
    BY <1>2, <2>1 DEF ServerHandles, Typed, TypeOK, Shape, accountVars
  <2> QED
    BY <2>2, <2>3 DEF Typed
<1> QED
  BY <1>3, <1>4

LEMMA StepTyped == Typed /\ [Next]_vars => Typed'
<1> SUFFICES ASSUME Typed, [Next]_vars PROVE Typed'
  OBVIOUS
<1> USE DEF Connected
<1>1. ASSUME NEW u \in uploads, ServerHandles(u) PROVE Typed'
  BY <1>1, ServerHandlesTyped
<1>2. ASSUME NEW u \in uploads, KeyUploadCallback(u) PROVE Typed'
  <2>1. /\ stored' = IF u.otk THEN Published(oa) ELSE stored
        /\ Restocks(Marked(u), uploads \ {u}, mishaps)
    BY <1>2, CallbackRestocks
  <2>2. UNCHANGED <<disk, sync, serverVars>> /\ phase # "down"
    BY <1>2 DEF KeyUploadCallback
  <2>3. stored' \in Account /\ stored'.pub \subseteq stored'.keys /\ stored'.keys \subseteq 1..made
    BY <2>1, AccountsTyped DEF Typed, TypeOK
  <2>4. /\ oa' \in Account /\ oa'.pub \subseteq oa'.keys /\ oa'.keys \subseteq 1..made'
        /\ uploads' \subseteq Upload /\ \A v \in uploads' : v.keys \subseteq 1..made'
        /\ made' \in Nat /\ 1..made \subseteq 1..made'
        /\ phase' \in Phases /\ troubles' \in 0..MaxTroubles /\ mishaps' \in SUBSET Mishaps
        /\ Shape'
    BY <2>1, <2>2, RestocksTyped DEF serverVars
  <2>5. TypeOK'
    BY <2>2, <2>3, <2>4 DEF Typed, TypeOK, serverVars
  <2> QED
    BY <2>4, <2>5 DEF Typed
<1>3. CASE SyncComplete
  <2>1. Restocks(oa, uploads, mishaps)
    BY <1>3, SyncCompleteRestocks
  <2>2. UNCHANGED <<stored, disk, serverVars>> /\ phase # "down" /\ sync' = NewSync
    BY <1>3 DEF SyncComplete
  <2>3. /\ oa' \in Account /\ oa'.pub \subseteq oa'.keys /\ oa'.keys \subseteq 1..made'
        /\ uploads' \subseteq Upload /\ \A v \in uploads' : v.keys \subseteq 1..made'
        /\ made' \in Nat /\ 1..made \subseteq 1..made'
        /\ phase' \in Phases /\ troubles' \in 0..MaxTroubles /\ mishaps' \in SUBSET Mishaps
        /\ Shape'
    BY <2>1, <2>2, RestocksTyped DEF serverVars
  <2>4. sync' \in Syncs
    BY <2>2 DEF NewSync, Syncs, Counts
  <2>5. TypeOK'
    BY <2>2, <2>3, <2>4 DEF Typed, TypeOK, serverVars
  <2> QED
    BY <2>3, <2>5 DEF Typed
<1>4. ASSUME NEW u \in uploads, UploadFails(u) PROVE Typed'
  <2>1. troubles' \in 0..MaxTroubles
    BY <1>4, TroubleTyped DEF UploadFails, Typed, TypeOK
  <2>2. TypeOK'
    <3>1. /\ phase' = "closing" /\ uploads' \subseteq uploads
          /\ mishaps' \subseteq mishaps \cup {"unanswered"}
          /\ UNCHANGED <<accountVars, sync, serverVars, made>>
      BY <1>4 DEF UploadFails
    <3>2. phase' \in Phases /\ mishaps' \in SUBSET Mishaps
      BY <3>1 DEF Phases, Mishaps, Typed, TypeOK
    <3> QED
      BY <2>1, <3>1, <3>2 DEF Typed, TypeOK, accountVars, serverVars
  <2>3. Shape'
    BY <1>4 DEF UploadFails, Typed, Shape, serverVars
  <2> QED
    BY <2>2, <2>3 DEF Typed
<1>5. CASE ServerResponds
  <2>1. PICK c \in CountsOf(offered) : sync' = [at |-> "answered", counts |-> c]
    BY <1>5 DEF ServerResponds
  <2>2. offered \in SUBSET (1..made) /\ made \in Nat
    BY DEF Typed, TypeOK
  <2>3. sync' \in Syncs
    BY <2>1, <2>2, CountsTyped DEF Syncs
  <2> QED
    BY <1>5, <2>3 DEF ServerResponds, Typed, TypeOK, Shape, accountVars, serverVars
<1>6. CASE SyncFails
  <2>1. troubles' \in 0..MaxTroubles
    BY <1>6, TroubleTyped DEF SyncFails, Typed, TypeOK
  <2>2. sync' \in Syncs
    BY <1>6 DEF SyncFails, NoSync, Syncs, Counts
  <2> QED
    BY <1>6, <2>1, <2>2 DEF SyncFails, Typed, TypeOK, Shape, accountVars, serverVars, Phases
<1>7. ASSUME NEW k \in offered, Claim(k) PROVE Typed'
  <2>1. claims' \in 0..MaxClaims
    BY <1>7, BoundsAreNumbers DEF Claim, Typed, TypeOK
  <2> QED
    BY <1>7, <2>1 DEF Claim, Typed, TypeOK, Shape, accountVars, netVars
<1>8. ASSUME NEW k \in claimed, FirstMessage(k) PROVE Typed'
  <2>1. oa \in Account /\ oa.pub \subseteq oa.keys /\ oa.keys \subseteq 1..made
    BY DEF Typed, TypeOK
  <2>2. /\ oa' \in Account /\ oa'.pub \subseteq oa'.keys /\ oa'.keys \subseteq 1..made
        /\ stored' \in {stored, oa'}
    BY <1>8, <2>1, AccountsTyped DEF FirstMessage
  <2> QED
    BY <1>8, <2>2 DEF FirstMessage, Typed, TypeOK, Shape, netVars
<1>9. CASE LaterMessage
  BY <1>9 DEF LaterMessage, Typed, TypeOK, Shape, netVars, serverVars
<1>10. CASE Connect
  <2> DEFINE u == NewUpload({}, FALSE)
  <2>1. u \in Upload /\ u.keys = {} /\ ~u.otk /\ ~u.done /\ u.own
    BY NewUploadTyped
  <2> HIDE DEF u
  <2>2. uploads' \subseteq uploads \cup {u}
    BY <1>10 DEF Connect, u
  <2>3. phase' \in {"up", "closing"}
    BY <1>10 DEF Connect
  <2>4. sync' \in Syncs /\ oa' = stored /\ UNCHANGED <<stored, disk, serverVars, made, mishaps>>
    BY <1>10 DEF Connect, NewSync, Syncs, Counts
  <2>5. troubles' \in 0..MaxTroubles
    BY <1>10, TroubleTyped DEF Connect, Typed, TypeOK
  <2>6. TypeOK'
    BY <2>1, <2>2, <2>3, <2>4, <2>5 DEF Typed, TypeOK, serverVars, Phases
  <2>7. Shape'
    BY <2>1, <2>2, <2>3, <2>4 DEF Typed, Shape, serverVars
  <2> QED
    BY <2>6, <2>7 DEF Typed
<1>11. ASSUME Close \/ Crash PROVE Typed'
  <2>1. /\ oa' = Empty /\ uploads' = Orphaned /\ sync' = NoSync /\ phase' = "down"
        /\ stored' \in {stored, disk} /\ UNCHANGED <<disk, serverVars, made>>
        /\ UNCHANGED troubles \/ Trouble
        /\ mishaps' \subseteq mishaps \cup {"unanswered", "unsaved"}
    BY <1>11 DEF Close, Crash, Unanswered
  <2>2. troubles' \in 0..MaxTroubles
    BY <2>1, TroubleTyped DEF Typed, TypeOK
  <2>3. sync' \in Syncs /\ phase' \in Phases /\ mishaps' \in SUBSET Mishaps
    BY <2>1 DEF NoSync, Syncs, Counts, Phases, Typed, TypeOK, Mishaps
  <2>4. uploads' \subseteq Upload /\ \A u \in uploads' : u.keys \subseteq 1..made
    BY <2>1, OrphanedTyped
  <2>5. TypeOK'
    BY <2>1, <2>2, <2>3, <2>4, AccountsTyped DEF Typed, TypeOK, serverVars
  <2>6. Shape'
    BY <2>1, OrphanedTyped DEF Shape
  <2> QED
    BY <2>5, <2>6 DEF Typed
<1>12. CASE Save
  BY <1>12 DEF Save, Typed, TypeOK, Shape, netVars, serverVars
<1>13. CASE UNCHANGED vars
  BY <1>13 DEF vars, accountVars, netVars, serverVars, Typed, TypeOK, Shape
<1> QED
  BY <1>1, <1>2, <1>3, <1>4, <1>5, <1>6, <1>7, <1>8, <1>9, <1>10, <1>11, <1>12, <1>13
     DEF Next, Network

\* Accounts, uploads and keys on offer keep their types, and a connection that
\* is down has no account: key_upload_callback, the counts and a restart.
THEOREM TypeCorrect == Spec => []TypeOK
<1>1. Typed => TypeOK
  BY DEF Typed
<1> QED
  BY InitTyped, StepTyped, <1>1, PTL DEF Spec

-----------------------------------------------------------------------------
(* What is marked was sent.                                                 *)

\* While no two uploads overlap, the one that waits for its answer carries every
\* key that is not marked, so that marking all of them is right.
SentInv ==
  "overlap" \notin mishaps =>
    /\ oa.pub \cup stored.pub \cup disk.pub \subseteq reached
    /\ \A u \in uploads : u.otk /\ u.own => oa.keys \ oa.pub \subseteq u.keys

LEMMA RestocksSent ==
  ASSUME Typed, NEW a, NEW net \in SUBSET uploads, Restocks(a, net, mishaps),
         "overlap" \notin mishaps', a.pub \subseteq reached,
         \A u \in net : u.otk /\ u.own => a.keys \ a.pub \subseteq u.keys
  PROVE  /\ oa'.pub \subseteq reached
         /\ \A u \in uploads' : u.otk /\ u.own => oa'.keys \ oa'.pub \subseteq u.keys
<1>1. oa'.pub \subseteq a.pub
  BY DEF Restocks
<1>2. CASE oa' = a /\ uploads' = net
  BY <1>1, <1>2
<1>3. CASE ~(oa' = a /\ uploads' = net)
  <2> DEFINE new == NewUpload(oa'.keys \ oa'.pub, TRUE)
  <2>1. \A u \in net : ~u.otk
    BY <1>3 DEF Restocks, OtkIn
  <2>2. uploads' \subseteq net \cup {new}
    BY <1>3 DEF Restocks
  <2>3. new.keys = oa'.keys \ oa'.pub
    BY DEF NewUpload
  <2> HIDE DEF new
  <2> QED
    BY <1>1, <2>1, <2>2, <2>3
<1> QED
  BY <1>2, <1>3

LEMMA StepSent == Typed /\ SentInv /\ [Next]_vars => SentInv'
<1> SUFFICES ASSUME Typed, SentInv, [Next]_vars, "overlap" \notin mishaps'
             PROVE  /\ oa'.pub \cup stored'.pub \cup disk'.pub \subseteq reached'
                    /\ \A u \in uploads' : u.otk /\ u.own => oa'.keys \ oa'.pub \subseteq u.keys
  BY DEF SentInv
<1> DEFINE Goal == /\ oa'.pub \cup stored'.pub \cup disk'.pub \subseteq reached'
                   /\ \A u \in uploads' : u.otk /\ u.own => oa'.keys \ oa'.pub \subseteq u.keys
<1>0. ASSUME mishaps \subseteq mishaps'
      PROVE  /\ oa.pub \cup stored.pub \cup disk.pub \subseteq reached
             /\ \A u \in uploads : u.otk /\ u.own => oa.keys \ oa.pub \subseteq u.keys
  BY <1>0 DEF SentInv
<1>1. ASSUME NEW u \in uploads, ServerHandles(u) PROVE Goal
  <2>1. /\ UNCHANGED <<accountVars, mishaps>> /\ reached \subseteq reached'
        /\ \A w \in uploads' : w \in uploads \/ (w.otk = u.otk /\ w.keys = u.keys /\ u.own)
    <3>1. u \in Upload
      BY DEF Typed, TypeOK
    <3> QED
      BY <1>1, <3>1 DEF ServerHandles, Upload
  <2> QED
    BY <1>0, <2>1 DEF accountVars
<1>2. ASSUME NEW u \in uploads, KeyUploadCallback(u) PROVE Goal
  <2>1. /\ Marked(u).keys = oa.keys /\ Marked(u).pub = IF u.otk THEN oa.keys ELSE oa.pub
        /\ stored' = IF u.otk THEN Published(oa) ELSE stored
        /\ Restocks(Marked(u), uploads \ {u}, mishaps)
    BY <1>2, CallbackRestocks
  <2>2. u.done /\ u.own /\ UNCHANGED <<disk, reached>>
    BY <1>2 DEF KeyUploadCallback, serverVars
  <2>3. u.keys \subseteq reached
    BY <2>2 DEF Typed, Shape
  <2>4. mishaps \subseteq mishaps'
    BY <2>1 DEF Restocks
  <2>5. Marked(u).pub \subseteq reached
    BY <1>0, <2>1, <2>2, <2>3, <2>4
  <2>6. \A w \in uploads \ {u} : w.otk /\ w.own => Marked(u).keys \ Marked(u).pub \subseteq w.keys
    BY <1>0, <2>1, <2>4
  <2>7. /\ oa'.pub \subseteq reached
        /\ \A w \in uploads' : w.otk /\ w.own => oa'.keys \ oa'.pub \subseteq w.keys
    BY <2>1, <2>5, <2>6, RestocksSent
  <2>8. stored'.pub \subseteq reached
    <3>1. oa \in Account /\ oa.pub \subseteq oa.keys
      BY DEF Typed, TypeOK
    <3> QED
      BY <1>0, <2>1, <2>4, <2>5, <3>1, AccountsTyped
  <2> QED
    BY <1>0, <2>2, <2>4, <2>7, <2>8
<1>3. CASE SyncComplete
  <2>1. Restocks(oa, uploads, mishaps) /\ UNCHANGED <<stored, disk, reached>>
    BY <1>3, SyncCompleteRestocks DEF SyncComplete, serverVars
  <2>2. mishaps \subseteq mishaps'
    BY <2>1 DEF Restocks
  <2>3. /\ oa'.pub \subseteq reached
        /\ \A w \in uploads' : w.otk /\ w.own => oa'.keys \ oa'.pub \subseteq w.keys
    BY <1>0, <2>1, <2>2, RestocksSent
  <2> QED
    BY <1>0, <2>1, <2>2, <2>3
<1>4. ASSUME NEW u \in uploads, UploadFails(u) PROVE Goal
  BY <1>0, <1>4 DEF UploadFails, accountVars, serverVars
<1>5. CASE ServerResponds
  BY <1>0, <1>5 DEF ServerResponds, accountVars, serverVars
<1>6. CASE SyncFails
  BY <1>0, <1>6 DEF SyncFails, accountVars, serverVars
<1>7. ASSUME NEW k \in offered, Claim(k) PROVE Goal
  BY <1>0, <1>7 DEF Claim, accountVars, netVars
<1>8. ASSUME NEW k \in claimed, FirstMessage(k) PROVE Goal
  <2>1. oa'.pub \subseteq oa.pub /\ oa'.keys \ oa'.pub \subseteq oa.keys \ oa.pub
    <3>1. oa \in Account /\ oa.pub \subseteq oa.keys
      BY DEF Typed, TypeOK
    <3> QED
      BY <1>8, <3>1, AccountsTyped DEF FirstMessage
  <2>2. stored' \in {stored, oa'}
    BY <1>8 DEF FirstMessage
  <2> QED
    BY <1>0, <1>8, <2>1, <2>2 DEF FirstMessage, netVars
<1>9. CASE LaterMessage
  BY <1>0, <1>9 DEF LaterMessage, netVars, serverVars
<1>10. CASE Connect
  <2>1. \A u \in uploads' : u \in uploads \/ ~u.otk
    BY <1>10 DEF Connect, NewUpload
  <2>2. \A u \in uploads : ~u.own
    BY <1>10 DEF Connect, Typed, Shape
  <2> QED
    BY <1>0, <1>10, <2>1, <2>2 DEF Connect, serverVars
<1>11. ASSUME Close \/ Crash PROVE Goal
  <2>1. /\ oa' = Empty /\ uploads' = Orphaned /\ stored' \in {stored, disk}
        /\ UNCHANGED <<disk, serverVars>> /\ mishaps \subseteq mishaps'
    BY <1>11 DEF Close, Crash
  <2> QED
    BY <1>0, <2>1, OrphanedTyped, AccountsTyped DEF serverVars
<1>12. CASE Save
  BY <1>0, <1>12 DEF Save, netVars, serverVars
<1>13. CASE UNCHANGED vars
  BY <1>0, <1>13 DEF vars, accountVars, netVars, serverVars
<1> QED
  BY <1>1, <1>2, <1>3, <1>4, <1>5, <1>6, <1>7, <1>8, <1>9, <1>10, <1>11, <1>12, <1>13
     DEF Next, Network

\* "Tell Olm that these one time keys are uploaded": key_upload_callback marks
\* every key that the account has by then, and each of them was sent, through
\* failures, disconnections and restarts, unless two uploads overlapped.
THEOREM MarkedSent == Spec => []MarkedWereSent
<1>1. Init => SentInv
  BY AccountsTyped DEF Init, SentInv
<1>2. SentInv => MarkedWereSent
  BY DEF SentInv, MarkedWereSent
<1> QED
  BY InitTyped, StepTyped, StepSent, <1>1, <1>2, PTL DEF Spec

-----------------------------------------------------------------------------
(* No key is offered twice.                                                 *)

LEMMA MishapsStay == Typed /\ [Next]_vars => mishaps \subseteq mishaps'
<1> SUFFICES ASSUME Typed, [Next]_vars PROVE mishaps \subseteq mishaps'
  OBVIOUS
<1>1. ASSUME NEW u \in uploads, KeyUploadCallback(u) PROVE mishaps \subseteq mishaps'
  BY <1>1, CallbackRestocks DEF Restocks
<1>2. CASE SyncComplete
  BY <1>2, SyncCompleteRestocks DEF Restocks
<1> QED
  BY <1>1, <1>2
     DEF Next, Network, vars, ServerHandles, UploadFails, ServerResponds, SyncFails, Claim,
         FirstMessage, LaterMessage, Connect, Close, Crash, Save

Clean == mishaps \cap {"overlap", "unanswered", "unsaved"} = {}

\* Key k was taken up by the homeserver, in a request that will be answered.
InAnswer(k) == \E u \in uploads : u.otk /\ u.done /\ k \in u.keys

\* At most one upload of one-time keys is under way; its keys are new to the
\* homeserver until it takes them up; and a key the homeserver has seen is
\* marked, in memory and in the settings, but for those whose answer will come.
OnceInv ==
  Clean =>
    /\ offered \cap (claimed \cup used) = {}
    /\ \A u \in uploads : u.otk => u.own
    /\ \A u, v \in uploads : u.otk /\ v.otk => u = v
    /\ \A u \in uploads : ~u.done => u.keys \cap reached = {}
    /\ \A k \in (oa.keys \ oa.pub) \cap reached : InAnswer(k)
    /\ \A k \in (stored.keys \ stored.pub) \cap reached : InAnswer(k)

LEMMA RestocksOnce ==
  ASSUME Typed, NEW a, NEW net \in SUBSET uploads, Restocks(a, net, mishaps),
         Clean', reached' = reached,
         \A u \in net : u.otk => u.own,
         \A u, v \in net : u.otk /\ v.otk => u = v,
         \A u \in net : ~u.done => u.keys \cap reached = {},
         \A k \in (a.keys \ a.pub) \cap reached : \E u \in net : u.otk /\ u.done /\ k \in u.keys
  PROVE  /\ \A u \in uploads' : u.otk => u.own
         /\ \A u, v \in uploads' : u.otk /\ v.otk => u = v
         /\ \A u \in uploads' : ~u.done => u.keys \cap reached' = {}
         /\ \A k \in (oa'.keys \ oa'.pub) \cap reached' : InAnswer(k)'
         /\ net \subseteq uploads'
<1> DEFINE new == NewUpload(oa'.keys \ oa'.pub, TRUE)
<1>1. net \subseteq uploads' /\ uploads' \subseteq net \cup {new}
  BY DEF Restocks
<1>2. \A k \in (oa'.keys \ oa'.pub) \cap reached :
        \E u \in net : u.otk /\ u.done /\ k \in u.keys
  <2>1. \A k \in reached : ~(k > made)
    BY DEF Typed, TypeOK
  <2> QED
    BY <2>1 DEF Restocks
<1>3. \A k \in (oa'.keys \ oa'.pub) \cap reached' : InAnswer(k)'
  BY <1>1, <1>2 DEF InAnswer
<1>4. CASE uploads' = net
  BY <1>1, <1>3, <1>4
<1>5. CASE uploads' # net
  <2>1. \A u \in net : ~u.otk
    BY <1>5 DEF Restocks, OtkIn, Clean
  <2>2. (oa'.keys \ oa'.pub) \cap reached = {}
    BY <1>2, <2>1
  <2>3. new.otk /\ new.own /\ new.keys = oa'.keys \ oa'.pub
    BY DEF NewUpload
  <2> HIDE DEF new
  <2> QED
    BY <1>1, <1>3, <2>1, <2>2, <2>3
<1> QED
  BY <1>4, <1>5

LEMMA StepOnce == Typed /\ OnceInv /\ [Next]_vars => OnceInv'
<1> SUFFICES ASSUME Typed, OnceInv, [Next]_vars, Clean'
             PROVE  OnceInv'
  BY DEF OnceInv
<1>0. /\ Clean
      /\ offered \cap (claimed \cup used) = {}
      /\ \A u \in uploads : u.otk => u.own
      /\ \A u, v \in uploads : u.otk /\ v.otk => u = v
      /\ \A u \in uploads : ~u.done => u.keys \cap reached = {}
      /\ \A k \in (oa.keys \ oa.pub) \cap reached : InAnswer(k)
      /\ \A k \in (stored.keys \ stored.pub) \cap reached : InAnswer(k)
  BY MishapsStay DEF OnceInv, Clean
<1>1. ASSUME NEW u \in uploads, ServerHandles(u) PROVE OnceInv'
  <2>1. /\ UNCHANGED <<accountVars, claimed, used>> /\ ~u.done
        /\ offered' = offered \cup u.keys /\ reached' = reached \cup u.keys
    BY <1>1 DEF ServerHandles
  <2>2. u.keys \cap reached = {} /\ claimed \cup used \subseteq reached
    BY <1>0, <2>1 DEF Typed, TypeOK
  <2>3. CASE u.otk
    <3>1. u.own
      BY <1>0, <2>3
    <3>2. PICK v : /\ uploads' = (uploads \ {u}) \cup {v}
                   /\ v.otk /\ v.own /\ v.done /\ v.keys = u.keys
      <4>1. u \in Upload
        BY DEF Typed, TypeOK
      <4>2. PICK c : uploads' = (uploads \ {u}) \cup {[u EXCEPT !.done = TRUE, !.counts = c]}
        BY <1>1, <3>1 DEF ServerHandles
      <4>3. LET w == [u EXCEPT !.done = TRUE, !.counts = c]
            IN w.otk /\ w.own /\ w.done /\ w.keys = u.keys
        BY <2>3, <3>1, <4>1 DEF Upload
      <4> QED
        BY <4>2, <4>3
    <3>3. \A w \in uploads \ {u} : ~w.otk /\ w.keys = {}
      BY <1>0, <2>3 DEF Typed, Shape
    <3>4. \A k \in u.keys : InAnswer(k)'
      BY <3>2 DEF InAnswer
    <3>5. \A k : ~InAnswer(k)
      BY <2>1, <3>3 DEF InAnswer
    <3>6. /\ \A w \in uploads' : w.otk => w.own
          /\ \A w, x \in uploads' : w.otk /\ x.otk => w = x
          /\ \A w \in uploads' : ~w.done => w.keys \cap reached' = {}
      BY <3>2, <3>3
    <3>7. /\ \A k \in (oa'.keys \ oa'.pub) \cap reached' : InAnswer(k)'
          /\ \A k \in (stored'.keys \ stored'.pub) \cap reached' : InAnswer(k)'
      BY <1>0, <2>1, <3>4, <3>5 DEF accountVars
    <3> QED
      BY <1>0, <2>1, <2>2, <3>6, <3>7 DEF OnceInv
  <2>4. CASE ~u.otk
    <3>1. u.keys = {}
      BY <2>4 DEF Typed, Shape
    <3>2. \A w \in uploads' : w \in uploads \/ (~w.otk /\ w.keys = {})
      <4>1. u \in Upload
        BY DEF Typed, TypeOK
      <4>2. \A c : LET w == [u EXCEPT !.done = TRUE, !.counts = c]
                  IN ~w.otk /\ w.keys = {}
        BY <2>4, <3>1, <4>1 DEF Upload
      <4>3. \/ uploads' = uploads \ {u}
            \/ \E c : uploads' = (uploads \ {u}) \cup {[u EXCEPT !.done = TRUE, !.counts = c]}
        BY <1>1 DEF ServerHandles
      <4> QED
        BY <4>2, <4>3
    <3>3. uploads \ {u} \subseteq uploads'
      BY <1>1 DEF ServerHandles
    <3>4. \A k : InAnswer(k) => InAnswer(k)'
      BY <2>4, <3>3 DEF InAnswer
    <3> QED
      BY <1>0, <2>1, <3>1, <3>2, <3>4 DEF OnceInv, accountVars
  <2> QED
    BY <2>3, <2>4
<1>2. ASSUME NEW u \in uploads, KeyUploadCallback(u) PROVE OnceInv'
  <2>1. /\ Marked(u).keys = oa.keys /\ Marked(u).pub = IF u.otk THEN oa.keys ELSE oa.pub
        /\ stored' = IF u.otk THEN Published(oa) ELSE stored
        /\ Restocks(Marked(u), uploads \ {u}, mishaps)
    BY <1>2, CallbackRestocks
  <2>2. UNCHANGED <<offered, claimed, used, reached>>
    BY <1>2 DEF KeyUploadCallback, serverVars
  <2>3. ~u.otk => \A k : InAnswer(k) =>
          \E w \in uploads \ {u} : w.otk /\ w.done /\ k \in w.keys
    BY DEF InAnswer
  <2>4. \A k \in (Marked(u).keys \ Marked(u).pub) \cap reached :
          \E w \in uploads \ {u} : w.otk /\ w.done /\ k \in w.keys
    BY <1>0, <2>1, <2>3
  <2>5. /\ \A w \in uploads' : w.otk => w.own
        /\ \A w, x \in uploads' : w.otk /\ x.otk => w = x
        /\ \A w \in uploads' : ~w.done => w.keys \cap reached' = {}
        /\ \A k \in (oa'.keys \ oa'.pub) \cap reached' : InAnswer(k)'
        /\ uploads \ {u} \subseteq uploads'
    BY <1>0, <2>1, <2>2, <2>4, RestocksOnce
  <2>6. \A k \in (stored'.keys \ stored'.pub) \cap reached' : InAnswer(k)'
    <3>1. CASE u.otk
      <4>1. oa \in Account /\ oa.pub \subseteq oa.keys
        BY DEF Typed, TypeOK
      <4> QED
        BY <2>1, <3>1, <4>1, AccountsTyped
    <3>2. CASE ~u.otk
      BY <1>0, <2>1, <2>2, <2>3, <2>5, <3>2 DEF InAnswer
    <3> QED
      BY <3>1, <3>2
  <2> QED
    BY <1>0, <2>2, <2>5, <2>6 DEF OnceInv
<1>3. CASE SyncComplete
  <2>1. Restocks(oa, uploads, mishaps)
    BY <1>3, SyncCompleteRestocks
  <2>2. UNCHANGED <<stored, offered, claimed, used, reached>>
    BY <1>3 DEF SyncComplete, serverVars
  <2>3. /\ \A w \in uploads' : w.otk => w.own
        /\ \A w, x \in uploads' : w.otk /\ x.otk => w = x
        /\ \A w \in uploads' : ~w.done => w.keys \cap reached' = {}
        /\ \A k \in (oa'.keys \ oa'.pub) \cap reached' : InAnswer(k)'
        /\ uploads \subseteq uploads'
    BY <1>0, <2>1, <2>2, RestocksOnce DEF InAnswer
  <2>4. \A k \in (stored'.keys \ stored'.pub) \cap reached' : InAnswer(k)'
    BY <1>0, <2>2, <2>3 DEF InAnswer
  <2> QED
    BY <1>0, <2>2, <2>3, <2>4 DEF OnceInv
<1>4. ASSUME NEW u \in uploads, UploadFails(u) PROVE OnceInv'
  <2>1. ~u.otk /\ uploads' = uploads \ {u} /\ UNCHANGED <<accountVars, serverVars>>
    BY <1>4 DEF UploadFails, Clean
  <2>2. \A k : InAnswer(k) => InAnswer(k)'
    BY <2>1 DEF InAnswer
  <2> QED
    BY <1>0, <2>1, <2>2 DEF OnceInv, accountVars, serverVars
<1>5. CASE ServerResponds \/ SyncFails \/ Save \/ UNCHANGED vars
  <2>1. UNCHANGED <<oa, stored, uploads, serverVars>>
    BY <1>5 DEF ServerResponds, SyncFails, Save, vars, accountVars, netVars
  <2> QED
    BY <1>0, <2>1 DEF OnceInv, InAnswer, serverVars
<1>6. ASSUME NEW k \in offered, Claim(k) PROVE OnceInv'
  <2>1. UNCHANGED <<oa, stored, uploads, used, reached>>
    BY <1>6 DEF Claim, accountVars, netVars
  <2> QED
    BY <1>0, <1>6, <2>1 DEF OnceInv, InAnswer, Claim
<1>7. ASSUME NEW k \in claimed, FirstMessage(k) PROVE OnceInv'
  <2>1. oa'.keys \ oa'.pub \subseteq oa.keys \ oa.pub
    <3>1. oa \in Account /\ oa.pub \subseteq oa.keys
      BY DEF Typed, TypeOK
    <3> QED
      BY <1>7, <3>1, AccountsTyped DEF FirstMessage
  <2>2. stored' \in {stored, oa'} /\ UNCHANGED <<uploads, offered, reached>>
    BY <1>7 DEF FirstMessage, netVars
  <2>3. claimed' \cup used' = claimed \cup used
    BY <1>7 DEF FirstMessage
  <2> QED
    BY <1>0, <2>1, <2>2, <2>3 DEF OnceInv, InAnswer
<1>8. CASE LaterMessage
  BY <1>0, <1>8 DEF LaterMessage, OnceInv, InAnswer, netVars, serverVars
<1>9. CASE Connect
  <2>1. /\ \A u \in uploads' : u \in uploads \/ (~u.otk /\ u.keys = {})
        /\ uploads \subseteq uploads' /\ oa' = stored /\ UNCHANGED <<stored, serverVars>>
    BY <1>9 DEF Connect, NewUpload
  <2> QED
    BY <1>0, <2>1 DEF OnceInv, InAnswer, serverVars
<1>10. ASSUME Close \/ Crash PROVE OnceInv'
  <2>1. /\ oa' = Empty /\ uploads' = Orphaned /\ stored' = stored
        /\ UNCHANGED serverVars
    BY <1>10 DEF Close, Crash, Clean
  <2>2. \A u \in uploads : ~u.otk
    BY <1>0, <1>10 DEF Close, Crash, Unanswered, Clean
  <2>3. uploads' = {}
    BY <2>1, <2>2 DEF Orphaned
  <2>4. \A k : ~InAnswer(k)
    BY <2>2 DEF InAnswer
  <2> QED
    BY <1>0, <2>1, <2>3, <2>4, AccountsTyped DEF OnceInv, serverVars
<1> QED
  BY <1>1, <1>2, <1>3, <1>4, <1>5, <1>6, <1>7, <1>8, <1>9, <1>10 DEF Next, Network

\* "One-time": send_one_time_keys does not send a key again that the homeserver
\* has given to another device, unless two uploads overlapped, one was not
\* answered, or the settings were lost before they were saved.
THEOREM OfferedOnce == Spec => []OneTimeOnly
<1>1. Init => OnceInv
  BY AccountsTyped DEF Init, OnceInv
<1>2. OnceInv => OneTimeOnly
  BY DEF OnceInv, OneTimeOnly, Clean
<1> QED
  BY InitTyped, StepTyped, StepOnce, <1>1, <1>2, PTL DEF Spec

-----------------------------------------------------------------------------
(* Keys on offer are held.                                                  *)

\* With every step going well, the keys that others have, or can get, are in the
\* account, in use and stored; but those whose answer has not come may not be
\* stored yet, and what is being sent is in the account.
HeldInv ==
  mishaps = {} =>
    /\ offered \cup claimed \subseteq Held.keys
    /\ \A u \in uploads : ~u.done => u.keys \subseteq oa.keys
    /\ \A k \in offered \cup claimed : k \in stored.keys \/ InAnswer(k)

LEMMA RestocksHeld ==
  ASSUME NEW a, NEW net \in SUBSET uploads, Restocks(a, net, mishaps), phase # "down",
         mishaps' = {}, UNCHANGED <<offered, claimed>>,
         offered \cup claimed \subseteq a.keys,
         \A u \in net : ~u.done => u.keys \subseteq a.keys
  PROVE  /\ (offered \cup claimed)' \subseteq Held'.keys
         /\ \A u \in uploads' : ~u.done => u.keys \subseteq oa'.keys
         /\ net \subseteq uploads'
<1>1. a.keys \subseteq oa'.keys
  BY DEF Restocks
<1>2. Held' = oa'
  BY DEF Restocks, Held, Connected
<1> DEFINE new == NewUpload(oa'.keys \ oa'.pub, TRUE)
<1>3. net \subseteq uploads' /\ uploads' \subseteq net \cup {new}
  BY DEF Restocks
<1>4. new.keys \subseteq oa'.keys
  BY DEF NewUpload
<1> HIDE DEF new
<1> QED
  BY <1>1, <1>2, <1>3, <1>4

LEMMA StepHeld == Typed /\ OnceInv /\ HeldInv /\ [Next]_vars => HeldInv'
<1> SUFFICES ASSUME Typed, OnceInv, HeldInv, [Next]_vars, mishaps' = {}
             PROVE  HeldInv'
  BY DEF HeldInv
<1>0. /\ mishaps = {}
      /\ offered \cup claimed \subseteq Held.keys
      /\ \A u \in uploads : ~u.done => u.keys \subseteq oa.keys
      /\ \A k \in offered \cup claimed : k \in stored.keys \/ InAnswer(k)
  BY MishapsStay DEF HeldInv
<1>a. /\ offered \cap (claimed \cup used) = {}
      /\ \A u \in uploads : u.otk => u.own
      /\ \A u \in uploads : ~u.done => u.keys \cap reached = {}
  BY <1>0 DEF OnceInv, Clean
<1>b. phase # "down" => Held = oa
  BY DEF Held, Connected
<1>1. ASSUME NEW u \in uploads, ServerHandles(u) PROVE HeldInv'
  <2>1. /\ UNCHANGED <<phase, accountVars, claimed>> /\ ~u.done
        /\ offered' = offered \cup u.keys /\ Held' = Held
    BY <1>1 DEF ServerHandles, Held, Connected, accountVars
  <2>2. u \in Upload
    BY DEF Typed, TypeOK
  <2>3. u.otk => u.own /\ Held = oa
    BY <1>a, <1>b DEF Typed, Shape
  <2>4. u.keys \subseteq Held.keys
    BY <1>0, <2>1, <2>3 DEF Typed, Shape
  <2>5. uploads \ {u} \subseteq uploads'
    BY <1>1 DEF ServerHandles
  <2>6. \A w \in uploads' : w \in uploads \/ (w.done /\ w.otk = u.otk /\ w.keys = u.keys)
    <3>1. \A c : LET w == [u EXCEPT !.done = TRUE, !.counts = c]
                IN w.done /\ w.otk = u.otk /\ w.keys = u.keys
      BY <2>2 DEF Upload
    <3>2. \/ uploads' = uploads \ {u}
          \/ \E c : uploads' = (uploads \ {u}) \cup {[u EXCEPT !.done = TRUE, !.counts = c]}
      BY <1>1 DEF ServerHandles
    <3> QED
      BY <3>1, <3>2
  <2>7. \A k \in u.keys : InAnswer(k)'
    <3>1. CASE ~u.otk
      BY <3>1 DEF Typed, Shape
    <3>2. CASE u.otk
      <4>1. \E w \in uploads' : w.done /\ w.otk /\ w.keys = u.keys
        <5>1. PICK c : uploads' = (uploads \ {u}) \cup {[u EXCEPT !.done = TRUE, !.counts = c]}
          BY <1>1, <2>3, <3>2 DEF ServerHandles
        <5> DEFINE w == [u EXCEPT !.done = TRUE, !.counts = c]
        <5>2. w \in uploads' /\ w.done /\ w.otk /\ w.keys = u.keys
          BY <5>1, <2>2, <3>2 DEF Upload
        <5> QED
          BY <5>2
      <4> QED
        BY <4>1 DEF InAnswer
    <3> QED
      BY <3>1, <3>2
  <2>8. \A k : InAnswer(k) => InAnswer(k)'
    BY <2>1, <2>5 DEF InAnswer
  <2> QED
    BY <1>0, <2>1, <2>4, <2>6, <2>7, <2>8 DEF HeldInv, accountVars
<1>2. ASSUME NEW u \in uploads, KeyUploadCallback(u) PROVE HeldInv'
  <2>1. /\ Marked(u).keys = oa.keys
        /\ stored' = IF u.otk THEN Published(oa) ELSE stored
        /\ Restocks(Marked(u), uploads \ {u}, mishaps)
    BY <1>2, CallbackRestocks
  <2>2. UNCHANGED <<offered, claimed>> /\ phase # "down"
    BY <1>2 DEF KeyUploadCallback, serverVars, Connected
  <2>3. offered \cup claimed \subseteq oa.keys
    BY <1>0, <1>b, <2>2
  <2>4. /\ (offered \cup claimed)' \subseteq Held'.keys
        /\ \A w \in uploads' : ~w.done => w.keys \subseteq oa'.keys
        /\ uploads \ {u} \subseteq uploads'
    BY <1>0, <2>1, <2>2, <2>3, RestocksHeld
  <2>5. \A k \in offered' \cup claimed' : k \in stored'.keys \/ InAnswer(k)'
    <3>1. CASE u.otk
      <4>1. oa \in Account /\ oa.pub \subseteq oa.keys
        BY DEF Typed, TypeOK
      <4>2. stored'.keys = oa.keys
        BY <2>1, <3>1, <4>1, AccountsTyped
      <4> QED
        BY <2>2, <2>3, <4>2
    <3>2. CASE ~u.otk
      BY <1>0, <2>1, <2>2, <2>4, <3>2 DEF InAnswer
    <3> QED
      BY <3>1, <3>2
  <2> QED
    BY <2>4, <2>5 DEF HeldInv
<1>3. CASE SyncComplete
  <2>1. Restocks(oa, uploads, mishaps)
    BY <1>3, SyncCompleteRestocks
  <2>2. UNCHANGED <<stored, offered, claimed>> /\ phase # "down"
    BY <1>3 DEF SyncComplete, serverVars, Connected
  <2>3. offered \cup claimed \subseteq oa.keys
    BY <1>0, <1>b, <2>2
  <2>4. /\ (offered \cup claimed)' \subseteq Held'.keys
        /\ \A w \in uploads' : ~w.done => w.keys \subseteq oa'.keys
        /\ uploads \subseteq uploads'
    BY <1>0, <2>1, <2>2, <2>3, RestocksHeld
  <2>5. \A k : InAnswer(k) => InAnswer(k)'
    BY <2>4 DEF InAnswer
  <2> QED
    BY <1>0, <2>2, <2>4, <2>5 DEF HeldInv
<1>4. ASSUME NEW u \in uploads, UploadFails(u) PROVE HeldInv'
  <2>1. ~u.otk /\ uploads' = uploads \ {u} /\ UNCHANGED <<accountVars, serverVars>>
    BY <1>4 DEF UploadFails
  <2>2. \A k : InAnswer(k) => InAnswer(k)'
    BY <2>1 DEF InAnswer
  <2>3. Held' = Held
    BY <1>4, <2>1 DEF UploadFails, Held, Connected, accountVars
  <2> QED
    BY <1>0, <2>1, <2>2, <2>3 DEF HeldInv, accountVars, serverVars
<1>5. CASE ServerResponds \/ SyncFails \/ Save \/ UNCHANGED vars
  <2>1. UNCHANGED <<oa, stored, uploads, serverVars>> /\ Held' = Held
    BY <1>5 DEF ServerResponds, SyncFails, Save, vars, accountVars, netVars, Held, Connected
  <2> QED
    BY <1>0, <2>1 DEF HeldInv, InAnswer, serverVars
<1>6. ASSUME NEW k \in offered, Claim(k) PROVE HeldInv'
  <2>1. UNCHANGED <<phase, oa, stored, uploads>> /\ Held' = Held
    BY <1>6 DEF Claim, accountVars, netVars, Held, Connected
  <2>2. offered' \cup claimed' = offered \cup claimed
    BY <1>6 DEF Claim
  <2> QED
    BY <1>0, <2>1, <2>2 DEF HeldInv, InAnswer
<1>7. ASSUME NEW k \in claimed, FirstMessage(k) PROVE HeldInv'
  <2>1. /\ UNCHANGED <<phase, uploads>> /\ phase # "down"
        /\ oa' = oa \/ oa'.keys = oa.keys \ {k}
        /\ stored' \in {stored, oa'}
    <3>1. oa \in Account /\ oa.pub \subseteq oa.keys
      BY DEF Typed, TypeOK
    <3> QED
      BY <1>7, <3>1, AccountsTyped DEF FirstMessage, netVars, Connected
  <2>2. offered' \cup claimed' = (offered \cup claimed) \ {k}
    BY <1>7, <1>a DEF FirstMessage
  <2>3. (offered \cup claimed) \ {k} \subseteq oa'.keys
    BY <1>0, <1>b, <2>1
  <2>4. Held' = oa'
    BY <2>1 DEF Held, Connected
  <2>5. \A u \in uploads : ~u.done => u.keys \subseteq oa'.keys
    <3>1. k \in reached
      BY DEF Typed, TypeOK
    <3> QED
      BY <1>0, <1>a, <2>1, <3>1
  <2>6. \A j \in offered' \cup claimed' : j \in stored'.keys \/ InAnswer(j)'
    BY <1>0, <2>1, <2>2, <2>3 DEF InAnswer
  <2> QED
    BY <2>1, <2>2, <2>3, <2>4, <2>5, <2>6 DEF HeldInv
<1>8. CASE LaterMessage
  <2>1. UNCHANGED <<phase, oa, offered, claimed, uploads>> /\ stored' = oa /\ Held' = oa
    BY <1>8 DEF LaterMessage, netVars, serverVars, Held, Connected
  <2> QED
    BY <1>0, <1>8, <1>b, <2>1 DEF HeldInv, LaterMessage, Connected
<1>9. CASE Connect
  <2>1. /\ \A u \in uploads' : u \in uploads \/ u.keys = {}
        /\ uploads \subseteq uploads' /\ oa' = stored /\ UNCHANGED <<stored, serverVars>>
        /\ phase = "down" /\ phase' # "down"
    BY <1>9 DEF Connect, NewUpload
  <2>2. Held = stored /\ Held' = stored
    BY <2>1 DEF Held, Connected
  <2>3. \A u \in uploads : u.keys = {}
    BY <1>a, <2>1 DEF Typed, Shape
  <2>4. \A k : InAnswer(k) => InAnswer(k)'
    BY <2>1 DEF InAnswer
  <2> QED
    BY <1>0, <2>1, <2>2, <2>3, <2>4 DEF HeldInv, serverVars
<1>10. ASSUME Close \/ Crash PROVE HeldInv'
  <2>1. /\ uploads' = Orphaned /\ stored' = stored /\ phase' = "down"
        /\ UNCHANGED serverVars
    BY <1>10 DEF Close, Crash
  <2>2. \A u \in uploads : ~u.otk
    BY <1>a, <1>10 DEF Close, Crash, Unanswered
  <2>3. uploads' = {}
    BY <2>1, <2>2 DEF Orphaned
  <2>4. \A k \in offered \cup claimed : k \in stored.keys
    BY <1>0, <2>2 DEF InAnswer
  <2>5. Held' = stored
    BY <2>1 DEF Held, Connected
  <2> QED
    BY <2>1, <2>3, <2>4, <2>5 DEF HeldInv, serverVars
<1> QED
  BY <1>1, <1>2, <1>3, <1>4, <1>5, <1>6, <1>7, <1>8, <1>9, <1>10 DEF Next, Network

\* Every key that other devices have, or can get, is in the account, through
\* uploads, messages, disconnections and restarts: key_upload_callback and
\* decrypt_olm store it before it can be lost.
THEOREM OfferedHeld == Spec => []OfferedKeysHeld
<1>1. Init => HeldInv
  BY AccountsTyped DEF Init, HeldInv, Held, Connected
<1>2. Init => OnceInv
  BY AccountsTyped DEF Init, OnceInv
<1>3. HeldInv => OfferedKeysHeld
  BY DEF HeldInv, OfferedKeysHeld
<1> QED
  BY InitTyped, StepTyped, StepOnce, StepHeld, <1>1, <1>2, <1>3, PTL DEF Spec
=============================================================================
