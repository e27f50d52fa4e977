-------------------------- MODULE SendQueueProofs --------------------------
(***************************************************************************)
(* Proofs about SendQueue, for every set of events, images and handles.    *)
(*                                                                         *)
(* First what holds whatever the environment does, from the invariant      *)
(* Ordered; then, for a room without incoming attachments, the invariant   *)
(* Guarded, which adds how the slot, the head of the queue and the         *)
(* homeserver's timeline go together, on it Imaged, about the references   *)
(* of images and the slot, and Kept, about what nothing has failed for.    *)
(***************************************************************************)
EXTENDS SendQueue, SequenceTheorems, TLAPS

USE DEF failVars

\* An event is enqueued once: its txn_id is its own.
TypedOnce == \A i, j \in DOMAIN typed : typed[i] = typed[j] => i = j

\* Only what was typed is sent.
SentWasTyped == sent \subseteq Elems(typed)

\* A send or upload in flight is not for an event behind the head.
FlightsOfHeads ==
  \A h \in Handles : Outbound(h) =>
    /\ requests[h].event \in Elems(typed)
    /\ \A i \in DOMAIN queue : i > 1 => queue[i] # requests[h].event

Ordered == TypeOK /\ TypedOnce /\ QueueIsSuffix /\ OnlyHeadEverSent
           /\ SentWasTyped /\ FlightsOfHeads

-----------------------------------------------------------------------------
(* The shared building blocks.                                              *)

\* What reference counting leaves is a reference count.
LEMMA UnrefType ==
  ASSUME NEW refs \in [Images -> Int], NEW e
  PROVE  Unref(e, refs) \in [Images -> Int]
<1>1. CASE e \in Images
  BY <1>1 DEF Unref
<1>2. CASE e \notin Images
  <2>1. [refs EXCEPT ![e] = @ - 1] = refs
    BY <1>2
  <2>q. QED BY <2>1 DEF Unref
<1>q. QED BY <1>1, <1>2

\* Starting a send keeps the types, and touches the network and the requests
\* only for the event it is given.
LEMMA StartSendEffect ==
  ASSUME TypeOK, NEW r \in [Handles -> Request], NEW e \in Events,
         NEW stale \in BOOLEAN, StartSend(r, e, stale)
  PROVE  /\ active' \in Handles \cup {None} /\ requests' \in [Handles -> Request]
         /\ link' \in Links /\ failures' \in 0..MaxFailures /\ failed' \in SUBSET Images
         /\ sent' \subseteq sent \cup {e}
         /\ \A h \in Handles : requests'[h] = r[h] \/ requests'[h].event = e
<1>1. CASE Started(r, "send", e, stale)
  BY <1>1 DEF Started, TypeOK, Request
<1>2. CASE Fails(e) /\ Report(FALSE, stale) /\ requests' = r /\ active' = None
           /\ UNCHANGED sent
  BY <1>2, FailuresBounded DEF Fails, Report, TypeOK, Links
<1>q. QED BY <1>1, <1>2 DEF StartSend

\* The same of the image hook, which uploads and sends nothing.
LEMMA SendImageHookEffect ==
  ASSUME TypeOK, NEW r \in [Handles -> Request], NEW e \in Events,
         NEW refs \in [Images -> Int], SendImageHook(r, e, refs)
  PROVE  /\ active' \in Handles \cup {None} /\ requests' \in [Handles -> Request]
         /\ link' \in Links /\ failures' \in 0..MaxFailures /\ failed' \in SUBSET Images
         /\ plugRefs' \in [Images -> Int] /\ sent' = sent
         /\ \A h \in Handles : requests'[h] = r[h] \/ requests'[h].event = e
<1>1. CASE requests' = r /\ plugRefs' = refs
           /\ UNCHANGED <<active, sent, link, failVars>>
  BY <1>1 DEF TypeOK
<1>2. CASE Started(r, "upload", e, FALSE) /\ plugRefs' = refs
  BY <1>2 DEF Started, TypeOK, Request
<1>3. CASE Fails(e) /\ Report(FALSE, FALSE) /\ requests' = r /\ active' = None
           /\ plugRefs' = Unref(e, refs) /\ UNCHANGED sent
  <2>1. plugRefs' \in [Images -> Int]
    BY <1>3, UnrefType
  <2>q. QED BY <1>3, <2>1, FailuresBounded DEF Fails, Report, TypeOK, Links
<1>q. QED BY <1>1, <1>2, <1>3 DEF SendImageHook

\* Sending the next queued event touches nothing but its head.
LEMMA SendQueuedEffect ==
  ASSUME TypeOK, NEW q \in Seq(Events), NEW r \in [Handles -> Request],
         NEW refs \in [Images -> Int], SendQueuedEvent(q, r, refs)
  PROVE  /\ active' \in Handles \cup {None} /\ requests' \in [Handles -> Request]
         /\ link' \in Links /\ failures' \in 0..MaxFailures /\ failed' \in SUBSET Images
         /\ plugRefs' \in [Images -> Int]
         /\ \A e \in sent' : e \in sent \/ (q # << >> /\ e = Head(q))
         /\ \A h \in Handles : \/ requests'[h] = r[h]
                               \/ q # << >> /\ requests'[h].event = Head(q)
<1>1. CASE q = << >> \/ link = "dying"
  <2>1. CASE active' = None /\ requests' = r /\ plugRefs' = refs
             /\ UNCHANGED <<sent, link, failVars>>
    BY <2>1 DEF TypeOK
  <2>q. QED BY <1>1, <2>1 DEF SendQueuedEvent, NextEvent
<1>2. CASE q # << >> /\ link # "dying"
  <2>1. Head(q) \in Events
    BY <1>2
  <2>2. CASE SendImageHook(r, Head(q), refs)
    BY <1>2, <2>1, <2>2, SendImageHookEffect
  <2>3. CASE StartSend(r, Head(q), FALSE) /\ plugRefs' = refs
    BY <1>2, <2>1, <2>3, StartSendEffect
  <2>q. QED BY <1>2, <2>2, <2>3 DEF SendQueuedEvent, NextEvent
<1>q. QED BY <1>1, <1>2

-----------------------------------------------------------------------------
(* Sequences.                                                               *)

\* What appending does to a sequence's elements.
LEMMA AppendFacts ==
  ASSUME NEW s \in Seq(Events), NEW e \in Events
  PROVE  /\ Append(s, e) \in Seq(Events)
         /\ Len(Append(s, e)) = Len(s) + 1 /\ Len(s) \in Nat
         /\ DOMAIN s = 1..Len(s) /\ DOMAIN Append(s, e) = 1..(Len(s) + 1)
         /\ \A i \in 1..Len(s) : Append(s, e)[i] = s[i]
         /\ Append(s, e)[Len(s) + 1] = e
         /\ Elems(Append(s, e)) = Elems(s) \cup {e}
<1>1. /\ Append(s, e) \in Seq(Events)
      /\ Len(Append(s, e)) = Len(s) + 1 /\ Len(s) \in Nat
      /\ DOMAIN s = 1..Len(s) /\ DOMAIN Append(s, e) = 1..(Len(s) + 1)
      /\ \A i \in 1..Len(s) : Append(s, e)[i] = s[i]
      /\ Append(s, e)[Len(s) + 1] = e
  OBVIOUS
<1>2. Elems(Append(s, e)) = Elems(s) \cup {e}
  BY <1>1 DEF Elems
<1>q. QED BY <1>1, <1>2

\* What popping the head leaves.
LEMMA TailFacts ==
  ASSUME NEW s \in Seq(Events), s # << >>
  PROVE  /\ Tail(s) \in Seq(Events) /\ Head(s) \in Events /\ Head(s) = s[1]
         /\ Len(s) \in Nat /\ Len(s) > 0 /\ Len(Tail(s)) = Len(s) - 1
         /\ DOMAIN s = 1..Len(s) /\ DOMAIN Tail(s) = 1..(Len(s) - 1)
         /\ \A i \in 1..(Len(s) - 1) : Tail(s)[i] = s[i + 1]
OBVIOUS

-----------------------------------------------------------------------------
(* Ordered is an invariant of every environment.                            *)

LEMMA OrderedInit == Init => Ordered
<1> SUFFICES ASSUME Init PROVE Ordered
  OBVIOUS
<1>1. TypeOK
  BY FailuresBounded DEF Init, TypeOK, Request, Free, Links, Faults
<1>2. TypedOnce /\ QueueIsSuffix /\ OnlyHeadEverSent /\ SentWasTyped
  BY DEF Init, TypedOnce, QueueIsSuffix, OnlyHeadEverSent, SentWasTyped
<1>3. FlightsOfHeads
  BY DEF Init, FlightsOfHeads, Outbound, Free
<1>q. QED BY <1>1, <1>2, <1>3 DEF Ordered

\* A step that keeps the queue and what was typed keeps the order if it sends,
\* and has in flight, only what it had or one event e that no message waits
\* in front of.
LEMMA OrderedKept ==
  ASSUME Ordered, TypeOK', UNCHANGED typed,
         queue' = queue \/ queue' = << >>,
         NEW e,
         e \in Elems(typed) /\ (\A i \in DOMAIN queue : i > 1 => queue[i] # e),
         sent' \subseteq sent \cup {e},
         \A h \in Handles : \/ requests'[h] = requests[h]
                            \/ requests'[h].kind \notin {"send", "upload"}
                            \/ requests'[h].event = e
                            \/ requests'[h].event = requests[h].event /\ Outbound(h)
  PROVE  Ordered'
<1>1. TypedOnce'
  BY DEF Ordered, TypedOnce
<1>2. QueueIsSuffix'
  BY DEF Ordered, QueueIsSuffix, TypeOK
<1>3. OnlyHeadEverSent'
  BY DEF Ordered, OnlyHeadEverSent
<1>4. SentWasTyped'
  BY DEF Ordered, SentWasTyped, Elems
<1>5. FlightsOfHeads'
  BY DEF Ordered, FlightsOfHeads, Outbound, Elems
<1>q. QED BY <1>1, <1>2, <1>3, <1>4, <1>5 DEF Ordered

\* A step that ends in Dies(f) changes nothing but the fault.
LEMMA OrderedDies ==
  ASSUME Ordered, NEW f \in Faults, Dies(f)
  PROVE  Ordered'
BY DEF Ordered, TypeOK, TypedOnce, QueueIsSuffix, OnlyHeadEverSent, SentWasTyped,
       FlightsOfHeads, Dies, queueVars, imageVars, netVars, Outbound

\* Releasing a request leaves a request table.
LEMMA ReleasedType ==
  ASSUME TypeOK, NEW h \in Handles
  PROVE  /\ Released(h) \in [Handles -> Request]
         /\ Released(h)[h].kind = "free"
         /\ \A g \in Handles : g # h => Released(h)[g] = requests[g]
BY DEF TypeOK, Released, Request, Free

LEMMA OrderedEnqueue ==
  ASSUME Ordered, NEW e \in Events, Enqueue(e)
  PROVE  Ordered'
<1> DEFINE refs == [x \in Images |-> IF x = e THEN plugRefs[x] + 1 ELSE plugRefs[x]]
<1>0. TypeOK /\ queue \in Seq(Events) /\ typed \in Seq(Events)
      /\ requests \in [Handles -> Request]
  BY DEF Ordered, TypeOK
<1>1. /\ queue' = Append(queue, e) /\ typed' = Append(typed, e)
      /\ uiHolds' = uiHolds \cup ({e} \cap Images)
      /\ UNCHANGED <<room, log, fault>> /\ e \notin Elems(typed)
  BY DEF Enqueue, SendInProgress
<1>2. queue' \in Seq(Events) /\ refs \in [Images -> Int]
  BY <1>0, <1>1, AppendFacts DEF TypeOK
<1>3. /\ active' \in Handles \cup {None} /\ requests' \in [Handles -> Request]
      /\ link' \in Links /\ failures' \in 0..MaxFailures /\ failed' \in SUBSET Images
      /\ plugRefs' \in [Images -> Int]
      /\ \A x \in sent' : x \in sent \/ x = Head(queue')
      /\ \A h \in Handles : \/ requests'[h] = requests[h]
                            \/ requests'[h].event = Head(queue')
  <2>1. CASE active # None /\ plugRefs' = refs
             /\ UNCHANGED <<active, requests, sent, link, failVars>>
    BY <2>1, <1>0, <1>2 DEF TypeOK
  <2>2. CASE active = None /\ SendQueuedEvent(queue', requests, refs)
    BY <2>2, <1>0, <1>2, SendQueuedEffect
  <2>q. QED BY <2>1, <2>2 DEF Enqueue, SendInProgress
<1>4. Head(queue') = queue'[1] /\ queue'[1] \in Events
  BY <1>0, <1>1, AppendFacts
<1>5. sent' \in SUBSET Events
  BY <1>3, <1>4, <1>0 DEF TypeOK
<1>6. TypeOK'
  BY <1>0, <1>1, <1>2, <1>3, <1>5, AppendFacts DEF TypeOK
<1>7. TypedOnce'
  BY <1>0, <1>1, AppendFacts DEF Ordered, TypedOnce, Elems
<1>8. QueueIsSuffix'
  <2>1. /\ Len(queue') = Len(queue) + 1 /\ Len(typed') = Len(typed) + 1
        /\ Len(queue) \in Nat /\ Len(typed) \in Nat
        /\ DOMAIN queue = 1..Len(queue) /\ DOMAIN queue' = 1..(Len(queue) + 1)
        /\ \A i \in 1..Len(queue) : queue'[i] = queue[i]
        /\ \A i \in 1..Len(typed) : typed'[i] = typed[i]
        /\ queue'[Len(queue) + 1] = e /\ typed'[Len(typed) + 1] = e
    BY <1>0, <1>1, AppendFacts
  <2>2. /\ Len(queue) <= Len(typed)
        /\ \A i \in 1..Len(queue) : queue[i] = typed[Len(typed) - Len(queue) + i]
    BY <2>1 DEF Ordered, QueueIsSuffix
  <2>3. Len(typed') - Len(queue') = Len(typed) - Len(queue)
    BY <2>1
  <2>4. ASSUME NEW i \in 1..(Len(queue) + 1)
        PROVE  queue'[i] = typed'[Len(typed) - Len(queue) + i]
    <3>1. CASE i = Len(queue) + 1
      BY <3>1, <2>1
    <3>2. CASE i \in 1..Len(queue)
      <4>1. Len(typed) - Len(queue) + i \in 1..Len(typed)
        BY <3>2, <2>1, <2>2
      <4>q. QED BY <4>1, <3>2, <2>1, <2>2
    <3>q. QED BY <3>1, <3>2, <2>1
  <2>q. QED BY <2>1, <2>2, <2>3, <2>4 DEF QueueIsSuffix
<1>9. \A i \in DOMAIN queue' : i > 1 =>
         \/ i \in DOMAIN queue /\ queue'[i] = queue[i]
         \/ queue'[i] = e
  BY <1>0, <1>1, AppendFacts
<1>10. Elems(queue') \subseteq Elems(typed')
  <2>1. Elems(queue) \subseteq Elems(typed)
    BY <1>0 DEF Ordered, QueueIsSuffix, Elems
  <2>q. QED BY <1>0, <1>1, <2>1, AppendFacts
<1>11. \A i \in DOMAIN queue' : i > 1 => queue'[i] # Head(queue')
  <2>1. DOMAIN queue' = 1..Len(queue') /\ Len(queue') \in Nat
    BY <1>2
  <2>2. DOMAIN typed' = 1..Len(typed') /\ Len(typed') \in Nat
    BY <1>0, <1>1, AppendFacts
  <2>q. QED BY <1>4, <1>7, <1>8, <2>1, <2>2 DEF TypedOnce, QueueIsSuffix
<1>12. OnlyHeadEverSent'
  <2>1. e \notin sent
    BY <1>1 DEF Ordered, SentWasTyped
  <2>q. QED BY <1>3, <1>9, <1>11, <2>1 DEF Ordered, OnlyHeadEverSent
<1>13. Head(queue') \in Elems(typed')
  <2>1. 1 \in DOMAIN queue'
    BY <1>0, <1>1, AppendFacts
  <2>q. QED BY <1>4, <1>10, <2>1 DEF Elems
<1>14. SentWasTyped'
  BY <1>0, <1>1, <1>3, <1>13, AppendFacts DEF Ordered, SentWasTyped
<1>15. FlightsOfHeads'
  <2> SUFFICES ASSUME NEW h \in Handles, Outbound(h)'
               PROVE  /\ requests'[h].event \in Elems(typed')
                      /\ \A i \in DOMAIN queue' : i > 1 => queue'[i] # requests'[h].event
    BY DEF FlightsOfHeads
  <2>1. CASE requests'[h] = requests[h]
    <3>1. Outbound(h)
      BY <2>1 DEF Outbound
    <3>2. requests'[h].event \in Elems(typed) /\ requests'[h].event # e
      BY <2>1, <3>1, <1>1 DEF Ordered, FlightsOfHeads
    <3>3. requests'[h].event \in Elems(typed')
      BY <3>2, <1>0, <1>1, AppendFacts
    <3>q. QED BY <2>1, <3>1, <3>2, <3>3, <1>9 DEF Ordered, FlightsOfHeads
  <2>2. CASE requests'[h].event = Head(queue')
    BY <2>2, <1>11, <1>13
  <2>q. QED BY <1>3, <2>1, <2>2
<1>q. QED BY <1>6, <1>7, <1>8, <1>12, <1>14, <1>15 DEF Ordered

LEMMA OrderedSendComplete ==
  ASSUME Ordered, NEW h \in Handles, SendComplete(h)
  PROVE  Ordered'
<1>0. TypeOK /\ queue \in Seq(Events) /\ typed \in Seq(Events)
  BY DEF Ordered, TypeOK
<1>1. CASE \E f \in Faults : Dies(f)
  BY <1>1, OrderedDies
<1>2. CASE /\ queue # << >> /\ queue' = Tail(queue)
           /\ SendQueuedEvent(queue', Released(h), plugRefs)
           /\ UNCHANGED <<uiHolds, log, room, typed, fault>>
  <2>1. queue' \in Seq(Events) /\ plugRefs \in [Images -> Int]
        /\ Released(h) \in [Handles -> Request]
    BY <1>0, <1>2, TailFacts, ReleasedType DEF TypeOK
  <2>2. /\ active' \in Handles \cup {None} /\ requests' \in [Handles -> Request]
        /\ link' \in Links /\ failures' \in 0..MaxFailures /\ failed' \in SUBSET Images
        /\ plugRefs' \in [Images -> Int]
        /\ \A e \in sent' : e \in sent \/ (queue' # << >> /\ e = Head(queue'))
        /\ \A g \in Handles : \/ requests'[g] = Released(h)[g]
                              \/ queue' # << >> /\ requests'[g].event = Head(queue')
    BY <1>0, <1>2, <2>1, SendQueuedEffect
  <2>3. queue' # << >> => Head(queue') \in Events /\ Head(queue') = queue'[1]
    BY <2>1, TailFacts
  <2>4. sent' \in SUBSET Events
    BY <1>0, <2>2, <2>3 DEF TypeOK
  <2>5. TypeOK'
    BY <1>0, <1>2, <2>1, <2>2, <2>4 DEF TypeOK
  <2>6. TypedOnce'
    BY <1>2 DEF Ordered, TypedOnce
  <2>7. /\ Len(queue) \in Nat /\ Len(queue) > 0 /\ Len(queue') = Len(queue) - 1
        /\ DOMAIN queue = 1..Len(queue) /\ DOMAIN queue' = 1..(Len(queue) - 1)
        /\ \A i \in 1..(Len(queue) - 1) : queue'[i] = queue[i + 1]
    BY <1>0, <1>2, TailFacts
  <2>8. Len(typed) \in Nat /\ DOMAIN typed = 1..Len(typed)
    BY <1>0
  <2>9. QueueIsSuffix'
    BY <1>2, <2>7, <2>8 DEF Ordered, QueueIsSuffix
  <2>10. \A i \in DOMAIN queue' : i > 1 => queue'[i] # queue'[1]
    BY <1>2, <2>6, <2>7, <2>8, <2>9 DEF TypedOnce, QueueIsSuffix
  <2>11. \A i \in DOMAIN queue' : i + 1 \in DOMAIN queue /\ i + 1 > 1
                                  /\ queue'[i] = queue[i + 1]
    BY <2>7
  <2>12. OnlyHeadEverSent'
    BY <2>2, <2>3, <2>10, <2>11 DEF Ordered, OnlyHeadEverSent
  <2>13. queue' # << >> => Head(queue') \in Elems(typed')
    <3>1. queue' # << >> => 1 \in DOMAIN queue'
      BY <2>1
    <3>q. QED BY <1>2, <2>3, <2>7, <2>8, <2>9, <3>1 DEF Elems, QueueIsSuffix
  <2>14. SentWasTyped'
    BY <1>2, <2>2, <2>13 DEF Ordered, SentWasTyped
  <2>15. FlightsOfHeads'
    <3> SUFFICES ASSUME NEW g \in Handles, Outbound(g)'
                 PROVE  /\ requests'[g].event \in Elems(typed')
                        /\ \A i \in DOMAIN queue' :
                             i > 1 => queue'[i] # requests'[g].event
      BY DEF FlightsOfHeads
    <3>1. CASE queue' # << >> /\ requests'[g].event = Head(queue')
      BY <3>1, <2>3, <2>10, <2>13
    <3>2. CASE requests'[g] = Released(h)[g]
      <4>1. g # h /\ requests'[g] = requests[g]
        BY <3>2, <1>0, ReleasedType DEF Outbound
      <4>2. Outbound(g)
        BY <4>1 DEF Outbound
      <4>q. QED BY <1>2, <4>1, <4>2, <2>11 DEF Ordered, FlightsOfHeads
    <3>q. QED BY <2>2, <3>1, <3>2
  <2>q. QED BY <2>5, <2>6, <2>9, <2>12, <2>14, <2>15 DEF Ordered
<1>q. QED BY <1>1, <1>2 DEF SendComplete, Popped, Faults

\* The answers that end a request without sending anything.
LEMMA OrderedReleased ==
  ASSUME Ordered, NEW h \in Handles, requests' = Released(h), TypeOK',
         UNCHANGED <<queue, sent, typed>>
  PROVE  Ordered'
<1>1. \A g \in Handles : requests'[g] = requests[g] \/ requests'[g].kind = "free"
  BY ReleasedType DEF Ordered
<1>q. QED
  BY <1>1 DEF Ordered, TypedOnce, QueueIsSuffix, OnlyHeadEverSent, SentWasTyped,
              FlightsOfHeads, Outbound

LEMMA OrderedFailures ==
  ASSUME Ordered, NEW h \in Handles, SendFailed(h) \/ UploadFailed(h) \/ UploadNoUri(h)
  PROVE  Ordered'
<1>0. TypeOK
  BY DEF Ordered
<1>1. CASE \E f \in Faults : Dies(f)
  BY <1>1, OrderedDies
<1>2. ASSUME NEW refs \in [Images -> Int], Failed(h, refs)
      PROVE  Ordered'
  <2>1. TypeOK'
    BY <1>0, <1>2, ReleasedType, FailuresBounded
       DEF Failed, TypeOK, Fails, Report, Links, netVars
  <2>q. QED BY <1>2, <2>1, OrderedReleased DEF Failed, netVars
<1>3. CASE /\ Fails(requests[h].event) /\ Report(FALSE, requests[h].stale)
           /\ requests' = Released(h)
           /\ plugRefs' = Unref(requests[h].event, plugRefs)
           /\ UNCHANGED <<queue, active, uiHolds, netVars, room, typed, fault>>
  <2>1. plugRefs' \in [Images -> Int]
    BY <1>0, <1>3, UnrefType DEF TypeOK
  <2>2. TypeOK'
    BY <1>0, <1>3, <2>1, ReleasedType, FailuresBounded
       DEF TypeOK, Fails, Report, Links, netVars
  <2>q. QED BY <1>3, <2>2, OrderedReleased DEF netVars
<1>4. plugRefs \in [Images -> Int]
      /\ Unref(requests[h].event, plugRefs) \in [Images -> Int]
  BY <1>0, UnrefType DEF TypeOK
<1>q. QED
  BY <1>1, <1>2, <1>3, <1>4 DEF SendFailed, UploadFailed, UploadNoUri, Faults

LEMMA OrderedUploadComplete ==
  ASSUME Ordered, NEW h \in Handles, UploadComplete(h)
  PROVE  Ordered'
<1> DEFINE e == requests[h].event
<1>0. TypeOK
  BY DEF Ordered
<1>1. CASE \E f \in Faults : Dies(f)
  BY <1>1, OrderedDies
<1>2. CASE /\ StartSend(Released(h), e, requests[h].stale)
           /\ plugRefs' = Unref(e, plugRefs)
           /\ UNCHANGED <<queue, uiHolds, log, room, typed, fault>>
  <2>1. /\ e \in Elems(typed)
        /\ \A i \in DOMAIN queue : i > 1 => queue[i] # e
    BY DEF UploadComplete, Ordered, FlightsOfHeads, Outbound
  <2>2. e \in Events
    BY <1>0, <2>1 DEF TypeOK, Elems
  <2>3. requests[h].stale \in BOOLEAN /\ Released(h) \in [Handles -> Request]
    BY <1>0, ReleasedType DEF TypeOK, Request
  <2>4. /\ active' \in Handles \cup {None} /\ requests' \in [Handles -> Request]
        /\ link' \in Links /\ failures' \in 0..MaxFailures /\ failed' \in SUBSET Images
        /\ sent' \subseteq sent \cup {e}
        /\ \A g \in Handles : requests'[g] = Released(h)[g] \/ requests'[g].event = e
    BY <1>0, <1>2, <2>2, <2>3, StartSendEffect
  <2>5. plugRefs' \in [Images -> Int]
    BY <1>0, <1>2, UnrefType DEF TypeOK
  <2>6. TypeOK'
    BY <1>0, <1>2, <2>2, <2>4, <2>5 DEF TypeOK
  <2>7. \A g \in Handles : \/ requests'[g] = requests[g]
                           \/ requests'[g].kind \notin {"send", "upload"}
                           \/ requests'[g].event = e
    BY <1>0, <2>4, ReleasedType
  <2>q. QED BY <1>2, <2>1, <2>4, <2>6, <2>7, OrderedKept
<1>q. QED BY <1>1, <1>2 DEF UploadComplete, Faults

LEMMA OrderedMedia ==
  ASSUME Ordered, NEW k \in Media, MediaArrives(k)
  PROVE  Ordered'
<1>0. TypeOK
  BY DEF Ordered
<1>1. CASE \E f \in Faults : Dies(f)
  BY <1>1, OrderedDies
<1>2. CASE UNCHANGED <<queue, imageVars, log, room, typed, fault>>
  <2>1. CASE k # "nofetch" /\ Started(requests, k, None, FALSE)
    <3>1. PICK h \in Handles :
            /\ requests' = [requests EXCEPT ![h] =
                              [kind |-> k, event |-> None, stale |-> FALSE]]
            /\ active' = h /\ UNCHANGED <<link, failVars>> /\ sent' = sent
      BY <2>1 DEF Started, Media
    <3>2. k \in {"plain", "crypt"}
      BY <2>1 DEF Media
    <3>3. TypeOK'
      BY <1>0, <1>2, <3>1, <3>2 DEF TypeOK, Request, imageVars
    <3>4. \A g \in Handles : \/ requests'[g] = requests[g]
                             \/ requests'[g].kind \notin {"send", "upload"}
      BY <1>0, <3>1, <3>2 DEF TypeOK
    <3>q. QED
      BY <1>2, <3>1, <3>3, <3>4
         DEF Ordered, TypedOnce, QueueIsSuffix, OnlyHeadEverSent, SentWasTyped,
             FlightsOfHeads, Outbound
  <2>2. CASE /\ IF k = "nofetch" THEN UNCHANGED failVars ELSE Fails(None)
             /\ active' = None
             /\ UNCHANGED <<requests, sent, link>>
    BY <1>0, <1>2, <2>2, FailuresBounded
       DEF Ordered, TypeOK, TypedOnce, QueueIsSuffix, OnlyHeadEverSent,
           SentWasTyped, FlightsOfHeads, Outbound, Fails, imageVars
  <2>q. QED BY <1>1, <1>2, <2>1, <2>2 DEF MediaArrives, Faults
<1>q. QED BY <1>1, <1>2 DEF MediaArrives, Faults

LEMMA OrderedOthers ==
  ASSUME Ordered,
         \/ \E e \in Events : ServerAccept(e)
         \/ \E e \in Images : UiRelease(e)
         \/ \E h \in Handles : DownloadEnds(h) \/ CallbackOnFreedRoom(h)
         \/ Leave \/ CloseWindow \/ Disconnect \/ Reconnect
  PROVE  Ordered'
<1>0. TypeOK
  BY DEF Ordered
<1>1. ASSUME NEW e \in Events, ServerAccept(e)
      PROVE  Ordered'
  BY <1>0, <1>1
     DEF ServerAccept, Ordered, TypeOK, TypedOnce, QueueIsSuffix, OnlyHeadEverSent,
         SentWasTyped, FlightsOfHeads, Outbound, queueVars, imageVars
<1>2. ASSUME NEW e \in Images, UiRelease(e)
      PROVE  Ordered'
  BY <1>0, <1>2
     DEF UiRelease, Ordered, TypeOK, TypedOnce, QueueIsSuffix, OnlyHeadEverSent,
         SentWasTyped, FlightsOfHeads, Outbound, queueVars, netVars
<1>3. ASSUME NEW h \in Handles, DownloadEnds(h)
      PROVE  Ordered'
  <2>1. TypeOK'
    BY <1>0, <1>3, ReleasedType DEF DownloadEnds, TypeOK, imageVars, netVars
  <2>q. QED BY <1>3, <2>1, OrderedReleased DEF DownloadEnds, netVars
<1>4. ASSUME NEW h \in Handles, CallbackOnFreedRoom(h)
      PROVE  Ordered'
  <2>1. CASE Dies("freedRoom")
    BY <2>1, OrderedDies DEF Faults
  <2>2. CASE /\ requests' = Released(h)
             /\ plugRefs' \in {plugRefs, Unref(requests[h].event, plugRefs)}
             /\ UNCHANGED <<queue, active, uiHolds, netVars, room, link, typed,
                            failVars, fault>>
    <3>0. plugRefs' \in [Images -> Int]
      BY <1>0, <2>2, UnrefType DEF TypeOK
    <3>1. TypeOK'
      BY <1>0, <2>2, <3>0, ReleasedType DEF TypeOK, netVars
    <3>q. QED BY <2>2, <3>1, OrderedReleased DEF netVars
  <2>q. QED BY <1>4, <2>1, <2>2 DEF CallbackOnFreedRoom
<1>5. CASE Leave \/ CloseWindow
  <2>1. CASE Dies("freedRequest")
    BY <2>1, OrderedDies DEF Faults
  <2>2. CASE /\ \/ UNCHANGED <<requests, plugRefs>>
                \/ /\ Live(active) /\ active # None
                   /\ requests' = Released(active)
                   /\ plugRefs' \in {plugRefs, Unref(requests[active].event, plugRefs)}
             /\ active' = None /\ queue' = << >> /\ room' \in {"left", "closed"}
             /\ UNCHANGED <<uiHolds, netVars, link, typed, failVars, fault>>
    <3>1. plugRefs' \in [Images -> Int]
      BY <1>0, <2>2, UnrefType DEF TypeOK
    <3>2. /\ requests' \in [Handles -> Request]
          /\ \A g \in Handles : requests'[g] = requests[g] \/ requests'[g].kind = "free"
      BY <1>0, <2>2, ReleasedType DEF TypeOK
    <3>3. TypeOK'
      BY <1>0, <2>2, <3>1, <3>2 DEF TypeOK, netVars
    <3>4. DOMAIN queue' = {} /\ Len(queue') = 0 /\ Len(typed) \in Nat
      BY <1>0, <2>2 DEF TypeOK
    <3>5. QueueIsSuffix'
      BY <2>2, <3>4 DEF QueueIsSuffix
    <3>6. OnlyHeadEverSent' /\ TypedOnce' /\ SentWasTyped'
      BY <2>2, <3>4 DEF Ordered, OnlyHeadEverSent, TypedOnce, SentWasTyped, netVars
    <3>7. FlightsOfHeads'
      BY <2>2, <3>2, <3>4 DEF Ordered, FlightsOfHeads, Outbound
    <3>q. QED BY <3>3, <3>5, <3>6, <3>7 DEF Ordered
  <2>3. CASE CloseWindow
    BY <2>2, <2>3 DEF CloseWindow, imageVars
  <2>q. QED BY <1>5, <2>1, <2>2, <2>3 DEF Leave
<1>6. CASE Disconnect
  <2>1. /\ requests' \in [Handles -> Request]
        /\ \A g \in Handles : /\ requests'[g].event = requests[g].event
                              /\ requests'[g].kind = requests[g].kind
    BY <1>0, <1>6 DEF Disconnect, TypeOK, Request, Live
  <2>2. failures' \in 0..MaxFailures /\ failed' \in SUBSET Images
    BY <1>0, <1>6, FailuresBounded DEF Disconnect, Fails, TypeOK
  <2>q. QED
    BY <1>0, <1>6, <2>1, <2>2
       DEF Disconnect, Ordered, TypeOK, TypedOnce, QueueIsSuffix, OnlyHeadEverSent,
           SentWasTyped, FlightsOfHeads, Outbound, imageVars, netVars, Links
<1>7. CASE Reconnect
  BY <1>0, <1>7
     DEF Reconnect, Ordered, TypeOK, TypedOnce, QueueIsSuffix, OnlyHeadEverSent,
         SentWasTyped, FlightsOfHeads, Outbound, queueVars, imageVars, netVars, Links
<1>q. QED BY <1>1, <1>2, <1>3, <1>4, <1>5, <1>6, <1>7

LEMMA OrderedNext == Ordered /\ [Next]_vars => Ordered'
<1> SUFFICES ASSUME Ordered, [Next]_vars PROVE Ordered'
  OBVIOUS
<1>1. CASE UNCHANGED vars
  BY <1>1 DEF vars, queueVars, imageVars, netVars, Ordered, TypeOK, TypedOnce,
              QueueIsSuffix, OnlyHeadEverSent, SentWasTyped, FlightsOfHeads, Outbound
<1>2. CASE Next
  BY <1>2, OrderedEnqueue, OrderedSendComplete, OrderedFailures,
     OrderedUploadComplete, OrderedMedia, OrderedOthers DEF Next, Answer
<1>q. QED BY <1>1, <1>2

\* Whatever arrives, fails or is released, the invariant behind the next
\* three theorems holds.
THEOREM AlwaysOrdered == Spec => []Ordered
BY OrderedInit, OrderedNext, PTL DEF Spec

\* Every reachable state is well typed: no pointer is anything but NULL or an
\* address, no queue entry anything but an event.
THEOREM TypeCorrect == Spec => []TypeOK
<1>1. Ordered => TypeOK
  BY DEF Ordered
<1>q. QED BY <1>1, AlwaysOrdered, PTL

\* The queue of a room is the end of what was typed, in the order typed,
\* whichever callbacks run and in whatever order.
THEOREM QueueKeepsOrder == Spec => []QueueIsSuffix
<1>1. Ordered => QueueIsSuffix
  BY DEF Ordered
<1>q. QED BY <1>1, AlwaysOrdered, PTL

\* No message is put on the network while another one is queued before it,
\* even when an attachment has taken the slot from a send in flight.
THEOREM NoOvertaking == Spec => []OnlyHeadEverSent
<1>1. Ordered => OnlyHeadEverSent
  BY DEF Ordered
<1>q. QED BY <1>1, AlwaysOrdered, PTL

-----------------------------------------------------------------------------
(* A room without incoming attachments.                                     *)

\* Nothing but sends and uploads is in flight, uploads only for images.
NoDownloads ==
  \A h \in Handles : /\ requests[h].kind \in {"free", "send", "upload"}
                     /\ requests[h].kind = "upload" => requests[h].event \in Images
                     /\ requests[h].kind = "send" => requests[h].event \in sent

\* The homeserver has what was popped, and perhaps the head of the queue.
LogReachesHead ==
  room = "open" =>
    LET popped == Len(typed) - Len(queue)
    IN Len(log) = popped \/ (queue # << >> /\ Len(log) = popped + 1)

\* What was sent and not accepted yet is the message the timeline lacks next.
SentIsNext ==
  \A e \in sent : \/ e \in Elems(log)
                  \/ Len(log) < Len(typed) /\ e = typed[Len(log) + 1]

Guarded == Ordered /\ NoDownloads /\ SlotGuardsSend /\ InOrder /\ LogReachesHead
           /\ SentIsNext /\ NoBadAccess

\* With a queue q that ends what was typed, t, and a timeline l that reaches
\* the head of q, that head is in the timeline or is what it lacks next.
LEMMA HeadIsNext ==
  ASSUME NEW q \in Seq(Events), NEW t \in Seq(Events), NEW l \in Seq(Events),
         q # << >>, Len(t) - Len(q) >= 0,
         \A i \in DOMAIN q : q[i] = t[Len(t) - Len(q) + i],
         \A i \in DOMAIN l : l[i] = t[i],
         Len(l) = Len(t) - Len(q) \/ Len(l) = Len(t) - Len(q) + 1
  PROVE  Head(q) \in Elems(l) \/ (Len(l) < Len(t) /\ Head(q) = t[Len(l) + 1])
<1>1. Head(q) = q[1] /\ 1 \in DOMAIN q /\ Len(q) \in Nat /\ Len(q) > 0
      /\ Len(l) \in Nat /\ Len(t) \in Nat /\ DOMAIN l = 1..Len(l)
  BY TailFacts
<1>2. Head(q) = t[Len(t) - Len(q) + 1]
  BY <1>1
<1>3. CASE Len(l) = Len(t) - Len(q)
  BY <1>1, <1>2, <1>3
<1>4. CASE Len(l) = Len(t) - Len(q) + 1
  <2>1. Len(l) \in DOMAIN l /\ l[Len(l)] = Head(q)
    BY <1>1, <1>2, <1>4
  <2>q. QED BY <2>1 DEF Elems
<1>q. QED BY <1>3, <1>4

\* The guarded slot: whatever is allocated is what the slot points to.
LEMMA OnlyActive ==
  ASSUME Guarded, room # "closed"
  PROVE  /\ \A h \in Handles : Live(h) => Outbound(h) /\ active = h
         /\ active = None => \A h \in Handles : requests[h].kind = "free"
BY NoneIsNoHandle DEF Guarded, NoDownloads, SlotGuardsSend, Live, Outbound

\* A request begun while nothing is in flight takes the slot with it.
LEMMA StartSendSlot ==
  ASSUME TypeOK, NEW r \in [Handles -> Request], NEW e \in Events,
         NEW stale \in BOOLEAN, StartSend(r, e, stale),
         \A h \in Handles : r[h].kind = "free"
  PROVE  /\ sent \subseteq sent'
         /\ \A h \in Handles :
              \/ requests'[h].kind = "free"
              \/ /\ active' = h /\ requests'[h].event = e
                 /\ requests'[h].kind = "send" /\ e \in sent'
<1>1. CASE Started(r, "send", e, stale)
  BY <1>1 DEF Started
<1>2. CASE requests' = r /\ UNCHANGED sent
  BY <1>2
<1>q. QED BY <1>1, <1>2 DEF StartSend

LEMMA SendQueuedSlot ==
  ASSUME TypeOK, NEW q \in Seq(Events), NEW r \in [Handles -> Request],
         NEW refs \in [Images -> Int], SendQueuedEvent(q, r, refs),
         \A h \in Handles : r[h].kind = "free"
  PROVE  /\ sent \subseteq sent'
         /\ \A h \in Handles :
              \/ requests'[h].kind = "free"
              \/ /\ active' = h /\ q # << >> /\ requests'[h].event = Head(q)
                 /\ \/ requests'[h].kind = "send" /\ Head(q) \in sent'
                    \/ requests'[h].kind = "upload" /\ Head(q) \in Images
<1>1. CASE q = << >> \/ link = "dying"
  <2>1. CASE requests' = r /\ UNCHANGED sent
    BY <2>1
  <2>q. QED BY <1>1, <2>1 DEF SendQueuedEvent, NextEvent
<1>2. CASE q # << >> /\ link # "dying" /\ Head(q) \in Images
  <2>1. SendImageHook(r, Head(q), refs)
    BY <1>2 DEF SendQueuedEvent, NextEvent
  <2>2. CASE requests' = r /\ UNCHANGED sent
    BY <2>2
  <2>3. CASE Started(r, "upload", Head(q), FALSE)
    BY <1>2, <2>3 DEF Started
  <2>q. QED BY <2>1, <2>2, <2>3 DEF SendImageHook
<1>3. CASE q # << >> /\ link # "dying" /\ Head(q) \notin Images
  <2>1. Head(q) \in Events
    BY <1>3
  <2>2. StartSend(r, Head(q), FALSE)
    BY <1>3 DEF SendQueuedEvent, NextEvent
  <2>q. QED BY <1>3, <2>1, <2>2, StartSendSlot
<1>q. QED BY <1>1, <1>2, <1>3

LEMMA GuardedInit == Init => Guarded
<1> SUFFICES ASSUME Init PROVE Guarded
  OBVIOUS
<1>1. NoDownloads /\ SlotGuardsSend
  BY DEF Init, NoDownloads, SlotGuardsSend, Outbound, Free
<1>2. InOrder /\ LogReachesHead /\ SentIsNext /\ NoBadAccess
  BY DEF Init, InOrder, LogReachesHead, SentIsNext, NoBadAccess
<1>q. QED BY <1>1, <1>2, OrderedInit DEF Guarded

LEMMA GuardedEnqueue ==
  ASSUME Guarded, NEW e \in Events, Enqueue(e)
  PROVE  Guarded'
<1> DEFINE refs == [x \in Images |-> IF x = e THEN plugRefs[x] + 1 ELSE plugRefs[x]]
<1>0. TypeOK /\ queue \in Seq(Events) /\ typed \in Seq(Events) /\ log \in Seq(Events)
      /\ requests \in [Handles -> Request] /\ refs \in [Images -> Int]
  BY DEF Guarded, Ordered, TypeOK
<1>1. /\ queue' = Append(queue, e) /\ typed' = Append(typed, e)
      /\ UNCHANGED <<room, log, fault>> /\ room = "open"
  BY DEF Enqueue, SendInProgress
<1>2. Ordered'
  BY OrderedEnqueue DEF Guarded
<1>3. /\ queue' \in Seq(Events) /\ typed' \in Seq(Events) /\ queue' # << >>
      /\ Head(queue') = queue'[1]
      /\ Len(queue') = Len(queue) + 1 /\ Len(typed') = Len(typed) + 1
      /\ Len(queue) \in Nat /\ Len(typed) \in Nat /\ Len(log) \in Nat
      /\ DOMAIN log = 1..Len(log)
      /\ \A i \in 1..Len(typed) : typed'[i] = typed[i]
      /\ queue # << >> => Head(queue') = Head(queue)
  <2>1. /\ queue' \in Seq(Events) /\ typed' \in Seq(Events)
        /\ Len(queue') = Len(queue) + 1 /\ Len(typed') = Len(typed) + 1
        /\ Len(queue) \in Nat /\ Len(typed) \in Nat
        /\ \A i \in 1..Len(typed) : typed'[i] = typed[i]
        /\ \A i \in 1..Len(queue) : queue'[i] = queue[i]
    BY <1>0, <1>1, AppendFacts
  <2>2. queue' # << >>
    BY <2>1
  <2>3. Head(queue') = queue'[1]
    BY <2>1, <2>2, TailFacts
  <2>4. queue # << >> => Head(queue) = queue[1] /\ 1 \in 1..Len(queue)
    BY <1>0, <2>1
  <2>5. Len(log) \in Nat /\ DOMAIN log = 1..Len(log)
    BY <1>0
  <2>q. QED BY <2>1, <2>2, <2>3, <2>4, <2>5
<1>4. InOrder'
  BY <1>1, <1>3 DEF Guarded, InOrder
<1>5. LogReachesHead'
  <2>1. queue = << >> <=> Len(queue) = 0
    BY <1>0
  <2>q. QED BY <1>1, <1>3, <2>1 DEF Guarded, LogReachesHead
<1>6. Head(queue') \in Elems(log') \/ (Len(log') < Len(typed')
                                       /\ Head(queue') = typed'[Len(log') + 1])
  <2>1. /\ Len(typed') - Len(queue') >= 0
        /\ \A i \in DOMAIN queue' : queue'[i] = typed'[Len(typed') - Len(queue') + i]
    BY <1>2 DEF Ordered, QueueIsSuffix
  <2>2. Len(log') = Len(typed') - Len(queue') \/ Len(log') = Len(typed') - Len(queue') + 1
    BY <1>1, <1>5 DEF LogReachesHead
  <2>3. \A i \in DOMAIN log' : log'[i] = typed'[i]
    BY <1>4 DEF InOrder
  <2>4. log' \in Seq(Events)
    BY <1>0, <1>1
  <2>q. QED BY <1>3, <2>1, <2>2, <2>3, <2>4, HeadIsNext
<1>7. ASSUME NEW x \in sent
      PROVE  x \in Elems(log') \/ (Len(log') < Len(typed') /\ x = typed'[Len(log') + 1])
  BY <1>1, <1>3, <1>7 DEF Guarded, SentIsNext
<1>8. CASE active # None /\ UNCHANGED <<active, requests, sent>>
  <2>1. SentIsNext'
    BY <1>7, <1>8 DEF SentIsNext
  <2>2. NoDownloads' /\ SlotGuardsSend'
    BY <1>1, <1>3, <1>8 DEF Guarded, NoDownloads, SlotGuardsSend, Outbound
  <2>q. QED BY <1>1, <1>2, <1>4, <1>5, <2>1, <2>2 DEF Guarded, NoBadAccess
<1>9. CASE active = None /\ SendQueuedEvent(queue', requests, refs)
  <2>1. \A h \in Handles : requests[h].kind = "free"
    BY <1>1, <1>9, OnlyActive
  <2>2. /\ sent \subseteq sent'
        /\ \A h \in Handles :
             \/ requests'[h].kind = "free"
             \/ /\ active' = h /\ requests'[h].event = Head(queue')
                /\ \/ requests'[h].kind = "send" /\ Head(queue') \in sent'
                   \/ requests'[h].kind = "upload" /\ Head(queue') \in Images
    BY <1>0, <1>3, <1>9, <2>1, SendQueuedSlot
  <2>3. NoDownloads' /\ SlotGuardsSend'
    BY <1>1, <1>3, <2>2 DEF NoDownloads, SlotGuardsSend, Outbound
  <2>4. \A x \in sent' : x \in sent \/ x = Head(queue')
    BY <1>0, <1>3, <1>9, SendQueuedEffect
  <2>5. SentIsNext'
    BY <1>6, <1>7, <2>4 DEF SentIsNext
  <2>q. QED BY <1>1, <1>2, <1>4, <1>5, <2>3, <2>5 DEF Guarded, NoBadAccess
<1>q. QED BY <1>8, <1>9 DEF Enqueue, SendInProgress

\* A completion finds the event it is about at the head of the queue, and the
\* homeserver has it.
LEMMA CompletionMatches ==
  ASSUME Guarded, NEW h \in Handles, requests[h].kind = "send",
         requests[h].event \in Elems(log), room = "open"
  PROVE  /\ queue # << >> /\ active = h /\ Head(queue) = requests[h].event
         /\ Len(log) = Len(typed) - Len(queue) + 1
<1>1. queue # << >> /\ active = h /\ Head(queue) = requests[h].event
  BY DEF Guarded, SlotGuardsSend, Outbound
<1>2. /\ queue \in Seq(Events) /\ typed \in Seq(Events) /\ log \in Seq(Events)
      /\ Len(typed) \in Nat /\ Len(log) \in Nat /\ DOMAIN typed = 1..Len(typed)
      /\ DOMAIN log = 1..Len(log)
  BY DEF Guarded, Ordered, TypeOK
<1>3. /\ Len(queue) \in Nat /\ Len(queue) > 0 /\ Head(queue) = queue[1]
      /\ 1 \in DOMAIN queue
  BY <1>1, <1>2, TailFacts
<1>4. Head(queue) = typed[Len(typed) - Len(queue) + 1] /\ Len(typed) - Len(queue) >= 0
  BY <1>3 DEF Guarded, Ordered, QueueIsSuffix
<1>5. PICK i \in 1..Len(log) : log[i] = Head(queue)
  BY <1>1, <1>2 DEF Elems
<1>6. typed[i] = Head(queue) /\ i \in DOMAIN typed
  BY <1>2, <1>5 DEF Guarded, InOrder
<1>7. i = Len(typed) - Len(queue) + 1
  BY <1>2, <1>3, <1>4, <1>6 DEF Guarded, Ordered, TypedOnce
<1>8. Len(log) # Len(typed) - Len(queue)
  <2>1. Len(log) \in Nat /\ Len(typed) \in Nat /\ Len(queue) \in Nat
    BY <1>2, <1>3
  <2>2. i <= Len(log)
    BY <1>5, <2>1
  <2>q. QED BY <1>7, <2>1, <2>2
<1>9. Len(log) = Len(typed) - Len(queue) \/ Len(log) = Len(typed) - Len(queue) + 1
  BY DEF Guarded, LogReachesHead
<1>10. Len(log) = Len(typed) - Len(queue) + 1
  BY <1>8, <1>9
<1>q. QED BY <1>1, <1>10

LEMMA GuardedSendComplete ==
  ASSUME Guarded, NEW h \in Handles, SendComplete(h)
  PROVE  Guarded'
<1>0. TypeOK /\ queue \in Seq(Events) /\ typed \in Seq(Events) /\ log \in Seq(Events)
  BY DEF Guarded, Ordered, TypeOK
<1>1. /\ queue # << >> /\ active = h /\ Head(queue) = requests[h].event
      /\ Len(log) = Len(typed) - Len(queue) + 1
  BY CompletionMatches DEF SendComplete, Popped
<1>2. Ordered'
  BY OrderedSendComplete DEF Guarded
<1>3. CASE Dies("noGc")
  BY <1>2, <1>3
     DEF Dies, Guarded, NoDownloads, SlotGuardsSend, InOrder, LogReachesHead,
         SentIsNext, NoBadAccess, Outbound, queueVars, netVars
<1>4. CASE /\ queue' = Tail(queue)
           /\ SendQueuedEvent(queue', Released(h), plugRefs)
           /\ UNCHANGED <<uiHolds, log, room, typed, fault>>
  <2>1. /\ queue' \in Seq(Events) /\ plugRefs \in [Images -> Int]
        /\ Released(h) \in [Handles -> Request]
        /\ Len(queue') = Len(queue) - 1 /\ Len(queue) \in Nat
        /\ Len(typed) \in Nat /\ Len(log) \in Nat
    BY <1>0, <1>1, <1>4, TailFacts, ReleasedType DEF TypeOK
  <2>2. \A g \in Handles : Released(h)[g].kind = "free"
    BY <1>0, <1>1, OnlyActive, ReleasedType DEF Live, SendComplete
  <2>3. /\ sent \subseteq sent'
        /\ \A g \in Handles :
             \/ requests'[g].kind = "free"
             \/ /\ active' = g /\ queue' # << >> /\ requests'[g].event = Head(queue')
                /\ \/ requests'[g].kind = "send" /\ Head(queue') \in sent'
                   \/ requests'[g].kind = "upload" /\ Head(queue') \in Images
    BY <1>0, <1>4, <2>1, <2>2, SendQueuedSlot
  <2>4. NoDownloads' /\ SlotGuardsSend'
    BY <1>4, <2>3 DEF SendComplete, Popped, NoDownloads, SlotGuardsSend, Outbound
  <2>5. InOrder' /\ NoBadAccess'
    BY <1>4 DEF Guarded, InOrder, NoBadAccess
  <2>6. Len(log') = Len(typed') - Len(queue')
    BY <1>1, <1>4, <2>1
  <2>7. \A e \in sent' : e \in sent \/ (queue' # << >> /\ e = Head(queue'))
    BY <1>0, <1>4, <2>1, SendQueuedEffect
  <2>8. queue' # << >> =>
          Head(queue') \in Elems(log') \/ (Len(log') < Len(typed')
                                            /\ Head(queue') = typed'[Len(log') + 1])
    <3>1. typed' \in Seq(Events) /\ log' \in Seq(Events)
      BY <1>0, <1>4
    <3>2. /\ Len(typed') - Len(queue') >= 0
          /\ \A i \in DOMAIN queue' : queue'[i] = typed'[Len(typed') - Len(queue') + i]
      BY <1>2 DEF Ordered, QueueIsSuffix
    <3>3. \A i \in DOMAIN log' : log'[i] = typed'[i]
      BY <2>5 DEF InOrder
    <3>q. QED BY <2>1, <2>6, <3>1, <3>2, <3>3, HeadIsNext
  <2>9. SentIsNext'
    BY <1>4, <2>7, <2>8 DEF Guarded, SentIsNext
  <2>q. QED BY <1>2, <2>4, <2>5, <2>6, <2>9 DEF Guarded, LogReachesHead
<1>q. QED BY <1>1, <1>3, <1>4 DEF SendComplete, Popped

LEMMA GuardedUploadComplete ==
  ASSUME Guarded, NEW h \in Handles, UploadComplete(h)
  PROVE  Guarded'
<1> DEFINE e == requests[h].event
<1>0. TypeOK /\ queue \in Seq(Events) /\ typed \in Seq(Events) /\ log \in Seq(Events)
  BY DEF Guarded, Ordered, TypeOK
<1>1. queue # << >> /\ active = h /\ e = Head(queue) /\ room = "open"
  BY DEF UploadComplete, Guarded, SlotGuardsSend, Outbound
<1>2. Ordered'
  BY OrderedUploadComplete DEF Guarded
<1>3. e \in Elems(queue) /\ e \in Events
  BY <1>0, <1>1, TailFacts DEF Elems
<1>4. CASE Dies("freedConn")
  BY <1>2, <1>4
     DEF Dies, Guarded, NoDownloads, SlotGuardsSend, InOrder, LogReachesHead,
         SentIsNext, NoBadAccess, Outbound, queueVars, netVars
<1>5. CASE /\ StartSend(Released(h), e, requests[h].stale)
           /\ UNCHANGED <<queue, uiHolds, log, room, typed, fault>>
  <2>1. Released(h) \in [Handles -> Request] /\ requests[h].stale \in BOOLEAN
    BY <1>0, ReleasedType DEF TypeOK, Request
  <2>2. \A g \in Handles : Released(h)[g].kind = "free"
    BY <1>0, <1>1, OnlyActive, ReleasedType DEF Live
  <2>3. /\ sent \subseteq sent'
        /\ \A g \in Handles :
             \/ requests'[g].kind = "free"
             \/ /\ active' = g /\ requests'[g].event = e
                /\ requests'[g].kind = "send" /\ e \in sent'
    BY <1>0, <1>3, <1>5, <2>1, <2>2, StartSendSlot
  <2>4. NoDownloads' /\ SlotGuardsSend'
    BY <1>1, <1>5, <2>3 DEF NoDownloads, SlotGuardsSend, Outbound
  <2>5. InOrder' /\ NoBadAccess' /\ LogReachesHead'
    BY <1>5 DEF Guarded, InOrder, NoBadAccess, LogReachesHead
  <2>6. e \in Elems(log) \/ (Len(log) < Len(typed) /\ e = typed[Len(log) + 1])
    <3>1. /\ Len(typed) - Len(queue) >= 0
          /\ \A i \in DOMAIN queue : queue[i] = typed[Len(typed) - Len(queue) + i]
      BY DEF Guarded, Ordered, QueueIsSuffix
    <3>2. Len(log) = Len(typed) - Len(queue) \/ Len(log) = Len(typed) - Len(queue) + 1
      BY <1>1 DEF Guarded, LogReachesHead
    <3>3. \A i \in DOMAIN log : log[i] = typed[i]
      BY DEF Guarded, InOrder
    <3>q. QED BY <1>0, <1>1, <3>1, <3>2, <3>3, HeadIsNext
  <2>7. sent' \subseteq sent \cup {e}
    BY <1>0, <1>3, <1>5, <2>1, StartSendEffect
  <2>8. SentIsNext'
    BY <1>5, <2>6, <2>7 DEF Guarded, SentIsNext
  <2>q. QED BY <1>2, <2>4, <2>5, <2>8 DEF Guarded
<1>q. QED BY <1>3, <1>4, <1>5 DEF UploadComplete

LEMMA GuardedServerAccept ==
  ASSUME Guarded, NEW e \in Events, ServerAccept(e)
  PROVE  Guarded'
<1>0. /\ TypeOK /\ queue \in Seq(Events) /\ typed \in Seq(Events) /\ log \in Seq(Events)
      /\ Len(queue) \in Nat /\ Len(typed) \in Nat /\ Len(log) \in Nat
      /\ DOMAIN queue = 1..Len(queue)
  BY DEF Guarded, Ordered, TypeOK
<1>1. /\ log' = Append(log, e) /\ e \in sent /\ e \notin Elems(log)
      /\ UNCHANGED <<queue, active, requests, sent, room, typed, fault>>
  BY DEF ServerAccept, queueVars
<1>2. Ordered'
  BY OrderedOthers DEF Guarded
<1>3. Len(log) < Len(typed) /\ e = typed[Len(log) + 1]
  BY <1>1 DEF Guarded, SentIsNext
<1>4. /\ Len(log') = Len(log) + 1 /\ DOMAIN log' = 1..(Len(log) + 1)
      /\ DOMAIN log = 1..Len(log)
      /\ \A i \in 1..Len(log) : log'[i] = log[i]
      /\ log'[Len(log) + 1] = e /\ Elems(log') = Elems(log) \cup {e}
  BY <1>0, <1>1, AppendFacts
<1>5. InOrder'
  <2>1. Len(log') <= Len(typed')
    BY <1>0, <1>1, <1>3, <1>4
  <2>2. ASSUME NEW i \in 1..(Len(log) + 1)
        PROVE  log'[i] = typed[i]
    <3>1. CASE i = Len(log) + 1
      BY <3>1, <1>3, <1>4
    <3>2. CASE i \in 1..Len(log)
      BY <3>2, <1>4 DEF Guarded, InOrder
    <3>q. QED BY <3>1, <3>2, <1>0
  <2>q. QED BY <1>1, <1>4, <2>1, <2>2 DEF InOrder
<1>6. LogReachesHead'
  <2> SUFFICES ASSUME room = "open"
               PROVE  queue # << >> /\ Len(log') = Len(typed) - Len(queue) + 1
    BY <1>1 DEF LogReachesHead
  <2>1. Len(log) = Len(typed) - Len(queue)
        \/ (queue # << >> /\ Len(log) = Len(typed) - Len(queue) + 1)
    BY DEF Guarded, LogReachesHead
  <2>2. \A i \in DOMAIN queue : queue[i] = typed[Len(typed) - Len(queue) + i]
    BY DEF Guarded, Ordered, QueueIsSuffix
  <2>3. Len(log) # Len(typed) - Len(queue) + 1
    <3> SUFFICES ASSUME Len(log) = Len(typed) - Len(queue) + 1 PROVE FALSE
      OBVIOUS
    <3>1. 2 \in DOMAIN queue /\ Len(typed) - Len(queue) + 2 = Len(log) + 1
      BY <1>0, <1>3
    <3>2. queue[2] = e
      BY <1>3, <2>2, <3>1
    <3>q. QED BY <1>1, <3>1, <3>2 DEF Guarded, Ordered, OnlyHeadEverSent
  <2>4. Len(log) = Len(typed) - Len(queue)
    BY <2>1, <2>3
  <2>5. Len(queue) > 0
    BY <1>0, <1>3, <2>4
  <2>6. queue # << >>
    BY <2>5
  <2>7. Len(log') = Len(typed) - Len(queue) + 1
    BY <1>4, <2>4
  <2>q. QED BY <2>6, <2>7
<1>7. SentIsNext'
  <2> SUFFICES ASSUME NEW x \in sent PROVE x \in Elems(log')
    BY <1>1 DEF SentIsNext
  <2>q. QED BY <1>3, <1>4 DEF Guarded, SentIsNext
<1>8. NoDownloads' /\ SlotGuardsSend' /\ NoBadAccess'
  BY <1>1 DEF Guarded, NoDownloads, SlotGuardsSend, NoBadAccess, Outbound
<1>q. QED BY <1>2, <1>5, <1>6, <1>7, <1>8 DEF Guarded

\* A step that starts nothing and pops nothing, and leaves in flight only what
\* the slot still points to.
LEMMA GuardedQuiet ==
  ASSUME Guarded, Ordered', UNCHANGED <<typed, sent, log>>, NoBadAccess',
         \/ queue' = queue /\ room' = room
         \/ room' \in {"left", "closed"},
         \A h \in Handles :
           \/ requests'[h].kind = "free"
           \/ /\ requests'[h].kind = requests[h].kind
              /\ requests'[h].event = requests[h].event
              /\ \/ room' = "closed"
                 \/ active' = active /\ room' = room /\ queue' = queue
  PROVE  Guarded'
<1>1. NoDownloads'
  BY DEF Guarded, NoDownloads
<1>2. SlotGuardsSend'
  BY DEF Guarded, SlotGuardsSend, Outbound
<1>3. InOrder' /\ LogReachesHead' /\ SentIsNext'
  BY DEF Guarded, InOrder, LogReachesHead, SentIsNext
<1>q. QED BY <1>1, <1>2, <1>3 DEF Guarded

LEMMA GuardedFailures ==
  ASSUME Guarded, NEW h \in Handles, SendFailed(h) \/ UploadFailed(h) \/ UploadNoUri(h)
  PROVE  Guarded'
<1>0. TypeOK
  BY DEF Guarded, Ordered
<1>1. Ordered'
  BY OrderedFailures DEF Guarded
<1>2. \A g \in Handles : g # h => requests[g].kind = "free"
  BY OnlyActive DEF Guarded, SlotGuardsSend, Outbound, Live, SendFailed,
                    UploadFailed, UploadNoUri
<1>3. CASE requests' = Released(h) /\ UNCHANGED <<queue, netVars, room, typed, fault>>
  <2>1. \A g \in Handles : requests'[g].kind = "free"
    BY <1>0, <1>2, <1>3, ReleasedType
  <2>q. QED BY <1>1, <1>3, <2>1, GuardedQuiet DEF Guarded, NoBadAccess, netVars
<1>4. CASE Dies("freedConn")
  BY <1>1, <1>4, GuardedQuiet DEF Dies, queueVars, netVars, NoBadAccess
<1>q. QED BY <1>3, <1>4 DEF SendFailed, UploadFailed, UploadNoUri, Failed

LEMMA GuardedOthers ==
  ASSUME Guarded,
         \/ \E e \in Images : UiRelease(e)
         \/ \E h \in Handles : DownloadEnds(h) \/ CallbackOnFreedRoom(h)
         \/ Leave \/ CloseWindow \/ Disconnect \/ Reconnect
  PROVE  Guarded'
<1>0. TypeOK
  BY DEF Guarded, Ordered
<1>1. Ordered'
  BY OrderedOthers DEF Guarded
<1>2. CASE \E e \in Images : UiRelease(e)
  BY <1>1, <1>2, GuardedQuiet DEF UiRelease, queueVars, netVars, Guarded, NoBadAccess
<1>3. ~ \E h \in Handles : DownloadEnds(h)
  BY DEF DownloadEnds, Guarded, NoDownloads
<1>4. ASSUME NEW h \in Handles, CallbackOnFreedRoom(h)
      PROVE  Guarded'
  <2>1. room = "closed"
    BY <1>0, <1>4, OnlyActive
       DEF CallbackOnFreedRoom, Guarded, SlotGuardsSend, Live, TypeOK
  <2>2. CASE Dies("freedRoom")
    BY <1>1, <2>1, <2>2, GuardedQuiet DEF Dies, queueVars, netVars, NoBadAccess
  <2>3. CASE requests' = Released(h) /\ UNCHANGED <<queue, netVars, room, typed, fault>>
    <3>1. \A g \in Handles : requests'[g].kind = "free" \/ requests'[g] = requests[g]
      BY <1>0, <2>3, ReleasedType
    <3>q. QED BY <1>1, <2>1, <2>3, <3>1, GuardedQuiet DEF netVars, Guarded, NoBadAccess
  <2>q. QED BY <1>4, <2>2, <2>3 DEF CallbackOnFreedRoom
<1>5. CASE Leave
  <2>1. CASE Dies("freedRequest")
    BY <1>1, <2>1, GuardedQuiet DEF Dies, queueVars, netVars, NoBadAccess
  <2>2. CASE /\ \/ active = None /\ UNCHANGED requests
                \/ active # None /\ Live(active) /\ requests' = Released(active)
                \/ active # None /\ ~Live(active) /\ UNCHANGED requests
             /\ room = "open" /\ room' = "left" /\ UNCHANGED <<netVars, typed, fault>>
    <3>1. \A g \in Handles : requests'[g].kind = "free"
      BY <1>0, <2>2, OnlyActive, ReleasedType DEF Live, TypeOK
    <3>q. QED BY <1>1, <2>2, <3>1, GuardedQuiet DEF netVars, Guarded, NoBadAccess
  <2>q. QED BY <1>5, <2>1, <2>2 DEF Leave
<1>6. CASE Disconnect
  <2>1. \A g \in Handles : /\ requests'[g].kind = requests[g].kind
                           /\ requests'[g].event = requests[g].event
    BY <1>0, <1>6 DEF Disconnect, TypeOK, Request, Live
  <2>q. QED BY <1>1, <1>6, <2>1, GuardedQuiet
               DEF Disconnect, netVars, Guarded, NoBadAccess
<1>7. CASE Reconnect
  BY <1>1, <1>7, GuardedQuiet DEF Reconnect, queueVars, netVars, Guarded, NoBadAccess
<1>8. CASE CloseWindow
  BY <1>1, <1>8, GuardedQuiet DEF CloseWindow, netVars, Guarded, NoBadAccess
<1>q. QED BY <1>2, <1>3, <1>4, <1>5, <1>6, <1>7, <1>8

LEMMA GuardedNext == NoMedia /\ Guarded /\ [Next]_vars => Guarded'
<1> SUFFICES ASSUME NoMedia, Guarded, [Next]_vars PROVE Guarded'
  OBVIOUS
<1>1. CASE UNCHANGED vars
  <2>1. Ordered'
    BY <1>1, OrderedNext DEF Guarded
  <2>q. QED BY <1>1, <2>1, GuardedQuiet
               DEF vars, queueVars, imageVars, netVars, Guarded, NoBadAccess
<1>2. CASE Next
  <2>1. ~ \E k \in Media : MediaArrives(k)
    BY DEF MediaArrives, NoMedia
  <2>q. QED
    BY <1>2, <2>1, GuardedEnqueue, GuardedSendComplete, GuardedFailures,
       GuardedUploadComplete, GuardedServerAccept, GuardedOthers DEF Next, Answer
<1>q. QED BY <1>1, <1>2

\* In a room that receives no attachments, whatever fails and however often
\* the account reconnects, the slot, the queue and the timeline agree.
THEOREM AlwaysGuarded ==
  ASSUME NoMedia
  PROVE  Spec => []Guarded
<1>1. Guarded /\ [Next]_vars => Guarded'
  BY GuardedNext
<1>q. QED BY <1>1, GuardedInit, PTL DEF Spec

\* No message typed into an open room is dropped: what leaves the queue is in
\* the homeserver's timeline.
THEOREM NoMessageLost ==
  ASSUME NoMedia
  PROVE  Spec => []NothingLost
<1>1. Guarded => NothingLost
  <2> SUFFICES ASSUME Guarded, room = "open", NEW x \in Elems(typed),
                      x \notin Elems(queue)
               PROVE  x \in Elems(log)
    BY DEF NothingLost
  <2>0. /\ queue \in Seq(Events) /\ typed \in Seq(Events) /\ log \in Seq(Events)
        /\ Len(queue) \in Nat /\ Len(typed) \in Nat /\ Len(log) \in Nat
        /\ DOMAIN queue = 1..Len(queue) /\ DOMAIN typed = 1..Len(typed)
        /\ DOMAIN log = 1..Len(log)
    BY DEF Guarded, Ordered, TypeOK
  <2>1. PICK i \in 1..Len(typed) : typed[i] = x
    BY <2>0 DEF Elems
  <2>2. i <= Len(typed) - Len(queue)
    <3> SUFFICES ASSUME ~ (i <= Len(typed) - Len(queue)) PROVE FALSE
      OBVIOUS
    <3> DEFINE j == i - (Len(typed) - Len(queue))
    <3>1. j \in 1..Len(queue) /\ Len(typed) - Len(queue) + j = i
      BY <2>0, <2>1
    <3>2. queue[j] = typed[i]
      BY <2>0, <3>1 DEF Guarded, Ordered, QueueIsSuffix
    <3>q. QED BY <2>0, <2>1, <3>1, <3>2 DEF Elems
  <2>3. Len(log) = Len(typed) - Len(queue) \/ Len(log) = Len(typed) - Len(queue) + 1
    BY DEF Guarded, LogReachesHead
  <2>4. i \in 1..Len(log)
    <3>1. Len(log) \in Nat /\ Len(typed) \in Nat /\ Len(queue) \in Nat
      BY <2>0
    <3>2. i \in Nat /\ i >= 1
      BY <2>1, <3>1
    <3>3. i <= Len(log)
      BY <2>2, <2>3, <3>1, <3>2
    <3>q. QED BY <3>1, <3>2, <3>3
  <2>5. log[i] = x
    BY <2>0, <2>1, <2>4 DEF Guarded, InOrder
  <2>q. QED BY <2>0, <2>4, <2>5 DEF Elems
<1>q. QED BY <1>1, AlwaysGuarded, PTL

\* The timeline has the messages in the order typed, each once.
THEOREM DeliveredInOrder ==
  ASSUME NoMedia
  PROVE  Spec => []InOrder
<1>1. Guarded => InOrder
  BY DEF Guarded
<1>q. QED BY <1>1, AlwaysGuarded, PTL

\* One send or upload at a time, that of the head of the queue, and the slot
\* is what cancels it: leaving the room leaves no callback behind.
THEOREM SlotIsGuard ==
  ASSUME NoMedia
  PROVE  Spec => [](SlotGuardsSend /\ LeaveCancelsSend)
<1>1. Guarded => SlotGuardsSend /\ LeaveCancelsSend
  BY DEF Guarded, SlotGuardsSend, LeaveCancelsSend
<1>q. QED BY <1>1, AlwaysGuarded, PTL

\* No completion finds an empty queue or an event that was freed; and a
\* callback finds its room freed in one way only, by a window that was closed
\* while the account was not connected.
THEOREM CompletionsFindTheirData ==
  ASSUME NoMedia
  PROVE  Spec => []NoBadAccess
<1>1. Guarded => NoBadAccess
  BY DEF Guarded
<1>q. QED BY <1>1, AlwaysGuarded, PTL

-----------------------------------------------------------------------------
(* Images, and the requests the slot holds, whatever has failed.            *)

\* A freed room has neither slot nor queue.
EmptyAfterRoom == room # "open" => active = None /\ queue = << >>

\* Only the head of the queue was ever tried.
OnlyHeadTried ==
  /\ failed \subseteq Elems(typed)
  /\ \A i \in DOMAIN queue : i > 1 => queue[i] \notin failed

\* An upload that nothing went wrong before is for an event never sent.
FirstUploadUnsent ==
  \A h \in Handles :
    requests[h].kind = "upload" /\ requests[h].event \notin failed
      => requests[h].event \notin sent

\* The slot is held while an image at the head is sent for the first time.
FirstSendHeld ==
  \A e \in Images :
    queue # << >> /\ e = Head(queue) /\ e \in sent /\ e \notin failed => active # None

Tended == EmptyAfterRoom /\ OnlyHeadTried /\ FirstUploadUnsent /\ FirstSendHeld
          /\ UploadKeepsImage

Imaged == Guarded /\ Tended

\* What dropping a reference does to the counts.
LEMMA UnrefCounts ==
  ASSUME NEW refs \in [Images -> Int], NEW e \in Images
  PROVE  /\ \A x \in Images : x # e => Unref(e, refs)[x] = refs[x]
         /\ refs[e] <= 1 => Unref(e, refs)[e] <= 0
         /\ refs[e] = 1 => Unref(e, refs)[e] = 0
BY DEF Unref, ImageExists

\* What trying the head of q can come to, while nothing else is in flight: to
\* a failure, after which an image's reference is dropped, or to a request; the
\* slot is only left alone by the hook of an image that is gone.
LEMMA QueuedOutcome ==
  ASSUME TypeOK, NEW q \in Seq(Events), NEW r \in [Handles -> Request],
         NEW refs \in [Images -> Int], SendQueuedEvent(q, r, refs),
         \A h \in Handles : r[h].kind = "free"
  PROVE  /\ \/ failed' = failed /\ plugRefs' = refs
            \/ /\ q # << >> /\ Head(q) \in Images /\ failed' = failed \cup {Head(q)}
               /\ plugRefs' = Unref(Head(q), refs)
         /\ \/ sent' = sent
            \/ q # << >> /\ Head(q) \notin Images /\ sent' = sent \cup {Head(q)}
         /\ \A h \in Handles : requests'[h].kind = "upload" =>
              q # << >> /\ Head(q) \in Images /\ requests'[h].event = Head(q)
         /\ \/ active' = None
            \/ active' \in Handles /\ requests'[active'].kind \in {"send", "upload"}
            \/ /\ q # << >> /\ Head(q) \in Images /\ ~ImageExists(Head(q), refs)
               /\ active' = active
<1>1. CASE q = << >> \/ link = "dying"
  <2>1. active' = None /\ requests' = r /\ plugRefs' = refs
        /\ UNCHANGED <<sent, link, failVars>>
    BY <1>1 DEF SendQueuedEvent, NextEvent
  <2>q. QED BY <2>1
<1>2. CASE q # << >> /\ link # "dying" /\ Head(q) \in Images
  <2>1. SendImageHook(r, Head(q), refs)
    BY <1>2 DEF SendQueuedEvent, NextEvent
  <2>2. CASE ~ImageExists(Head(q), refs) /\ requests' = r /\ plugRefs' = refs
             /\ UNCHANGED <<active, sent, link, failVars>>
    BY <1>2, <2>2
  <2>3. CASE Started(r, "upload", Head(q), FALSE) /\ plugRefs' = refs
    BY <1>2, <2>3 DEF Started
  <2>4. CASE Fails(Head(q)) /\ requests' = r /\ active' = None
             /\ plugRefs' = Unref(Head(q), refs) /\ UNCHANGED sent
    <3>1. failed' = failed \cup {Head(q)}
      BY <1>2, <2>4 DEF Fails
    <3>q. QED BY <1>2, <2>4, <3>1
  <2>q. QED BY <2>1, <2>2, <2>3, <2>4 DEF SendImageHook
<1>3. CASE q # << >> /\ link # "dying" /\ Head(q) \notin Images
  <2>1. StartSend(r, Head(q), FALSE) /\ plugRefs' = refs
    BY <1>3 DEF SendQueuedEvent, NextEvent
  <2>2. CASE Started(r, "send", Head(q), FALSE)
    BY <1>3, <2>1, <2>2 DEF Started
  <2>3. CASE Fails(Head(q)) /\ requests' = r /\ active' = None /\ UNCHANGED sent
    <3>1. failed' = failed
      BY <1>3, <2>3 DEF Fails
    <3>q. QED BY <1>3, <2>1, <2>3, <3>1
  <2>q. QED BY <2>1, <2>2, <2>3 DEF StartSend
<1>q. QED BY <1>1, <1>2, <1>3

\* The counts after such an attempt, from what they should be before it.
LEMMA QueuedCounts ==
  ASSUME NEW q \in Seq(Events), NEW refs \in [Images -> Int],
         \/ failed' = failed /\ plugRefs' = refs
         \/ /\ q # << >> /\ Head(q) \in Images /\ failed' = failed \cup {Head(q)}
            /\ plugRefs' = Unref(Head(q), refs),
         \/ sent' = sent
         \/ q # << >> /\ Head(q) \notin Images /\ sent' = sent \cup {Head(q)},
         \A e \in Images :
           IF e \in failed THEN refs[e] <= 0
           ELSE refs[e] = IF e \in Elems(q) /\ e \notin sent THEN 1 ELSE 0
  PROVE  \A e \in Images :
           IF e \in failed' THEN plugRefs'[e] <= 0
           ELSE plugRefs'[e] = IF e \in Elems(q) /\ e \notin sent' THEN 1 ELSE 0
<1>1. \A e \in Images : e \in sent' <=> e \in sent
  OBVIOUS
<1>2. CASE failed' = failed /\ plugRefs' = refs
  BY <1>1, <1>2
<1>3. CASE /\ q # << >> /\ Head(q) \in Images /\ failed' = failed \cup {Head(q)}
           /\ plugRefs' = Unref(Head(q), refs)
  <2>1. refs[Head(q)] <= 1
    BY <1>3
  <2>2. /\ plugRefs'[Head(q)] <= 0
        /\ \A e \in Images : e # Head(q) => plugRefs'[e] = refs[e]
    BY <1>3, <2>1, UnrefCounts
  <2>q. QED BY <1>1, <1>3, <2>2
<1>q. QED BY <1>2, <1>3

\* A step that tries nothing: the room is as it was, or it is gone.
LEMMA TendedKept ==
  ASSUME Tended, UNCHANGED <<typed, sent, failed>>,
         \/ UNCHANGED <<room, queue, active, plugRefs>>
         \/ room' # "open" /\ active' = None /\ queue' = << >>,
         \A h \in Handles : \/ requests'[h].kind # "upload"
                            \/ /\ requests'[h].kind = requests[h].kind
                               /\ requests'[h].event = requests[h].event
  PROVE  Tended'
<1>1. EmptyAfterRoom' /\ FirstUploadUnsent' /\ UploadKeepsImage'
  BY DEF Tended, EmptyAfterRoom, FirstUploadUnsent, UploadKeepsImage
<1>2. OnlyHeadTried' /\ FirstSendHeld'
  BY DEF Tended, OnlyHeadTried, FirstSendHeld
<1>q. QED BY <1>1, <1>2 DEF Tended

\* In a queue q that ends what was typed, t, the head is there once.
LEMMA HeadOnce ==
  ASSUME NEW q \in Seq(Events), NEW t \in Seq(Events), q # << >>,
         \A i, j \in DOMAIN t : t[i] = t[j] => i = j,
         Len(t) - Len(q) >= 0,
         \A i \in DOMAIN q : q[i] = t[Len(t) - Len(q) + i]
  PROVE  /\ Head(q) = q[1] /\ 1 \in DOMAIN q
         /\ Head(q) \in Elems(t) /\ Head(q) \in Elems(q)
         /\ \A i \in DOMAIN q : i > 1 => q[i] # Head(q)
<1>1. /\ Len(q) \in Nat /\ Len(q) > 0 /\ DOMAIN q = 1..Len(q) /\ Head(q) = q[1]
      /\ Len(t) \in Nat /\ DOMAIN t = 1..Len(t)
  BY TailFacts
<1>2. /\ 1 \in DOMAIN q
      /\ \A i \in 1..Len(q) : Len(t) - Len(q) + i \in 1..Len(t)
  BY <1>1
<1>3. Head(q) = t[Len(t) - Len(q) + 1] /\ Len(t) - Len(q) + 1 \in DOMAIN t
  BY <1>1, <1>2
<1>4. ASSUME NEW i \in DOMAIN q, i > 1
      PROVE  q[i] # Head(q)
  <2>1. Len(t) - Len(q) + i \in DOMAIN t /\ q[i] = t[Len(t) - Len(q) + i]
    BY <1>1, <1>2
  <2>2. Len(t) - Len(q) + i # Len(t) - Len(q) + 1
    BY <1>1, <1>4
  <2>q. QED BY <1>3, <2>1, <2>2
<1>q. QED BY <1>1, <1>2, <1>3, <1>4 DEF Elems

LEMMA ImagedEnqueue ==
  ASSUME Imaged, NEW e \in Events, Enqueue(e)
  PROVE  Imaged'
<1> DEFINE refs == [x \in Images |-> IF x = e THEN plugRefs[x] + 1 ELSE plugRefs[x]]
<1>0. /\ TypeOK /\ queue \in Seq(Events) /\ typed \in Seq(Events)
      /\ requests \in [Handles -> Request] /\ refs \in [Images -> Int]
      /\ plugRefs \in [Images -> Int] /\ room = "open" /\ room' = "open"
      /\ queue' = Append(queue, e) /\ typed' = Append(typed, e) /\ e \notin Elems(typed)
  BY DEF Imaged, Guarded, Ordered, TypeOK, Enqueue
<1>1. Guarded'
  BY GuardedEnqueue DEF Imaged
<1>2. /\ queue' \in Seq(Events) /\ Elems(queue') = Elems(queue) \cup {e} /\ queue' # << >>
      /\ Elems(typed') = Elems(typed) \cup {e}
      /\ \A i \in DOMAIN queue' : i > 1 =>
           queue'[i] = e \/ (i \in DOMAIN queue /\ queue'[i] = queue[i])
      /\ \/ queue = << >> /\ Head(queue') = e
         \/ queue # << >> /\ Head(queue') = Head(queue)
  <2>1. /\ queue' \in Seq(Events) /\ Elems(queue') = Elems(queue) \cup {e}
        /\ queue' # << >> /\ Elems(typed') = Elems(typed) \cup {e}
        /\ Len(queue) \in Nat /\ DOMAIN queue = 1..Len(queue)
        /\ DOMAIN queue' = 1..(Len(queue) + 1) /\ queue'[Len(queue) + 1] = e
        /\ \A i \in 1..Len(queue) : queue'[i] = queue[i]
    <3>1. queue' # << >>
      BY <1>0
    <3>q. QED BY <1>0, <3>1, AppendFacts
  <2>2. Head(queue') = queue'[1]
    BY <2>1, TailFacts
  <2>3. queue = << >> => Len(queue) = 0
    OBVIOUS
  <2>4. queue # << >> => Head(queue) = queue[1] /\ 1 \in 1..Len(queue)
    BY <1>0, TailFacts
  <2>q. QED BY <2>1, <2>2, <2>3, <2>4
<1>3. e \notin Elems(queue) /\ e \notin sent /\ e \notin failed
  BY <1>0 DEF Imaged, Tended, OnlyHeadTried, Guarded, Ordered, QueueIsSuffix,
              SentWasTyped, Elems
<1>4. \A x \in Images :
        IF x \in failed THEN refs[x] <= 0
        ELSE refs[x] = IF x \in Elems(queue') /\ x \notin sent THEN 1 ELSE 0
  BY <1>0, <1>2, <1>3 DEF Imaged, Tended, UploadKeepsImage
<1>5. EmptyAfterRoom'
  BY <1>0 DEF EmptyAfterRoom
<1>6. \A i \in DOMAIN queue' : i > 1 => queue'[i] \notin failed
  BY <1>2, <1>3 DEF Imaged, Tended, OnlyHeadTried
<1>7. CASE active # None /\ plugRefs' = refs
           /\ UNCHANGED <<active, requests, sent, link, failVars>>
  <2>1. OnlyHeadTried'
    BY <1>2, <1>6, <1>7 DEF Imaged, Tended, OnlyHeadTried
  <2>2. FirstUploadUnsent' /\ FirstSendHeld'
    BY <1>7 DEF Imaged, Tended, FirstUploadUnsent, FirstSendHeld
  <2>3. UploadKeepsImage'
    BY <1>4, <1>7 DEF UploadKeepsImage
  <2>q. QED BY <1>1, <1>5, <2>1, <2>2, <2>3 DEF Imaged, Tended
<1>8. CASE active = None /\ SendQueuedEvent(queue', requests, refs)
  <2>1. \A h \in Handles : requests[h].kind = "free"
    BY <1>0, <1>8, OnlyActive DEF Imaged
  <2>2. /\ \/ failed' = failed /\ plugRefs' = refs
           \/ /\ Head(queue') \in Images /\ failed' = failed \cup {Head(queue')}
              /\ plugRefs' = Unref(Head(queue'), refs)
        /\ \/ sent' = sent
           \/ Head(queue') \notin Images /\ sent' = sent \cup {Head(queue')}
        /\ \A h \in Handles : requests'[h].kind = "upload" =>
             Head(queue') \in Images /\ requests'[h].event = Head(queue')
    <3> HIDE DEF refs
    <3>q. QED BY <1>0, <1>2, <1>8, <2>1, QueuedOutcome
  <2>3. /\ Head(queue') \in Elems(typed')
        /\ \A i \in DOMAIN queue' : i > 1 => queue'[i] # Head(queue')
    BY <1>1, <1>2, HeadOnce
       DEF Guarded, Ordered, TypeOK, TypedOnce, QueueIsSuffix
  <2>4. Head(queue') \in Images /\ Head(queue') \notin failed => Head(queue') \notin sent
    BY <1>2, <1>3, <1>8 DEF Imaged, Tended, FirstSendHeld
  <2>5. OnlyHeadTried'
    BY <1>2, <1>6, <2>2, <2>3 DEF Imaged, Tended, OnlyHeadTried
  <2>6. FirstUploadUnsent' /\ FirstSendHeld'
    BY <2>2, <2>4 DEF FirstUploadUnsent, FirstSendHeld
  <2>7. UploadKeepsImage'
    <3>1. queue' \in Seq(Events) /\ queue' # << >> /\ refs \in [Images -> Int]
      BY <1>0, <1>2
    <3> HIDE DEF refs
    <3>2. \A x \in Images :
            IF x \in failed' THEN plugRefs'[x] <= 0
            ELSE plugRefs'[x] = IF x \in Elems(queue') /\ x \notin sent' THEN 1 ELSE 0
      BY <1>4, <2>2, <3>1, QueuedCounts
    <3>q. QED BY <3>2 DEF UploadKeepsImage
  <2>q. QED BY <1>1, <1>5, <2>5, <2>6, <2>7 DEF Imaged, Tended
<1>q. QED BY <1>7, <1>8 DEF Enqueue, SendInProgress

LEMMA ImagedSendComplete ==
  ASSUME Imaged, NEW h \in Handles, SendComplete(h)
  PROVE  /\ Imaged'
         /\ fault' = fault => /\ active' = None \/ Outbound(active)'
<1>0. /\ TypeOK /\ queue \in Seq(Events) /\ requests \in [Handles -> Request]
      /\ plugRefs \in [Images -> Int] /\ room = "open" /\ fault = "no"
  BY DEF Imaged, Guarded, Ordered, TypeOK, SendComplete, Running
<1>1. Guarded'
  BY GuardedSendComplete DEF Imaged
<1>2. /\ queue # << >> /\ active = h /\ Head(queue) = requests[h].event
      /\ requests[h].event \in sent
  BY <1>0, CompletionMatches DEF SendComplete, Imaged, Guarded, NoDownloads
<1>3. CASE Dies("noGc")
  <2>1. Tended'
    BY <1>3, TendedKept DEF Dies, Imaged, queueVars, imageVars, netVars
  <2>q. QED BY <1>0, <1>1, <1>3, <2>1 DEF Imaged, Dies
<1>4. CASE /\ queue' = Tail(queue) /\ SendQueuedEvent(queue', Released(h), plugRefs)
           /\ UNCHANGED <<uiHolds, log, room, typed, fault>>
  <2>1. /\ queue' \in Seq(Events) /\ Head(queue) = queue[1]
        /\ DOMAIN queue = 1..Len(queue) /\ DOMAIN queue' = 1..(Len(queue) - 1)
        /\ Len(queue) \in Nat /\ Len(queue) > 0
        /\ \A i \in 1..(Len(queue) - 1) : queue'[i] = queue[i + 1]
        /\ queue' # << >> => Head(queue') = queue'[1] /\ 1 \in DOMAIN queue'
    BY <1>0, <1>2, <1>4, TailFacts
  <2>2. \A i \in DOMAIN queue' : i + 1 \in DOMAIN queue /\ i + 1 > 1
                                 /\ queue'[i] = queue[i + 1]
    BY <2>1
  <2>3. \A x \in Elems(queue') : x \notin sent /\ x \notin failed
    BY <2>2 DEF Elems, Imaged, Tended, OnlyHeadTried, Guarded, Ordered, OnlyHeadEverSent
  <2>4. \A x \in Elems(queue) : x \in Elems(queue') \/ x = Head(queue)
    <3> SUFFICES ASSUME NEW i \in 1..Len(queue), i # 1 PROVE queue[i] \in Elems(queue')
      BY <2>1 DEF Elems
    <3>1. i - 1 \in DOMAIN queue' /\ queue'[i - 1] = queue[i]
      BY <2>1
    <3>q. QED BY <3>1 DEF Elems
  <2>5. Elems(queue') \subseteq Elems(queue)
    BY <2>2 DEF Elems
  <2>6. \A x \in Images :
          IF x \in failed THEN plugRefs[x] <= 0
          ELSE plugRefs[x] = IF x \in Elems(queue') /\ x \notin sent THEN 1 ELSE 0
    BY <1>0, <1>2, <2>4, <2>5 DEF Imaged, Tended, UploadKeepsImage
  <2>7. queue' # << >> => Head(queue') \in Elems(queue')
    BY <2>1 DEF Elems
  <2>8. Released(h) \in [Handles -> Request]
        /\ \A g \in Handles : Released(h)[g].kind = "free"
    BY <1>0, <1>2, OnlyActive, ReleasedType DEF Live, Imaged
  <2>9. /\ \/ failed' = failed /\ plugRefs' = plugRefs
           \/ /\ queue' # << >> /\ Head(queue') \in Images
              /\ failed' = failed \cup {Head(queue')}
              /\ plugRefs' = Unref(Head(queue'), plugRefs)
        /\ \/ sent' = sent
           \/ queue' # << >> /\ Head(queue') \notin Images
              /\ sent' = sent \cup {Head(queue')}
        /\ \A g \in Handles : requests'[g].kind = "upload" =>
             queue' # << >> /\ Head(queue') \in Images
             /\ requests'[g].event = Head(queue')
        /\ \/ active' = None
           \/ active' \in Handles /\ requests'[active'].kind \in {"send", "upload"}
           \/ /\ queue' # << >> /\ Head(queue') \in Images
              /\ ~ImageExists(Head(queue'), plugRefs)
    BY <1>0, <1>4, <2>1, <2>8, QueuedOutcome
  <2>10. queue' # << >> => /\ Head(queue') \in Elems(typed')
                           /\ \A i \in DOMAIN queue' : i > 1 => queue'[i] # Head(queue')
    BY <1>1, HeadOnce DEF Guarded, Ordered, TypeOK, TypedOnce, QueueIsSuffix
  <2>11. EmptyAfterRoom'
    BY <1>0, <1>4 DEF EmptyAfterRoom
  <2>12. OnlyHeadTried'
    BY <1>4, <2>3, <2>9, <2>10 DEF Imaged, Tended, OnlyHeadTried, Elems
  <2>13. FirstUploadUnsent' /\ FirstSendHeld'
    BY <2>3, <2>7, <2>9 DEF FirstUploadUnsent, FirstSendHeld
  <2>14. UploadKeepsImage'
    BY <1>0, <2>1, <2>6, <2>9, QueuedCounts DEF UploadKeepsImage
  <2>15. queue' # << >> /\ Head(queue') \in Images => ImageExists(Head(queue'), plugRefs)
    BY <2>3, <2>6, <2>7 DEF ImageExists
  <2>16. active' = None \/ Outbound(active)'
    BY <2>9, <2>15 DEF Outbound
  <2>q. QED BY <1>1, <2>11, <2>12, <2>13, <2>14, <2>16 DEF Imaged, Tended
<1>q. QED BY <1>2, <1>3, <1>4 DEF SendComplete, Popped

LEMMA ImagedUploadComplete ==
  ASSUME Imaged, NEW h \in Handles, UploadComplete(h)
  PROVE  /\ Imaged'
         /\ fault' = fault => /\ active' = None \/ Outbound(active)'
<1> DEFINE e == requests[h].event
<1>0. /\ TypeOK /\ queue \in Seq(Events) /\ requests \in [Handles -> Request]
      /\ plugRefs \in [Images -> Int] /\ room = "open" /\ fault = "no"
  BY DEF Imaged, Guarded, Ordered, TypeOK, UploadComplete, Running
<1>1. Guarded'
  BY GuardedUploadComplete DEF Imaged
<1>2. /\ queue # << >> /\ active = h /\ Head(queue) = e /\ e \in Images
      /\ e \notin failed => e \notin sent
  BY <1>0 DEF UploadComplete, Imaged, Guarded, Tended, FirstUploadUnsent, NoDownloads,
              SlotGuardsSend, Outbound
<1>3. /\ e \in Elems(queue) /\ e \in Elems(typed)
      /\ \A i \in DOMAIN queue : i > 1 => queue[i] # e
  BY <1>0, <1>2, HeadOnce
     DEF Imaged, Guarded, Ordered, TypeOK, TypedOnce, QueueIsSuffix
<1>4. CASE Dies("freedConn")
  <2>1. Tended'
    BY <1>4, TendedKept DEF Dies, Imaged, queueVars, imageVars, netVars
  <2>q. QED BY <1>0, <1>1, <1>4, <2>1 DEF Imaged, Dies
<1>5. CASE /\ StartSend(Released(h), e, requests[h].stale)
           /\ plugRefs' = Unref(e, plugRefs)
           /\ UNCHANGED <<queue, uiHolds, log, room, typed, fault>>
  <2>1. Released(h) \in [Handles -> Request]
        /\ \A g \in Handles : Released(h)[g].kind = "free"
    BY <1>0, <1>2, OnlyActive, ReleasedType DEF Live, Imaged
  <2>2. /\ \/ failed' = failed /\ sent' = sent \cup {e} /\ active' # None
           \/ failed' = failed \cup {e} /\ sent' = sent
        /\ \A g \in Handles : requests'[g].kind # "upload"
        /\ active' = None \/ Outbound(active)'
    <3>1. CASE Started(Released(h), "send", e, requests[h].stale)
      BY <2>1, <3>1, NoneIsNoHandle DEF Started, Outbound
    <3>2. CASE Fails(e) /\ requests' = Released(h) /\ active' = None /\ UNCHANGED sent
      BY <1>2, <2>1, <3>2 DEF Fails
    <3>q. QED BY <1>5, <3>1, <3>2 DEF StartSend
  <2>3. /\ \A x \in Images : x # e => plugRefs'[x] = plugRefs[x]
        /\ plugRefs[e] <= 1 => plugRefs'[e] <= 0
        /\ plugRefs[e] = 1 => plugRefs'[e] = 0
    BY <1>0, <1>2, <1>5, UnrefCounts
  <2>4. UploadKeepsImage'
    <3>1. IF e \in failed THEN plugRefs[e] <= 0 ELSE plugRefs[e] = 1
      BY <1>0, <1>2, <1>3 DEF Imaged, Tended, UploadKeepsImage
    <3>2. IF e \in failed' THEN plugRefs'[e] <= 0 ELSE plugRefs'[e] = 0 /\ e \in sent'
      BY <1>0, <1>2, <2>2, <2>3, <3>1
    <3>q. QED BY <1>0, <1>2, <1>5, <2>2, <2>3, <3>2
              DEF Imaged, Tended, UploadKeepsImage
  <2>5. EmptyAfterRoom' /\ FirstUploadUnsent'
    BY <1>0, <1>5, <2>2 DEF EmptyAfterRoom, FirstUploadUnsent
  <2>6. OnlyHeadTried'
    BY <1>3, <1>5, <2>2 DEF Imaged, Tended, OnlyHeadTried
  <2>7. FirstSendHeld'
    BY <1>2, <1>5, <2>2 DEF FirstSendHeld
  <2>q. QED BY <1>1, <2>2, <2>4, <2>5, <2>6, <2>7 DEF Imaged, Tended
<1>q. QED BY <1>3, <1>4, <1>5 DEF UploadComplete

LEMMA ImagedFailures ==
  ASSUME Imaged, NEW h \in Handles, SendFailed(h) \/ UploadFailed(h) \/ UploadNoUri(h)
  PROVE  Imaged'
<1> DEFINE e == requests[h].event
<1>0. /\ TypeOK /\ queue \in Seq(Events) /\ plugRefs \in [Images -> Int] /\ room = "open"
  BY DEF Imaged, Guarded, Ordered, TypeOK, SendFailed, UploadFailed, UploadNoUri
<1>1. Guarded'
  BY GuardedFailures DEF Imaged
<1>2. /\ queue # << >> /\ active = h /\ Head(queue) = e
      /\ requests[h].kind = "send" => e \in sent
      /\ requests[h].kind # "send" => e \in Images
  BY <1>0 DEF SendFailed, UploadFailed, UploadNoUri, Imaged, Guarded, NoDownloads,
              SlotGuardsSend, Outbound
<1>3. /\ e \in Elems(queue) /\ e \in Elems(typed)
      /\ \A i \in DOMAIN queue : i > 1 => queue[i] # e
  BY <1>0, <1>2, HeadOnce
     DEF Imaged, Guarded, Ordered, TypeOK, TypedOnce, QueueIsSuffix
<1>4. CASE Dies("freedConn")
  <2>1. Tended'
    BY <1>4, TendedKept DEF Dies, Imaged, queueVars, imageVars, netVars
  <2>q. QED BY <1>1, <2>1 DEF Imaged
<1>5. CASE /\ Fails(e) /\ requests' = Released(h)
           /\ \/ requests[h].kind = "send" /\ plugRefs' = plugRefs
              \/ requests[h].kind # "send" /\ plugRefs' = Unref(e, plugRefs)
           /\ UNCHANGED <<queue, uiHolds, netVars, room, typed, fault>>
  <2>1. \A g \in Handles : requests'[g].kind = "free"
    BY <1>0, <1>2, <1>5, OnlyActive, ReleasedType DEF Live, Imaged
  <2>2. failed' = failed \cup ({e} \cap Images) /\ sent' = sent
    BY <1>5 DEF Fails, netVars
  <2>3. \A x \in Images : /\ x # e => plugRefs'[x] = plugRefs[x]
                          /\ x = e => plugRefs'[x] <= 0
    <3>1. \A x \in Images : x = e => /\ plugRefs[x] <= 1
                                     /\ e \in sent => plugRefs[x] <= 0
      BY <1>0 DEF Imaged, Tended, UploadKeepsImage
    <3>2. CASE requests[h].kind = "send" /\ plugRefs' = plugRefs
      BY <1>2, <3>1, <3>2
    <3>3. CASE requests[h].kind # "send" /\ plugRefs' = Unref(e, plugRefs)
      BY <1>0, <1>2, <3>1, <3>3, UnrefCounts
    <3>q. QED BY <1>5, <3>2, <3>3
  <2>4. UploadKeepsImage'
    BY <1>0, <1>5, <2>2, <2>3 DEF Imaged, Tended, UploadKeepsImage
  <2>5. EmptyAfterRoom' /\ FirstUploadUnsent'
    BY <1>0, <1>5, <2>1 DEF EmptyAfterRoom, FirstUploadUnsent
  <2>6. OnlyHeadTried'
    BY <1>3, <1>5, <2>2 DEF Imaged, Tended, OnlyHeadTried
  <2>7. FirstSendHeld'
    BY <1>2, <1>5, <2>2 DEF FirstSendHeld
  <2>q. QED BY <1>1, <2>4, <2>5, <2>6, <2>7 DEF Imaged, Tended
<1>q. QED BY <1>4, <1>5 DEF SendFailed, UploadFailed, UploadNoUri, Failed

LEMMA ImagedOthers ==
  ASSUME Imaged, Guarded',
         \/ \E e \in Events : ServerAccept(e)
         \/ \E e \in Images : UiRelease(e)
         \/ \E h \in Handles : DownloadEnds(h) \/ CallbackOnFreedRoom(h)
         \/ Leave \/ CloseWindow \/ Disconnect \/ Reconnect
  PROVE  Imaged'
<1> USE DEF Imaged
<1>0. TypeOK
  BY DEF Guarded, Ordered
<1>1. CASE \E e \in Events : ServerAccept(e)
  BY <1>1, TendedKept DEF ServerAccept, queueVars, imageVars
<1>2. CASE \E e \in Images : UiRelease(e)
  BY <1>2, TendedKept DEF UiRelease, queueVars, netVars
<1>3. ~ \E h \in Handles : DownloadEnds(h)
  BY DEF DownloadEnds, Guarded, NoDownloads
<1>4. CASE \E h \in Handles : CallbackOnFreedRoom(h)
  <2>1. PICK h \in Handles : CallbackOnFreedRoom(h)
    BY <1>4
  <2>2. room # "open" /\ active = None /\ queue = << >>
    BY <2>1 DEF CallbackOnFreedRoom, Tended, EmptyAfterRoom
  <2>3. UNCHANGED <<room, active, queue, typed, sent, failed>>
        /\ \A g \in Handles : requests'[g] = requests[g] \/ requests'[g].kind = "free"
    BY <1>0, <2>1, ReleasedType DEF CallbackOnFreedRoom, Dies, queueVars, netVars
  <2>q. QED BY <2>2, <2>3, TendedKept
<1>5. CASE Leave \/ CloseWindow
  <2>1. UNCHANGED <<typed, sent, failed>>
        /\ \/ UNCHANGED <<room, queue, active, plugRefs, requests>>
           \/ room' # "open" /\ active' = None /\ queue' = << >>
    BY <1>5 DEF Leave, CloseWindow, Dies, queueVars, imageVars, netVars
  <2>2. \A g \in Handles : requests'[g] = requests[g] \/ requests'[g].kind = "free"
    BY <1>0, <1>5, ReleasedType DEF Leave, CloseWindow, Dies, queueVars, TypeOK
  <2>q. QED BY <2>1, <2>2, TendedKept
<1>6. CASE Disconnect
  <2>1. \A g \in Handles : /\ requests'[g].kind = requests[g].kind
                           /\ requests'[g].event = requests[g].event
    BY <1>0, <1>6 DEF Disconnect, TypeOK, Request, Live
  <2>2. failed' = failed
    BY <1>6, NoneIsNoHandle, ImagesAreEvents DEF Disconnect, Fails
  <2>q. QED BY <1>6, <2>1, <2>2, TendedKept DEF Disconnect, imageVars, netVars
<1>7. CASE Reconnect
  BY <1>7, TendedKept DEF Reconnect, queueVars, imageVars, netVars
<1>q. QED BY <1>1, <1>2, <1>3, <1>4, <1>5, <1>6, <1>7

LEMMA ImagedNext == NoMedia /\ Imaged /\ [Next]_vars => Imaged'
<1> SUFFICES ASSUME NoMedia, Imaged, [Next]_vars PROVE Imaged'
  OBVIOUS
<1>1. Guarded'
  BY GuardedNext DEF Imaged
<1>2. CASE UNCHANGED vars
  BY <1>1, <1>2, TendedKept DEF Imaged, vars, queueVars, imageVars, netVars
<1>3. CASE Next
  <2>1. ~ \E k \in Media : MediaArrives(k)
    BY DEF MediaArrives, NoMedia
  <2>q. QED BY <1>1, <1>3, <2>1, ImagedEnqueue, ImagedSendComplete,
               ImagedUploadComplete, ImagedFailures, ImagedOthers DEF Next, Answer
<1>q. QED BY <1>2, <1>3

LEMMA ImagedInit == Init => Imaged
<1> SUFFICES ASSUME Init PROVE Imaged
  OBVIOUS
<1>1. EmptyAfterRoom /\ OnlyHeadTried /\ FirstUploadUnsent /\ FirstSendHeld
  BY DEF Init, EmptyAfterRoom, OnlyHeadTried, FirstUploadUnsent, FirstSendHeld, Free
<1>2. UploadKeepsImage
  BY DEF Init, UploadKeepsImage, Elems
<1>q. QED BY <1>1, <1>2, GuardedInit DEF Imaged, Tended

\* Whatever fails and is tried again: an image keeps its reference from the
\* moment it is enqueued to the first end of its upload, and no longer.
THEOREM ImagesAreKept ==
  ASSUME NoMedia
  PROVE  Spec => []UploadKeepsImage
<1>1. Imaged /\ [Next]_vars => Imaged'
  BY ImagedNext
<1>2. Imaged => UploadKeepsImage
  BY DEF Imaged, Tended
<1>q. QED BY <1>1, <1>2, ImagedInit, PTL DEF Spec

LEMMA SlotLiveNext ==
  ASSUME NoMedia, "noUri" \notin Inputs, Imaged, SlotIsLive, [Next]_vars
  PROVE  SlotIsLive'
<1> USE DEF SlotIsLive
<1>0. TypeOK
  BY DEF Imaged, Guarded, Ordered
<1>1. CASE \E f \in Faults : Dies(f)
  BY <1>1 DEF Dies, queueVars, Outbound
<1>2. ASSUME NEW e \in Events, Enqueue(e)
      PROVE  SlotIsLive'
  <2> DEFINE refs == [x \in Images |-> IF x = e THEN plugRefs[x] + 1 ELSE plugRefs[x]]
  <2>0. /\ queue' \in Seq(Events) /\ requests \in [Handles -> Request]
        /\ refs \in [Images -> Int] /\ room = "open"
    BY <1>0, <1>2, AppendFacts DEF TypeOK, Enqueue
  <2>1. CASE UNCHANGED <<active, requests>>
    BY <2>1 DEF Outbound
  <2>2. CASE active = None /\ SendQueuedEvent(queue', requests, refs)
    <3>1. \A h \in Handles : requests[h].kind = "free"
      BY <2>0, <2>2, OnlyActive DEF Imaged
    <3>2. active' = None \/ requests'[active'].kind \in {"send", "upload"}
      BY <1>0, <2>0, <2>2, <3>1, QueuedOutcome
    <3>q. QED BY <3>2 DEF Outbound
  <2>q. QED BY <1>2, <2>1, <2>2 DEF Enqueue, SendInProgress
<1>3. CASE \E h \in Handles : SendComplete(h) \/ UploadComplete(h)
  <2>1. CASE fault' = fault
    BY <1>3, <2>1, ImagedSendComplete, ImagedUploadComplete
  <2>2. CASE fault' # fault
    <3>1. \E f \in Faults : Dies(f)
      BY <1>3, <2>2 DEF SendComplete, UploadComplete, Faults
    <3>q. QED BY <1>1, <3>1
  <2>q. QED BY <2>1, <2>2
<1>4. CASE \E h \in Handles : SendFailed(h) \/ UploadFailed(h) \/ UploadNoUri(h)
  <2>1. (\E f \in Faults : Dies(f)) \/ active' = None
    BY <1>4 DEF SendFailed, UploadFailed, UploadNoUri, Failed, Faults
  <2>q. QED BY <1>1, <2>1
<1>5. CASE \E h \in Handles : DownloadEnds(h) \/ CallbackOnFreedRoom(h)
  <2>1. ~ \E h \in Handles : DownloadEnds(h)
    BY DEF DownloadEnds, Imaged, Guarded, NoDownloads
  <2>2. active = None /\ active' = active
    BY <1>5, <2>1 DEF CallbackOnFreedRoom, Imaged, Tended, EmptyAfterRoom, Dies, queueVars
  <2>q. QED BY <2>2
<1>6. CASE Leave \/ CloseWindow
  <2>1. (\E f \in Faults : Dies(f)) \/ active' = None
    BY <1>6 DEF Leave, CloseWindow, Faults
  <2>q. QED BY <1>1, <2>1
<1>7. CASE Disconnect
  <2>1. active \in Handles => requests'[active].kind = requests[active].kind
    BY <1>0, <1>7 DEF Disconnect, TypeOK, Request, Live
  <2>q. QED BY <1>0, <1>7, <2>1 DEF Disconnect, TypeOK, Outbound
<1>8. CASE \/ UNCHANGED vars \/ Reconnect
           \/ \E e \in Events : ServerAccept(e)
           \/ \E e \in Images : UiRelease(e)
  BY <1>8 DEF Reconnect, ServerAccept, UiRelease, vars, queueVars, Outbound
<1>9. ~ \E k \in Media : MediaArrives(k)
  BY DEF MediaArrives, NoMedia
<1>q. QED BY <1>2, <1>3, <1>4, <1>5, <1>6, <1>7, <1>8, <1>9 DEF Next, Answer

\* Where uploads are answered with the file's address, the slot never keeps a
\* freed request: what leaving the room cancels is alive, also when images
\* have vanished and whatever has failed.
THEOREM SlotNeverDangles ==
  ASSUME NoMedia, "noUri" \notin Inputs
  PROVE  Spec => []SlotIsLive
<1>1. Init => Imaged /\ SlotIsLive
  BY ImagedInit DEF Init, SlotIsLive
<1>2. Imaged /\ SlotIsLive /\ [Next]_vars => Imaged' /\ SlotIsLive'
  BY ImagedNext, SlotLiveNext
<1>q. QED BY <1>1, <1>2, PTL DEF Spec

-----------------------------------------------------------------------------
(* Before the first failure.                                                *)

\* Until something fails the connection is up.
Calm == failures = 0 => link = "up" /\ failed = {}

Kept == Imaged /\ Calm /\ IdleOnlyAfterFailure

\* The first attempt at the head of q, while the connection is up and its
\* image, if it has one, is there: a request starts, or a failure is counted.
LEMMA FirstAttempt ==
  ASSUME failures = 0, failures' = 0, link = "up",
         NEW q \in Seq(Events), NEW r, NEW refs, SendQueuedEvent(q, r, refs),
         q # << >> /\ Head(q) \in Images => ImageExists(Head(q), refs)
  PROVE  UNCHANGED <<link, failed>> /\ (q # << >> => active' # None)
<1>0. \A e : ~Fails(e)
  BY DEF Fails
<1>1. CASE q = << >>
  BY <1>1 DEF SendQueuedEvent, NextEvent
<1>2. CASE q # << >> /\ Head(q) \in Images
  <2>1. SendImageHook(r, Head(q), refs)
    BY <1>2 DEF SendQueuedEvent, NextEvent
  <2>2. Started(r, "upload", Head(q), FALSE)
    BY <1>0, <1>2, <2>1 DEF SendImageHook
  <2>q. QED BY <2>2, NoneIsNoHandle DEF Started
<1>3. CASE q # << >> /\ Head(q) \notin Images
  <2>1. StartSend(r, Head(q), FALSE)
    BY <1>3 DEF SendQueuedEvent, NextEvent
  <2>2. Started(r, "send", Head(q), FALSE)
    BY <1>0, <2>1 DEF StartSend
  <2>q. QED BY <2>2, NoneIsNoHandle DEF Started
<1>q. QED BY <1>1, <1>2, <1>3

LEMMA KeptEnqueue ==
  ASSUME Kept, NEW e \in Events, Enqueue(e), failures = 0, failures' = 0
  PROVE  Kept'
<1> DEFINE refs == [x \in Images |-> IF x = e THEN plugRefs[x] + 1 ELSE plugRefs[x]]
<1>0. /\ queue \in Seq(Events) /\ plugRefs \in [Images -> Int] /\ link = "up"
      /\ failed = {} /\ room = "open" /\ queue' = Append(queue, e)
      /\ e \notin Elems(typed)
  BY DEF Kept, Calm, Imaged, Guarded, Ordered, TypeOK, Enqueue
<1>1. Imaged'
  BY ImagedEnqueue DEF Kept
<1>2. CASE UNCHANGED <<active, requests, sent, link, failVars>> /\ active # None
  BY <1>1, <1>2 DEF Kept, Calm, IdleOnlyAfterFailure
<1>3. CASE active = None /\ SendQueuedEvent(queue', requests, refs)
  <2>1. queue = << >>
    BY <1>0, <1>3 DEF Kept, IdleOnlyAfterFailure
  <2>2. queue' \in Seq(Events) /\ queue' # << >> /\ Head(queue') = e
    BY <1>0, <2>1, AppendFacts
  <2>3. e \in Images => plugRefs[e] = 0
    BY <1>0, <2>1 DEF Kept, Imaged, Tended, UploadKeepsImage, Elems
  <2>4. e \in Images => ImageExists(e, refs)
    BY <1>0, <2>3 DEF ImageExists
  <2>5. UNCHANGED <<link, failed>> /\ active' # None
    BY <1>0, <1>3, <2>2, <2>4, FirstAttempt
  <2>q. QED BY <1>0, <1>1, <2>5 DEF Kept, Calm, IdleOnlyAfterFailure
<1>q. QED BY <1>2, <1>3 DEF Enqueue, SendInProgress

LEMMA KeptSendComplete ==
  ASSUME Kept, NEW h \in Handles, SendComplete(h), failures = 0, failures' = 0
  PROVE  Kept'
<1>0. /\ queue \in Seq(Events) /\ plugRefs \in [Images -> Int]
      /\ link = "up" /\ failed = {} /\ room = "open"
  BY DEF Kept, Calm, Imaged, Guarded, Ordered, TypeOK, SendComplete
<1>1. Imaged'
  BY ImagedSendComplete DEF Kept
<1>2. queue # << >>
  BY <1>0, CompletionMatches DEF SendComplete, Kept, Imaged
<1>3. /\ queue' = Tail(queue) /\ SendQueuedEvent(queue', Released(h), plugRefs)
  BY <1>0, <1>2 DEF SendComplete, Popped
<1>4. queue' \in Seq(Events)
  BY <1>0, <1>2, <1>3, TailFacts
<1>5. ASSUME queue' # << >>, Head(queue') \in Images
      PROVE  ImageExists(Head(queue'), plugRefs)
  <2>1. Head(queue') = queue[2] /\ 2 \in DOMAIN queue
    BY <1>0, <1>2, <1>3, <1>4, <1>5, TailFacts
  <2>2. Head(queue') \in Elems(queue) /\ Head(queue') \notin sent
    BY <2>1 DEF Elems, Kept, Imaged, Guarded, Ordered, OnlyHeadEverSent
  <2>3. plugRefs[Head(queue')] = 1
    BY <1>0, <1>5, <2>2 DEF Kept, Imaged, Tended, UploadKeepsImage
  <2>q. QED BY <2>3 DEF ImageExists
<1>6. UNCHANGED <<link, failed>> /\ (queue' # << >> => active' # None)
  BY <1>0, <1>3, <1>4, <1>5, FirstAttempt
<1>q. QED BY <1>0, <1>1, <1>6 DEF Kept, Calm, IdleOnlyAfterFailure

LEMMA KeptOthers ==
  ASSUME Kept, Imaged', failures = 0, failures' = 0,
         \/ \E e \in Events : ServerAccept(e)
         \/ \E e \in Images : UiRelease(e)
         \/ \E h \in Handles : UploadComplete(h)
         \/ \E h \in Handles : SendFailed(h) \/ UploadFailed(h) \/ UploadNoUri(h)
         \/ \E h \in Handles : DownloadEnds(h) \/ CallbackOnFreedRoom(h)
         \/ Leave \/ CloseWindow \/ Disconnect \/ Reconnect
  PROVE  Kept'
<1>0. link = "up" /\ failed = {} /\ \A e : ~Fails(e)
  BY DEF Kept, Calm, Fails
<1>1. CASE UNCHANGED <<queue, active, room, link, failed>>
  BY <1>1 DEF Kept, Calm, IdleOnlyAfterFailure
<1>2. CASE \/ \E e \in Events : ServerAccept(e)
           \/ \E e \in Images : UiRelease(e)
           \/ \E h \in Handles : CallbackOnFreedRoom(h)
           \/ \E h \in Handles : SendFailed(h) \/ UploadFailed(h) \/ UploadNoUri(h)
  <2>1. UNCHANGED <<queue, active, room, link, failed>>
    BY <1>0, <1>2 DEF ServerAccept, UiRelease, CallbackOnFreedRoom, SendFailed,
                      UploadFailed, UploadNoUri, Failed, Dies, queueVars
  <2>q. QED BY <1>1, <2>1
<1>3. CASE \E h \in Handles : UploadComplete(h)
  <2>1. UNCHANGED <<queue, room, link, failed>>
        /\ (active' # None \/ active' = active)
    BY <1>0, <1>3, NoneIsNoHandle DEF UploadComplete, StartSend, Started, Dies, queueVars
  <2>q. QED BY <2>1 DEF Kept, Calm, IdleOnlyAfterFailure
<1>4. ~ \E h \in Handles : DownloadEnds(h)
  BY DEF DownloadEnds, Kept, Imaged, Guarded, NoDownloads
<1>5. CASE Leave \/ CloseWindow
  <2>1. CASE Dies("freedRequest")
    BY <1>1, <2>1 DEF Dies, queueVars
  <2>2. CASE room' # "open" /\ UNCHANGED <<link, failed>>
    BY <1>0, <2>2 DEF Kept, Calm, IdleOnlyAfterFailure
  <2>q. QED BY <1>5, <2>1, <2>2 DEF Leave, CloseWindow
<1>6. ~Disconnect /\ ~Reconnect
  BY <1>0 DEF Disconnect, Reconnect
<1>q. QED BY <1>2, <1>3, <1>4, <1>5, <1>6

\* Failures are only ever counted up.
LEMMA FailuresGrow ==
  ASSUME TypeOK, [Next]_vars, failures' = 0
  PROVE  failures = 0
<1>1. failures \in Nat
  BY FailuresBounded DEF TypeOK
<1>2. failures' = failures \/ failures' = failures + 1
  <2>1. CASE UNCHANGED vars
    BY <2>1 DEF vars
  <2>2. CASE \E e \in Events : Enqueue(e)
    BY <2>2 DEF Enqueue, SendInProgress, SendQueuedEvent, NextEvent, SendImageHook,
                StartSend, Started, Fails
  <2>3. CASE \E h \in Handles : SendComplete(h)
    BY <2>3 DEF SendComplete, Popped, SendQueuedEvent, SendImageHook, StartSend, Started,
                Fails, Dies
  <2>4. CASE \E h \in Handles : UploadComplete(h)
    BY <2>4 DEF UploadComplete, StartSend, Started, Fails, Dies
  <2>5. CASE \E h \in Handles : SendFailed(h) \/ UploadFailed(h) \/ UploadNoUri(h)
    BY <2>5 DEF SendFailed, UploadFailed, UploadNoUri, Failed, Fails, Dies
  <2>6. CASE \E k \in Media : MediaArrives(k)
    BY <2>6 DEF MediaArrives, Started, Fails, Dies
  <2>7. CASE \/ \E e \in Events : ServerAccept(e)
             \/ \E e \in Images : UiRelease(e)
             \/ \E h \in Handles : DownloadEnds(h) \/ CallbackOnFreedRoom(h)
    BY <2>7 DEF ServerAccept, UiRelease, DownloadEnds, CallbackOnFreedRoom, Dies
  <2>8. CASE Leave \/ CloseWindow \/ Disconnect \/ Reconnect
    BY <2>8 DEF Leave, CloseWindow, Disconnect, Reconnect, Fails, Dies
  <2>q. QED BY <2>1, <2>2, <2>3, <2>4, <2>5, <2>6, <2>7, <2>8 DEF Next, Answer
<1>q. QED BY <1>1, <1>2

LEMMA KeptNext == NoMedia /\ Kept /\ [Next]_vars => Kept'
<1> SUFFICES ASSUME NoMedia, Kept, [Next]_vars PROVE Kept'
  OBVIOUS
<1>1. Imaged'
  BY ImagedNext DEF Kept
<1>2. CASE failures' # 0
  <2>1. failures' \in Nat
    BY <1>1, FailuresBounded DEF Imaged, Guarded, Ordered, TypeOK
  <2>2. failures' > 0
    BY <1>2, <2>1
  <2>q. QED BY <1>1, <1>2, <2>2 DEF Kept, Calm, IdleOnlyAfterFailure
<1>3. CASE failures' = 0
  <2>1. failures = 0
    BY <1>3, FailuresGrow DEF Kept, Imaged, Guarded, Ordered
  <2>2. CASE UNCHANGED vars
    BY <1>1, <2>2 DEF vars, queueVars, Kept, Calm, IdleOnlyAfterFailure
  <2>3. CASE Next
    <3>1. ~ \E k \in Media : MediaArrives(k)
      BY DEF MediaArrives, NoMedia
    <3>q. QED BY <1>1, <1>3, <2>1, <2>3, <3>1, KeptEnqueue, KeptSendComplete,
                 KeptOthers DEF Next, Answer
  <2>q. QED BY <2>2, <2>3
<1>q. QED BY <1>2, <1>3

LEMMA KeptInit == Init => Kept
<1> SUFFICES ASSUME Init PROVE Kept
  OBVIOUS
<1>1. Calm /\ IdleOnlyAfterFailure
  BY DEF Init, Calm, IdleOnlyAfterFailure
<1>q. QED BY <1>1, ImagedInit DEF Kept

\* No completion forgets the messages behind it: until something fails, an
\* empty slot means an empty queue.
THEOREM NoForgottenMessage ==
  ASSUME NoMedia
  PROVE  Spec => []IdleOnlyAfterFailure
<1>1. Kept /\ [Next]_vars => Kept'
  BY KeptNext
<1>2. Kept => IdleOnlyAfterFailure
  BY DEF Kept
<1>q. QED BY <1>1, <1>2, KeptInit, PTL DEF Spec

-----------------------------------------------------------------------------
(* The room implements OutboundFifo.                                        *)

\* The part of t after its first n elements.
LEMMA RestFacts ==
  ASSUME NEW t \in Seq(Events), NEW n \in Nat, n <= Len(t)
  PROVE  /\ SubSeq(t, n + 1, Len(t)) \in Seq(Events)
         /\ Len(SubSeq(t, n + 1, Len(t))) = Len(t) - n
         /\ \A i \in 1..(Len(t) - n) : SubSeq(t, n + 1, Len(t))[i] = t[n + i]
<1>1. Len(t) \in Nat /\ \A i \in 1..Len(t) : t[i] \in Events
  OBVIOUS
<1>2. /\ Len(t) - n \in Nat /\ Len(t) - (n + 1) + 1 = Len(t) - n
      /\ n + 1 \in Int /\ Len(t) \in Int
      /\ \A i \in (n + 1)..Len(t) : t[i] \in Events
  BY <1>1
<1>3. /\ SubSeq(t, n + 1, Len(t)) \in Seq(Events)
      /\ Len(SubSeq(t, n + 1, Len(t))) =
           IF n + 1 <= Len(t) THEN Len(t) - (n + 1) + 1 ELSE 0
      /\ \A i \in 1..(Len(t) - (n + 1) + 1) :
           SubSeq(t, n + 1, Len(t))[i] = t[n + 1 + i - 1]
  BY <1>2, SubSeqProperties
<1>4. Len(SubSeq(t, n + 1, Len(t))) = Len(t) - n
  BY <1>1, <1>3
<1>5. \A i \in 1..(Len(t) - n) : n + 1 + i - 1 = n + i
  OBVIOUS
<1>q. QED BY <1>2, <1>3, <1>4, <1>5

\* Appending to t appends to the part after its first n elements.
LEMMA RestAppend ==
  ASSUME NEW t \in Seq(Events), NEW n \in Nat, n <= Len(t), NEW e \in Events
  PROVE  SubSeq(Append(t, e), n + 1, Len(Append(t, e)))
           = Append(SubSeq(t, n + 1, Len(t)), e)
<1> DEFINE a == Append(t, e)
           u == SubSeq(a, n + 1, Len(a))
           v == Append(SubSeq(t, n + 1, Len(t)), e)
<1>1. /\ a \in Seq(Events) /\ Len(a) = Len(t) + 1 /\ Len(t) \in Nat
      /\ a[Len(t) + 1] = e /\ \A i \in 1..Len(t) : a[i] = t[i]
  BY AppendFacts
<1>2. /\ u \in Seq(Events) /\ Len(u) = Len(t) + 1 - n
      /\ \A i \in 1..(Len(t) + 1 - n) : u[i] = a[n + i]
  BY <1>1, RestFacts
<1>3. /\ v \in Seq(Events) /\ Len(v) = Len(t) - n + 1 /\ v[Len(t) - n + 1] = e
      /\ \A i \in 1..(Len(t) - n) : v[i] = t[n + i]
  BY RestFacts, AppendFacts
<1>4. \A i \in 1..(Len(t) - n + 1) : u[i] = v[i]
  <2> TAKE i \in 1..(Len(t) - n + 1)
  <2>1. CASE i = Len(t) - n + 1
    BY <2>1, <1>1, <1>2, <1>3
  <2>2. CASE i \in 1..(Len(t) - n)
    <3>1. n + i \in 1..Len(t)
      BY <2>2, <1>1
    <3>q. QED BY <2>2, <3>1, <1>1, <1>2, <1>3
  <2>q. QED BY <2>1, <2>2, <1>1
<1>5. Len(u) = Len(v)
  BY <1>1, <1>2, <1>3
<1> HIDE DEF u, v
<1>6. u = v
  BY <1>1, <1>2, <1>3, <1>4, <1>5, SeqEqual
<1>q. QED BY <1>6 DEF u, v

\* One element fewer is the tail.
LEMMA RestTail ==
  ASSUME NEW t \in Seq(Events), NEW n \in Nat, n < Len(t)
  PROVE  /\ SubSeq(t, n + 1, Len(t)) # << >>
         /\ Head(SubSeq(t, n + 1, Len(t))) = t[n + 1]
         /\ Tail(SubSeq(t, n + 1, Len(t))) = SubSeq(t, n + 2, Len(t))
<1>1. /\ n + 1 \in 1..Len(t) /\ Len(t) \in (n + 1)..Len(t) /\ n + 1 + 1 = n + 2
      /\ n <= Len(t) /\ Len(t) - n > 0
  OBVIOUS
<1>2. /\ Head(SubSeq(t, n + 1, Len(t))) = t[n + 1]
      /\ Tail(SubSeq(t, n + 1, Len(t))) = SubSeq(t, n + 2, Len(t))
  BY <1>1, HeadTailOfSubSeq
<1>3. Len(SubSeq(t, n + 1, Len(t))) > 0
  BY <1>1, RestFacts
<1>4. SubSeq(t, n + 1, Len(t)) # << >>
  <2> DEFINE u == SubSeq(t, n + 1, Len(t))
  <2>1. Len(u) > 0
    BY <1>3
  <2> HIDE DEF u
  <2>2. u # << >>
    BY <2>1
  <2>q. QED BY <2>2 DEF u
<1>q. QED BY <1>2, <1>4

LEMMA FifoInitially == Init => Fifo!FifoInit
<1> SUFFICES ASSUME Init PROVE Fifo!FifoInit
  OBVIOUS
<1>1. Undelivered = SubSeq(<< >>, 1, 0)
  BY DEF Init, Undelivered
<1>2. Waiting = << >>
  BY <1>1, SubSeqEmpty DEF Init, Waiting
<1>q. QED BY <1>2 DEF Init, Fifo!FifoInit

\* A step that leaves the timeline and what was typed alone, and the room
\* or what was sent, stutters.
LEMMA FifoStutters ==
  ASSUME UNCHANGED <<typed, log, room>>, room = "open" \/ sent' = sent
  PROVE  UNCHANGED <<Waiting, log, room # "open">>
BY DEF Waiting, Undelivered

LEMMA FifoStep ==
  ASSUME NoMedia, Guarded, Guarded', [Next]_vars
  PROVE  [Fifo!FifoNext]_(Fifo!fifoVars)
<1>0. /\ typed \in Seq(Events) /\ log \in Seq(Events)
      /\ Len(typed) \in Nat /\ Len(log) \in Nat /\ Len(log) <= Len(typed)
      /\ DOMAIN typed = 1..Len(typed) /\ DOMAIN log = 1..Len(log)
  BY DEF Guarded, Ordered, TypeOK, InOrder
<1>1. CASE \E e \in Events : Enqueue(e)
  <2>1. PICK e \in Events : Enqueue(e)
    BY <1>1
  <2>2. /\ typed' = Append(typed, e) /\ UNCHANGED <<log, room>> /\ room = "open"
    BY <2>1 DEF Enqueue, SendInProgress
  <2>3. Waiting' = Append(Waiting, e)
    BY <1>0, <2>2, RestAppend DEF Waiting, Undelivered
  <2>4. Fifo!Submit(e)
    BY <2>2, <2>3 DEF Fifo!Submit
  <2>q. QED BY <2>4 DEF Fifo!FifoNext
<1>2. CASE \E e \in Events : ServerAccept(e)
  <2>1. PICK e \in Events : ServerAccept(e)
    BY <1>2
  <2>2. /\ log' = Append(log, e) /\ e \in sent /\ e \notin Elems(log)
        /\ UNCHANGED <<sent, room, typed>>
    BY <2>1 DEF ServerAccept
  <2>3. Len(log) < Len(typed) /\ e = typed[Len(log) + 1]
    BY <2>2 DEF Guarded, SentIsNext
  <2>4. /\ Undelivered # << >> /\ Head(Undelivered) = e
        /\ Tail(Undelivered) = SubSeq(typed, Len(log) + 2, Len(typed))
    BY <1>0, <2>3, RestTail DEF Undelivered
  <2>5. Len(log') = Len(log) + 1
    BY <1>0, <2>2, AppendFacts
  <2>6. Undelivered' = Tail(Undelivered)
    <3>1. Len(log) + 1 + 1 = Len(log) + 2
      BY <1>0
    <3>q. QED BY <2>2, <2>4, <2>5, <3>1 DEF Undelivered
  <2>7. Waiting # << >> /\ Head(Waiting) = e
    BY <2>2, <2>4 DEF Waiting
  <2>8. CASE room = "open"
    <3>1. Waiting' = Tail(Waiting)
      BY <2>2, <2>6, <2>8 DEF Waiting
    <3>q. QED BY <2>2, <2>7, <3>1 DEF Fifo!FifoNext, Fifo!Deliver
  <2>9. CASE room # "open"
    <3>1. Waiting = << e >>
      BY <2>2, <2>4, <2>9 DEF Waiting
    <3>2. Tail(Waiting) = << >>
      BY <3>1
    <3>3. ~ (Undelivered' # << >> /\ Head(Undelivered') \in sent')
      <4> SUFFICES ASSUME Undelivered' # << >>, Head(Undelivered') \in sent
                   PROVE  FALSE
        BY <2>2
      <4>1. Len(log) + 1 < Len(typed)
        <5> SUFFICES ASSUME ~ (Len(log) + 1 < Len(typed)) PROVE FALSE
          OBVIOUS
        <5>1. Len(typed) < Len(log) + 2
          BY <1>0
        <5>2. Len(log) + 2 \in Int /\ Len(typed) \in Int
          BY <1>0
        <5>q. QED BY <2>4, <2>6, <5>1, <5>2, SubSeqEmpty
      <4>2. Head(Undelivered') = typed[Len(log) + 2]
        <5>1. Len(log) + 1 \in Nat /\ Len(log) + 1 + 1 = Len(log) + 2
          BY <1>0
        <5>q. QED BY <1>0, <2>4, <2>6, <4>1, <5>1, RestTail
      <4>3. typed[Len(log) + 2] \in Elems(log) \/ typed[Len(log) + 2] = e
        BY <2>3, <4>2 DEF Guarded, SentIsNext
      <4>4. \A i \in 1..(Len(log) + 1) : typed[Len(log) + 2] # typed[i]
        BY <1>0, <4>1 DEF Guarded, Ordered, TypedOnce
      <4>5. \A x \in Elems(log) : \E i \in 1..Len(log) : x = typed[i]
        BY <1>0 DEF Elems, Guarded, InOrder
      <4>q. QED BY <1>0, <2>3, <4>3, <4>4, <4>5
    <3>4. Waiting' = << >>
      BY <2>2, <2>9, <3>3 DEF Waiting
    <3>q. QED BY <2>2, <2>7, <3>2, <3>4 DEF Fifo!FifoNext, Fifo!Deliver
  <2>q. QED BY <1>0, <2>8, <2>9
<1>3. CASE Leave \/ CloseWindow
  <2>1. CASE Dies("freedRequest")
    BY <2>1, FifoStutters DEF Dies, netVars, Fifo!fifoVars
  <2>2. CASE room = "open" /\ room' # "open" /\ UNCHANGED <<netVars, typed>>
    <3>1. Waiting = Undelivered /\ Undelivered' = Undelivered
      BY <2>2 DEF Waiting, Undelivered, netVars
    <3>2. \/ Waiting' = << >>
          \/ Waiting # << >> /\ Waiting' = << Head(Waiting) >>
      BY <2>2, <3>1 DEF Waiting
    <3>3. Fifo!GiveUp
      BY <2>2, <3>2 DEF Fifo!GiveUp, netVars
    <3>q. QED BY <3>3 DEF Fifo!FifoNext
  <2>q. QED BY <1>3, <2>1, <2>2 DEF Leave, CloseWindow
<1>4. CASE UNCHANGED vars
  BY <1>4, FifoStutters DEF vars, netVars, Fifo!fifoVars
<1>5. CASE \/ \E h \in Handles : \/ SendComplete(h) \/ SendFailed(h)
                                 \/ UploadComplete(h) \/ UploadFailed(h)
                                 \/ UploadNoUri(h) \/ CallbackOnFreedRoom(h)
           \/ \E e \in Images : UiRelease(e)
           \/ Disconnect \/ Reconnect
  <2>1. UNCHANGED <<typed, log, room>> /\ (room = "open" \/ sent' = sent)
    BY <1>5 DEF SendComplete, Popped, SendFailed, UploadComplete, UploadFailed,
                UploadNoUri, UiRelease, Disconnect, Reconnect, Failed, CallbackOnFreedRoom, Dies,
                netVars
  <2>q. QED BY <2>1, FifoStutters DEF Fifo!fifoVars
<1>6. /\ ~ \E h \in Handles : DownloadEnds(h)
      /\ ~ \E k \in Media : MediaArrives(k)
  BY DEF DownloadEnds, MediaArrives, NoMedia, Guarded, NoDownloads
<1>q. QED BY <1>1, <1>2, <1>3, <1>4, <1>5, <1>6 DEF Next, Answer

\* A room that receives no attachments is a FIFO channel from the user to the
\* homeserver's timeline, through every failure, retry and reconnection.
THEOREM RoomIsFifo ==
  ASSUME NoMedia
  PROVE  Spec => ImplementsFifo
<1>1. Guarded /\ Guarded' /\ [Next]_vars => [Fifo!FifoNext]_(Fifo!fifoVars)
  BY FifoStep
<1>q. QED
  BY <1>1, FifoInitially, AlwaysGuarded, PTL DEF Spec, ImplementsFifo, Fifo!FifoSpec
=============================================================================
