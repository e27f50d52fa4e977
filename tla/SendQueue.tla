----------------------------- MODULE SendQueue -----------------------------
(***************************************************************************)
(* The outbound side of one chat room: the queue of events waiting to be   *)
(* sent and the "active_send" slot (matrix-room.c), the HTTP requests      *)
(* behind them (matrix-api.c), the reference the plugin takes on an image  *)
(* it uploads, the state of the account's connection as far as sending     *)
(* depends on it, leaving the room, and its window closed meanwhile.       *)
(*                                                                         *)
(* Everything runs on one main loop: an action is one callback, run to its *)
(* end.  Concurrency is in the order in which the callbacks come.          *)
(***************************************************************************)
EXTENDS Naturals, Integers, Sequences

CONSTANTS
  Events,       \* what the user may send; an event stands for its txn_id too
  Images,       \* the events that carry an image, sent through _send_image_hook
  Handles,      \* addresses a MatrixApiRequestData may be allocated at
  None,         \* the NULL pointer
  Inputs,       \* which of AllInputs the environment produces
  MaxFailures   \* bound on failed requests and on disconnections

Media     == {"plain", "crypt", "nofetch"}  \* kinds of incoming attachments
AllInputs == Media \cup {"noUri", "uiRelease"}

ASSUME ImagesAreEvents == Images \subseteq Events
ASSUME NoneIsNoHandle  == None \notin Handles /\ None \notin Events
ASSUME InputsKnown     == Inputs \subseteq AllInputs
ASSUME FailuresBounded == MaxFailures \in Nat

VARIABLES
  queue,      \* PURPLE_CONV_DATA_EVENT_QUEUE
  active,     \* PURPLE_CONV_DATA_ACTIVE_SEND, possibly a freed address
  requests,   \* what is allocated at each address
  room,       \* "open"; the conversation is freed when the room is "left", or
              \* when its window is "closed" while there is no connection
  link,       \* the PurpleConnection: see Links
  plugRefs,   \* image references taken by the plugin minus those it dropped
  uiHolds,    \* images the user interface still holds a reference on
  sent,       \* events that reached the network, perhaps more than once
  log,        \* the room's timeline at the homeserver, from this device
  typed,      \* history: every event enqueued, in order
  failures,   \* history: failures so far, bounded by MaxFailures
  failed,     \* history: the images that an attempt to send has failed for
  fault       \* "no", or the kind of invalid access that killed the process

queueVars == <<queue, active, requests>>
imageVars == <<plugRefs, uiHolds>>
netVars   == <<sent, log>>
failVars  == <<failures, failed>>
vars == <<queueVars, imageVars, netVars, failVars, room, link, typed, fault>>

(* "up"; "failing" and "dying": a non-fatal or fatal error was reported and *)
(* libpurple will disconnect (dying is wants_to_die); "down": no gc at all. *)
Links  == {"up", "failing", "dying", "down"}
Faults == {"no", "emptyQueue", "noGc", "freedConn", "freedEvent", "freedRoom",
           "freedRequest", "freedMedia"}

Request == [kind : {"free", "send", "upload", "plain", "crypt"},
            event : Events \cup {None}, stale : BOOLEAN]
Free == [kind |-> "free", event |-> None, stale |-> FALSE]

Elems(s) == {s[i] : i \in DOMAIN s}
Live(h)  == requests[h].kind # "free"
Outbound(h) == requests[h].kind \in {"send", "upload"}
Released(h) == [requests EXCEPT ![h] = Free]
ImageExists(e, refs) == refs[e] + (IF e \in uiHolds THEN 1 ELSE 0) > 0

TypeOK ==
  /\ queue \in Seq(Events)
  /\ active \in Handles \cup {None}
  /\ requests \in [Handles -> Request]
  /\ room \in {"open", "left", "closed"}
  /\ link \in Links
  /\ plugRefs \in [Images -> Int]
  /\ uiHolds \in SUBSET Images
  /\ sent \in SUBSET Events
  /\ log \in Seq(Events)
  /\ typed \in Seq(Events)
  /\ failures \in 0..MaxFailures
  /\ failed \in SUBSET Images
  /\ fault \in Faults

Init ==
  /\ queue = << >> /\ active = None /\ requests = [h \in Handles |-> Free]
  /\ room = "open" /\ link = "up"
  /\ plugRefs = [e \in Images |-> 0] /\ uiHolds = {}
  /\ sent = {} /\ log = << >> /\ typed = << >>
  /\ failures = 0 /\ failed = {} /\ fault = "no"

-----------------------------------------------------------------------------
(* Building blocks shared by the handlers.  A name with an underscore is a   *)
(* mutated form of the definition that follows it, used by no action: it is  *)
(* there to try what the properties tell apart.                              *)

Running == fault = "no"

\* The process dies on an invalid access of kind f; nothing else happens.
Dies(f) ==
  /\ fault' = f
  /\ UNCHANGED <<queueVars, imageVars, netVars, room, link, typed, failVars>>

\* An attempt to send e fails (e is None where it is not about an event).
Fails(e) ==
  /\ failures < MaxFailures /\ failures' = failures + 1
  /\ failed' = failed \cup ({e} \cap Images)

\* purple_connection_error_reason: only the first error report counts, and
\* one made through a freed connection reaches no account.
Report(fatal, stale) ==
  link' = IF stale \/ link # "up" THEN link
          ELSE IF fatal THEN "dying" ELSE "failing"

Unref_Forgotten(e, refs) == refs

\* purple_imgstore_unref; on an image that is gone it does nothing.
Unref(e, refs) ==
  IF ImageExists(e, refs) THEN [refs EXCEPT ![e] = @ - 1] ELSE refs

\* A request of this kind is allocated in r and becomes the active one.
Started(r, kind, e, stale) ==
  /\ \E h \in Handles :
       /\ r[h].kind = "free"
       /\ requests' = [r EXCEPT ![h] = [kind |-> kind, event |-> e, stale |-> stale]]
       /\ active' = h
  /\ sent' = IF kind = "send" THEN sent \cup {e} ELSE sent
  /\ UNCHANGED <<link, failVars>>

\* matrix_api_start_full: the request starts, or its error callback runs
\* before the call returns NULL.
StartSend(r, e, stale) ==
  \/ Started(r, "send", e, stale)
  \/ /\ Fails(e) /\ Report(FALSE, stale)
     /\ requests' = r /\ active' = None
     /\ UNCHANGED sent

\* _send_image_hook: uploads the image; without it, returns at once and the
\* slot keeps what it held.
SendImageHook(r, e, refs) ==
  \/ /\ ~ImageExists(e, refs)
     /\ requests' = r /\ plugRefs' = refs
     /\ UNCHANGED <<active, sent, link, failVars>>
  \/ /\ ImageExists(e, refs)
     /\ Started(r, "upload", e, FALSE)
     /\ plugRefs' = refs
  \/ /\ ImageExists(e, refs)
     /\ Fails(e) /\ Report(FALSE, FALSE)
     /\ requests' = r /\ active' = None
     /\ plugRefs' = Unref(e, refs)
     /\ UNCHANGED sent

NextEvent_Last(q) == q[Len(q)]

\* The event to send next.
NextEvent(q) == Head(q)

\* The queue once an event was sent.
Popped(q) == Tail(q)

SendInProgress_Ignored == FALSE

\* What _enqueue_event tests before it sends at once.
SendInProgress == active # None

\* _send_queued_event with queue q, allocated requests r and references refs.
SendQueuedEvent(q, r, refs) ==
  \/ /\ q = << >> \/ link = "dying"
     /\ active' = None /\ requests' = r /\ plugRefs' = refs
     /\ UNCHANGED <<sent, link, failVars>>
  \/ /\ q # << >> /\ link # "dying" /\ NextEvent(q) \in Images
     /\ SendImageHook(r, NextEvent(q), refs)
  \/ /\ q # << >> /\ link # "dying" /\ NextEvent(q) \notin Images
     /\ StartSend(r, NextEvent(q), FALSE)
     /\ plugRefs' = refs

-----------------------------------------------------------------------------
(* The user.                                                                *)

\* matrix_room_send_message and matrix_room_send_image, for one event.  A
\* message with images in it is several events enqueued one after the other.
Enqueue(e) ==
  /\ Running /\ room = "open" /\ link # "down" /\ e \notin Elems(typed)
  /\ typed' = Append(typed, e)
  /\ queue' = Append(queue, e)
  /\ uiHolds' = uiHolds \cup ({e} \cap Images)
  /\ LET refs == [x \in Images |-> IF x = e THEN plugRefs[x] + 1 ELSE plugRefs[x]]
     IN \/ /\ SendInProgress
           /\ plugRefs' = refs
           /\ UNCHANGED <<active, requests, sent, link, failVars>>
        \/ /\ ~SendInProgress
           /\ SendQueuedEvent(queue', requests, refs)
  /\ UNCHANGED <<room, log, fault>>

\* The user interface drops its own reference on an image it has sent.
UiRelease(e) ==
  /\ Running /\ "uiRelease" \in Inputs /\ e \in uiHolds
  /\ uiHolds' = uiHolds \ {e}
  /\ UNCHANGED <<queueVars, plugRefs, netVars, room, link, typed, failVars, fault>>

Leave_NoCancel ==
  /\ Running /\ room = "open" /\ link # "down"
  /\ active' = None /\ queue' = << >> /\ room' = "left"
  /\ UNCHANGED <<requests, imageVars, netVars, link, typed, failVars, fault>>

\* matrix_room_leave_chat: cancels the active request, whose error callback
\* says "cancelled" and so reports nothing, then frees the queue and the room.
Leave ==
  /\ Running /\ room = "open" /\ link # "down"
  /\ \/ /\ \/ active = None /\ UNCHANGED <<requests, plugRefs>>
           \/ /\ active # None /\ Live(active)
              /\ requests' = Released(active)
              /\ plugRefs' = IF requests[active].kind = "upload"
                             THEN Unref(requests[active].event, plugRefs)
                             ELSE plugRefs
           \/ active # None /\ ~Live(active) /\ UNCHANGED <<requests, plugRefs>>
        /\ active' = None /\ queue' = << >> /\ room' = "left"
        /\ UNCHANGED <<uiHolds, netVars, link, typed, failVars, fault>>
     \/ /\ active # None /\ ~Live(active)
        /\ Dies("freedRequest")

\* libpurple closes the window of an account that is not connected: it frees
\* the conversation, and the plugin, which a gc would have been asked for, is
\* not told.  The queue is leaked; requests that survived matrixprpl_close
\* keep their pointer to the conversation.
CloseWindow ==
  /\ Running /\ room = "open" /\ link = "down"
  /\ active' = None /\ queue' = << >> /\ room' = "closed"
  /\ UNCHANGED <<requests, imageVars, netVars, link, typed, failVars, fault>>

-----------------------------------------------------------------------------
(* The homeserver and the answers to requests.                              *)

\* The homeserver takes a copy of e it has received; a txn_id counts once.
ServerAccept(e) ==
  /\ Running /\ e \in sent /\ e \notin Elems(log)
  /\ log' = Append(log, e)
  /\ UNCHANGED <<queueVars, imageVars, sent, room, link, typed, failVars, fault>>

\* A callback whose PurpleConversation is gone: invalid accesses, which kill
\* the process or go unnoticed.  The image is in libpurple's store and loses
\* its reference all the same; what is sent from freed memory reaches no room.
CallbackOnFreedRoom(h) ==
  /\ Running /\ room # "open" /\ Live(h)
  /\ \/ Dies("freedRoom")
     \/ /\ requests' = Released(h)
        /\ plugRefs' = IF requests[h].kind = "upload"
                       THEN Unref(requests[h].event, plugRefs) ELSE plugRefs
        /\ UNCHANGED <<queue, active, uiHolds, netVars, room, link, typed,
                       failVars, fault>>

SendComplete_NoNext(h) ==
  /\ Running /\ room = "open" /\ requests[h].kind = "send"
  /\ requests[h].event \in Elems(log) /\ queue # << >>
  /\ queue' = Tail(queue) /\ requests' = Released(h) /\ active' = None
  /\ UNCHANGED <<imageVars, netVars, link, room, typed, failVars, fault>>

\* _event_send_complete: pops the head of the queue and sends the next one.
SendComplete(h) ==
  /\ Running /\ room = "open" /\ requests[h].kind = "send"
  /\ requests[h].event \in Elems(log)
  /\ \/ queue = << >> /\ Dies("emptyQueue")
     \/ Len(queue) > 1 /\ link = "down" /\ Dies("noGc")
     \/ /\ queue # << >> /\ (Len(queue) = 1 \/ link # "down")
        /\ queue' = Popped(queue)
        /\ SendQueuedEvent(queue', Released(h), plugRefs)
        /\ UNCHANGED <<uiHolds, log, room, typed, fault>>

Failed_Pops(h, refs) ==
  /\ Fails(requests[h].event) /\ Report(FALSE, requests[h].stale)
  /\ requests' = Released(h) /\ active' = None /\ plugRefs' = refs
  /\ queue' = Tail(queue)
  /\ UNCHANGED <<uiHolds, netVars, room, typed, fault>>

Failed_KeepsSlot(h, refs) ==
  /\ Fails(requests[h].event) /\ Report(FALSE, requests[h].stale)
  /\ requests' = Released(h) /\ plugRefs' = refs
  /\ UNCHANGED <<queue, active, uiHolds, netVars, room, typed, fault>>

\* What the error and bad-response callbacks of sends and uploads share: the
\* error is reported on the connection, which may have been freed meanwhile,
\* and the event stays where it is.
Failed(h, refs) ==
  /\ Fails(requests[h].event)
  /\ \E fatal \in BOOLEAN : Report(fatal, requests[h].stale)
  /\ requests' = Released(h) /\ active' = None
  /\ plugRefs' = refs
  /\ UNCHANGED <<queue, uiHolds, netVars, room, typed, fault>>

\* _event_send_error and _event_send_bad_response
SendFailed(h) ==
  /\ Running /\ room = "open" /\ requests[h].kind = "send"
  /\ \/ Failed(h, plugRefs)
     \/ requests[h].stale /\ Dies("freedConn")

\* _image_upload_error and _image_upload_bad_response
UploadFailed(h) ==
  /\ Running /\ room = "open" /\ requests[h].kind = "upload"
  /\ \/ Failed(h, Unref(requests[h].event, plugRefs))
     \/ requests[h].stale /\ Dies("freedConn")

\* _image_upload_complete with a content_uri: the event itself is sent.
UploadComplete(h) ==
  /\ Running /\ room = "open" /\ requests[h].kind = "upload"
  /\ LET e == requests[h].event
     IN \/ /\ StartSend(Released(h), e, requests[h].stale)
           /\ plugRefs' = Unref(e, plugRefs)
           /\ UNCHANGED <<queue, uiHolds, log, room, typed, fault>>
        \/ requests[h].stale /\ Dies("freedConn")
        \/ e \notin Elems(queue) /\ Dies("freedEvent")

\* _image_upload_complete without one: an error is reported, and the slot
\* still holds the request that is being freed.
UploadNoUri(h) ==
  /\ Running /\ room = "open" /\ requests[h].kind = "upload" /\ "noUri" \in Inputs
  /\ \/ /\ Fails(requests[h].event)
        /\ Report(FALSE, requests[h].stale)
        /\ requests' = Released(h)
        /\ plugRefs' = Unref(requests[h].event, plugRefs)
        /\ UNCHANGED <<queue, active, uiHolds, netVars, room, typed, fault>>
     \/ requests[h].stale /\ Dies("freedConn")

-----------------------------------------------------------------------------
(* Incoming attachments, which use the same slot.                           *)

MediaArrives_FetchesAll(k) ==
  /\ Running /\ room = "open" /\ link # "down" /\ k \in Inputs \cap Media
  /\ Started(requests, k, None, FALSE)
  /\ UNCHANGED <<queue, imageVars, log, room, typed, fault>>

\* _handle_incoming_media: the slot is overwritten with the download, or with
\* NULL where nothing is fetched ("nofetch": encrypted and not known to be
\* small) or where the download can't start; in that last case its error
\* callback has freed the data that the handler goes on to read.
MediaArrives(k) ==
  /\ Running /\ room = "open" /\ link # "down" /\ k \in Inputs \cap Media
  /\ \/ /\ \/ k # "nofetch" /\ Started(requests, k, None, FALSE)
           \/ /\ IF k = "nofetch" THEN UNCHANGED failVars ELSE Fails(None)
              /\ active' = None
              /\ UNCHANGED <<requests, sent, link>>
        /\ UNCHANGED <<queue, imageVars, log, room, typed, fault>>
     \/ k # "nofetch" /\ Dies("freedMedia")

\* _image_download_complete, _bad_response and _error: the slot is cleared,
\* except that an encrypted file which did arrive returns before that.
DownloadEnds(h) ==
  /\ Running /\ room = "open" /\ requests[h].kind \in {"plain", "crypt"}
  /\ requests' = Released(h)
  /\ \/ active' = None
     \/ requests[h].kind = "crypt" /\ UNCHANGED active
  /\ UNCHANGED <<queue, imageVars, netVars, room, link, typed, failVars, fault>>

-----------------------------------------------------------------------------
(* The account's connection.                                                *)

\* matrixprpl_close: MatrixConnectionData is freed; only the sync request is
\* cancelled, so the others live on with a pointer to it.
Disconnect ==
  /\ Running /\ link # "down"
  /\ \/ link # "up" /\ UNCHANGED failVars
     \/ link = "up" /\ Fails(None)
  /\ link' = "down"
  /\ requests' = [h \in Handles |-> [requests[h] EXCEPT !.stale = Live(h)]]
  /\ UNCHANGED <<queue, active, imageVars, netVars, room, typed, fault>>

\* matrixprpl_login and, for the room, matrixprpl_join_chat: the conversation
\* kept its queue and its slot, and nothing is sent from here.
Reconnect ==
  /\ Running /\ link = "down"
  /\ link' = "up"
  /\ UNCHANGED <<queueVars, imageVars, netVars, room, typed, failVars, fault>>

Answer(h) ==
  \/ SendComplete(h) \/ SendFailed(h)
  \/ UploadComplete(h) \/ UploadFailed(h) \/ UploadNoUri(h)
  \/ DownloadEnds(h) \/ CallbackOnFreedRoom(h)

Next ==
  \/ \E e \in Events : Enqueue(e) \/ ServerAccept(e)
  \/ \E e \in Images : UiRelease(e)
  \/ \E h \in Handles : Answer(h)
  \/ \E k \in Media : MediaArrives(k)
  \/ Leave \/ CloseWindow \/ Disconnect \/ Reconnect

Spec == Init /\ [][Next]_vars

(* Every request is answered or times out, and the homeserver processes what *)
(* it has received.  Nobody has to type, reconnect or leave.                 *)
FairSpec ==
  /\ Spec
  /\ \A h \in Handles : WF_vars(Answer(h))
  /\ \A e \in Events : WF_vars(ServerAccept(e))

-----------------------------------------------------------------------------
(* Properties of every environment.                                         *)

\* The queue is always the latest part of what was typed, in that order:
\* completions and appends never reorder, duplicate or skip an entry.
QueueIsSuffix ==
  LET n == Len(typed) - Len(queue)
  IN n >= 0 /\ \A i \in DOMAIN queue : queue[i] = typed[n + i]

\* Only the head of the queue, or an event that has left it, was ever given
\* to the network: no message overtakes the one that is queued before it.
OnlyHeadEverSent ==
  \A i \in DOMAIN queue : i > 1 => queue[i] \notin sent

(* Properties of a room without incoming attachments, where the slot holds  *)
(* nothing but sends and uploads.                                           *)
NoMedia == Inputs \cap Media = {}

\* A message the user typed is still queued or has reached the room: what
\* _event_send_complete pops is what the homeserver took.
NothingLost ==
  room = "open" => Elems(typed) \subseteq Elems(queue) \cup Elems(log)

\* The homeserver's timeline has this device's messages once each, in the
\* order they were typed, across failures, retries and reconnections.
InOrder ==
  /\ Len(log) <= Len(typed)
  /\ \A i \in DOMAIN log : log[i] = typed[i]

\* The slot stands for the one send or upload in flight, which is that of the
\* head of the queue; no second one runs beside it or outlives leaving the room.
\* (A window closed without a connection takes the slot away; see CloseWindow.)
SlotGuardsSend ==
  \A h \in Handles : Outbound(h) /\ room # "closed" =>
    /\ active = h /\ room = "open"
    /\ queue # << >> /\ requests[h].event = Head(queue)

\* Leaving cancels the send in progress: its callbacks never run on a freed
\* conversation (_cancel_event_send).
LeaveCancelsSend ==
  room = "left" => \A h \in Handles : ~Outbound(h)

\* No completion finds an empty queue or a freed event, and none a freed room
\* but the one whose window was closed while the account was not connected:
\* matrixprpl_close cancels the sync only, and then nothing can cancel the rest.
NoBadAccess ==
  /\ fault \notin {"emptyQueue", "freedEvent"}
  /\ fault = "freedRoom" => room = "closed"

\* An image that no attempt has failed for has one reference of the plugin's
\* until its upload ends and none after that; one that an attempt has failed
\* for, before or after its upload, has none left, and so never leaks.  (A
\* second attempt may then drop the user interface's, hence "at most".)
UploadKeepsImage ==
  room = "open" =>
    \A e \in Images :
      IF e \in failed THEN plugRefs[e] <= 0
      ELSE plugRefs[e] = IF e \in Elems(queue) /\ e \notin sent THEN 1 ELSE 0

\* The slot never keeps a request that is freed, so that what leaving the room
\* cancels is alive, and what an idle queue waits for is under way: also when
\* the next event is an image, whose hook gives up without a trace where the
\* image is gone.  (Not so where an upload is answered without content_uri.)
SlotIsLive == active # None => Outbound(active)

\* Sending stops with messages left only after a failure: no completion
\* forgets to start the next send.
IdleOnlyAfterFailure ==
  room = "open" /\ active = None /\ queue # << >> => failures > 0

\* Sending ends, by emptying the queue or at a failure: the slot is not held
\* for ever (unless the process has died).
SendingSettles == active # None ~> (active = None \/ fault # "no")

-----------------------------------------------------------------------------
(* The room as a FIFO channel: what is typed and not in the timeline waits;  *)
(* once the room is gone only what had reached the network may still arrive. *)

Undelivered == SubSeq(typed, Len(log) + 1, Len(typed))

Waiting ==
  IF room = "open" THEN Undelivered
  ELSE IF Undelivered # << >> /\ Head(Undelivered) \in sent
       THEN << Head(Undelivered) >>
       ELSE << >>

Fifo == INSTANCE OutboundFifo WITH
          waiting <- Waiting, delivered <- log, closed <- (room # "open")

\* Without attachments the room is that channel, whatever fails.
ImplementsFifo == Fifo!FifoSpec
=============================================================================
