---------------------------- MODULE OutboundFifo ----------------------------
(***************************************************************************)
(* What a room promises of the messages typed into it: they are delivered  *)
(* to the homeserver's timeline once each, in the order typed, none is     *)
(* skipped, and only leaving the room gives up those not yet handed over.  *)
(***************************************************************************)
EXTENDS Sequences

CONSTANT Events

VARIABLES
  waiting,    \* messages not delivered yet, oldest first
  delivered,  \* the timeline
  closed      \* the room was left

fifoVars == <<waiting, delivered, closed>>

FifoInit == waiting = << >> /\ delivered = << >> /\ closed = FALSE

\* The user types a message.
Submit(e) ==
  /\ ~closed
  /\ waiting' = Append(waiting, e)
  /\ UNCHANGED <<delivered, closed>>

\* The oldest waiting message is delivered.
Deliver ==
  /\ waiting # << >>
  /\ delivered' = Append(delivered, Head(waiting))
  /\ waiting' = Tail(waiting)
  /\ UNCHANGED closed

\* The user leaves: what waits is given up, except that the oldest one may
\* already be on its way.
GiveUp ==
  /\ ~closed /\ closed' = TRUE
  /\ \/ waiting' = << >>
     \/ waiting # << >> /\ waiting' = << Head(waiting) >>
  /\ UNCHANGED delivered

FifoNext == (\E e \in Events : Submit(e)) \/ Deliver \/ GiveUp

FifoSpec == FifoInit /\ [][FifoNext]_fifoVars
=============================================================================
