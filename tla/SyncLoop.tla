------------------------------ MODULE SyncLoop ------------------------------
(***************************************************************************)
(* What the loop of /sync requests promises, whatever the responses bring  *)
(* and however often it is interrupted: the account sees all that happens, *)
(* without a gap.  What happens takes a place in the homeserver's stream,  *)
(* a response has what comes after the position it was asked for up to     *)
(* where the stream ends, and no request asks for what comes after         *)
(* something that was not handled.  Things may be seen again, for it is    *)
(* not promised that a position is kept.                                   *)
(*                                                                         *)
(* Connection, Chats and Encryption each have the loop with what they make *)
(* of a response, and implement this.                                      *)
(***************************************************************************)
EXTENDS Naturals

VARIABLES
  head,       \* the last position in the stream
  delivered,  \* the positions that were handled
  asking,     \* whether the loop runs
  asked,      \* the position its last request asked from
  answers     \* of the response on its way, if there is one: where it ends

loopVars == <<head, delivered, asking, asked, answers>>

LoopInit ==
  /\ head \in Nat
  /\ delivered = {} /\ asking = FALSE /\ asked = 0 /\ answers = {}

Grow ==
  /\ head' = head + 1
  /\ UNCHANGED <<delivered, asking, asked, answers>>

\* The loop begins, at the start of the stream or anywhere in what is known.
Ask ==
  /\ ~asking /\ asking' = TRUE
  /\ asked' \in 0..head /\ 1..asked' \subseteq delivered
  /\ UNCHANGED <<head, delivered, answers>>

Respond ==
  /\ asking /\ answers = {}
  /\ answers' = {head}
  /\ UNCHANGED <<head, delivered, asking, asked>>

\* A response is handled, and the next request asks for what follows it; or
\* the loop ends there.
Handle ==
  /\ asking
  /\ \E upto \in answers :
       /\ delivered' = delivered \cup (asked + 1)..upto
       /\ \/ asking' = TRUE /\ asked' = upto
          \/ asking' = FALSE /\ asked' = asked
  /\ answers' = {} /\ UNCHANGED head

\* A request fails or is cancelled, and with it the response it may have had.
Fail ==
  /\ asking /\ asking' \in BOOLEAN /\ answers' = {}
  /\ UNCHANGED <<head, delivered, asked>>

LoopNext == Grow \/ Ask \/ Respond \/ Handle \/ Fail

LoopSpec == LoopInit /\ [][LoopNext]_loopVars

-----------------------------------------------------------------------------
(* Properties.                                                              *)

\* Nothing is passed over: what was handled is all that happened up to some
\* position.
NoGap == \A q \in delivered : 1..q \subseteq delivered

\* A request never skips what was not handled, nor asks from beyond the end.
AsksFromKnown == asked <= head /\ 1..asked \subseteq delivered
=============================================================================
