--------------------------- MODULE SyncLoopProofs ---------------------------
(***************************************************************************)
(* Proofs about SyncLoop: nothing in the stream is passed over, however    *)
(* long it gets and wherever the loop is interrupted.                      *)
(***************************************************************************)
EXTENDS SyncLoop, TLAPS

LoopTypeOK ==
  /\ head \in Nat /\ delivered \in SUBSET (Nat \ {0})
  /\ asking \in BOOLEAN /\ asked \in Nat /\ answers \in SUBSET Nat

\* A response ends no earlier than what was handled, and no later than the
\* stream.
AnswersFit == \A upto \in answers : upto <= head /\ delivered \subseteq 1..upto

LoopInv ==
  /\ LoopTypeOK /\ AnswersFit
  /\ delivered \subseteq 1..head /\ NoGap /\ AsksFromKnown

LEMMA InitLoopInv == LoopInit => LoopInv
<1> SUFFICES ASSUME LoopInit PROVE LoopInv
  OBVIOUS
<1>1. LoopTypeOK /\ AnswersFit /\ delivered \subseteq 1..head /\ NoGap
  BY DEF LoopInit, LoopTypeOK, AnswersFit, NoGap
<1>2. AsksFromKnown
  BY DEF LoopInit, AsksFromKnown
<1> QED
  BY <1>1, <1>2 DEF LoopInv

LEMMA NextLoopInv == LoopInv /\ [LoopNext]_loopVars => LoopInv'
<1> SUFFICES ASSUME LoopInv, [LoopNext]_loopVars PROVE LoopInv'
  OBVIOUS
<1> USE DEF LoopInv, LoopTypeOK
<1>1. CASE Grow
  BY <1>1 DEF Grow, AnswersFit, NoGap, AsksFromKnown
<1>2. CASE Ask
  BY <1>2 DEF Ask, AnswersFit, NoGap, AsksFromKnown
<1>3. CASE Respond
  <2>1. AnswersFit'
    BY <1>3 DEF Respond, AnswersFit
  <2>2. NoGap' /\ AsksFromKnown' /\ delivered' \subseteq 1..head'
    BY <1>3 DEF Respond, NoGap, AsksFromKnown
  <2>3. LoopTypeOK'
    BY <1>3 DEF Respond
  <2> QED
    BY <2>1, <2>2, <2>3
<1>4. CASE Handle
  <2>1. PICK upto \in answers :
          /\ delivered' = delivered \cup (asked + 1)..upto
          /\ asked' \in {upto, asked}
    BY <1>4 DEF Handle
  <2>2. upto \in Nat /\ upto <= head /\ delivered \subseteq 1..upto /\ 1..asked \subseteq delivered
    BY DEF AnswersFit, AsksFromKnown
  <2>3. delivered' = 1..upto
    <3>1. \A q \in 1..upto : q \in 1..asked \/ q \in (asked + 1)..upto
      BY <2>2
    <3>2. \A q \in (asked + 1)..upto : q \in 1..upto
      BY <2>2
    <3> QED
      BY <2>1, <2>2, <3>1, <3>2
  <2>4. head' = head /\ answers' = {}
    BY <1>4 DEF Handle
  <2>5. AnswersFit' /\ delivered' \subseteq 1..head'
    BY <2>2, <2>3, <2>4 DEF AnswersFit
  <2>6. asking' \in BOOLEAN
    BY <1>4 DEF Handle
  <2>7. LoopTypeOK'
    BY <2>1, <2>2, <2>3, <2>4, <2>6
  <2>8. NoGap'
    BY <2>2, <2>3 DEF NoGap
  <2>9. AsksFromKnown'
    BY <2>1, <2>2, <2>3, <2>4 DEF AsksFromKnown
  <2> QED
    BY <2>5, <2>7, <2>8, <2>9
<1>5. CASE Fail
  BY <1>5 DEF Fail, AnswersFit, NoGap, AsksFromKnown
<1>6. CASE UNCHANGED loopVars
  BY <1>6 DEF loopVars, AnswersFit, NoGap, AsksFromKnown
<1> QED
  BY <1>1, <1>2, <1>3, <1>4, <1>5, <1>6 DEF LoopNext

LEMMA AlwaysLoopInv == LoopSpec => []LoopInv
  BY InitLoopInv, NextLoopInv, PTL DEF LoopSpec

\* What was handled is all that happened up to some position: a loop that only
\* ever asks for what follows something that was handled leaves no gap.
THEOREM NothingPassedOver == LoopSpec => []NoGap
<1>1. LoopInv => NoGap
  BY DEF LoopInv
<1> QED
  BY <1>1, AlwaysLoopInv, PTL

\* No request asks for what follows something that was not handled.
THEOREM RequestsFollow == LoopSpec => []AsksFromKnown
<1>1. LoopInv => AsksFromKnown
  BY DEF LoopInv
<1> QED
  BY <1>1, AlwaysLoopInv, PTL
=============================================================================
