---------------------------- MODULE MCConnection ----------------------------
(***************************************************************************)
(* Connection on a small instance.                                         *)
(***************************************************************************)
EXTENDS Connection, TLC

CONSTANTS r1, r2, k1, k2

Symmetry == Permutations({r1, r2} \cap Rooms) \cup Permutations({k1, k2} \cap Keys)
=============================================================================
