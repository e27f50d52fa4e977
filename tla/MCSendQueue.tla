---------------------------- MODULE MCSendQueue ----------------------------
(***************************************************************************)
(* SendQueue on a small instance.                                          *)
(***************************************************************************)
EXTENDS SendQueue, TLC

CONSTANTS t1, t2, i1, h1, h2, h3

Symmetry == Permutations({h1, h2, h3} \cap Handles) \cup Permutations({t1, t2})
=============================================================================
