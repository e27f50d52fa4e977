---------------------------- MODULE MCEncryption ----------------------------
(***************************************************************************)
(* Encryption on a small instance.                                         *)
(***************************************************************************)
EXTENDS Encryption, TLC

CONSTANTS d1, d2, r1, r2, n1, n2

Symmetry ==
  Permutations({d1, d2} \cap Devices) \cup Permutations({r1, r2} \cap Rooms)
    \cup Permutations({n1, n2} \cap Numbers)
=============================================================================
