---------------------------- MODULE MCRoomState ----------------------------
(***************************************************************************)
(* RoomState on a small instance.                                          *)
(***************************************************************************)
EXTENDS RoomState, TLC

CONSTANTS me, u1, u2, u3, n1, n2

Symmetry == Permutations({n1, n2} \cap Displaynames) \cup Permutations({u1, u2, u3} \cap Users)
=============================================================================
