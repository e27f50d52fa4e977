------------------------------ MODULE MCChats ------------------------------
(***************************************************************************)
(* Chats on a small instance.                                              *)
(***************************************************************************)
EXTENDS Chats
=============================================================================
