--------------------------- MODULE MCKeyUpload ---------------------------
(***************************************************************************)
(* KeyUpload on a small instance.                                          *)
(***************************************************************************)
EXTENDS KeyUpload
=============================================================================
