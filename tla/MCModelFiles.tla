---------------------------- MODULE MCModelFiles ----------------------------
(* ModelFiles on a small instance. *)
EXTENDS ModelFiles
=============================================================================
