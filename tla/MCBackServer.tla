---------------------------- MODULE MCBackServer ----------------------------
(* The link with small numbers, given by the configurations. *)
EXTENDS BackServer
=============================================================================
