---------------------------- MODULE MCUserServer ----------------------------
(* Small instances of the user server for TLC.                             *)
EXTENDS UserServer, TLC

UserSymmetry == Permutations(Users)
=============================================================================
