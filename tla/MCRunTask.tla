------------------------------ MODULE MCRunTask ------------------------------
(* Instances of RunTask for TLC. *)
EXTENDS RunTask, TLC
=============================================================================
