---------------------------- MODULE MCLifecycle ----------------------------
(***************************************************************************)
(* Lifecycle for TLC; the configurations set the number of clients and     *)
(* what may happen around the program.                                     *)
(***************************************************************************)
EXTENDS Lifecycle
=============================================================================
