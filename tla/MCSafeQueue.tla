---------------------------- MODULE MCSafeQueue ----------------------------
(***************************************************************************)
(* SafeQueue for TLC: a few threads and items, given in MCSafeQueue.cfg.   *)
(***************************************************************************)
EXTENDS SafeQueue
=============================================================================
