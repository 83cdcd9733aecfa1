------------------------------ MODULE MCConfig ------------------------------
(***************************************************************************)
(* Config for TLC.  Two numbers for a port: none, and one that is cut to   *)
(* 16 bits and still has two digits.                                       *)
(***************************************************************************)
EXTENDS Config

MCTyped == {0, 65536 + 20}
=============================================================================
