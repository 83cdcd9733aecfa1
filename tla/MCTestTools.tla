---------------------------- MODULE MCTestTools ----------------------------
(***************************************************************************)
(* TestTools for TLC: two runs of the client program and one server.       *)
(***************************************************************************)
EXTENDS TestTools

CONSTANTS c1, c2

MCUsers == {c1, c2}
MCAddress == MCUsers \cup {TheServer}
MCBlob == 1 .. MaxAsked
=============================================================================
