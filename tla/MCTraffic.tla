----------------------------- MODULE MCTraffic -----------------------------
(***************************************************************************)
(* Traffic for TLC: a packet with nothing to print, one that is longer     *)
(* than its text may be and has line ends in it, and a text of two lines   *)
(* as error() makes.                                                       *)
(***************************************************************************)
EXTENDS Traffic

MCBlobs == {<<>>, <<CR, LF, 97, NUL, 98, 99, 97, 98, 97, 98>>}
MCMessages == {<<98, LF, 97>>}
=============================================================================
