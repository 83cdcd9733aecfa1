----------------------------- MODULE FifoQueue -----------------------------
(***************************************************************************)
(* What a queue between threads promises, with no lock and no memory: the  *)
(* items handed in, the items handed out, and the rule that the next one   *)
(* out is the oldest one not yet out.  SafeQueue implements it.            *)
(***************************************************************************)
EXTENDS Integers, Sequences

CONSTANT Value

VARIABLES
  pushed,   \* every item handed to the queue, oldest first
  popped    \* every item the queue handed out, oldest first

Init == pushed = <<>> /\ popped = <<>>

Put(v) ==
  /\ pushed' = Append(pushed, v)
  /\ UNCHANGED popped

Get ==
  /\ Len(popped) < Len(pushed)
  /\ popped' = Append(popped, pushed[Len(popped) + 1])
  /\ UNCHANGED pushed

Next == Get \/ \E v \in Value : Put(v)

Spec == Init /\ [][Next]_<<pushed, popped>>
=============================================================================
