----------------------------- MODULE Broadcast -----------------------------
(***************************************************************************)
(* What the relay promises about packets: every receiver is handed all of  *)
(* them, each once and in the order they were accepted, at its own pace.   *)
(* Dispatcher implements it.                                               *)
(***************************************************************************)
EXTENDS Integers, Sequences

CONSTANTS Value, Receivers

VARIABLES
  accepted,   \* every packet taken in, oldest first
  handed      \* what each receiver was handed, oldest first

Init == accepted = <<>> /\ handed = [r \in Receivers |-> <<>>]

Accept(v) ==
  /\ accepted' = Append(accepted, v)
  /\ UNCHANGED handed

Hand(r) ==
  /\ Len(handed[r]) < Len(accepted)
  /\ handed' = [handed EXCEPT ![r] = Append(@, accepted[Len(@) + 1])]
  /\ UNCHANGED accepted

Next == (\E v \in Value : Accept(v)) \/ \E r \in Receivers : Hand(r)

Spec == Init /\ [][Next]_<<accepted, handed>>
=============================================================================
