------------------------------ MODULE Channels ------------------------------
(***************************************************************************)
(* What the relay promises about replies: each sender's come out once and  *)
(* in the order they went in; nothing is said of the order between two     *)
(* senders.  Dispatcher implements it.                                     *)
(***************************************************************************)
EXTENDS Integers, Sequences

CONSTANTS Value, Senders

VARIABLES
  given,      \* what each sender handed in, oldest first
  returned    \* what of it came out, oldest first

Init ==
  /\ given = [s \in Senders |-> <<>>]
  /\ returned = [s \in Senders |-> <<>>]

Give(s, v) ==
  /\ given' = [given EXCEPT ![s] = Append(@, v)]
  /\ UNCHANGED returned

Return(s) ==
  /\ Len(returned[s]) < Len(given[s])
  /\ returned' = [returned EXCEPT ![s] = Append(@, given[s][Len(@) + 1])]
  /\ UNCHANGED given

Next == \E s \in Senders : Return(s) \/ \E v \in Value : Give(s, v)

Spec == Init /\ [][Next]_<<given, returned>>
=============================================================================
