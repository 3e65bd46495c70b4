---- MODULE SortedList ----
(***************************************************************************)
(* What the ordered containers of lib/ promise their users: a list in      *)
(* ascending order of keys, first come first served among equal keys.      *)
(***************************************************************************)
EXTENDS Integers, Sequences, SequencesExt

CONSTANTS Node, KeyOf

VARIABLE list

\* s with n behind the last element whose key is not above n's.
Placed(s, n) == InsertAt(s, Len(SelectSeq(s, LAMBDA m : KeyOf[m] <= KeyOf[n])) + 1, n)

Add(n) == n \notin Range(list) /\ list' = Placed(list, n)

Del(n) == n \in Range(list) /\ list' = Remove(list, n)

\* n moves behind the other elements of its key.
Requeue(n) == n \in Range(list) /\ list' = Placed(Remove(list, n), n)

Init == list = <<>>

Next == \E n \in Node : Add(n) \/ Del(n) \/ Requeue(n)

Spec == Init /\ [][Next]_list
====
