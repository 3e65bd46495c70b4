---- MODULE ListHead ----
(***************************************************************************)
(* The circular doubly linked lists of include/linux/list.h.  All lists of *)
(* one kind of link are one function ring: ring[n] is the next pointer of  *)
(* n, an entry or a head.  ring is a permutation, so prev is its inverse,  *)
(* and an entry that is on no list points to itself.                       *)
(***************************************************************************)
EXTENDS Integers, Sequences

list_empty(ring, n) == ring[n] = n

Prev(ring, n) == CHOOSE m \in DOMAIN ring : ring[m] = n

list_add(ring, n, at) == [ring EXCEPT ![at] = n, ![n] = ring[at]]

list_add_tail(ring, n, at) == [ring EXCEPT ![Prev(ring, at)] = n, ![n] = at]

list_del_init(ring, n) == [ring EXCEPT ![Prev(ring, n)] = ring[n], ![n] = n]

\* The entries from at up to the head, at included: list_for_each_entry_from().
RECURSIVE EntriesFrom(_, _, _)
EntriesFrom(ring, at, head) ==
    IF at = head THEN <<>> ELSE <<at>> \o EntriesFrom(ring, ring[at], head)

\* list_for_each_entry()
Entries(ring, head) == EntriesFrom(ring, ring[head], head)
====
