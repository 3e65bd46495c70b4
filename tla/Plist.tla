---- MODULE Plist ----
(***************************************************************************)
(* lib/plist.c, the descending-priority list of the real-time class: all   *)
(* nodes are on node_list in order of priority, and the first node of each *)
(* priority is also on prio_list, a ring without a head that lets          *)
(* plist_add() skip over equal priorities.                                 *)
(***************************************************************************)
EXTENDS ListHead

CONSTANTS Node, KeyOf,   \* the nodes and their prio
          PlistHead      \* the plist_head

VARIABLES node_list, prio_list

plist_head_empty == list_empty(node_list, PlistHead)
plist_first == node_list[PlistHead]
plist_last == Prev(node_list, PlistHead)

OnPlist(n) == ~list_empty(node_list, n)

PlistInit ==
    /\ node_list = [n \in Node \cup {PlistHead} |-> n]
    /\ prio_list = [n \in Node |-> n]

\* Mutant: equal priorities are not passed.
PrecedesOrEquals(n, iter) == KeyOf[n] <= KeyOf[iter]

Precedes(n, iter) == KeyOf[n] < KeyOf[iter]

\* The do-while loop of plist_add(): along prio_list from the first node to the
\* first one of lower priority, or around to the first node again.  prev is the
\* last node passed, n itself when none was.
RECURSIVE Passing(_, _, _)
Passing(n, iter, prev) ==
    IF Precedes(n, iter) THEN [iter |-> iter, prev |-> prev, found |-> TRUE]
    ELSE IF prio_list[iter] = plist_first
    THEN [iter |-> plist_first, prev |-> iter, found |-> FALSE]
    ELSE Passing(n, prio_list[iter], iter)

Joins(n, prev) == prev = n \/ KeyOf[prev] # KeyOf[n]

plist_add(n) ==
    /\ ~OnPlist(n) /\ list_empty(prio_list, n)
    /\ IF plist_head_empty
       THEN node_list' = list_add_tail(node_list, n, PlistHead) /\ UNCHANGED prio_list
       ELSE LET w == Passing(n, plist_first, n)
            IN  /\ prio_list' = IF Joins(n, w.prev)
                                THEN list_add_tail(prio_list, n, w.iter) ELSE prio_list
                /\ node_list' = list_add_tail(node_list, n,
                                              IF w.found THEN w.iter ELSE PlistHead)

\* prio_list after plist_del(n): when n is on it, the next node takes its place,
\* unless that is the head or already there.
PrioRingWithout(n) ==
    LET next == node_list[n]
    IN  IF list_empty(prio_list, n) THEN prio_list
        ELSE IF next # PlistHead /\ list_empty(prio_list, next)
        THEN list_del_init(list_add(prio_list, next, n), n)
        ELSE list_del_init(prio_list, n)

plist_del(n) ==
    /\ OnPlist(n)
    /\ prio_list' = PrioRingWithout(n)
    /\ node_list' = list_del_init(node_list, n)

\* plist_for_each_continue(): the first node behind n's successor with another
\* priority, or the head.
RequeuePlace(n) ==
    LET rest == EntriesFrom(node_list, node_list[node_list[n]], PlistHead)
        others == SelectSeq(rest, LAMBDA m : KeyOf[m] # KeyOf[n])
    IN  IF others = <<>> THEN PlistHead ELSE others[1]

\* The two early returns leave n where it is.
plist_requeue(n) ==
    /\ OnPlist(n)
    /\ IF n = plist_last \/ KeyOf[n] # KeyOf[node_list[n]]
       THEN UNCHANGED <<node_list, prio_list>>
       ELSE /\ prio_list' = PrioRingWithout(n)
            /\ node_list' = list_add_tail(list_del_init(node_list, n), n, RequeuePlace(n))
====
