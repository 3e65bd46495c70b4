---- MODULE ListSort ----
(***************************************************************************)
(* lib/list_sort.c: the merge sort of a circular doubly linked list.  The  *)
(* nodes are numbered in the order of the input, so a smaller number is an *)
(* older element.  While the sort runs, next links are null-terminated     *)
(* sublists and the prev link of a sublist's first node leads to the next  *)
(* older pending sublist, exactly as in the code.                          *)
(***************************************************************************)
EXTENDS Integers, Sequences, SequencesExt

CONSTANTS
    HEAD,      \* the list head
    NULL

VARIABLES
    key,       \* what the comparison function looks at, fixed by the input
    next, prev,                \* the links of the head and of the nodes
    list, pending, count,      \* the locals of list_sort()
    at                         \* where list_sort() is

lsvars == <<key, next, prev, list, pending, count, at>>

Nodes == DOMAIN key

\* The nodes reached from n until NULL.
RECURSIVE Chain(_, _)
Chain(link, n) == IF n = NULL THEN <<>> ELSE <<n>> \o Chain(link, link[n])

\* link with the nodes of s chained, the last one to end.
Chained(link, s, end) ==
    [x \in DOMAIN link |->
        IF \E i \in 1..Len(s) : s[i] = x
        THEN Append(s, end)[1 + CHOOSE i \in 1..Len(s) : s[i] = x]
        ELSE link[x]]

\* Mutant: equal elements take b.
TakesFirstIfLess(x, y) == key[x] < key[y]

\* cmp(priv, a, b) <= 0 takes a.
TakesFirst(x, y) == key[x] <= key[y]

\* The order in which merge() and merge_final() link two sublists.
RECURSIVE Merged(_, _)
Merged(s, t) ==
    IF s = <<>> THEN t
    ELSE IF t = <<>> THEN s
    ELSE IF TakesFirst(Head(s), Head(t)) THEN <<Head(s)>> \o Merged(Tail(s), t)
    ELSE <<Head(t)>> \o Merged(s, Tail(t))

\* merge(a, b): the result is Head(MergeOf(a, b)), linked by next.
MergeOf(a, b) == Merged(Chain(next, a), Chain(next, b))

\* The number of sublists the loop over the set low bits of count skips.
RECURSIVE TrailingOnes(_)
TrailingOnes(n) == IF n % 2 = 0 THEN 0 ELSE 1 + TrailingOnes(n \div 2)

\* bits once the loop has shifted the set low bits out.
MergesAt(n) == n \div 2 ^ TrailingOnes(n) # 0

\* Zero or one elements: nothing to do.
Entry ==
    /\ at = "entry"
    /\ IF next[HEAD] = prev[HEAD]
       THEN /\ at' = "done"
            /\ UNCHANGED <<next, list>>
       ELSE /\ at' = "rounds"
            /\ list' = next[HEAD]
            /\ next' = [next EXCEPT ![prev[HEAD]] = NULL]
    /\ UNCHANGED <<key, prev, pending, count>>

\* Mutant: the merged sublist does not lead on to the older ones.
InstalledOnly(m, b, skipped) ==
    LET slot == IF skipped = 0 THEN m ELSE Chain(prev, pending)[skipped]
    IN  IF skipped = 0 THEN prev ELSE [prev EXCEPT ![slot] = m]

\* prev once the merged sublist m has replaced a and b = a->prev behind the
\* first `skipped` sublists.
Installed(m, b, skipped) ==
    LET slot == IF skipped = 0 THEN m ELSE Chain(prev, pending)[skipped]
    IN  [[prev EXCEPT ![slot] = m] EXCEPT ![m] = prev[b]]

\* One turn of the loop: the merge count selects, then one more element.
Round ==
    /\ at = "rounds" /\ list # NULL
    /\ \/ /\ ~MergesAt(count)
          /\ prev' = [prev EXCEPT ![list] = pending]
          /\ next' = [next EXCEPT ![list] = NULL]
       \/ /\ MergesAt(count)
          /\ \E a \in {Chain(prev, pending)[TrailingOnes(count) + 1]} :
             \E s \in {MergeOf(prev[a], a)} :
                LET front == IF TrailingOnes(count) = 0 THEN s[1] ELSE pending
                IN  /\ prev' = [Installed(s[1], prev[a], TrailingOnes(count))
                                    EXCEPT ![list] = front]
                    /\ next' = [Chained(next, s, NULL) EXCEPT ![list] = NULL]
    /\ pending' = list
    /\ list' = next[list]
    /\ count' = count + 1
    /\ UNCHANGED <<key, at>>

\* End of input.
EndOfInput ==
    /\ at = "rounds" /\ list = NULL
    /\ list' = pending
    /\ pending' = prev[pending]
    /\ at' = "final"
    /\ UNCHANGED <<key, next, prev, count>>

MergePending ==
    /\ at = "final" /\ prev[pending] # NULL
    /\ \E s \in {MergeOf(pending, list)} :
           /\ list' = Head(s)
           /\ next' = Chained(next, s, NULL)
    /\ pending' = prev[pending]
    /\ UNCHANGED <<key, prev, count, at>>

\* The prev links merge_final() rebuilds from the merged order s.
PrevRebuilt(s) == Chained([prev EXCEPT ![HEAD] = Last(s)], Reverse(s), HEAD)

MergeFinal ==
    /\ at = "final" /\ prev[pending] = NULL
    /\ \E s \in {MergeOf(pending, list)} :
           /\ next' = Chained([next EXCEPT ![HEAD] = Head(s)], s, HEAD)
           /\ prev' = PrevRebuilt(s)
    /\ at' = "done"
    /\ UNCHANGED <<key, list, pending, count>>

\* list_sort() is entered with a circular list.
ListSortInit ==
    /\ list = NULL /\ pending = NULL /\ count = 0 /\ at = "entry"
    /\ LET s == <<HEAD>> \o [i \in 1..Len(key) |-> i]
       IN  /\ next = Chained([n \in Nodes \cup {HEAD} |-> NULL], s, HEAD)
           /\ prev = Chained([n \in Nodes \cup {HEAD} |-> NULL], Reverse(s), Last(s))

ListSortStep == Entry \/ Round \/ EndOfInput \/ MergePending \/ MergeFinal
====
