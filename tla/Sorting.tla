---- MODULE Sorting ----
(***************************************************************************)
(* The two sorts of the kernel library on the same input: list_sort() on   *)
(* its elements in a list, then sort() on its elements in an array.        *)
(***************************************************************************)
EXTENDS ListSort, HeapSort

CONSTANTS
    Inputs,    \* the sequences of keys to sort
    Sizes      \* the element sizes sort() is called with

ASSUME SortAssumption ==
    /\ Inputs \subseteq Seq(Int)
    /\ Sizes \subseteq Nat \ {0}
    /\ HEAD # NULL

vars == <<lsvars, hsvars>>

Init ==
    /\ key \in Inputs
    /\ ListSortInit
    /\ \E bytes \in Sizes : HeapSortInit(key, bytes)

Next ==
    \/ ListSortStep /\ UNCHANGED hsvars
    \/ at = "done" /\ HeapSortStep /\ UNCHANGED lsvars

Spec == Init /\ [][Next]_vars /\ WF_vars(Next)

-----------------------------------------------------------------------------
N == Len(key)

\* The order of a stable sort: by key, equal elements as they came.
Before(x, y) == key[x] < key[y] \/ (key[x] = key[y] /\ x < y)

\* The list from the head, as list_for_each() visits it.
Visited == Chain([next EXCEPT ![prev[HEAD]] = NULL], next[HEAD])

\* The pending sublists, the newest first.
Sublists == LET heads == Chain(prev, pending)
            IN  [i \in DOMAIN heads |-> Chain(next, heads[i])]

Log2Sizes == {k \in 0..N : 2 ^ k <= N}

Bit(k) == (count \div 2 ^ k) % 2

\* Type correctness of list_sort().
TypeOK ==
    /\ key \in Inputs
    /\ next \in [Nodes \cup {HEAD} -> Nodes \cup {HEAD, NULL}]
    /\ prev \in [Nodes \cup {HEAD} -> Nodes \cup {HEAD, NULL}]
    /\ list \in Nodes \cup {NULL} /\ pending \in Nodes \cup {NULL}
    /\ count \in 0..N
    /\ at \in {"entry", "rounds", "final", "done"}

\* The data structure invariants list_sort() states: the pending sublists are
\* sorted, power-of-two in size, ordered by size and age with the smallest and
\* newest in front, and there are at most two of each size.  With the elements
\* not read yet they are the whole input, so merge() always gets the elements
\* that came first in the input as its first argument.
PendingSublists ==
    at = "rounds" =>
        LET S == Sublists
            Size(i) == Len(S[i])
        IN  /\ \A i \in DOMAIN S : \E k \in Log2Sizes : Size(i) = 2 ^ k
            /\ \A i \in DOMAIN S : \A j \in DOMAIN S : i < j => Size(i) <= Size(j)
            /\ \A i \in 1..(Len(S) - 2) : Size(i) < Size(i + 2)
            /\ \A i \in DOMAIN S : \A j \in 1..(Size(i) - 1) :
                  Before(S[i][j], S[i][j + 1])
            /\ \A i \in 1..(Len(S) - 1) : Max(ToSet(S[i + 1])) < Min(ToSet(S[i]))
            /\ UNION {ToSet(S[i]) : i \in DOMAIN S} = 1..count
            /\ Chain(next, list) = [i \in 1..(N - count) |-> count + i]

\* The table of six states: bit k of count, bit k - 1 (always set for k = 0) and
\* whether a higher bit is set decide how many sublists of size 2^k are pending.
CountDecidesPending ==
    at = "rounds" =>
        LET S == Sublists
        IN  \A k \in Log2Sizes :
                LET below == IF k = 0 THEN 1 ELSE Bit(k - 1)
                    higher == count >= 2 ^ (k + 1)
                IN  Cardinality({i \in DOMAIN S : Len(S[i]) = 2 ^ k}) =
                        IF Bit(k) = 1 THEN below
                        ELSE IF higher THEN 1 + below ELSE 0

\* Each final merge is at worst 2:1: with a pending list of size 2^k are merged
\* from 2^(k-1) to 2^(k+1) - 1 elements.
FinalMergesBalanced ==
    at = "final" =>
        LET large == Len(Chain(next, pending))
            small == Len(Chain(next, list))
        IN  2 * small >= large /\ small <= 2 * large - 1

\* "the data structure invariants" and the table of the comment on list_sort():
\* the count of elements alone tells which sublists are pending, they are
\* sorted and in order, and every merge is at worst 2:1.
MergesAreScheduled ==
    TypeOK /\ PendingSublists /\ CountDecidesPending /\ FinalMergesBalanced

\* list_sort() is a stable sort, and merge_final() restores the circular doubly
\* linked list.
ListIsStableSort ==
    at = "done" /\ N > 0 =>
        LET s == Visited
        IN  /\ Len(s) = N
            /\ next[s[N]] = HEAD /\ prev[s[1]] = HEAD
            /\ \A i \in 1..(N - 1) :
                  prev[s[i + 1]] = s[i] /\ Before(s[i], s[i + 1])

\* list_sort() is a stable sort (ListIsStableSort), and sort() leaves the keys of
\* the input in the same order, up to the order of equal elements.
SortsAgree ==
  /\ ListIsStableSort
  /\ phase = "sorted" /\ at = "done" /\ N > 0 =>
        LET s == Visited
        IN  \A i \in 1..N : base[i - 1] = key[s[i]]

\* Both sorts return.
SortsReturn == <>(at = "done" /\ phase = "sorted")
====
