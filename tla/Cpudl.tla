-------------------------------- MODULE Cpudl --------------------------------
(***************************************************************************)
(* CPU deadline management of kernel/sched/cpudeadline.c: a max-heap of    *)
(* the earliest deadlines of the CPUs that run -deadline tasks, and the    *)
(* mask of CPUs without any.  The array "elements" is used twice: slot i   *)
(* holds the i-th heap entry (cpu, dl) and elements[cpu].idx holds the     *)
(* slot of a CPU.  Deadlines are unsigned and wrap at Wrap.                *)
(***************************************************************************)
EXTENDS Integers, FiniteSets

CONSTANTS
    N,           \* nr_cpu_ids
    Wrap,        \* one past the largest deadline value (2^64 in the code)
    Deadlines    \* deadlines the tasks use

CPU == 0..(N - 1)

\* dl_time_before: (s64)(a - b) < 0
Before(a, b) == (a - b) % Wrap >= Wrap \div 2

\* The deadlines in use lie within half of the number space, as the kernel's
\* do: there dl_time_before is a strict order.
ASSUME CpudlAssumption ==
    /\ N \in Nat \ {0} /\ Wrap \in Nat \ {0, 1}
    /\ Deadlines \subseteq 0..(Wrap - 1)
    /\ \A a, b, c \in Deadlines : Before(a, b) /\ Before(b, c) => Before(a, c)
    /\ \A a, b \in Deadlines : a # b => (Before(a, b) <=> ~Before(b, a))

IdxInvalid == -1

\* cpudl_init: kcalloc zeroes the slots.
Zero == [cpu |-> 0, dl |-> 0]

Fresh ==
    [slot |-> [i \in CPU |-> Zero],
     idx |-> [c \in CPU |-> IdxInvalid], size |-> 0, free |-> {}]

Parent(i) == (i - 1) \div 2
Left(i) == 2 * i + 1
Right(i) == 2 * i + 2

\* elements[i] = e and the back pointer of e.cpu
Place(H, i, e) == [H EXCEPT !.slot[i] = e, !.idx[e.cpu] = i]

\* A turn of the loop of cpudl_heapify_down at slot s.at: the largest child
\* after entry e, the one pushed down, is pulled onto the slot.
Largest(H, i, e) ==
    LET l == Left(i)
        r == Right(i)
        first == IF l < H.size /\ Before(e.dl, H.slot[l].dl) THEN l ELSE i
        largestDl == IF first = l THEN H.slot[l].dl ELSE e.dl
    IN  IF r < H.size /\ Before(largestDl, H.slot[r].dl) THEN r ELSE first

DownTurn(s, e) ==
    LET largest == Largest(s.heap, s.at, e)
    IN  IF largest = s.at THEN s
        ELSE [heap |-> Place(s.heap, s.at, s.heap.slot[largest]),
              at |-> largest]

\* The loop ends within N turns; a turn after the last one changes nothing.
PushDown(H, i, e) ==
    LET turn[n \in 0..N] == IF n = 0 THEN [heap |-> H, at |-> i]
                            ELSE DownTurn(turn[n - 1], e)
        last == turn[N]
    IN  Place(last.heap, last.at, e)

HeapifyDown(H, i) ==
    IF Left(i) >= H.size THEN H ELSE PushDown(H, i, H.slot[i])

\* Mutant: an entry is pushed up at most one level.
PushUpOnce(H, i, e) ==
    IF i = 0 \/ Before(e.dl, H.slot[Parent(i)].dl) THEN Place(H, i, e)
    ELSE Place(Place(H, i, H.slot[Parent(i)]), Parent(i), e)

\* The loop of cpudl_heapify_up, which pulls the parent onto the slot.
UpTurn(s, e) ==
    LET p == Parent(s.at)
    IN  IF s.at = 0 \/ Before(e.dl, s.heap.slot[p].dl) THEN s
        ELSE [heap |-> Place(s.heap, s.at, s.heap.slot[p]), at |-> p]

PushUp(H, i, e) ==
    LET turn[n \in 0..N] == IF n = 0 THEN [heap |-> H, at |-> i]
                            ELSE UpTurn(turn[n - 1], e)
        last == turn[N]
    IN  Place(last.heap, last.at, e)

HeapifyUp(H, i) == IF i = 0 THEN H ELSE PushUp(H, i, H.slot[i])

Heapify(H, i) ==
    IF i > 0 /\ Before(H.slot[Parent(i)].dl, H.slot[i].dl)
    THEN HeapifyUp(H, i) ELSE HeapifyDown(H, i)

\* Mutant: the CPU stays marked free when it enters the heap.
SetKeepsFree(H, cpu, dl) ==
    IF H.idx[cpu] = IdxInvalid
    THEN HeapifyUp(Place([H EXCEPT !.size = @ + 1], H.size,
                         [cpu |-> cpu, dl |-> dl]), H.size)
    ELSE Heapify([H EXCEPT !.slot[H.idx[cpu]].dl = dl], H.idx[cpu])

\* cpudl_set
Set(H, cpu, dl) ==
    IF H.idx[cpu] = IdxInvalid
    THEN LET G == Place([H EXCEPT !.size = @ + 1], H.size,
                        [cpu |-> cpu, dl |-> dl])
         IN  [HeapifyUp(G, H.size) EXCEPT !.free = @ \ {cpu}]
    ELSE Heapify([H EXCEPT !.slot[H.idx[cpu]].dl = dl], H.idx[cpu])

\* A slot past the heap, other than slot 0, is written by cpudl_set before it
\* is read again: what cpudl_clear leaves there is forgotten.
Forget(H) ==
    [H EXCEPT !.slot = [i \in CPU |-> IF i > 0 /\ i >= H.size THEN Zero
                                      ELSE H.slot[i]]]

\* cpudl_clear: the last entry takes the slot of the one removed.  Clearing
\* the last slot itself heapifies an index that is no longer in the heap.
Clear(H, cpu) ==
    LET old == H.idx[cpu]
        G == [Place(H, old, H.slot[H.size - 1]) EXCEPT
                !.size = @ - 1, !.idx[cpu] = IdxInvalid]
    IN  IF old = IdxInvalid THEN H
        ELSE Forget([Heapify(G, old) EXCEPT !.free = @ \cup {cpu}])

SetFreeCpu(H, cpu) == [H EXCEPT !.free = @ \cup {cpu}]
ClearFreeCpu(H, cpu) == [H EXCEPT !.free = @ \ {cpu}]

\* Mutant: the deadlines are compared the wrong way round.
FindEarlier(H, dl, cpus) ==
    LET best == H.slot[0]
    IN  IF H.free \cap cpus # {} THEN H.free \cap cpus
        ELSE {best.cpu} \cap {c \in cpus : Before(best.dl, dl)}

\* cpudl_find for a task with deadline dl allowed on cpus: later_mask, {} when
\* it returns 0.  Slot 0 is read whether or not the heap is empty.
Find(H, dl, cpus) ==
    LET best == H.slot[0]
    IN  IF H.free \cap cpus # {} THEN H.free \cap cpus
        ELSE {best.cpu} \cap {c \in cpus : Before(dl, best.dl)}

NoDeadline == -1

\* What a CPU is recorded with: its deadline, or NoDeadline.
Entry(H, cpu) ==
    IF H.idx[cpu] = IdxInvalid THEN NoDeadline ELSE H.slot[H.idx[cpu]].dl

\* struct cpudl_item without idx, and struct cpudl
Item == [cpu : CPU, dl : Deadlines \cup {0}]

HeapType ==
    [slot : [CPU -> Item],
     idx : [CPU -> CPU \cup {IdxInvalid}], size : 0..N, free : SUBSET CPU]

\* Every live slot and the back pointer of its CPU agree, the CPUs of the live
\* slots are exactly those with a back pointer, and no entry is before its
\* parent: what cpudl_maximum and every later update rely on.
WellFormed(H) ==
    /\ \A i \in 0..(H.size - 1) : H.idx[H.slot[i].cpu] = i
    /\ \A c \in CPU : H.idx[c] # IdxInvalid
                        => H.idx[c] < H.size /\ H.slot[H.idx[c]].cpu = c
    /\ \A i \in 1..(H.size - 1) : ~Before(H.slot[Parent(i)].dl, H.slot[i].dl)
=============================================================================
