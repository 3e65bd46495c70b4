---- MODULE HeapSort ----
(***************************************************************************)
(* lib/sort.c: the bottom-up heapsort of sort_r().  As in the code, every  *)
(* position is a byte offset, a multiple of the element size.              *)
(***************************************************************************)
EXTENDS Integers, Sequences, FiniteSets

VARIABLES
    input,           \* the elements as sort() was called with them
    size,            \* of an element, in bytes
    base,            \* base[i] is the element at byte offset i * size
    a, n, b, c,      \* the locals of sort_r(), d is c + size
    phase            \* the loop of sort_r() that runs

hsvars == <<input, size, base, a, n, b, c, phase>>

num == Len(input)

\* The element at a byte offset.
Elem(offset) == base[offset \div size]

\* Mutant: the second element is lost.
SwappedOneWay(i, j) == [base EXCEPT ![i \div size] = Elem(j)]

\* do_swap()
Swapped(i, j) ==
    [base EXCEPT ![i \div size] = Elem(j), ![j \div size] = Elem(i)]

\* size & -size: the power of two that divides size an odd number of times.  The
\* powers of two are the numbers with no odd divisor but 1.
LsBit == CHOOSE l \in 1..size :
            /\ size % l = 0 /\ (size \div l) % 2 = 1
            /\ \A d \in 2..l : l % d = 0 => d % 2 = 0

\* Mutant: the parent of a child is the child.
parentSelf(i) == i

\* i -= size; i -= size & -(i & lsbit); return i / 2
parent(i) ==
    LET j == i - size
        odd == (j \div LsBit) % 2
    IN  (j - odd * size) \div 2

\* The head of the outer loop.
NextRoot ==
    /\ phase = "loop"
    /\ \/ /\ a # 0                         \* building the heap
          /\ a' = a - size
          /\ b' = a - size
          /\ phase' = "down"
          /\ UNCHANGED <<base, n>>
       \/ /\ a = 0 /\ n # size             \* extracting the root
          /\ n' = n - size
          /\ base' = Swapped(0, n - size)
          /\ b' = 0
          /\ phase' = "down"
          /\ UNCHANGED a
       \/ /\ a = 0 /\ n = size             \* sort complete
          /\ n' = 0
          /\ phase' = "sorted"
          /\ UNCHANGED <<base, a, b>>
    /\ UNCHANGED <<input, size, c>>

\* Mutant: the smaller child rises.
LesserChild(l, r) == IF Elem(l) <= Elem(r) THEN l ELSE r

\* The greater child of b, the left one when they are equal.
GreaterChild(l, r) == IF Elem(l) >= Elem(r) THEN l ELSE r

\* Find the path down to a leaf.
Down ==
    /\ phase = "down"
    /\ LET left == 2 * b + size
           right == left + size
       IN  \/ /\ right < n
              /\ b' = GreaterChild(left, right)
              /\ UNCHANGED phase
           \/ /\ right >= n
              /\ b' = IF right = n THEN left ELSE b
              /\ phase' = "back"
    /\ UNCHANGED <<input, size, base, a, n, c>>

\* The element at a may not stay below position i.
Backtracks(i) == i # a /\ Elem(a) >= Elem(i)

\* Backtrack to where a belongs.
Back ==
    /\ phase = "back"
    /\ \/ /\ Backtracks(b)
          /\ b' = parent(b)
          /\ UNCHANGED <<c, phase>>
       \/ /\ ~Backtracks(b)
          /\ c' = b
          /\ phase' = "shift"
          /\ UNCHANGED b
    /\ UNCHANGED <<input, size, base, a, n>>

\* Shift it into place.
Shift ==
    /\ phase = "shift"
    /\ \/ /\ b # a
          /\ b' = parent(b)
          /\ base' = Swapped(parent(b), c)
          /\ UNCHANGED phase
       \/ /\ b = a
          /\ phase' = "loop"
          /\ UNCHANGED <<base, b>>
    /\ UNCHANGED <<input, size, a, n, c>>

\* sort(base, num, size): fewer than two elements return at once.
HeapSortInit(elements, bytes) ==
    /\ input = elements
    /\ size = bytes
    /\ base = [i \in 0..(num - 1) |-> input[i + 1]]
    /\ n = num * size
    /\ a = (num \div 2) * size
    /\ b = 0 /\ c = 0
    /\ phase = IF num \div 2 = 0 THEN "sorted" ELSE "loop"

HeapSortStep == NextRoot \/ Down \/ Back \/ Shift

\* One call of sort() on any elements of any size.
HeapSortCall ==
    /\ \E elements \in Seq(Int), bytes \in Nat \ {0} : HeapSortInit(elements, bytes)
    /\ [][HeapSortStep]_hsvars

-----------------------------------------------------------------------------
Elements == {input[i] : i \in 1..num}

\* Type correctness: the locals are offsets of elements.
HeapSortTypeOK ==
    /\ input \in Seq(Int)
    /\ size \in Nat \ {0}
    /\ base \in [0..(num - 1) -> Elements]
    /\ \A o \in {a, n, b, c} : o \in Nat /\ o \div size \in 0..num /\ o % size = 0
    /\ phase \in {"loop", "down", "back", "shift", "sorted"}

\* Position i is on a path from position r to a leaf.
Below(i, r) ==
    LET ancestor[j \in Nat] == j = r \/ (j > r /\ ancestor[(j - 1) \div 2])
    IN  ancestor[i]

Up(i) == (i - 1) \div 2
Kids(i) == {2 * i + 1, 2 * i + 2}

\* No element of f from position lo is smaller than one of its children.
HeapFrom(f, lo, end) ==
    \A i \in lo..(end - 1) : \A j \in Kids(i) : j < end => f[i] >= f[j]

\* Every position on the path from A to B holds the greater of two siblings; top
\* is the one that belongs to B.
PathIsGreatest(f, A, B, end, top) ==
    \A r \in (A + 1)..B : Below(r, A) /\ Below(B, r) =>
        \A s \in Kids(Up(r)) : s < end => (IF r = B THEN top ELSE f[r]) >= f[s]

\* Down and back the elements below a form heaps, and the path is the one that
\* follows the greater children.
DownHeap(f, A, B, end) ==
    HeapFrom(f, A + 1, end) /\ PathIsGreatest(f, A, B, end, f[B])

\* On the way back the element at a may go anywhere above the children of b.
BackHeap(f, A, B, end) ==
    DownHeap(f, A, B, end) /\ \A j \in Kids(B) : j < end => f[A] >= f[j]

\* While the elements from c up to b have moved one level up, c holds the one
\* that was at b.
ShiftHeap(f, A, B, C, end) ==
    /\ Below(C, B)
    /\ \A i \in (A + 1)..(end - 1) : \A j \in Kids(i) :
          j < end /\ (j # C \/ B = C) => f[i] >= f[j]
    /\ \A j \in Kids(C) : j < end => (IF B # A THEN f[A] ELSE f[C]) >= f[j]
    /\ PathIsGreatest(f, A, B, end, f[C])
    /\ B # A /\ Up(B) # A => f[Up(B)] >= f[C]
    /\ B # A => (IF B = C THEN f[C] ELSE f[Up(C)]) >= f[A]
    /\ B = A => HeapFrom(f, A, end)

\* The third loop invariant, a <= b <= c <= d <= n: the offsets stay inside the
\* heap, and b never leaves the paths from a to the leaves.
OffsetsStayInHeap ==
    /\ phase = "loop" => a < n
    /\ phase \in {"down", "back", "shift"} =>
         /\ a <= b /\ b < n
         /\ Below(b \div size, a \div size)
         /\ phase = "shift" => b <= c /\ c < n

\* The heap of each loop, and the elements past it: sorted, and not smaller than
\* any element that still has to be sorted.
HeapSorted ==
    LET A == a \div size
        B == b \div size
        C == c \div size
        end == n \div size
    IN  /\ phase \in {"loop", "sorted"} => HeapFrom(base, A, end)
        /\ phase = "down" => DownHeap(base, A, B, end)
        /\ phase = "back" => BackHeap(base, A, B, end)
        /\ phase = "shift" => ShiftHeap(base, A, B, C, end)
        /\ \A i \in end..(num - 1) : \A j \in 0..(i - 1) : base[j] <= base[i]

\* How often v occurs in the array f of N elements.
Occurrences(f, N, v) == Cardinality({i \in 0..(N - 1) : f[i] = v})

\* do_swap() loses and doubles no element.
SameElements ==
    \A v \in Elements :
        Occurrences(base, num, v) = Cardinality({i \in 1..num : input[i] = v})

\* What sort() promises its caller.
InOrder ==
    phase = "sorted" =>
        \A i \in 0..(num - 1) : \A j \in 0..i : base[j] <= base[i]

\* The loop invariants of sort_r(): the elements [a,n) compare greater than or
\* equal to all of their children and the elements [n,num) are sorted; those are
\* also not smaller than any element that still has to be sorted.  Offsets stay
\* inside the heap, no element is lost, and the result is in order.
HeapInvariant ==
    /\ HeapSortTypeOK /\ OffsetsStayInHeap
    /\ HeapSorted /\ SameElements /\ InOrder
====
