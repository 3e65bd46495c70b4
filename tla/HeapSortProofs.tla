--------------------------- MODULE HeapSortProofs ---------------------------
(***************************************************************************)
(* sort() sorts: for every array and element size the loop invariants of   *)
(* sort_r() hold, and the result is the input in order.                    *)
(***************************************************************************)
EXTENDS HeapSort, LeastNumber, FiniteSetTheorems, TLAPS

\* Zenon proves a step unless the step cites SMT, for arithmetic.
USE ZenonT(30)

-----------------------------------------------------------------------------
(* Offsets and positions.                                                  *)

\* An odd divisor of 2 * l divides l.
LEMMA OddDivisorOfDouble ==
    ASSUME NEW l \in Nat \ {0}, NEW d \in Nat \ {0}, d % 2 = 1, (2 * l) % d = 0
    PROVE  l % d = 0
<1>1. PICK q \in Nat : 2 * l = d * q
    <2>1. 2 * l = d * ((2 * l) \div d) + ((2 * l) % d) /\ (2 * l) \div d \in Nat
        BY SMT
    <2> QED BY <2>1, SMT
<1>2. PICK k \in Nat : d = 2 * k + 1
    <2>1. d = 2 * (d \div 2) + (d % 2) /\ d \div 2 \in Nat
        BY SMT
    <2> QED BY <2>1
<1>3. d * q = 2 * (k * q) + q
    BY <1>2, SMT
<1>4. k * q \in Nat
    BY SMT
<1>5. q = 2 * (l - k * q)
    BY <1>1, <1>3, <1>4, SMT
<1> DEFINE h == l - k * q
<1>6. h \in Nat /\ q = 2 * h
    BY <1>4, <1>5, SMT
<1> HIDE DEF h
<1>7. 2 * l = 2 * (d * h)
    BY <1>1, <1>6, SMT
<1>8. l = d * h
    <2>1. d * h \in Nat
        BY <1>6, SMT
    <2> QED BY <1>7, <2>1, SMT
<1> QED BY <1>6, <1>8, SMT

\* l is the lowest set bit of s.
IsLsBit(l, s) ==
    /\ l \in 1..s
    /\ s % l = 0 /\ (s \div l) % 2 = 1
    /\ \A d \in 2..l : l % d = 0 => d % 2 = 0

\* Every positive number has a lowest set bit.
LEMMA LsBitExists == \A s \in Nat \ {0} : \E l \in 1..s : IsLsBit(l, s)
<1> DEFINE Bad == {s \in Nat \ {0} : ~ \E l \in 1..s : IsLsBit(l, s)}
<1> SUFFICES ASSUME Bad # {} PROVE FALSE
    OBVIOUS
<1>1. PICK s \in Bad : \A y \in Bad : s <= y
    <2>1. Bad \subseteq Nat
        OBVIOUS
    <2> HIDE DEF Bad
    <2> QED BY <2>1, LeastNatural
<1>2. s \in Nat \ {0} /\ \A l \in 1..s : ~IsLsBit(l, s)
    BY <1>1
<1>3. CASE s % 2 = 1
    <2>1. IsLsBit(1, s)
        BY <1>2, <1>3, SMT DEF IsLsBit
    <2> QED BY <1>2, <2>1, SMT
<1>4. CASE s % 2 = 0
    <2> DEFINE h == s \div 2
    <2>1. h \in Nat \ {0} /\ s = 2 * h /\ h < s
        BY <1>2, <1>4, SMT
    <2>2. h \notin Bad
        <3>1. h \in Bad => s <= h
            BY <1>1
        <3> QED BY <2>1, <3>1, <1>2, SMT
    <2> HIDE DEF h
    <2>3. PICK l \in 1..h : IsLsBit(l, h)
        BY <2>1, <2>2
    <2>4. PICK m \in Nat : h = l * m /\ m % 2 = 1
        <3>1. h = l * (h \div l) + (h % l) /\ h \div l \in Nat
            BY <2>1, SMT
        <3> QED BY <2>1, <2>3, <3>1, SMT DEF IsLsBit
    <2>5. s = (2 * l) * m
        BY <2>1, <2>4, SMT
    <2>6. 2 * l \in 1..s
        <3>1. 2 * l <= 2 * h
            BY <2>1, SMT
        <3> QED BY <2>1, <3>1, SMT
    <2>7. s % (2 * l) = 0 /\ s \div (2 * l) = m
        <3> DEFINE t == 2 * l
        <3>1. t \in Nat \ {0} /\ s = t * m
            BY <2>5, SMT
        <3> HIDE DEF t
        <3>2. (t * m) % t = 0 /\ (t * m) \div t = m
            BY <3>1, SMT
        <3> QED BY <3>1, <3>2 DEF t
    <2>8. ASSUME NEW d \in 2..(2 * l), (2 * l) % d = 0, d % 2 # 0
          PROVE  FALSE
        <3>1. l \in Nat \ {0} /\ d \in Nat \ {0} /\ 2 <= d
            BY <2>1, SMT
        <3>2. d % 2 = 1
            BY <2>8, <3>1, SMT
        <3>3. l % d = 0
            BY <2>8, <3>1, <3>2, OddDivisorOfDouble
        <3>4. d <= l
            BY <3>1, <3>3, SMT
        <3>5. d \in 2..l
            BY <3>1, <3>4, SMT
        <3> QED BY <2>3, <2>8, <3>3, <3>5 DEF IsLsBit
    <2>9. IsLsBit(2 * l, s)
        BY <2>4, <2>6, <2>7, <2>8 DEF IsLsBit
    <2> QED BY <1>2, <2>6, <2>9
<1> QED BY <1>2, <1>3, <1>4, SMT

\* LsBit divides the element size an odd number of times.
LEMMA LsBitDivides ==
    ASSUME size \in Nat \ {0}
    PROVE  LsBit \in Nat \ {0} /\ \E m \in Nat : size = LsBit * m /\ m % 2 = 1
<1>1. IsLsBit(LsBit, size)
    <2>1. \E l \in 1..size : IsLsBit(l, size)
        BY LsBitExists
    <2> QED BY <2>1 DEF LsBit, IsLsBit
<1> DEFINE l == LsBit
<1>2. l \in 1..size /\ size % l = 0 /\ (size \div l) % 2 = 1
    BY <1>1 DEF IsLsBit
<1> HIDE DEF l
<1>3. l \in Nat \ {0}
    BY <1>2, SMT
<1>4. size = l * (size \div l) + (size % l) /\ size \div l \in Nat
    BY <1>3, SMT
<1>5. size = l * (size \div l)
    BY <1>2, <1>3, <1>4, SMT
<1>6. \E m \in Nat : size = l * m /\ m % 2 = 1
    BY <1>2, <1>4, <1>5
<1> QED BY <1>3, <1>6 DEF l

\* Multiplying by an odd number keeps the parity.
LEMMA OddFactorKeepsParity ==
    ASSUME NEW x \in Nat, NEW m \in Nat, m % 2 = 1
    PROVE  (x * m) % 2 = x % 2
<1>1. PICK k \in Nat : m = 2 * k + 1
    <2>1. m = 2 * (m \div 2) + (m % 2) /\ m \div 2 \in Nat
        BY SMT
    <2> QED BY <2>1
<1>2. x * m = 2 * (x * k) + x /\ x * k \in Nat
    BY <1>1, SMT
<1> DEFINE y == x * k
<1>3. y \in Nat /\ x * m = 2 * y + x
    BY <1>2
<1> HIDE DEF y
<1> QED BY <1>3, SMT

\* parent() computes the parent of a position on its byte offset, for every
\* element size.
LEMMA ParentOfOffset ==
    ASSUME size \in Nat \ {0}, NEW i \in Nat \ {0}
    PROVE  parent(i * size) = Up(i) * size /\ Up(i) \in Nat /\ Up(i) < i
<1> DEFINE k == i - 1
           l == LsBit
           r == k % 2
<1>1. PICK m \in Nat : size = l * m /\ m % 2 = 1
    BY LsBitDivides
<1>2. l \in Nat \ {0}
    BY LsBitDivides
<1>3. i * size - size = k * size /\ k \in Nat
    BY SMT
<1>4. parent(i * size) = (i * size - size - ((((i * size - size) \div l) % 2) * size)) \div 2
    BY DEF parent
<1>5. parent(i * size) = (k * size - ((((k * size) \div l) % 2) * size)) \div 2
    BY <1>3, <1>4
<1> HIDE DEF l
<1>6. ((k * size) \div l) % 2 = r
    <2> HIDE DEF k
    <2>1. k * size = l * (k * m)
        BY <1>1, <1>2, <1>3, SMT
    <2>2. k * m \in Nat
        BY <1>3, SMT
    <2>3. (l * (k * m)) \div l = k * m
        BY <1>2, <2>2, SMT
    <2>4. (k * m) % 2 = k % 2
        BY <1>1, <1>3, OddFactorKeepsParity
    <2> QED BY <2>1, <2>3, <2>4
<1>7. Up(i) \in Nat /\ k = 2 * Up(i) + r /\ Up(i) < i
    BY SMT DEF Up
<1>8. parent(i * size) = (k * size - (r * size)) \div 2
    BY <1>5, <1>6
<1> DEFINE u == Up(i)
<1> HIDE DEF k, r, u
<1>9. k * size - (r * size) = 2 * (u * size)
    <2>1. k = 2 * u + r /\ u \in Nat /\ r \in Nat
        BY <1>3, <1>7, SMT DEF u, r
    <2>2. (2 * u + r) * size = 2 * (u * size) + r * size
        BY <2>1, SMT
    <2> QED BY <2>1, <2>2, SMT
<1>10. (2 * (u * size)) \div 2 = u * size
    <2>1. u * size \in Nat
        BY <1>7, SMT DEF u
    <2> QED BY <2>1, SMT
<1> QED BY <1>7, <1>8, <1>9, <1>10 DEF u

-----------------------------------------------------------------------------
(* The positions below a position.                                         *)

\* The positions every set holds that is closed under children and holds r.
Desc(r) ==
    {i \in Nat : \A S \in SUBSET Nat :
        r \in S /\ (\A j \in S : 2 * j + 1 \in S /\ 2 * j + 2 \in S) => i \in S}

\* A position is below itself, and its children are below it.
LEMMA DescChildren ==
    ASSUME NEW r \in Nat
    PROVE  /\ r \in Desc(r)
           /\ \A i \in Desc(r) : 2 * i + 1 \in Desc(r) /\ 2 * i + 2 \in Desc(r)
BY SMT DEF Desc

\* What is below r is not smaller.
LEMMA DescNotSmaller ==
    ASSUME NEW r \in Nat, NEW i \in Desc(r)
    PROVE  i \in Nat /\ r <= i
<1> DEFINE S == {j \in Nat : r <= j}
<1>1. S \in SUBSET Nat /\ r \in S /\ \A j \in S : 2 * j + 1 \in S /\ 2 * j + 2 \in S
    BY SMT
<1>2. i \in S
    <2> HIDE DEF S
    <2> QED BY <1>1 DEF Desc
<1> QED BY <1>2

\* Other than r itself, what is below r has its parent below r.
LEMMA DescParent ==
    ASSUME NEW r \in Nat, NEW i \in Desc(r), i # r
    PROVE  Up(i) \in Desc(r)
<1> DEFINE S == {j \in Desc(r) : j = r \/ Up(j) \in Desc(r)}
<1>1. S \in SUBSET Nat /\ r \in S
    BY DescChildren DEF Desc
<1>2. ASSUME NEW j \in S
      PROVE  2 * j + 1 \in S /\ 2 * j + 2 \in S
    <2>1. j \in Nat /\ j \in Desc(r)
        BY <1>1
    <2>2. Up(2 * j + 1) = j /\ Up(2 * j + 2) = j
        BY <2>1, SMT DEF Up
    <2>3. 2 * j + 1 \in Desc(r) /\ 2 * j + 2 \in Desc(r)
        BY <2>1, DescChildren
    <2> QED BY <2>1, <2>2, <2>3
<1>3. i \in S
    <2> HIDE DEF S
    <2> QED BY <1>1, <1>2 DEF Desc
<1> QED BY <1>3

\* Being below is transitive.
LEMMA DescTransitive ==
    ASSUME NEW r \in Nat, NEW i \in Desc(r), NEW j \in Desc(i)
    PROVE  j \in Desc(r)
<1>1. Desc(r) \in SUBSET Nat /\ \A x \in Desc(r) : 2 * x + 1 \in Desc(r) /\ 2 * x + 2 \in Desc(r)
    BY DescChildren DEF Desc
<1> DEFINE D == Desc(r)
<1>2. D \in SUBSET Nat /\ i \in D /\ \A x \in D : 2 * x + 1 \in D /\ 2 * x + 2 \in D
    BY <1>1
<1> HIDE DEF D
<1>3. j \in D
    BY <1>2 DEF Desc
<1> QED BY <1>3 DEF D

\* The equation of the recursive function in Below.
AncestorEquation(f, r) ==
    f = [i \in Nat |-> i = r \/ (i > r /\ f[(i - 1) \div 2])]

Ancestor(r) == CHOOSE f : AncestorEquation(f, r)

\* The recursive function in Below decides membership of Desc.
LEMMA AncestorIsDesc ==
    ASSUME NEW r \in Nat
    PROVE  \A i \in Nat : Ancestor(r)[i] <=> i \in Desc(r)
<1> DEFINE g == [i \in Nat |-> i \in Desc(r)]
           d == Ancestor(r)
<1>1. AncestorEquation(g, r)
    <2>1. ASSUME NEW i \in Nat
          PROVE  (i \in Desc(r)) <=> (i = r \/ (i > r /\ g[(i - 1) \div 2]))
        <3>1. CASE i = r
            BY <3>1, DescChildren
        <3>2. CASE i < r
            BY <3>2, DescNotSmaller, SMT
        <3>3. CASE i > r
            <4>1. Up(i) \in Nat /\ (i = 2 * Up(i) + 1 \/ i = 2 * Up(i) + 2)
                BY <3>3, SMT DEF Up
            <4>2. Up(i) \in Desc(r) => i \in Desc(r)
                BY <4>1, DescChildren
            <4>3. i \in Desc(r) => Up(i) \in Desc(r)
                BY <3>3, DescParent, SMT
            <4>4. g[(i - 1) \div 2] = (Up(i) \in Desc(r))
                BY <4>1 DEF Up
            <4>5. i # r
                BY <3>3, SMT
            <4> DEFINE q == g[(i - 1) \div 2]
            <4>6. q <=> Up(i) \in Desc(r)
                BY <4>4
            <4> HIDE DEF q
            <4>7. (i \in Desc(r)) <=> (i = r \/ (i > r /\ q))
                BY <3>3, <4>2, <4>3, <4>5, <4>6
            <4> QED BY <4>7 DEF q
        <3> QED BY <3>1, <3>2, <3>3, SMT
    <2> QED BY <2>1, SMT DEF AncestorEquation
<1>2. AncestorEquation(d, r)
    <2>1. d = CHOOSE f : AncestorEquation(f, r)
        BY DEF Ancestor
    <2> HIDE DEF g, d
    <2> QED BY <1>1, <2>1
<1> HIDE DEF d
<1> DEFINE Bad == {i \in Nat : ~(d[i] <=> i \in Desc(r))}
<1> SUFFICES ASSUME Bad # {} PROVE FALSE
    BY DEF d
<1>3. PICK i \in Bad : \A y \in Bad : i <= y
    <2>1. Bad \subseteq Nat
        OBVIOUS
    <2> HIDE DEF Bad
    <2> QED BY <2>1, LeastNatural
<1>4. i \in Nat /\ ~(d[i] <=> g[i])
    BY <1>3
<1>5. /\ d[i] = (i = r \/ (i > r /\ d[(i - 1) \div 2]))
      /\ g[i] = (i = r \/ (i > r /\ g[(i - 1) \div 2]))
    <2> HIDE DEF g
    <2> QED BY <1>1, <1>2, <1>4 DEF AncestorEquation
<1>6. i > r /\ (i - 1) \div 2 \in Nat /\ (i - 1) \div 2 < i
    BY <1>4, <1>5, SMT
<1>7. (i - 1) \div 2 \notin Bad
    <2>1. (i - 1) \div 2 \in Bad => i <= (i - 1) \div 2
        BY <1>3
    <2> QED BY <2>1, <1>6, <1>4, SMT
<1>8. d[(i - 1) \div 2] <=> g[(i - 1) \div 2]
    BY <1>6, <1>7
<1> HIDE DEF g, Bad
<1> QED BY <1>4, <1>5, <1>8

\* The paths of the heap: a position is on the path of itself, the children of
\* one on a path are on it too, and so is its parent unless the path starts there.
LEMMA BelowFacts ==
    ASSUME NEW r \in Nat
    PROVE  /\ Below(r, r)
           /\ \A i \in Nat : Below(i, r) => r <= i /\ \A k \in Kids(i) : Below(k, r)
           /\ \A i \in Nat : Below(i, r) /\ i # r => Below(Up(i), r)
           /\ \A i, j \in Nat : Below(i, r) /\ Below(j, i) => Below(j, r)
<1>1. \A x, i \in Nat : Below(i, x) <=> i \in Desc(x)
    <2>1. \A x, i \in Nat : Below(i, x) = Ancestor(x)[i]
        BY DEF Below, Ancestor, AncestorEquation
    <2> QED BY <2>1, AncestorIsDesc
<1>2. Below(r, r)
    BY <1>1, DescChildren
<1>3. ASSUME NEW i \in Nat, Below(i, r)
      PROVE  r <= i /\ \A k \in Kids(i) : Below(k, r)
    BY <1>1, <1>3, DescNotSmaller, DescChildren DEF Kids
<1>4. ASSUME NEW i \in Nat, Below(i, r), i # r
      PROVE  Below(Up(i), r)
    <2>1. i \in Desc(r)
        BY <1>1, <1>4
    <2>2. Up(i) \in Desc(r)
        BY <1>4, <2>1, DescParent
    <2>3. Up(i) \in Nat
        BY <2>2 DEF Desc
    <2> QED BY <1>1, <2>2, <2>3
<1>5. ASSUME NEW i \in Nat, NEW j \in Nat, Below(i, r), Below(j, i)
      PROVE  Below(j, r)
    BY <1>1, <1>5, DescTransitive
<1> QED BY <1>2, <1>3, <1>4, <1>5
-----------------------------------------------------------------------------
(* The steps of the loops, on positions.                                   *)

\* The children of a position have it as their parent, and only they do.
LEMMA KidsFacts ==
    /\ \A i \in Nat : \A j \in Kids(i) : j \in Nat /\ Up(j) = i /\ i < j
    /\ \A j \in Nat \ {0} : Up(j) \in Nat /\ Up(j) < j /\ j \in Kids(Up(j))
BY SMT DEF Kids, Up

\* The root of a heap is its greatest element.
LEMMA RootIsGreatest ==
    ASSUME NEW f, NEW N \in Nat, f \in [0..(N - 1) -> Int],
           NEW end \in 0..N, HeapFrom(f, 0, end)
    PROVE  \A i \in 0..(end - 1) : f[0] >= f[i]
<1> DEFINE Bad == {i \in 0..(end - 1) : ~(f[0] >= f[i])}
<1> SUFFICES ASSUME Bad # {} PROVE FALSE
    OBVIOUS
<1>1. PICK i \in Bad : \A y \in Bad : i <= y
    <2>1. Bad \subseteq Nat
        BY SMT
    <2> HIDE DEF Bad
    <2> QED BY <2>1, LeastNatural
<1>2. i \in 0..(end - 1) /\ ~(f[0] >= f[i]) /\ f[0] \in Int /\ f[i] \in Int
    BY <1>1, SMT
<1>3. i # 0
    BY <1>2, SMT
<1>4. Up(i) \in Nat /\ Up(i) < i /\ i \in Kids(Up(i))
    BY <1>2, <1>3, KidsFacts, SMT
<1>5. f[Up(i)] >= f[i] /\ f[Up(i)] \in Int
    <2>1. Up(i) \in 0..(end - 1) /\ Up(i) \in 0..(N - 1) /\ i < end
        BY <1>2, <1>4, SMT
    <2> QED BY <1>4, <2>1 DEF HeapFrom
<1>6. Up(i) \notin Bad
    <2>1. Up(i) \in Bad => i <= Up(i)
        BY <1>1
    <2> QED BY <2>1, <1>2, <1>4, SMT
<1>7. f[0] >= f[Up(i)]
    BY <1>2, <1>4, <1>6, SMT
<1> QED BY <1>2, <1>5, <1>7, SMT

\* One turn of the loop that goes down to the greater child.
LEMMA DownStep ==
    ASSUME NEW f, NEW N \in Nat, f \in [0..(N - 1) -> Int], NEW end \in 0..N,
           NEW A \in Nat, NEW B \in Nat, A <= B, B < end, Below(B, A),
           DownHeap(f, A, B, end), 2 * B + 2 < end,
           NEW K, K = IF f[2 * B + 1] >= f[2 * B + 2] THEN 2 * B + 1 ELSE 2 * B + 2
    PROVE  A <= K /\ K < end /\ Below(K, A) /\ DownHeap(f, A, K, end)
<1>0. /\ f[2 * B + 1] \in Int /\ f[2 * B + 2] \in Int
      /\ 2 * B + 1 \in Kids(B) /\ 2 * B + 2 \in Kids(B)
    BY SMT DEF Kids
<1>1. K \in Nat /\ K \in Kids(B) /\ B < K /\ Up(K) = B /\ K < end
    <2>1. K \in Kids(B) /\ K < end
        BY <1>0, SMT
    <2> QED BY <2>1, KidsFacts
<1>2. Below(K, A)
    BY <1>1, BelowFacts, SMT
<1>3. \A s \in Kids(B) : s < end => f[K] >= f[s]
    <2>1. f[K] >= f[2 * B + 1] /\ f[K] >= f[2 * B + 2]
        BY <1>0, SMT
    <2> QED BY <2>1 DEF Kids
<1>4. ASSUME NEW r \in (A + 1)..K, Below(r, A), Below(K, r), r # K,
             NEW s \in Kids(Up(r)), s < end
      PROVE  f[r] >= f[s]
    <2>0. r \in Nat
        BY SMT
    <2>1. Below(B, r)
        BY <1>1, <1>4, <2>0, BelowFacts
    <2>2. r <= B
        BY <2>0, <2>1, BelowFacts
    <2>3. r \in (A + 1)..B
        BY <2>2, SMT
    <2> QED BY <1>4, <2>1, <2>3 DEF DownHeap, PathIsGreatest
<1>5. PathIsGreatest(f, A, K, end, f[K])
    BY <1>1, <1>3, <1>4 DEF PathIsGreatest
<1> QED BY <1>1, <1>2, <1>5, SMT DEF DownHeap

\* The loop ends at a leaf, which may be the only child of its parent.
LEMMA DownEnd ==
    ASSUME NEW f, NEW N \in Nat, f \in [0..(N - 1) -> Int], NEW end \in 0..N,
           NEW A \in Nat, NEW B \in Nat, A <= B, B < end, Below(B, A),
           DownHeap(f, A, B, end), 2 * B + 2 >= end,
           NEW K, K = IF 2 * B + 2 = end THEN 2 * B + 1 ELSE B
    PROVE  A <= K /\ K < end /\ Below(K, A) /\ BackHeap(f, A, K, end)
<1>1. CASE 2 * B + 2 = end
    <2>1. K \in Nat /\ K \in Kids(B) /\ B < K /\ Up(K) = B /\ K < end
        <3>1. K \in Kids(B) /\ K < end
            BY <1>1, SMT DEF Kids
        <3> QED BY <3>1, KidsFacts
    <2>2. Below(K, A)
        BY <2>1, BelowFacts
    <2>3. \A s \in Kids(B) : s < end => f[K] >= f[s]
        BY <1>1, SMT DEF Kids
    <2>4. ASSUME NEW r \in (A + 1)..K, Below(r, A), Below(K, r), r # K,
                 NEW s \in Kids(Up(r)), s < end
          PROVE  f[r] >= f[s]
        <3>1. Below(B, r)
            BY <2>1, <2>4, BelowFacts, SMT
        <3>2. r <= B
            BY <3>1, BelowFacts, SMT
        <3>3. r \in (A + 1)..B
            BY <3>2, SMT
        <3> QED BY <2>4, <3>1, <3>3 DEF DownHeap, PathIsGreatest
    <2>5. PathIsGreatest(f, A, K, end, f[K])
        BY <2>1, <2>3, <2>4 DEF PathIsGreatest
    <2>6. \A j \in Kids(K) : ~(j < end)
        BY <1>1, <2>1, SMT DEF Kids
    <2> QED BY <2>1, <2>2, <2>5, <2>6, SMT DEF DownHeap, BackHeap
<1>2. CASE 2 * B + 2 # end
    <2>1. K = B /\ \A j \in Kids(B) : ~(j < end)
        BY <1>2, SMT DEF Kids
    <2> QED BY <2>1 DEF BackHeap
<1> QED BY <1>1, <1>2

\* One turn of the loop that backtracks.
LEMMA BackStep ==
    ASSUME NEW f, NEW N \in Nat, f \in [0..(N - 1) -> Int], NEW end \in 0..N,
           NEW A \in Nat, NEW B \in Nat, A <= B, B < end, Below(B, A),
           BackHeap(f, A, B, end), B # A, f[A] >= f[B]
    PROVE  /\ A <= Up(B) /\ Up(B) < end /\ Below(Up(B), A)
           /\ BackHeap(f, A, Up(B), end)
<1> DEFINE P == Up(B)
<1>1. P \in Nat /\ P < B /\ B \in Kids(P)
    BY KidsFacts, SMT
<1>2. Below(P, A) /\ A <= P
    BY <1>1, BelowFacts
<1> HIDE DEF P
<1>3. Below(B, P)
    BY <1>1, BelowFacts
<1>4. ASSUME NEW r \in (A + 1)..P, Below(r, A), Below(P, r),
             NEW s \in Kids(Up(r)), s < end
      PROVE  f[r] >= f[s]
    <2>1. Below(B, r)
        BY <1>1, <1>3, <1>4, BelowFacts, SMT
    <2>2. r \in (A + 1)..B /\ r # B
        BY <1>1, SMT
    <2> QED BY <1>4, <2>1, <2>2 DEF BackHeap, DownHeap, PathIsGreatest
<1>5. PathIsGreatest(f, A, P, end, f[P])
    BY <1>1, <1>4 DEF PathIsGreatest
<1>6. ASSUME NEW j \in Kids(P), j < end
      PROVE  f[A] >= f[j]
    <2>1. B \in (A + 1)..B /\ Below(B, B)
        BY BelowFacts, SMT
    <2>2. f[B] >= f[j]
        BY <1>6, <2>1 DEF BackHeap, DownHeap, PathIsGreatest, P
    <2>3. j \in 0..(N - 1)
        BY <1>1, <1>6, KidsFacts, SMT
    <2> QED BY <2>2, <2>3, SMT
<1> QED BY <1>1, <1>2, <1>5, <1>6, SMT DEF BackHeap, DownHeap, P

\* The place for the element at a is found.
LEMMA BackEnd ==
    ASSUME NEW f, NEW N \in Nat, f \in [0..(N - 1) -> Int], NEW end \in 0..N,
           NEW A \in Nat, NEW B \in Nat, A <= B, B < end, Below(B, A),
           BackHeap(f, A, B, end), ~(B # A /\ f[A] >= f[B])
    PROVE  ShiftHeap(f, A, B, B, end)
<1>1. Below(B, B)
    BY BelowFacts
<1>2. ASSUME B # A, Up(B) # A
      PROVE  f[Up(B)] >= f[B]
    <2>1. Up(B) \in Nat /\ Up(B) < B /\ B \in Kids(Up(B))
        BY <1>2, KidsFacts, SMT
    <2>2. Below(Up(B), A)
        BY <1>2, BelowFacts
    <2>3. Up(B) \in (A + 1)..(end - 1)
        BY <1>2, <2>1, <2>2, BelowFacts, SMT
    <2> QED BY <2>1, <2>3 DEF BackHeap, DownHeap, HeapFrom
<1>3. B # A => f[B] >= f[A]
    BY SMT
<1>4. B = A => HeapFrom(f, A, end)
    <2> SUFFICES ASSUME B = A, NEW i \in A..(end - 1), NEW j \in Kids(i), j < end
                 PROVE  f[i] >= f[j]
        BY DEF HeapFrom
    <2>1. CASE i = A
        BY <2>1 DEF BackHeap
    <2>2. CASE i # A
        <3>1. i \in (A + 1)..(end - 1)
            BY <2>2, SMT
        <3> QED BY <3>1 DEF BackHeap, DownHeap, HeapFrom
    <2> QED BY <2>1, <2>2
<1>5. \A i \in (A + 1)..(end - 1) : \A j \in Kids(i) : j < end => f[i] >= f[j]
    BY DEF BackHeap, DownHeap, HeapFrom
<1>6. \A j \in Kids(B) : j < end => (IF B # A THEN f[A] ELSE f[B]) >= f[j]
    BY DEF BackHeap
<1>7. PathIsGreatest(f, A, B, end, f[B])
    BY DEF BackHeap, DownHeap
<1> QED BY <1>1, <1>2, <1>3, <1>4, <1>5, <1>6, <1>7 DEF ShiftHeap

Exchange(f, x, y) == [f EXCEPT ![x] = f[y], ![y] = f[x]]

\* One turn of the loop that shifts: b goes one level up and swaps with c.
LEMMA ShiftStep ==
    ASSUME NEW f, NEW N \in Nat, f \in [0..(N - 1) -> Int], NEW end \in 0..N,
           NEW A \in Nat, NEW B \in Nat, NEW C \in Nat,
           A <= B, B <= C, C < end, Below(B, A),
           ShiftHeap(f, A, B, C, end), B # A,
           NEW P, P = Up(B),
           NEW g, g = Exchange(f, P, C)
    PROVE  /\ A <= P /\ P <= C /\ Below(P, A)
           /\ ShiftHeap(g, A, P, C, end)
<1>1. P \in Nat /\ P < B /\ B \in Kids(P) /\ P < C
    BY KidsFacts, SMTT(30)
<1>2. Below(P, A) /\ A <= P /\ C # A
    BY <1>1, BelowFacts, SMT
<1>3. Below(B, P) /\ Below(C, B) /\ Below(C, P)
    <2>1. Below(B, P)
        BY <1>1, BelowFacts
    <2>2. Below(C, B)
        BY DEF ShiftHeap
    <2> QED BY <1>1, <2>1, <2>2, BelowFacts
<1>4. /\ g[P] = f[C] /\ g[C] = f[P]
      /\ \A i \in 0..(N - 1) : i # P /\ i # C => g[i] = f[i]
      /\ \A i \in 0..(N - 1) : f[i] \in Int
      /\ P \in 0..(N - 1) /\ C \in 0..(N - 1)
    BY <1>1, SMT DEF Exchange
\* the parts of ShiftHeap
<1>5. \A i \in (A + 1)..(end - 1) : \A j \in Kids(i) :
          j < end /\ j # C => f[i] >= f[j]
    BY DEF ShiftHeap
<1>6. \A j \in Kids(C) : j < end => f[A] >= f[j]
    BY DEF ShiftHeap
<1>7. \A r \in (A + 1)..B : Below(r, A) /\ Below(B, r) => \A s \in Kids(Up(r)) :
          s < end => (IF r = B THEN f[C] ELSE f[r]) >= f[s]
    BY DEF ShiftHeap, PathIsGreatest
<1>8. P # A => f[P] >= f[C]
    BY DEF ShiftHeap
<1>9. (IF B = C THEN f[C] ELSE f[Up(C)]) >= f[A]
    BY DEF ShiftHeap
<1>10. \A j \in Kids(P) : j < end => f[C] >= f[j]
    <2>1. B \in (A + 1)..B /\ Below(B, B)
        BY BelowFacts, SMT
    <2> QED BY <1>7, <2>1
<1>11. B # C => Up(C) \in Nat /\ B <= Up(C) /\ Up(C) < C
    <2> SUFFICES ASSUME B # C PROVE Up(C) \in Nat /\ B <= Up(C) /\ Up(C) < C
        OBVIOUS
    <2>1. Up(C) \in Nat /\ Up(C) < C
        BY KidsFacts, SMT
    <2>2. Below(Up(C), B)
        BY <1>3, BelowFacts
    <2> QED BY <2>1, <2>2, BelowFacts
<1> HIDE DEF ShiftHeap
\* the parts of ShiftHeap after the swap
<1>12. ASSUME NEW i \in (A + 1)..(end - 1), NEW j \in Kids(i), j < end, j # C
       PROVE  g[i] >= g[j]
    <2>1. j \in Nat /\ Up(j) = i /\ i < j /\ i \in 0..(N - 1) /\ j \in 0..(N - 1)
        BY <1>12, KidsFacts, SMT
    <2>2. CASE i = P
        <3>1. j # i
            BY <2>1, SMT
        <3>2. g[j] = f[j]
            BY <1>4, <1>12, <2>1, <2>2, <3>1
        <3> QED BY <1>4, <1>10, <1>12, <2>2, <3>2
    <2>3. CASE i = C
        <3>1. g[j] = f[j] /\ g[i] = f[P]
            BY <1>1, <1>4, <1>12, <2>1, <2>3, SMT
        <3>2. CASE P = A
            BY <1>6, <1>12, <2>3, <3>1, <3>2
        <3>3. CASE P # A
            <4>1. f[P] >= f[C]
                BY <1>8, <3>3
            <4>2. f[C] >= f[j]
                BY <1>5, <1>12, <2>3
            <4>3. f[P] \in Int /\ f[C] \in Int /\ f[j] \in Int
                BY <1>4, <2>1
            <4> QED BY <3>1, <4>1, <4>2, <4>3, SMT
        <3> QED BY <3>2, <3>3
    <2>4. CASE i # P /\ i # C
        <3>1. g[i] = f[i] /\ f[i] >= f[j]
            BY <1>4, <1>5, <1>12, <2>1, <2>4
        <3>2. CASE j = P
            <4>1. P # A
                BY <2>1, <3>2, SMT
            <4>2. f[P] >= f[C] /\ g[j] = f[C]
                BY <1>4, <1>8, <3>2, <4>1
            <4>3. f[P] \in Int /\ f[C] \in Int /\ f[i] \in Int
                BY <1>4, <2>1
            <4> QED BY <3>1, <3>2, <4>2, <4>3, SMT
        <3>3. CASE j # P
            BY <1>4, <1>12, <2>1, <3>1, <3>3
        <3> QED BY <3>2, <3>3
    <2> QED BY <2>2, <2>3, <2>4
<1>13. ASSUME NEW j \in Kids(C), j < end
       PROVE  (IF P # A THEN g[A] ELSE g[C]) >= g[j]
    <2>1. j \in Nat /\ C < j /\ j \in 0..(N - 1) /\ A \in 0..(N - 1)
        BY <1>13, KidsFacts, SMT
    <2>2. g[j] = f[j] /\ (P # A => g[A] = f[A]) /\ (P = A => g[C] = f[A])
        BY <1>1, <1>2, <1>4, <2>1, SMT
    <2> QED BY <1>6, <1>13, <2>2
<1>14. ASSUME NEW r \in (A + 1)..P, Below(r, A), Below(P, r),
              NEW s \in Kids(Up(r)), s < end
       PROVE  (IF r = P THEN g[C] ELSE g[r]) >= g[s]
    <2>1. r \in Nat /\ r <= P /\ Up(r) \in Nat /\ Up(r) < r
        BY <1>1, KidsFacts, SMT
    <2>2. s \in Nat /\ Up(s) = Up(r) /\ s \in 0..(N - 1) /\ r \in 0..(N - 1)
        <3>1. s \in Nat /\ Up(s) = Up(r)
            BY <2>1, KidsFacts
        <3> QED BY <1>1, <1>14, <2>1, <3>1, SMT
    <2>3. Below(B, r) /\ Below(C, r)
        BY <1>1, <1>3, <1>14, <2>1, BelowFacts
    <2>4. (IF r = P THEN g[C] ELSE g[r]) = f[r]
        BY <1>1, <1>4, <2>1, <2>2, SMTT(30)
    <2>5. f[r] >= f[s]
        <3>1. r \in (A + 1)..B /\ r # B
            BY <1>1, <2>1, SMT
        <3> QED BY <1>7, <1>14, <2>3, <3>1
    <2>6. CASE s = P
        <3>1. r = P
            <4>1. ASSUME r # P PROVE FALSE
                <5>1. Below(Up(P), r)
                    BY <1>1, <1>14, <2>1, <4>1, BelowFacts
                <5>2. Up(P) \in Nat
                    BY <2>1, <2>2, <2>6
                <5> QED BY <2>1, <2>2, <2>6, <5>1, <5>2, BelowFacts, SMT
            <4> QED BY <4>1
        <3>2. P # A
            BY <3>1, SMT
        <3> QED BY <1>4, <1>8, <2>4, <2>6, <3>1, <3>2
    <2>7. CASE s = C
        <3>1. Below(Up(C), r)
            BY <1>1, <2>1, <2>3, BelowFacts, SMT
        <3> QED BY <2>1, <2>2, <2>7, <3>1, BelowFacts, SMT
    <2>8. CASE s # P /\ s # C
        BY <1>4, <2>2, <2>4, <2>5, <2>8
    <2> QED BY <2>6, <2>7, <2>8
<1>15. ASSUME P # A, Up(P) # A
       PROVE  g[Up(P)] >= g[C]
    <2>1. Up(P) \in Nat /\ Up(P) < P /\ P \in Kids(Up(P))
        BY <1>1, <1>2, <1>15, KidsFacts, SMT
    <2>2. Below(Up(P), A)
        BY <1>1, <1>2, <1>15, BelowFacts
    <2>3. Up(P) \in (A + 1)..(end - 1) /\ Up(P) \in 0..(N - 1)
        <3>1. A <= Up(P)
            BY <2>1, <2>2, BelowFacts
        <3> QED BY <1>1, <1>15, <2>1, <3>1, SMT
    <2>4. P < end /\ P # C /\ Up(P) # P /\ Up(P) # C
        BY <1>1, <2>1, SMT
    <2>5. f[Up(P)] >= f[P] /\ g[Up(P)] = f[Up(P)]
        BY <1>4, <1>5, <2>1, <2>3, <2>4
    <2> QED BY <1>4, <2>5
<1>16. ASSUME P # A
       PROVE  (IF P = C THEN g[C] ELSE g[Up(C)]) >= g[A]
    <2>1. g[A] = f[A]
        BY <1>2, <1>4, <1>16, SMT
    <2>2. CASE B = C
        BY <1>1, <1>4, <1>9, <2>1, <2>2
    <2>3. CASE B # C
        <3>1. Up(C) \in 0..(N - 1) /\ Up(C) # P /\ Up(C) # C /\ P # C
            BY <1>1, <1>11, <2>3, SMT
        <3> QED BY <1>4, <1>9, <2>1, <2>3, <3>1
    <2> QED BY <2>2, <2>3
<1>17. ASSUME P = A, NEW i \in A..(end - 1), NEW j \in Kids(i), j < end
       PROVE  g[i] >= g[j]
    <2>1. j \in Nat /\ Up(j) = i /\ i < j /\ i \in 0..(N - 1) /\ j \in 0..(N - 1)
        <3>1. i \in Nat /\ i \in 0..(N - 1)
            BY SMT
        <3>2. j \in Nat /\ Up(j) = i /\ i < j
            BY <3>1, KidsFacts
        <3> QED BY <1>17, <3>1, <3>2, SMT
    <2>2. CASE i = A /\ j = C
        <3>1. B = C
            BY <1>1, <1>11, <1>17, <2>1, <2>2, SMT
        <3> QED BY <1>4, <1>9, <1>17, <2>2, <3>1
    <2>3. CASE i = A /\ j # C
        <3>1. g[j] = f[j] /\ g[i] = f[C]
            BY <1>4, <1>17, <2>1, <2>3, SMT
        <3> QED BY <1>10, <1>17, <2>3, <3>1
    <2>4. CASE i # A /\ j # C
        <3>1. i \in (A + 1)..(end - 1)
            BY <2>4, SMT
        <3> QED BY <1>12, <1>17, <2>4, <3>1
    <2>5. CASE i # A /\ j = C
        <3>1. B # C
            BY <1>17, <2>1, <2>5
        <3>2. g[i] = f[Up(C)] /\ g[j] = f[A]
            BY <1>1, <1>4, <1>17, <2>1, <2>5, SMT
        <3> QED BY <1>9, <3>1, <3>2
    <2> QED BY <2>2, <2>3, <2>4, <2>5
<1>18. PathIsGreatest(g, A, P, end, g[C])
    BY <1>14 DEF PathIsGreatest
<1>19. P = A => HeapFrom(g, A, end)
    BY <1>17 DEF HeapFrom
<1>20. ShiftHeap(g, A, P, C, end)
    <2>1. P # C
        BY <1>1, SMT
    <2>2. \A i \in (A + 1)..(end - 1) : \A j \in Kids(i) :
              j < end /\ (j # C \/ P = C) => g[i] >= g[j]
        BY <1>12, <2>1
    <2>3. \A j \in Kids(C) : j < end => (IF P # A THEN g[A] ELSE g[C]) >= g[j]
        BY <1>13
    <2>4. P # A /\ Up(P) # A => g[Up(P)] >= g[C]
        BY <1>15
    <2>5. P # A => (IF P = C THEN g[C] ELSE g[Up(C)]) >= g[A]
        BY <1>16
    <2> QED BY <1>3, <1>18, <1>19, <2>2, <2>3, <2>4, <2>5 DEF ShiftHeap
<1> QED BY <1>1, <1>2, <1>20, SMT

\* The elements from end on are sorted and not smaller than those before.
SuffixSorted(f, end, N) ==
    \A i \in end..(N - 1) : \A j \in 0..(i - 1) : f[j] <= f[i]

IntArray(f, N, end) == N \in Nat /\ f \in [0..(N - 1) -> Int] /\ end \in 0..N

Shifting(f, A, B, C, end) ==
    A <= B /\ B <= C /\ C < end /\ Below(B, A) /\ ShiftHeap(f, A, B, C, end)

\* The same of a turn of the loop in HeapSort: the loop goes on from the parent of
\* b in the array after swap_func().
LEMMA ShiftTurn ==
    ASSUME NEW f, NEW N, NEW end, IntArray(f, N, end),
           NEW A \in Nat, NEW B \in Nat, NEW C \in Nat,
           Shifting(f, A, B, C, end), B # A,
           NEW P, P = Up(B),
           NEW g, g = Exchange(f, P, C)
    PROVE  Shifting(g, A, P, C, end)
<1>1. N \in Nat /\ f \in [0..(N - 1) -> Int] /\ end \in 0..N
    BY DEF IntArray
<1>2. A <= B /\ B <= C /\ C < end /\ Below(B, A) /\ ShiftHeap(f, A, B, C, end)
    BY DEF Shifting
<1>3. A <= P /\ P <= C /\ Below(P, A) /\ ShiftHeap(g, A, P, C, end)
    BY <1>1, <1>2, ShiftStep, SMT
<1> QED BY <1>2, <1>3 DEF Shifting

\* A swap inside the heap does not disturb the elements past it.
LEMMA SwapKeepsSuffix ==
    ASSUME NEW f, NEW N \in Nat, f \in [0..(N - 1) -> Int], NEW end \in 0..N,
           SuffixSorted(f, end, N), NEW x \in 0..(end - 1), NEW y \in 0..(end - 1),
           NEW g, g = Exchange(f, x, y)
    PROVE  SuffixSorted(g, end, N)
<1> SUFFICES ASSUME NEW i \in end..(N - 1), NEW j \in 0..(i - 1)
             PROVE  g[j] <= g[i]
    BY DEF SuffixSorted
<1>1. g[i] = f[i]
    BY SMT DEF Exchange
<1>2. g[j] = f[x] \/ g[j] = f[y] \/ g[j] = f[j]
    BY SMT DEF Exchange
<1>3. x \in 0..(i - 1) /\ y \in 0..(i - 1)
    BY SMT
<1>4. f[x] <= f[i] /\ f[y] <= f[i] /\ f[j] <= f[i]
    BY <1>3 DEF SuffixSorted
<1> QED BY <1>1, <1>2, <1>4

\* The root of the heap goes to its place, and the last element to the root.
LEMMA RootStep ==
    ASSUME NEW f, NEW N \in Nat, f \in [0..(N - 1) -> Int], NEW end \in 0..N,
           end >= 2, HeapFrom(f, 0, end), SuffixSorted(f, end, N),
           NEW g, g = Exchange(f, 0, end - 1)
    PROVE  DownHeap(g, 0, 0, end - 1) /\ SuffixSorted(g, end - 1, N)
<1>1. \A i \in 0..(end - 1) : f[0] >= f[i]
    BY RootIsGreatest
<1>2. HeapFrom(g, 1, end - 1)
    <2> SUFFICES ASSUME NEW i \in 1..(end - 1 - 1), NEW j \in Kids(i), j < end - 1
                 PROVE  g[i] >= g[j]
        BY DEF HeapFrom
    <2>1. j \in Nat /\ i < j
        BY KidsFacts, SMT
    <2>2. g[i] = f[i] /\ g[j] = f[j]
        BY <2>1, SMT DEF Exchange
    <2>3. i \in 0..(end - 1) /\ j < end
        BY <2>1, SMT
    <2> QED BY <2>2, <2>3 DEF HeapFrom
<1>3. PathIsGreatest(g, 0, 0, end - 1, g[0])
    BY SMT DEF PathIsGreatest
<1>4. SuffixSorted(g, end, N)
    <2>1. 0 \in 0..(end - 1) /\ end - 1 \in 0..(end - 1)
        BY SMT
    <2> QED BY <2>1, SwapKeepsSuffix
<1>5. ASSUME NEW j \in 0..(end - 2)
      PROVE  g[j] <= g[end - 1]
    <2>1. g[end - 1] = f[0] /\ (g[j] = f[end - 1] \/ g[j] = f[j])
        BY SMT DEF Exchange
    <2>2. f[0] >= f[end - 1] /\ f[0] >= f[j]
        BY <1>1, SMT
    <2>3. f[0] \in Int /\ f[j] \in Int /\ f[end - 1] \in Int
        BY SMT
    <2> QED BY <2>1, <2>2, <2>3
<1>6. SuffixSorted(g, end - 1, N)
    <2> SUFFICES ASSUME NEW i \in (end - 1)..(N - 1), NEW j \in 0..(i - 1)
                 PROVE  g[j] <= g[i]
        BY DEF SuffixSorted
    <2>1. CASE i = end - 1
        BY <1>5, <2>1, SMT
    <2>2. CASE i # end - 1
        BY <1>4, <2>2, SMT DEF SuffixSorted
    <2> QED BY <2>1, <2>2
<1> QED BY <1>2, <1>3, <1>6, SMT DEF DownHeap

-----------------------------------------------------------------------------
(* From offsets to positions.                                              *)

\* A swap keeps the number of times each value occurs.
LEMMA SwapKeepsCounts ==
    ASSUME NEW N \in Nat, NEW f, DOMAIN f = 0..(N - 1),
           NEW x \in 0..(N - 1), NEW y \in 0..(N - 1), NEW v
    PROVE  Occurrences(Exchange(f, x, y), N, v) = Occurrences(f, N, v)
<1> DEFINE g == Exchange(f, x, y)
           S == {i \in 0..(N - 1) : f[i] = v}
           T == {i \in 0..(N - 1) : g[i] = v}
           h == [i \in S |-> IF i = x THEN y ELSE IF i = y THEN x ELSE i]
<1>1. IsFiniteSet(S)
    <2>1. IsFiniteSet(0..(N - 1)) /\ S \in SUBSET (0..(N - 1))
        BY FS_Interval, SMT
    <2> QED BY <2>1, FS_Subset
<1>2. \A i \in 0..(N - 1) : g[i] = IF i = x THEN f[y] ELSE IF i = y THEN f[x] ELSE f[i]
    BY DEF Exchange
<1> HIDE DEF g
<1>3. h \in [S -> T]
    BY <1>2
<1>4. \A i, j \in S : h[i] = h[j] => i = j
    OBVIOUS
<1>5. \A t \in T : \E i \in S : h[i] = t
    <2> SUFFICES ASSUME NEW t \in T PROVE \E i \in S : h[i] = t
        OBVIOUS
    <2> DEFINE i == IF t = x THEN y ELSE IF t = y THEN x ELSE t
    <2>1. i \in S /\ h[i] = t
        BY <1>2
    <2> QED BY <2>1
<1>6. h \in Bijection(S, T)
    <2> HIDE DEF h, S, T
    <2> QED BY <1>3, <1>4, <1>5 DEF Bijection, Injection, Surjection, IsInjective
<1>7. ExistsBijection(S, T)
    BY <1>6 DEF ExistsBijection
<1> HIDE DEF S, T
<1>8. Cardinality(T) = Cardinality(S)
    BY <1>1, <1>7, FS_Bijection
<1> QED BY <1>8 DEF S, T, Occurrences, g

\* Offsets compare as the positions do.
LEMMA OffsetFacts ==
    ASSUME NEW s \in Nat \ {0}, NEW x \in Nat
    PROVE  /\ x * s \in Nat /\ (x * s) \div s = x /\ (x * s) % s = 0
           /\ \A y \in Nat : /\ x * s < y * s <=> x < y
                             /\ x * s <= y * s <=> x <= y
                             /\ x * s = y * s <=> x = y
<1>1. x * s \in Nat /\ (x * s) \div s = x /\ (x * s) % s = 0
    BY SMT
<1>2. ASSUME NEW y \in Nat, x < y PROVE x * s < y * s
    <2>1. y = x + (y - x) /\ y - x \in Nat \ {0}
        BY <1>2, SMT
    <2> DEFINE d == y - x
    <2>2. (x + d) * s = x * s + d * s /\ d * s > 0 /\ d * s \in Nat
        BY <2>1, SMT
    <2> QED BY <1>1, <2>1, <2>2, SMT
<1>3. ASSUME NEW y \in Nat, y < x PROVE y * s < x * s
    <2>1. x = y + (x - y) /\ x - y \in Nat \ {0}
        BY <1>3, SMT
    <2> DEFINE d == x - y
    <2>2. (y + d) * s = y * s + d * s /\ d * s > 0 /\ d * s \in Nat /\ y * s \in Nat
        BY <2>1, SMT
    <2> QED BY <2>1, <2>2, SMT
<1>4. ASSUME NEW y \in Nat
      PROVE  /\ x * s < y * s <=> x < y
             /\ x * s <= y * s <=> x <= y
             /\ x * s = y * s <=> x = y
    <2>1. y * s \in Nat
        BY SMT
    <2>2. x < y \/ x = y \/ y < x
        BY SMT
    <2> QED BY <1>1, <1>2, <1>3, <2>1, <2>2, SMT
<1> QED BY <1>1, <1>4

\* The locals are the offsets of the positions A, B, C and E.
AtPositions(A, B, C, E) ==
    a = A * size /\ b = B * size /\ c = C * size /\ n = E * size

\* HeapInvariant, on positions.
PositionInvariant(A, B, C, E) ==
    /\ input \in Seq(Int) /\ size \in Nat \ {0}
    /\ base \in [0..(num - 1) -> Elements]
    /\ A \in 0..num /\ B \in 0..num /\ C \in 0..num /\ E \in 0..num
    /\ phase \in {"loop", "down", "back", "shift", "sorted"}
    /\ phase = "loop" => A < E
    /\ phase \in {"down", "back", "shift"} => A <= B /\ B < E /\ Below(B, A)
    /\ phase = "shift" => B <= C /\ C < E
    /\ phase \in {"loop", "sorted"} => HeapFrom(base, A, E)
    /\ phase = "down" => DownHeap(base, A, B, E)
    /\ phase = "back" => BackHeap(base, A, B, E)
    /\ phase = "shift" => ShiftHeap(base, A, B, C, E)
    /\ SuffixSorted(base, E, num)
    /\ SameElements /\ InOrder

PositionsOK ==
    \E A, B, C, E \in Nat : AtPositions(A, B, C, E) /\ PositionInvariant(A, B, C, E)

\* The invariant on offsets gives the one on positions.
LEMMA InvariantOnPositions == HeapInvariant => PositionsOK
<1> SUFFICES ASSUME HeapInvariant PROVE PositionsOK
    OBVIOUS
<1> DEFINE A == a \div size
           B == b \div size
           C == c \div size
           E == n \div size
<1>1. /\ size \in Nat \ {0} /\ input \in Seq(Int) /\ num \in Nat
      /\ a \in Nat /\ b \in Nat /\ c \in Nat /\ n \in Nat
      /\ A \in 0..num /\ B \in 0..num /\ C \in 0..num /\ E \in 0..num
      /\ a % size = 0 /\ b % size = 0 /\ c % size = 0 /\ n % size = 0
    BY SMT DEF HeapInvariant, HeapSortTypeOK, num
<1>2. \A o \in Nat : o = (o \div size) * size + (o % size) /\ o \div size \in Nat
    BY <1>1, SMT
<1>3. a = A * size /\ b = B * size /\ c = C * size /\ n = E * size
    BY <1>1, <1>2, SMT
<1>4. A \in Nat /\ B \in Nat /\ C \in Nat /\ E \in Nat
    BY <1>1, SMT
<1> HIDE DEF A, B, C, E
<1>5. /\ a < n <=> A < E
      /\ a <= b <=> A <= B
      /\ b < n <=> B < E
      /\ b <= c <=> B <= C
      /\ c < n <=> C < E
    BY <1>1, <1>3, <1>4, OffsetFacts
<1>6. /\ phase = "loop" => A < E
      /\ phase \in {"down", "back", "shift"} => A <= B /\ B < E /\ Below(B, A)
      /\ phase = "shift" => B <= C /\ C < E
    BY <1>5 DEF HeapInvariant, OffsetsStayInHeap, A, B
<1>7. /\ phase \in {"loop", "sorted"} => HeapFrom(base, A, E)
      /\ phase = "down" => DownHeap(base, A, B, E)
      /\ phase = "back" => BackHeap(base, A, B, E)
      /\ phase = "shift" => ShiftHeap(base, A, B, C, E)
      /\ SuffixSorted(base, E, num)
    BY DEF HeapInvariant, HeapSorted, SuffixSorted, A, B, C, E
<1>8. PositionInvariant(A, B, C, E)
    BY <1>1, <1>6, <1>7 DEF HeapInvariant, HeapSortTypeOK, PositionInvariant
<1> QED BY <1>3, <1>4, <1>8 DEF AtPositions, PositionsOK

\* The invariant on positions gives the one on offsets.
LEMMA InvariantOnOffsets == PositionsOK => HeapInvariant
<1> SUFFICES ASSUME NEW A \in Nat, NEW B \in Nat, NEW C \in Nat, NEW E \in Nat,
                    AtPositions(A, B, C, E), PositionInvariant(A, B, C, E)
             PROVE  HeapInvariant
    BY DEF PositionsOK
<1>1. /\ size \in Nat \ {0}
      /\ a = A * size /\ b = B * size /\ c = C * size /\ n = E * size
    BY DEF AtPositions, PositionInvariant
<1>2. /\ a \in Nat /\ b \in Nat /\ c \in Nat /\ n \in Nat
      /\ a \div size = A /\ b \div size = B /\ c \div size = C /\ n \div size = E
      /\ a % size = 0 /\ b % size = 0 /\ c % size = 0 /\ n % size = 0
    BY <1>1, OffsetFacts
<1>3. /\ a < n <=> A < E
      /\ a <= b <=> A <= B
      /\ b < n <=> B < E
      /\ b <= c <=> B <= C
      /\ c < n <=> C < E
    BY <1>1, OffsetFacts
<1>4. HeapSortTypeOK
    BY <1>2 DEF PositionInvariant, HeapSortTypeOK
<1>5. OffsetsStayInHeap
    BY <1>2, <1>3 DEF PositionInvariant, OffsetsStayInHeap
<1>6. HeapSorted
    BY <1>2 DEF PositionInvariant, HeapSorted, SuffixSorted
<1> QED BY <1>4, <1>5, <1>6 DEF HeapInvariant, PositionInvariant

-----------------------------------------------------------------------------
(* The loop invariants hold.                                               *)

\* What the steps have in common: the call keeps its arguments.
LEMMA ArgumentsKept ==
    ASSUME HeapSortStep
    PROVE  input' = input /\ size' = size /\ num' = num /\ Elements' = Elements
BY DEF HeapSortStep, NextRoot, Down, Back, Shift, num, Elements

\* The next state of an array that is kept or has two elements swapped.
LEMMA ArrayAfterStep ==
    ASSUME NEW A \in Nat, NEW B \in Nat, NEW C \in Nat, NEW E \in Nat,
           PositionInvariant(A, B, C, E), input' = input,
           \/ base' = base
           \/ \E x, y \in 0..(num - 1) : base' = Exchange(base, x, y)
    PROVE  base' \in [0..(num' - 1) -> Elements'] /\ SameElements'
<1>1. input' = input /\ num' = num /\ Elements' = Elements
    BY DEF num, Elements
<1>2. num \in Nat /\ base \in [0..(num - 1) -> Elements] /\ SameElements
    BY SMT DEF PositionInvariant, num
<1>3. CASE base' = base
    BY <1>1, <1>2, <1>3 DEF SameElements
<1>4. CASE \E x, y \in 0..(num - 1) : base' = Exchange(base, x, y)
    <2>1. PICK x \in 0..(num - 1), y \in 0..(num - 1) : base' = Exchange(base, x, y)
        BY <1>4
    <2>2. \A v : Occurrences(base', num, v) = Occurrences(base, num, v)
        <3>1. DOMAIN base = 0..(num - 1)
            BY <1>2
        <3> QED BY <1>2, <2>1, <3>1, SwapKeepsCounts, SMT
    <2>3. base' \in [0..(num - 1) -> Elements]
        BY <1>2, <2>1 DEF Exchange
    <2>4. SameElements'
        <3> SUFFICES ASSUME NEW v \in Elements'
                     PROVE  Occurrences(base', num', v)
                                = Cardinality({i \in 1..num' : input'[i] = v})
            BY DEF SameElements, Occurrences
        <3>1. Occurrences(base, num, v) = Cardinality({i \in 1..num : input[i] = v})
            BY <1>1, <1>2 DEF SameElements
        <3>2. {i \in 1..num' : input'[i] = v} = {i \in 1..num : input[i] = v}
            BY <1>1
        <3> QED BY <1>1, <2>2, <3>1, <3>2
    <2> QED BY <1>1, <2>3, <2>4
<1> QED BY <1>3, <1>4

\* What the positions are, for the steps.
LEMMA PositionFacts ==
    ASSUME NEW A \in Nat, NEW B \in Nat, NEW C \in Nat, NEW E \in Nat,
           AtPositions(A, B, C, E), PositionInvariant(A, B, C, E)
    PROVE  /\ size \in Nat \ {0} /\ num \in Nat /\ input \in Seq(Int)
           /\ a = A * size /\ b = B * size /\ c = C * size /\ n = E * size
           /\ A \in 0..num /\ B \in 0..num /\ C \in 0..num /\ E \in 0..num
           /\ base \in [0..(num - 1) -> Int]
<1>1. Elements \subseteq Int
    BY SMT DEF PositionInvariant, Elements, num
<1>2. base \in [0..(num - 1) -> Int]
    BY <1>1 DEF PositionInvariant
<1>3. num \in Nat
    BY SMT DEF PositionInvariant, num
<1> QED BY <1>2, <1>3 DEF AtPositions, PositionInvariant

\* NextRoot while the heap is built.
LEMMA BuildStep ==
    ASSUME NEW A \in Nat, NEW B \in Nat, NEW C \in Nat, NEW E \in Nat,
           AtPositions(A, B, C, E), PositionInvariant(A, B, C, E),
           NextRoot, a # 0
    PROVE  PositionsOK'
<1>0. phase = "loop" /\ A < E
    BY DEF NextRoot, PositionInvariant
<1>1. /\ size \in Nat \ {0} /\ num \in Nat /\ input \in Seq(Int)
      /\ a = A * size /\ b = B * size /\ c = C * size /\ n = E * size
      /\ A \in 0..num /\ B \in 0..num /\ C \in 0..num /\ E \in 0..num
      /\ base \in [0..(num - 1) -> Int]
    BY PositionFacts
<1>2. /\ a' = a - size /\ b' = a - size /\ phase' = "down"
      /\ base' = base /\ n' = n /\ c' = c
    BY DEF NextRoot
<1>3. HeapSortStep
    BY DEF HeapSortStep
<1>4. input' = input /\ size' = size /\ num' = num /\ Elements' = Elements
    BY <1>3, ArgumentsKept
<1> DEFINE D == A - 1
<1>5. A # 0 /\ D \in Nat /\ D < E /\ D \in 0..num /\ a - size = D * size
    BY <1>0, <1>1, SMT
<1>6. AtPositions(D, D, C, E)'
    BY <1>1, <1>2, <1>4, <1>5 DEF AtPositions
<1>7. Below(D, D)
    BY <1>5, BelowFacts
<1>8. DownHeap(base, D, D, E)
    <2>1. HeapFrom(base, D + 1, E)
        BY <1>0, <1>5, SMT DEF PositionInvariant
    <2>2. PathIsGreatest(base, D, D, E, base[D])
        BY <1>5, SMT DEF PathIsGreatest
    <2> QED BY <2>1, <2>2 DEF DownHeap
<1>9. base' \in [0..(num' - 1) -> Elements'] /\ SameElements'
    BY <1>2, <1>4, ArrayAfterStep
<1>10. SuffixSorted(base, E, num) /\ input \in Seq(Int)
    BY DEF PositionInvariant
<1> HIDE DEF D
<1>11. PositionInvariant(D, D, C, E)'
    BY <1>1, <1>2, <1>4, <1>5, <1>7, <1>8, <1>9, <1>10, SMT
    DEF PositionInvariant, InOrder
<1> QED BY <1>5, <1>6, <1>11 DEF PositionsOK

\* NextRoot while elements are extracted, and its end.
LEMMA ExtractStep ==
    ASSUME NEW A \in Nat, NEW B \in Nat, NEW C \in Nat, NEW E \in Nat,
           AtPositions(A, B, C, E), PositionInvariant(A, B, C, E),
           NextRoot, a = 0
    PROVE  PositionsOK'
<1>1. /\ size \in Nat \ {0} /\ num \in Nat /\ input \in Seq(Int)
      /\ a = A * size /\ b = B * size /\ c = C * size /\ n = E * size
      /\ A \in 0..num /\ B \in 0..num /\ C \in 0..num /\ E \in 0..num
      /\ base \in [0..(num - 1) -> Int]
    BY PositionFacts
<1>2. phase = "loop" /\ A = 0 /\ A < E
    <2>1. phase = "loop"
        BY DEF NextRoot
    <2>2. 0 * size = 0 /\ (A * size = 0 * size <=> A = 0)
        BY <1>1, OffsetFacts, SMT
    <2> QED BY <1>1, <2>1, <2>2 DEF PositionInvariant
<1>3. HeapSortStep
    BY DEF HeapSortStep
<1>4. input' = input /\ size' = size /\ num' = num /\ Elements' = Elements
    BY <1>3, ArgumentsKept
<1>5. HeapFrom(base, 0, E) /\ SuffixSorted(base, E, num)
    BY <1>2 DEF PositionInvariant
<1>6. n = size <=> E = 1
    <2>1. E * size = 1 * size <=> E = 1
        BY <1>1, OffsetFacts
    <2> QED BY <1>1, <2>1, SMT
<1>7. CASE n # size
    <2> DEFINE D == E - 1
    <2>1. D \in Nat /\ D >= 1 /\ D \in 0..(num - 1) /\ n - size = D * size
        BY <1>1, <1>2, <1>6, <1>7, SMT
    <2>2. (D * size) \div size = D /\ 0 \div size = 0
        BY <1>1, <2>1, OffsetFacts, SMT
    <2>3. /\ n' = n - size /\ b' = 0 /\ a' = a /\ c' = c /\ phase' = "down"
          /\ base' = Exchange(base, 0, D)
        BY <1>7, <2>1, <2>2 DEF NextRoot, Swapped, Elem, Exchange
    <2>4. AtPositions(0, 0, C, D)'
        BY <1>1, <1>4, <2>1, <2>3, SMT DEF AtPositions
    <2>5. DownHeap(base', 0, 0, D) /\ SuffixSorted(base', D, num)
        BY <1>1, <1>2, <1>5, <2>1, <2>3, RootStep, SMTT(30)
    <2>6. base' \in [0..(num' - 1) -> Elements'] /\ SameElements'
        <3>1. 0 \in 0..(num - 1) /\ D \in 0..(num - 1)
            BY <1>1, <2>1, SMT
        <3> QED BY <1>4, <2>3, <3>1, ArrayAfterStep
    <2>7. Below(0, 0)
        BY BelowFacts
    <2> HIDE DEF D
    <2>8. PositionInvariant(0, 0, C, D)'
        BY <1>1, <1>4, <2>1, <2>3, <2>5, <2>6, <2>7, SMT
        DEF PositionInvariant, InOrder
    <2> QED BY <2>1, <2>4, <2>8 DEF PositionsOK
<1>8. CASE n = size
    <2>1. E = 1 /\ n' = 0 /\ phase' = "sorted" /\ base' = base /\ a' = a /\ b' = b /\ c' = c
        BY <1>2, <1>6, <1>8 DEF NextRoot
    <2>2. AtPositions(A, B, C, 0)'
        BY <1>1, <1>4, <2>1, SMT DEF AtPositions
    <2>3. HeapFrom(base, A, 0)
        BY <1>2, SMT DEF HeapFrom
    <2>4. \A i \in 0..(num - 1) : \A j \in 0..i : base[j] <= base[i]
        <3> SUFFICES ASSUME NEW i \in 0..(num - 1), NEW j \in 0..i
                     PROVE  base[j] <= base[i]
            OBVIOUS
        <3>1. base[i] \in Int /\ base[j] \in Int
            BY <1>1, SMT
        <3>2. CASE j = i
            BY <3>1, <3>2, SMT
        <3>3. CASE j # i
            <4>1. i \in 1..(num - 1) /\ j \in 0..(i - 1)
                BY <3>3, SMT
            <4> QED BY <1>5, <2>1, <4>1 DEF SuffixSorted
        <3> QED BY <3>2, <3>3
    <2>5. SuffixSorted(base, 0, num)
        BY <2>4, SMT DEF SuffixSorted
    <2>6. InOrder'
        BY <1>4, <2>1, <2>4 DEF InOrder
    <2>7. base' \in [0..(num' - 1) -> Elements'] /\ SameElements'
        BY <1>4, <2>1, ArrayAfterStep
    <2>8. PositionInvariant(A, B, C, 0)'
        BY <1>1, <1>4, <2>1, <2>3, <2>5, <2>6, <2>7, SMT DEF PositionInvariant
    <2> QED BY <2>2, <2>8 DEF PositionsOK
<1> QED BY <1>7, <1>8

\* The action Down.
LEMMA DownAction ==
    ASSUME NEW A \in Nat, NEW B \in Nat, NEW C \in Nat, NEW E \in Nat,
           AtPositions(A, B, C, E), PositionInvariant(A, B, C, E), Down
    PROVE  PositionsOK'
<1>1. /\ size \in Nat \ {0} /\ num \in Nat /\ input \in Seq(Int)
      /\ a = A * size /\ b = B * size /\ c = C * size /\ n = E * size
      /\ A \in 0..num /\ B \in 0..num /\ C \in 0..num /\ E \in 0..num
      /\ base \in [0..(num - 1) -> Int]
    BY PositionFacts
<1>2. phase = "down" /\ base' = base /\ a' = a /\ n' = n /\ c' = c
    BY DEF Down
<1>3. HeapSortStep
    BY DEF HeapSortStep
<1>4. input' = input /\ size' = size /\ num' = num /\ Elements' = Elements
    BY <1>3, ArgumentsKept
<1>5. A <= B /\ B < E /\ Below(B, A) /\ DownHeap(base, A, B, E)
      /\ SuffixSorted(base, E, num)
    BY <1>2 DEF PositionInvariant
<1>6. base' \in [0..(num' - 1) -> Elements'] /\ SameElements'
    BY <1>2, <1>4, ArrayAfterStep
<1> DEFINE L == 2 * B + 1
           R == 2 * B + 2
<1>7. /\ L \in Nat /\ R \in Nat
      /\ 2 * b + size = L * size /\ 2 * b + size + size = R * size
    <2>1. 2 * (B * size) + size = (2 * B + 1) * size
        BY <1>1, SMT
    <2>2. 2 * (B * size) + size + size = (2 * B + 2) * size
        BY <1>1, SMT
    <2> QED BY <1>1, <2>1, <2>2, SMT
<1>8. /\ R * size < n <=> R < E
      /\ R * size >= n <=> R >= E
      /\ R * size = n <=> R = E
      /\ (L * size) \div size = L /\ (R * size) \div size = R
    <2> HIDE DEF L, R
    <2>1. /\ R * size < E * size <=> R < E
          /\ R * size = E * size <=> R = E
        BY <1>1, <1>7, OffsetFacts
    <2>2. (L * size) \div size = L /\ (R * size) \div size = R
        BY <1>1, <1>7, OffsetFacts
    <2>3. R * size \in Nat /\ n \in Nat
        BY <1>1, <1>7, SMT
    <2> QED BY <1>1, <1>7, <2>1, <2>2, <2>3, SMT
<1>9. CASE R < E
    <2>0. PICK K \in Nat : K = IF base[L] >= base[R] THEN L ELSE R
        BY <1>7
    <2>1. b' = K * size /\ phase' = "down"
        <3>1. ~(R * size >= n) /\ R * size < n
            BY <1>1, <1>7, <1>8, <1>9, SMT
        <3>2. b' = GreaterChild(L * size, R * size) /\ phase' = phase
            BY <1>7, <3>1 DEF Down
        <3> QED BY <1>2, <1>8, <2>0, <3>2 DEF GreaterChild, Elem
    <2>2. A <= K /\ K < E /\ Below(K, A) /\ DownHeap(base, A, K, E)
        BY <1>1, <1>5, <1>9, <2>0, DownStep
    <2>3. K \in Nat /\ K \in 0..num
        BY <1>1, <1>7, <2>2, SMT
    <2>4. AtPositions(A, K, C, E)'
        BY <1>1, <1>2, <1>4, <2>1 DEF AtPositions
    <2>5. PositionInvariant(A, K, C, E)'
        BY <1>1, <1>2, <1>4, <1>5, <1>6, <2>1, <2>2, <2>3
        DEF PositionInvariant, InOrder
    <2> QED BY <2>3, <2>4, <2>5 DEF PositionsOK
<1>10. CASE R >= E
    <2> DEFINE K == IF R = E THEN L ELSE B
    <2>1. b' = K * size /\ phase' = "back"
        <3>1. ~(R * size < n) /\ R * size >= n
            BY <1>1, <1>7, <1>8, <1>10, SMT
        <3>2. b' = (IF R * size = n THEN L * size ELSE b) /\ phase' = "back"
            BY <1>7, <3>1 DEF Down
        <3> QED BY <1>1, <1>8, <3>2
    <2>2. A <= K /\ K < E /\ Below(K, A) /\ BackHeap(base, A, K, E)
        BY <1>1, <1>5, <1>10, DownEnd
    <2>3. K \in Nat /\ K \in 0..num
        BY <1>1, <1>7, <2>2, SMT
    <2> HIDE DEF K
    <2>4. AtPositions(A, K, C, E)'
        BY <1>1, <1>2, <1>4, <2>1 DEF AtPositions
    <2>5. PositionInvariant(A, K, C, E)'
        BY <1>1, <1>2, <1>4, <1>5, <1>6, <2>1, <2>2, <2>3
        DEF PositionInvariant, InOrder
    <2> QED BY <2>3, <2>4, <2>5 DEF PositionsOK
<1> QED BY <1>1, <1>7, <1>9, <1>10, SMT

\* The action Back.
LEMMA BackAction ==
    ASSUME NEW A \in Nat, NEW B \in Nat, NEW C \in Nat, NEW E \in Nat,
           AtPositions(A, B, C, E), PositionInvariant(A, B, C, E), Back
    PROVE  PositionsOK'
<1>1. /\ size \in Nat \ {0} /\ num \in Nat /\ input \in Seq(Int)
      /\ a = A * size /\ b = B * size /\ c = C * size /\ n = E * size
      /\ A \in 0..num /\ B \in 0..num /\ C \in 0..num /\ E \in 0..num
      /\ base \in [0..(num - 1) -> Int]
    BY PositionFacts
<1>2. phase = "back" /\ base' = base /\ a' = a /\ n' = n
    BY DEF Back
<1>3. HeapSortStep
    BY DEF HeapSortStep
<1>4. input' = input /\ size' = size /\ num' = num /\ Elements' = Elements
    BY <1>3, ArgumentsKept
<1>5. A <= B /\ B < E /\ Below(B, A) /\ BackHeap(base, A, B, E)
      /\ SuffixSorted(base, E, num)
    BY <1>2 DEF PositionInvariant
<1>6. base' \in [0..(num' - 1) -> Elements'] /\ SameElements'
    BY <1>2, <1>4, ArrayAfterStep
<1>7. Backtracks(b) <=> B # A /\ base[A] >= base[B]
    <2>1. b = a <=> B = A
        BY <1>1, OffsetFacts
    <2>2. a \div size = A /\ b \div size = B
        BY <1>1, OffsetFacts
    <2> QED BY <2>1, <2>2 DEF Backtracks, Elem
<1>8. CASE Backtracks(b)
    <2> DEFINE P == Up(B)
    <2>1. B # A /\ base[A] >= base[B] /\ B \in Nat \ {0}
        BY <1>5, <1>7, <1>8, SMT
    <2>2. b' = P * size /\ P \in Nat /\ c' = c /\ phase' = "back"
        BY <1>1, <1>2, <1>8, <2>1, ParentOfOffset DEF Back
    <2>3. A <= P /\ P < E /\ Below(P, A) /\ BackHeap(base, A, P, E)
        BY <1>1, <1>5, <2>1, BackStep
    <2>4. P \in 0..num
        BY <1>1, <2>2, <2>3, SMT
    <2> HIDE DEF P
    <2>5. AtPositions(A, P, C, E)'
        BY <1>1, <1>2, <1>4, <2>2 DEF AtPositions
    <2>6. PositionInvariant(A, P, C, E)'
        BY <1>1, <1>2, <1>4, <1>5, <1>6, <2>2, <2>3, <2>4
        DEF PositionInvariant, InOrder
    <2> QED BY <2>2, <2>5, <2>6 DEF PositionsOK
<1>9. CASE ~Backtracks(b)
    <2>1. c' = b /\ b' = b /\ phase' = "shift"
        BY <1>9 DEF Back
    <2>2. ShiftHeap(base, A, B, B, E)
        BY <1>1, <1>5, <1>7, <1>9, BackEnd
    <2>3. AtPositions(A, B, B, E)'
        BY <1>1, <1>2, <1>4, <2>1 DEF AtPositions
    <2>4. PositionInvariant(A, B, B, E)'
        BY <1>1, <1>2, <1>4, <1>5, <1>6, <2>1, <2>2, SMT
        DEF PositionInvariant, InOrder
    <2> QED BY <2>3, <2>4 DEF PositionsOK
<1> QED BY <1>8, <1>9

\* The action Shift.
LEMMA ShiftAction ==
    ASSUME NEW A \in Nat, NEW B \in Nat, NEW C \in Nat, NEW E \in Nat,
           AtPositions(A, B, C, E), PositionInvariant(A, B, C, E), Shift
    PROVE  PositionsOK'
<1>1. /\ size \in Nat \ {0} /\ num \in Nat /\ input \in Seq(Int)
      /\ a = A * size /\ b = B * size /\ c = C * size /\ n = E * size
      /\ A \in 0..num /\ B \in 0..num /\ C \in 0..num /\ E \in 0..num
      /\ base \in [0..(num - 1) -> Int]
    BY PositionFacts
<1>2. phase = "shift" /\ a' = a /\ n' = n /\ c' = c
    BY DEF Shift
<1>3. HeapSortStep
    BY DEF HeapSortStep
<1>4. input' = input /\ size' = size /\ num' = num /\ Elements' = Elements
    BY <1>3, ArgumentsKept
<1>5. A <= B /\ B <= C /\ C < E /\ Below(B, A) /\ ShiftHeap(base, A, B, C, E)
      /\ SuffixSorted(base, E, num)
    BY <1>2 DEF PositionInvariant
<1>6. b = a <=> B = A
    BY <1>1, OffsetFacts
<1>7. CASE b # a
    <2> DEFINE P == Up(B)
    <2>1. B # A /\ B \in Nat \ {0}
        BY <1>5, <1>6, <1>7, SMT
    <2>2. parent(b) = P * size /\ P \in Nat
        BY <1>1, <2>1, ParentOfOffset
    <2>3. parent(b) \div size = P /\ c \div size = C
        BY <1>1, <2>2, OffsetFacts
    <2>4. b' = P * size /\ base' = Exchange(base, P, C) /\ phase' = "shift"
        BY <1>2, <1>7, <2>2, <2>3 DEF Shift, Swapped, Elem, Exchange
    <2> DEFINE g == Exchange(base, P, C)
    <2>11. P = Up(B) /\ g = Exchange(base, P, C) /\ base' = g
        BY <2>4
    <2> HIDE DEF P, g
    <2>12. A <= P /\ P <= C /\ Below(P, A) /\ ShiftHeap(g, A, P, C, E)
        <3>1. IntArray(base, num, E)
            BY <1>1 DEF IntArray
        <3>2. Shifting(base, A, B, C, E)
            BY <1>5 DEF Shifting
        <3>3. Shifting(g, A, P, C, E)
            BY <2>1, <2>11, <3>1, <3>2, ShiftTurn
        <3> QED BY <3>3 DEF Shifting
    <2>5. A <= P /\ P <= C /\ Below(P, A) /\ ShiftHeap(base', A, P, C, E)
        BY <2>11, <2>12
    <2>6. P \in 0..num /\ P \in 0..(E - 1) /\ C \in 0..(E - 1) /\ P < E
        BY <1>1, <1>5, <2>2, <2>5, SMT
    <2>7. SuffixSorted(base', E, num)
        BY <1>1, <1>5, <2>4, <2>6, SwapKeepsSuffix
    <2>8. base' \in [0..(num' - 1) -> Elements'] /\ SameElements'
        <3>1. P \in 0..(num - 1) /\ C \in 0..(num - 1)
            BY <1>1, <2>6, SMT
        <3> QED BY <1>4, <2>4, <3>1, ArrayAfterStep
    <2>9. AtPositions(A, P, C, E)'
        BY <1>1, <1>2, <1>4, <2>4 DEF AtPositions
    <2>10. PositionInvariant(A, P, C, E)'
        BY <1>1, <1>2, <1>4, <1>5, <2>4, <2>5, <2>6, <2>7, <2>8
        DEF PositionInvariant, InOrder
    <2> QED BY <2>2, <2>9, <2>10 DEF PositionsOK
<1>8. CASE b = a
    <2>1. phase' = "loop" /\ base' = base /\ b' = b
        BY <1>8 DEF Shift
    <2>2. HeapFrom(base, A, E) /\ A < E
        BY <1>5, <1>6, <1>8, SMT DEF ShiftHeap
    <2>3. base' \in [0..(num' - 1) -> Elements'] /\ SameElements'
        BY <1>4, <2>1, ArrayAfterStep
    <2>4. AtPositions(A, B, C, E)'
        BY <1>1, <1>2, <1>4, <2>1 DEF AtPositions
    <2>5. PositionInvariant(A, B, C, E)'
        BY <1>1, <1>2, <1>4, <1>5, <2>1, <2>2, <2>3
        DEF PositionInvariant, InOrder
    <2> QED BY <2>4, <2>5 DEF PositionsOK
<1> QED BY <1>7, <1>8

\* sort() establishes the invariant: half of the elements are leaves.
LEMMA InitPositions ==
    ASSUME NEW elements \in Seq(Int), NEW bytes \in Nat \ {0},
           HeapSortInit(elements, bytes)
    PROVE  PositionsOK
<1>1. /\ input \in Seq(Int) /\ size \in Nat \ {0} /\ num \in Nat
      /\ base = [i \in 0..(num - 1) |-> input[i + 1]]
      /\ n = num * size /\ a = (num \div 2) * size /\ b = 0 /\ c = 0
      /\ phase = IF num \div 2 = 0 THEN "sorted" ELSE "loop"
    BY SMT DEF HeapSortInit, num
<1> DEFINE A == num \div 2
<1>2. A \in Nat /\ A \in 0..num /\ (A = 0 => num <= 1) /\ (A # 0 => A < num)
      /\ 2 * A + 1 >= num
    BY <1>1, SMT
<1>3. base \in [0..(num - 1) -> Elements] /\ base \in [0..(num - 1) -> Int]
    <2>1. \A i \in 1..num : input[i] \in Elements /\ input[i] \in Int
        BY <1>1, SMT DEF Elements, num
    <2> QED BY <1>1, <2>1, SMT
<1>4. HeapFrom(base, A, num)
    BY <1>1, <1>2, SMT DEF HeapFrom, Kids
<1>5. SuffixSorted(base, num, num)
    BY <1>1, SMT DEF SuffixSorted
<1>6. InOrder
    <2> SUFFICES ASSUME phase = "sorted", NEW i \in 0..(num - 1), NEW j \in 0..i
                 PROVE  base[j] <= base[i]
        BY DEF InOrder
    <2>1. i = j /\ base[i] \in Int
        BY <1>1, <1>2, <1>3, SMT
    <2> QED BY <2>1, SMT
<1>7. SameElements
    <2> SUFFICES ASSUME NEW v \in Elements
                 PROVE  Occurrences(base, num, v)
                            = Cardinality({i \in 1..num : input[i] = v})
        BY DEF SameElements
    <2> DEFINE S == {i \in 0..(num - 1) : base[i] = v}
               T == {i \in 1..num : input[i] = v}
               h == [i \in S |-> i + 1]
    <2>1. IsFiniteSet(S)
        <3>1. IsFiniteSet(0..(num - 1)) /\ S \in SUBSET (0..(num - 1))
            BY <1>1, FS_Interval, SMT
        <3> QED BY <3>1, FS_Subset
    <2>2. h \in [S -> T] /\ \A i, j \in S : h[i] = h[j] => i = j
        BY <1>1, SMT
    <2>3. \A t \in T : \E i \in S : h[i] = t
        <3> SUFFICES ASSUME NEW t \in T PROVE \E i \in S : h[i] = t
            OBVIOUS
        <3>1. t - 1 \in S /\ h[t - 1] = t
            BY <1>1, SMT
        <3> QED BY <3>1
    <2>4. h \in Bijection(S, T)
        <3> HIDE DEF h, S, T
        <3> QED BY <2>2, <2>3 DEF Bijection, Injection, Surjection, IsInjective
    <2>5. ExistsBijection(S, T)
        BY <2>4 DEF ExistsBijection
    <2> HIDE DEF S, T
    <2>6. Cardinality(T) = Cardinality(S)
        BY <2>1, <2>5, FS_Bijection
    <2> QED BY <2>6 DEF S, T, Occurrences
<1> HIDE DEF A
<1>8. AtPositions(A, 0, 0, num)
    BY <1>1, SMT DEF AtPositions, A
<1>9. phase = "loop" => A < num
    BY <1>1, <1>2 DEF A
<1>10. PositionInvariant(A, 0, 0, num)
    BY <1>1, <1>2, <1>3, <1>4, <1>5, <1>6, <1>7, <1>9, SMT DEF PositionInvariant
<1> QED BY <1>1, <1>2, <1>8, <1>10 DEF PositionsOK

\* sort() sorts.  For any elements of any size, in every state of the call the
\* loop invariants of sort_r() hold, the offsets stay inside the heap, the array
\* holds the elements it was called with, and at the end they are in order.
THEOREM SortSorts == HeapSortCall => []HeapInvariant
<1>1. ASSUME NEW elements \in Seq(Int), NEW bytes \in Nat \ {0},
             HeapSortInit(elements, bytes)
      PROVE  PositionsOK
    BY <1>1, InitPositions
<1>2. ASSUME PositionsOK, [HeapSortStep]_hsvars
      PROVE  PositionsOK'
    <2>1. PICK A \in Nat, B \in Nat, C \in Nat, E \in Nat :
              AtPositions(A, B, C, E) /\ PositionInvariant(A, B, C, E)
        BY <1>2 DEF PositionsOK
    <2>2. CASE NextRoot
        BY <2>1, <2>2, BuildStep, ExtractStep
    <2>3. CASE Down
        BY <2>1, <2>3, DownAction
    <2>4. CASE Back
        BY <2>1, <2>4, BackAction
    <2>5. CASE Shift
        BY <2>1, <2>5, ShiftAction
    <2>6. CASE UNCHANGED hsvars
        <3>1. AtPositions(A, B, C, E)'
            BY <2>1, <2>6 DEF hsvars, AtPositions
        <3>2. PositionInvariant(A, B, C, E)'
            <4>1. /\ input' = input /\ size' = size /\ base' = base /\ phase' = phase
                  /\ num' = num /\ Elements' = Elements
                BY <2>6 DEF hsvars, num, Elements
            <4>2. SameElements'
                BY <2>1, <4>1, ArrayAfterStep
            <4>3. InOrder'
                BY <2>1, <4>1 DEF PositionInvariant, InOrder
            <4> QED BY <2>1, <4>1, <4>2, <4>3 DEF PositionInvariant
        <3> QED BY <3>1, <3>2 DEF PositionsOK
    <2> QED BY <1>2, <2>2, <2>3, <2>4, <2>5, <2>6 DEF HeapSortStep
<1>3. PositionsOK => HeapInvariant
    BY InvariantOnOffsets
<1>4. (\E elements \in Seq(Int), bytes \in Nat \ {0} : HeapSortInit(elements, bytes))
          => PositionsOK
    BY <1>1
<1> QED BY <1>2, <1>3, <1>4, PTL DEF HeapSortCall
=============================================================================
