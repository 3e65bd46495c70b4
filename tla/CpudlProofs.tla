----------------------------- MODULE CpudlProofs -----------------------------
(***************************************************************************)
(* What cpudl_set and cpudl_clear do to any heap: they keep it well formed *)
(* and change nothing that is recorded of other CPUs.  While an entry is   *)
(* sifted its slot is a hole, so the proofs follow the hole.               *)
(***************************************************************************)
EXTENDS CpudlCalls, LeastNumber, FiniteSetTheorems

\* Zenon proves a step unless the step cites SMT, for arithmetic.
USE ZenonT(30)

\* Deadline a is not after deadline b.
NotLater(a, b) == ~Before(b, a)

\* Slot i is in use.
Live(H, i) == i \in CPU /\ i < H.size

\* The live slots of a heap other than the hole p agree with the back
\* pointers of their CPUs, and the CPU whose entry is in hand has none.
Hole(H, p, own) ==
    /\ H \in HeapType /\ p \in CPU /\ p < H.size
    /\ \A i \in CPU : i < H.size /\ i # p =>
          /\ H.slot[i].dl \in Deadlines
          /\ H.slot[i].cpu # own
          /\ H.idx[H.slot[i].cpu] = i
    /\ \A c \in CPU : c # own /\ H.idx[c] # IdxInvalid =>
          /\ H.idx[c] < H.size /\ H.idx[c] # p
          /\ H.slot[H.idx[c]].cpu = c

\* K is H with entry e written to slot i.
Written(H, K, i, e) ==
    /\ K \in HeapType /\ K.size = H.size /\ K.free = H.free
    /\ \A j \in CPU : K.slot[j] = IF j = i THEN e ELSE H.slot[j]
    /\ \A c \in CPU : K.idx[c] = IF c = e.cpu THEN i ELSE H.idx[c]

\* Two heaps record the same of every CPU but one.
Same(H, K, own) ==
    /\ K.size = H.size /\ K.free = H.free
    /\ \A c \in CPU : c # own => Entry(K, c) = Entry(H, c)

\* The heap order of the slots around a hole: what is below it is not after
\* what is above it.
OrderAround(H, p) ==
    /\ \A i \in CPU : i < H.size /\ i # 0 /\ i # p /\ Parent(i) # p
          => NotLater(H.slot[i].dl, H.slot[Parent(i)].dl)
    /\ \A i \in CPU : i < H.size /\ i # 0 /\ Parent(i) = p /\ p # 0
          => NotLater(H.slot[i].dl, H.slot[Parent(p)].dl)

\* Nothing below the hole is after dl; nothing above it is before dl.
FitsBelow(H, p, dl) ==
    \A i \in CPU : i < H.size /\ i # 0 /\ Parent(i) = p
          => NotLater(H.slot[i].dl, dl)
FitsAbove(H, p, dl) == p # 0 => NotLater(dl, H.slot[Parent(p)].dl)

\* A well-formed heap whose live entries are deadlines of tasks.
Good(H) ==
    /\ H \in HeapType /\ WellFormed(H)
    /\ \A i \in CPU : i < H.size => H.slot[i].dl \in Deadlines

-----------------------------------------------------------------------------
(* The order of deadlines, and of slots.                                   *)

\* Among the deadlines in use dl_time_before is transitive.
LEMMA BeforeTransitive ==
    \A a, b, c \in Deadlines : Before(a, b) /\ Before(b, c) => Before(a, c)
BY CpudlAssumption

\* dl_time_before is a strict order of the deadlines in use: not being after
\* is reflexive and transitive.
LEMMA NotLaterOrder ==
    /\ \A a \in Deadlines : NotLater(a, a)
    /\ \A a, b \in Deadlines : Before(a, b) => NotLater(a, b)
    /\ \A a, b \in Deadlines : ~NotLater(a, b) => NotLater(b, a)
    /\ \A a, b, c \in Deadlines :
          NotLater(a, b) /\ NotLater(b, c) => NotLater(a, c)
<1>1. \A a \in Deadlines : ~Before(a, a)
    <2> SUFFICES ASSUME NEW a \in Deadlines PROVE ~Before(a, a)
        OBVIOUS
    <2>1. a \in Int /\ Wrap \in Nat /\ Wrap >= 2
        BY CpudlAssumption, SMT
    <2>2. a - a = 0 /\ (0 % Wrap) = 0 /\ Wrap \div 2 >= 1
        BY <2>1, SMT
    <2> QED BY <2>1, <2>2, SMT DEF Before
<1>2. \A a, b \in Deadlines : Before(a, b) => ~Before(b, a)
    BY <1>1, CpudlAssumption
<1>3. \A a, b \in Deadlines : ~Before(b, a) => a = b \/ Before(a, b)
    BY CpudlAssumption
<1>4. \A a, b, c \in Deadlines : Before(a, b) /\ Before(b, c) => Before(a, c)
    BY CpudlAssumption
<1>5. ASSUME NEW a \in Deadlines, NEW b \in Deadlines, NEW c \in Deadlines,
             ~Before(b, a), ~Before(c, b)
      PROVE  ~Before(c, a)
    <2>1. CASE a = b
        BY <2>1, <1>5
    <2>2. CASE b = c
        BY <2>2, <1>5
    <2>3. CASE Before(a, b) /\ Before(b, c)
        BY <2>3, <1>4, <1>2
    <2> QED BY <2>1, <2>2, <2>3, <1>3, <1>5
<1> QED BY <1>1, <1>2, <1>5 DEF NotLater

\* The parent of a slot, and the two slots a parent has.
LEMMA ParentFacts ==
    /\ \A i \in CPU : i # 0 => Parent(i) \in CPU /\ Parent(i) < i
    /\ \A i \in CPU, p \in CPU : i # 0 =>
          (Parent(i) = p <=> i = Left(p) \/ i = Right(p))
    /\ \A p \in CPU : Left(p) \in Nat /\ Right(p) \in Nat
                        /\ Left(p) > p /\ Right(p) > p /\ Left(p) # Right(p)
    /\ 0 \in CPU /\ IdxInvalid \notin CPU /\ CPU \subseteq Nat
<1>1. N \in Nat /\ N > 0
    BY CpudlAssumption, SMT
<1> QED BY <1>1, SMT DEF Parent, Left, Right, CPU, IdxInvalid

-----------------------------------------------------------------------------
(* The hole.                                                               *)

\* The fields of a heap after an entry is written.
LEMMA PlaceFields ==
    ASSUME NEW H \in HeapType, NEW i \in CPU,
           NEW e \in Item
    PROVE  Written(H, Place(H, i, e), i, e)
BY DEF Written, Place, HeapType, Item

\* The fields of a heap have their types.
LEMMA HeapFields ==
    ASSUME NEW H \in HeapType
    PROVE  /\ H.size \in Nat /\ H.size <= N /\ H.free \subseteq CPU
           /\ \A i \in CPU : H.slot[i] \in Item
           /\ \A i \in CPU : H.slot[i].cpu \in CPU
           /\ \A c \in CPU : H.idx[c] \in CPU \cup {IdxInvalid}
           /\ \A i \in CPU : i < H.size \/ i >= H.size
<1>1. /\ H.size \in 0..N /\ H.free \subseteq CPU
      /\ H.slot \in [CPU -> Item]
      /\ H.idx \in [CPU -> CPU \cup {IdxInvalid}]
    BY DEF HeapType
<1>a. \A e \in Item : e.cpu \in CPU
    BY DEF Item
<1>2. H.size \in Nat /\ H.size <= N
    BY <1>1, CpudlAssumption, SMT
<1>3. \A i \in CPU : i \in Int
    BY CpudlAssumption, SMT DEF CPU
<1> QED BY <1>1, <1>a, <1>2, <1>3, SMT

\* Pulling another entry onto the hole moves the hole to where it was.
LEMMA HoleMoves ==
    ASSUME NEW H, NEW p, NEW q \in CPU, NEW own \in CPU,
           Hole(H, p, own), Live(H, q), q # p
    PROVE  /\ Hole(Place(H, p, H.slot[q]), q, own)
           /\ Same(H, Place(H, p, H.slot[q]), own)
<1> DEFINE K == Place(H, p, H.slot[q])
<1>1. H \in HeapType /\ p \in CPU
    BY DEF Hole
<1>2. H.slot[q] \in Item /\ H.slot[q].cpu \in CPU
    BY <1>1, HeapFields
<1>a. Written(H, K, p, H.slot[q])
    BY <1>1, <1>2, PlaceFields
<1> HIDE DEF K
<1>3. /\ K \in HeapType /\ K.size = H.size /\ K.free = H.free
      /\ \A j \in CPU : K.slot[j] = IF j = p THEN H.slot[q] ELSE H.slot[j]
      /\ \A c \in CPU : K.idx[c] = IF c = H.slot[q].cpu THEN p ELSE H.idx[c]
    BY <1>a DEF Written
<1>4. /\ H.slot[q].cpu # own /\ H.idx[H.slot[q].cpu] = q
      /\ H.slot[q].dl \in Deadlines
    BY DEF Hole, Live
<1>5. \A i \in CPU : H.slot[i].cpu \in CPU
    BY <1>1, HeapFields
<1>6. p # IdxInvalid /\ q # IdxInvalid
    BY <1>1, ParentFacts
<1>7. \A i \in CPU : i < K.size /\ i # q =>
          /\ K.slot[i].dl \in Deadlines
          /\ K.slot[i].cpu # own
          /\ K.idx[K.slot[i].cpu] = i
    BY <1>1, <1>3, <1>4, <1>5, SMT DEF Hole
<1>8. \A c \in CPU : c # own /\ K.idx[c] # IdxInvalid =>
          /\ K.idx[c] < K.size /\ K.idx[c] # q
          /\ K.slot[K.idx[c]].cpu = c
    <2> SUFFICES ASSUME NEW c \in CPU, c # own, K.idx[c] # IdxInvalid
                 PROVE  /\ K.idx[c] < K.size /\ K.idx[c] # q
                        /\ K.slot[K.idx[c]].cpu = c
        OBVIOUS
    <2>1. CASE c = H.slot[q].cpu
        BY <2>1, <1>1, <1>3 DEF Hole
    <2>2. CASE c # H.slot[q].cpu
        <3>1. K.idx[c] = H.idx[c] /\ H.idx[c] \in CPU
            BY <2>2, <1>1, <1>3, HeapFields
        <3> QED BY <3>1, <2>2, <1>1, <1>3, <1>4, SMT DEF Hole
    <2> QED BY <2>1, <2>2
<1>9. \A c \in CPU : c # own => Entry(K, c) = Entry(H, c)
    <2> SUFFICES ASSUME NEW c \in CPU, c # own
                 PROVE  Entry(K, c) = Entry(H, c)
        OBVIOUS
    <2>1. CASE c = H.slot[q].cpu
        BY <2>1, <1>1, <1>3, <1>4, <1>6 DEF Entry
    <2>2. CASE c # H.slot[q].cpu
        <3>1. K.idx[c] = H.idx[c]
            BY <2>2, <1>3
        <3>2. H.idx[c] # IdxInvalid => H.idx[c] \in CPU /\ H.idx[c] # p
            BY <1>1, HeapFields DEF Hole
        <3> QED BY <3>1, <3>2, <1>3 DEF Entry
    <2> QED BY <2>1, <2>2
<1> QED BY <1>3, <1>7, <1>8, <1>9 DEF Hole, Same, K, Live

\* Being recorded the same is transitive.
LEMMA SameTransitive ==
    ASSUME NEW H, NEW K, NEW L, NEW own, Same(H, K, own), Same(K, L, own)
    PROVE  Same(H, L, own)
BY DEF Same

\* Putting the entry in hand into the hole, where it fits, makes the heap well
\* formed: the last stores of cpudl_heapify_up and cpudl_heapify_down.
LEMMA HoleFilled ==
    ASSUME NEW H, NEW p, NEW e \in Item, e.dl \in Deadlines,
           Hole(H, p, e.cpu), OrderAround(H, p),
           FitsBelow(H, p, e.dl), FitsAbove(H, p, e.dl)
    PROVE  /\ Good(Place(H, p, e)) /\ Same(H, Place(H, p, e), e.cpu)
           /\ Entry(Place(H, p, e), e.cpu) = e.dl
<1> DEFINE K == Place(H, p, e)
<1>1. H \in HeapType /\ p \in CPU /\ e.cpu \in CPU
    BY DEF Hole, Item
<1>2. Written(H, K, p, e)
    BY <1>1, PlaceFields
<1> HIDE DEF K
<1>3. /\ K \in HeapType /\ K.size = H.size /\ K.free = H.free
      /\ \A j \in CPU : K.slot[j] = IF j = p THEN e ELSE H.slot[j]
      /\ \A c \in CPU : K.idx[c] = IF c = e.cpu THEN p ELSE H.idx[c]
    BY <1>2 DEF Written
<1>4. \A i \in CPU : H.slot[i].cpu \in CPU
    BY <1>1, HeapFields
<1>5. p # IdxInvalid
    BY <1>1, ParentFacts
<1>6. \A i \in CPU : i < K.size =>
          K.slot[i].dl \in Deadlines /\ K.idx[K.slot[i].cpu] = i
    BY <1>1, <1>3, <1>4, SMT DEF Hole
<1>7. \A c \in CPU : K.idx[c] # IdxInvalid =>
          K.idx[c] < K.size /\ K.slot[K.idx[c]].cpu = c
    <2> SUFFICES ASSUME NEW c \in CPU, K.idx[c] # IdxInvalid
                 PROVE  K.idx[c] < K.size /\ K.slot[K.idx[c]].cpu = c
        OBVIOUS
    <2>1. CASE c = e.cpu
        BY <2>1, <1>1, <1>3 DEF Hole
    <2>2. CASE c # e.cpu
        <3>1. K.idx[c] = H.idx[c] /\ H.idx[c] \in CPU
            BY <2>2, <1>1, <1>3, HeapFields
        <3> QED BY <3>1, <2>2, <1>1, <1>3, SMT DEF Hole
    <2> QED BY <2>1, <2>2
<1>8. \A i \in CPU : i < K.size /\ i # 0 =>
          ~Before(K.slot[Parent(i)].dl, K.slot[i].dl)
    <2> SUFFICES ASSUME NEW i \in CPU, i < H.size, i # 0
                 PROVE  NotLater(K.slot[i].dl, K.slot[Parent(i)].dl)
        BY <1>3 DEF NotLater
    <2>1. Parent(i) \in CPU /\ Parent(i) # i
        BY ParentFacts, <1>1, SMT
    <2>2. CASE i = p
        BY <2>1, <2>2, <1>3 DEF FitsAbove
    <2>3. CASE Parent(i) = p
        BY <2>1, <2>3, <1>3 DEF FitsBelow
    <2>4. CASE i # p /\ Parent(i) # p
        BY <2>1, <2>4, <1>3 DEF OrderAround
    <2> QED BY <2>2, <2>3, <2>4
<1>9. WellFormed(K)
    <2>1. K.size \in Nat /\ K.size <= N
        BY <1>3, HeapFields
    <2>2. \A i \in 0..(K.size - 1) : i \in CPU /\ i < K.size
        BY <2>1, CpudlAssumption, SMT DEF CPU
    <2>3. \A i \in 1..(K.size - 1) : i \in CPU /\ i < K.size /\ i # 0
        BY <2>1, CpudlAssumption, SMT DEF CPU
    <2>4. \A i \in 0..(K.size - 1) : K.idx[K.slot[i].cpu] = i
        BY <2>2, <1>6
    <2>5. \A i \in 1..(K.size - 1) :
              ~Before(K.slot[Parent(i)].dl, K.slot[i].dl)
        BY <2>3, <1>8
    <2> QED BY <2>4, <1>7, <2>5 DEF WellFormed
<1>10. \A c \in CPU : c # e.cpu => Entry(K, c) = Entry(H, c)
    <2> SUFFICES ASSUME NEW c \in CPU, c # e.cpu
                 PROVE  Entry(K, c) = Entry(H, c)
        OBVIOUS
    <2>1. K.idx[c] = H.idx[c]
        BY <1>3
    <2>2. H.idx[c] # IdxInvalid => H.idx[c] \in CPU /\ H.idx[c] # p
        BY <1>1, HeapFields DEF Hole
    <2> QED BY <2>1, <2>2, <1>3 DEF Entry
<1>11. Entry(K, e.cpu) = e.dl
    BY <1>1, <1>3, <1>5 DEF Entry
<1>12. Good(K)
    BY <1>3, <1>6, <1>9 DEF Good
<1>13. Same(H, K, e.cpu)
    BY <1>3, <1>10 DEF Same
<1> QED BY <1>11, <1>12, <1>13 DEF K

-----------------------------------------------------------------------------
(* The two loops.                                                          *)

\* The loop invariants of cpudl_heapify_up and cpudl_heapify_down: the hole,
\* and that the entry in hand fits below, or above, where the hole is.
UpOK(H, s, e) ==
    /\ Hole(s.heap, s.at, e.cpu) /\ OrderAround(s.heap, s.at)
    /\ FitsBelow(s.heap, s.at, e.dl) /\ Same(H, s.heap, e.cpu)
DownOK(H, s, e) ==
    /\ Hole(s.heap, s.at, e.cpu) /\ OrderAround(s.heap, s.at)
    /\ FitsAbove(s.heap, s.at, e.dl) /\ Same(H, s.heap, e.cpu)

\* A turn that pulls the parent onto the hole keeps the invariant of
\* cpudl_heapify_up.
LEMMA PullParent ==
    ASSUME NEW H, NEW p \in CPU, p # 0, NEW e \in Item, e.dl \in Deadlines,
           Hole(H, p, e.cpu), OrderAround(H, p), FitsBelow(H, p, e.dl),
           ~Before(e.dl, H.slot[Parent(p)].dl)
    PROVE  /\ Hole(Place(H, p, H.slot[Parent(p)]), Parent(p), e.cpu)
           /\ Same(H, Place(H, p, H.slot[Parent(p)]), e.cpu)
           /\ OrderAround(Place(H, p, H.slot[Parent(p)]), Parent(p))
           /\ FitsBelow(Place(H, p, H.slot[Parent(p)]), Parent(p), e.dl)
<1> DEFINE q == Parent(p)
           K == Place(H, p, H.slot[q])
<1>1. H \in HeapType /\ e.cpu \in CPU /\ q \in CPU /\ q < p /\ q # p
    BY ParentFacts, SMT DEF Hole, Item
<1>2. Live(H, q) /\ Live(H, p)
    <2>1. p \in Nat /\ q \in Nat /\ H.size \in Nat
        BY <1>1, ParentFacts, HeapFields
    <2>2. p < H.size
        BY DEF Hole
    <2>3. q < H.size
        BY <1>1, <2>1, <2>2, SMT
    <2> QED BY <1>1, <2>2, <2>3 DEF Live
<1>3. Hole(K, q, e.cpu) /\ Same(H, K, e.cpu)
    BY <1>1, <1>2, HoleMoves
<1>4. H.slot[q] \in Item
    BY <1>1, HeapFields
<1>5. Written(H, K, p, H.slot[q])
    BY <1>1, <1>4, PlaceFields
<1>6. NotLater(H.slot[q].dl, e.dl)
    BY DEF NotLater
<1> HIDE DEF K
<1>7. /\ K.size = H.size
      /\ \A j \in CPU : K.slot[j] = IF j = p THEN H.slot[q] ELSE H.slot[j]
    BY <1>5 DEF Written
<1>8. \A i \in CPU : i < H.size /\ i # p => H.slot[i].dl \in Deadlines
    BY DEF Hole
<1>9. H.slot[q].dl \in Deadlines
    BY <1>1, <1>2, <1>8 DEF Live
<1>10. \A i \in CPU : i # 0 => Parent(i) \in CPU /\ Parent(i) # i
    BY ParentFacts, SMT
\* Children of q other than p were not after it.
<1>11. \A i \in CPU : i < H.size /\ i # 0 /\ Parent(i) = q /\ i # p =>
          NotLater(H.slot[i].dl, H.slot[q].dl)
    BY <1>1 DEF OrderAround
<1>12. q # 0 => NotLater(H.slot[q].dl, H.slot[Parent(q)].dl) /\ Parent(q) \in CPU
                /\ Parent(q) # p /\ Live(H, Parent(q))
    <2> SUFFICES ASSUME q # 0
                 PROVE  NotLater(H.slot[q].dl, H.slot[Parent(q)].dl)
                        /\ Parent(q) \in CPU /\ Parent(q) # p
                        /\ Live(H, Parent(q))
        OBVIOUS
    <2> HIDE DEF q
    <2>1. Parent(q) \in CPU /\ Parent(q) < q
        BY <1>1, ParentFacts
    <2>a. p \in Nat /\ q \in Nat /\ Parent(q) \in Nat /\ H.size \in Nat
        BY <1>1, <2>1, ParentFacts, HeapFields
    <2>b. Parent(q) # p
        BY <1>1, <2>1, <2>a, SMT
    <2>2. Live(H, Parent(q))
        <3>1. q < H.size
            BY <1>2 DEF Live
        <3>2. Parent(q) < H.size
            BY <2>1, <2>a, <3>1, SMT
        <3> QED BY <2>1, <3>2 DEF Live
    <2> QED BY <2>b, <1>1, <1>2, <2>1, <2>2 DEF OrderAround, Live
<1>13. FitsBelow(K, q, e.dl)
    <2> SUFFICES ASSUME NEW i \in CPU, i < H.size, i # 0, Parent(i) = q
                 PROVE  NotLater(K.slot[i].dl, e.dl)
        BY <1>7 DEF FitsBelow
    <2>1. CASE i = p
        BY <2>1, <1>6, <1>7
    <2>2. CASE i # p
        BY <2>2, <1>6, <1>7, <1>8, <1>9, <1>11, NotLaterOrder, SMT
    <2> QED BY <2>1, <2>2
<1>14. OrderAround(K, q)
    <2>1. ASSUME NEW i \in CPU, i < H.size, i # 0, i # q, Parent(i) # q
          PROVE  NotLater(K.slot[i].dl, K.slot[Parent(i)].dl)
        <3>1. i # p
            BY <2>1
        <3>2. CASE Parent(i) = p
            BY <2>1, <3>1, <3>2, <1>7, <1>10 DEF OrderAround
        <3>3. CASE Parent(i) # p
            BY <2>1, <3>1, <3>3, <1>7, <1>10 DEF OrderAround
        <3> QED BY <3>2, <3>3
    <2>2. ASSUME NEW i \in CPU, i < H.size, i # 0, Parent(i) = q, q # 0
          PROVE  NotLater(K.slot[i].dl, K.slot[Parent(q)].dl)
        <3>1. K.slot[Parent(q)] = H.slot[Parent(q)]
              /\ H.slot[Parent(q)].dl \in Deadlines
            BY <2>2, <1>7, <1>8, <1>12 DEF Live
        <3>2. CASE i = p
            BY <2>2, <3>1, <3>2, <1>7, <1>12
        <3>3. CASE i # p
            BY <2>2, <3>1, <3>3, <1>7, <1>8, <1>9, <1>11, <1>12, NotLaterOrder, SMT
        <3> QED BY <3>2, <3>3
    <2> QED BY <2>1, <2>2, <1>7 DEF OrderAround
<1> QED BY <1>3, <1>13, <1>14 DEF K

\* The child cpudl_heapify_down pulls is after the entry in hand, and its
\* sibling is not after it; if there is none, the entry fits.
LEMMA LargestFacts ==
    ASSUME NEW H, NEW p \in CPU, NEW e \in Item, e.dl \in Deadlines,
           Hole(H, p, e.cpu)
    PROVE  /\ Largest(H, p, e) = p => FitsBelow(H, p, e.dl)
           /\ Largest(H, p, e) # p =>
                 /\ Live(H, Largest(H, p, e)) /\ Largest(H, p, e) > p
                 /\ Parent(Largest(H, p, e)) = p
                 /\ Before(e.dl, H.slot[Largest(H, p, e)].dl)
                 /\ FitsBelow(H, p, H.slot[Largest(H, p, e)].dl)
<1> DEFINE l == Left(p)
           r == Right(p)
           L == l < H.size /\ Before(e.dl, H.slot[l].dl)
           first == IF L THEN l ELSE p
           R == r < H.size /\ Before(IF L THEN H.slot[l].dl ELSE e.dl,
                                     H.slot[r].dl)
           g == Largest(H, p, e)
<1>1. /\ l \in Nat /\ r \in Nat /\ l > p /\ r > p /\ l # r
      /\ p \in Nat /\ N \in Nat /\ H.size \in Nat /\ H.size <= N
      /\ H \in HeapType
    BY ParentFacts, HeapFields, CpudlAssumption DEF Hole
<1>2. g = IF R THEN r ELSE IF L THEN l ELSE p
    BY <1>1, SMT DEF Largest
<1>3. \A i \in CPU : i # 0 => (Parent(i) = p <=> i = l \/ i = r)
    BY ParentFacts
<1>4. \A i \in CPU : i < H.size /\ i # p => H.slot[i].dl \in Deadlines
    BY DEF Hole
<1>5. \A i \in Nat : i < H.size => i \in CPU
    BY <1>1, SMT DEF CPU
<1>6. l < H.size => l \in CPU /\ H.slot[l].dl \in Deadlines
    BY <1>1, <1>4, <1>5, SMT
<1>7. r < H.size => r \in CPU /\ H.slot[r].dl \in Deadlines
    BY <1>1, <1>4, <1>5, SMT
<1>8. l # 0 /\ r # 0 /\ l # p /\ r # p
    BY <1>1, SMT
<1> HIDE DEF l, r, g
<1>9. CASE ~L /\ ~R
    <2>1. g = p
        BY <1>2, <1>9
    <2>2. ASSUME NEW i \in CPU, i < H.size, i # 0, Parent(i) = p
          PROVE  NotLater(H.slot[i].dl, e.dl)
        <3>1. CASE i = l
            BY <3>1, <2>2, <1>9 DEF NotLater
        <3>2. CASE i = r
            BY <3>2, <2>2, <1>9 DEF NotLater
        <3> QED BY <3>1, <3>2, <2>2, <1>3
    <2>3. FitsBelow(H, p, e.dl)
        BY <2>2 DEF FitsBelow
    <2> QED BY <2>1, <2>3 DEF g
<1>10. CASE L /\ ~R
    <2>1. g = l /\ l < H.size /\ Before(e.dl, H.slot[l].dl)
        BY <1>2, <1>10
    <2>2. Live(H, l) /\ Parent(l) = p
        BY <2>1, <1>3, <1>6, <1>8 DEF Live
    <2>3. ASSUME NEW i \in CPU, i < H.size, i # 0, Parent(i) = p
          PROVE  NotLater(H.slot[i].dl, H.slot[l].dl)
        <3>1. CASE i = l
            BY <3>1, <2>1, <1>6, NotLaterOrder
        <3>2. CASE i = r
            BY <3>2, <2>3, <1>10 DEF NotLater
        <3> QED BY <3>1, <3>2, <2>3, <1>3
    <2>4. FitsBelow(H, p, H.slot[l].dl)
        BY <2>3 DEF FitsBelow
    <2> QED BY <2>1, <2>2, <2>4, <1>1, <1>8 DEF g
<1>11. CASE R
    <2>1. g = r /\ r < H.size
        BY <1>2, <1>11
    <2>2. Live(H, r) /\ Parent(r) = p
        BY <2>1, <1>3, <1>7, <1>8 DEF Live
    <2>3. /\ Before(e.dl, H.slot[r].dl)
          /\ L => NotLater(H.slot[l].dl, H.slot[r].dl)
        <3>1. CASE ~L
            BY <3>1, <1>11
        <3>2. CASE L
            <4>1. Before(e.dl, H.slot[l].dl) /\ Before(H.slot[l].dl, H.slot[r].dl)
                BY <3>2, <1>11
            <4>2. H.slot[l].dl \in Deadlines /\ H.slot[r].dl \in Deadlines
                BY <3>2, <2>1, <1>6, <1>7
            <4>3. Before(e.dl, H.slot[r].dl)
                BY <4>1, <4>2, BeforeTransitive
            <4>4. NotLater(H.slot[l].dl, H.slot[r].dl)
                BY <4>1, <4>2, NotLaterOrder, SMT
            <4> QED BY <4>3, <4>4
        <3> QED BY <3>1, <3>2
    <2>4. ASSUME NEW i \in CPU, i < H.size, i # 0, Parent(i) = p
          PROVE  NotLater(H.slot[i].dl, H.slot[r].dl)
        <3>1. CASE i = r
            BY <3>1, <2>1, <1>7, NotLaterOrder
        <3>2. CASE i = l /\ L
            BY <3>2, <2>3
        <3>3. CASE i = l /\ ~L
            <4>1. NotLater(H.slot[l].dl, e.dl) /\ NotLater(e.dl, H.slot[r].dl)
                BY <3>3, <2>3, <2>4, <2>1, <1>7, NotLaterOrder DEF NotLater
            <4> QED BY <4>1, <3>3, <2>4, <2>1, <1>6, <1>7, NotLaterOrder, SMT
        <3> QED BY <3>1, <3>2, <3>3, <2>4, <1>3
    <2>5. FitsBelow(H, p, H.slot[r].dl)
        BY <2>4 DEF FitsBelow
    <2> QED BY <2>1, <2>2, <2>3, <2>5, <1>1, <1>8 DEF g
<1> QED BY <1>9, <1>10, <1>11

\* A turn that pulls that child onto the hole keeps the invariant of
\* cpudl_heapify_down.
LEMMA PullChild ==
    ASSUME NEW H, NEW p \in CPU, NEW e \in Item, e.dl \in Deadlines,
           Hole(H, p, e.cpu), OrderAround(H, p), FitsAbove(H, p, e.dl),
           NEW q, Live(H, q), q > p, Parent(q) = p,
           Before(e.dl, H.slot[q].dl), FitsBelow(H, p, H.slot[q].dl)
    PROVE  /\ Hole(Place(H, p, H.slot[q]), q, e.cpu)
           /\ Same(H, Place(H, p, H.slot[q]), e.cpu)
           /\ OrderAround(Place(H, p, H.slot[q]), q)
           /\ FitsAbove(Place(H, p, H.slot[q]), q, e.dl)
<1> DEFINE K == Place(H, p, H.slot[q])
<1>1. H \in HeapType /\ e.cpu \in CPU /\ q \in CPU
    BY DEF Hole, Item, Live
<1>2. q # p /\ q # 0
    BY <1>1, ParentFacts, SMT
<1>3. Hole(K, q, e.cpu) /\ Same(H, K, e.cpu)
    BY <1>1, <1>2, HoleMoves
<1>4. H.slot[q] \in Item
    BY <1>1, HeapFields
<1>5. Written(H, K, p, H.slot[q])
    BY <1>1, <1>4, PlaceFields
<1> HIDE DEF K
<1>6. /\ K.size = H.size
      /\ \A j \in CPU : K.slot[j] = IF j = p THEN H.slot[q] ELSE H.slot[j]
    BY <1>5 DEF Written
<1>7. \A i \in CPU : i # 0 => Parent(i) \in CPU /\ Parent(i) # i
    BY ParentFacts, SMT
<1>8. H.slot[q].dl \in Deadlines
    BY <1>1, <1>2 DEF Hole, Live
<1>9. FitsAbove(K, q, e.dl)
    BY <1>6, <1>8, NotLaterOrder, SMT DEF FitsAbove
<1>10. OrderAround(K, q)
    <2>1. ASSUME NEW i \in CPU, i < H.size, i # 0, i # q, Parent(i) # q
          PROVE  NotLater(K.slot[i].dl, K.slot[Parent(i)].dl)
        <3>1. CASE i = p
            <4>1. NotLater(H.slot[q].dl, H.slot[Parent(p)].dl)
                BY <3>1, <2>1, <1>1, <1>2 DEF OrderAround, Live
            <4>2. Parent(p) \in CPU /\ Parent(p) # p
                BY <3>1, <2>1, <1>7
            <4> QED BY <4>1, <4>2, <3>1, <1>6
        <3>2. CASE Parent(i) = p
            BY <2>1, <3>2, <1>6, <1>7 DEF FitsBelow
        <3>3. CASE i # p /\ Parent(i) # p
            BY <2>1, <3>3, <1>6, <1>7 DEF OrderAround
        <3> QED BY <3>1, <3>2, <3>3
    <2>2. ASSUME NEW i \in CPU, i < H.size, i # 0, Parent(i) = q, q # 0
          PROVE  NotLater(K.slot[i].dl, K.slot[Parent(q)].dl)
        <3>1. i # p
            <4>1. i > q
                BY <2>2, ParentFacts
            <4> QED BY <4>1, <1>1, ParentFacts, SMT
        <3>2. NotLater(H.slot[i].dl, H.slot[q].dl)
            BY <2>2, <3>1, <1>2 DEF OrderAround
        <3> QED BY <3>1, <3>2, <1>6
    <2> QED BY <2>1, <2>2, <1>6 DEF OrderAround
<1> QED BY <1>3, <1>9, <1>10 DEF K

\* cpudl_heapify_up: the loop comes to rest where the entry in hand fits, and
\* the heap is well formed.
LEMMA PushUpGood ==
    ASSUME NEW H, NEW p \in CPU, NEW e \in Item, e.dl \in Deadlines,
           Hole(H, p, e.cpu), OrderAround(H, p), FitsBelow(H, p, e.dl)
    PROVE  /\ Good(PushUp(H, p, e)) /\ Same(H, PushUp(H, p, e), e.cpu)
           /\ Entry(PushUp(H, p, e), e.cpu) = e.dl
<1> DEFINE S == {s \in [heap : HeapType, at : CPU] : UpOK(H, s, e)}
           x == [heap |-> H, at |-> p]
           G == [s \in S |-> UpTurn(s, e)]
           M == [s \in S |-> s.at]
           Eq(f) == f = [n \in 0..N |-> IF n = 0 THEN x ELSE UpTurn(f[n - 1], e)]
           turn == CHOOSE f : Eq(f)
<1>1. N \in Nat
    BY CpudlAssumption
<1>2. x \in S
    BY DEF UpOK, Same, Hole
<1>3. ASSUME NEW s \in S
      PROVE  /\ UpTurn(s, e) \in S
             /\ UpTurn(s, e) = s
                  => s.at = 0 \/ Before(e.dl, s.heap.slot[Parent(s.at)].dl)
             /\ UpTurn(s, e) = s \/ UpTurn(s, e).at < s.at
    <2>1. /\ s \in [heap : HeapType, at : CPU] /\ UpOK(H, s, e)
          /\ s.at \in CPU
        BY <1>3
    <2>2. CASE s.at = 0 \/ Before(e.dl, s.heap.slot[Parent(s.at)].dl)
        BY <2>2, <1>3 DEF UpTurn
    <2>3. CASE ~(s.at = 0 \/ Before(e.dl, s.heap.slot[Parent(s.at)].dl))
        <3> DEFINE K == Place(s.heap, s.at, s.heap.slot[Parent(s.at)])
        <3>1. UpTurn(s, e) = [heap |-> K, at |-> Parent(s.at)]
            BY <2>3 DEF UpTurn
        <3>2. /\ Hole(K, Parent(s.at), e.cpu) /\ Same(s.heap, K, e.cpu)
              /\ OrderAround(K, Parent(s.at))
              /\ FitsBelow(K, Parent(s.at), e.dl)
            BY <2>1, <2>3, PullParent DEF UpOK
        <3> HIDE DEF K
        <3>3. Same(H, K, e.cpu)
            BY <2>1, <3>2, SameTransitive DEF UpOK
        <3>4. K \in HeapType
            BY <3>2 DEF Hole
        <3>5. Parent(s.at) \in CPU /\ Parent(s.at) < s.at /\ s.at \in Nat
            BY <2>1, <2>3, ParentFacts
        <3>6. UpTurn(s, e) \in S
            BY <3>1, <3>2, <3>3, <3>4, <3>5, SMT DEF UpOK
        <3>7. UpTurn(s, e).at < s.at /\ UpTurn(s, e) # s
            BY <3>1, <3>5, ParentFacts, SMT
        <3> QED BY <3>6, <3>7
    <2> QED BY <2>2, <2>3
<1>4. Maps(G, S) /\ \A s \in S : G[s] = UpTurn(s, e)
    BY <1>3 DEF Maps
<1>5. Lowers(G, M, S) /\ \A s \in S : M[s] = s.at
    BY <1>3, ParentFacts DEF Lowers
<1> HIDE DEF S, x, G, M
<1>6. \E f : Eq(f)
    <2>1. PICK f : Turns(f, x, G, N) /\ Within(f, N, S)
        BY <1>1, <1>2, <1>4, TurnsExist
    <2>2. \A n \in 0..N : n # 0 => f[n - 1] \in S
        BY <1>1, <2>1, SMT DEF Within
    <2>3. f = [n \in 0..N |-> IF n = 0 THEN x ELSE UpTurn(f[n - 1], e)]
        BY <2>1, <2>2, <1>4 DEF Turns
    <2> QED BY <2>3
<1>7. Eq(turn)
    BY <1>6
<1> HIDE DEF turn
<1>8. \A n \in 0..N : turn[n] \in S
    <2>1. 0 \in 0..N /\ \A n \in 1..N : n \in 0..N /\ n # 0
        BY <1>1, SMT
    <2>2. turn[0] \in S
        BY <1>2, <1>7, <2>1
    <2>3. \A n \in 1..N : turn[n - 1] \in S => turn[n] \in S
        BY <1>3, <1>7, <2>1
    <2> QED BY <1>1, <2>2, <2>3, TurnsStay
<1>9. Within(turn, N, S)
    BY <1>7, <1>8 DEF Within
<1>10. Turns(turn, x, G, N)
    <2>1. \A n \in 0..N : n # 0 => n - 1 \in 0..N
        BY <1>1, SMT
    <2> QED BY <1>4, <1>7, <1>8, <2>1 DEF Turns
<1>11. M[x] <= N
    <2>1. M[x] = p
        BY <1>2, <1>5 DEF x
    <2> QED BY <2>1, <1>1, SMT DEF CPU
<1>14. G[turn[N]] = turn[N]
    BY <1>1, <1>4, <1>5, <1>9, <1>10, <1>11, TurnsRest, SMT
<1>15. turn[N] \in S /\ N \in 0..N
    BY <1>1, <1>8, SMT
<1>16. turn[N].at = 0 \/ Before(e.dl, turn[N].heap.slot[Parent(turn[N].at)].dl)
    BY <1>3, <1>4, <1>14, <1>15
<1>17. UpOK(H, turn[N], e) /\ turn[N].heap \in HeapType /\ turn[N].at \in CPU
    BY <1>15 DEF S
<1> DEFINE K == turn[N].heap
           q == turn[N].at
<1> HIDE DEF K, q
<1>18. /\ Hole(K, q, e.cpu) /\ OrderAround(K, q) /\ FitsBelow(K, q, e.dl)
       /\ Same(H, K, e.cpu)
    BY <1>17 DEF UpOK, K, q
<1>19. FitsAbove(K, q, e.dl)
    <2> SUFFICES ASSUME q # 0 PROVE NotLater(e.dl, K.slot[Parent(q)].dl)
        BY DEF FitsAbove
    <2>1. Before(e.dl, K.slot[Parent(q)].dl)
        BY <1>16 DEF K, q
    <2>2. q \in CPU /\ Parent(q) \in CPU /\ Parent(q) < q /\ q < K.size
        BY <1>18, ParentFacts DEF Hole
    <2>3. Parent(q) # q /\ Parent(q) < K.size
        <3>1. q \in Nat /\ Parent(q) \in Nat /\ K.size \in Nat
            BY <1>17, <2>2, ParentFacts, HeapFields DEF K
        <3> QED BY <2>2, <3>1, SMT
    <2>4. K.slot[Parent(q)].dl \in Deadlines
        BY <1>18, <2>2, <2>3 DEF Hole
    <2> QED BY <2>1, <2>4, NotLaterOrder, SMT
<1>20. PushUp(H, p, e) = Place(K, q, e)
    BY DEF PushUp, K, q, turn, x
<1>21. /\ Good(Place(K, q, e)) /\ Same(K, Place(K, q, e), e.cpu)
       /\ Entry(Place(K, q, e), e.cpu) = e.dl
    BY <1>18, <1>19, HoleFilled
<1>22. Same(H, Place(K, q, e), e.cpu)
    BY <1>18, <1>21, SameTransitive
<1> QED BY <1>20, <1>21, <1>22

\* cpudl_heapify_down: the loop comes to rest where the entry in hand fits, and
\* the heap is well formed.
LEMMA PushDownGood ==
    ASSUME NEW H, NEW p \in CPU, NEW e \in Item, e.dl \in Deadlines,
           Hole(H, p, e.cpu), OrderAround(H, p), FitsAbove(H, p, e.dl)
    PROVE  /\ Good(PushDown(H, p, e)) /\ Same(H, PushDown(H, p, e), e.cpu)
           /\ Entry(PushDown(H, p, e), e.cpu) = e.dl
<1> DEFINE S == {s \in [heap : HeapType, at : CPU] : DownOK(H, s, e)}
           x == [heap |-> H, at |-> p]
           G == [s \in S |-> DownTurn(s, e)]
           M == [s \in S |-> N - 1 - s.at]
           Eq(f) == f = [n \in 0..N |-> IF n = 0 THEN x ELSE DownTurn(f[n - 1], e)]
           turn == CHOOSE f : Eq(f)
<1>1. N \in Nat
    BY CpudlAssumption
<1>2. x \in S
    BY DEF DownOK, Same, Hole
<1>3. ASSUME NEW s \in S
      PROVE  /\ DownTurn(s, e) \in S
             /\ DownTurn(s, e) = s => FitsBelow(s.heap, s.at, e.dl)
             /\ DownTurn(s, e) = s \/ DownTurn(s, e).at > s.at
    <2> DEFINE q == Largest(s.heap, s.at, e)
    <2>1. /\ s \in [heap : HeapType, at : CPU] /\ DownOK(H, s, e)
          /\ s.at \in CPU
        BY <1>3
    <2>2. /\ q = s.at => FitsBelow(s.heap, s.at, e.dl)
          /\ q # s.at =>
                /\ Live(s.heap, q) /\ q > s.at /\ Parent(q) = s.at
                /\ Before(e.dl, s.heap.slot[q].dl)
                /\ FitsBelow(s.heap, s.at, s.heap.slot[q].dl)
        BY <2>1, LargestFacts DEF DownOK
    <2> HIDE DEF q
    <2>3. CASE q = s.at
        BY <2>2, <2>3, <1>3 DEF DownTurn, q
    <2>4. CASE q # s.at
        <3> DEFINE K == Place(s.heap, s.at, s.heap.slot[q])
        <3>1. DownTurn(s, e) = [heap |-> K, at |-> q]
            BY <2>4 DEF DownTurn, q
        <3>2. /\ Hole(K, q, e.cpu) /\ Same(s.heap, K, e.cpu)
              /\ OrderAround(K, q) /\ FitsAbove(K, q, e.dl)
            BY <2>1, <2>2, <2>4, PullChild DEF DownOK
        <3> HIDE DEF K
        <3>3. Same(H, K, e.cpu)
            BY <2>1, <3>2, SameTransitive DEF DownOK
        <3>4. K \in HeapType /\ q \in CPU
            BY <3>2 DEF Hole
        <3>5. DownTurn(s, e) \in S
            BY <3>1, <3>2, <3>3, <3>4, SMT DEF DownOK
        <3>6. DownTurn(s, e).at > s.at /\ DownTurn(s, e) # s
            BY <3>1, <2>2, <2>4, SMT
        <3> QED BY <3>5, <3>6
    <2> QED BY <2>3, <2>4
<1>4. Maps(G, S) /\ \A s \in S : G[s] = DownTurn(s, e)
    BY <1>3 DEF Maps
<1>5. Lowers(G, M, S) /\ \A s \in S : M[s] = N - 1 - s.at
    <2>1. \A s \in S : s.at \in Nat /\ N - 1 - s.at \in Nat
        <3>1. \A i \in CPU : i \in Nat /\ N - 1 - i \in Nat
            BY <1>1, SMT DEF CPU
        <3> QED BY <3>1
    <2>2. M \in [S -> Nat]
        BY <2>1
    <2>3. ASSUME NEW s \in S PROVE G[s] = s \/ M[G[s]] < M[s]
        <3>1. G[s] = s \/ G[s].at > s.at
            BY <1>3, <1>4
        <3>2. G[s] \in S
            BY <1>3, <1>4
        <3>3. M[s] = N - 1 - s.at /\ M[G[s]] = N - 1 - G[s].at
            BY <3>2
        <3>4. s.at \in Nat /\ G[s].at \in Nat
            BY <3>2, <2>1
        <3> QED BY <3>1, <3>3, <3>4, <1>1, SMT
    <2> QED BY <2>2, <2>3 DEF Lowers
<1> HIDE DEF S, x, G, M
<1>6. \E f : Eq(f)
    <2>1. PICK f : Turns(f, x, G, N) /\ Within(f, N, S)
        BY <1>1, <1>2, <1>4, TurnsExist
    <2>2. \A n \in 0..N : n # 0 => f[n - 1] \in S
        BY <1>1, <2>1, SMT DEF Within
    <2>3. f = [n \in 0..N |-> IF n = 0 THEN x ELSE DownTurn(f[n - 1], e)]
        BY <2>1, <2>2, <1>4 DEF Turns
    <2> QED BY <2>3
<1>7. Eq(turn)
    BY <1>6
<1> HIDE DEF turn
<1>8. \A n \in 0..N : turn[n] \in S
    <2>1. 0 \in 0..N /\ \A n \in 1..N : n \in 0..N /\ n # 0
        BY <1>1, SMT
    <2>2. turn[0] \in S
        BY <1>2, <1>7, <2>1
    <2>3. \A n \in 1..N : turn[n - 1] \in S => turn[n] \in S
        BY <1>3, <1>7, <2>1
    <2> QED BY <1>1, <2>2, <2>3, TurnsStay
<1>9. Within(turn, N, S)
    BY <1>7, <1>8 DEF Within
<1>10. Turns(turn, x, G, N)
    <2>1. \A n \in 0..N : n # 0 => n - 1 \in 0..N
        BY <1>1, SMT
    <2> QED BY <1>4, <1>7, <1>8, <2>1 DEF Turns
<1>11. M[x] <= N
    <2>1. M[x] = N - 1 - p
        BY <1>2, <1>5 DEF x
    <2> QED BY <2>1, <1>1, SMT DEF CPU
<1>14. G[turn[N]] = turn[N]
    BY <1>1, <1>4, <1>5, <1>9, <1>10, <1>11, TurnsRest, SMT
<1>15. turn[N] \in S /\ N \in 0..N
    BY <1>1, <1>8, SMT
<1>16. FitsBelow(turn[N].heap, turn[N].at, e.dl)
    BY <1>3, <1>4, <1>14, <1>15
<1>17. DownOK(H, turn[N], e) /\ turn[N].heap \in HeapType /\ turn[N].at \in CPU
    BY <1>15 DEF S
<1> DEFINE K == turn[N].heap
           q == turn[N].at
<1> HIDE DEF K, q
<1>18. /\ Hole(K, q, e.cpu) /\ OrderAround(K, q) /\ FitsAbove(K, q, e.dl)
       /\ Same(H, K, e.cpu)
    BY <1>17 DEF DownOK, K, q
<1>19. FitsBelow(K, q, e.dl)
    BY <1>16 DEF K, q
<1>20. PushDown(H, p, e) = Place(K, q, e)
    BY DEF PushDown, K, q, turn, x
<1>21. /\ Good(Place(K, q, e)) /\ Same(K, Place(K, q, e), e.cpu)
       /\ Entry(Place(K, q, e), e.cpu) = e.dl
    BY <1>18, <1>19, HoleFilled
<1>22. Same(H, Place(K, q, e), e.cpu)
    BY <1>18, <1>21, SameTransitive
<1> QED BY <1>20, <1>21, <1>22

-----------------------------------------------------------------------------
(* The operations on a heap.                                               *)

\* What a well-formed heap gives for each slot and each CPU.
LEMMA GoodFacts ==
    ASSUME NEW H, Good(H)
    PROVE  /\ H \in HeapType
           /\ \A i \in CPU : i < H.size =>
                 /\ H.slot[i].dl \in Deadlines /\ H.slot[i].cpu \in CPU
                 /\ H.idx[H.slot[i].cpu] = i
           /\ \A c \in CPU : H.idx[c] # IdxInvalid =>
                 /\ H.idx[c] \in CPU /\ H.idx[c] < H.size
                 /\ H.slot[H.idx[c]].cpu = c
           /\ \A i \in CPU : i < H.size /\ i # 0 =>
                 /\ Parent(i) \in CPU /\ Parent(i) < H.size /\ Parent(i) < i
                 /\ NotLater(H.slot[i].dl, H.slot[Parent(i)].dl)
<1>1. H \in HeapType /\ WellFormed(H)
    BY DEF Good
<1>2. H.size \in Nat
    BY <1>1, HeapFields
<1>3. \A i \in CPU : i \in Nat
    BY ParentFacts
<1>4. ASSUME NEW i \in CPU, i < H.size
      PROVE  H.slot[i].dl \in Deadlines /\ H.slot[i].cpu \in CPU
             /\ H.idx[H.slot[i].cpu] = i
    <2>1. i \in 0..(H.size - 1)
        BY <1>2, <1>3, <1>4, SMT
    <2> QED BY <1>1, <1>4, <2>1, HeapFields DEF Good, WellFormed
<1>5. ASSUME NEW i \in CPU, i < H.size, i # 0
      PROVE  /\ Parent(i) \in CPU /\ Parent(i) < H.size /\ Parent(i) < i
             /\ NotLater(H.slot[i].dl, H.slot[Parent(i)].dl)
    <2>1. i \in 1..(H.size - 1)
        BY <1>2, <1>3, <1>5, SMT
    <2>2. Parent(i) \in CPU /\ Parent(i) < i
        BY <1>5, ParentFacts
    <2>3. Parent(i) < H.size
        BY <1>2, <1>3, <1>5, <2>2, SMT
    <2> QED BY <1>1, <2>1, <2>2, <2>3 DEF WellFormed, NotLater
<1>6. \A c \in CPU : H.idx[c] # IdxInvalid =>
          /\ H.idx[c] \in CPU /\ H.idx[c] < H.size /\ H.slot[H.idx[c]].cpu = c
    BY <1>1, HeapFields DEF WellFormed
<1> QED BY <1>1, <1>4, <1>5, <1>6

\* Writing an entry where it already is changes nothing.
LEMMA PlaceSelf ==
    ASSUME NEW H \in HeapType, NEW p \in CPU, H.idx[H.slot[p].cpu] = p
    PROVE  Place(H, p, H.slot[p]) = H
BY HeapFields DEF Place, HeapType

\* Sifting the entry of slot p, everything else being in order, makes the heap
\* well formed and changes nothing else: cpudl_heapify_up.
LEMMA HeapifyUpGood ==
    ASSUME NEW H, NEW p \in CPU, H.slot[p] \in Item, H.slot[p].dl \in Deadlines,
           Hole(H, p, H.slot[p].cpu), H.idx[H.slot[p].cpu] = p,
           OrderAround(H, p), FitsBelow(H, p, H.slot[p].dl)
    PROVE  /\ Good(HeapifyUp(H, p)) /\ Same(H, HeapifyUp(H, p), H.slot[p].cpu)
           /\ Entry(HeapifyUp(H, p), H.slot[p].cpu) = H.slot[p].dl
<1> DEFINE e == H.slot[p]
<1>1. H \in HeapType
    BY DEF Hole
<1>2. CASE p = 0
    <2>1. HeapifyUp(H, p) = H
        BY <1>2 DEF HeapifyUp
    <2>2. Place(H, p, e) = H
        BY <1>1, PlaceSelf
    <2>3. FitsAbove(H, p, e.dl)
        BY <1>2 DEF FitsAbove
    <2> HIDE DEF e
    <2>4. /\ Good(Place(H, p, e)) /\ Same(H, Place(H, p, e), e.cpu)
          /\ Entry(Place(H, p, e), e.cpu) = e.dl
        BY <2>3, HoleFilled DEF e
    <2> QED BY <2>1, <2>2, <2>4 DEF e
<1>3. CASE p # 0
    <2>1. HeapifyUp(H, p) = PushUp(H, p, e)
        BY <1>3 DEF HeapifyUp
    <2>2. /\ Good(PushUp(H, p, e)) /\ Same(H, PushUp(H, p, e), e.cpu)
          /\ Entry(PushUp(H, p, e), e.cpu) = e.dl
        BY PushUpGood
    <2> QED BY <2>1, <2>2
<1> QED BY <1>2, <1>3

\* The same of cpudl_heapify, which chooses the direction.
LEMMA HeapifyGood ==
    ASSUME NEW H, NEW p \in CPU, H.slot[p] \in Item, H.slot[p].dl \in Deadlines,
           Hole(H, p, H.slot[p].cpu), H.idx[H.slot[p].cpu] = p,
           OrderAround(H, p)
    PROVE  /\ Good(Heapify(H, p)) /\ Same(H, Heapify(H, p), H.slot[p].cpu)
           /\ Entry(Heapify(H, p), H.slot[p].cpu) = H.slot[p].dl
<1> DEFINE e == H.slot[p]
           rise == p > 0 /\ Before(H.slot[Parent(p)].dl, e.dl)
<1>1. H \in HeapType /\ p \in Nat /\ H.size \in Nat /\ p < H.size
    BY ParentFacts, HeapFields DEF Hole
<1>2. CASE rise
    <2>1. Parent(p) \in CPU /\ Parent(p) < p /\ p # 0
        BY <1>1, <1>2, ParentFacts, SMT
    <2>2. H.slot[Parent(p)].dl \in Deadlines
        <3>1. Parent(p) \in Nat
            BY <2>1, ParentFacts
        <3>2. Parent(p) # p /\ Parent(p) < H.size
            BY <1>1, <2>1, <3>1, SMT
        <3> QED BY <2>1, <3>2 DEF Hole
    <2>3. FitsBelow(H, p, e.dl)
        <3> SUFFICES ASSUME NEW i \in CPU, i < H.size, i # 0, Parent(i) = p
                     PROVE  NotLater(H.slot[i].dl, e.dl)
            BY DEF FitsBelow
        <3>1. NotLater(H.slot[i].dl, H.slot[Parent(p)].dl)
            BY <2>1 DEF OrderAround
        <3>2. i # p
            BY ParentFacts, SMT
        <3>3. H.slot[i].dl \in Deadlines
            BY <3>2 DEF Hole
        <3>4. NotLater(H.slot[Parent(p)].dl, e.dl)
            BY <1>2, <2>2, NotLaterOrder, SMT
        <3> QED BY <3>1, <3>3, <3>4, <2>2, NotLaterOrder, SMT
    <2>4. Heapify(H, p) = HeapifyUp(H, p)
        BY <1>2 DEF Heapify
    <2> QED BY <2>3, <2>4, HeapifyUpGood
<1>3. CASE ~rise
    <2>1. FitsAbove(H, p, e.dl)
        BY <1>1, <1>3, SMT DEF FitsAbove, NotLater
    <2>2. Heapify(H, p) = HeapifyDown(H, p)
        BY <1>3 DEF Heapify
    <2>3. CASE Left(p) >= H.size
        <3>1. HeapifyDown(H, p) = H
            BY <2>3 DEF HeapifyDown
        <3>2. Place(H, p, e) = H
            BY <1>1, PlaceSelf
        <3>3. FitsBelow(H, p, e.dl)
            <4> SUFFICES ASSUME NEW i \in CPU, i < H.size, i # 0, Parent(i) = p
                         PROVE  FALSE
                BY DEF FitsBelow
            <4>1. i = 2 * p + 1 \/ i = 2 * p + 2
                BY ParentFacts DEF Left, Right
            <4>2. i \in Nat /\ 2 * p + 1 >= H.size
                BY <2>3, ParentFacts DEF Left
            <4> QED BY <4>1, <4>2, <1>1, SMT
        <3> HIDE DEF e
        <3>4. /\ Good(Place(H, p, e)) /\ Same(H, Place(H, p, e), e.cpu)
              /\ Entry(Place(H, p, e), e.cpu) = e.dl
            BY <2>1, <3>3, HoleFilled DEF e
        <3> QED BY <2>2, <3>1, <3>2, <3>4 DEF e
    <2>4. CASE ~(Left(p) >= H.size)
        <3>1. HeapifyDown(H, p) = PushDown(H, p, e)
            BY <2>4 DEF HeapifyDown
        <3>2. /\ Good(PushDown(H, p, e)) /\ Same(H, PushDown(H, p, e), e.cpu)
              /\ Entry(PushDown(H, p, e), e.cpu) = e.dl
            BY <2>1, PushDownGood
        <3> QED BY <2>2, <3>1, <3>2
    <2> QED BY <2>3, <2>4
<1> QED BY <1>2, <1>3

\* While a CPU is not in the heap the array has room for it.
LEMMA RoomForCpu ==
    ASSUME NEW H, Good(H), NEW own \in CPU, H.idx[own] = IdxInvalid
    PROVE  H.size < N
<1>1. H \in HeapType /\ N \in Nat /\ H.size \in Nat /\ H.size <= N
    BY HeapFields, CpudlAssumption DEF Good
<1>2. SUFFICES ASSUME H.size = N PROVE FALSE
    BY <1>1, SMT
<1> DEFINE T == CPU \ {own}
           f == [i \in CPU |-> H.slot[i].cpu]
<1>3. \A i \in CPU : i < H.size
    BY <1>1, <1>2, SMT DEF CPU
<1>4. \A i \in CPU : H.slot[i].cpu \in T /\ H.idx[H.slot[i].cpu] = i
    BY <1>3, GoodFacts, ParentFacts, SMT
<1>5. IsFiniteSet(CPU) /\ Cardinality(CPU) \in Nat
    BY <1>1, FS_Interval, FS_CardinalityType, SMT DEF CPU
<1>6. IsFiniteSet(T) /\ Cardinality(T) = Cardinality(CPU) - 1
    BY <1>5, FS_RemoveElement
<1>7. f \in [CPU -> T]
    BY <1>4
<1>8. \E i, j \in CPU : i # j /\ f[i] = f[j]
    <2> HIDE DEF f, T
    <2>1. Cardinality(T) < Cardinality(CPU)
        BY <1>5, <1>6, SMT
    <2> QED BY <1>5, <1>6, <1>7, <2>1, FS_PigeonHole
<1> QED BY <1>4, <1>8

\* A heap with another mask of free CPUs.
WithFree(H, F) == [H EXCEPT !.free = F]

\* The mask of free CPUs is independent of the heap.
LEMMA FreeIsSeparate ==
    ASSUME NEW H, Good(H), NEW F \in SUBSET CPU
    PROVE  /\ Good(WithFree(H, F)) /\ WithFree(H, F).free = F
           /\ \A c \in CPU : Entry(WithFree(H, F), c) = Entry(H, c)
<1> DEFINE K == WithFree(H, F)
<1>1. H \in HeapType
    BY DEF Good
<1>2. /\ K \in HeapType /\ K.slot = H.slot /\ K.idx = H.idx
      /\ K.size = H.size /\ K.free = F
    BY <1>1 DEF WithFree, HeapType
<1> HIDE DEF K
<1>3. WellFormed(K)
    BY <1>2 DEF Good, WellFormed
<1>4. Good(K)
    BY <1>2, <1>3 DEF Good
<1>5. \A c \in CPU : Entry(K, c) = Entry(H, c)
    BY <1>2 DEF Entry
<1> QED BY <1>2, <1>4, <1>5 DEF K

\* K is H with one CPU recorded differently.
Updated(H, K, own, dl) ==
    /\ Good(K) /\ Entry(K, own) = dl
    /\ \A c \in CPU : c # own => Entry(K, c) = Entry(H, c)

\* cpudl_set of a CPU that is not in the heap.
LEMMA SetEnters ==
    ASSUME NEW H, Good(H), NEW own \in CPU, NEW dl \in Deadlines,
           H.idx[own] = IdxInvalid
    PROVE  /\ Updated(H, Set(H, own, dl), own, dl)
           /\ Set(H, own, dl).free = H.free \ {own}
<1> DEFINE n == H.size
           e == [cpu |-> own, dl |-> dl]
           B == [H EXCEPT !.size = @ + 1]
           G == Place(B, n, e)
<1>1. H \in HeapType /\ n \in Nat /\ n < N /\ N \in Nat /\ n \in CPU
    <2>1. H \in HeapType /\ n \in Nat /\ N \in Nat
        BY HeapFields, CpudlAssumption DEF Good
    <2> QED BY <2>1, RoomForCpu, SMT DEF CPU
<1>2. e \in Item /\ e.cpu = own /\ e.dl = dl
    BY DEF Item
<1>3. /\ B \in HeapType /\ B.slot = H.slot /\ B.idx = H.idx
      /\ B.free = H.free /\ B.size = n + 1
    BY <1>1, SMT DEF HeapType
<1> HIDE DEF e, B, n
<1>4. Written(B, G, n, e)
    BY <1>1, <1>2, <1>3, PlaceFields
<1> HIDE DEF G
<1>5. /\ G \in HeapType /\ G.size = n + 1 /\ G.free = H.free
      /\ \A j \in CPU : G.slot[j] = IF j = n THEN e ELSE H.slot[j]
      /\ \A c \in CPU : G.idx[c] = IF c = own THEN n ELSE H.idx[c]
    BY <1>2, <1>3, <1>4 DEF Written
<1>6. \A i \in CPU : i < G.size /\ i # n => i < H.size
    BY <1>1, <1>5, ParentFacts, SMT DEF n
<1>7. /\ \A i \in CPU : i < H.size => i # n
      /\ n # IdxInvalid /\ n < G.size
    BY <1>1, <1>5, ParentFacts, SMT DEF n
<1>8. \A c \in CPU : c # own /\ G.idx[c] # IdxInvalid =>
          /\ G.idx[c] = H.idx[c] /\ H.idx[c] \in CPU /\ H.idx[c] # n
          /\ H.slot[H.idx[c]].cpu = c /\ H.idx[c] < G.size
    <2> SUFFICES ASSUME NEW c \in CPU, c # own, G.idx[c] # IdxInvalid
                 PROVE  /\ G.idx[c] = H.idx[c] /\ H.idx[c] \in CPU
                        /\ H.idx[c] # n
                        /\ H.slot[H.idx[c]].cpu = c /\ H.idx[c] < G.size
        OBVIOUS
    <2>1. G.idx[c] = H.idx[c] /\ H.idx[c] \in CPU /\ H.idx[c] < H.size
          /\ H.slot[H.idx[c]].cpu = c
        BY <1>5, GoodFacts
    <2>2. H.idx[c] \in Nat
        BY <2>1, ParentFacts
    <2>3. H.idx[c] < G.size
        BY <2>1, <2>2, <1>1, <1>5, SMT DEF n
    <2> QED BY <2>1, <2>3, <1>7
<1>9. Hole(G, n, own)
    <2>1. ASSUME NEW i \in CPU, i < G.size, i # n
          PROVE  /\ G.slot[i].dl \in Deadlines /\ G.slot[i].cpu # own
                 /\ G.idx[G.slot[i].cpu] = i
        <3>1. /\ H.slot[i].dl \in Deadlines /\ H.slot[i].cpu \in CPU
              /\ H.idx[H.slot[i].cpu] = i /\ G.slot[i] = H.slot[i]
            BY <2>1, <1>5, <1>6, GoodFacts
        <3>2. H.slot[i].cpu # own
            BY <3>1, ParentFacts
        <3> QED BY <3>1, <3>2, <1>5
    <2>2. \A c \in CPU : c # own /\ G.idx[c] # IdxInvalid =>
              /\ G.idx[c] < G.size /\ G.idx[c] # n
              /\ G.slot[G.idx[c]].cpu = c
        BY <1>5, <1>8, SMT
    <2> QED BY <1>1, <1>5, <1>7, <2>1, <2>2 DEF Hole
<1>10. \A i \in CPU : i < G.size /\ i # 0 => Parent(i) # n
    <2> SUFFICES ASSUME NEW i \in CPU, i < n + 1, i # 0 PROVE Parent(i) # n
        BY <1>5
    <2>1. Parent(i) < i /\ Parent(i) \in Nat /\ i \in Nat
        BY ParentFacts
    <2> QED BY <2>1, <1>1, SMT
<1>11. OrderAround(G, n)
    <2> SUFFICES ASSUME NEW i \in CPU, i < G.size, i # 0, i # n
                 PROVE  NotLater(G.slot[i].dl, G.slot[Parent(i)].dl)
        BY <1>10 DEF OrderAround
    <2>1. i < H.size
        BY <1>6
    <2>2. Parent(i) \in CPU /\ Parent(i) # n
          /\ NotLater(H.slot[i].dl, H.slot[Parent(i)].dl)
        BY <2>1, <1>10, GoodFacts
    <2> QED BY <2>2, <1>5
<1>12. FitsBelow(G, n, dl)
    BY <1>10 DEF FitsBelow
<1> DEFINE K == HeapifyUp(G, n)
<1>13. /\ G.slot[n] = e /\ G.slot[n] \in Item /\ G.slot[n].dl = dl
       /\ G.slot[n].cpu = own /\ G.idx[own] = n
    BY <1>1, <1>2, <1>5
<1>14. Good(K) /\ Same(G, K, own) /\ Entry(K, own) = dl
    BY <1>1, <1>9, <1>11, <1>12, <1>13, HeapifyUpGood
<1> HIDE DEF K
<1>15. \A c \in CPU : c # own => Entry(K, c) = Entry(H, c)
    <2> SUFFICES ASSUME NEW c \in CPU, c # own
                 PROVE  Entry(G, c) = Entry(H, c)
        BY <1>14 DEF Same
    <2> QED BY <1>5, <1>8, SMT DEF Entry
<1>16. K.free = H.free /\ K.free \ {own} \in SUBSET CPU
    BY <1>1, <1>5, <1>14, HeapFields DEF Same
<1>17. Set(H, own, dl) = WithFree(K, K.free \ {own})
    BY <1>3 DEF Set, WithFree, K, G, B, e, n
<1>18. /\ Good(WithFree(K, K.free \ {own}))
       /\ WithFree(K, K.free \ {own}).free = K.free \ {own}
       /\ \A c \in CPU : Entry(WithFree(K, K.free \ {own}), c) = Entry(K, c)
    BY <1>14, <1>16, FreeIsSeparate
<1> QED BY <1>14, <1>15, <1>16, <1>17, <1>18 DEF Updated

\* Around any live slot of a well-formed heap the order holds without it.
LEMMA GoodAround ==
    ASSUME NEW H, Good(H), NEW p \in CPU, p < H.size
    PROVE  OrderAround(H, p)
<1> SUFFICES ASSUME NEW i \in CPU, i < H.size, i # 0, Parent(i) = p, p # 0
             PROVE  NotLater(H.slot[i].dl, H.slot[Parent(p)].dl)
    BY GoodFacts DEF OrderAround
<1>1. NotLater(H.slot[i].dl, H.slot[p].dl)
    BY GoodFacts
<1>2. Parent(p) \in CPU /\ Parent(p) < H.size
      /\ NotLater(H.slot[p].dl, H.slot[Parent(p)].dl)
    BY GoodFacts
<1>3. /\ H.slot[i].dl \in Deadlines /\ H.slot[p].dl \in Deadlines
      /\ H.slot[Parent(p)].dl \in Deadlines
    BY <1>2, GoodFacts
<1> QED BY <1>1, <1>2, <1>3, NotLaterOrder, SMT

\* cpudl_set of a CPU that is in the heap.
LEMMA SetMoves ==
    ASSUME NEW H, Good(H), NEW own \in CPU, NEW dl \in Deadlines,
           H.idx[own] # IdxInvalid
    PROVE  /\ Updated(H, Set(H, own, dl), own, dl)
           /\ Set(H, own, dl).free = H.free
<1> DEFINE p == H.idx[own]
           G == [H EXCEPT !.slot[p].dl = dl]
<1>1. /\ H \in HeapType /\ p \in CPU /\ p < H.size /\ H.slot[p].cpu = own
      /\ p # IdxInvalid
    BY GoodFacts
<1>2. /\ G \in HeapType /\ G.size = H.size /\ G.free = H.free /\ G.idx = H.idx
      /\ \A j \in CPU : j # p => G.slot[j] = H.slot[j]
      /\ G.slot[p] \in Item /\ G.slot[p].dl = dl /\ G.slot[p].cpu = own
    BY <1>1, SMT DEF HeapType, Item
<1>3. Set(H, own, dl) = Heapify(G, p)
    BY DEF Set
<1> HIDE DEF G, p
<1>4. H.idx[own] = p
    BY DEF p
<1>5. Hole(G, p, own)
    <2>1. ASSUME NEW i \in CPU, i < G.size, i # p
          PROVE  /\ G.slot[i].dl \in Deadlines /\ G.slot[i].cpu # own
                 /\ G.idx[G.slot[i].cpu] = i
        BY <2>1, <1>2, <1>4, GoodFacts, SMT
    <2>2. ASSUME NEW c \in CPU, c # own, G.idx[c] # IdxInvalid
          PROVE  /\ G.idx[c] < G.size /\ G.idx[c] # p
                 /\ G.slot[G.idx[c]].cpu = c
        <3>1. /\ H.idx[c] \in CPU /\ H.idx[c] < H.size
              /\ H.slot[H.idx[c]].cpu = c
            BY <2>2, <1>2, GoodFacts, SMT
        <3> QED BY <3>1, <2>2, <1>1, <1>2
    <2> QED BY <1>1, <1>2, <2>1, <2>2 DEF Hole
<1>6. OrderAround(G, p)
    <2>1. OrderAround(H, p)
        BY <1>1, GoodAround
    <2>2. \A i \in CPU : i # 0 => Parent(i) \in CPU /\ Parent(i) # i
        BY ParentFacts, SMT
    <2> QED BY <1>1, <1>2, <2>1, <2>2, SMT DEF OrderAround
<1> DEFINE K == Heapify(G, p)
<1>7. G.idx[G.slot[p].cpu] = p
    BY <1>2, <1>4
<1>8. Good(K) /\ Same(G, K, own) /\ Entry(K, own) = dl
    BY <1>1, <1>2, <1>5, <1>6, <1>7, HeapifyGood
<1> HIDE DEF K
<1>9. \A c \in CPU : c # own => Entry(K, c) = Entry(H, c)
    <2> SUFFICES ASSUME NEW c \in CPU, c # own
                 PROVE  Entry(G, c) = Entry(H, c)
        BY <1>8 DEF Same
    <2>1. H.idx[c] # IdxInvalid => H.idx[c] \in CPU /\ H.idx[c] # p
        BY <1>1, GoodFacts, SMT
    <2> QED BY <2>1, <1>2 DEF Entry
<1>10. K.free = H.free
    BY <1>2, <1>8 DEF Same
<1> QED BY <1>3, <1>8, <1>9, <1>10 DEF Updated, K

\* cpudl_set keeps a heap well formed, records the deadline, and changes
\* nothing that is recorded of other CPUs; a CPU that enters leaves the mask.
LEMMA SetUpdates ==
    ASSUME NEW H, Good(H), NEW own \in CPU, NEW dl \in Deadlines
    PROVE  /\ Updated(H, Set(H, own, dl), own, dl)
           /\ Set(H, own, dl).free
                = IF Entry(H, own) = NoDeadline THEN H.free \ {own} ELSE H.free
<1>1. Entry(H, own) = NoDeadline <=> H.idx[own] = IdxInvalid
    <2>1. H.idx[own] # IdxInvalid => H.slot[H.idx[own]].dl \in Deadlines
        BY GoodFacts
    <2>2. NoDeadline \notin Deadlines
        BY CpudlAssumption, SMT DEF NoDeadline
    <2> QED BY <2>1, <2>2 DEF Entry
<1>2. CASE H.idx[own] = IdxInvalid
    BY <1>1, <1>2, SetEnters
<1>3. CASE H.idx[own] # IdxInvalid
    BY <1>1, <1>3, SetMoves
<1> QED BY <1>2, <1>3

\* What cpudl_clear leaves past the heap does not matter.
LEMMA ForgetIsSeparate ==
    ASSUME NEW H, Good(H)
    PROVE  /\ Good(Forget(H)) /\ Forget(H).free = H.free
           /\ \A c \in CPU : Entry(Forget(H), c) = Entry(H, c)
<1> DEFINE K == Forget(H)
<1>1. H \in HeapType
    BY DEF Good
<1>2. Zero \in Item
    BY ParentFacts DEF Zero, Item
<1>3. /\ K \in HeapType /\ K.idx = H.idx /\ K.size = H.size /\ K.free = H.free
      /\ \A i \in CPU : K.slot[i] = IF i > 0 /\ i >= H.size THEN Zero
                                    ELSE H.slot[i]
    BY <1>1, <1>2 DEF Forget, HeapType
<1> HIDE DEF K
<1>4. \A i \in CPU : i < H.size => K.slot[i] = H.slot[i]
    <2>1. H.size \in Nat /\ \A i \in CPU : i \in Nat
        BY <1>1, HeapFields, ParentFacts
    <2> QED BY <1>3, <2>1, SMT
<1>5. WellFormed(K)
    <2>1. H.size \in Nat /\ H.size <= N
        BY <1>1, HeapFields
    <2>2. \A i \in 0..(H.size - 1) : i \in CPU /\ i < H.size
        BY <2>1, CpudlAssumption, SMT DEF CPU
    <2>3. \A i \in 1..(H.size - 1) : i \in CPU /\ i < H.size /\ i # 0
        BY <2>1, CpudlAssumption, SMT DEF CPU
    <2>4. \A i \in 0..(K.size - 1) : K.idx[K.slot[i].cpu] = i
        BY <2>2, <1>3, <1>4, GoodFacts, SMT
    <2>5. \A i \in 1..(K.size - 1) :
              ~Before(K.slot[Parent(i)].dl, K.slot[i].dl)
        BY <2>3, <1>3, <1>4, GoodFacts DEF NotLater
    <2>6. \A c \in CPU : K.idx[c] # IdxInvalid
                           => K.idx[c] < K.size /\ K.slot[K.idx[c]].cpu = c
        BY <1>3, <1>4, GoodFacts, SMT
    <2> QED BY <2>4, <2>5, <2>6 DEF WellFormed
<1>6. Good(K)
    BY <1>3, <1>4, <1>5, GoodFacts DEF Good
<1>7. \A c \in CPU : Entry(K, c) = Entry(H, c)
    BY <1>3, <1>4, GoodFacts DEF Entry
<1> QED BY <1>3, <1>6, <1>7 DEF K

\* The last live slot.
Last(H, n) == n \in CPU /\ n = H.size - 1

\* G is H without the entry of a CPU: the entry of slot n, the last, is in
\* slot p, where the CPU's was.
Removed(H, G, own, p, n) ==
    /\ G \in HeapType /\ G.size = n /\ G.free = H.free /\ p = H.idx[own]
    /\ \A i \in CPU : G.slot[i] = IF i = p THEN H.slot[n] ELSE H.slot[i]
    /\ G.idx[own] = IdxInvalid
    /\ \A c \in CPU : c # own =>
          G.idx[c] = IF c = H.slot[n].cpu THEN p ELSE H.idx[c]

\* Clearing the CPU of the last slot: the slot that is heapified is already
\* out of the heap, and nothing is moved.
LEMMA ClearLast ==
    ASSUME NEW H, Good(H), NEW own \in CPU, H.idx[own] # IdxInvalid,
           NEW G, NEW p, Last(H, p), Removed(H, G, own, p, p)
    PROVE  /\ Updated(H, Heapify(G, p), own, NoDeadline)
           /\ Heapify(G, p).free = H.free
<1>1. /\ H \in HeapType /\ p \in CPU /\ p \in Nat /\ H.size \in Nat
      /\ H.size <= N /\ p < H.size /\ H.slot[p].cpu = own
    <2>1. H \in HeapType /\ H.idx[own] \in CPU /\ H.idx[own] < H.size
          /\ H.slot[H.idx[own]].cpu = own
        BY GoodFacts
    <2>2. H.size \in Nat /\ H.size <= N /\ H.idx[own] \in Nat
        BY <2>1, HeapFields, ParentFacts
    <2> QED BY <2>1, <2>2 DEF Removed
<1>15. /\ G \in HeapType /\ G.size = p /\ G.free = H.free /\ p = H.idx[own]
       /\ \A i \in CPU : G.slot[i] = H.slot[i]
       /\ G.idx[own] = IdxInvalid
       /\ \A c \in CPU : c # own => G.idx[c] = H.idx[c]
    BY <1>1 DEF Removed
<1>2. ~(p > 0 /\ Before(G.slot[Parent(p)].dl, G.slot[p].dl))
    <2> SUFFICES ASSUME p # 0
                 PROVE  ~Before(G.slot[Parent(p)].dl, G.slot[p].dl)
        BY <1>1, SMT
    <2>1. Parent(p) \in CPU /\ NotLater(H.slot[p].dl, H.slot[Parent(p)].dl)
        BY <1>1, GoodFacts
    <2> QED BY <2>1, <1>1, <1>15 DEF NotLater
<1>3. Left(p) >= G.size
    BY <1>1, <1>15, SMT DEF Left
<1>4. Heapify(G, p) = G
    BY <1>2, <1>3 DEF Heapify, HeapifyDown
<1>5. \A i \in CPU : i < G.size => i < H.size /\ i # p
    <2>1. \A i \in CPU : i \in Nat
        BY ParentFacts
    <2> QED BY <1>1, <1>15, <2>1, SMT
<1>16. p = H.size - 1
    BY DEF Last
<1>6. \A i \in CPU : i < G.size =>
          G.slot[i].dl \in Deadlines /\ G.idx[G.slot[i].cpu] = i
    <2> SUFFICES ASSUME NEW i \in CPU, i < G.size
                 PROVE  G.slot[i].dl \in Deadlines /\ G.idx[G.slot[i].cpu] = i
        OBVIOUS
    <2>1. /\ H.slot[i].dl \in Deadlines /\ H.slot[i].cpu \in CPU
          /\ H.idx[H.slot[i].cpu] = i /\ i # p
        BY <1>5, <1>15, GoodFacts
    <2> QED BY <2>1, <1>15
<1>7. \A c \in CPU : G.idx[c] # IdxInvalid =>
          G.idx[c] < G.size /\ G.slot[G.idx[c]].cpu = c
    <2> SUFFICES ASSUME NEW c \in CPU, G.idx[c] # IdxInvalid
                 PROVE  G.idx[c] < G.size /\ G.slot[G.idx[c]].cpu = c
        OBVIOUS
    <2>1. /\ c # own /\ G.idx[c] = H.idx[c] /\ H.idx[c] \in CPU
          /\ H.idx[c] < H.size /\ H.slot[H.idx[c]].cpu = c
        BY <1>15, GoodFacts
    <2>2. H.idx[c] # p /\ H.idx[c] \in Nat
        BY <2>1, <1>1, ParentFacts
    <2> QED BY <2>1, <2>2, <1>1, <1>15, <1>16, SMT
<1>8. WellFormed(G)
    <2>1. \A i \in 0..(G.size - 1) : i \in CPU /\ i < G.size
        BY <1>1, <1>15, CpudlAssumption, SMT DEF CPU
    <2>2. \A i \in 1..(G.size - 1) : i \in CPU /\ i < H.size /\ i # 0
        BY <1>1, <1>15, CpudlAssumption, SMT DEF CPU
    <2>3. \A i \in 0..(G.size - 1) : G.idx[G.slot[i].cpu] = i
        BY <2>1, <1>6
    <2>4. \A i \in 1..(G.size - 1) :
              ~Before(G.slot[Parent(i)].dl, G.slot[i].dl)
        BY <2>2, <1>15, GoodFacts DEF NotLater
    <2> QED BY <2>3, <2>4, <1>7 DEF WellFormed
<1>9. Good(G)
    BY <1>15, <1>6, <1>8 DEF Good
<1>10. Entry(G, own) = NoDeadline
    BY <1>15 DEF Entry
<1>11. \A c \in CPU : c # own => Entry(G, c) = Entry(H, c)
    BY <1>15, GoodFacts, SMT DEF Entry
<1> QED BY <1>15, <1>4, <1>9, <1>10, <1>11 DEF Updated

\* Clearing another CPU: the last entry takes its slot and is sifted.
LEMMA ClearInner ==
    ASSUME NEW H, Good(H), NEW own \in CPU, H.idx[own] # IdxInvalid,
           NEW G, NEW p, NEW n, p # n, Last(H, n), Removed(H, G, own, p, n)
    PROVE  /\ Updated(H, Heapify(G, p), own, NoDeadline)
           /\ Heapify(G, p).free = H.free
<1>15. /\ G \in HeapType /\ G.size = n /\ G.free = H.free /\ p = H.idx[own]
       /\ \A i \in CPU : G.slot[i] = IF i = p THEN H.slot[n] ELSE H.slot[i]
       /\ G.idx[own] = IdxInvalid
       /\ \A c \in CPU : c # own =>
             G.idx[c] = IF c = H.slot[n].cpu THEN p ELSE H.idx[c]
    BY DEF Removed
<1> DEFINE e == H.slot[n]
<1>1. /\ H \in HeapType /\ p \in CPU /\ p \in Nat /\ n \in Nat /\ n \in CPU
      /\ H.size \in Nat
      /\ p < H.size /\ H.slot[p].cpu = own /\ n < H.size /\ p < n
      /\ p # IdxInvalid /\ n # IdxInvalid
    <2>1. /\ H \in HeapType /\ p \in CPU /\ p < H.size /\ H.slot[p].cpu = own
        BY <1>15, GoodFacts
    <2>2. /\ p \in Nat /\ n \in Nat /\ H.size \in Nat /\ n \in CPU
          /\ p # IdxInvalid /\ n # IdxInvalid
        BY <2>1, HeapFields, ParentFacts DEF Last
    <2> QED BY <2>1, <2>2, SMT DEF Last
<1>2. /\ e \in Item /\ e.dl \in Deadlines /\ e.cpu \in CPU /\ H.idx[e.cpu] = n
      /\ e.cpu # own
    <2>1. e \in Item
        BY <1>1, HeapFields
    <2>2. e.dl \in Deadlines /\ e.cpu \in CPU /\ H.idx[e.cpu] = n
        BY <1>1, GoodFacts
    <2> QED BY <2>1, <2>2, <1>15
<1>3. \A i \in CPU : i < G.size => i < H.size /\ i # n
    BY <1>15, <1>1, ParentFacts, SMT
<1>16. n = H.size - 1
    BY DEF Last
<1>4. ASSUME NEW i \in CPU, i < G.size, i # p
      PROVE  /\ G.slot[i].dl \in Deadlines /\ G.slot[i].cpu # e.cpu
             /\ G.idx[G.slot[i].cpu] = i
    <2>1. /\ H.slot[i].dl \in Deadlines /\ H.slot[i].cpu \in CPU
          /\ H.idx[H.slot[i].cpu] = i /\ i # n /\ G.slot[i] = H.slot[i]
        BY <1>15, <1>3, <1>4, GoodFacts
    <2>2. H.slot[i].cpu # own /\ H.slot[i].cpu # e.cpu
        BY <2>1, <1>15, <1>2, <1>4
    <2> QED BY <2>1, <2>2, <1>15
<1>5. ASSUME NEW c \in CPU, c # e.cpu, G.idx[c] # IdxInvalid
      PROVE  /\ G.idx[c] < G.size /\ G.idx[c] # p /\ G.slot[G.idx[c]].cpu = c
             /\ G.idx[c] = H.idx[c] /\ G.slot[G.idx[c]] = H.slot[G.idx[c]]
    <2>1. c # own /\ G.idx[c] = H.idx[c]
        BY <1>15, <1>5
    <2>2. /\ H.idx[c] \in CPU /\ H.idx[c] < H.size /\ H.slot[H.idx[c]].cpu = c
        BY <2>1, <1>5, GoodFacts
    <2>3. H.idx[c] # p /\ H.idx[c] # n /\ H.idx[c] \in Nat
        BY <2>1, <2>2, <1>15, <1>1, <1>5, GoodFacts, ParentFacts
    <2>4. H.idx[c] < G.size
        BY <2>2, <2>3, <1>15, <1>1, <1>16, SMT
    <2> QED BY <2>1, <2>2, <2>3, <2>4, <1>15
<1>6. p < G.size
    BY <1>15, <1>1
<1>7. Hole(G, p, e.cpu)
    BY <1>15, <1>1, <1>4, <1>5, <1>6 DEF Hole
<1>8. OrderAround(G, p)
    <2>1. OrderAround(H, p)
        BY <1>1, GoodAround
    <2>2. \A i \in CPU : i # 0 => Parent(i) \in CPU /\ Parent(i) # i
        BY ParentFacts, SMT
    <2> QED BY <1>15, <1>3, <2>1, <2>2, SMT DEF OrderAround
<1> DEFINE K == Heapify(G, p)
<1>9. /\ G.slot[p] = e /\ G.slot[p] \in Item /\ G.slot[p].dl \in Deadlines
      /\ G.idx[G.slot[p].cpu] = p
    BY <1>15, <1>1, <1>2
<1>10. Good(K) /\ Same(G, K, e.cpu) /\ Entry(K, e.cpu) = e.dl
    BY <1>1, <1>7, <1>8, <1>9, HeapifyGood
<1> HIDE DEF K
<1>11. Entry(K, own) = NoDeadline
    <2>1. Entry(G, own) = NoDeadline
        BY <1>15 DEF Entry
    <2> QED BY <2>1, <1>2, <1>10 DEF Same
<1>12. ASSUME NEW c \in CPU, c # own
       PROVE  Entry(K, c) = Entry(H, c)
    <2>1. CASE c = e.cpu
        BY <2>1, <1>1, <1>2, <1>10 DEF Entry
    <2>2. CASE c # e.cpu
        <3>1. Entry(K, c) = Entry(G, c)
            BY <2>2, <1>10 DEF Same
        <3>2. G.idx[c] = H.idx[c]
            BY <2>2, <1>15, <1>12
        <3> QED BY <3>1, <3>2, <2>2, <1>5 DEF Entry
    <2> QED BY <2>1, <2>2
<1>13. K.free = H.free
    BY <1>15, <1>10 DEF Same
<1> QED BY <1>10, <1>11, <1>12, <1>13 DEF Updated, K

\* cpudl_clear keeps a heap well formed, forgets the CPU, and changes nothing
\* that is recorded of other CPUs; a CPU that leaves joins the mask.
LEMMA ClearUpdates ==
    ASSUME NEW H, Good(H), NEW own \in CPU
    PROVE  /\ Updated(H, Clear(H, own), own, NoDeadline)
           /\ Clear(H, own).free
                = IF Entry(H, own) = NoDeadline THEN H.free
                  ELSE H.free \cup {own}
<1>1. Entry(H, own) = NoDeadline <=> H.idx[own] = IdxInvalid
    <2>1. H.idx[own] # IdxInvalid => H.slot[H.idx[own]].dl \in Deadlines
        BY GoodFacts
    <2>2. NoDeadline \notin Deadlines
        BY CpudlAssumption, SMT DEF NoDeadline
    <2> QED BY <2>1, <2>2 DEF Entry
<1>2. CASE H.idx[own] = IdxInvalid
    <2>1. Clear(H, own) = H
        BY <1>2 DEF Clear
    <2> QED BY <2>1, <1>1, <1>2 DEF Updated
<1>3. CASE H.idx[own] # IdxInvalid
    <2> DEFINE p == H.idx[own]
               n == H.size - 1
               P == Place(H, p, H.slot[n])
               G == [P EXCEPT !.size = @ - 1, !.idx[own] = IdxInvalid]
               K == Heapify(G, p)
               F == K.free \cup {own}
    <2>1. /\ H \in HeapType /\ p \in CPU /\ p < H.size /\ p \in Nat
          /\ H.slot[p].cpu = own
        BY <1>3, GoodFacts, ParentFacts
    <2>2. H.size \in Nat /\ H.size <= N /\ n \in CPU /\ n \in Nat /\ n < H.size
        <3>1. H.size \in Nat /\ H.size <= N
            BY <2>1, HeapFields
        <3> QED BY <2>1, <3>1, CpudlAssumption, SMT DEF CPU
    <2>3. H.slot[n] \in Item /\ H.slot[n].cpu \in CPU
        BY <2>1, <2>2, HeapFields
    <2>4. Written(H, P, p, H.slot[n])
        BY <2>1, <2>3, PlaceFields
    <2> HIDE DEF p, n, P
    <2>5. /\ P \in HeapType /\ P.size = H.size /\ P.free = H.free
          /\ \A i \in CPU : P.slot[i] = IF i = p THEN H.slot[n] ELSE H.slot[i]
          /\ \A c \in CPU : P.idx[c] = IF c = H.slot[n].cpu THEN p ELSE H.idx[c]
        BY <2>4 DEF Written
    <2>6. n = H.size - 1 /\ n \in 0..N
        BY <2>2, CpudlAssumption, SMT DEF n
    <2>7. /\ G \in HeapType /\ G.size = n /\ G.free = H.free /\ G.slot = P.slot
          /\ \A c \in CPU : G.idx[c] = IF c = own THEN IdxInvalid ELSE P.idx[c]
        BY <2>5, <2>6 DEF HeapType
    <2> HIDE DEF G
    <2>8. /\ Updated(H, K, own, NoDeadline) /\ K.free = H.free
        <3>1. p = H.idx[own]
            BY DEF p
        <3>2. Removed(H, G, own, p, n)
            BY <2>5, <2>7, <3>1, SMT DEF Removed
        <3>5. Last(H, n)
            BY <2>2, <2>6 DEF Last
        <3>3. CASE p = n
            BY <1>3, <3>2, <3>3, <3>5, ClearLast, SMT
        <3>4. CASE p # n
            BY <1>3, <3>2, <3>4, <3>5, ClearInner, SMT
        <3> QED BY <3>3, <3>4
    <2> HIDE DEF K
    <2>9. Good(K) /\ F \in SUBSET CPU
        BY <2>8, HeapFields DEF Updated, Good
    <2>10. /\ Good(WithFree(K, F)) /\ WithFree(K, F).free = F
           /\ \A c \in CPU : Entry(WithFree(K, F), c) = Entry(K, c)
        BY <2>9, FreeIsSeparate
    <2>11. Clear(H, own) = Forget(WithFree(K, F))
        BY <1>3 DEF Clear, WithFree, K, G, P, p, n
    <2> DEFINE W == WithFree(K, F)
    <2> HIDE DEF W
    <2>12. /\ Good(W) /\ W.free = F /\ \A c \in CPU : Entry(W, c) = Entry(K, c)
        BY <2>10 DEF W
    <2>13. /\ Good(Forget(W)) /\ Forget(W).free = W.free
           /\ \A c \in CPU : Entry(Forget(W), c) = Entry(W, c)
        BY <2>12, ForgetIsSeparate
    <2>14. Clear(H, own) = Forget(W)
        BY <2>11 DEF W
    <2>15. Clear(H, own).free = H.free \cup {own}
        BY <2>8, <2>12, <2>13, <2>14
    <2>16. Updated(H, Clear(H, own), own, NoDeadline)
        BY <2>8, <2>12, <2>13, <2>14 DEF Updated
    <2> QED BY <1>1, <1>3, <2>15, <2>16
<1> QED BY <1>2, <1>3

\* cpudl_init leaves a well-formed heap that records nothing.
LEMMA FreshGood ==
    Good(Fresh) /\ Fresh.free = {} /\ \A c \in CPU : Entry(Fresh, c) = NoDeadline
<1>1. Zero \in Item
    BY ParentFacts DEF Zero, Item
<1>2. 0 \in 0..N /\ \A i \in CPU : ~(i < 0)
    BY CpudlAssumption, SMT DEF CPU
<1>3. /\ Fresh \in HeapType /\ Fresh.size = 0 /\ Fresh.free = {}
      /\ \A c \in CPU : Fresh.idx[c] = IdxInvalid
    BY <1>1, <1>2 DEF Fresh, HeapType
<1>4. WellFormed(Fresh)
    BY <1>3, SMT DEF WellFormed
<1>5. Good(Fresh)
    BY <1>2, <1>3, <1>4 DEF Good
<1> QED BY <1>3, <1>5 DEF Entry

\* The root of a well-formed heap is a latest deadline: cpudl_maximum.
LEMMA RootIsLatest ==
    ASSUME NEW H, Good(H), NEW i \in CPU, i < H.size
    PROVE  NotLater(H.slot[i].dl, H.slot[0].dl)
<1> DEFINE Bad == {j \in CPU : j < H.size
                                /\ ~NotLater(H.slot[j].dl, H.slot[0].dl)}
<1>1. Bad = {}
    <2>1. SUFFICES ASSUME Bad # {} PROVE FALSE
        OBVIOUS
    <2>2. Bad \subseteq Nat
        BY ParentFacts
    <2>3. PICK m \in Bad : \A y \in Bad : m <= y
        BY <2>1, <2>2, LeastNatural
    <2>4. 0 \in CPU /\ 0 < H.size /\ m \in Nat
        <3>1. 0 \in CPU /\ m \in Nat
            BY ParentFacts
        <3>2. H.size \in Nat
            BY HeapFields DEF Good
        <3> QED BY <2>3, <3>1, <3>2, SMT
    <2>5. m # 0
        BY <2>3, <2>4, GoodFacts, NotLaterOrder
    <2>6. /\ Parent(m) \in CPU /\ Parent(m) < H.size /\ Parent(m) < m
          /\ NotLater(H.slot[m].dl, H.slot[Parent(m)].dl)
        BY <2>3, <2>5, GoodFacts
    <2>7. Parent(m) \notin Bad
        <3>1. Parent(m) \in Nat
            BY <2>6, ParentFacts
        <3>2. ~(m <= Parent(m))
            BY <2>4, <2>6, <3>1, SMT
        <3> QED BY <2>3, <3>2
    <2>8. NotLater(H.slot[Parent(m)].dl, H.slot[0].dl)
        BY <2>6, <2>7
    <2>9. /\ H.slot[m].dl \in Deadlines /\ H.slot[Parent(m)].dl \in Deadlines
          /\ H.slot[0].dl \in Deadlines
        BY <2>3, <2>4, <2>6, GoodFacts
    <2> QED BY <2>3, <2>6, <2>8, <2>9, NotLaterOrder, SMT
<1> QED BY <1>1

-----------------------------------------------------------------------------
(* One heap under every sequence of calls, for any number of CPUs and any  *)
(* deadlines within half of the number space.                              *)

\* One call of cpudl_set or cpudl_clear, as the lemmas on them describe it.
LEMMA CallUpdates ==
    ASSUME Good(heap), CallsNext
    PROVE  \E own \in CPU, dl \in Deadlines \cup {NoDeadline} :
              /\ Updated(heap, heap', own, dl)
              /\ heap'.free =
                    IF dl = NoDeadline
                    THEN IF Entry(heap, own) = NoDeadline THEN heap.free
                         ELSE heap.free \cup {own}
                    ELSE IF Entry(heap, own) = NoDeadline
                         THEN heap.free \ {own} ELSE heap.free
<1>1. PICK own \in CPU :
          CpudlClear(own) \/ \E dl \in Deadlines : CpudlSet(own, dl)
    BY DEF CallsNext
<1>2. CASE CpudlClear(own)
    BY <1>2, ClearUpdates DEF CpudlClear
<1>3. ASSUME NEW dl \in Deadlines, CpudlSet(own, dl)
      PROVE  \E d \in Deadlines : d = dl /\ Updated(heap, heap', own, d)
                /\ heap'.free = IF Entry(heap, own) = NoDeadline
                                THEN heap.free \ {own} ELSE heap.free
    BY <1>3, SetUpdates DEF CpudlSet
<1>4. NoDeadline \notin Deadlines
    BY CpudlAssumption, SMT DEF NoDeadline
<1> QED BY <1>1, <1>2, <1>3, <1>4

\* Every sequence of calls keeps the heap well formed, its live slots holding
\* deadlines of tasks: the inductive invariant.
LEMMA AlwaysGood == CallsSpec => []Good(heap)
<1>1. CallsInit => Good(heap)
    BY FreshGood DEF CallsInit
<1>2. Good(heap) /\ [CallsNext]_heap => Good(heap)'
    <2> SUFFICES ASSUME Good(heap), [CallsNext]_heap PROVE Good(heap')
        OBVIOUS
    <2>1. CASE CallsNext
        BY <2>1, CallUpdates DEF Updated
    <2>2. CASE UNCHANGED heap
        BY <2>2
    <2> QED BY <2>1, <2>2
<1> QED BY <1>1, <1>2, PTL DEF CallsSpec

\* For every number of CPUs, no sequence of cpudl_set and cpudl_clear calls
\* leaves the array, breaks a back pointer or puts a later deadline below an
\* earlier one.
THEOREM HeapAlwaysOK == CallsSpec => []HeapOK
<1>1. Good(heap) => HeapOK
    BY DEF Good, HeapOK
<1> QED BY <1>1, AlwaysGood, PTL

\* In every state cpudl_find's fallback is a CPU with a latest deadline of all
\* the CPUs in the heap, and one the task is before.
THEOREM FallbackIsLatest == CallsSpec => []FindIsLatest
<1>1. Good(heap) => FindIsLatest
    <2> SUFFICES ASSUME Good(heap), heap.size > 0, NEW dl \in Deadlines,
                        NEW cpus \in SUBSET CPU, heap.free \cap cpus = {},
                        NEW best \in Find(heap, dl, cpus)
                 PROVE  /\ heap.idx[best] # IdxInvalid
                        /\ Before(dl, Entry(heap, best))
                        /\ \A c \in CPU : heap.idx[c] # IdxInvalid =>
                               ~Before(Entry(heap, best), Entry(heap, c))
        BY DEF FindIsLatest
    <2>1. 0 \in CPU /\ 0 < heap.size
        <3>1. 0 \in CPU /\ heap.size \in Nat
            BY ParentFacts, HeapFields DEF Good
        <3> QED BY <3>1
    <2>2. best = heap.slot[0].cpu /\ Before(dl, heap.slot[0].dl)
        BY DEF Find
    <2>3. heap.idx[best] = 0 /\ 0 # IdxInvalid
        BY <2>1, <2>2, GoodFacts, SMT DEF IdxInvalid
    <2>4. Entry(heap, best) = heap.slot[0].dl
        BY <2>3 DEF Entry
    <2>5. ASSUME NEW c \in CPU, heap.idx[c] # IdxInvalid
          PROVE  ~Before(Entry(heap, best), Entry(heap, c))
        <3>1. heap.idx[c] \in CPU /\ heap.idx[c] < heap.size
            BY <2>5, GoodFacts
        <3>2. NotLater(heap.slot[heap.idx[c]].dl, heap.slot[0].dl)
            BY <3>1, RootIsLatest
        <3> QED BY <3>2, <2>4, <2>5 DEF Entry, NotLater
    <2> QED BY <2>2, <2>3, <2>4, <2>5
<1> QED BY <1>1, AlwaysGood, PTL

\* No call changes what is recorded of another CPU, and the mask of free CPUs
\* follows a CPU into the heap and out of it.
THEOREM CallsKeepOthers == CallsSpec => OthersKeepDeadline
<1> DEFINE Step == \E cpu \in CPU :
          /\ \A c \in CPU \ {cpu} : /\ Entry(heap', c) = Entry(heap, c)
                                    /\ c \in heap'.free <=> c \in heap.free
          /\ Entry(heap', cpu) # Entry(heap, cpu)
               /\ (Entry(heap', cpu) = NoDeadline \/ Entry(heap, cpu) = NoDeadline)
               => (cpu \in heap'.free <=> Entry(heap', cpu) = NoDeadline)
<1>1. Good(heap) /\ [CallsNext]_heap => [Step]_heap
    <2> SUFFICES ASSUME Good(heap), CallsNext PROVE Step
        OBVIOUS
    <2>1. PICK own \in CPU, dl \in Deadlines \cup {NoDeadline} :
              /\ Updated(heap, heap', own, dl)
              /\ heap'.free =
                    IF dl = NoDeadline
                    THEN IF Entry(heap, own) = NoDeadline THEN heap.free
                         ELSE heap.free \cup {own}
                    ELSE IF Entry(heap, own) = NoDeadline
                         THEN heap.free \ {own} ELSE heap.free
        BY CallUpdates
    <2>2. \A c \in CPU \ {own} : /\ Entry(heap', c) = Entry(heap, c)
                                 /\ c \in heap'.free <=> c \in heap.free
        BY <2>1 DEF Updated
    <2>3. Entry(heap', own) = dl
        BY <2>1 DEF Updated
    <2>4. Entry(heap', own) # Entry(heap, own)
            /\ (Entry(heap', own) = NoDeadline \/ Entry(heap, own) = NoDeadline)
            => (own \in heap'.free <=> Entry(heap', own) = NoDeadline)
        BY <2>1, <2>3
    <2> QED BY <2>2, <2>4
<1> QED BY <1>1, AlwaysGood, PTL DEF CallsSpec, OthersKeepDeadline
=============================================================================
