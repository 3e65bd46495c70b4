-------------------------- MODULE WorkqueueLemmas ---------------------------
(***************************************************************************)
(* What the operations on the lists and counters of the pool and of its    *)
(* pool_workqueues do to any state, for any number of workqueues and items:*)
(* what happens to one item, and that the counters follow it.              *)
(***************************************************************************)
EXTENDS WorkqueueInv, TLAPS

\* Zenon proves a step unless the step cites SMT, for arithmetic or sequences.
USE ZenonT(30)

-----------------------------------------------------------------------------
(* Lists.                                                                  *)

\* list_add_tail()
LEMMA AppendHas ==
    ASSUME NEW T, NEW s \in Seq(T), NEW e \in T
    PROVE  /\ Append(s, e) \in Seq(T) /\ Append(s, e) # <<>>
           /\ Len(Append(s, e)) = Len(s) + 1
           /\ \A x : Contains(Append(s, e), x) <=> Contains(s, x) \/ x = e
           /\ Once(s) /\ ~Contains(s, e) => Once(Append(s, e))
<1>1. /\ Append(s, e) \in Seq(T) /\ Append(s, e) # <<>>
      /\ Len(Append(s, e)) = Len(s) + 1 /\ Len(s) \in Nat
      /\ \A i \in 1..Len(s) : Append(s, e)[i] = s[i]
      /\ Append(s, e)[Len(s) + 1] = e
    BY SMT
<1> DEFINE a == Append(s, e)
<1> HIDE DEF a
<1>2. \A i \in 1..Len(a) : i \in 1..Len(s) \/ i = Len(s) + 1
    BY <1>1, SMT DEF a
<1>3. \A x : Contains(a, x) <=> Contains(s, x) \/ x = e
    BY <1>1, <1>2, SMT DEF Contains, a
<1>4. Once(s) /\ ~Contains(s, e) => Once(a)
    BY <1>1, <1>2 DEF Contains, Once, a
<1> QED BY <1>1, <1>3, <1>4 DEF a

\* list_del() of the first entry.
LEMMA TailHas ==
    ASSUME NEW T, NEW s \in Seq(T), s # <<>>
    PROVE  /\ Tail(s) \in Seq(T) /\ Head(s) \in T /\ Contains(s, Head(s))
           /\ Len(s) \in Nat /\ Len(s) > 0 /\ Len(Tail(s)) = Len(s) - 1
           /\ Once(s) => /\ \A x : Contains(Tail(s), x)
                                     <=> Contains(s, x) /\ x # Head(s)
                         /\ Once(Tail(s))
<1>1. /\ Tail(s) \in Seq(T) /\ Head(s) \in T
      /\ Len(Tail(s)) = Len(s) - 1
      /\ \A i \in 1..Len(Tail(s)) : Tail(s)[i] = s[i + 1]
    BY SMT
<1>2. Len(s) \in Nat /\ Len(s) > 0 /\ Head(s) = s[1]
    BY SMT
<1> DEFINE t == Tail(s)
<1> HIDE DEF t
<1>3. Contains(s, Head(s))
    BY <1>2, SMT DEF Contains
<1>4. \A i \in 1..Len(s) : i = 1 \/ (i - 1 \in 1..Len(t) /\ s[i] = t[i - 1])
    BY <1>1, <1>2, SMT DEF t
<1>5. \A i \in 1..Len(t) : i + 1 \in 1..Len(s) /\ i + 1 # 1 /\ t[i] = s[i + 1]
    BY <1>1, <1>2, SMT DEF t
<1>6. Once(s) => \A x : Contains(t, x) <=> Contains(s, x) /\ x # Head(s)
    <2> SUFFICES ASSUME Once(s), NEW x
                 PROVE  Contains(t, x) <=> Contains(s, x) /\ x # Head(s)
        OBVIOUS
    <2>1. Contains(t, x) => Contains(s, x) /\ x # Head(s)
        BY <1>2, <1>5, SMT DEF Contains, Once
    <2>2. Contains(s, x) /\ x # Head(s) => Contains(t, x)
        BY <1>2, <1>4 DEF Contains
    <2> QED BY <2>1, <2>2
<1>7. Once(s) => Once(t)
    BY <1>5, SMT DEF Once
<1> QED BY <1>1, <1>2, <1>3, <1>6, <1>7 DEF t

\* list_add()
LEMMA ConsHas ==
    ASSUME NEW T, NEW s \in Seq(T), NEW e \in T
    PROVE  /\ <<e>> \o s \in Seq(T) /\ <<e>> \o s # <<>> /\ Head(<<e>> \o s) = e
           /\ Len(<<e>> \o s) = Len(s) + 1
           /\ \A x : Contains(<<e>> \o s, x) <=> Contains(s, x) \/ x = e
           /\ Once(s) /\ ~Contains(s, e) => Once(<<e>> \o s)
<1>1. <<e>> \in Seq(T) /\ Len(<<e>>) = 1 /\ <<e>>[1] = e
    BY SMT
<1> DEFINE a == <<e>> \o s
<1>2. /\ a \in Seq(T) /\ Len(a) = 1 + Len(s) /\ Len(s) \in Nat
      /\ \A i \in 1..Len(a) : a[i] = IF i <= 1 THEN <<e>>[i] ELSE s[i - 1]
    BY <1>1, SMT
<1> HIDE DEF a
<1>3. a # <<>> /\ Head(a) = e
    BY <1>1, <1>2, SMT
<1>4. a[1] = e /\ 1 \in 1..Len(a)
    BY <1>1, <1>2, SMT
<1>5. \A i \in 1..Len(a) : i = 1 \/ (i - 1 \in 1..Len(s) /\ a[i] = s[i - 1])
    BY <1>2, SMT
<1>6. \A i \in 1..Len(s) : i + 1 \in 1..Len(a) /\ a[i + 1] = s[i]
    BY <1>2, SMT
<1>7. \A x : Contains(a, x) <=> Contains(s, x) \/ x = e
    BY <1>4, <1>5, <1>6, SMT DEF Contains
<1>8. Once(s) /\ ~Contains(s, e) => Once(a)
    <2> SUFFICES ASSUME Once(s), ~Contains(s, e), NEW i \in 1..Len(a),
                        NEW j \in 1..Len(a), a[i] = a[j]
                 PROVE  i = j
        BY DEF Once
    <2>1. i = 1 => j = 1
        BY <1>4, <1>5 DEF Contains
    <2>2. j = 1 => i = 1
        BY <1>4, <1>5 DEF Contains
    <2>3. ASSUME i # 1, j # 1 PROVE i - 1 = j - 1
        <3>1. /\ i - 1 \in 1..Len(s) /\ j - 1 \in 1..Len(s)
              /\ s[i - 1] = s[j - 1]
            BY <1>5, <2>3
        <3> QED BY <3>1 DEF Once
    <2> QED BY <1>2, <2>1, <2>2, <2>3, SMT
<1> QED BY <1>2, <1>3, <1>7, <1>8, SMT DEF a

RemoveAt(s, i) == SubSeq(s, 1, i - 1) \o SubSeq(s, i + 1, Len(s))

\* list_del_init() of an entry that is the first.
LEMMA RemoveFirstEntry ==
    ASSUME NEW T, NEW s \in Seq(T), s # <<>>, Once(s)
    PROVE  RemoveAt(s, CHOOSE i \in DOMAIN s : s[i] = Head(s)) = Tail(s)
<1>1. Len(s) \in Nat /\ Len(s) > 0 /\ Head(s) = s[1] /\ DOMAIN s = 1..Len(s)
    BY SMT
<1>2. \A i \in DOMAIN s : s[i] = Head(s) => i = 1
    BY <1>1, SMT DEF Once
<1>3. 1 \in DOMAIN s /\ s[1] = Head(s)
    BY <1>1, SMT
<1> DEFINE at == CHOOSE i \in DOMAIN s : s[i] = Head(s)
<1>4. at = 1
    BY <1>2, <1>3
<1> HIDE DEF at
<1>5. RemoveAt(s, 1) = SubSeq(s, 1, 0) \o SubSeq(s, 2, Len(s))
    BY SMT DEF RemoveAt
<1>6. SubSeq(s, 1, 0) = <<>> /\ SubSeq(s, 2, Len(s)) = Tail(s)
    BY SMT
<1>7. Tail(s) \in Seq(T)
    BY SMT
<1>8. RemoveAt(s, 1) = Tail(s)
    BY <1>5, <1>6, <1>7, SMT
<1> QED BY <1>4, <1>8 DEF at

-----------------------------------------------------------------------------
(* Items and their places.                                                 *)

\* Item v is where it was.
Stays(wl, pq, wk, wl2, pq2, wk2, v) ==
    /\ Contains(wl2, v) <=> Contains(wl, v)
    /\ \A q \in Wq : Contains(pq2[q].inactive_works, v)
                        <=> Contains(pq[q].inactive_works, v)
    /\ \A x \in Worker : wk2[x].current_work = v <=> wk[x].current_work = v

\* Every queue is one without repetition.
AllOnce(wl, pq) == Once(wl) /\ \A q \in Wq : Once(pq[q].inactive_works)

\* One item moves, or none does.
LEMMA ItemsMove ==
    ASSUME NEW wl, NEW pq, NEW it, NEW wk, Items(wl, pq, it, wk),
           NEW wl2, NEW pq2, NEW it2, NEW wk2, NEW w, AllOnce(wl2, pq2),
           \A v \in Work : v # w => it2[v] = it[v]
                                    /\ Stays(wl, pq, wk, wl2, pq2, wk2, v),
           w \in Work => ItemOK(wl2, pq2, it2, wk2, w)
    PROVE  Items(wl2, pq2, it2, wk2)
<1>1. ASSUME NEW v \in Work, v # w PROVE ItemOK(wl2, pq2, it2, wk2, v)
    <2>1. it2[v] = it[v] /\ Stays(wl, pq, wk, wl2, pq2, wk2, v)
        BY <1>1
    <2>2. \A kind, at : Spot(wl, pq, wk, v, kind, at)
                          => Spot(wl2, pq2, wk2, v, kind, at)
        BY <2>1 DEF Spot, Stays
    <2>3. ItemOK(wl, pq, it, wk, v)
        BY DEF Items
    <2> QED BY <2>1, <2>2, <2>3 DEF ItemOK
<1> QED BY <1>1 DEF Items, AllOnce

\* What the places of an item say about it.
LEMMA ItemFacts ==
    ASSUME NEW wl, NEW pq, NEW it, NEW wk, Items(wl, pq, it, wk), NEW w \in Work
    PROVE  /\ ~it[w].pending
                => /\ it[w] = [pending |-> FALSE, pwq |-> NULL, inactive |-> FALSE]
                   /\ Spot(wl, pq, wk, w, "none", NULL)
           /\ Contains(wl, w)
                => /\ it[w].pending /\ it[w].pwq \in Wq /\ ~it[w].inactive
                   /\ Spot(wl, pq, wk, w, "listed", NULL)
           /\ \A q \in Wq : Contains(pq[q].inactive_works, w)
                => /\ it[w].pending /\ it[w].pwq = q /\ it[w].inactive
                   /\ Spot(wl, pq, wk, w, "waiting", q)
           /\ \A x \in Worker : wk[x].current_work = w
                => /\ it[w].pending /\ it[w].pwq \in Wq /\ ~it[w].inactive
                   /\ Spot(wl, pq, wk, w, "held", x)
<1>1. ItemOK(wl, pq, it, wk, w)
    BY DEF Items
<1>2. CASE /\ it[w] = [pending |-> FALSE, pwq |-> NULL, inactive |-> FALSE]
           /\ Spot(wl, pq, wk, w, "none", NULL)
    BY <1>2 DEF Spot
<1>3. CASE /\ it[w].pending /\ it[w].pwq \in Wq /\ ~it[w].inactive
           /\ Spot(wl, pq, wk, w, "listed", NULL)
    BY <1>3 DEF Spot
<1>4. CASE /\ it[w].pending /\ it[w].pwq \in Wq /\ it[w].inactive
           /\ Spot(wl, pq, wk, w, "waiting", it[w].pwq)
    BY <1>4 DEF Spot
<1>5. CASE /\ it[w].pending /\ it[w].pwq \in Wq /\ ~it[w].inactive
           /\ \E x \in Worker : Spot(wl, pq, wk, w, "held", x)
    BY <1>5 DEF Spot
<1> QED BY <1>1, <1>2, <1>3, <1>4, <1>5 DEF ItemOK

\* An item that is not pending is nowhere.
LEMMA ItemIdle ==
    ASSUME NEW wl, NEW pq, NEW it, NEW wk, Items(wl, pq, it, wk),
           NEW w \in Work, ~it[w].pending
    PROVE  it[w].pwq = NULL /\ ~it[w].inactive /\ Spot(wl, pq, wk, w, "none", NULL)
BY ItemFacts, SMT

\* An item on the worklist is pending, active and nowhere else.
LEMMA ItemListed ==
    ASSUME NEW wl, NEW pq, NEW it, NEW wk, Items(wl, pq, it, wk),
           NEW w \in Work, Contains(wl, w)
    PROVE  /\ it[w].pending /\ it[w].pwq \in Wq /\ ~it[w].inactive
           /\ Spot(wl, pq, wk, w, "listed", NULL)
BY ItemFacts

\* An item on an inactive list is inactive, of that workqueue and nowhere else.
LEMMA ItemWaiting ==
    ASSUME NEW wl, NEW pq, NEW it, NEW wk, Items(wl, pq, it, wk),
           NEW w \in Work, NEW q \in Wq, Contains(pq[q].inactive_works, w)
    PROVE  /\ it[w].pending /\ it[w].pwq = q /\ it[w].inactive
           /\ Spot(wl, pq, wk, w, "waiting", q)
BY ItemFacts

\* The item a worker executes is pending, active and nowhere else.
LEMMA ItemHeld ==
    ASSUME NEW wl, NEW pq, NEW it, NEW wk, Items(wl, pq, it, wk),
           NEW w \in Work, NEW x \in Worker, wk[x].current_work = w
    PROVE  /\ it[w].pending /\ it[w].pwq \in Wq /\ ~it[w].inactive
           /\ Spot(wl, pq, wk, w, "held", x)
BY ItemFacts, SMT

\* What the cardinalities of the subsets of a finite set obey.
Counting(U) ==
    \A S \in SUBSET U :
        /\ Cardinality(S) \in Nat
        /\ \A x \in U : x \notin S => Cardinality(S \cup {x}) = Cardinality(S) + 1

Counts == Counting(Work) /\ Counting(Worker)

\* Two sets of items that differ in one.
LEMMA OneApart ==
    ASSUME Counts, NEW A, NEW B, A \subseteq Work, B \subseteq Work, NEW w \in Work,
           \A v \in Work : v # w => (v \in A <=> v \in B)
    PROVE  /\ Cardinality(A) \in Nat /\ Cardinality(B) \in Nat
           /\ (w \in A <=> w \in B) => Cardinality(B) = Cardinality(A)
           /\ w \notin A /\ w \in B => Cardinality(B) = Cardinality(A) + 1
           /\ w \in A /\ w \notin B => /\ Cardinality(B) = Cardinality(A) - 1
                                       /\ Cardinality(A) > 0
<1>1. A \in SUBSET Work /\ B \in SUBSET Work
    OBVIOUS
<1>2. Cardinality(A) \in Nat /\ Cardinality(B) \in Nat
    BY <1>1 DEF Counts, Counting
<1>3. (w \in A <=> w \in B) => Cardinality(B) = Cardinality(A)
    <2>1. (w \in A <=> w \in B) => A = B
        BY SMT
    <2> QED BY <2>1
<1>4. w \notin A /\ w \in B => Cardinality(B) = Cardinality(A) + 1
    <2>1. w \notin A /\ w \in B => B = A \cup {w}
        OBVIOUS
    <2>2. w \notin A => Cardinality(A \cup {w}) = Cardinality(A) + 1
        BY <1>1 DEF Counts, Counting
    <2> QED BY <2>1, <2>2
<1>5. w \in A /\ w \notin B => Cardinality(A) = Cardinality(B) + 1
    <2>1. w \in A /\ w \notin B => A = B \cup {w}
        OBVIOUS
    <2>2. w \notin B => Cardinality(B \cup {w}) = Cardinality(B) + 1
        BY <1>1 DEF Counts, Counting
    <2> QED BY <2>1, <2>2
<1> QED BY <1>2, <1>3, <1>4, <1>5, SMT

\* The accounts when one item changes.
Apart(it, it2, w) == \A v \in Work : v # w => it2[v] = it[v]

\* Only the counters of the workqueues that the changed item leaves or joins
\* change, by one.
LEMMA AccountApart ==
    ASSUME Counts, NEW it, NEW it2, NEW w \in Work, NEW q, Apart(it, it2, w)
    PROVE  /\ (it[w].pwq = q <=> it2[w].pwq = q)
                => Cardinality(Mine(it2, q)) = Cardinality(Mine(it, q))
           /\ it[w].pwq # q /\ it2[w].pwq = q
                => Cardinality(Mine(it2, q)) = Cardinality(Mine(it, q)) + 1
           /\ it[w].pwq = q /\ it2[w].pwq # q
                => /\ Cardinality(Mine(it2, q)) = Cardinality(Mine(it, q)) - 1
                   /\ Cardinality(Mine(it, q)) > 0
           /\ (w \in Active(it, q) <=> w \in Active(it2, q))
                => Cardinality(Active(it2, q)) = Cardinality(Active(it, q))
           /\ w \notin Active(it, q) /\ w \in Active(it2, q)
                => Cardinality(Active(it2, q)) = Cardinality(Active(it, q)) + 1
           /\ w \in Active(it, q) /\ w \notin Active(it2, q)
                => /\ Cardinality(Active(it2, q)) = Cardinality(Active(it, q)) - 1
                   /\ Cardinality(Active(it, q)) > 0
           /\ Cardinality(Mine(it, q)) \in Nat /\ Cardinality(Mine(it2, q)) \in Nat
           /\ Cardinality(Active(it, q)) \in Nat
           /\ Cardinality(Active(it2, q)) \in Nat
<1>1. /\ Mine(it, q) \subseteq Work /\ Mine(it2, q) \subseteq Work
      /\ w \in Mine(it, q) <=> it[w].pwq = q
      /\ w \in Mine(it2, q) <=> it2[w].pwq = q
      /\ \A v \in Work : v # w => (v \in Mine(it, q) <=> v \in Mine(it2, q))
    BY DEF Mine, Apart
<1>2. /\ Active(it, q) \subseteq Work /\ Active(it2, q) \subseteq Work
      /\ \A v \in Work : v # w => (v \in Active(it, q) <=> v \in Active(it2, q))
    BY DEF Active, Apart
<1> DEFINE A == Mine(it, q)
           B == Mine(it2, q)
           C == Active(it, q)
           D == Active(it2, q)
<1> HIDE DEF A, B, C, D
<1>3. /\ Cardinality(A) \in Nat /\ Cardinality(B) \in Nat
      /\ (w \in A <=> w \in B) => Cardinality(B) = Cardinality(A)
      /\ w \notin A /\ w \in B => Cardinality(B) = Cardinality(A) + 1
      /\ w \in A /\ w \notin B => /\ Cardinality(B) = Cardinality(A) - 1
                                  /\ Cardinality(A) > 0
    BY <1>1, OneApart DEF A, B
<1>4. /\ Cardinality(C) \in Nat /\ Cardinality(D) \in Nat
      /\ (w \in C <=> w \in D) => Cardinality(D) = Cardinality(C)
      /\ w \notin C /\ w \in D => Cardinality(D) = Cardinality(C) + 1
      /\ w \in C /\ w \notin D => /\ Cardinality(D) = Cardinality(C) - 1
                                  /\ Cardinality(C) > 0
    BY <1>2, OneApart DEF C, D
<1> QED BY <1>1, <1>3, <1>4 DEF A, B, C, D

\* nr_in_flight is the same when the changed item stays.
LEMMA MineSame ==
    ASSUME Counts, NEW it, NEW it2, NEW w \in Work, NEW q, Apart(it, it2, w),
           it[w].pwq = q <=> it2[w].pwq = q
    PROVE  Cardinality(Mine(it2, q)) = Cardinality(Mine(it, q))
BY AccountApart, SMT

\* An item that joins a workqueue is one more in flight.
LEMMA MineMore ==
    ASSUME Counts, NEW it, NEW it2, NEW w \in Work, NEW q, Apart(it, it2, w),
           it[w].pwq # q, it2[w].pwq = q
    PROVE  Cardinality(Mine(it2, q)) = Cardinality(Mine(it, q)) + 1
BY AccountApart, SMT

\* An item that leaves a workqueue is one less in flight.
LEMMA MineLess ==
    ASSUME Counts, NEW it, NEW it2, NEW w \in Work, NEW q, Apart(it, it2, w),
           it[w].pwq = q, it2[w].pwq # q
    PROVE  /\ Cardinality(Mine(it2, q)) = Cardinality(Mine(it, q)) - 1
           /\ Cardinality(Mine(it2, q)) \in Nat
BY AccountApart, SMT

\* nr_active is the same when the changed item is active before and after, or
\* neither.
LEMMA ActiveSame ==
    ASSUME Counts, NEW it, NEW it2, NEW w \in Work, NEW q, Apart(it, it2, w),
           w \in Active(it, q) <=> w \in Active(it2, q)
    PROVE  Cardinality(Active(it2, q)) = Cardinality(Active(it, q))
BY AccountApart, SMT

\* An item that becomes active is one more.
LEMMA ActiveMore ==
    ASSUME Counts, NEW it, NEW it2, NEW w \in Work, NEW q, Apart(it, it2, w),
           w \notin Active(it, q), w \in Active(it2, q)
    PROVE  Cardinality(Active(it2, q)) = Cardinality(Active(it, q)) + 1
BY AccountApart, SMT

\* An active item that leaves is one less.
LEMMA ActiveLess ==
    ASSUME Counts, NEW it, NEW it2, NEW w \in Work, NEW q, Apart(it, it2, w),
           w \in Active(it, q), w \notin Active(it2, q)
    PROVE  /\ Cardinality(Active(it2, q)) = Cardinality(Active(it, q)) - 1
           /\ Cardinality(Active(it2, q)) \in Nat
BY AccountApart, SMT

-----------------------------------------------------------------------------
(* Operations on the queues.                                               *)

\* What concerns work items.
Data(p, pq, it, wk) ==
    /\ p \in PoolType /\ pq \in [Wq -> PwqType]
    /\ it \in [Work -> ItemType] /\ wk \in [Worker -> WorkerType]
    /\ Items(p.worklist, pq, it, wk) /\ Accounts(pq, it)

\* What queue operations leave alone: idle workers and nr_running, and the
\* workqueue of every item.
PoolKept(p, p2) ==
    /\ p2.idle_list = p.idle_list /\ p2.nr_idle = p.nr_idle
    /\ p2.nr_workers = p.nr_workers /\ p2.nr_running = p.nr_running
PwqsKept(it, it2) == \A v \in Work : it2[v].pwq = it[v].pwq

\* Nothing changes of any other worker.
OneWorker(wk, wk2, x) == \A y \in Worker : y # x => wk2[y] = wk[y]

\* The other pool_workqueues.
RestKept(pq, pq2, q) == \A r \in Wq : r # q => pq2[r] = pq[r]

\* pwq_activate_first_inactive(), of a pool_workqueue.
FirstActivated(c, c2) ==
    /\ c2.inactive_works = Tail(c.inactive_works)
    /\ c2.nr_active = c.nr_active + 1
    /\ c2.nr_in_flight = c.nr_in_flight /\ c2.refcnt = c.refcnt
    /\ c2.max_active = c.max_active /\ c2.saved_max_active = c.saved_max_active

\* pwq_activate_first_inactive()
LEMMA ActivatedKeeps ==
    ASSUME Counts, NEW S, NEW wk, Data(S.pool, S.pwq, S.work, wk), NEW q \in Wq,
           S.pwq[q].inactive_works # <<>>
    PROVE  /\ Data(Activated(S, q).pool, Activated(S, q).pwq,
                   Activated(S, q).work, wk)
           /\ PoolKept(S.pool, Activated(S, q).pool)
           /\ PwqsKept(S.work, Activated(S, q).work)
           /\ RestKept(S.pwq, Activated(S, q).pwq, q)
           /\ FirstActivated(S.pwq[q], Activated(S, q).pwq[q])
<1> DEFINE p == S.pool
           pq == S.pwq
           it == S.work
           c == pq[q]
           w == Head(c.inactive_works)
           c2 == [c EXCEPT !.inactive_works = Tail(c.inactive_works),
                           !.nr_active = c.nr_active + 1]
           p2 == [p EXCEPT !.worklist = Append(p.worklist, w)]
           pq2 == [pq EXCEPT ![q] = c2]
           i2 == [it[w] EXCEPT !.inactive = FALSE]
           it2 == [it EXCEPT ![w] = i2]
<1>1. Activated(S, q) = [pool |-> p2, pwq |-> pq2, work |-> it2]
    BY DEF Activated
<1>2. /\ p \in PoolType /\ pq \in [Wq -> PwqType] /\ it \in [Work -> ItemType]
      /\ wk \in [Worker -> WorkerType]
      /\ Items(p.worklist, pq, it, wk) /\ Accounts(pq, it)
    BY DEF Data
<1>3. c \in PwqType /\ p.worklist \in Seq(Work) /\ c.inactive_works \in Seq(Work)
      /\ c.inactive_works # <<>>
    BY <1>2 DEF PwqType, PoolType
<1> DEFINE s == c.inactive_works
           wl == p.worklist
<1> HIDE DEF s, wl
<1>4. s \in Seq(Work) /\ s # <<>> /\ wl \in Seq(Work)
    BY <1>3 DEF s, wl
<1>5. Once(s) /\ Once(wl) /\ \A r \in Wq : Once(pq[r].inactive_works)
    BY <1>2 DEF Items, s, wl
<1>6. w \in Work /\ w = Head(s) /\ Contains(s, w) /\ Tail(s) \in Seq(Work)
      /\ Once(Tail(s)) /\ \A v : Contains(Tail(s), v) <=> Contains(s, v) /\ v # w
    BY <1>4, <1>5, TailHas DEF s
<1> HIDE DEF w
<1>7. /\ it[w].pending /\ it[w].pwq = q /\ it[w].inactive
      /\ Spot(wl, pq, wk, w, "waiting", q)
    <2>1. Items(wl, pq, it, wk) /\ Contains(pq[q].inactive_works, w)
        BY <1>2, <1>6 DEF s, wl
    <2> HIDE DEF pq, it, wl
    <2> QED BY <1>6, <2>1, ItemWaiting, SMT
<1>8. ~Contains(wl, w)
    BY <1>7 DEF Spot
<1>9. /\ Append(wl, w) \in Seq(Work) /\ Once(Append(wl, w))
      /\ \A v : Contains(Append(wl, w), v) <=> Contains(wl, v) \/ v = w
    BY <1>4, <1>5, <1>6, <1>8, AppendHas, SMT
<1>10. /\ c2 \in PwqType /\ FirstActivated(c, c2) /\ c2.inactive_works = Tail(s)
    <2> DEFINE t == Tail(c.inactive_works)
               n == c.nr_active + 1
    <2>1. t \in Seq(Work) /\ t = Tail(s)
        BY <1>6 DEF s
    <2>2. n \in Nat
        BY <1>3, SMT DEF PwqType
    <2>3. c2 = [c EXCEPT !.inactive_works = t, !.nr_active = n]
        OBVIOUS
    <2> HIDE DEF t, n, c, c2
    <2>4. c2 \in PwqType /\ c2.inactive_works = t /\ c2.nr_active = n
          /\ c2.nr_in_flight = c.nr_in_flight /\ c2.refcnt = c.refcnt
          /\ c2.max_active = c.max_active
          /\ c2.saved_max_active = c.saved_max_active
        BY <1>3, <2>1, <2>2, <2>3 DEF PwqType
    <2> QED BY <2>1, <2>4 DEF FirstActivated, t, n
<1>11. /\ p2 \in PoolType /\ PoolKept(p, p2) /\ p2.worklist = Append(wl, w)
    BY <1>2, <1>9 DEF PoolType, PoolKept, wl
<1>12. /\ i2 \in ItemType /\ i2.pending = it[w].pending /\ i2.pwq = q
       /\ i2.inactive = FALSE
    BY <1>2, <1>6, <1>7 DEF ItemType
<1> HIDE DEF p, pq, it, c2, p2, i2
<1>13. /\ pq2 \in [Wq -> PwqType] /\ pq2[q] = c2 /\ \A r \in Wq : r # q => pq2[r] = pq[r]
    BY <1>2, <1>10
<1>14. /\ it2 \in [Work -> ItemType] /\ it2[w] = i2
       /\ Apart(it, it2, w)
    BY <1>2, <1>6, <1>12 DEF Apart
<1> HIDE DEF pq2, it2
<1>15. PwqsKept(it, it2)
    BY <1>7, <1>12, <1>14 DEF PwqsKept, Apart
<1>16. Items(p2.worklist, pq2, it2, wk)
    <2>1. AllOnce(p2.worklist, pq2)
        BY <1>5, <1>6, <1>9, <1>10, <1>11, <1>13 DEF AllOnce
    <2>2. ASSUME NEW v \in Work, v # w
          PROVE  it2[v] = it[v] /\ Stays(wl, pq, wk, p2.worklist, pq2, wk, v)
        <3>1. Contains(p2.worklist, v) <=> Contains(wl, v)
            BY <2>2, <1>9, <1>11
        <3>2. ASSUME NEW r \in Wq
              PROVE  Contains(pq2[r].inactive_works, v)
                       <=> Contains(pq[r].inactive_works, v)
            <4>1. CASE r = q
                BY <4>1, <2>2, <1>6, <1>10, <1>13 DEF s
            <4>2. CASE r # q
                BY <4>2, <1>13
            <4> QED BY <4>1, <4>2
        <3> QED BY <1>14, <2>2, <3>1, <3>2 DEF Stays, Apart
    <2>3. Spot(p2.worklist, pq2, wk, w, "listed", NULL)
        <3>1. Contains(p2.worklist, w)
            BY <1>9, <1>11
        <3>2. \A r \in Wq : ~Contains(pq2[r].inactive_works, w)
            <4>1. ~Contains(pq2[q].inactive_works, w)
                BY <1>6, <1>10, <1>13
            <4>2. \A r \in Wq : r # q => ~Contains(pq[r].inactive_works, w)
                BY <1>7 DEF Spot
            <4> QED BY <4>1, <4>2, <1>13
        <3>3. \A x \in Worker : wk[x].current_work # w
            BY <1>7 DEF Spot
        <3> QED BY <3>1, <3>2, <3>3 DEF Spot
    <2>4. ItemOK(p2.worklist, pq2, it2, wk, w)
        BY <2>3, <1>7, <1>12, <1>14 DEF ItemOK
    <2>5. Items(wl, pq, it, wk)
        BY <1>2 DEF wl
    <2> QED BY <2>1, <2>2, <2>4, <2>5, ItemsMove, SMT
<1>17. Accounts(pq2, it2)
    <2> SUFFICES ASSUME NEW r \in Wq PROVE Account(pq2[r], it2, r)
        BY DEF Accounts
    <2>1. Account(pq[r], it, r)
        BY <1>2 DEF Accounts
    <2>2. Cardinality(Mine(it2, r)) = Cardinality(Mine(it, r))
        BY <1>6, <1>7, <1>12, <1>14, MineSame, SMT
    <2>3. CASE r = q
        <3>1. w \notin Active(it, r) /\ w \in Active(it2, r)
            BY <2>3, <1>6, <1>7, <1>12, <1>14 DEF Active
        <3>2. Cardinality(Active(it2, r)) = Cardinality(Active(it, r)) + 1
            BY <3>1, <1>6, <1>14, ActiveMore
        <3> QED BY <2>1, <2>2, <2>3, <3>2, <1>10, <1>13 DEF Account, FirstActivated
    <2>4. CASE r # q
        <3>1. w \notin Active(it, r) /\ w \notin Active(it2, r)
            BY <2>4, <1>6, <1>7, <1>12, <1>14 DEF Active
        <3>2. Cardinality(Active(it2, r)) = Cardinality(Active(it, r))
            BY <3>1, <1>6, <1>14, ActiveSame, SMT
        <3> QED BY <2>1, <2>2, <2>4, <3>2, <1>13 DEF Account
    <2> QED BY <2>3, <2>4
<1>18. Data(p2, pq2, it2, wk)
    BY <1>2, <1>11, <1>13, <1>14, <1>16, <1>17 DEF Data
<1>19. RestKept(pq, pq2, q) /\ FirstActivated(pq[q], pq2[q])
    BY <1>10, <1>13 DEF RestKept
<1> QED BY <1>1, <1>11, <1>15, <1>18, <1>19, SMT DEF p, pq, it

\* A pool_workqueue with one item more in flight, and with one less.
Entered(c, c2) ==
    /\ c2.nr_in_flight = [c.nr_in_flight EXCEPT ![work_color] = @ + 1]
    /\ c2.refcnt = c.refcnt + 1
Left(c, color, c2) ==
    /\ c2.nr_in_flight = [c.nr_in_flight EXCEPT ![color] = @ - 1]
    /\ c2.refcnt = c.refcnt - 1
    /\ c2.nr_active = c.nr_active - 1

\* nr_in_flight counts an item that enters with colour 0.
LEMMA InFlightMore ==
    ASSUME NEW c \in PwqType, NEW c2, Entered(c, c2), NEW q \in Wq, NEW n \in Nat,
           InFlight(c.nr_in_flight, get_work_color(q), n)
    PROVE  InFlight(c2.nr_in_flight, get_work_color(q), n + 1)
<1> DEFINE f == c.nr_in_flight
           k == get_work_color(q)
<1>1. f \in [Color -> Int] /\ k \in Color /\ 0 \in Color
    BY WorkqueueAssumption, SMT DEF PwqType, get_work_color, Color, WORK_NR_COLORS
<1>2. c2.nr_in_flight = [f EXCEPT ![0] = @ + 1] /\ InFlight(f, k, n)
    BY DEF Entered, work_color
<1> HIDE DEF f, k
<1>3. InFlight([f EXCEPT ![0] = @ + 1], k, n + 1)
    BY <1>1, <1>2, SMT DEF InFlight, work_color
<1> QED BY <1>2, <1>3 DEF k

\* It counts off an item that leaves with the colour of the address.
LEMMA InFlightLess ==
    ASSUME NEW c \in PwqType, NEW c2, NEW q \in Wq, Left(c, get_work_color(q), c2),
           NEW n \in Nat, InFlight(c.nr_in_flight, get_work_color(q), n)
    PROVE  InFlight(c2.nr_in_flight, get_work_color(q), n - 1)
<1> DEFINE f == c.nr_in_flight
           k == get_work_color(q)
<1>1. f \in [Color -> Int] /\ k \in Color /\ 0 \in Color
    BY WorkqueueAssumption, SMT DEF PwqType, get_work_color, Color, WORK_NR_COLORS
<1>2. c2.nr_in_flight = [f EXCEPT ![k] = @ - 1] /\ InFlight(f, k, n)
    BY DEF Left
<1> HIDE DEF f, k
<1>3. InFlight([f EXCEPT ![k] = @ - 1], k, n - 1)
    BY <1>1, <1>2, SMT DEF InFlight, work_color
<1> QED BY <1>2, <1>3 DEF k

\* __queue_work() of an item to the worklist.
LEMMA QueueActiveKeeps ==
    ASSUME Counts, NEW p, NEW pq, NEW it, NEW wk, Data(p, pq, it, wk), NEW q \in Wq,
           NEW w \in Work, ~it[w].pending, NEW p2 \in PoolType,
           NEW pq2 \in [Wq -> PwqType], NEW it2 \in [Work -> ItemType],
           p2.worklist = Append(p.worklist, w), RestKept(pq, pq2, q),
           Entered(pq[q], pq2[q]), pq2[q].nr_active = pq[q].nr_active + 1,
           pq2[q].inactive_works = pq[q].inactive_works, Apart(it, it2, w),
           it2[w].pending, it2[w].pwq = q, ~it2[w].inactive
    PROVE  Data(p2, pq2, it2, wk)
<1> DEFINE wl == p.worklist
           wl2 == p2.worklist
<1>1. /\ p \in PoolType /\ pq \in [Wq -> PwqType] /\ wk \in [Worker -> WorkerType]
      /\ Items(wl, pq, it, wk) /\ Accounts(pq, it) /\ wl \in Seq(Work)
    BY DEF Data, PoolType
<1> HIDE DEF wl, wl2
<1>2. it[w].pwq = NULL /\ ~it[w].inactive /\ Spot(wl, pq, wk, w, "none", NULL)
    BY <1>1, ItemIdle
<1>3. /\ Once(wl) /\ \A r \in Wq : Once(pq[r].inactive_works)
      /\ ~Contains(wl, w)
    BY <1>1, <1>2 DEF Items, Spot
<1>4. /\ Once(wl2) /\ \A v : Contains(wl2, v) <=> Contains(wl, v) \/ v = w
    BY <1>1, <1>3, AppendHas, SMT DEF wl, wl2
<1>5. \A r \in Wq : pq2[r].inactive_works = pq[r].inactive_works
    BY DEF RestKept
<1>6. Items(wl2, pq2, it2, wk)
    <2>1. AllOnce(wl2, pq2)
        BY <1>3, <1>4, <1>5 DEF AllOnce
    <2>2. \A v \in Work : v # w => /\ it2[v] = it[v]
                                   /\ Stays(wl, pq, wk, wl2, pq2, wk, v)
        BY <1>4, <1>5 DEF Apart, Stays
    <2>3. Spot(wl2, pq2, wk, w, "listed", NULL)
        BY <1>2, <1>4, <1>5 DEF Spot
    <2>4. ItemOK(wl2, pq2, it2, wk, w)
        BY <2>3 DEF ItemOK
    <2> QED BY <1>1, <2>1, <2>2, <2>4, ItemsMove, SMT
<1>7. Accounts(pq2, it2)
    <2> SUFFICES ASSUME NEW r \in Wq PROVE Account(pq2[r], it2, r)
        BY DEF Accounts
    <2>1. Account(pq[r], it, r)
        BY <1>1 DEF Accounts
    <2>2. r # NULL
        BY WorkqueueAssumption
    <2>3. w \notin Active(it, r) /\ (w \in Active(it2, r) <=> r = q)
        BY <1>2, <2>2 DEF Active
    <2>4. CASE r = q
        <3>1. Cardinality(Mine(it2, r)) = Cardinality(Mine(it, r)) + 1
            BY <1>2, <2>2, <2>4, MineMore
        <3>2. Cardinality(Active(it2, r)) = Cardinality(Active(it, r)) + 1
            BY <2>3, <2>4, ActiveMore, SMT
        <3>3. Cardinality(Mine(it, r)) \in Nat
            BY AccountApart
        <3>4. InFlight(pq2[r].nr_in_flight, get_work_color(r),
                       Cardinality(Mine(it2, r)))
            BY <1>1, <2>1, <2>4, <3>1, <3>3, InFlightMore DEF Account
        <3> QED BY <2>1, <2>4, <3>1, <3>2, <3>3, <3>4, SMT DEF Account, Entered
    <2>5. CASE r # q
        <3>1. Cardinality(Mine(it2, r)) = Cardinality(Mine(it, r))
            BY <1>2, <2>2, <2>5, MineSame, SMT
        <3>2. Cardinality(Active(it2, r)) = Cardinality(Active(it, r))
            BY <2>3, <2>5, ActiveSame, SMT
        <3>3. pq2[r] = pq[r]
            BY <2>5 DEF RestKept
        <3> QED BY <2>1, <3>1, <3>2, <3>3 DEF Account
    <2> QED BY <2>4, <2>5
<1> QED BY <1>1, <1>6, <1>7 DEF Data, wl2

\* __queue_work() of an item to the inactive list.
LEMMA QueueInactiveKeeps ==
    ASSUME Counts, NEW p, NEW pq, NEW it, NEW wk, Data(p, pq, it, wk), NEW q \in Wq,
           NEW w \in Work, ~it[w].pending,
           NEW pq2 \in [Wq -> PwqType], NEW it2 \in [Work -> ItemType],
           RestKept(pq, pq2, q),
           Entered(pq[q], pq2[q]), pq2[q].nr_active = pq[q].nr_active,
           pq2[q].inactive_works = Append(pq[q].inactive_works, w),
           Apart(it, it2, w), it2[w].pending, it2[w].pwq = q, it2[w].inactive
    PROVE  Data(p, pq2, it2, wk)
<1> DEFINE wl == p.worklist
           s == pq[q].inactive_works
           s2 == pq2[q].inactive_works
<1>1. /\ p \in PoolType /\ pq \in [Wq -> PwqType] /\ wk \in [Worker -> WorkerType]
      /\ Items(wl, pq, it, wk) /\ Accounts(pq, it) /\ s \in Seq(Work)
    BY DEF Data, PwqType
<1> HIDE DEF wl, s, s2
<1>2. it[w].pwq = NULL /\ ~it[w].inactive /\ Spot(wl, pq, wk, w, "none", NULL)
    BY <1>1, ItemIdle
<1>3. /\ Once(wl) /\ \A r \in Wq : Once(pq[r].inactive_works)
      /\ Once(s) /\ ~Contains(s, w)
    BY <1>1, <1>2 DEF Items, Spot, s
<1>4. /\ Once(s2) /\ \A v : Contains(s2, v) <=> Contains(s, v) \/ v = w
    BY <1>1, <1>3, AppendHas, SMT DEF s, s2
<1>5. \A r \in Wq : r # q => pq2[r] = pq[r]
    BY DEF RestKept
<1>6. Items(wl, pq2, it2, wk)
    <2>1. AllOnce(wl, pq2)
        BY <1>3, <1>4, <1>5 DEF AllOnce, s2
    <2>2. ASSUME NEW v \in Work, v # w
          PROVE  it2[v] = it[v] /\ Stays(wl, pq, wk, wl, pq2, wk, v)
        <3>1. \A r \in Wq : Contains(pq2[r].inactive_works, v)
                              <=> Contains(pq[r].inactive_works, v)
            BY <2>2, <1>4, <1>5 DEF s, s2
        <3> QED BY <2>2, <3>1 DEF Apart, Stays
    <2>3. Spot(wl, pq2, wk, w, "waiting", q)
        <3>1. \A r \in Wq : Contains(pq2[r].inactive_works, w) <=> r = q
            BY <1>2, <1>4, <1>5 DEF s2, Spot
        <3> QED BY <1>2, <3>1 DEF Spot
    <2>4. ItemOK(wl, pq2, it2, wk, w)
        BY <2>3 DEF ItemOK
    <2> QED BY <1>1, <2>1, <2>2, <2>4, ItemsMove, SMT
<1>7. Accounts(pq2, it2)
    <2> SUFFICES ASSUME NEW r \in Wq PROVE Account(pq2[r], it2, r)
        BY DEF Accounts
    <2>1. Account(pq[r], it, r)
        BY <1>1 DEF Accounts
    <2>2. r # NULL
        BY WorkqueueAssumption
    <2>3. w \notin Active(it, r) /\ w \notin Active(it2, r)
        BY <1>2, <2>2 DEF Active
    <2>4. Cardinality(Active(it2, r)) = Cardinality(Active(it, r))
        BY <2>3, ActiveSame, SMT
    <2>5. CASE r = q
        <3>1. Cardinality(Mine(it2, r)) = Cardinality(Mine(it, r)) + 1
            BY <1>2, <2>2, <2>5, MineMore
        <3>2. Cardinality(Mine(it, r)) \in Nat
            BY AccountApart
        <3>3. InFlight(pq2[r].nr_in_flight, get_work_color(r),
                       Cardinality(Mine(it2, r)))
            BY <1>1, <2>1, <2>5, <3>1, <3>2, InFlightMore DEF Account
        <3> QED BY <2>1, <2>4, <2>5, <3>1, <3>2, <3>3, SMT DEF Account, Entered
    <2>6. CASE r # q
        <3>1. Cardinality(Mine(it2, r)) = Cardinality(Mine(it, r))
            BY <1>2, <2>2, <2>6, MineSame, SMT
        <3> QED BY <1>5, <2>1, <2>4, <2>6, <3>1 DEF Account
    <2> QED BY <2>5, <2>6
<1> QED BY <1>1, <1>6, <1>7 DEF Data, wl

\* process_one_work() claims the first item of the worklist.
LEMMA ClaimKeeps ==
    ASSUME NEW p, NEW pq, NEW it, NEW wk, Data(p, pq, it, wk), NEW x \in Worker,
           wk[x].current_work = NULL, p.worklist # <<>>, NEW p2 \in PoolType,
           p2.worklist = Tail(p.worklist), NEW wk2 \in [Worker -> WorkerType],
           wk2[x].current_work = Head(p.worklist),
           OneWorker(wk, wk2, x)
    PROVE  /\ Data(p2, pq, it, wk2) /\ Head(p.worklist) \in Work
           /\ it[Head(p.worklist)].pwq \in Wq
<1> DEFINE wl == p.worklist
           wl2 == p2.worklist
           w == Head(p.worklist)
<1>1. /\ p \in PoolType /\ pq \in [Wq -> PwqType] /\ it \in [Work -> ItemType]
      /\ Items(wl, pq, it, wk) /\ Accounts(pq, it) /\ wl \in Seq(Work)
    BY DEF Data, PoolType
<1> HIDE DEF wl, wl2, w
<1>2. Once(wl) /\ \A r \in Wq : Once(pq[r].inactive_works)
    BY <1>1 DEF Items
<1>3. /\ w \in Work /\ Contains(wl, w) /\ Once(wl2)
      /\ \A v : Contains(wl2, v) <=> Contains(wl, v) /\ v # w
    BY <1>1, <1>2, TailHas DEF wl, wl2, w
<1>4. /\ it[w].pending /\ it[w].pwq \in Wq /\ ~it[w].inactive
      /\ Spot(wl, pq, wk, w, "listed", NULL)
    BY <1>1, <1>3, ItemListed
<1>5. NULL \notin Work /\ wk2[x].current_work = w
    BY WorkqueueAssumption DEF w
<1>6. Items(wl2, pq, it, wk2)
    <2>1. AllOnce(wl2, pq)
        BY <1>2, <1>3 DEF AllOnce
    <2>2. ASSUME NEW v \in Work, v # w
          PROVE  it[v] = it[v] /\ Stays(wl, pq, wk, wl2, pq, wk2, v)
        <3>1. \A y \in Worker : wk2[y].current_work = v <=> wk[y].current_work = v
            BY <2>2, <1>5 DEF OneWorker
        <3> QED BY <2>2, <3>1, <1>3 DEF Stays
    <2>3. Spot(wl2, pq, wk2, w, "held", x)
        <3>1. \A y \in Worker : wk2[y].current_work = w <=> y = x
            BY <1>4, <1>5 DEF Spot, OneWorker
        <3> QED BY <3>1, <1>3, <1>4 DEF Spot
    <2>4. ItemOK(wl2, pq, it, wk2, w)
        BY <1>4, <2>3 DEF ItemOK
    <2> QED BY <1>1, <2>1, <2>2, <2>4, ItemsMove
<1> QED BY <1>1, <1>3, <1>4, <1>6 DEF Data, wl2, w

\* The inactive lists do not change.
SameWaiting(pq, pq2) ==
    \A r \in Wq : pq2[r].inactive_works = pq[r].inactive_works

Blank == [pending |-> FALSE, pwq |-> NULL, inactive |-> FALSE]

\* Worker x puts down item w.
PutsDown(it, wk, x, w, it2, wk2) ==
    /\ x \in Worker /\ w \in Work /\ wk[x].current_work = w
    /\ wk2[x].current_work = NULL /\ OneWorker(wk, wk2, x)
    /\ it2[w] = Blank /\ Apart(it, it2, w)

\* set_work_pool_and_clear_pending()
LEMMA LeaveItems ==
    ASSUME NEW wl, NEW pq, NEW it, NEW wk, Items(wl, pq, it, wk), NEW x, NEW w,
           NEW it2, NEW wk2, PutsDown(it, wk, x, w, it2, wk2),
           NEW pq2, SameWaiting(pq, pq2)
    PROVE  Items(wl, pq2, it2, wk2)
<1>1. x \in Worker /\ w \in Work /\ wk[x].current_work = w
    BY DEF PutsDown
<1>2. wk2[x].current_work = NULL /\ \A y \in Worker : y # x => wk2[y] = wk[y]
    BY DEF PutsDown, OneWorker
<1>3. it2[w] = Blank /\ \A v \in Work : v # w => it2[v] = it[v]
    BY DEF PutsDown, Apart
<1>4. Spot(wl, pq, wk, w, "held", x)
    BY <1>1, ItemHeld
<1>5. AllOnce(wl, pq2)
    BY DEF AllOnce, Items, SameWaiting
<1>6. NULL \notin Work
    BY WorkqueueAssumption
<1>7. ASSUME NEW v \in Work, v # w
      PROVE  Stays(wl, pq, wk, wl, pq2, wk2, v)
    <2>1. \A y \in Worker : wk2[y].current_work = v <=> wk[y].current_work = v
        BY <1>1, <1>2, <1>6, <1>7
    <2> QED BY <2>1 DEF Stays, SameWaiting
<1>8. Spot(wl, pq2, wk2, w, "none", NULL)
    <2>1. \A y \in Worker : wk2[y].current_work # w
        BY <1>1, <1>2, <1>4, <1>6 DEF Spot
    <2> QED BY <1>4, <2>1 DEF Spot, SameWaiting
<1>9. ItemOK(wl, pq2, it2, wk2, w)
    BY <1>3, <1>8 DEF ItemOK, Blank
<1> QED BY <1>3, <1>5, <1>7, <1>9, ItemsMove

\* Item w is taken off the counters of its pool_workqueue.
CountedOff(pq, it, w, pq2) ==
    /\ it[w].pwq \in Wq /\ ~it[w].inactive
    /\ RestKept(pq, pq2, it[w].pwq)
    /\ Left(pq[it[w].pwq], get_work_color(it[w].pwq), pq2[it[w].pwq])

\* pwq_dec_nr_in_flight() keeps the counters right.
LEMMA LeaveAccounts ==
    ASSUME Counts, NEW pq \in [Wq -> PwqType], NEW it, Accounts(pq, it),
           NEW w \in Work, NEW pq2,
           CountedOff(pq, it, w, pq2), NEW it2, Apart(it, it2, w), it2[w].pwq = NULL
    PROVE  Accounts(pq2, it2)
<1> DEFINE q == it[w].pwq
<1>1. q \in Wq /\ ~it[w].inactive /\ Left(pq[q], get_work_color(q), pq2[q])
      /\ \A r \in Wq : r # q => pq2[r] = pq[r]
    BY DEF CountedOff, RestKept
<1> HIDE DEF q
<1> SUFFICES ASSUME NEW r \in Wq PROVE Account(pq2[r], it2, r)
    BY DEF Accounts
<1>2. Account(pq[r], it, r)
    BY DEF Accounts
<1>3. NULL # r /\ (w \in Active(it, r) <=> r = q) /\ w \notin Active(it2, r)
    BY <1>1, WorkqueueAssumption DEF Active, q
<1>4. CASE r = q
    <2>1. /\ Cardinality(Mine(it2, r)) = Cardinality(Mine(it, r)) - 1
          /\ Cardinality(Mine(it2, r)) \in Nat
        BY <1>3, <1>4, MineLess DEF q
    <2>2. Cardinality(Active(it2, r)) = Cardinality(Active(it, r)) - 1
        BY <1>3, <1>4, ActiveLess, SMT
    <2>3. Cardinality(Mine(it, r)) \in Nat
        BY AccountApart
    <2>4. InFlight(pq2[r].nr_in_flight, get_work_color(r), Cardinality(Mine(it2, r)))
        BY <1>1, <1>2, <1>4, <2>1, <2>3, InFlightLess DEF Account
    <2> QED BY <1>1, <1>2, <1>4, <2>1, <2>2, <2>3, <2>4, SMT DEF Account, Left
<1>5. CASE r # q
    <2>1. Cardinality(Mine(it2, r)) = Cardinality(Mine(it, r))
        BY <1>3, <1>5, MineSame DEF q
    <2>2. Cardinality(Active(it2, r)) = Cardinality(Active(it, r))
        BY <1>3, <1>5, ActiveSame
    <2> QED BY <1>1, <1>2, <1>5, <2>1, <2>2 DEF Account
<1> QED BY <1>4, <1>5

\* An item in flight is counted: the counters may be decremented.
LEMMA LeaveCounted ==
    ASSUME Counts, NEW p, NEW pq, NEW it, NEW wk, Data(p, pq, it, wk), NEW x \in Worker,
           NEW w \in Work, wk[x].current_work = w
    PROVE  /\ it[w].pwq \in Wq /\ ~it[w].inactive /\ it[w].pending
           /\ pq[it[w].pwq].refcnt - 1 \in Nat
           /\ pq[it[w].pwq].nr_active - 1 \in Nat
<1> DEFINE q == it[w].pwq
           it2 == [it EXCEPT ![w] =
                     [pending |-> FALSE, pwq |-> NULL, inactive |-> FALSE]]
<1>1. /\ it \in [Work -> ItemType] /\ pq \in [Wq -> PwqType]
      /\ Items(p.worklist, pq, it, wk) /\ Accounts(pq, it)
    BY DEF Data
<1>2. it[w].pending /\ q \in Wq /\ ~it[w].inactive
    BY <1>1, ItemHeld
<1>3. Apart(it, it2, w) /\ it2[w].pwq = NULL
    BY <1>1 DEF Apart
<1>4. w \in Active(it, q) /\ w \notin Active(it2, q) /\ it2[w].pwq # q
    BY <1>2, <1>3, WorkqueueAssumption DEF Active
<1>5. Account(pq[q], it, q)
    BY <1>1, <1>2 DEF Accounts
<1> HIDE DEF it2, q
<1>6. /\ Cardinality(Mine(it2, q)) = Cardinality(Mine(it, q)) - 1
      /\ Cardinality(Mine(it2, q)) \in Nat
    BY <1>3, <1>4, MineLess DEF q
<1>7. /\ Cardinality(Active(it2, q)) = Cardinality(Active(it, q)) - 1
      /\ Cardinality(Active(it2, q)) \in Nat
    BY <1>3, <1>4, ActiveLess
<1>8. pq[q].refcnt \in Nat /\ Cardinality(Mine(it, q)) \in Nat
    BY <1>1, <1>2, <1>3, AccountApart DEF PwqType, q
<1>9. pq[q].nr_active - 1 \in Nat
    BY <1>5, <1>7 DEF Account
<1>10. pq[q].refcnt - 1 \in Nat
    BY <1>5, <1>8, SMT DEF Account
<1> QED BY <1>2, <1>9, <1>10 DEF q

\* The workers hold the same items.
SameHolders(wk, wk2) == \A y \in Worker : wk2[y].current_work = wk[y].current_work

\* Limits of the pool_workqueues change at most.
SameCounts(pq, pq2) ==
    \A r \in Wq : /\ pq2[r].inactive_works = pq[r].inactive_works
                  /\ pq2[r].nr_in_flight = pq[r].nr_in_flight
                  /\ pq2[r].refcnt = pq[r].refcnt
                  /\ pq2[r].nr_active = pq[r].nr_active

\* Changes that concern no item.
LEMMA DataSame ==
    ASSUME NEW p, NEW pq, NEW it, NEW wk, Data(p, pq, it, wk),
           NEW p2 \in PoolType, p2.worklist = p.worklist,
           NEW wk2 \in [Worker -> WorkerType],
           SameHolders(wk, wk2), NEW pq2 \in [Wq -> PwqType], SameCounts(pq, pq2)
    PROVE  Data(p2, pq2, it, wk2)
<1>1. Accounts(pq, it) /\ it \in [Work -> ItemType]
    BY DEF Data
<1>2. Accounts(pq2, it)
    BY <1>1 DEF Accounts, Account, SameCounts
<1> DEFINE wl == p.worklist
<1>3. Items(wl, pq, it, wk)
    BY DEF Data
<1> HIDE DEF wl
<1>4. Once(wl) /\ \A r \in Wq : Once(pq[r].inactive_works)
    BY <1>3 DEF Items
<1>5. AllOnce(wl, pq2)
    BY <1>4 DEF AllOnce, SameCounts
<1>6. NULL \notin Work /\ \A v \in Work : Stays(wl, pq, wk, wl, pq2, wk2, v)
    BY WorkqueueAssumption DEF Stays, SameHolders, SameCounts
<1>7. Items(wl, pq2, it, wk2)
    BY <1>3, <1>5, <1>6, ItemsMove
<1> QED BY <1>1, <1>2, <1>7 DEF Data, wl

\* The state of the loop of pwq_adjust_max_active(), started in S.
StateType == [pool : PoolType, pwq : [Wq -> PwqType], work : [Work -> ItemType]]
Activating(S, T, wk, q) ==
    /\ T \in StateType /\ Data(T.pool, T.pwq, T.work, wk)
    /\ PoolKept(S.pool, T.pool) /\ PwqsKept(S.work, T.work)
    /\ RestKept(S.pwq, T.pwq, q) /\ T.pwq[q].max_active = S.pwq[q].max_active

\* One turn of it.
LEMMA ActivateTurnKeeps ==
    ASSUME Counts, NEW S, NEW wk, NEW q \in Wq, NEW T, Activating(S, T, wk, q)
    PROVE  /\ Activating(S, ActivateTurn(T, q), wk, q)
           /\ Len(T.pwq[q].inactive_works) \in Nat
           /\ \/ ActivateTurn(T, q) = T /\ ~MayActivate(T, q)
              \/ Len(ActivateTurn(T, q).pwq[q].inactive_works)
                   < Len(T.pwq[q].inactive_works)
<1> DEFINE A == Activated(T, q)
           s == T.pwq[q].inactive_works
<1>1. /\ T \in StateType /\ Data(T.pool, T.pwq, T.work, wk)
      /\ PoolKept(S.pool, T.pool) /\ PwqsKept(S.work, T.work)
      /\ RestKept(S.pwq, T.pwq, q) /\ T.pwq[q].max_active = S.pwq[q].max_active
    BY DEF Activating
<1>2. s \in Seq(Work) /\ Len(s) \in Nat
    <2>1. s \in Seq(Work)
        BY <1>1 DEF StateType, PwqType
    <2> QED BY <2>1, SMT
<1>3. CASE ~MayActivate(T, q)
    BY <1>2, <1>3 DEF ActivateTurn
<1>4. CASE MayActivate(T, q)
    <2>1. ActivateTurn(T, q) = A /\ s # <<>>
        BY <1>4 DEF ActivateTurn, MayActivate
    <2>2. /\ Data(A.pool, A.pwq, A.work, wk) /\ PoolKept(T.pool, A.pool)
          /\ PwqsKept(T.work, A.work) /\ RestKept(T.pwq, A.pwq, q)
          /\ FirstActivated(T.pwq[q], A.pwq[q])
        BY <1>1, <2>1, ActivatedKeeps
    <2>3. A.pwq[q].inactive_works = Tail(s)
          /\ A.pwq[q].max_active = T.pwq[q].max_active
        BY <2>2 DEF FirstActivated
    <2>4. A = [pool |-> A.pool, pwq |-> A.pwq, work |-> A.work]
        BY DEF Activated
    <2> HIDE DEF A
    <2>5. Len(Tail(s)) = Len(s) - 1
        BY <1>2, <2>1, TailHas
    <2>6. A \in StateType
        BY <2>2, <2>4 DEF StateType, Data
    <2>7. PoolKept(S.pool, A.pool) /\ PwqsKept(S.work, A.work)
          /\ RestKept(S.pwq, A.pwq, q)
        BY <1>1, <2>2 DEF PoolKept, PwqsKept, RestKept
    <2>8. Activating(S, A, wk, q)
        BY <1>1, <2>2, <2>3, <2>6, <2>7 DEF Activating
    <2>9. Len(A.pwq[q].inactive_works) < Len(s)
        <3> DEFINE m == Len(s)
                   k == Len(Tail(s))
        <3>1. m \in Nat /\ k = m - 1
            BY <1>2, <2>5
        <3> HIDE DEF m, k
        <3>2. k < m
            BY <3>1, SMT
        <3> QED BY <2>3, <3>2 DEF m, k
    <2> QED BY <1>2, <2>1, <2>8, <2>9
<1> QED BY <1>3, <1>4

\* pwq_dec_nr_in_flight() up to the activation.
DropAt(pq, q) == [pq EXCEPT ![q] = Dropped(pq[q], get_work_color(q), FALSE)]

\* It takes one from nr_in_flight, refcnt and nr_active and nothing else.
LEMMA DropFacts ==
    ASSUME NEW pq \in [Wq -> PwqType], NEW q \in Wq,
           pq[q].refcnt - 1 \in Nat, pq[q].nr_active - 1 \in Nat
    PROVE  /\ DropAt(pq, q) \in [Wq -> PwqType] /\ RestKept(pq, DropAt(pq, q), q)
           /\ Left(pq[q], get_work_color(q), DropAt(pq, q)[q])
           /\ SameWaiting(pq, DropAt(pq, q))
           /\ DropAt(pq, q)[q].max_active = pq[q].max_active
<1> DEFINE c == pq[q]
           k == get_work_color(q)
           a1 == [c.nr_in_flight EXCEPT ![k] = @ - 1]
           a2 == c.refcnt - 1
           a3 == c.nr_active - 1
           c2 == Dropped(c, k, FALSE)
<1>1. c \in PwqType /\ a1 \in [Color -> Int] /\ a2 \in Nat /\ a3 \in Nat
    <2>1. k \in Color
        BY WorkqueueAssumption DEF get_work_color
    <2>2. c \in PwqType /\ c.nr_in_flight \in [Color -> Int]
        BY DEF PwqType
    <2> DEFINE f == c.nr_in_flight
    <2> HIDE DEF k, c, f
    <2>3. [f EXCEPT ![k] = @ - 1] \in [Color -> Int]
        BY <2>1, <2>2, SMT DEF f
    <2> QED BY <2>2, <2>3 DEF f, c
<1>2. c2 = [c EXCEPT !.nr_in_flight = a1, !.refcnt = a2, !.nr_active = a3]
    BY DEF Dropped
<1>3. DropAt(pq, q) = [pq EXCEPT ![q] = c2]
    BY DEF DropAt
<1> HIDE DEF a1, a2, a3, c2, c, k
<1>4. /\ c2 \in PwqType /\ c2.nr_in_flight = a1 /\ c2.refcnt = a2
      /\ c2.nr_active = a3 /\ c2.inactive_works = c.inactive_works
      /\ c2.max_active = c.max_active
    BY <1>1, <1>2 DEF PwqType
<1> DEFINE pq2 == [pq EXCEPT ![q] = c2]
<1>5. pq2 \in [Wq -> PwqType] /\ pq2[q] = c2 /\ \A r \in Wq : r # q => pq2[r] = pq[r]
    BY <1>4
<1> HIDE DEF pq2
<1>6. Left(c, k, c2)
    BY <1>4 DEF Left, a1, a2, a3
<1>7. SameWaiting(pq, pq2)
    BY <1>4, <1>5 DEF SameWaiting, c
<1> QED BY <1>3, <1>4, <1>5, <1>6, <1>7 DEF RestKept, pq2, c, k

\* The rest of it is the turn of the loop of pwq_adjust_max_active().
LEMMA DecUnfolds ==
    ASSUME NEW p, NEW pq, NEW it, NEW q
    PROVE  DecNrInFlight([pool |-> p, pwq |-> pq, work |-> it], q, FALSE)
             = ActivateTurn([pool |-> p, pwq |-> DropAt(pq, q), work |-> it], q)
<1> DEFINE S == [pool |-> p, pwq |-> pq, work |-> it]
           c == Dropped(S.pwq[q], get_work_color(q), FALSE)
           D == [S EXCEPT !.pwq[q] = c]
           E == [pool |-> p, pwq |-> DropAt(pq, q), work |-> it]
<1>1. DecNrInFlight(S, q, FALSE) = IF MayActivate(D, q) THEN Activated(D, q) ELSE D
    BY DEF DecNrInFlight
<1>2. c = Dropped(pq[q], get_work_color(q), FALSE)
    OBVIOUS
<1> HIDE DEF c
<1>3. D = [pool |-> p, pwq |-> [pq EXCEPT ![q] = c], work |-> it]
    BY SMT
<1>4. D = E
    BY <1>2, <1>3 DEF DropAt
<1> HIDE DEF D, E, S
<1>5. DecNrInFlight(S, q, FALSE) = ActivateTurn(E, q)
    BY <1>1, <1>4 DEF ActivateTurn
<1> QED BY <1>5 DEF S, E

\* Items wait on pq2 as on pq, and within the same limit.
SameWait(pq, pq2, q) ==
    SameWaiting(pq, pq2) /\ pq2[q].max_active = pq[q].max_active

\* At most one inactive item could be activated, and that one is.
LEMMA TurnSettles ==
    ASSUME NEW pq, pq \in [Wq -> PwqType], AllSettled(pq), NEW it, NEW w, NEW pq2,
           CountedOff(pq, it, w, pq2), SameWait(pq, pq2, it[w].pwq),
           pq2[it[w].pwq].inactive_works # <<>>, NEW pq3,
           RestKept(pq2, pq3, it[w].pwq),
           FirstActivated(pq2[it[w].pwq], pq3[it[w].pwq])
    PROVE  AllSettled(pq3)
<1> DEFINE q == it[w].pwq
           c == pq[q]
           d == pq3[q]
<1>1. q \in Wq /\ Left(c, get_work_color(q), pq2[q]) /\ RestKept(pq, pq2, q)
    BY DEF CountedOff
<1>2. Settled(c) /\ c.nr_active \in Nat /\ c.max_active \in Nat
    <2>1. MaxActives \cup {0} \subseteq Nat
        BY WorkqueueAssumption, SMT
    <2> QED BY <1>1, <2>1 DEF PwqType, AllSettled
<1>3. d.nr_active = c.nr_active - 1 + 1 /\ d.max_active = c.max_active
    BY <1>1 DEF FirstActivated, Left, SameWait
<1>4. c.inactive_works # <<>>
    BY <1>1 DEF SameWaiting, SameWait
<1>5. \A r \in Wq : r # q => Settled(pq3[r])
    BY <1>1 DEF RestKept, AllSettled
<1> HIDE DEF c, d, q
<1>6. d.nr_active = c.nr_active
    BY <1>2, <1>3, SMT
<1>7. Settled(d)
    BY <1>2, <1>3, <1>4, <1>6 DEF Settled
<1> QED BY <1>5, <1>7 DEF AllSettled, d

\* Worker x puts down item w, which changes the pool to p1, the workers to wk2
\* and the items to it2.
Finishes(p, pq, it, wk, x, w, p1, wk2, it2) ==
    /\ Data(p, pq, it, wk) /\ AllSettled(pq) /\ PutsDown(it, wk, x, w, it2, wk2)
    /\ p1 \in PoolType /\ p1.worklist = p.worklist
    /\ wk2 \in [Worker -> WorkerType] /\ it2 \in [Work -> ItemType]

\* What is true when pwq_dec_nr_in_flight() comes to the activation.
LEMMA FinishDrops ==
    ASSUME Counts, NEW p, NEW pq, NEW it, NEW wk, NEW x, NEW w, NEW p1, NEW wk2,
           NEW it2, Finishes(p, pq, it, wk, x, w, p1, wk2, it2)
    PROVE  /\ CountedOff(pq, it, w, DropAt(pq, it[w].pwq))
           /\ SameWait(pq, DropAt(pq, it[w].pwq), it[w].pwq)
           /\ Data(p1, DropAt(pq, it[w].pwq), it2, wk2)
<1> DEFINE q == it[w].pwq
           pq2 == DropAt(pq, q)
<1>1. Data(p, pq, it, wk) /\ PutsDown(it, wk, x, w, it2, wk2)
    BY DEF Finishes
<1>2. x \in Worker /\ w \in Work /\ wk[x].current_work = w
    BY <1>1 DEF PutsDown
<1>3. /\ q \in Wq /\ ~it[w].inactive
      /\ pq[q].refcnt - 1 \in Nat /\ pq[q].nr_active - 1 \in Nat
    BY <1>1, <1>2, LeaveCounted
<1>4. pq \in [Wq -> PwqType] /\ Items(p.worklist, pq, it, wk) /\ Accounts(pq, it)
    BY <1>1 DEF Data
<1> HIDE DEF pq2
<1>5. /\ pq2 \in [Wq -> PwqType] /\ RestKept(pq, pq2, q)
      /\ Left(pq[q], get_work_color(q), pq2[q]) /\ SameWaiting(pq, pq2)
      /\ pq2[q].max_active = pq[q].max_active
    BY <1>3, <1>4, DropFacts DEF pq2
<1>6. CountedOff(pq, it, w, pq2) /\ SameWait(pq, pq2, q)
    BY <1>3, <1>5 DEF CountedOff, SameWait
<1>7. /\ p1 \in PoolType /\ p1.worklist = p.worklist
      /\ wk2 \in [Worker -> WorkerType] /\ it2 \in [Work -> ItemType]
    BY DEF Finishes
<1>8. Apart(it, it2, w) /\ it2[w].pwq = NULL
    BY <1>1, SMT DEF PutsDown, Blank
<1>9. Items(p.worklist, pq2, it2, wk2)
    BY <1>1, <1>4, <1>5, LeaveItems
<1>10. Accounts(pq2, it2)
    BY <1>2, <1>4, <1>6, <1>8, LeaveAccounts
<1>11. Data(p1, pq2, it2, wk2)
    BY <1>5, <1>7, <1>9, <1>10 DEF Data
<1> QED BY <1>6, <1>11 DEF pq2

\* The state after pwq_dec_nr_in_flight().
Finished(S, p1, pq, it2, q) ==
    S = DecNrInFlight([pool |-> p1, pwq |-> pq, work |-> it2], q, FALSE)

\* pwq_dec_nr_in_flight() when a worker is done with its item.
LEMMA FinishData ==
    ASSUME Counts, NEW p, NEW pq, NEW it, NEW wk, NEW x, NEW w, NEW p1, NEW wk2,
           NEW it2, Finishes(p, pq, it, wk, x, w, p1, wk2, it2), NEW S,
           Finished(S, p1, pq, it2, it[w].pwq)
    PROVE  /\ Data(S.pool, S.pwq, S.work, wk2) /\ AllSettled(S.pwq)
           /\ PoolKept(p1, S.pool)
           /\ \A v \in Work : v # w => S.work[v].pwq = it[v].pwq
<1> DEFINE q == it[w].pwq
           pq2 == DropAt(pq, q)
           D == [pool |-> p1, pwq |-> pq2, work |-> it2]
           A == Activated(D, q)
<1>1. S = ActivateTurn(D, q)
    BY DecUnfolds DEF Finished
<1>2. D.pool = p1 /\ D.pwq = pq2 /\ D.work = it2
    OBVIOUS
<1> HIDE DEF pq2, D, A
<1>3. /\ CountedOff(pq, it, w, pq2) /\ SameWait(pq, pq2, q)
      /\ Data(p1, pq2, it2, wk2)
    BY FinishDrops DEF pq2
<1>4. /\ AllSettled(pq) /\ pq \in [Wq -> PwqType]
      /\ \A v \in Work : v # w => it2[v].pwq = it[v].pwq
    BY DEF Finishes, PutsDown, Apart, Data
<1>5. q \in Wq /\ RestKept(pq, pq2, q)
    BY <1>3 DEF CountedOff
<1>6. CASE ~MayActivate(D, q)
    <2>1. S = D
        BY <1>1, <1>6 DEF ActivateTurn
    <2>2. Settled(pq2[q])
        BY <1>2, <1>6 DEF MayActivate, Settled
    <2>3. AllSettled(pq2)
        BY <1>4, <1>5, <2>2 DEF RestKept, AllSettled
    <2> QED BY <1>2, <1>3, <1>4, <2>1, <2>3 DEF PoolKept
<1>7. CASE MayActivate(D, q)
    <2>1. S = A /\ pq2[q].inactive_works # <<>>
        BY <1>1, <1>2, <1>7 DEF ActivateTurn, MayActivate, A
    <2>2. /\ Data(A.pool, A.pwq, A.work, wk2) /\ PoolKept(p1, A.pool)
          /\ PwqsKept(it2, A.work) /\ RestKept(pq2, A.pwq, q)
          /\ FirstActivated(pq2[q], A.pwq[q])
        BY <1>2, <1>3, <1>5, <2>1, ActivatedKeeps DEF A
    <2>3. AllSettled(A.pwq)
        BY <1>3, <1>4, <2>1, <2>2, TurnSettles
    <2>4. \A v \in Work : v # w => A.work[v].pwq = it[v].pwq
        BY <1>4, <2>2 DEF PwqsKept
    <2> QED BY <2>1, <2>2, <2>3, <2>4
<1> QED BY <1>6, <1>7
=============================================================================
