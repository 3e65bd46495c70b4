----------------------------- MODULE DlRootProofs -----------------------------
(***************************************************************************)
(* The heaps of the root domains agree with the run queues, for any        *)
(* number of CPUs, root domains and tasks.  The lemmas of CpudlProofs say  *)
(* what an operation does to one heap; here the run queues are added.      *)
(***************************************************************************)
EXTENDS DlRoot, CpudlProofs

\* Zenon proves a step unless the step cites SMT, for arithmetic.
USE ZenonT(30)

\* What a run queue has to show: its earliest deadline, or NoDeadline.
Tree(where, c) == {t \in Task : where[t] = c}
QueueDl(where, dls, c) ==
    IF Tree(where, c) = {} THEN NoDeadline ELSE Leftmost(Tree(where, c), dls)
Timed(where, dls, c) == \A t \in Tree(where, c) : dls[t] \in Deadlines

\* A heap records what the run queue of CPU c shows.
Shows(H, c, shown) ==
    IF shown = NoDeadline THEN c \in H.free ELSE Entry(H, c) = shown

\* The heap of a root domain records what the run queues that are online in
\* it show.
Records(H, r, attached, up, where, dls) ==
    /\ Good(H)
    /\ \A c \in CPU : attached[c] = r /\ c \in up
                        => Shows(H, c, QueueDl(where, dls, c))

Heaps(hs, attached, up, where, dls) ==
    /\ hs \in [RootDomain -> HeapType]
    /\ \A r \in RootDomain : Records(hs[r], r, attached, up, where, dls)

\* The run queues: a queued task has a deadline, and earliest_dl.curr is the
\* earliest of them or 0.
Queues(where, dls, early) ==
    /\ where \in [Task -> CPU \cup {NoCpu}]
    /\ dls \in [Task -> Deadlines \cup {0}]
    /\ \A c \in CPU : Timed(where, dls, c)
    /\ early \in [CPU -> Deadlines \cup {0}]
    /\ \A c \in CPU : early[c] = IF QueueDl(where, dls, c) = NoDeadline THEN 0
                                 ELSE QueueDl(where, dls, c)

\* The inductive invariant.
IInv ==
    /\ rd \in [CPU -> RootDomain]
    /\ online \subseteq CPU /\ active \subseteq CPU
    /\ Queues(on, deadline, earliest)
    /\ Heaps(heaps, rd, online, on, deadline)

-----------------------------------------------------------------------------
(* The leftmost entity of a run queue.                                     *)

\* dl is the earliest deadline of these tasks.
IsEarliest(d, tasks, dls) ==
    /\ d \in Deadlines
    /\ \E t \in tasks : dls[t] = d
    /\ \A t \in tasks : ~Before(dls[t], d)

\* At most one deadline is the earliest: of two deadlines one is before.
LEMMA EarliestUnique ==
    ASSUME NEW tasks, NEW dls, NEW d, NEW e,
           IsEarliest(d, tasks, dls), IsEarliest(e, tasks, dls)
    PROVE  d = e
<1>1. d \in Deadlines /\ e \in Deadlines /\ ~Before(d, e) /\ ~Before(e, d)
    BY DEF IsEarliest
<1> QED BY <1>1, CpudlAssumption

\* A finite set of tasks has one with nobody before it: the one with the
\* fewest tasks before it.
LEMMA EarliestExists ==
    ASSUME NEW tasks, IsFiniteSet(tasks), tasks # {}, NEW dls,
           \A t \in tasks : dls[t] \in Deadlines
    PROVE  \E t \in tasks : \A u \in tasks : ~Before(dls[u], dls[t])
<1> DEFINE Pred(t) == {u \in tasks : Before(dls[u], dls[t])}
           Sizes == {Cardinality(Pred(t)) : t \in tasks}
<1>1. \A t \in tasks : IsFiniteSet(Pred(t)) /\ Cardinality(Pred(t)) \in Nat
    <2> SUFFICES ASSUME NEW t \in tasks
                 PROVE  IsFiniteSet(Pred(t)) /\ Cardinality(Pred(t)) \in Nat
        OBVIOUS
    <2>1. Pred(t) \in SUBSET tasks
        OBVIOUS
    <2> HIDE DEF Pred
    <2> QED BY <2>1, FS_Subset, FS_CardinalityType
<1>2. Sizes \subseteq Nat /\ Sizes # {}
    BY <1>1
<1>3. PICK m \in Sizes : \A y \in Sizes : m <= y
    BY <1>2, LeastNatural
<1>4. PICK t \in tasks : m = Cardinality(Pred(t))
    BY <1>3
<1>5. SUFFICES ASSUME NEW u \in tasks, Before(dls[u], dls[t]) PROVE FALSE
    BY <1>4
<1>6. Pred(u) \in SUBSET Pred(t)
    BY <1>5, CpudlAssumption
<1>7. u \in Pred(t) /\ u \notin Pred(u)
    BY <1>5, NotLaterOrder DEF NotLater
<1>8. m <= Cardinality(Pred(u))
    BY <1>3
<1> HIDE DEF Pred
<1>9. /\ Cardinality(Pred(u)) <= Cardinality(Pred(t))
      /\ Cardinality(Pred(t)) = Cardinality(Pred(u)) => Pred(t) = Pred(u)
    BY <1>1, <1>6, FS_Subset
<1>10. Cardinality(Pred(u)) = Cardinality(Pred(t))
    BY <1>1, <1>4, <1>8, <1>9, SMT
<1> QED BY <1>7, <1>9, <1>10

\* The leftmost entity of the tree has the earliest deadline.
LEMMA LeftmostIsEarliest ==
    ASSUME NEW tasks, tasks \subseteq Task, tasks # {}, NEW dls,
           \A t \in tasks : dls[t] \in Deadlines
    PROVE  IsEarliest(Leftmost(tasks, dls), tasks, dls)
<1>1. IsFiniteSet(tasks)
    BY DlRootAssumption, FS_Subset
<1>2. \E t \in tasks : \A u \in tasks : ~Before(dls[u], dls[t])
    BY <1>1, EarliestExists
<1> DEFINE t == CHOOSE t \in tasks : \A u \in tasks : ~Before(dls[u], dls[t])
<1>3. t \in tasks /\ \A u \in tasks : ~Before(dls[u], dls[t])
    BY <1>2
<1>4. Leftmost(tasks, dls) = dls[t]
    BY DEF Leftmost
<1> HIDE DEF t
<1> QED BY <1>3, <1>4 DEF IsEarliest

\* What a run queue shows, by what its tasks are.
LEMMA QueueDlFacts ==
    ASSUME NEW where, NEW dls, NEW c \in CPU, Timed(where, dls, c)
    PROVE  /\ QueueDl(where, dls, c) \in Deadlines \cup {NoDeadline}
           /\ QueueDl(where, dls, c) = NoDeadline <=> Tree(where, c) = {}
           /\ Tree(where, c) # {}
                => IsEarliest(QueueDl(where, dls, c), Tree(where, c), dls)
           /\ \A d : IsEarliest(d, Tree(where, c), dls)
                       => QueueDl(where, dls, c) = d
<1> DEFINE tasks == Tree(where, c)
<1>1. NoDeadline \notin Deadlines
    BY CpudlAssumption, SMT DEF NoDeadline
<1>2. CASE tasks = {}
    <2>1. QueueDl(where, dls, c) = NoDeadline
        BY <1>2 DEF QueueDl
    <2>2. \A d : ~IsEarliest(d, tasks, dls)
        BY <1>2 DEF IsEarliest
    <2> QED BY <1>2, <2>1, <2>2
<1>3. CASE tasks # {}
    <2>1. QueueDl(where, dls, c) = Leftmost(tasks, dls)
        BY <1>3 DEF QueueDl
    <2>2. tasks \subseteq Task /\ \A t \in tasks : dls[t] \in Deadlines
        BY DEF Tree, Timed
    <2>3. IsEarliest(Leftmost(tasks, dls), tasks, dls)
        BY <1>3, <2>2, LeftmostIsEarliest
    <2>4. Leftmost(tasks, dls) \in Deadlines
        BY <2>3 DEF IsEarliest
    <2> QED BY <1>1, <1>3, <2>1, <2>3, <2>4, EarliestUnique
<1> QED BY <1>2, <1>3

-----------------------------------------------------------------------------
(* One heap and one CPU.                                                   *)

\* Nothing is recorded differently of CPUs other than own.
Alike(H, K, own) ==
    /\ Good(K)
    /\ \A c \in CPU : c # own => /\ Entry(K, c) = Entry(H, c)
                                 /\ c \in K.free <=> c \in H.free

\* Operations on one heap compose.
LEMMA AlikeTransitive ==
    ASSUME NEW H, NEW K, NEW L, NEW own, Alike(H, K, own), Alike(K, L, own)
    PROVE  Alike(H, L, own)
BY DEF Alike

\* cpudl_set of a CPU.
LEMMA SetShows ==
    ASSUME NEW H, Good(H), NEW own \in CPU, NEW dl \in Deadlines
    PROVE  Alike(H, Set(H, own, dl), own) /\ Shows(Set(H, own, dl), own, dl)
<1> DEFINE K == Set(H, own, dl)
<1>1. /\ Updated(H, K, own, dl)
      /\ K.free = IF Entry(H, own) = NoDeadline THEN H.free \ {own} ELSE H.free
    BY SetUpdates
<1> HIDE DEF K
<1>2. dl # NoDeadline
    BY CpudlAssumption, SMT DEF NoDeadline
<1>3. Alike(H, K, own)
    BY <1>1 DEF Alike, Updated
<1>4. Shows(K, own, dl)
    BY <1>1, <1>2 DEF Shows, Updated
<1> QED BY <1>3, <1>4 DEF K

\* cpudl_clear of a CPU that is recorded, or free.
LEMMA ClearShows ==
    ASSUME NEW H, Good(H), NEW own \in CPU
    PROVE  /\ Alike(H, Clear(H, own), own)
           /\ \A q : Shows(H, own, q) => Shows(Clear(H, own), own, NoDeadline)
<1> DEFINE K == Clear(H, own)
<1>1. /\ Updated(H, K, own, NoDeadline)
      /\ K.free = IF Entry(H, own) = NoDeadline THEN H.free
                  ELSE H.free \cup {own}
    BY ClearUpdates
<1> HIDE DEF K
<1>2. Alike(H, K, own)
    BY <1>1 DEF Alike, Updated
<1>3. \A q : Shows(H, own, q) => Shows(K, own, NoDeadline)
    BY <1>1 DEF Shows
<1> QED BY <1>2, <1>3 DEF K

\* cpudl_set_freecpu and cpudl_clear_freecpu
LEMMA FreeShows ==
    ASSUME NEW H, Good(H), NEW own \in CPU
    PROVE  /\ Alike(H, SetFreeCpu(H, own), own)
           /\ Shows(SetFreeCpu(H, own), own, NoDeadline)
           /\ Alike(H, ClearFreeCpu(H, own), own)
<1>1. H.free \cup {own} \in SUBSET CPU /\ H.free \ {own} \in SUBSET CPU
    BY HeapFields DEF Good
<1>2. /\ SetFreeCpu(H, own) = WithFree(H, H.free \cup {own})
      /\ ClearFreeCpu(H, own) = WithFree(H, H.free \ {own})
    BY DEF SetFreeCpu, ClearFreeCpu, WithFree
<1> DEFINE K == WithFree(H, H.free \cup {own})
           L == WithFree(H, H.free \ {own})
<1>3. /\ Good(K) /\ K.free = H.free \cup {own}
      /\ \A c \in CPU : Entry(K, c) = Entry(H, c)
    BY <1>1, FreeIsSeparate
<1>4. /\ Good(L) /\ L.free = H.free \ {own}
      /\ \A c \in CPU : Entry(L, c) = Entry(H, c)
    BY <1>1, FreeIsSeparate
<1> HIDE DEF K, L
<1>5. Alike(H, K, own) /\ Shows(K, own, NoDeadline)
    BY <1>3 DEF Alike, Shows
<1>6. Alike(H, L, own)
    BY <1>4 DEF Alike
<1> QED BY <1>2, <1>5, <1>6 DEF K, L

\* rq_offline_dl
LEMMA RqOfflineAlike ==
    ASSUME NEW H, Good(H), NEW own \in CPU
    PROVE  Alike(H, RqOffline(H, own), own)
<1> DEFINE K == Clear(H, own)
<1>1. Alike(H, K, own)
    BY ClearShows
<1> HIDE DEF K
<1>2. Good(K)
    BY <1>1 DEF Alike
<1>3. Alike(K, ClearFreeCpu(K, own), own)
    BY <1>2, FreeShows
<1>4. Alike(H, ClearFreeCpu(K, own), own)
    BY <1>1, <1>3, AlikeTransitive
<1> QED BY <1>4 DEF RqOffline, K

\* What a run queue shows is what its tree and earliest_dl.curr say.
LEMMA QueueShown ==
    ASSUME Queues(on, deadline, earliest), NEW c \in CPU
    PROVE  /\ QueueDl(on, deadline, c) = NoDeadline <=> Queue(c) = {}
           /\ QueueDl(on, deadline, c) \in Deadlines \cup {NoDeadline}
           /\ Queue(c) # {} => earliest[c] = QueueDl(on, deadline, c)
                               /\ earliest[c] = Leftmost(Queue(c), deadline)
                               /\ earliest[c] \in Deadlines
           /\ Queue(c) = {} => earliest[c] = 0
<1>1. Timed(on, deadline, c)
    BY DEF Queues
<1>2. /\ QueueDl(on, deadline, c) \in Deadlines \cup {NoDeadline}
      /\ QueueDl(on, deadline, c) = NoDeadline <=> Tree(on, c) = {}
    BY <1>1, QueueDlFacts
<1>3. Queue(c) = Tree(on, c)
    BY DEF Queue, Tree
<1>4. earliest[c] = IF QueueDl(on, deadline, c) = NoDeadline THEN 0
                    ELSE QueueDl(on, deadline, c)
    BY DEF Queues
<1>5. Queue(c) # {} => QueueDl(on, deadline, c) = Leftmost(Queue(c), deadline)
    BY <1>3 DEF QueueDl
<1> QED BY <1>2, <1>3, <1>4, <1>5

\* rq_online_dl, also of a CPU that is in the heap.
LEMMA RqOnlineShows ==
    ASSUME Queues(on, deadline, earliest),
           NEW H, Good(H), NEW own \in CPU
    PROVE  /\ Alike(H, RqOnline(H, own), own)
           /\ Shows(RqOnline(H, own), own, QueueDl(on, deadline, own))
<1> DEFINE G == SetFreeCpu(H, own)
<1>1. Alike(H, G, own) /\ Shows(G, own, NoDeadline)
    BY FreeShows
<1> HIDE DEF G
<1>2. Good(G)
    BY <1>1 DEF Alike
<1>3. CASE Queue(own) = {}
    <2>1. RqOnline(H, own) = G /\ QueueDl(on, deadline, own) = NoDeadline
        BY <1>3, QueueShown DEF RqOnline, G
    <2> QED BY <1>1, <2>1
<1>4. CASE Queue(own) # {}
    <2>1. /\ RqOnline(H, own) = Set(G, own, earliest[own])
          /\ earliest[own] = QueueDl(on, deadline, own)
          /\ earliest[own] \in Deadlines
        BY <1>4, QueueShown DEF RqOnline, G
    <2>2. /\ Alike(G, Set(G, own, earliest[own]), own)
          /\ Shows(Set(G, own, earliest[own]), own, earliest[own])
        BY <1>2, <2>1, SetShows
    <2>3. Alike(H, Set(G, own, earliest[own]), own)
        BY <1>1, <2>2, AlikeTransitive
    <2> QED BY <2>1, <2>2, <2>3
<1> QED BY <1>3, <1>4

-----------------------------------------------------------------------------
(* Run queues and heaps together.                                          *)

\* Run queues that have the same tasks with the same deadlines show the same.
LEMMA SameQueueSameDl ==
    ASSUME NEW where, NEW dls, NEW w2, NEW d2, NEW c \in CPU,
           Timed(where, dls, c), Tree(w2, c) = Tree(where, c),
           \A t \in Tree(where, c) : d2[t] = dls[t]
    PROVE  QueueDl(w2, d2, c) = QueueDl(where, dls, c) /\ Timed(w2, d2, c)
<1> DEFINE tasks == Tree(where, c)
<1>1. Timed(w2, d2, c)
    BY DEF Timed
<1>2. CASE tasks = {}
    BY <1>1, <1>2 DEF QueueDl
<1>3. CASE tasks # {}
    <2>1. IsEarliest(QueueDl(where, dls, c), tasks, dls)
        BY <1>3, QueueDlFacts
    <2>2. IsEarliest(QueueDl(where, dls, c), tasks, d2)
        BY <2>1 DEF IsEarliest
    <2> QED BY <1>1, <2>2, QueueDlFacts
<1> QED BY <1>2, <1>3

\* CPUs other than own are attached where they were, are online when they were
\* and show what they did.
Others(own, attached, up, where, dls, a2, u2, w2, d2) ==
    \A c \in CPU : c # own =>
        /\ a2[c] = attached[c] /\ (c \in u2 <=> c \in up)
        /\ QueueDl(w2, d2, c) = QueueDl(where, dls, c)

\* A heap of which only what it records of one CPU changed.
LEMMA RecordsAfter ==
    ASSUME NEW r, NEW attached, NEW up, NEW where, NEW dls,
           NEW H, Records(H, r, attached, up, where, dls),
           NEW a2, NEW u2, NEW w2, NEW d2, NEW own, NEW K, Alike(H, K, own),
           Others(own, attached, up, where, dls, a2, u2, w2, d2),
           a2[own] = r /\ own \in u2 => Shows(K, own, QueueDl(w2, d2, own))
    PROVE  Records(K, r, a2, u2, w2, d2)
<1>1. Good(K)
    BY DEF Alike
<1>2. ASSUME NEW c \in CPU, c # own, a2[c] = r, c \in u2
      PROVE  Shows(K, c, QueueDl(w2, d2, c))
    <2>1. /\ Entry(K, c) = Entry(H, c)
          /\ c \in K.free <=> c \in H.free
        BY <1>2 DEF Alike
    <2>2. Shows(H, c, QueueDl(where, dls, c))
        BY <1>2 DEF Records, Others
    <2> QED BY <1>2, <2>1, <2>2 DEF Shows, Others
<1> QED BY <1>1, <1>2 DEF Records

\* A heap is like itself.
LEMMA AlikeSelf ==
    ASSUME NEW H, Good(H), NEW own
    PROVE  Alike(H, H, own)
BY DEF Alike

\* __enqueue_dl_entity of task t on a run queue, as a relation.
EnqueueRel(attached, hs, where, dls, early, hs2, w2, d2, e2, t, cpu, dl) ==
    /\ w2 = [where EXCEPT ![t] = cpu]
    /\ d2 \in [Task -> Deadlines \cup {0}] /\ d2[t] = dl
    /\ \A u \in Task : u # t => d2[u] = dls[u]
    /\ IF IncDlDeadline(early[cpu], dl)
       THEN /\ e2 = [early EXCEPT ![cpu] = dl]
            /\ hs2 = [hs EXCEPT ![attached[cpu]] =
                        Set(hs[attached[cpu]], cpu, dl)]
       ELSE e2 = early /\ hs2 = hs

\* Task t joins the run queue of CPU c.
Joins(where, dls, w2, d2, c, t) ==
    /\ Timed(where, dls, c) /\ t \notin Tree(where, c)
    /\ Tree(w2, c) = Tree(where, c) \cup {t} /\ d2[t] \in Deadlines
    /\ \A u \in Tree(where, c) : d2[u] = dls[u]

\* What the run queue shows after it: the new deadline when it leads.
Leads(where, dls, w2, d2, c, t) ==
    /\ Timed(w2, d2, c)
    /\ QueueDl(w2, d2, c) =
          IF QueueDl(where, dls, c) = NoDeadline
               \/ Before(d2[t], QueueDl(where, dls, c))
          THEN d2[t] ELSE QueueDl(where, dls, c)

\* What inc_dl_deadline finds.
LEMMA EnqueueDl ==
    ASSUME NEW where, NEW dls, NEW w2, NEW d2, NEW c \in CPU, NEW t,
           Joins(where, dls, w2, d2, c, t)
    PROVE  Leads(where, dls, w2, d2, c, t)
<1> DEFINE tasks == Tree(where, c)
           more == Tree(w2, c)
           q == QueueDl(where, dls, c)
<1>a. /\ Timed(where, dls, c) /\ t \notin Tree(where, c)
      /\ Tree(w2, c) = Tree(where, c) \cup {t} /\ d2[t] \in Deadlines
      /\ \A u \in Tree(where, c) : d2[u] = dls[u]
    BY DEF Joins
<1> USE <1>a
<1>1. Timed(w2, d2, c)
    BY DEF Timed
<1>2. \A d : IsEarliest(d, more, d2) => QueueDl(w2, d2, c) = d
    BY <1>1, QueueDlFacts
<1>3. CASE q = NoDeadline
    <2>1. tasks = {}
        BY <1>3, QueueDlFacts
    <2>2. IsEarliest(d2[t], more, d2)
        <3>1. ~Before(d2[t], d2[t])
            BY NotLaterOrder DEF NotLater
        <3>2. more = {t}
            BY <2>1
        <3> QED BY <3>1, <3>2 DEF IsEarliest
    <2> QED BY <1>1, <1>2, <1>3, <2>2 DEF Leads
<1>4. CASE q # NoDeadline
    <2>1. IsEarliest(q, tasks, dls)
        BY <1>4, QueueDlFacts
    <2>2. /\ q \in Deadlines /\ \A u \in tasks : ~Before(dls[u], q)
          /\ \E u \in tasks : dls[u] = q
        BY <2>1 DEF IsEarliest
    <2>3. \A u \in tasks : d2[u] = dls[u] /\ dls[u] \in Deadlines
        BY DEF Timed
    <2> HIDE DEF q
    <2>4. CASE Before(d2[t], q)
        <3>1. \A u \in tasks : NotLater(d2[t], d2[u])
            BY <2>2, <2>3, <2>4, NotLaterOrder DEF NotLater
        <3>2. NotLater(d2[t], d2[t])
            BY NotLaterOrder
        <3>3. IsEarliest(d2[t], more, d2)
            BY <3>1, <3>2 DEF IsEarliest, NotLater
        <3> QED BY <1>1, <1>2, <2>4, <3>3 DEF q, Leads
    <2>5. CASE ~Before(d2[t], q)
        <3>1. IsEarliest(q, more, d2)
            BY <2>2, <2>3, <2>5 DEF IsEarliest
        <3> QED BY <1>1, <1>2, <1>4, <2>5, <3>1 DEF q, Leads
    <2> QED BY <2>4, <2>5
<1> QED BY <1>3, <1>4

\* Enqueueing keeps run queues and heaps in agreement.
LEMMA EnqueueKeeps ==
    ASSUME NEW attached \in [CPU -> RootDomain], NEW up,
           NEW hs, NEW where, NEW dls, NEW early,
           Queues(where, dls, early), Heaps(hs, attached, up, where, dls),
           NEW t \in Task, where[t] = NoCpu, NEW cpu \in CPU,
           NEW dl \in Deadlines, NEW hs2, NEW w2, NEW d2, NEW e2,
           EnqueueRel(attached, hs, where, dls, early, hs2, w2, d2, e2,
                      t, cpu, dl)
    PROVE  Queues(w2, d2, e2) /\ Heaps(hs2, attached, up, w2, d2)
<1> DEFINE q(c) == QueueDl(where, dls, c)
           q2(c) == QueueDl(w2, d2, c)
           r0 == attached[cpu]
           inc == IncDlDeadline(early[cpu], dl)
<1>1. /\ where \in [Task -> CPU \cup {NoCpu}]
      /\ early \in [CPU -> Deadlines \cup {0}]
      /\ \A c \in CPU : Timed(where, dls, c)
      /\ \A c \in CPU : early[c] = IF q(c) = NoDeadline THEN 0 ELSE q(c)
    BY DEF Queues
<1>2. /\ w2 = [where EXCEPT ![t] = cpu]
      /\ d2 \in [Task -> Deadlines \cup {0}] /\ d2[t] = dl
      /\ \A u \in Task : u # t => d2[u] = dls[u]
    BY DEF EnqueueRel
<1>3. NoCpu \notin CPU /\ 0 \notin Deadlines /\ NoDeadline \notin Deadlines
    BY DlRootAssumption, CpudlAssumption, SMT DEF NoDeadline
<1>4. \A c \in CPU : /\ t \notin Tree(where, c)
                     /\ c # cpu => Tree(w2, c) = Tree(where, c)
                     /\ c = cpu => Tree(w2, c) = Tree(where, c) \cup {t}
                     /\ \A u \in Tree(where, c) : d2[u] = dls[u]
    BY <1>1, <1>2, <1>3, SMT DEF Tree
<1>5. ASSUME NEW c \in CPU, c # cpu
      PROVE  q2(c) = q(c) /\ Timed(w2, d2, c)
    BY <1>1, <1>4, <1>5, SameQueueSameDl
<1>6. /\ Timed(w2, d2, cpu)
      /\ q2(cpu) = IF q(cpu) = NoDeadline \/ Before(d2[t], q(cpu))
                   THEN d2[t] ELSE q(cpu)
    <2>1. Joins(where, dls, w2, d2, cpu, t)
        BY <1>1, <1>2, <1>4 DEF Joins
    <2>2. Leads(where, dls, w2, d2, cpu, t)
        BY <2>1, EnqueueDl
    <2> QED BY <2>2 DEF Leads
<1>7. q(cpu) \in Deadlines \cup {NoDeadline}
    BY <1>1, QueueDlFacts
<1>8. inc <=> q(cpu) = NoDeadline \/ Before(dl, q(cpu))
    BY <1>1, <1>3, <1>7 DEF IncDlDeadline
<1>9. q2(cpu) = IF inc THEN dl ELSE q(cpu)
    BY <1>2, <1>6, <1>8
<1>10. /\ inc => e2 = [early EXCEPT ![cpu] = dl]
       /\ inc => hs2 = [hs EXCEPT ![r0] = Set(hs[r0], cpu, dl)]
       /\ ~inc => e2 = early /\ hs2 = hs
    BY DEF EnqueueRel
<1> HIDE DEF inc, q, q2
<1>11. e2 \in [CPU -> Deadlines \cup {0}]
    BY <1>1, <1>10
<1>12. \A c \in CPU : e2[c] = IF q2(c) = NoDeadline THEN 0 ELSE q2(c)
    <2>1. ASSUME NEW c \in CPU, c # cpu
          PROVE  e2[c] = early[c] /\ q2(c) = q(c)
        BY <2>1, <1>1, <1>5, <1>10
    <2>2. CASE inc
        <3>1. e2[cpu] = dl /\ q2(cpu) = dl /\ dl # NoDeadline
            BY <2>2, <1>1, <1>3, <1>9, <1>10
        <3> QED BY <2>1, <3>1, <1>1
    <2>3. CASE ~inc
        BY <2>1, <2>3, <1>1, <1>9, <1>10
    <2> QED BY <2>2, <2>3
<1>13. w2 \in [Task -> CPU \cup {NoCpu}]
    BY <1>1, <1>2
<1>15. \A c \in CPU : Timed(w2, d2, c)
    BY <1>5, <1>6
<1>16. Queues(w2, d2, e2)
    BY <1>2, <1>11, <1>12, <1>13, <1>15 DEF Queues, q2
<1>17. r0 \in RootDomain /\ hs \in [RootDomain -> HeapType]
       /\ \A r \in RootDomain : Records(hs[r], r, attached, up, where, dls)
    BY DEF Heaps
<1>18. /\ \A r \in RootDomain : Good(hs[r])
       /\ cpu \in up => Shows(hs[r0], cpu, q(cpu))
    BY <1>17 DEF Records, q
<1> HIDE DEF r0
<1>19. ASSUME NEW r \in RootDomain, NEW K, Alike(hs[r], K, cpu),
              r = r0 /\ cpu \in up => Shows(K, cpu, q2(cpu))
       PROVE  Records(K, r, attached, up, w2, d2)
    <2>1. Records(hs[r], r, attached, up, where, dls)
        BY <1>17
    <2>2. Others(cpu, attached, up, where, dls, attached, up, w2, d2)
        BY <1>5 DEF q, q2, Others
    <2>3. attached[cpu] = r /\ cpu \in up => Shows(K, cpu, QueueDl(w2, d2, cpu))
        BY <1>19 DEF r0, q2
    <2> QED BY <1>19, <2>1, <2>2, <2>3, RecordsAfter
<1>20. ASSUME NEW r \in RootDomain
       PROVE  /\ hs2[r] \in HeapType
              /\ Alike(hs[r], hs2[r], cpu)
              /\ r = r0 /\ cpu \in up => Shows(hs2[r], cpu, q2(cpu))
    <2>1. CASE inc /\ r = r0
        <3>1. hs2[r] = Set(hs[r], cpu, dl)
            BY <2>1, <1>10, <1>17
        <3>2. /\ Alike(hs[r], Set(hs[r], cpu, dl), cpu)
              /\ Shows(Set(hs[r], cpu, dl), cpu, dl)
            BY <1>18, SetShows
        <3>3. Set(hs[r], cpu, dl) \in HeapType
            BY <3>2 DEF Alike, Good
        <3> QED BY <2>1, <3>1, <3>2, <3>3, <1>9
    <2>2. CASE ~(inc /\ r = r0)
        <3>1. hs2[r] = hs[r]
            BY <2>2, <1>10, <1>17
        <3>2. r = r0 => q2(cpu) = q(cpu)
            BY <2>2, <1>9
        <3>3. Alike(hs[r], hs[r], cpu)
            BY <1>18, AlikeSelf
        <3> QED BY <3>1, <3>2, <3>3, <1>17, <1>18
    <2> QED BY <2>1, <2>2
<1>21. hs2 \in [RootDomain -> HeapType]
    <2>1. hs2 = [r \in RootDomain |-> hs2[r]]
        BY <1>10, <1>17
    <2> QED BY <2>1, <1>20
<1>22. Heaps(hs2, attached, up, w2, d2)
    BY <1>19, <1>20, <1>21 DEF Heaps
<1> QED BY <1>16, <1>22

\* __dequeue_dl_entity of task t from a run queue, as a relation.
DequeueRel(attached, hs, where, dls, early, hs2, w2, d2, e2, t, cpu) ==
    /\ w2 = [where EXCEPT ![t] = NoCpu]
    /\ d2 \in [Task -> Deadlines \cup {0}]
    /\ \A u \in Task : u # t => d2[u] = dls[u]
    /\ e2 = [early EXCEPT ![cpu] = DecEarliest(Tree(where, cpu) \ {t}, dls)]
    /\ hs2 = [hs EXCEPT ![attached[cpu]] =
                DecHeap(hs[attached[cpu]], cpu, Tree(where, cpu) \ {t}, dls)]

\* Tasks whose deadlines are the same.
Agree(tasks, dls, d2) == \A u \in tasks : d2[u] = dls[u]

\* What the run queue shows after it.
LEMMA DequeueDl ==
    ASSUME NEW where, NEW dls, NEW w2, NEW d2, NEW c \in CPU, NEW left,
           Timed(where, dls, c), left \subseteq Tree(where, c),
           Tree(w2, c) = left, Agree(left, dls, d2)
    PROVE  /\ Timed(w2, d2, c)
           /\ QueueDl(w2, d2, c) = IF left = {} THEN NoDeadline
                                   ELSE Leftmost(left, dls)
           /\ left # {} => Leftmost(left, dls) \in Deadlines
<1>1. Timed(w2, d2, c) /\ left \subseteq Task
    BY DEF Timed, Tree, Agree
<1>2. CASE left = {}
    BY <1>1, <1>2 DEF QueueDl
<1>3. CASE left # {}
    <2>1. \A u \in left : dls[u] \in Deadlines
        BY DEF Timed
    <2>2. IsEarliest(Leftmost(left, dls), left, dls)
        BY <1>1, <1>3, <2>1, LeftmostIsEarliest
    <2>3. IsEarliest(Leftmost(left, dls), left, d2)
        BY <2>2 DEF IsEarliest, Agree
    <2>4. Leftmost(left, dls) \in Deadlines
        BY <2>2 DEF IsEarliest
    <2> QED BY <1>1, <1>3, <2>3, <2>4, QueueDlFacts
<1> QED BY <1>2, <1>3

\* Dequeueing keeps run queues and heaps in agreement.
LEMMA DequeueKeeps ==
    ASSUME NEW attached \in [CPU -> RootDomain], NEW up,
           NEW hs, NEW where, NEW dls, NEW early,
           Queues(where, dls, early), Heaps(hs, attached, up, where, dls),
           NEW t \in Task, NEW cpu \in CPU, where[t] = cpu,
           NEW hs2, NEW w2, NEW d2, NEW e2,
           DequeueRel(attached, hs, where, dls, early, hs2, w2, d2, e2, t, cpu)
    PROVE  Queues(w2, d2, e2) /\ Heaps(hs2, attached, up, w2, d2)
<1> DEFINE q(c) == QueueDl(where, dls, c)
           q2(c) == QueueDl(w2, d2, c)
           r0 == attached[cpu]
           left == Tree(where, cpu) \ {t}
<1>1. /\ where \in [Task -> CPU \cup {NoCpu}]
      /\ early \in [CPU -> Deadlines \cup {0}]
      /\ \A c \in CPU : Timed(where, dls, c)
      /\ \A c \in CPU : early[c] = IF q(c) = NoDeadline THEN 0 ELSE q(c)
    BY DEF Queues
<1>2. /\ w2 = [where EXCEPT ![t] = NoCpu]
      /\ d2 \in [Task -> Deadlines \cup {0}]
      /\ \A u \in Task : u # t => d2[u] = dls[u]
      /\ e2 = [early EXCEPT ![cpu] = DecEarliest(left, dls)]
      /\ hs2 = [hs EXCEPT ![r0] = DecHeap(hs[r0], cpu, left, dls)]
    BY DEF DequeueRel
<1>3. NoCpu \notin CPU /\ 0 \notin Deadlines /\ NoDeadline \notin Deadlines
    BY DlRootAssumption, CpudlAssumption, SMT DEF NoDeadline
<1>4. \A c \in CPU : /\ c # cpu => Tree(w2, c) = Tree(where, c)
                                   /\ t \notin Tree(where, c)
                     /\ c = cpu => Tree(w2, c) = left
                     /\ \A u \in Tree(where, c) : u # t => d2[u] = dls[u]
    BY <1>1, <1>2, <1>3, SMT DEF Tree
<1>5. ASSUME NEW c \in CPU, c # cpu
      PROVE  q2(c) = q(c) /\ Timed(w2, d2, c)
    <2>1. \A u \in Tree(where, c) : d2[u] = dls[u]
        BY <1>4, <1>5
    <2> QED BY <1>1, <1>4, <1>5, <2>1, SameQueueSameDl
<1>6. /\ Timed(w2, d2, cpu)
      /\ q2(cpu) = IF left = {} THEN NoDeadline ELSE Leftmost(left, dls)
      /\ left # {} => Leftmost(left, dls) \in Deadlines
    <2>1. /\ Timed(where, dls, cpu) /\ left \subseteq Tree(where, cpu)
          /\ Tree(w2, cpu) = left /\ Agree(left, dls, d2)
        BY <1>1, <1>4 DEF Agree
    <2> HIDE DEF left
    <2> QED BY <2>1, DequeueDl, SMT
<1> HIDE DEF q, q2, left
<1>8. DecEarliest(left, dls) = IF q2(cpu) = NoDeadline THEN 0 ELSE q2(cpu)
    BY <1>3, <1>6 DEF DecEarliest
<1>9. DecEarliest(left, dls) \in Deadlines \cup {0}
    BY <1>6 DEF DecEarliest
<1>10. e2 \in [CPU -> Deadlines \cup {0}]
    BY <1>1, <1>2, <1>9
<1>11. \A c \in CPU : e2[c] = IF q2(c) = NoDeadline THEN 0 ELSE q2(c)
    BY <1>1, <1>2, <1>5, <1>8
<1>12. w2 \in [Task -> CPU \cup {NoCpu}]
    BY <1>1, <1>2
<1>14. \A c \in CPU : Timed(w2, d2, c)
    BY <1>5, <1>6
<1>15. Queues(w2, d2, e2)
    BY <1>2, <1>10, <1>11, <1>12, <1>14 DEF Queues, q2
<1>16. r0 \in RootDomain /\ hs \in [RootDomain -> HeapType]
       /\ \A r \in RootDomain : Records(hs[r], r, attached, up, where, dls)
    BY DEF Heaps
<1>17. /\ \A r \in RootDomain : Good(hs[r])
       /\ cpu \in up => Shows(hs[r0], cpu, q(cpu))
    BY <1>16 DEF Records, q
<1> HIDE DEF r0
<1>18. ASSUME NEW r \in RootDomain, NEW K, Alike(hs[r], K, cpu),
              r = r0 /\ cpu \in up => Shows(K, cpu, q2(cpu))
       PROVE  Records(K, r, attached, up, w2, d2)
    <2>1. Records(hs[r], r, attached, up, where, dls)
        BY <1>16
    <2>2. Others(cpu, attached, up, where, dls, attached, up, w2, d2)
        BY <1>5 DEF q, q2, Others
    <2>3. attached[cpu] = r /\ cpu \in up => Shows(K, cpu, QueueDl(w2, d2, cpu))
        BY <1>18 DEF r0, q2
    <2> QED BY <1>18, <2>1, <2>2, <2>3, RecordsAfter
<1>19. ASSUME NEW r \in RootDomain
       PROVE  /\ hs2[r] \in HeapType
              /\ Alike(hs[r], hs2[r], cpu)
              /\ r = r0 /\ cpu \in up => Shows(hs2[r], cpu, q2(cpu))
    <2>1. CASE r = r0 /\ left = {}
        <3>1. hs2[r] = Clear(hs[r], cpu)
            BY <2>1, <1>2, <1>16 DEF DecHeap
        <3>2. /\ Alike(hs[r], Clear(hs[r], cpu), cpu)
              /\ cpu \in up => Shows(Clear(hs[r], cpu), cpu, NoDeadline)
            BY <2>1, <1>17, ClearShows
        <3>3. Clear(hs[r], cpu) \in HeapType
            BY <3>2 DEF Alike, Good
        <3> QED BY <2>1, <3>1, <3>2, <3>3, <1>6
    <2>2. CASE r = r0 /\ left # {}
        <3> DEFINE d == Leftmost(left, dls)
        <3>1. hs2[r] = Set(hs[r], cpu, d)
            BY <2>2, <1>2, <1>16 DEF DecHeap
        <3>2. d \in Deadlines /\ q2(cpu) = d
            BY <2>2, <1>6
        <3> HIDE DEF d
        <3>3. Alike(hs[r], Set(hs[r], cpu, d), cpu) /\ Shows(Set(hs[r], cpu, d), cpu, d)
            BY <3>2, <1>17, SetShows
        <3>4. Set(hs[r], cpu, d) \in HeapType
            BY <3>3 DEF Alike, Good
        <3> QED BY <2>2, <3>1, <3>2, <3>3, <3>4
    <2>3. CASE r # r0
        <3>1. hs2[r] = hs[r]
            BY <2>3, <1>2, <1>16
        <3>2. Alike(hs[r], hs[r], cpu)
            BY <1>17, AlikeSelf
        <3> QED BY <2>3, <3>1, <3>2, <1>16, <1>17
    <2> QED BY <2>1, <2>2, <2>3
<1>20. hs2 \in [RootDomain -> HeapType]
    <2>1. hs2 = [r \in RootDomain |-> hs2[r]]
        BY <1>2, <1>16
    <2> QED BY <2>1, <1>19
<1>21. Heaps(hs2, attached, up, w2, d2)
    BY <1>18, <1>19, <1>20 DEF Heaps
<1> QED BY <1>15, <1>21

\* What is recorded of one CPU changes in the heap of the root domain it is
\* attached to, if it is online after that.
LEMMA HeapsAfter ==
    ASSUME NEW hs, NEW attached, NEW up, NEW where, NEW dls,
           Heaps(hs, attached, up, where, dls),
           NEW a2, NEW u2, NEW own \in CPU, NEW r0 \in RootDomain, NEW K,
           Alike(hs[r0], K, own),
           Others(own, attached, up, where, dls, a2, u2, where, dls),
           own \in u2 => a2[own] = r0 /\ Shows(K, own, QueueDl(where, dls, own))
    PROVE  Heaps([hs EXCEPT ![r0] = K], a2, u2, where, dls)
<1> DEFINE h2 == [hs EXCEPT ![r0] = K]
<1>1. /\ hs \in [RootDomain -> HeapType]
      /\ \A r \in RootDomain : Records(hs[r], r, attached, up, where, dls)
    BY DEF Heaps
<1>2. K \in HeapType
    BY DEF Alike, Good
<1>3. /\ h2 \in [RootDomain -> HeapType] /\ h2[r0] = K
      /\ \A r \in RootDomain : r # r0 => h2[r] = hs[r]
    BY <1>1, <1>2
<1> HIDE DEF h2
<1>4. ASSUME NEW r \in RootDomain PROVE Records(h2[r], r, a2, u2, where, dls)
    <2>1. Records(hs[r], r, attached, up, where, dls)
        BY <1>1
    <2>2. CASE r = r0
        BY <2>1, <2>2, <1>3, RecordsAfter
    <2>3. CASE r # r0
        <3>1. Alike(hs[r], hs[r], own)
            BY <2>1, AlikeSelf DEF Records
        <3>2. ~(a2[own] = r /\ own \in u2)
            BY <2>3
        <3>3. Records(hs[r], r, a2, u2, where, dls)
            BY <2>1, <3>1, <3>2, RecordsAfter
        <3> QED BY <2>3, <3>3, <1>3
    <2> QED BY <2>2, <2>3
<1>5. Heaps(h2, a2, u2, where, dls)
    BY <1>3, <1>4 DEF Heaps
<1> QED BY <1>5 DEF h2

-----------------------------------------------------------------------------
(* The steps.                                                              *)

\* sched_init: every CPU is free.
LEMMA InitKeeps == Init => IInv
<1> SUFFICES ASSUME Init PROVE IInv
    OBVIOUS
<1>1. NoCpu \notin CPU /\ Def \in RootDomain
    BY DlRootAssumption
<1> DEFINE K == [Fresh EXCEPT !.free = CPU]
<1>2. /\ rd = [c \in CPU |-> Def] /\ active = CPU /\ online = CPU
      /\ on = [t \in Task |-> NoCpu] /\ deadline = [t \in Task |-> 0]
      /\ earliest = [c \in CPU |-> 0]
      /\ heaps = [r \in RootDomain |-> IF r = Def THEN K ELSE Fresh]
    BY DEF Init
<1>3. rd \in [CPU -> RootDomain] /\ online \subseteq CPU /\ active \subseteq CPU
    BY <1>1, <1>2
<1>4. \A c \in CPU : Tree(on, c) = {}
    BY <1>1, <1>2 DEF Tree
<1>5. \A c \in CPU : QueueDl(on, deadline, c) = NoDeadline /\ Timed(on, deadline, c)
    BY <1>4 DEF QueueDl, Timed
<1>6. Queues(on, deadline, earliest)
    BY <1>2, <1>5 DEF Queues
<1>7. Good(Fresh)
    BY FreshGood
<1>8. Good(K) /\ K.free = CPU
    <2>1. K = WithFree(Fresh, CPU) /\ CPU \in SUBSET CPU
        BY DEF WithFree
    <2>2. Good(WithFree(Fresh, CPU)) /\ WithFree(Fresh, CPU).free = CPU
        BY <1>7, <2>1, FreeIsSeparate
    <2> QED BY <2>1, <2>2
<1> HIDE DEF K
<1>9. heaps \in [RootDomain -> HeapType]
    BY <1>2, <1>7, <1>8 DEF Good
<1>10. ASSUME NEW r \in RootDomain
       PROVE  Records(heaps[r], r, rd, online, on, deadline)
    <2>1. CASE r = Def
        <3>1. heaps[r] = K
            BY <2>1, <1>2
        <3>2. \A c \in CPU : Shows(K, c, QueueDl(on, deadline, c))
            BY <1>5, <1>8 DEF Shows
        <3> QED BY <3>1, <3>2, <1>8 DEF Records
    <2>2. CASE r # Def
        <3>1. heaps[r] = Fresh /\ \A c \in CPU : rd[c] # r
            BY <2>2, <1>2
        <3> QED BY <3>1, <1>7 DEF Records
    <2> QED BY <2>1, <2>2
<1>11. Heaps(heaps, rd, online, on, deadline)
    BY <1>9, <1>10 DEF Heaps
<1> QED BY <1>3, <1>6, <1>11 DEF IInv

\* __enqueue_dl_entity
LEMMA EnqueueStep ==
    ASSUME IInv, NEW t \in Task, NEW cpu \in CPU, NEW dl \in Deadlines,
           Enqueue(t, cpu, dl)
    PROVE  IInv'
<1>1. /\ rd \in [CPU -> RootDomain] /\ Queues(on, deadline, earliest)
      /\ Heaps(heaps, rd, online, on, deadline)
      /\ on[t] = NoCpu
      /\ online' = online /\ active' = active /\ rd' = rd
    BY DEF IInv, Enqueue
<1>2. EnqueueRel(rd, heaps, on, deadline, earliest,
                 heaps', on', deadline', earliest', t, cpu, dl)
    <2>1. deadline \in [Task -> Deadlines \cup {0}]
        BY <1>1 DEF Queues
    <2> QED BY <2>1 DEF Enqueue, EnqueueRel
<1>3. /\ Queues(on', deadline', earliest')
      /\ Heaps(heaps', rd, online, on', deadline')
    BY <1>1, <1>2, EnqueueKeeps
<1> QED BY <1>1, <1>3 DEF IInv

\* __dequeue_dl_entity
LEMMA DequeueStep ==
    ASSUME IInv, NEW t \in Task, Dequeue(t)
    PROVE  IInv'
<1> DEFINE cpu == on[t]
<1>1. /\ rd \in [CPU -> RootDomain] /\ Queues(on, deadline, earliest)
      /\ Heaps(heaps, rd, online, on, deadline)
      /\ online' = online /\ active' = active /\ rd' = rd
    BY DEF IInv, Dequeue
<1>2. cpu \in CPU /\ deadline \in [Task -> Deadlines \cup {0}]
    BY <1>1 DEF Queues, Dequeue
<1>3. DequeueRel(rd, heaps, on, deadline, earliest,
                 heaps', on', deadline', earliest', t, cpu)
    BY <1>2 DEF Dequeue, DequeueRel, Queue, Tree
<1>4. /\ Queues(on', deadline', earliest')
      /\ Heaps(heaps', rd, online, on', deadline')
    BY <1>1, <1>2, <1>3, DequeueKeeps
<1> QED BY <1>1, <1>4 DEF IInv

\* sched_cpu_activate
LEMMA ActivateStep ==
    ASSUME IInv, NEW cpu \in CPU, Activate(cpu)
    PROVE  IInv'
<1> DEFINE r0 == rd[cpu]
           K == RqOnline(heaps[r0], cpu)
<1>1. /\ rd \in [CPU -> RootDomain] /\ Queues(on, deadline, earliest)
      /\ online \subseteq CPU /\ active \subseteq CPU
      /\ Heaps(heaps, rd, online, on, deadline)
    BY DEF IInv
<1>2. /\ active' = active \cup {cpu} /\ online' = online \cup {cpu}
      /\ heaps' = IF cpu \in online THEN heaps ELSE [heaps EXCEPT ![r0] = K]
      /\ rd' = rd /\ on' = on /\ deadline' = deadline /\ earliest' = earliest
    BY DEF Activate
<1>3. r0 \in RootDomain
    BY <1>1
<1>4. Alike(heaps[r0], K, cpu) /\ Shows(K, cpu, QueueDl(on, deadline, cpu))
    <2>1. Good(heaps[r0])
        BY <1>1, <1>3 DEF Heaps, Records
    <2> QED BY <1>1, <2>1, RqOnlineShows
<1>5. Others(cpu, rd, online, on, deadline, rd, online', on, deadline)
    BY <1>2 DEF Others
<1> HIDE DEF K
<1>6. Heaps(heaps', rd, online', on, deadline)
    <2>1. CASE cpu \in online
        <3>1. online' = online /\ heaps' = heaps
            BY <2>1, <1>2
        <3> QED BY <1>1, <3>1
    <2>2. CASE cpu \notin online
        <3>1. Heaps([heaps EXCEPT ![r0] = K], rd, online', on, deadline)
            BY <1>1, <1>3, <1>4, <1>5, HeapsAfter
        <3> QED BY <2>2, <1>2, <3>1
    <2> QED BY <2>1, <2>2
<1>7. online' \subseteq CPU /\ active' \subseteq CPU
    BY <1>1, <1>2
<1> QED BY <1>1, <1>2, <1>6, <1>7 DEF IInv

\* sched_cpu_deactivate
LEMMA DeactivateStep ==
    ASSUME IInv, NEW cpu \in CPU, Deactivate(cpu)
    PROVE  IInv'
BY DEF IInv, Deactivate

\* rq_attach_root leaves a root domain: its heap, or the fresh one that takes
\* its place when nobody is left, records what it did of the others.
LEMMA LeavesRoot ==
    ASSUME IInv, NEW cpu \in CPU, NEW old \in RootDomain, rd[cpu] = old,
           NEW left, left \in {RqOffline(heaps[old], cpu), heaps[old]}
                     \/ (left = Fresh /\ \A c \in CPU \ {cpu} : rd[c] # old)
    PROVE  Heaps([heaps EXCEPT ![old] = left], rd, online \ {cpu}, on, deadline)
<1> DEFINE up == online \ {cpu}
<1>1. Heaps(heaps, rd, online, on, deadline)
    BY DEF IInv
<1>2. Good(heaps[old])
    BY <1>1 DEF Heaps, Records
<1>3. Others(cpu, rd, online, on, deadline, rd, up, on, deadline)
    BY DEF Others
<1>4. cpu \notin up
    OBVIOUS
<1> HIDE DEF up
<1>5. CASE left \in {RqOffline(heaps[old], cpu), heaps[old]}
    <2>1. Alike(heaps[old], left, cpu)
        BY <1>2, <1>5, RqOfflineAlike, AlikeSelf
    <2>2. Heaps([heaps EXCEPT ![old] = left], rd, up, on, deadline)
        BY <1>1, <1>3, <1>4, <2>1, HeapsAfter
    <2> QED BY <2>2 DEF up
<1>6. CASE left = Fresh /\ \A c \in CPU \ {cpu} : rd[c] # old
    <2> DEFINE h2 == [heaps EXCEPT ![old] = left]
    <2>1. /\ heaps \in [RootDomain -> HeapType]
          /\ \A r \in RootDomain : Records(heaps[r], r, rd, online, on, deadline)
        BY <1>1 DEF Heaps
    <2>2. Good(left) /\ left \in HeapType
        BY <1>6, FreshGood DEF Good
    <2>3. /\ h2 \in [RootDomain -> HeapType] /\ h2[old] = left
          /\ \A r \in RootDomain : r # old => h2[r] = heaps[r]
        BY <2>1, <2>2
    <2> HIDE DEF h2
    <2>4. \A c \in up : c \in online /\ c # cpu
        BY DEF up
    <2>5. Records(h2[old], old, rd, up, on, deadline)
        BY <1>6, <2>2, <2>3, <2>4 DEF Records
    <2>6. \A r \in RootDomain : r # old => Records(h2[r], r, rd, up, on, deadline)
        BY <2>1, <2>3, <2>4 DEF Records
    <2>7. Heaps(h2, rd, up, on, deadline)
        BY <2>3, <2>5, <2>6 DEF Heaps
    <2> QED BY <2>7 DEF up, h2
<1> QED BY <1>5, <1>6

\* rq_attach_root
LEMMA AttachStep ==
    ASSUME IInv, NEW cpu \in CPU, NEW r \in RootDomain, Attach(cpu, r)
    PROVE  IInv'
<1> DEFINE old == rd[cpu]
           left == IF old # Def /\ \A c \in CPU \ {cpu} : rd[c] # old
                   THEN Fresh
                   ELSE IF cpu \in online THEN RqOffline(heaps[old], cpu)
                   ELSE heaps[old]
           moved == [heaps EXCEPT ![old] = left]
           up == online \ {cpu}
           K == RqOnline(moved[r], cpu)
<1>1. /\ rd \in [CPU -> RootDomain] /\ Queues(on, deadline, earliest)
      /\ online \subseteq CPU /\ active \subseteq CPU
    BY DEF IInv
<1>2. /\ rd' = [rd EXCEPT ![cpu] = r] /\ active' = active
      /\ online' = IF cpu \in active THEN online \cup {cpu} ELSE up
      /\ heaps' = IF cpu \in active THEN [moved EXCEPT ![r] = K] ELSE moved
      /\ on' = on /\ deadline' = deadline /\ earliest' = earliest
    BY DEF Attach
<1>3. old \in RootDomain
    BY <1>1
<1>4. \/ left \in {RqOffline(heaps[old], cpu), heaps[old]}
      \/ left = Fresh /\ \A c \in CPU \ {cpu} : rd[c] # old
    OBVIOUS
<1> HIDE DEF left
<1>5. Heaps(moved, rd, up, on, deadline)
    BY <1>3, <1>4, LeavesRoot
<1> HIDE DEF moved
<1>6. \A c \in CPU : c # cpu => rd'[c] = rd[c] /\ (c \in online' <=> c \in up)
    BY <1>1, <1>2
<1>7. rd'[cpu] = r /\ (cpu \in online' <=> cpu \in active)
    BY <1>1, <1>2
<1>8. cpu \notin up
    OBVIOUS
<1> HIDE DEF up
<1>9. Heaps(heaps', rd', online', on, deadline)
    <2>1. CASE cpu \in active
        <3>1. Good(moved[r])
            BY <1>5 DEF Heaps, Records
        <3>2. Alike(moved[r], K, cpu) /\ Shows(K, cpu, QueueDl(on, deadline, cpu))
            BY <1>1, <3>1, RqOnlineShows
        <3> HIDE DEF K
        <3>3. Others(cpu, rd, up, on, deadline, rd', online', on, deadline)
            BY <1>6 DEF Others
        <3>4. Heaps([moved EXCEPT ![r] = K], rd', online', on, deadline)
            BY <1>5, <1>7, <3>2, <3>3, HeapsAfter
        <3> QED BY <2>1, <1>2, <3>4
    <2>2. CASE cpu \notin active
        <3>1. heaps' = moved /\ online' = up
            BY <2>2, <1>2
        <3>2. \A x \in RootDomain : Records(moved[x], x, rd', up, on, deadline)
            BY <1>5, <1>6, <1>8 DEF Heaps, Records
        <3> QED BY <1>5, <3>1, <3>2 DEF Heaps
    <2> QED BY <2>1, <2>2
<1>10. rd' \in [CPU -> RootDomain] /\ online' \subseteq CPU /\ active' \subseteq CPU
    BY <1>1, <1>2 DEF up
<1> QED BY <1>1, <1>2, <1>9, <1>10 DEF IInv

-----------------------------------------------------------------------------
(* A run queue that dies.                                                  *)

\* The state of migrate_tasks, and what each of its turns keeps: run queues
\* and heaps agree, and every task left has another CPU to go to.
MigrateState ==
    [heaps : [RootDomain -> HeapType], on : [Task -> CPU \cup {NoCpu}],
     deadline : [Task -> Deadlines \cup {0}],
     earliest : [CPU -> Deadlines \cup {0}], others : BOOLEAN]

Moving(S, cpu, up, dls, dest) ==
    /\ S \in MigrateState /\ S.deadline = dls
    /\ Queues(S.on, dls, S.earliest)
    /\ Heaps(S.heaps, rd, up, S.on, dls)
    /\ \A t \in Tree(S.on, cpu) : dest[t] \in CPU \ {cpu}

\* A turn of migrate_tasks: the task is dequeued here and enqueued there.
LEMMA MigrateOneKeeps ==
    ASSUME rd \in [CPU -> RootDomain],
           NEW cpu \in CPU, NEW up \in SUBSET CPU,
           NEW dls, NEW dest, NEW S, Moving(S, cpu, up, dls, dest)
    PROVE  Moving(MigrateOne(S, cpu, dest), cpu, up, dls, dest)
<1> DEFINE mine == Tree(S.on, cpu)
           t == CHOOSE u \in mine : \A v \in mine :
                    ~Before(S.deadline[v], S.deadline[u])
           to == dest[t]
           left == mine \ {t}
           gone == [S.heaps EXCEPT
                      ![rd[cpu]] = DecHeap(S.heaps[rd[cpu]], cpu, left, S.deadline)]
           early == [S.earliest EXCEPT ![cpu] = DecEarliest(left, S.deadline)]
           lead == IncDlDeadline(early[to], S.deadline[t])
           e2 == IF lead THEN [early EXCEPT ![to] = S.deadline[t]] ELSE early
           h2 == IF lead
                 THEN [gone EXCEPT ![rd[to]] = Set(gone[rd[to]], to, S.deadline[t])]
                 ELSE gone
           w1 == [S.on EXCEPT ![t] = NoCpu]
           w2 == [S.on EXCEPT ![t] = to]
           stay == mine = {} \/ (~S.others /\ Cardinality(mine) = 1)
<1>1. /\ S \in MigrateState /\ S.deadline = dls
      /\ Queues(S.on, dls, S.earliest) /\ Heaps(S.heaps, rd, up, S.on, dls)
      /\ \A v \in mine : dest[v] \in CPU \ {cpu}
    BY DEF Moving
<1>2. MigrateOne(S, cpu, dest) =
        IF stay THEN S
        ELSE [S EXCEPT !.on = w2, !.earliest = e2, !.heaps = h2]
    BY DEF MigrateOne, Tree
<1>3. CASE stay
    BY <1>2, <1>3
<1>4. CASE ~stay
    <2>1. mine # {} /\ mine \subseteq Task /\ \A v \in mine : dls[v] \in Deadlines
        BY <1>1, <1>4 DEF Tree, Queues, Timed
    <2>2. \E u \in mine : \A v \in mine : ~Before(dls[v], dls[u])
        <3>1. IsFiniteSet(mine)
            BY <2>1, DlRootAssumption, FS_Subset
        <3> QED BY <2>1, <3>1, EarliestExists
    <2>3. t \in mine
        BY <1>1, <2>2
    <2> HIDE DEF t
    <2>4. t \in Task /\ S.on[t] = cpu /\ dls[t] \in Deadlines
          /\ to \in CPU /\ to # cpu
        BY <1>1, <2>1, <2>3 DEF Tree
    <2>5. dls \in [Task -> Deadlines \cup {0}] /\ S.on \in [Task -> CPU \cup {NoCpu}]
        BY <1>1 DEF Queues
    <2>6. DequeueRel(rd, S.heaps, S.on, dls, S.earliest, gone, w1, dls, early, t, cpu)
        BY <1>1, <2>5 DEF DequeueRel
    <2> HIDE DEF to, gone, early
    <2>7. Queues(w1, dls, early) /\ Heaps(gone, rd, up, w1, dls)
        <3> HIDE DEF w1
        <3> QED BY <1>1, <2>4, <2>6, DequeueKeeps
    <2>8. w1[t] = NoCpu /\ w2 = [w1 EXCEPT ![t] = to]
        BY <2>4, <2>5
    <2>9. EnqueueRel(rd, gone, w1, dls, early, h2, w2, dls, e2, t, to, dls[t])
        <3> HIDE DEF w1, w2
        <3> QED BY <1>1, <2>5, <2>8 DEF EnqueueRel
    <2>10. \A v \in Tree(w2, cpu) : dest[v] \in CPU \ {cpu}
        BY <1>1, <2>4, <2>5 DEF Tree
    <2> HIDE DEF w1, w2, h2, e2
    <2>11. Queues(w2, dls, e2) /\ Heaps(h2, rd, up, w2, dls)
        BY <2>4, <2>7, <2>8, <2>9, EnqueueKeeps
    <2>12. /\ h2 \in [RootDomain -> HeapType] /\ w2 \in [Task -> CPU \cup {NoCpu}]
           /\ e2 \in [CPU -> Deadlines \cup {0}]
        BY <2>11 DEF Queues, Heaps
    <2> DEFINE S2 == [S EXCEPT !.on = w2, !.earliest = e2, !.heaps = h2]
    <2>13. /\ S2 \in MigrateState /\ S2.deadline = dls /\ S2.on = w2
           /\ S2.earliest = e2 /\ S2.heaps = h2
        BY <1>1, <2>12 DEF MigrateState
    <2>14. MigrateOne(S, cpu, dest) = S2
        BY <1>2, <1>4
    <2> HIDE DEF S2
    <2>15. Moving(S2, cpu, up, dls, dest)
        BY <2>10, <2>11, <2>13 DEF Moving
    <2> QED BY <2>14, <2>15
<1> QED BY <1>3, <1>4

\* migrate_tasks, by its turns.
LEMMA MigrateKeeps ==
    ASSUME rd \in [CPU -> RootDomain],
           NEW cpu \in CPU, NEW up \in SUBSET CPU,
           NEW dls, NEW dest, NEW S, Moving(S, cpu, up, dls, dest)
    PROVE  Moving(Migrate(S, cpu, dest), cpu, up, dls, dest)
<1> DEFINE n == Cardinality(Task)
           States == {s \in MigrateState : Moving(s, cpu, up, dls, dest)}
           G == [s \in States |-> MigrateOne(s, cpu, dest)]
           Eq(f) == f = [k \in 0..n |-> IF k = 0 THEN S
                                        ELSE MigrateOne(f[k - 1], cpu, dest)]
           turn == CHOOSE f : Eq(f)
<1>1. n \in Nat
    BY DlRootAssumption, FS_CardinalityType
<1>2. S \in States
    BY DEF Moving
<1>3. \A s \in States : MigrateOne(s, cpu, dest) \in States
    <2> SUFFICES ASSUME NEW s, Moving(s, cpu, up, dls, dest)
                 PROVE  MigrateOne(s, cpu, dest) \in States
        OBVIOUS
    <2>1. Moving(MigrateOne(s, cpu, dest), cpu, up, dls, dest)
        BY MigrateOneKeeps
    <2> QED BY <2>1 DEF Moving
<1>4. Maps(G, States) /\ \A s \in States : G[s] = MigrateOne(s, cpu, dest)
    BY <1>3 DEF Maps
<1>5. Migrate(S, cpu, dest) = turn[n]
    BY DEF Migrate
<1>6. \A s \in States : Moving(s, cpu, up, dls, dest)
    OBVIOUS
<1> HIDE DEF n, States, G
<1>7. \E f : Eq(f)
    <2>1. PICK f : Turns(f, S, G, n) /\ Within(f, n, States)
        BY <1>1, <1>2, <1>4, TurnsExist
    <2>2. \A k \in 0..n : k # 0 => f[k - 1] \in States
        BY <1>1, <2>1, SMT DEF Within
    <2>3. f = [k \in 0..n |-> IF k = 0 THEN S
                              ELSE MigrateOne(f[k - 1], cpu, dest)]
        BY <2>1, <2>2, <1>4 DEF Turns
    <2> QED BY <2>3
<1>8. Eq(turn)
    BY <1>7
<1> HIDE DEF turn
<1>9. \A k \in 0..n : turn[k] \in States
    <2>1. 0 \in 0..n /\ \A k \in 1..n : k \in 0..n /\ k # 0
        BY <1>1, SMT
    <2>2. turn[0] \in States
        BY <1>2, <1>8, <2>1
    <2>3. \A k \in 1..n : turn[k - 1] \in States => turn[k] \in States
        BY <1>3, <1>8, <2>1
    <2> QED BY <1>1, <2>2, <2>3, TurnsStay
<1>10. turn[n] \in States
    BY <1>1, <1>9, SMT
<1> QED BY <1>5, <1>6, <1>10

\* sched_cpu_dying
LEMMA DyingStep ==
    ASSUME IInv, NEW cpu \in CPU, NEW others \in BOOLEAN,
           NEW dest \in [Queue(cpu) -> CPU \ {cpu}], Dying(cpu, others, dest)
    PROVE  IInv'
<1> DEFINE r0 == rd[cpu]
           off == IF cpu \in online
                  THEN [heaps EXCEPT ![r0] = RqOffline(heaps[r0], cpu)] ELSE heaps
           S == [heaps |-> off, on |-> on, deadline |-> deadline,
                 earliest |-> earliest, others |-> others]
           up == online \ {cpu}
           T == Migrate(S, cpu, dest)
<1>1. /\ rd \in [CPU -> RootDomain] /\ Queues(on, deadline, earliest)
      /\ online \subseteq CPU /\ active \subseteq CPU
      /\ Heaps(heaps, rd, online, on, deadline)
    BY DEF IInv
<1>2. /\ online' = up /\ rd' = rd /\ active' = active
      /\ deadline' = deadline
      /\ heaps' = T.heaps /\ on' = T.on /\ earliest' = T.earliest
    BY DEF Dying
<1>3. r0 \in RootDomain
    BY <1>1
<1>4. Heaps(off, rd, up, on, deadline)
    <2>1. CASE cpu \in online
        <3>1. Heaps([heaps EXCEPT ![r0] = RqOffline(heaps[r0], cpu)], rd, up,
                    on, deadline)
            BY <1>3, LeavesRoot
        <3> QED BY <2>1, <3>1
    <2>2. CASE cpu \notin online
        <3>1. off = heaps /\ up = online
            BY <2>2
        <3> HIDE DEF off, up
        <3> QED BY <1>1, <3>1
    <2> QED BY <2>1, <2>2
<1> HIDE DEF off, r0
<1>5. up \in SUBSET CPU
    BY <1>1
<1>6. \A t \in Tree(on, cpu) : dest[t] \in CPU \ {cpu}
    BY DEF Queue, Tree
<1> HIDE DEF up
<1>7. Moving(S, cpu, up, deadline, dest)
    <2>1. S \in MigrateState
        BY <1>1, <1>4 DEF MigrateState, Queues, Heaps
    <2> QED BY <2>1, <1>1, <1>4, <1>6 DEF Moving
<1> HIDE DEF S
<1>8. Moving(T, cpu, up, deadline, dest)
    BY <1>1, <1>5, <1>7, MigrateKeeps
<1> HIDE DEF T
<1>9. /\ Queues(T.on, deadline, T.earliest)
      /\ Heaps(T.heaps, rd, up, T.on, deadline)
    BY <1>8 DEF Moving
<1> QED BY <1>1, <1>2, <1>5, <1>9 DEF IInv

-----------------------------------------------------------------------------
(* The theorems.                                                           *)

\* Enqueues, dequeues, hotplug steps and domain changes keep IInv.
LEMMA AlwaysIInv == Spec => []IInv
<1>1. IInv /\ [Next]_vars => IInv'
    <2> SUFFICES ASSUME IInv, [Next]_vars PROVE IInv'
        OBVIOUS
    <2>1. CASE UNCHANGED vars
        BY <2>1 DEF IInv, vars
    <2>2. ASSUME NEW t \in Task, NEW cpu \in CPU, NEW dl \in Deadlines,
                 Enqueue(t, cpu, dl)
          PROVE  IInv'
        BY <2>2, EnqueueStep
    <2>3. ASSUME NEW t \in Task, Dequeue(t) PROVE IInv'
        BY <2>3, DequeueStep
    <2>4. ASSUME NEW cpu \in CPU, Activate(cpu) PROVE IInv'
        BY <2>4, ActivateStep
    <2>5. ASSUME NEW cpu \in CPU, Deactivate(cpu) PROVE IInv'
        BY <2>5, DeactivateStep
    <2>6. ASSUME NEW cpu \in CPU, NEW r \in RootDomain, Attach(cpu, r)
          PROVE  IInv'
        BY <2>6, AttachStep
    <2>7. ASSUME NEW cpu \in CPU, NEW others \in BOOLEAN,
                 NEW dest \in [Queue(cpu) -> CPU \ {cpu}],
                 Dying(cpu, others, dest)
          PROVE  IInv'
        BY <2>7, DyingStep
    <2>8. Hotplug \subseteq CPU /\ Movable \subseteq CPU
        BY DlRootAssumption
    <2> QED BY <2>1, <2>2, <2>3, <2>4, <2>5, <2>6, <2>7, <2>8 DEF Next
<1> QED BY <1>1, InitKeeps, PTL DEF Spec

\* Of every run queue that is online in it, the heap of a root domain records
\* the earliest deadline queued there, or that the CPU is free, whatever
\* inc_dl_deadline, dec_dl_deadline, rq_online_dl, rq_offline_dl and
\* migrate_tasks did, on run queues that were online or offline.
THEOREM HeapsAlwaysMatch == Spec => []HeapsMatchQueues
<1>1. IInv => HeapsMatchQueues
    <2> SUFFICES ASSUME IInv PROVE HeapsMatchQueues
        OBVIOUS
    <2>1. /\ rd \in [CPU -> RootDomain] /\ Queues(on, deadline, earliest)
          /\ online \subseteq CPU /\ active \subseteq CPU
          /\ heaps \in [RootDomain -> HeapType]
          /\ \A r \in RootDomain : Records(heaps[r], r, rd, online, on, deadline)
        BY DEF IInv, Heaps
    <2>2. TypeOK
        BY <2>1 DEF TypeOK, Queues
    <2>3. \A r \in RootDomain : WellFormed(heaps[r])
        BY <2>1 DEF Records, Good
    <2>4. ASSUME NEW c \in online
          PROVE  IF Queue(c) = {} THEN c \in heaps[rd[c]].free
                 ELSE Entry(heaps[rd[c]], c) = Leftmost(Queue(c), deadline)
        <3>1. c \in CPU /\ rd[c] \in RootDomain
            BY <2>1
        <3>2. /\ QueueDl(on, deadline, c) = NoDeadline <=> Queue(c) = {}
              /\ Queue(c) # {} => QueueDl(on, deadline, c)
                                    = Leftmost(Queue(c), deadline)
            BY <2>1, <3>1, QueueShown
        <3>3. Shows(heaps[rd[c]], c, QueueDl(on, deadline, c))
            BY <2>1, <3>1 DEF Records
        <3> QED BY <3>2, <3>3 DEF Shows
    <2> QED BY <2>2, <2>3, <2>4 DEF HeapsMatchQueues
<1> QED BY <1>1, AlwaysIInv, PTL

\* A run queue that is online and not free is in the heap under its earliest
\* deadline.
LEMMA BusyInHeap ==
    ASSUME IInv, NEW c \in online, c \notin heaps[rd[c]].free
    PROVE  LET H == heaps[rd[c]]
           IN  /\ Good(H) /\ H.idx[c] \in CPU /\ H.idx[c] < H.size
               /\ H.slot[H.idx[c]].dl = earliest[c]
               /\ earliest[c] \in Deadlines /\ 0 \in CPU /\ 0 < H.size
<1> DEFINE H == heaps[rd[c]]
<1>1. /\ Queues(on, deadline, earliest) /\ c \in CPU /\ rd[c] \in RootDomain
      /\ Records(H, rd[c], rd, online, on, deadline)
    BY DEF IInv, Heaps
<1>2. Good(H) /\ Shows(H, c, QueueDl(on, deadline, c))
    BY <1>1 DEF Records
<1>3. QueueDl(on, deadline, c) # NoDeadline
    BY <1>2 DEF Shows
<1>4. Entry(H, c) = earliest[c] /\ earliest[c] \in Deadlines
    BY <1>1, <1>2, <1>3, QueueShown DEF Shows
<1>5. Entry(H, c) # NoDeadline
    BY <1>2, <1>3 DEF Shows
<1> HIDE DEF H
<1>6. H.idx[c] # IdxInvalid /\ H.slot[H.idx[c]].dl = earliest[c]
    BY <1>4, <1>5 DEF Entry
<1>7. H.idx[c] \in CPU /\ H.idx[c] < H.size
    BY <1>1, <1>2, <1>6, GoodFacts
<1>8. 0 \in CPU /\ 0 < H.size
    <2>1. 0 \in CPU /\ H.size \in Nat /\ H.idx[c] \in Nat
        BY <1>2, <1>7, ParentFacts, HeapFields DEF Good
    <2> QED BY <1>7, <2>1, SMT
<1> QED BY <1>2, <1>4, <1>6, <1>7, <1>8 DEF H

\* The fallback of cpudl_find never names an online run queue with earlier
\* deadlines, and when it finds nothing for a task that may run everywhere,
\* every online run queue of the root domain is busy with tasks no later.
THEOREM SearchAlwaysMissesNone == Spec => []SearchMissesNone
<1>1. ASSUME IInv, NEW r \in RootDomain, NEW dl \in Deadlines,
             NEW cpus \in SUBSET CPU, heaps[r].free \cap cpus = {},
             NEW c \in Find(heaps[r], dl, cpus), c \in online, rd[c] = r
      PROVE  Before(dl, earliest[c])
    <2> DEFINE H == heaps[r]
    <2>1. c \in cpus /\ c = H.slot[0].cpu /\ Before(dl, H.slot[0].dl)
        BY <1>1 DEF Find
    <2>2. c \notin heaps[rd[c]].free
        BY <1>1, <2>1
    <2>3. /\ Good(H) /\ H.slot[H.idx[c]].dl = earliest[c]
          /\ 0 \in CPU /\ 0 < H.size
        BY <1>1, <2>2, BusyInHeap
    <2> HIDE DEF H
    <2>4. H.idx[c] = 0
        BY <2>1, <2>3, GoodFacts
    <2> QED BY <2>1, <2>3, <2>4
<1>2. ASSUME IInv, NEW r \in RootDomain, NEW dl \in Deadlines,
             Find(heaps[r], dl, CPU) = {}, NEW c \in online, rd[c] = r
      PROVE  earliest[c] # 0 /\ ~Before(dl, earliest[c])
    <2> DEFINE H == heaps[r]
    <2>1. H.free \cap CPU = {} /\ ~(H.slot[0].cpu \in CPU /\ Before(dl, H.slot[0].dl))
        BY <1>2 DEF Find
    <2>2. c \in CPU
        BY <1>2 DEF IInv
    <2>3. c \notin heaps[rd[c]].free
        BY <1>2, <2>1, <2>2
    <2>4. /\ Good(H) /\ H.idx[c] \in CPU /\ H.idx[c] < H.size
          /\ H.slot[H.idx[c]].dl = earliest[c]
          /\ earliest[c] \in Deadlines /\ 0 \in CPU /\ 0 < H.size
        BY <1>2, <2>3, BusyInHeap
    <2> HIDE DEF H
    <2>5. H.slot[0].dl \in Deadlines /\ ~Before(dl, H.slot[0].dl)
        BY <2>1, <2>4, GoodFacts
    <2>6. NotLater(earliest[c], H.slot[0].dl)
        BY <2>4, RootIsLatest
    <2>7. ~Before(dl, earliest[c])
        BY <2>4, <2>5, <2>6, CpudlAssumption DEF NotLater
    <2>8. 0 \notin Deadlines
        BY DlRootAssumption
    <2> QED BY <2>4, <2>7, <2>8
<1>3. IInv => SearchMissesNone
    BY <1>1, <1>2 DEF SearchMissesNone
<1> QED BY <1>3, AlwaysIInv, PTL
=============================================================================
