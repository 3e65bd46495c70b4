--------------------------- MODULE WorkqueueSteps ---------------------------
(***************************************************************************)
(* The calls of worker_thread() and pwq_adjust_max_active(), nested to any *)
(* depth, and what each step of them does to the inductive invariant.      *)
(***************************************************************************)
EXTENDS Workqueue, WorkqueueLemmas

\* Zenon proves a step unless the step cites SMT, for arithmetic or sequences.
USE ZenonT(30)

\* The inductive invariant.
IInv ==
    /\ unbound \in BOOLEAN /\ freezing \in BOOLEAN
    /\ pool \in PoolType /\ pwq \in [Wq -> PwqType]
    /\ work \in [Work -> ItemType] /\ worker \in [Worker -> WorkerType]
    /\ Items(pool.worklist, pwq, work, worker)
    /\ Accounts(pwq, work) /\ AllSettled(pwq)
    /\ IdleOK(pool, worker)
    /\ Calls(stack, pool, worker, work)

-----------------------------------------------------------------------------
(* The stack of calls.                                                     *)

\* A call of worker_thread() for worker x.
Runs(f, x) == f.fn = "worker_thread" /\ f.worker = x

\* A call on top of others.
LEMMA PushFacts ==
    ASSUME NEW T, NEW b \in Seq(T), NEW f \in T
    PROVE  /\ Append(b, f) \in Seq(T) /\ Append(b, f) # <<>>
           /\ Front(Append(b, f)) = b /\ Last(Append(b, f)) = f
           /\ \A x : Calling(Append(b, f), x) <=> Calling(b, x) \/ Runs(f, x)
<1> DEFINE a == Append(b, f)
<1>1. /\ a \in Seq(T) /\ a # <<>> /\ Len(a) = Len(b) + 1 /\ Len(b) \in Nat
      /\ \A i \in 1..Len(b) : a[i] = b[i]
      /\ a[Len(b) + 1] = f
    BY SMT
<1> HIDE DEF a
<1>2. Last(a) = f
    BY <1>1 DEF Last
<1>3. Front(a) = b
    <2>1. Front(a) = SubSeq(a, 1, Len(b))
        BY <1>1, SMT DEF Front
    <2>2. /\ SubSeq(a, 1, Len(b)) \in Seq(T)
          /\ Len(SubSeq(a, 1, Len(b))) = Len(b)
          /\ \A i \in 1..Len(b) : SubSeq(a, 1, Len(b))[i] = b[i]
        BY <1>1, SMT
    <2> DEFINE c == SubSeq(a, 1, Len(b))
    <2> HIDE DEF c
    <2>3. c = b
        BY <2>2, SMT DEF c
    <2> QED BY <2>1, <2>3 DEF c
<1>4. \A i \in 1..Len(a) : i \in 1..Len(b) \/ i = Len(b) + 1
    BY <1>1, SMT
<1>5. \A x : Calling(a, x) <=> Calling(b, x) \/ Runs(f, x)
    BY <1>1, <1>4, SMT DEF Calling, Runs
<1> QED BY <1>1, <1>2, <1>3, <1>5 DEF a

\* The innermost call and those below it.
LEMMA TopFacts ==
    ASSUME NEW T, NEW s \in Seq(T), s # <<>>
    PROVE  /\ Front(s) \in Seq(T) /\ Last(s) \in T
           /\ s = Append(Front(s), Last(s))
<1> DEFINE m == Len(s) - 1
           b == SubSeq(s, 1, m)
           f == s[Len(s)]
<1>1. Len(s) \in Nat /\ Len(s) > 0 /\ \A i \in 1..Len(s) : s[i] \in T
    BY SMT
<1>2. m \in Nat /\ m <= Len(s) /\ Len(s) = m + 1
    BY <1>1, SMT
<1> HIDE DEF m
<1>3. b \in Seq(T) /\ Len(b) = m /\ \A i \in 1..m : b[i] = s[i]
    BY <1>1, <1>2, SMT
<1>4. f \in T
    BY <1>1, SMT
<1> HIDE DEF b, f
<1> DEFINE a == Append(b, f)
<1>5. a \in Seq(T) /\ Len(a) = m + 1 /\ a[m + 1] = f /\ \A i \in 1..m : a[i] = b[i]
    BY <1>2, <1>3, <1>4, SMT
<1> HIDE DEF a
<1>6. \A i \in 1..Len(s) : a[i] = s[i]
    BY <1>2, <1>3, <1>5, SMT DEF f
<1>7. a = s
    BY <1>2, <1>5, <1>6, SMT
<1> QED BY <1>3, <1>4, <1>7 DEF Front, Last, a, b, f, m

\* Calls below, when their workers and the items these hold are the same.
LEMMA BelowKeeps ==
    ASSUME NEW b, NEW wk, NEW it, Below(b, wk, it), NEW wk2, NEW it2,
           \A x \in Worker : Calling(b, x) =>
              wk2[x] = wk[x] /\ it2[wk[x].current_work].pwq = it[wk[x].current_work].pwq
    PROVE  Below(b, wk2, it2)
<1>1. ASSUME NEW i \in 1..Len(b) PROVE Beneath(b[i], wk2, it2)
    <2> DEFINE f == b[i]
    <2>1. f \in Frame /\ Beneath(f, wk, it)
        BY <1>1, SMT DEF Below
    <2>2. f.fn = "worker_thread" => f.worker \in Worker /\ Calling(b, f.worker)
        BY <2>1 DEF Frame, WorkerFrame, AdjustFrame, Calling
    <2> HIDE DEF f
    <2>3. SUFFICES ASSUME f.fn = "worker_thread"
                   PROVE  Beneath(f, wk2, it2)
        BY DEF Beneath, f
    <2>4. wk2[f.worker] = wk[f.worker]
          /\ it2[wk[f.worker].current_work].pwq = it[wk[f.worker].current_work].pwq
        BY <2>2, <2>3
    <2>5. /\ CallOK(f, wk[f.worker], it) /\ f.pc = "claimed"
          /\ NotRunning(wk[f.worker].flags)
        BY <2>1, <2>3 DEF Beneath
    <2>6. CallOK(f, wk2[f.worker], it2)
        BY <2>4, <2>5 DEF CallOK
    <2> QED BY <2>4, <2>5, <2>6 DEF Beneath
<1> QED BY <1>1 DEF Below

\* A call calls another.
LEMMA BelowPush ==
    ASSUME NEW b, NEW wk, NEW it, Below(b, wk, it), NEW f \in Frame,
           Beneath(f, wk, it), f.fn # "worker_thread" => b = <<>>,
           f.fn = "worker_thread" => ~Calling(b, f.worker)
    PROVE  Below(Append(b, f), wk, it)
<1> DEFINE a == Append(b, f)
<1>1. /\ a \in Seq(Frame) /\ Len(a) = Len(b) + 1 /\ Len(b) \in Nat
      /\ \A i \in 1..Len(b) : a[i] = b[i]
      /\ a[Len(b) + 1] = f
    BY SMT DEF Below
<1> HIDE DEF a
<1>2. \A i \in 1..Len(a) : i \in 1..Len(b) \/ i = Len(b) + 1
    BY <1>1, SMT
<1>3. \A i \in 1..Len(a) : Beneath(a[i], wk, it)
    BY <1>1, <1>2 DEF Below
<1>4. \A i \in 1..Len(a) : a[i].fn # "worker_thread" => i = 1
    <2>1. b = <<>> => Len(b) = 0
        BY SMT
    <2> QED BY <1>1, <1>2, <2>1, SMT DEF Below
<1>5. \A i, j \in 1..Len(a) :
          /\ a[i].fn = "worker_thread" /\ a[j].fn = "worker_thread"
          /\ a[i].worker = a[j].worker
          => i = j
    BY <1>1, <1>2, SMT DEF Below, Calling
<1> QED BY <1>1, <1>3, <1>4, <1>5 DEF Below, a

\* The innermost call returns.
LEMMA BelowPop ==
    ASSUME NEW b, NEW wk, NEW it, Below(b, wk, it), b # <<>>
    PROVE  /\ Front(b) \in Seq(Frame) /\ Last(b) \in Frame
           /\ b = Append(Front(b), Last(b))
           /\ Below(Front(b), wk, it) /\ Beneath(Last(b), wk, it)
           /\ Last(b).fn # "worker_thread" => Front(b) = <<>>
           /\ Last(b).fn = "worker_thread" => ~Calling(Front(b), Last(b).worker)
<1>1. b \in Seq(Frame)
    BY DEF Below
<1>2. /\ Front(b) \in Seq(Frame) /\ Last(b) \in Frame
      /\ b = Append(Front(b), Last(b))
    BY <1>1, TopFacts
<1> DEFINE c == Front(b)
           f == Last(b)
<1> HIDE DEF c, f
<1>3. /\ Len(b) = Len(c) + 1 /\ Len(c) \in Nat
      /\ \A i \in 1..Len(c) : b[i] = c[i]
      /\ b[Len(c) + 1] = f
    BY <1>2, SMT DEF c, f
<1>4. \A i \in 1..Len(c) : i \in 1..Len(b) /\ i # Len(b) /\ b[i] = c[i]
    BY <1>3, SMT
<1>5. Len(b) \in 1..Len(b) /\ b[Len(b)] = f
    BY <1>3, SMT
<1>6. Beneath(f, wk, it)
    BY <1>5 DEF Below
<1>7. f.fn # "worker_thread" => c = <<>>
    <2>1. f.fn # "worker_thread" => Len(b) = 1
        BY <1>5 DEF Below
    <2>2. c \in Seq(Frame) /\ (Len(c) = 0 => c = <<>>)
        BY <1>2, SMT DEF c
    <2> QED BY <1>3, <2>1, <2>2, SMT
<1>8. f.fn = "worker_thread" => ~Calling(c, f.worker)
    BY <1>4, <1>5 DEF Calling, Below
<1>9. Below(c, wk, it)
    <2>1. c \in Seq(Frame)
        BY <1>2 DEF c
    <2> QED BY <1>4, <2>1 DEF Below
<1> QED BY <1>2, <1>6, <1>7, <1>8, <1>9 DEF c, f

\* A stack with a call on it.
LEMMA CallsPush ==
    ASSUME NEW b, NEW f \in Frame, NEW p, NEW wk, NEW it, Below(b, wk, it),
           Innermost(f, b, p, wk, it),
           \A x \in Worker : Calling(b, x) \/ Runs(f, x) \/ Resting(wk[x])
    PROVE  Calls(Append(b, f), p, wk, it)
<1>1. b \in Seq(Frame)
    BY DEF Below
<1>2. /\ Append(b, f) \in Seq(Frame) /\ Append(b, f) # <<>>
      /\ Front(Append(b, f)) = b /\ Last(Append(b, f)) = f
      /\ \A x : Calling(Append(b, f), x) <=> Calling(b, x) \/ Runs(f, x)
    BY <1>1, PushFacts
<1> QED BY <1>2 DEF Calls

\* The innermost call, and the calls below it.
LEMMA CallsTop ==
    ASSUME NEW s, NEW p, NEW wk, NEW it, Calls(s, p, wk, it), s # <<>>
    PROVE  /\ Last(s) \in Frame /\ Below(Front(s), wk, it)
           /\ Innermost(Last(s), Front(s), p, wk, it)
           /\ s = Append(Front(s), Last(s))
           /\ \A x \in Worker : \/ Calling(Front(s), x) \/ Runs(Last(s), x)
                                \/ Resting(wk[x])
<1>1. s \in Seq(Frame) /\ Below(Front(s), wk, it)
      /\ Innermost(Last(s), Front(s), p, wk, it)
    BY DEF Calls
<1>2. /\ Front(s) \in Seq(Frame) /\ Last(s) \in Frame
      /\ s = Append(Front(s), Last(s))
    BY <1>1, TopFacts
<1>3. \A x : Calling(s, x) <=> Calling(Front(s), x) \/ Runs(Last(s), x)
    BY <1>2, PushFacts
<1> QED BY <1>1, <1>2, <1>3 DEF Calls

-----------------------------------------------------------------------------
(* Idle workers.                                                           *)

\* What the idle list tells of a worker.
SameIdle(k, k2) == /\ k2.memory # "free" <=> k.memory # "free"
                   /\ "IDLE" \in k2.flags <=> "IDLE" \in k.flags

\* A worker's other flags change, or its work, or it is freed.
LEMMA IdleSame ==
    ASSUME NEW p, NEW wk, IdleOK(p, wk), NEW p2, NEW wk2, NEW x \in Worker,
           p2.idle_list = p.idle_list, p2.nr_idle = p.nr_idle,
           p2.nr_workers = p.nr_workers, OneWorker(wk, wk2, x),
           SameIdle(wk[x], wk2[x])
    PROVE  IdleOK(p2, wk2)
<1>1. \A y \in Worker : SameIdle(wk[y], wk2[y])
    BY DEF OneWorker, SameIdle
<1>2. InUse(wk2) = InUse(wk)
    BY <1>1 DEF InUse, SameIdle
<1>3. \A y \in Worker : y \in InUse(wk) /\ "IDLE" \in wk[y].flags
                           <=> y \in InUse(wk2) /\ "IDLE" \in wk2[y].flags
    BY <1>1, <1>2 DEF SameIdle
<1> HIDE DEF InUse
<1> QED BY <1>2, <1>3 DEF IdleOK

\* worker_leave_idle() of the first worker.
LEMMA IdleLeft ==
    ASSUME NEW p \in PoolType, NEW wk, IdleOK(p, wk), NEW wk2, NEW x \in Worker,
           p.idle_list # <<>>, Head(p.idle_list) = x, OneWorker(wk, wk2, x),
           wk2[x].memory = wk[x].memory, "IDLE" \notin wk2[x].flags
    PROVE  /\ IdleOK(LeaveIdle(p, x), wk2) /\ LeaveIdle(p, x) \in PoolType
           /\ LeaveIdle(p, x).worklist = p.worklist
           /\ LeaveIdle(p, x).nr_running = p.nr_running
<1> DEFINE s == p.idle_list
           t == Tail(s)
           m == p.nr_idle - 1
<1>1. s \in Seq(Worker) /\ Once(s) /\ p.nr_idle = Len(s)
    BY DEF IdleOK, PoolType
<1>2. RemoveAt(s, CHOOSE i \in DOMAIN s : s[i] = x) = t
    BY <1>1, RemoveFirstEntry
<1>3. /\ t \in Seq(Worker) /\ Len(s) \in Nat /\ Len(s) > 0 /\ Len(t) = Len(s) - 1
      /\ \A y : Contains(t, y) <=> Contains(s, y) /\ y # x
      /\ Once(t)
    BY <1>1, TailHas
<1> HIDE DEF t
<1>4. m \in Nat /\ m = Len(t)
    BY <1>1, <1>3, SMT
<1>5. LeaveIdle(p, x) = [p EXCEPT !.idle_list = t, !.nr_idle = m]
    BY <1>2 DEF LeaveIdle, RemoveAt
<1> HIDE DEF m
<1> DEFINE p2 == [p EXCEPT !.idle_list = t, !.nr_idle = m]
<1>6. /\ p2 \in PoolType /\ p2.idle_list = t /\ p2.nr_idle = m
      /\ p2.nr_workers = p.nr_workers /\ p2.worklist = p.worklist
      /\ p2.nr_running = p.nr_running
    BY <1>3, <1>4 DEF PoolType
<1> HIDE DEF p2
<1>7. InUse(wk2) = InUse(wk)
    BY DEF InUse, OneWorker
<1>8. \A y \in Worker : Contains(t, y) <=> y \in InUse(wk2) /\ "IDLE" \in wk2[y].flags
    <2>1. \A y \in Worker : y # x => wk2[y] = wk[y]
        BY DEF OneWorker
    <2> HIDE DEF InUse
    <2> QED BY <1>3, <1>7, <2>1 DEF IdleOK
<1>9. IdleOK(p2, wk2)
    BY <1>3, <1>4, <1>6, <1>7, <1>8 DEF IdleOK
<1> QED BY <1>5, <1>6, <1>9 DEF p2

\* worker_enter_idle()
LEMMA IdleEntered ==
    ASSUME Counts, NEW p \in PoolType, NEW wk, IdleOK(p, wk), NEW wk2, NEW x \in Worker,
           wk[x].memory = "free" \/ "IDLE" \notin wk[x].flags,
           OneWorker(wk, wk2, x), wk2[x].memory # "free",
           "IDLE" \in wk2[x].flags, NEW p2, p2.idle_list = <<x>> \o p.idle_list,
           p2.nr_idle = p.nr_idle + 1,
           p2.nr_workers = IF wk[x].memory = "free" THEN p.nr_workers + 1
                           ELSE p.nr_workers
    PROVE  /\ IdleOK(p2, wk2) /\ p2.idle_list \in Seq(Worker)
           /\ p2.idle_list # <<>> /\ Head(p2.idle_list) = x
<1> DEFINE s == p.idle_list
           t == <<x>> \o s
<1>1. s \in Seq(Worker) /\ Once(s) /\ p.nr_idle = Len(s) /\ ~Contains(s, x)
    BY DEF IdleOK, PoolType, InUse
<1>2. /\ t \in Seq(Worker) /\ t # <<>> /\ Head(t) = x /\ Len(t) = Len(s) + 1
      /\ \A y : Contains(t, y) <=> Contains(s, y) \/ y = x
      /\ Once(t)
    BY <1>1, ConsHas, SMT
<1> HIDE DEF t
<1>3. p2.idle_list = t
    BY DEF t
<1>4. \A y \in Worker : y # x => wk2[y] = wk[y]
    BY DEF OneWorker
<1>5. InUse(wk2) = InUse(wk) \cup {x}
    BY <1>4 DEF InUse
<1>6. InUse(wk) \in SUBSET Worker
    BY DEF InUse
<1>7. p2.nr_workers = Cardinality(InUse(wk2))
    <2>1. x \in InUse(wk) <=> wk[x].memory # "free"
        BY DEF InUse
    <2>2. p.nr_workers = Cardinality(InUse(wk))
        BY DEF IdleOK
    <2> HIDE DEF InUse
    <2>3. x \in InUse(wk) => InUse(wk2) = InUse(wk)
        BY <1>5
    <2>4. x \notin InUse(wk) => Cardinality(InUse(wk2)) = Cardinality(InUse(wk)) + 1
        BY <1>5, <1>6 DEF Counts, Counting
    <2> QED BY <2>1, <2>2, <2>3, <2>4
<1>8. \A y \in Worker : Contains(t, y) <=> y \in InUse(wk2) /\ "IDLE" \in wk2[y].flags
    <2> HIDE DEF InUse
    <2> QED BY <1>2, <1>4, <1>5 DEF IdleOK
<1>9. p2.nr_idle = Len(t)
    BY <1>1, <1>2
<1>10. IdleOK(p2, wk2)
    BY <1>2, <1>3, <1>7, <1>8, <1>9 DEF IdleOK
<1> QED BY <1>2, <1>3, <1>10

-----------------------------------------------------------------------------
(* The innermost call.                                                     *)

\* The items that callers hold belong to the same workqueues.
HeldKept(b, wk, it, it2) ==
    \A y \in Worker : Calling(b, y) =>
        it2[wk[y].current_work].pwq = it[wk[y].current_work].pwq

\* nr_running, and where the innermost worker_thread() f of worker k is.
TopOK(f, k, p, it) ==
    /\ CallOK(f, k, it) /\ Turn(f, p)
    /\ p.nr_running = IF NotRunning(k.flags) THEN 0 ELSE 1

\* The workers that neither are x nor have called.
OthersRest(b, x, wk) ==
    \A y \in Worker : Calling(b, y) \/ y = x \/ Resting(wk[y])

\* The calls below one of worker_thread() are not disturbed by what it does to
\* its worker.
LEMMA CallersStay ==
    ASSUME NEW s, NEW p, NEW wk, NEW it, Calls(s, p, wk, it), s # <<>>,
           NEW x, Runs(Last(s), x), NEW wk2, NEW it2,
           OneWorker(wk, wk2, x), HeldKept(Front(s), wk, it, it2)
    PROVE  /\ Below(Front(s), wk2, it2) /\ ~Calling(Front(s), x)
           /\ OthersRest(Front(s), x, wk2)
<1>1. /\ Below(Front(s), wk, it) /\ ~Calling(Front(s), x)
      /\ \A y \in Worker : Calling(Front(s), y) \/ Runs(Last(s), y) \/ Resting(wk[y])
    BY CallsTop DEF Innermost, Runs
<1>2. \A y \in Worker : y # x => wk2[y] = wk[y]
    BY DEF OneWorker
<1>3. \A y \in Worker : Calling(Front(s), y) =>
           /\ wk2[y] = wk[y]
           /\ it2[wk[y].current_work].pwq = it[wk[y].current_work].pwq
    BY <1>1, <1>2 DEF HeldKept
<1>4. Below(Front(s), wk2, it2)
    BY <1>1, <1>3, BelowKeeps, SMT
<1> QED BY <1>1, <1>2, <1>4 DEF Runs, OthersRest

\* It goes on.
LEMMA TopMoves ==
    ASSUME NEW s, NEW p, NEW wk, NEW it, Calls(s, p, wk, it), s # <<>>,
           NEW x, Runs(Last(s), x), NEW wk2, NEW it2,
           OneWorker(wk, wk2, x), HeldKept(Front(s), wk, it, it2),
           NEW f \in Frame, Runs(f, x), NEW p2, TopOK(f, wk2[x], p2, it2)
    PROVE  Calls(Append(Front(s), f), p2, wk2, it2)
<1>1. /\ Below(Front(s), wk2, it2) /\ ~Calling(Front(s), x)
      /\ OthersRest(Front(s), x, wk2)
    BY CallersStay
<1>2. Innermost(f, Front(s), p2, wk2, it2)
    BY <1>1 DEF Innermost, TopOK, Runs
<1>3. \A y \in Worker : Calling(Front(s), y) \/ Runs(f, y) \/ Resting(wk2[y])
    BY <1>1 DEF Runs, OthersRest
<1> QED BY <1>1, <1>2, <1>3, CallsPush

\* The call wake_up_worker() makes.
Called(h) == [fn |-> "worker_thread", worker |-> h, cnt |-> 0, pc |-> "woke_up",
              work |-> NULL]

\* A caller and those below it.
Callers(c, wk, it) ==
    /\ Below(c, wk, it) /\ \A y \in Worker : Calling(c, y) \/ Resting(wk[y])

\* wake_up_worker(): a caller holds an item, so the first idle worker is none.
LEMMA WokenCalls ==
    ASSUME NEW c, NEW p \in PoolType, NEW wk, NEW it, Callers(c, wk, it),
           IdleOK(p, wk), p.idle_list # <<>>, p.nr_running = 0,
           wk[Head(p.idle_list)].memory = "live"
    PROVE  Calls(Append(c, Called(Head(p.idle_list))), p, wk, it)
<1> DEFINE h == Head(p.idle_list)
           f == Called(h)
<1>1. h \in Worker /\ Contains(p.idle_list, h)
    BY TailHas DEF PoolType
<1>2. "IDLE" \in wk[h].flags
    BY <1>1 DEF IdleOK
<1> HIDE DEF h
<1>3. ~Calling(c, h)
    <2> SUFFICES ASSUME NEW i \in 1..Len(c), c[i].fn = "worker_thread",
                        c[i].worker = h
                 PROVE  FALSE
        BY DEF Calling
    <2>1. Beneath(c[i], wk, it)
        BY DEF Callers, Below
    <2> QED BY <1>2, <2>1 DEF Beneath, CallOK
<1>4. Resting(wk[h]) /\ wk[h].memory = "live"
    BY <1>1, <1>3 DEF Callers, h
<1>5. f \in Frame /\ Runs(f, h)
    BY <1>1, SMT DEF Frame, WorkerFrame, Called, Runs
<1>6. CallOK(f, wk[h], it) /\ "PREP" \in wk[h].flags
    BY <1>4, SMT DEF Resting, CallOK, Called
<1>7. NotRunning(wk[h].flags)
    BY <1>6 DEF NotRunning
<1>8. Turn(f, p)
    BY DEF Turn, Called, h
<1>9. f.fn = "worker_thread" /\ f.worker = h
    BY DEF Called
<1> HIDE DEF f
<1>10. Innermost(f, c, p, wk, it)
    BY <1>3, <1>6, <1>7, <1>8, <1>9 DEF Innermost
<1>11. \A y \in Worker : Calling(c, y) \/ Runs(f, y) \/ Resting(wk[y])
    BY DEF Callers
<1>12. Calls(Append(c, f), p, wk, it)
    BY <1>5, <1>10, <1>11, CallsPush DEF Callers
<1> QED BY <1>12 DEF f, h

\* No call runs.
AllRest(wk) == \A y \in Worker : Resting(wk[y])

\* Between two calls from the menu.
LEMMA NoCalls ==
    ASSUME NEW p, NEW wk, NEW it
    PROVE  /\ Calls(<<>>, p, wk, it) <=> /\ p.nr_running = 0 /\ p.idle_list # <<>>
                                         /\ AllRest(wk)
           /\ AllRest(wk) => Callers(<<>>, wk, it)
<1>1. <<>> \in Seq(Frame) /\ Len(<<>>) = 0
    BY SMT
<1>2. \A x : ~Calling(<<>>, x)
    BY <1>1, SMT DEF Calling
<1>3. Below(<<>>, wk, it)
    BY <1>1, SMT DEF Below
<1> QED BY <1>1, <1>2, <1>3 DEF Calls, Callers, AllRest

-----------------------------------------------------------------------------
(* The actions.                                                            *)

\* The invariant, by its parts.
LEMMA Parts ==
    IInv <=> /\ unbound \in BOOLEAN /\ freezing \in BOOLEAN
             /\ Data(pool, pwq, work, worker) /\ AllSettled(pwq)
             /\ IdleOK(pool, worker) /\ Calls(stack, pool, worker, work)
BY DEF IInv, Data

\* The invariant after a step, by its parts.
LEMMA Whole ==
    ASSUME unbound' \in BOOLEAN, freezing' \in BOOLEAN,
           Data(pool', pwq', work', worker'), AllSettled(pwq'),
           IdleOK(pool', worker'), Calls(stack', pool', worker', work')
    PROVE  IInv'
BY DEF IInv, Data

\* queue_work_on() and __queue_work()
LEMMA QueueStep ==
    ASSUME Counts, IInv, NEW q \in Wq, NEW w \in Work, queue_work_on(q, w)
    PROVE  IInv'
<1>1. /\ unbound \in BOOLEAN /\ freezing \in BOOLEAN
      /\ Data(pool, pwq, work, worker) /\ AllSettled(pwq)
      /\ IdleOK(pool, worker) /\ Calls(<<>>, pool, worker, work)
      /\ stack = <<>> /\ ~work[w].pending
    BY Parts DEF queue_work_on, Idle
<1>2. /\ unbound' = unbound /\ freezing' = freezing /\ worker' = worker
      /\ stack' = <<>>
    BY <1>1 DEF queue_work_on
<1>3. /\ pool \in PoolType /\ pwq \in [Wq -> PwqType] /\ work \in [Work -> ItemType]
    BY <1>1 DEF Data
<1> DEFINE c == pwq[q]
           on == IsActive(q)
           a1 == [c.nr_in_flight EXCEPT ![work_color] = @ + 1]
           a2 == c.refcnt + 1
           a3 == IF on THEN c.nr_active + 1 ELSE c.nr_active
           a4 == IF on THEN c.inactive_works ELSE Append(c.inactive_works, w)
           c2 == [c EXCEPT !.nr_in_flight = a1, !.refcnt = a2,
                           !.nr_active = a3, !.inactive_works = a4]
<1>4. c \in PwqType
    BY <1>3
<1>5. pwq' = [pwq EXCEPT ![q].nr_in_flight = a1, ![q].refcnt = a2,
                         ![q].nr_active = a3, ![q].inactive_works = a4]
    BY DEF queue_work_on
<1>6. a1 \in [Color -> Int] /\ a2 \in Nat /\ a3 \in Nat /\ a4 \in Seq(Work)
    <2> DEFINE f == c.nr_in_flight
    <2>1. f \in [Color -> Int]
        BY <1>4 DEF PwqType
    <2> HIDE DEF f
    <2>2. [f EXCEPT ![work_color] = @ + 1] \in [Color -> Int]
        BY <2>1, SMT DEF Color, WORK_NR_COLORS, work_color
    <2>3. a2 \in Nat /\ a3 \in Nat /\ a4 \in Seq(Work)
        BY <1>4, SMTT(30) DEF PwqType
    <2> QED BY <2>2, <2>3 DEF f
<1> HIDE DEF a1, a2, a3, a4
<1>7. pwq' = [pwq EXCEPT ![q] = c2]
    BY <1>3, <1>5 DEF PwqType
<1> HIDE DEF c
<1>8. /\ c2 \in PwqType /\ c2.nr_in_flight = a1 /\ c2.refcnt = a2
      /\ c2.nr_active = a3 /\ c2.inactive_works = a4 /\ c2.max_active = c.max_active
    BY <1>4, <1>6 DEF PwqType
<1> HIDE DEF c2
<1>9. pwq' \in [Wq -> PwqType] /\ pwq'[q] = c2 /\ RestKept(pwq, pwq', q)
    BY <1>3, <1>7, <1>8 DEF RestKept
<1>10. Entered(pwq[q], pwq'[q])
    BY <1>8, <1>9 DEF Entered, c, a1, a2
<1>11. work' = [work EXCEPT ![w] = [pending |-> TRUE, pwq |-> q, inactive |-> ~on]]
    BY DEF queue_work_on
<1>12. on \in BOOLEAN
    BY SMT DEF IsActive
<1>13. /\ work' \in [Work -> ItemType] /\ Apart(work, work', w)
       /\ work'[w].pending /\ work'[w].pwq = q /\ (work'[w].inactive <=> ~on)
    <2> HIDE DEF on
    <2> DEFINE r == [pending |-> TRUE, pwq |-> q, inactive |-> ~on]
    <2>1. r \in ItemType /\ r.pending /\ r.pwq = q /\ (r.inactive <=> ~on)
        BY <1>12 DEF ItemType
    <2>2. work' = [work EXCEPT ![w] = r]
        BY <1>11
    <2> HIDE DEF r
    <2> QED BY <1>3, <2>1, <2>2 DEF Apart
<1>14. AllSettled(pwq')
    <2>1. \A r \in Wq : r # q => Settled(pwq'[r])
        BY <1>1, <1>9 DEF RestKept, AllSettled
    <2>2. Settled(c) /\ (on <=> c.nr_active < c.max_active)
        BY <1>1 DEF AllSettled, IsActive, c
    <2>3. Settled(c2)
        BY <1>8, <2>2 DEF Settled, a3, a4
    <2> QED BY <1>9, <2>1, <2>3 DEF AllSettled
<1>15. CASE on
    <2> DEFINE wl == Append(pool.worklist, w)
    <2>1. pool' = [pool EXCEPT !.worklist = wl]
        BY <1>15 DEF queue_work_on
    <2>2. wl \in Seq(Work)
        BY <1>3, SMT DEF PoolType
    <2> HIDE DEF wl
    <2>9. /\ pool' \in PoolType /\ pool'.worklist = wl
          /\ pool'.idle_list = pool.idle_list /\ pool'.nr_idle = pool.nr_idle
          /\ pool'.nr_workers = pool.nr_workers /\ pool'.nr_running = pool.nr_running
        BY <1>3, <2>1, <2>2 DEF PoolType
    <2>3. /\ pool' \in PoolType /\ pool'.worklist = Append(pool.worklist, w)
          /\ pool'.idle_list = pool.idle_list /\ pool'.nr_idle = pool.nr_idle
          /\ pool'.nr_workers = pool.nr_workers /\ pool'.nr_running = pool.nr_running
        BY <2>9 DEF wl
    <2>4. /\ pwq'[q].nr_active = pwq[q].nr_active + 1
          /\ pwq'[q].inactive_works = pwq[q].inactive_works
        BY <1>8, <1>9, <1>15 DEF a3, a4, c
    <2>5. ~work'[w].inactive
        BY <1>13, <1>15
    <2>6. Data(pool', pwq', work', worker)
        BY <1>1, <1>9, <1>10, <1>13, <2>3, <2>4, <2>5, QueueActiveKeeps
    <2>7. IdleOK(pool', worker)
        BY <1>1, <2>3 DEF IdleOK
    <2>8. Calls(<<>>, pool', worker, work')
        BY <1>1, <2>3, NoCalls
    <2> QED BY <1>1, <1>2, <1>14, <2>6, <2>7, <2>8, Whole
<1>16. CASE ~on
    <2>1. pool' = pool
        BY <1>16 DEF queue_work_on
    <2>2. /\ pwq'[q].nr_active = pwq[q].nr_active
          /\ pwq'[q].inactive_works = Append(pwq[q].inactive_works, w)
        BY <1>8, <1>9, <1>16 DEF a3, a4, c
    <2>3. work'[w].inactive
        BY <1>13, <1>16
    <2>4. Data(pool, pwq', work', worker)
        BY <1>1, <1>9, <1>10, <1>13, <2>2, <2>3, QueueInactiveKeeps
    <2>5. Calls(<<>>, pool, worker, work')
        BY <1>1, NoCalls
    <2> QED BY <1>1, <1>2, <1>14, <2>1, <2>4, <2>5, Whole
<1> QED BY <1>15, <1>16

\* wake_up_worker_run()
LEMMA WakeStep ==
    ASSUME IInv, wake_up_worker_run
    PROVE  IInv'
<1>1. /\ unbound \in BOOLEAN /\ freezing \in BOOLEAN
      /\ Data(pool, pwq, work, worker) /\ AllSettled(pwq)
      /\ IdleOK(pool, worker) /\ Calls(<<>>, pool, worker, work)
      /\ stack = <<>> /\ stack' = Woken(pool, <<>>)
    BY Parts DEF wake_up_worker_run, Idle
<1>2. /\ unbound' = unbound /\ freezing' = freezing /\ worker' = worker
      /\ pool' = pool /\ pwq' = pwq /\ work' = work
    BY DEF wake_up_worker_run
<1>3. pool.nr_running = 0 /\ pool.idle_list # <<>> /\ Callers(<<>>, worker, work)
    BY <1>1, NoCalls
<1>4. pool \in PoolType
    BY <1>1 DEF Data
<1>5. Calls(stack', pool, worker, work)
    <2>1. CASE worker[Head(pool.idle_list)].memory = "live"
        <3>1. stack' = Append(<<>>, Called(Head(pool.idle_list)))
            BY <1>1, <1>3, <2>1 DEF Woken, Called
        <3> QED BY <1>1, <1>3, <1>4, <2>1, <3>1, WokenCalls
    <2>2. CASE worker[Head(pool.idle_list)].memory # "live"
        BY <1>1, <2>2 DEF Woken
    <2> QED BY <2>1, <2>2
<1> QED BY <1>1, <1>2, <1>5, Whole

\* The loop that calls pwq_adjust_max_active().
LEMMA AdjustCalls ==
    ASSUME NEW p, NEW wk, NEW it, p.nr_running = 0, p.idle_list # <<>>,
           AllRest(wk), NEW left \in Seq(Wq)
    PROVE  /\ Calls(Append(<<>>, Adjusting(left)), p, wk, it)
           /\ Callers(Append(<<>>, Adjusting(left)), wk, it)
<1> DEFINE f == Adjusting(left)
<1>1. f \in Frame /\ f.fn # "worker_thread" /\ Beneath(f, wk, it)
    BY DEF Adjusting, Frame, AdjustFrame, Beneath
<1> HIDE DEF f
<1>2. Below(<<>>, wk, it)
    BY NoCalls DEF Callers
<1>3. Innermost(f, <<>>, p, wk, it)
    BY <1>1 DEF Innermost
<1>4. \A x \in Worker : Calling(<<>>, x) \/ Runs(f, x) \/ Resting(wk[x])
    BY DEF AllRest
<1>5. Calls(Append(<<>>, f), p, wk, it)
    BY <1>1, <1>2, <1>3, <1>4, CallsPush
<1>6. Below(Append(<<>>, f), wk, it)
    BY <1>1, <1>2, BelowPush
<1> QED BY <1>5, <1>6 DEF Callers, AllRest, f

\* workqueue_set_max_active()
LEMMA SetMaxStep ==
    ASSUME IInv, NEW q \in Wq, NEW max \in MaxActives,
           workqueue_set_max_active(q, max)
    PROVE  IInv'
<1>1. /\ unbound \in BOOLEAN /\ freezing \in BOOLEAN
      /\ Data(pool, pwq, work, worker) /\ AllSettled(pwq)
      /\ IdleOK(pool, worker) /\ Calls(<<>>, pool, worker, work)
      /\ pwq' = [pwq EXCEPT ![q].saved_max_active = max]
      /\ stack' = <<Adjusting(<<q>>)>>
    BY Parts DEF workqueue_set_max_active, Idle
<1>2. /\ unbound' = unbound /\ freezing' = freezing /\ worker' = worker
      /\ pool' = pool /\ work' = work
    BY DEF workqueue_set_max_active
<1>3. /\ pwq \in [Wq -> PwqType] /\ pool \in PoolType
      /\ worker \in [Worker -> WorkerType]
    BY <1>1 DEF Data
<1>4. /\ pwq' \in [Wq -> PwqType] /\ SameCounts(pwq, pwq')
      /\ \A r \in Wq : pwq'[r].max_active = pwq[r].max_active
    <2> DEFINE c == [pwq[q] EXCEPT !.saved_max_active = max]
    <2>1. /\ c \in PwqType /\ c.inactive_works = pwq[q].inactive_works
          /\ c.nr_in_flight = pwq[q].nr_in_flight /\ c.refcnt = pwq[q].refcnt
          /\ c.nr_active = pwq[q].nr_active /\ c.max_active = pwq[q].max_active
        BY <1>3 DEF PwqType
    <2>2. pwq' = [pwq EXCEPT ![q] = c]
        BY <1>1, <1>3
    <2> HIDE DEF c
    <2>3. /\ pwq' \in [Wq -> PwqType] /\ pwq'[q] = c
          /\ \A r \in Wq : r # q => pwq'[r] = pwq[r]
        BY <1>3, <2>1, <2>2
    <2> QED BY <2>1, <2>3 DEF SameCounts
<1>5. Data(pool, pwq', work, worker)
    <2>1. SameHolders(worker, worker)
        BY DEF SameHolders
    <2> QED BY <1>1, <1>3, <1>4, <2>1, DataSame
<1>6. AllSettled(pwq')
    BY <1>1, <1>4 DEF AllSettled, Settled, SameCounts
<1>7. pool.nr_running = 0 /\ pool.idle_list # <<>> /\ AllRest(worker)
    BY <1>1, NoCalls
<1>8. stack' = Append(<<>>, Adjusting(<<q>>)) /\ <<q>> \in Seq(Wq)
    BY <1>1, SMT
<1>9. Calls(stack', pool, worker, work)
    BY <1>7, <1>8, AdjustCalls
<1> QED BY <1>1, <1>2, <1>5, <1>6, <1>9, Whole

\* freeze_workqueues_begin() and thaw_workqueues()
LEMMA FreezeStep ==
    ASSUME IInv, freeze_workqueues_begin \/ thaw_workqueues
    PROVE  IInv'
<1>1. /\ unbound \in BOOLEAN /\ freezing' \in BOOLEAN
      /\ Data(pool, pwq, work, worker) /\ AllSettled(pwq)
      /\ IdleOK(pool, worker) /\ Calls(<<>>, pool, worker, work)
      /\ stack' = <<Adjusting(WqList)>>
    BY Parts DEF freeze_workqueues_begin, thaw_workqueues, Idle
<1>2. /\ unbound' = unbound /\ worker' = worker
      /\ pool' = pool /\ work' = work /\ pwq' = pwq
    BY DEF freeze_workqueues_begin, thaw_workqueues
<1>3. pool.nr_running = 0 /\ pool.idle_list # <<>> /\ AllRest(worker)
    BY <1>1, NoCalls
<1>4. stack' = Append(<<>>, Adjusting(WqList)) /\ WqList \in Seq(Wq)
    BY <1>1, WorkqueueAssumption, SMT
<1>5. Calls(stack', pool, worker, work)
    BY <1>3, <1>4, AdjustCalls
<1> QED BY <1>1, <1>2, <1>5, Whole

\* A turn or the end of the loop that calls pwq_adjust_max_active().
LEMMA AdjustFacts ==
    ASSUME IInv, ~Idle, Top.fn = "pwq_adjust_max_active"
    PROVE  /\ Front(stack) = <<>> /\ pool.nr_running = 0 /\ pool.idle_list # <<>>
           /\ AllRest(worker) /\ Top.left \in Seq(Wq)
<1>1. Calls(stack, pool, worker, work) /\ stack # <<>>
    BY Parts DEF Idle
<1>2. /\ Last(stack) \in Frame
      /\ Innermost(Last(stack), Front(stack), pool, worker, work)
      /\ \A x \in Worker : Calling(Front(stack), x) \/ Runs(Last(stack), x)
                           \/ Resting(worker[x])
    BY <1>1, CallsTop
<1>3. Front(stack) = <<>> /\ pool.nr_running = 0 /\ pool.idle_list # <<>>
    BY <1>2 DEF Innermost, Top
<1>4. \A x : ~Calling(<<>>, x)
    BY SMT DEF Calling
<1>5. AllRest(worker)
    BY <1>2, <1>3, <1>4 DEF AllRest, Runs, Top
<1>6. Top.left \in Seq(Wq)
    BY <1>2 DEF Top, Frame, AdjustFrame, WorkerFrame
<1> QED BY <1>3, <1>5, <1>6

\* pwq_adjust_max_active() returns from its last workqueue.
LEMMA AdjustDoneStep ==
    ASSUME IInv, AdjustDone
    PROVE  IInv'
<1>1. /\ unbound' = unbound /\ freezing' = freezing /\ worker' = worker
      /\ pool' = pool /\ work' = work /\ pwq' = pwq /\ stack' = Front(stack)
      /\ ~Idle /\ Top.fn = "pwq_adjust_max_active"
    BY DEF AdjustDone
<1>2. /\ Front(stack) = <<>> /\ pool.nr_running = 0 /\ pool.idle_list # <<>>
      /\ AllRest(worker)
    BY <1>1, AdjustFacts
<1>3. Calls(<<>>, pool, worker, work)
    BY <1>2, NoCalls
<1>4. stack' = <<>>
    BY <1>1, <1>2
<1> QED BY <1>1, <1>3, <1>4, Parts, Whole

\* What holds when a call of worker_thread() is about to go on.
LEMMA InFacts ==
    ASSUME IInv, NEW pc, In(pc)
    PROVE  /\ unbound \in BOOLEAN /\ freezing \in BOOLEAN
           /\ Data(pool, pwq, work, worker) /\ AllSettled(pwq)
           /\ IdleOK(pool, worker) /\ Calls(stack, pool, worker, work)
           /\ stack # <<>> /\ Self \in Worker /\ Runs(Last(stack), Self)
           /\ Top \in WorkerFrame /\ Top.pc = pc
           /\ TopOK(Top, worker[Self], pool, work)
           /\ pool \in PoolType /\ worker \in [Worker -> WorkerType]
           /\ pwq \in [Wq -> PwqType] /\ work \in [Work -> ItemType]
<1>1. /\ unbound \in BOOLEAN /\ freezing \in BOOLEAN
      /\ Data(pool, pwq, work, worker) /\ AllSettled(pwq)
      /\ IdleOK(pool, worker) /\ Calls(stack, pool, worker, work)
    BY Parts
<1>2. stack # <<>> /\ Top.fn = "worker_thread" /\ Top.pc = pc
    BY DEF In, Idle
<1>3. /\ Last(stack) \in Frame
      /\ Innermost(Last(stack), Front(stack), pool, worker, work)
    BY <1>1, <1>2, CallsTop
<1>4. Top \in WorkerFrame
    BY <1>2, <1>3 DEF Top, Frame, AdjustFrame
<1>5. Self \in Worker /\ Runs(Last(stack), Self)
    BY <1>2, <1>4 DEF Self, Runs, WorkerFrame, Top
<1>6. TopOK(Top, worker[Self], pool, work)
    BY <1>2, <1>3 DEF Innermost, TopOK, Self, Top
<1> QED BY <1>1, <1>2, <1>4, <1>5, <1>6 DEF Data

\* The frame of a call that goes on.
Moved(f, f2, pc, w, n) == f2 = [f EXCEPT !.pc = pc, !.work = w, !.cnt = n]

\* It is a frame of the same call.
LEMMA FrameMoves ==
    ASSUME NEW f \in WorkerFrame, NEW n \in 0..5,
           NEW pc \in {"woke_up", "recheck", "process", "claimed", "sleep"},
           NEW w \in Work \cup {NULL}, NEW f2, Moved(f, f2, pc, w, n)
    PROVE  /\ f2 \in Frame /\ f2.pc = pc /\ f2.work = w /\ f2.cnt = n
           /\ f2.fn = "worker_thread" /\ f2.worker = f.worker /\ Runs(f2, f.worker)
BY DEF WorkerFrame, Frame, Runs, Moved

\* The flags that keep a worker out of concurrency management.
LEMMA NotRunningFlags ==
    ASSUME NEW F
    PROVE  NotRunning(F) <=> \/ "PREP" \in F \/ "CPU_INTENSIVE" \in F
                             \/ "UNBOUND" \in F \/ "REBOUND" \in F
BY DEF NotRunning

\* Its callers hold other items than it does.
LEMMA CallersHold ==
    ASSUME NEW s, NEW p, NEW wk, NEW it, Calls(s, p, wk, it), s # <<>>,
           NEW x, Runs(Last(s), x), NEW y \in Worker, Calling(Front(s), y)
    PROVE  y # x /\ wk[y].current_work \in Work
<1>1. Below(Front(s), wk, it) /\ ~Calling(Front(s), x)
    BY CallsTop DEF Innermost, Runs
<1>2. PICK i \in 1..Len(Front(s)) :
          Front(s)[i].fn = "worker_thread" /\ Front(s)[i].worker = y
    BY DEF Calling
<1>3. Beneath(Front(s)[i], wk, it)
    BY <1>1 DEF Below
<1> QED BY <1>1, <1>2, <1>3 DEF Beneath, CallOK

\* It returns to its caller.
LEMMA TopReturns ==
    ASSUME NEW s, NEW p, NEW wk, NEW it, Calls(s, p, wk, it), s # <<>>,
           NEW x, Runs(Last(s), x), NEW wk2, OneWorker(wk, wk2, x),
           Resting(wk2[x]), p.nr_running = 0, p.idle_list # <<>>
    PROVE  Calls(Front(s), p, wk2, it)
<1> DEFINE b == Front(s)
<1>1. HeldKept(b, wk, it, it)
    BY DEF HeldKept
<1>2. Below(b, wk2, it) /\ ~Calling(b, x) /\ OthersRest(b, x, wk2)
    BY <1>1, CallersStay
<1> HIDE DEF b
<1>3. \A y \in Worker : Calling(b, y) \/ Resting(wk2[y])
    BY <1>2 DEF OthersRest
<1>4. CASE b = <<>>
    <2>1. \A y : ~Calling(<<>>, y)
        BY SMT DEF Calling
    <2>2. AllRest(wk2)
        BY <1>3, <1>4, <2>1 DEF AllRest
    <2> QED BY <1>4, <2>2, NoCalls DEF b
<1>5. CASE b # <<>>
    <2> DEFINE c == Front(b)
               g == Last(b)
    <2>1. /\ c \in Seq(Frame) /\ g \in Frame /\ b = Append(c, g)
          /\ Below(c, wk2, it) /\ Beneath(g, wk2, it)
          /\ g.fn # "worker_thread" => c = <<>>
          /\ g.fn = "worker_thread" => ~Calling(c, g.worker)
        BY <1>2, <1>5, BelowPop
    <2> HIDE DEF c, g
    <2>2. \A y : Calling(b, y) <=> Calling(c, y) \/ Runs(g, y)
        BY <2>1, PushFacts
    <2>3. Innermost(g, c, p, wk2, it)
        <3>1. g.fn = "worker_thread" =>
                 /\ CallOK(g, wk2[g.worker], it) /\ g.pc = "claimed"
                 /\ NotRunning(wk2[g.worker].flags)
            BY <2>1 DEF Beneath
        <3>2. g.pc = "claimed" => Turn(g, p)
            BY DEF Turn
        <3> QED BY <2>1, <3>1, <3>2 DEF Innermost
    <2>4. Calls(Append(c, g), p, wk2, it)
        BY <1>3, <2>1, <2>2, <2>3, CallsPush
    <2> QED BY <2>1, <2>4 DEF b
<1> QED BY <1>4, <1>5

\* worker_thread() of a worker that is to die.
LEMMA DieStep ==
    ASSUME IInv, Die
    PROVE  IInv'
<1> DEFINE x == Self
<1>1. In("woke_up")
    BY DEF Die
<1>2. /\ unbound' = unbound /\ freezing' = freezing /\ pool' = pool /\ pwq' = pwq
      /\ work' = work /\ stack' = Front(stack)
      /\ worker' = [worker EXCEPT ![x].memory = "freed"]
    BY DEF Die
<1>3. /\ CallOK(Top, worker[x], work) /\ Turn(Top, pool) /\ Top.pc = "woke_up"
      /\ pool.nr_running = IF NotRunning(worker[x].flags) THEN 0 ELSE 1
      /\ x \in Worker /\ worker[x] \in WorkerType
    BY <1>1, InFacts DEF TopOK
<1> HIDE DEF x
<1>4. /\ "PREP" \in worker[x].flags /\ "IDLE" \in worker[x].flags
      /\ "CPU_INTENSIVE" \notin worker[x].flags
      /\ worker[x].current_work = NULL /\ worker[x].memory = "live"
      /\ pool.idle_list # <<>>
    BY <1>3 DEF CallOK, Turn
<1>5. pool.nr_running = 0
    BY <1>3, <1>4, NotRunningFlags
<1>6. /\ worker' \in [Worker -> WorkerType] /\ OneWorker(worker, worker', x)
      /\ worker'[x].flags = worker[x].flags /\ worker'[x].current_work = NULL
      /\ worker'[x].memory = "freed"
    <2>1. worker \in [Worker -> WorkerType]
        BY <1>1, InFacts
    <2> QED BY <1>2, <1>3, <1>4, <2>1 DEF OneWorker, WorkerType
<1>7. Resting(worker'[x])
    BY <1>4, <1>6 DEF Resting
<1>8. Calls(stack', pool, worker', work)
    <2>1. Calls(stack, pool, worker, work) /\ stack # <<>> /\ Runs(Last(stack), x)
        BY <1>1, InFacts DEF x
    <2> QED BY <1>2, <1>4, <1>5, <1>6, <1>7, <2>1, TopReturns
<1>9. IdleOK(pool, worker')
    <2>1. SameIdle(worker[x], worker'[x]) /\ IdleOK(pool, worker)
        BY <1>1, <1>4, <1>6, InFacts DEF SameIdle
    <2> QED BY <1>3, <1>6, <2>1, IdleSame
<1>10. Data(pool, pwq, work, worker')
    <2>1. SameHolders(worker, worker') /\ SameCounts(pwq, pwq)
        BY <1>4, <1>6 DEF SameHolders, SameCounts, OneWorker
    <2>2. Data(pool, pwq, work, worker) /\ pool \in PoolType /\ pwq \in [Wq -> PwqType]
        BY <1>1, InFacts
    <2> QED BY <1>6, <2>1, <2>2, DataSame
<1> QED BY <1>1, <1>2, <1>8, <1>9, <1>10, InFacts, Whole

\* A step of worker_thread() that moves no item.
LEMMA GoesOn ==
    ASSUME IInv, NEW pc, In(pc), unbound' = unbound, freezing' = freezing,
           pwq' = pwq, work' = work, NEW f \in Frame, Runs(f, Self),
           stack' = SetTop(f), pool' \in PoolType, pool'.worklist = pool.worklist,
           worker' \in [Worker -> WorkerType], OneWorker(worker, worker', Self),
           worker'[Self].current_work = worker[Self].current_work,
           IdleOK(pool', worker'), TopOK(f, worker'[Self], pool', work)
    PROVE  IInv'
<1> DEFINE x == Self
<1>1. /\ Data(pool, pwq, work, worker) /\ Calls(stack, pool, worker, work)
      /\ stack # <<>> /\ Runs(Last(stack), x) /\ pwq \in [Wq -> PwqType]
    BY InFacts
<1> HIDE DEF x
<1>2. HeldKept(Front(stack), worker, work, work)
    BY DEF HeldKept
<1>3. stack' = Append(Front(stack), f)
    BY DEF SetTop
<1>4. Calls(stack', pool', worker', work)
    BY <1>1, <1>2, <1>3, TopMoves DEF x
<1>5. SameHolders(worker, worker') /\ SameCounts(pwq, pwq)
    BY DEF SameHolders, SameCounts, OneWorker, x
<1>6. Data(pool', pwq, work, worker')
    BY <1>1, <1>5, DataSame
<1>7. unbound \in BOOLEAN /\ freezing \in BOOLEAN /\ AllSettled(pwq)
    BY InFacts
<1> QED BY <1>4, <1>6, <1>7, Whole

\* A worker with other flags.
Reflagged(wk, wk2, x, F) == wk2 = [wk EXCEPT ![x].flags = F]

\* Nothing else of it changes.
LEMMA FlagsChange ==
    ASSUME NEW wk \in [Worker -> WorkerType], NEW x \in Worker,
           NEW F \in SUBSET FlagSet, NEW wk2, Reflagged(wk, wk2, x, F)
    PROVE  /\ wk2 \in [Worker -> WorkerType] /\ OneWorker(wk, wk2, x)
           /\ wk2[x].flags = F /\ wk2[x].memory = wk[x].memory
           /\ wk2[x].current_work = wk[x].current_work
BY DEF WorkerType, OneWorker, Reflagged

\* worker_thread() from woke_up
LEMMA WokeUpStep ==
    ASSUME IInv, WokeUp
    PROVE  IInv'
<1> DEFINE x == Self
           F == worker[x].flags \ {"IDLE"}
           f == [Top EXCEPT !.pc = "recheck"]
           p2 == LeaveIdle(pool, x)
<1>1. In("woke_up") /\ "DIE" \notin worker[x].flags
    BY DEF WokeUp
<1>2. /\ unbound' = unbound /\ freezing' = freezing /\ pwq' = pwq
      /\ work' = work /\ stack' = SetTop(f) /\ pool' = p2
      /\ worker' = [worker EXCEPT ![x].flags = F]
    BY DEF WokeUp, Goto
<1>3. /\ CallOK(Top, worker[x], work) /\ Turn(Top, pool) /\ Top.pc = "woke_up"
      /\ pool.nr_running = IF NotRunning(worker[x].flags) THEN 0 ELSE 1
      /\ x \in Worker /\ worker[x] \in WorkerType /\ Top \in WorkerFrame
      /\ worker \in [Worker -> WorkerType] /\ pool \in PoolType
      /\ IdleOK(pool, worker)
    BY <1>1, InFacts DEF TopOK
<1>4. /\ Top.cnt \in 0..5 /\ Top.work \in Work \cup {NULL} /\ Top.worker = x
    BY <1>3 DEF WorkerFrame, Self
<1>5. /\ "PREP" \in worker[x].flags
      /\ "CPU_INTENSIVE" \notin worker[x].flags
      /\ worker[x].current_work = NULL /\ worker[x].memory = "live"
      /\ pool.idle_list # <<>> /\ Head(pool.idle_list) = x
      /\ pool.worklist # <<>> => Top.cnt \in {0, 3, 5}
      /\ ~(Top.cnt > 4)
    BY <1>1, <1>3, <1>4 DEF CallOK, Turn
<1>6. Moved(Top, f, "recheck", Top.work, Top.cnt)
    BY <1>3 DEF WorkerFrame, Moved
<1> HIDE DEF f
<1>7. /\ f \in Frame /\ f.pc = "recheck" /\ f.cnt = Top.cnt
      /\ f.fn = "worker_thread" /\ Runs(f, x)
    BY <1>3, <1>4, <1>6, FrameMoves, SMTT(30)
<1> HIDE DEF x
<1>8. /\ F \in SUBSET FlagSet /\ "IDLE" \notin F /\ "PREP" \in F
      /\ "CPU_INTENSIVE" \notin F
    BY <1>3, <1>5 DEF WorkerType, FlagSet
<1> HIDE DEF F
<1>9. /\ worker' \in [Worker -> WorkerType] /\ OneWorker(worker, worker', x)
      /\ worker'[x].flags = F /\ worker'[x].memory = worker[x].memory
      /\ worker'[x].current_work = worker[x].current_work
    <2>1. Reflagged(worker, worker', x, F)
        BY <1>2 DEF Reflagged
    <2> QED BY <1>3, <1>8, <2>1, FlagsChange, SMT
<1>10. /\ IdleOK(p2, worker') /\ p2 \in PoolType /\ p2.worklist = pool.worklist
       /\ p2.nr_running = pool.nr_running
    BY <1>3, <1>5, <1>8, <1>9, IdleLeft, SMT
<1> HIDE DEF p2
<1>11. NotRunning(F) /\ NotRunning(worker[x].flags)
    BY <1>5, <1>8, NotRunningFlags
<1>12. Top.cnt \in 0..4 /\ (pool.worklist # <<>> => Top.cnt \in {0, 3})
    BY <1>4, <1>5, SMT
<1>13. TopOK(f, worker'[x], p2, work)
    <2>1. /\ worker'[x].flags = F /\ worker'[x].memory = "live"
          /\ worker'[x].current_work = NULL
        BY <1>5, <1>9
    <2>2. CallOK(f, worker'[x], work)
        BY <1>7, <1>8, <1>12, <2>1 DEF CallOK
    <2>3. Turn(f, p2)
        BY <1>7, <1>10, <1>12 DEF Turn
    <2>4. p2.nr_running = 0
        BY <1>3, <1>10, <1>11
    <2> QED BY <1>11, <2>1, <2>2, <2>3, <2>4 DEF TopOK
<1> QED BY <1>1, <1>2, <1>7, <1>9, <1>10, <1>13, GoesOn DEF x

\* need_more_worker() says no.
LEMMA NoNeedStep ==
    ASSUME IInv, NoNeed
    PROVE  IInv'
<1> DEFINE x == Self
           f == [Top EXCEPT !.pc = "sleep"]
<1>1. In("recheck") /\ ~need_more_worker(pool)
    BY DEF NoNeed
<1>2. /\ unbound' = unbound /\ freezing' = freezing /\ pwq' = pwq
      /\ work' = work /\ stack' = SetTop(f) /\ pool' = pool /\ worker' = worker
    BY DEF NoNeed, Goto
<1>3. /\ CallOK(Top, worker[x], work) /\ Turn(Top, pool) /\ Top.pc = "recheck"
      /\ pool.nr_running = IF NotRunning(worker[x].flags) THEN 0 ELSE 1
      /\ x \in Worker /\ worker[x] \in WorkerType /\ Top \in WorkerFrame
      /\ worker \in [Worker -> WorkerType] /\ pool \in PoolType
      /\ IdleOK(pool, worker)
    BY <1>1, InFacts DEF TopOK
<1>4. /\ Top.cnt \in 0..5 /\ Top.work \in Work \cup {NULL} /\ Top.worker = x
    BY <1>3 DEF WorkerFrame, Self
<1>5. "PREP" \in worker[x].flags /\ Top.cnt \in 0..4
    BY <1>3 DEF CallOK
<1>6. Moved(Top, f, "sleep", Top.work, Top.cnt)
    BY <1>3 DEF WorkerFrame, Moved
<1> HIDE DEF f
<1>7. /\ f \in Frame /\ f.pc = "sleep" /\ f.cnt = Top.cnt
      /\ f.fn = "worker_thread" /\ Runs(f, x)
    BY <1>3, <1>4, <1>6, FrameMoves, SMTT(30)
<1> HIDE DEF x
<1>8. NotRunning(worker[x].flags)
    BY <1>5, NotRunningFlags
<1>9. pool.worklist = <<>>
    BY <1>1, <1>3, <1>8 DEF need_more_worker
<1>10. TopOK(f, worker[x], pool, work)
    <2>1. CallOK(f, worker[x], work)
        BY <1>3, <1>7 DEF CallOK
    <2>2. Turn(f, pool)
        BY <1>7, <1>9 DEF Turn
    <2> QED BY <1>3, <2>1, <2>2 DEF TopOK
<1>11. OneWorker(worker, worker', x)
    BY <1>2 DEF OneWorker
<1> QED BY <1>1, <1>2, <1>3, <1>7, <1>10, <1>11, GoesOn DEF x

\* sleep
LEMMA SleepStep ==
    ASSUME Counts, IInv, Sleep
    PROVE  IInv'
<1> DEFINE x == Self
           n == Top.cnt + 1
           F == worker[x].flags \cup {"IDLE"} \cup
                  (IF n > 4 THEN {"DIE"} ELSE {})
           f == [Top EXCEPT !.pc = "woke_up", !.cnt = n]
           m == pool.nr_idle + 1
           s == <<x>> \o pool.idle_list
           p2 == [pool EXCEPT !.idle_list = s, !.nr_idle = m]
<1>1. In("sleep")
    BY DEF Sleep
<1>2. /\ unbound' = unbound /\ freezing' = freezing /\ pwq' = pwq
      /\ work' = work /\ stack' = SetTop(f) /\ pool' = p2
      /\ worker' = [worker EXCEPT ![x].flags = F]
    BY DEF Sleep, EnterIdle, Counted, LimitPassed
<1>3. /\ CallOK(Top, worker[x], work) /\ Turn(Top, pool) /\ Top.pc = "sleep"
      /\ pool.nr_running = IF NotRunning(worker[x].flags) THEN 0 ELSE 1
      /\ x \in Worker /\ worker[x] \in WorkerType /\ Top \in WorkerFrame
      /\ worker \in [Worker -> WorkerType] /\ pool \in PoolType
      /\ IdleOK(pool, worker)
    BY <1>1, InFacts DEF TopOK
<1>4. /\ Top.work \in Work \cup {NULL} /\ Top.worker = x
    BY <1>3 DEF WorkerFrame, Self
<1>5. /\ "PREP" \in worker[x].flags /\ Top.cnt \in 0..4
      /\ "IDLE" \notin worker[x].flags /\ "CPU_INTENSIVE" \notin worker[x].flags
      /\ worker[x].current_work = NULL /\ worker[x].memory = "live"
      /\ pool.worklist # <<>> => Top.cnt \in {2, 4}
    BY <1>3 DEF CallOK, Turn
<1>6. Moved(Top, f, "woke_up", Top.work, n)
    BY <1>3 DEF WorkerFrame, Moved
<1>7. n \in 0..5 /\ (pool.worklist # <<>> => n \in {0, 3, 5})
    BY <1>5, SMT
<1> HIDE DEF f
<1>8. /\ F \in SUBSET FlagSet /\ "IDLE" \in F /\ "PREP" \in F
      /\ "CPU_INTENSIVE" \notin F /\ (n > 4 => "DIE" \in F)
    BY <1>3, <1>5 DEF WorkerType, FlagSet
<1> HIDE DEF n, F
<1>16. n \in 0..5
    BY <1>7
<1>9. /\ f \in Frame /\ f.pc = "woke_up" /\ f.cnt = n
      /\ f.fn = "worker_thread" /\ f.worker = x /\ Runs(f, x)
    <2>1. /\ f \in Frame /\ f.pc = "woke_up" /\ f.cnt = n /\ f.fn = "worker_thread"
          /\ f.worker = Top.worker /\ Runs(f, Top.worker)
        BY <1>3, <1>4, <1>6, <1>16, FrameMoves, SMTT(30)
    <2> QED BY <1>4, <2>1
<1> HIDE DEF x
<1>10. /\ worker' \in [Worker -> WorkerType] /\ OneWorker(worker, worker', x)
       /\ worker'[x].flags = F /\ worker'[x].memory = worker[x].memory
       /\ worker'[x].current_work = worker[x].current_work
    <2>1. Reflagged(worker, worker', x, F)
        BY <1>2 DEF Reflagged
    <2> QED BY <1>3, <1>8, <2>1, FlagsChange, SMT
<1>11. m \in Nat /\ s \in Seq(Worker)
    <2>1. pool.nr_idle \in Nat /\ pool.idle_list \in Seq(Worker)
        BY <1>3 DEF PoolType
    <2>2. s \in Seq(Worker)
        BY <1>3, <2>1, ConsHas
    <2> QED BY <2>1, <2>2, SMT
<1> HIDE DEF s, m
<1>12. /\ p2 \in PoolType /\ p2.worklist = pool.worklist /\ p2.idle_list = s
       /\ p2.nr_idle = m /\ p2.nr_workers = pool.nr_workers
       /\ p2.nr_running = pool.nr_running
    BY <1>3, <1>11 DEF PoolType
<1> HIDE DEF p2
<1>13. IdleOK(p2, worker') /\ p2.idle_list # <<>> /\ Head(p2.idle_list) = x
    <2>1. /\ p2.idle_list = <<x>> \o pool.idle_list /\ p2.nr_idle = pool.nr_idle + 1
          /\ p2.nr_workers = IF worker[x].memory = "free" THEN pool.nr_workers + 1
                             ELSE pool.nr_workers
        BY <1>5, <1>12 DEF s, m
    <2>2. worker'[x].memory # "free" /\ "IDLE" \in worker'[x].flags
        BY <1>5, <1>8, <1>10
    <2> QED BY <1>3, <1>5, <1>10, <2>1, <2>2, IdleEntered, SMT
<1>14. NotRunning(F) /\ NotRunning(worker[x].flags)
    BY <1>5, <1>8, NotRunningFlags
<1>15. TopOK(f, worker'[x], p2, work)
    <2>1. CallOK(f, worker'[x], work)
        BY <1>5, <1>8, <1>9, <1>10 DEF CallOK
    <2>2. Turn(f, p2)
        BY <1>7, <1>9, <1>12, <1>13 DEF Turn
    <2> QED BY <1>3, <1>10, <1>12, <1>14, <2>1, <2>2 DEF TopOK
<1> QED BY <1>1, <1>2, <1>9, <1>10, <1>12, <1>13, <1>15, GoesOn DEF x

\* What a worker with these flags adds to nr_running.
Share(flags) == IF NotRunning(flags) THEN 0 ELSE 1

\* nr_running after the flag changes of worker_thread().
LEMMA RunningCounts ==
    ASSUME NEW old
    PROVE  /\ RunningAfterClr(Share(old), old, {"PREP", "REBOUND"})
                  = Share(old \ {"PREP", "REBOUND"})
           /\ RunningAfterSet(Share(old), old, {"PREP"}) = 0
           /\ NotRunning(old \cup {"PREP"})
<1>1. NotRunning({"PREP", "REBOUND"}) /\ NotRunning({"PREP"})
    BY DEF NotRunning
<1>2. RunningAfterSet(Share(old), old, {"PREP"}) = 0
    BY <1>1, SMT DEF RunningAfterSet, Share
<1>3. NotRunning(old \cup {"PREP"})
    BY NotRunningFlags
<1>4. NotRunning(old \ {"PREP", "REBOUND"}) => NotRunning(old)
    BY NotRunningFlags
<1>5. RunningAfterClr(Share(old), old, {"PREP", "REBOUND"})
          = Share(old \ {"PREP", "REBOUND"})
    BY <1>1, <1>4, SMT DEF RunningAfterClr, Share
<1> QED BY <1>2, <1>3, <1>5

\* process_one_work() sets WORKER_CPU_INTENSIVE for the item's workqueue.
LEMMA IntensiveSet ==
    ASSUME NEW old, NEW q
    PROVE  RunningAfterSet(Share(old), old, Intensive(q))
                  = Share(old \cup Intensive(q))
<1>1. NotRunning({"CPU_INTENSIVE"}) /\ ~NotRunning({})
    BY DEF NotRunning
<1>2. CASE q \in CpuIntensive
    <2>1. Intensive(q) = {"CPU_INTENSIVE"} /\ NotRunning(old \cup {"CPU_INTENSIVE"})
        BY <1>2, NotRunningFlags DEF Intensive
    <2> QED BY <1>1, <2>1, SMT DEF RunningAfterSet, Share
<1>3. CASE q \notin CpuIntensive
    <2>1. Intensive(q) = {} /\ (NotRunning(old \cup {}) <=> NotRunning(old))
        BY <1>3, NotRunningFlags DEF Intensive
    <2> QED BY <1>1, <2>1 DEF RunningAfterSet, Share
<1> QED BY <1>2, <1>3

\* It clears it again for the same workqueue.
LEMMA IntensiveClr ==
    ASSUME NEW old, NEW q, "CPU_INTENSIVE" \in old <=> q \in CpuIntensive
    PROVE  RunningAfterClr(Share(old), old, Intensive(q))
                  = Share(old \ {"CPU_INTENSIVE"})
<1>1. NotRunning({"CPU_INTENSIVE"}) /\ ~NotRunning({})
    BY DEF NotRunning
<1>2. NotRunning(old \ {"CPU_INTENSIVE"}) => NotRunning(old)
    BY NotRunningFlags
<1>3. CASE q \in CpuIntensive
    <2>1. Intensive(q) = {"CPU_INTENSIVE"} /\ NotRunning(old)
        BY <1>3, NotRunningFlags DEF Intensive
    <2> QED BY <1>1, <1>2, <2>1, SMT DEF RunningAfterClr, Share
<1>4. CASE q \notin CpuIntensive
    <2>1. Intensive(q) = {} /\ (NotRunning(old \ {"CPU_INTENSIVE"}) <=> NotRunning(old))
        BY <1>4, NotRunningFlags DEF Intensive
    <2> QED BY <1>1, <2>1 DEF RunningAfterClr, Share
<1> QED BY <1>3, <1>4

\* The end of the PREP stage.
LEMMA StartStep ==
    ASSUME IInv, StartWorking
    PROVE  IInv'
<1> DEFINE x == Self
           F == worker[x].flags \ {"PREP", "REBOUND"}
           f == [Top EXCEPT !.pc = "process"]
           n == RunningAfterClr(pool.nr_running, worker[x].flags, {"PREP", "REBOUND"})
           p2 == [pool EXCEPT !.nr_running = n]
<1>1. In("recheck") /\ need_more_worker(pool) /\ pool.nr_idle # 0
    BY DEF StartWorking, MayNotStart, may_start_working
<1>2. /\ unbound' = unbound /\ freezing' = freezing /\ pwq' = pwq
      /\ work' = work /\ stack' = SetTop(f) /\ pool' = p2
      /\ worker' = [worker EXCEPT ![x].flags = F]
    BY DEF StartWorking, Goto
<1>3. /\ CallOK(Top, worker[x], work) /\ Turn(Top, pool) /\ Top.pc = "recheck"
      /\ pool.nr_running = Share(worker[x].flags)
      /\ x \in Worker /\ worker[x] \in WorkerType /\ Top \in WorkerFrame
      /\ worker \in [Worker -> WorkerType] /\ pool \in PoolType
      /\ IdleOK(pool, worker)
    BY <1>1, InFacts DEF TopOK, Share
<1>4. /\ Top.cnt \in 0..5 /\ Top.work \in Work \cup {NULL} /\ Top.worker = x
    BY <1>3 DEF WorkerFrame, Self
<1>5. /\ "IDLE" \notin worker[x].flags /\ "CPU_INTENSIVE" \notin worker[x].flags
      /\ worker[x].current_work = NULL /\ worker[x].memory = "live"
      /\ pool.worklist # <<>> /\ Top.cnt \in {0, 3}
    BY <1>1, <1>3 DEF CallOK, Turn, need_more_worker
<1>6. Moved(Top, f, "process", Top.work, Top.cnt)
    BY <1>3 DEF WorkerFrame, Moved
<1> HIDE DEF f
<1>7. /\ f \in Frame /\ f.pc = "process" /\ f.cnt = Top.cnt
      /\ f.fn = "worker_thread" /\ Runs(f, x)
    BY <1>3, <1>4, <1>6, FrameMoves, SMTT(30)
<1> HIDE DEF x
<1>8. n = Share(F) /\ n \in Nat
    <2> DEFINE o == worker[x].flags
    <2>1. pool.nr_running = Share(o)
        BY <1>3
    <2> HIDE DEF o
    <2>2. RunningAfterClr(Share(o), o, {"PREP", "REBOUND"}) = Share(o \ {"PREP", "REBOUND"})
        BY RunningCounts
    <2>3. n = Share(F)
        BY <2>1, <2>2 DEF o
    <2>4. Share(F) \in Nat
        BY DEF Share
    <2> QED BY <2>3, <2>4
<1>9. /\ F \in SUBSET FlagSet /\ "IDLE" \notin F /\ "PREP" \notin F
      /\ "CPU_INTENSIVE" \notin F
    BY <1>3, <1>5 DEF WorkerType, FlagSet
<1> HIDE DEF F, n
<1>10. /\ worker' \in [Worker -> WorkerType] /\ OneWorker(worker, worker', x)
       /\ worker'[x].flags = F /\ worker'[x].memory = worker[x].memory
       /\ worker'[x].current_work = worker[x].current_work
    <2>1. Reflagged(worker, worker', x, F)
        BY <1>2 DEF Reflagged
    <2> QED BY <1>3, <1>9, <2>1, FlagsChange, SMT
<1>11. /\ p2 \in PoolType /\ p2.worklist = pool.worklist
       /\ p2.idle_list = pool.idle_list /\ p2.nr_idle = pool.nr_idle
       /\ p2.nr_workers = pool.nr_workers /\ p2.nr_running = n
    BY <1>3, <1>8 DEF PoolType
<1> HIDE DEF p2
<1>12. IdleOK(p2, worker')
    <2>1. SameIdle(worker[x], worker'[x])
        BY <1>5, <1>9, <1>10 DEF SameIdle
    <2> QED BY <1>3, <1>10, <1>11, <2>1, IdleSame
<1>13. pool.idle_list # <<>>
    BY <1>1, <1>3 DEF IdleOK
<1>14. TopOK(f, worker'[x], p2, work)
    <2>1. CallOK(f, worker'[x], work)
        BY <1>5, <1>7, <1>9, <1>10 DEF CallOK
    <2>2. Turn(f, p2)
        BY <1>5, <1>7, <1>11, <1>13 DEF Turn
    <2> QED BY <1>8, <1>10, <1>11, <2>1, <2>2 DEF TopOK, Share
<1> QED BY <1>1, <1>2, <1>7, <1>10, <1>11, <1>12, <1>14, GoesOn DEF x

\* create_worker() takes memory that no worker has.
Fresh(wk, wk2, y) ==
    /\ y \in Worker /\ wk[y].memory = "free"
    /\ OneWorker(wk, wk2, y) /\ Resting(wk2[y])

\* No call uses that memory.
LEMMA FreeIsUnused ==
    ASSUME NEW b, NEW wk, NEW it, Below(b, wk, it), NEW y, wk[y].memory = "free"
    PROVE  ~Calling(b, y)
<1> SUFFICES ASSUME NEW i \in 1..Len(b), b[i].fn = "worker_thread", b[i].worker = y
             PROVE  FALSE
    BY DEF Calling
<1>1. Beneath(b[i], wk, it)
    BY DEF Below
<1> QED BY <1>1 DEF Beneath, CallOK

\* The calls are not disturbed.
LEMMA FreeJoins ==
    ASSUME NEW s, NEW p, NEW wk, NEW it, Calls(s, p, wk, it), s # <<>>,
           NEW x \in Worker, Runs(Last(s), x), NEW y, NEW wk2, Fresh(wk, wk2, y),
           NEW p2, TopOK(Last(s), wk[x], p2, it)
    PROVE  Calls(s, p2, wk2, it) /\ Resting(wk[y])
<1> DEFINE b == Front(s)
           f == Last(s)
<1>1. Innermost(f, b, p, wk, it) /\ Below(b, wk, it)
    BY CallsTop
<1>2. f \in Frame /\ s = Append(b, f)
    BY CallsTop
<1>3. \A z \in Worker : Calling(b, z) \/ Runs(f, z) \/ Resting(wk[z])
    BY CallsTop
<1> HIDE DEF b, f
<1>4. f.fn = "worker_thread" /\ f.worker = x
    BY DEF Runs, f
<1>5. y \in Worker /\ wk[y].memory = "free" /\ Resting(wk2[y])
    BY DEF Fresh
<1>6. y # x
    BY <1>5 DEF TopOK, CallOK
<1>7. \A z \in Worker : z # y => wk2[z] = wk[z]
    BY DEF Fresh, OneWorker
<1>8. ~Calling(b, y)
    BY <1>1, <1>5, FreeIsUnused
<1>9. Below(b, wk2, it)
    <2>1. \A z \in Worker : Calling(b, z) => wk2[z] = wk[z]
        BY <1>7, <1>8
    <2> QED BY <1>1, <2>1, BelowKeeps
<1>10. wk2[x] = wk[x]
    BY <1>6, <1>7
<1>11. ~Calling(b, x)
    BY <1>1, <1>4 DEF Innermost
<1>12. Innermost(f, b, p2, wk2, it)
    BY <1>4, <1>10, <1>11 DEF Innermost, TopOK, f
<1>13. \A z \in Worker : Calling(b, z) \/ Runs(f, z) \/ Resting(wk2[z])
    BY <1>3, <1>5, <1>7
<1>14. Calls(Append(b, f), p2, wk2, it)
    BY <1>2, <1>9, <1>12, <1>13, CallsPush
<1>15. Resting(wk[y])
    BY <1>3, <1>4, <1>5, <1>6, <1>8 DEF Runs
<1> QED BY <1>2, <1>14, <1>15

\* manage_workers()
LEMMA ManageStep ==
    ASSUME Counts, IInv, ManageWorkers
    PROVE  IInv'
<1> DEFINE x == Self
<1>1. In("recheck") /\ need_more_worker(pool)
    BY DEF ManageWorkers
<1>2. /\ unbound' = unbound /\ freezing' = freezing /\ pwq' = pwq
      /\ work' = work /\ stack' = stack
    BY DEF ManageWorkers
<1>3. PICK y \in Worker :
        /\ worker[y].memory = "free" /\ worker' = [worker EXCEPT ![y] = NewWorker]
        /\ pool' = [EnterIdle(pool, y) EXCEPT !.nr_workers = @ + 1]
    BY DEF ManageWorkers
<1>14. worker[y].memory = "free"
    BY <1>3
<1>15. x \in Worker /\ pool \in PoolType /\ IdleOK(pool, worker)
    BY <1>1, InFacts
<1>4. /\ CallOK(Top, worker[x], work) /\ Turn(Top, pool) /\ Top.pc = "recheck"
      /\ pool.nr_running = Share(worker[x].flags)
      /\ x \in Worker /\ worker \in [Worker -> WorkerType] /\ pool \in PoolType
      /\ IdleOK(pool, worker)
    BY <1>1, InFacts DEF TopOK, Share
<1> HIDE DEF x
<1>5. /\ NewWorker \in WorkerType /\ Resting(NewWorker) /\ "IDLE" \in NewWorker.flags
      /\ NewWorker.memory = "live" /\ NewWorker.current_work = NULL
    BY DEF NewWorker, WorkerType, FlagSet, Resting
<1>6. /\ worker' \in [Worker -> WorkerType] /\ OneWorker(worker, worker', y)
      /\ worker'[y] = NewWorker
    BY <1>3, <1>4, <1>5 DEF OneWorker
<1> DEFINE s == <<y>> \o pool.idle_list
           m == pool.nr_idle + 1
           n == pool.nr_workers + 1
<1>7. pool' = [pool EXCEPT !.idle_list = s, !.nr_idle = m, !.nr_workers = n]
    BY <1>3, <1>4 DEF EnterIdle, PoolType
<1>8. m \in Nat /\ n \in Nat /\ s \in Seq(Worker)
    <2>1. /\ pool.nr_idle \in Nat /\ pool.nr_workers \in Nat
          /\ pool.idle_list \in Seq(Worker)
        BY <1>4 DEF PoolType
    <2>2. s \in Seq(Worker)
        BY <2>1, ConsHas
    <2> QED BY <2>1, <2>2, SMT
<1> HIDE DEF s, m, n
<1>9. /\ pool' \in PoolType /\ pool'.worklist = pool.worklist
      /\ pool'.idle_list = s /\ pool'.nr_idle = m /\ pool'.nr_workers = n
      /\ pool'.nr_running = pool.nr_running
    BY <1>4, <1>7, <1>8 DEF PoolType
<1>10. IdleOK(pool', worker')
    <2>1. /\ pool'.idle_list = <<y>> \o pool.idle_list
          /\ pool'.nr_idle = pool.nr_idle + 1
          /\ pool'.nr_workers = IF worker[y].memory = "free" THEN pool.nr_workers + 1
                                ELSE pool.nr_workers
        BY <1>3, <1>9 DEF s, m, n
    <2>2. worker'[y].memory # "free" /\ "IDLE" \in worker'[y].flags
        BY <1>5, <1>6
    <2>3. OneWorker(worker, worker', y)
        BY <1>6
    <2> QED BY <1>14, <1>15, <2>1, <2>2, <2>3, IdleEntered
<1>11. TopOK(Top, worker[x], pool', work)
    <2>1. Turn(Top, pool')
        BY <1>4, <1>9 DEF Turn
    <2> QED BY <1>4, <1>9, <2>1 DEF TopOK, Share
<1>12. Calls(stack, pool', worker', work) /\ Resting(worker[y])
    <2>1. Calls(stack, pool, worker, work) /\ stack # <<>> /\ Runs(Last(stack), x)
        BY <1>1, InFacts DEF x
    <2>2. TopOK(Last(stack), worker[x], pool', work) /\ Resting(worker'[y])
        BY <1>5, <1>6, <1>11 DEF Top
    <2>3. OneWorker(worker, worker', y)
        BY <1>6
    <2>4. Fresh(worker, worker', y) /\ x \in Worker
        BY <1>14, <1>15, <2>2, <2>3 DEF Fresh
    <2> QED BY <2>1, <2>2, <2>4, FreeJoins
<1>13. Data(pool', pwq, work, worker')
    <2>1. /\ Data(pool, pwq, work, worker) /\ AllSettled(pwq)
          /\ pwq \in [Wq -> PwqType]
        BY <1>1, InFacts
    <2>2. SameHolders(worker, worker')
        BY <1>5, <1>6, <1>12 DEF SameHolders, OneWorker, Resting
    <2>3. SameCounts(pwq, pwq)
        BY DEF SameCounts
    <2> QED BY <1>6, <1>9, <2>1, <2>2, <2>3, DataSame
<1> QED BY <1>1, <1>2, <1>10, <1>12, <1>13, InFacts, Whole

\* The worker of a call with other flags and another item.
Rewritten(wk, wk2, x, F, w) ==
    /\ F \in SUBSET FlagSet /\ w \in Work \cup {NULL}
    /\ wk2 = [wk EXCEPT ![x].flags = F, ![x].current_work = w]

\* Nothing else of it changes.
LEMMA WorkerChanges ==
    ASSUME NEW wk \in [Worker -> WorkerType], NEW x \in Worker,
           NEW F, NEW w, NEW wk2, Rewritten(wk, wk2, x, F, w)
    PROVE  /\ wk2 \in [Worker -> WorkerType] /\ OneWorker(wk, wk2, x)
           /\ wk2[x].flags = F /\ wk2[x].memory = wk[x].memory
           /\ wk2[x].current_work = w
<1> DEFINE k == [wk[x] EXCEPT !.flags = F, !.current_work = w]
<1>1. /\ k \in WorkerType /\ k.flags = F /\ k.current_work = w
      /\ k.memory = wk[x].memory
    BY DEF WorkerType, Rewritten
<1>2. wk2 = [wk EXCEPT ![x] = k]
    BY DEF Rewritten
<1> HIDE DEF k
<1> QED BY <1>1, <1>2 DEF OneWorker

\* A call that has claimed an item and does not count as running may wake
\* another worker.
LEMMA TopCalls ==
    ASSUME NEW s, NEW p, NEW wk, NEW it, Calls(s, p, wk, it), s # <<>>,
           NEW x \in Worker, Runs(Last(s), x), NEW wk2, OneWorker(wk, wk2, x),
           NEW f \in Frame, Runs(f, x), f.pc = "claimed",
           CallOK(f, wk2[x], it), NotRunning(wk2[x].flags)
    PROVE  Callers(Append(Front(s), f), wk2, it)
<1> DEFINE b == Front(s)
<1>1. HeldKept(b, wk, it, it)
    BY DEF HeldKept
<1>2. Below(b, wk2, it) /\ ~Calling(b, x) /\ OthersRest(b, x, wk2)
    BY <1>1, CallersStay
<1> HIDE DEF b
<1>3. f.fn = "worker_thread" /\ f.worker = x /\ Beneath(f, wk2, it)
    BY DEF Runs, Beneath
<1>4. Below(Append(b, f), wk2, it)
    BY <1>2, <1>3, BelowPush
<1>5. \A y : Calling(Append(b, f), y) <=> Calling(b, y) \/ Runs(f, y)
    <2>1. b \in Seq(Frame)
        BY <1>2 DEF Below
    <2> QED BY <2>1, PushFacts
<1>6. \A y \in Worker : Calling(Append(b, f), y) \/ Resting(wk2[y])
    BY <1>2, <1>5 DEF OthersRest
<1> QED BY <1>4, <1>6 DEF Callers, b

\* process_one_work() up to the wake-up of another worker.
LEMMA ClaimStep ==
    ASSUME IInv, ClaimWork
    PROVE  IInv'
<1> DEFINE x == Self
           w == Head(pool.worklist)
           q == work[w].pwq
           F == worker[x].flags \cup Intensive(q)
           f == [Top EXCEPT !.pc = "claimed", !.work = w]
           n == RunningAfterSet(pool.nr_running, worker[x].flags, Intensive(q))
           t == Tail(pool.worklist)
           p2 == [pool EXCEPT !.worklist = t, !.nr_running = n]
<1>1. In("process")
    BY DEF ClaimWork
<1>2. /\ unbound' = unbound /\ freezing' = freezing /\ pwq' = pwq
      /\ work' = work /\ pool' = p2
      /\ worker' = [worker EXCEPT ![x].flags = F, ![x].current_work = w]
      /\ stack' = IF need_more_worker(p2) THEN Woken(p2, SetTop(f)) ELSE SetTop(f)
    BY DEF ClaimWork
<1>3. /\ CallOK(Top, worker[x], work) /\ Turn(Top, pool) /\ Top.pc = "process"
      /\ pool.nr_running = Share(worker[x].flags)
      /\ x \in Worker /\ worker[x] \in WorkerType /\ Top \in WorkerFrame
      /\ worker \in [Worker -> WorkerType] /\ pool \in PoolType
    BY <1>1, InFacts DEF TopOK, Share
<1>4. Top.worker = x
    BY DEF Self
<1>5. /\ "IDLE" \notin worker[x].flags /\ "CPU_INTENSIVE" \notin worker[x].flags
      /\ "PREP" \notin worker[x].flags
      /\ worker[x].current_work = NULL /\ worker[x].memory = "live"
      /\ pool.worklist # <<>> /\ pool.idle_list # <<>> /\ Top.cnt \in {0, 1, 3}
    BY <1>3 DEF CallOK, Turn
<1>6. t \in Seq(Work) /\ w \in Work
    BY <1>3, <1>5, TailHas DEF PoolType
<1>7. Moved(Top, f, "claimed", w, Top.cnt)
    BY <1>3 DEF WorkerFrame, Moved
<1> HIDE DEF f
<1>8. /\ f \in Frame /\ f.pc = "claimed" /\ f.cnt = Top.cnt /\ f.work = w
      /\ f.fn = "worker_thread" /\ Runs(f, x)
    <2>1. Top.cnt \in 0..5
        BY <1>5, SMT
    <2> QED BY <1>3, <1>4, <1>6, <1>7, <2>1, FrameMoves, SMTT(30)
<1> HIDE DEF x
<1>9. /\ F \in SUBSET FlagSet /\ "IDLE" \notin F /\ "PREP" \notin F
      /\ "CPU_INTENSIVE" \in F <=> q \in CpuIntensive
    BY <1>3, <1>5 DEF WorkerType, FlagSet, Intensive
<1>10. n = Share(F) /\ n \in Nat
    <2> DEFINE o == worker[x].flags
    <2>1. pool.nr_running = Share(o)
        BY <1>3
    <2> HIDE DEF o
    <2>2. RunningAfterSet(Share(o), o, Intensive(q)) = Share(o \cup Intensive(q))
        BY IntensiveSet
    <2>3. n = Share(F)
        BY <2>1, <2>2 DEF o
    <2>4. Share(F) \in Nat
        BY DEF Share
    <2> QED BY <2>3, <2>4
<1> HIDE DEF F, n, t
<1>11. /\ p2 \in PoolType /\ p2.worklist = t /\ p2.idle_list = pool.idle_list
       /\ p2.nr_idle = pool.nr_idle /\ p2.nr_workers = pool.nr_workers
       /\ p2.nr_running = n
    BY <1>3, <1>6, <1>10 DEF PoolType
<1> HIDE DEF p2, w, q
<1>12. /\ worker' \in [Worker -> WorkerType] /\ OneWorker(worker, worker', x)
       /\ worker'[x].flags = F /\ worker'[x].memory = worker[x].memory
       /\ worker'[x].current_work = w
    <2>1. Rewritten(worker, worker', x, F, w)
        BY <1>2, <1>6, <1>9 DEF Rewritten
    <2>2. x \in Worker /\ worker \in [Worker -> WorkerType]
        BY <1>3
    <2> QED BY <2>1, <2>2, WorkerChanges, SMT
<1>13. Data(p2, pwq, work, worker')
    <2>1. p2.worklist = Tail(pool.worklist)
          /\ worker'[x].current_work = Head(pool.worklist)
        BY <1>11, <1>12 DEF t, w
    <2>2. Data(pool, pwq, work, worker)
        BY <1>1, InFacts
    <2>3. p2 \in PoolType /\ worker' \in [Worker -> WorkerType]
          /\ OneWorker(worker, worker', x)
        BY <1>11, <1>12
    <2> QED BY <1>3, <1>5, <2>1, <2>2, <2>3, ClaimKeeps
<1>14. IdleOK(p2, worker')
    <2>1. SameIdle(worker[x], worker'[x]) /\ IdleOK(pool, worker)
        BY <1>1, <1>5, <1>9, <1>12, InFacts DEF SameIdle
    <2> QED BY <1>3, <1>11, <1>12, <2>1, IdleSame
<1>15. CallOK(f, worker'[x], work)
    BY <1>5, <1>6, <1>8, <1>9, <1>12 DEF CallOK, q
<1>16. /\ Calls(stack, pool, worker, work) /\ stack # <<>> /\ Runs(Last(stack), x)
       /\ OneWorker(worker, worker', x) /\ x \in Worker
    BY <1>1, <1>12, InFacts DEF x
<1>17. Calls(SetTop(f), p2, worker', work)
    <2>1. Turn(f, p2)
        BY <1>5, <1>8, <1>11 DEF Turn
    <2>2. TopOK(f, worker'[x], p2, work)
        BY <1>10, <1>11, <1>12, <1>15, <2>1 DEF TopOK, Share
    <2>3. HeldKept(Front(stack), worker, work, work)
        BY DEF HeldKept
    <2> QED BY <1>8, <1>16, <2>2, <2>3, TopMoves DEF SetTop
<1>18. Calls(stack', p2, worker', work)
    <2> DEFINE h == Head(p2.idle_list)
    <2>1. CASE stack' = SetTop(f)
        BY <1>17, <2>1
    <2>2. CASE stack' # SetTop(f)
        <3>1. need_more_worker(p2) /\ stack' = Woken(p2, SetTop(f))
            BY <1>2, <2>2
        <3>2. /\ worker[h].memory = "live"
              /\ stack' = Append(SetTop(f), Called(h))
            BY <2>2, <3>1 DEF Woken, Called
        <3>3. p2.nr_running = 0 /\ NotRunning(worker'[x].flags)
            BY <1>10, <1>11, <1>12, <3>1, SMT DEF need_more_worker, Share
        <3>4. Callers(SetTop(f), worker', work)
            BY <1>8, <1>15, <1>16, <3>3, TopCalls DEF SetTop
        <3>5. h \in Worker /\ p2.idle_list # <<>>
            BY <1>5, <1>11, TailHas DEF PoolType
        <3>6. worker'[h].memory = "live"
            BY <1>12, <3>2, <3>5 DEF OneWorker
        <3> QED BY <1>11, <1>14, <3>2, <3>3, <3>4, <3>5, <3>6, WokenCalls
    <2> QED BY <2>1, <2>2
<1>19. /\ unbound' \in BOOLEAN /\ freezing' \in BOOLEAN /\ AllSettled(pwq')
       /\ pwq' = pwq /\ work' = work /\ pool' = p2
    BY <1>1, <1>2, InFacts
<1> QED BY <1>13, <1>14, <1>18, <1>19, Whole

\* set_work_pool_and_clear_pending() and list_del_init() leave a blank item.
LEMMA BlankItem ==
    ASSUME NEW k \in ItemType
    PROVE  [k EXCEPT !.pending = FALSE, !.pwq = NULL, !.inactive = FALSE] = Blank
<1> DEFINE r == [k EXCEPT !.pending = FALSE, !.pwq = NULL, !.inactive = FALSE]
<1>1. r \in ItemType /\ r.pending = FALSE /\ r.pwq = NULL /\ r.inactive = FALSE
    BY DEF ItemType
<1> HIDE DEF r
<1>2. r = [pending |-> r.pending, pwq |-> r.pwq, inactive |-> r.inactive]
    BY <1>1 DEF ItemType
<1>3. r = Blank
    BY <1>1, <1>2 DEF Blank
<1> QED BY <1>3 DEF r

\* The item is put down: what pwq_dec_nr_in_flight() leaves.
LEMMA FinishFacts ==
    ASSUME Counts, IInv, In("claimed"), NEW F, NEW wk2,
           Rewritten(worker, wk2, Self, F, NULL), NEW n \in Nat, NEW p1,
           p1 = [pool EXCEPT !.nr_running = n], NEW S,
           Finished(S, p1, pwq, PendingCleared(Top.work), work[Top.work].pwq)
    PROVE  /\ Data(S.pool, S.pwq, S.work, wk2) /\ AllSettled(S.pwq)
           /\ PoolKept(p1, S.pool)
           /\ HeldKept(Front(stack), worker, work, S.work)
<1> DEFINE x == Self
           w == Top.work
           it2 == PendingCleared(w)
<1>1. /\ Data(pool, pwq, work, worker) /\ AllSettled(pwq) /\ x \in Worker
      /\ pool \in PoolType /\ worker \in [Worker -> WorkerType]
      /\ work \in [Work -> ItemType]
    BY InFacts
<1>2. w \in Work /\ worker[x].current_work = w
    BY InFacts, SMT DEF TopOK, CallOK
<1>3. it2 \in [Work -> ItemType] /\ it2[w] = Blank /\ Apart(work, it2, w)
    <2> DEFINE k == [work[w] EXCEPT !.pending = FALSE, !.pwq = NULL,
                                    !.inactive = FALSE]
    <2>1. k = Blank
        BY <1>1, <1>2, BlankItem
    <2>2. it2 = [work EXCEPT ![w] = k]
        BY DEF PendingCleared
    <2> HIDE DEF k, it2
    <2>3. Blank \in ItemType
        BY DEF Blank, ItemType
    <2> QED BY <1>1, <1>2, <2>1, <2>2, <2>3 DEF Apart
<1>4. /\ wk2 \in [Worker -> WorkerType] /\ OneWorker(worker, wk2, x)
      /\ wk2[x].current_work = NULL
    BY <1>1, WorkerChanges, SMT
<1>5. p1 \in PoolType /\ p1.worklist = pool.worklist
    BY <1>1 DEF PoolType
<1>6. Calls(stack, pool, worker, work) /\ stack # <<>> /\ Runs(Last(stack), x)
    BY InFacts
<1> HIDE DEF x, it2, w
<1>7. PutsDown(work, worker, x, w, it2, wk2)
    BY <1>1, <1>2, <1>3, <1>4 DEF PutsDown
<1>8. Finishes(pool, pwq, work, worker, x, w, p1, wk2, it2)
    BY <1>1, <1>3, <1>4, <1>5, <1>7 DEF Finishes
<1>9. Finished(S, p1, pwq, it2, work[w].pwq)
    BY DEF it2, w
<1>10. /\ Data(S.pool, S.pwq, S.work, wk2) /\ AllSettled(S.pwq)
       /\ PoolKept(p1, S.pool)
       /\ \A v \in Work : v # w => S.work[v].pwq = work[v].pwq
    BY <1>8, <1>9, FinishData, SMT
<1>11. HeldKept(Front(stack), worker, work, S.work)
    <2> SUFFICES ASSUME NEW y \in Worker, Calling(Front(stack), y)
                 PROVE  worker[y].current_work \in Work /\ worker[y].current_work # w
        BY <1>10 DEF HeldKept
    <2>1. y # x /\ worker[y].current_work \in Work
        BY <1>6, CallersHold
    <2>2. Items(pool.worklist, pwq, work, worker)
        BY <1>1 DEF Data
    <2>3. Spot(pool.worklist, pwq, worker, w, "held", x)
        BY <1>1, <1>2, <2>2, ItemHeld
    <2> QED BY <2>1, <2>3 DEF Spot
<1> QED BY <1>10, <1>11

\* The data when the item has been put down, and the flags of the worker.
PutDown(S, F) ==
    /\ Rewritten(worker, worker', Self, F, NULL) /\ "IDLE" \notin F
    /\ pool' = [S.pool EXCEPT !.nr_running = Share(F)]
    /\ pwq' = S.pwq /\ work' = S.work
    /\ unbound' = unbound /\ freezing' = freezing
    /\ Data(S.pool, S.pwq, S.work, worker') /\ AllSettled(S.pwq)
    /\ HeldKept(Front(stack), worker, work, S.work)
    /\ S.pool.idle_list = pool.idle_list /\ S.pool.nr_idle = pool.nr_idle
    /\ S.pool.nr_workers = pool.nr_workers

\* The loop goes on, or ends with the worker about to sleep: what that takes.
Loops(S, F, pc) ==
    /\ "CPU_INTENSIVE" \notin F
    /\ \/ /\ pc = "process" /\ "PREP" \notin F
          /\ Top.cnt = 0 /\ S.pool.worklist # <<>>
       \/ /\ pc = "sleep" /\ "PREP" \in F
          /\ S.pool.worklist # <<>> => Top.cnt # 0

\* The call of worker_thread() after it, at f.
LEMMA LoopsOn ==
    ASSUME NEW S, NEW F, NEW pc, Loops(S, F, pc), "IDLE" \notin F,
           NEW f \in Frame, f.pc = pc, f.cnt = Top.cnt + 1, f.fn = "worker_thread",
           Top.cnt \in {0, 1, 3}, NEW k, k.flags = F, k.memory = "live",
           k.current_work = NULL, NEW it
    PROVE  CallOK(f, k, it)
<1>1. CASE pc = "process"
    BY <1>1, SMT DEF CallOK, Loops
<1>2. CASE pc = "sleep"
    BY <1>2, SMT DEF CallOK, Loops
<1> QED BY <1>1, <1>2 DEF Loops

\* It has its turn.
LEMMA LoopsTurn ==
    ASSUME NEW S, NEW F, NEW pc, Loops(S, F, pc), NEW f, f.pc = pc,
           f.cnt = Top.cnt + 1, Top.cnt \in {0, 1, 3}, NEW p,
           p.worklist = S.pool.worklist, p.idle_list # <<>>
    PROVE  Turn(f, p)
BY SMT DEF Turn, Loops

\* The step as a whole.
LEMMA FinishMoves ==
    ASSUME IInv, In("claimed"), NEW S, NEW F, PutDown(S, F), NEW pc, NEW f,
           Moved(Top, f, pc, NULL, Top.cnt + 1), stack' = SetTop(f),
           Loops(S, F, pc)
    PROVE  IInv'
<1> DEFINE x == Self
<1>1. /\ CallOK(Top, worker[x], work) /\ Turn(Top, pool) /\ Top.pc = "claimed"
      /\ IdleOK(pool, worker)
    BY InFacts DEF TopOK
<1>2. x \in Worker /\ worker \in [Worker -> WorkerType]
    BY InFacts
<1>3. Calls(stack, pool, worker, work) /\ stack # <<>> /\ Runs(Last(stack), x)
    BY InFacts
<1>4. /\ "IDLE" \notin worker[x].flags /\ worker[x].memory = "live"
      /\ pool.idle_list # <<>> /\ Top.cnt \in {0, 1, 3}
    BY <1>1 DEF CallOK, Turn
<1>5. Rewritten(worker, worker', x, F, NULL) /\ "IDLE" \notin F
    BY DEF PutDown
<1>6. /\ S.pool.idle_list = pool.idle_list /\ S.pool.nr_idle = pool.nr_idle
      /\ S.pool.nr_workers = pool.nr_workers
    BY DEF PutDown
<1>7. S.pool \in PoolType /\ S.pwq \in [Wq -> PwqType]
      /\ pwq' = S.pwq /\ work' = S.work
    BY DEF PutDown, Data
<1>8. /\ f \in Frame /\ f.pc = pc /\ f.cnt = Top.cnt + 1
      /\ f.fn = "worker_thread" /\ Runs(f, x)
    <2>1. Top.cnt + 1 \in 0..5
        BY <1>4, SMT
    <2>2. Top \in WorkerFrame /\ Top.worker = x
        BY InFacts DEF Self
    <2>3. pc \in {"woke_up", "recheck", "process", "claimed", "sleep"}
        BY DEF Loops
    <2>4. NULL \in Work \cup {NULL}
        OBVIOUS
    <2> QED BY <2>1, <2>2, <2>3, <2>4, FrameMoves, SMT
<1> HIDE DEF x
<1>9. /\ worker' \in [Worker -> WorkerType] /\ OneWorker(worker, worker', x)
      /\ worker'[x].flags = F /\ worker'[x].memory = worker[x].memory
      /\ worker'[x].current_work = NULL
    BY <1>2, <1>5, WorkerChanges, SMT
<1>10. Share(F) \in Nat
    BY DEF Share
<1>11. /\ pool' \in PoolType /\ pool'.worklist = S.pool.worklist
       /\ pool'.idle_list = S.pool.idle_list /\ pool'.nr_idle = S.pool.nr_idle
       /\ pool'.nr_workers = S.pool.nr_workers /\ pool'.nr_running = Share(F)
    <2>1. pool' = [S.pool EXCEPT !.nr_running = Share(F)]
        BY DEF PutDown
    <2> QED BY <1>7, <1>10, <2>1 DEF PoolType
<1>12. Data(pool', pwq', work', worker') /\ AllSettled(pwq')
    <2>1. Data(S.pool, S.pwq, S.work, worker') /\ AllSettled(S.pwq)
        BY DEF PutDown
    <2>2. SameHolders(worker', worker') /\ SameCounts(S.pwq, S.pwq)
        BY DEF SameHolders, SameCounts
    <2>3. /\ pool' \in PoolType /\ pool'.worklist = S.pool.worklist
          /\ worker' \in [Worker -> WorkerType]
        BY <1>9, <1>11
    <2> QED BY <1>7, <2>1, <2>2, <2>3, DataSame
<1>13. IdleOK(pool', worker')
    <2>1. SameIdle(worker[x], worker'[x])
        BY <1>4, <1>5, <1>9 DEF SameIdle
    <2>2. /\ pool'.idle_list = pool.idle_list /\ pool'.nr_idle = pool.nr_idle
          /\ pool'.nr_workers = pool.nr_workers
        BY <1>6, <1>11
    <2> QED BY <1>1, <1>2, <1>9, <2>1, <2>2, IdleSame
<1>14. TopOK(f, worker'[x], pool', work')
    <2>1. CallOK(f, worker'[x], work')
        BY <1>4, <1>5, <1>8, <1>9, LoopsOn
    <2>2. Turn(f, pool')
        BY <1>4, <1>6, <1>8, <1>11, LoopsTurn
    <2>3. pool'.nr_running = Share(worker'[x].flags)
        BY <1>9, <1>11
    <2> QED BY <2>1, <2>2, <2>3 DEF TopOK, Share
<1>15. Calls(stack', pool', worker', work')
    <2>1. HeldKept(Front(stack), worker, work, work')
        BY DEF PutDown
    <2> QED BY <1>3, <1>8, <1>9, <1>14, <2>1, TopMoves, SMT DEF SetTop
<1>16. unbound' \in BOOLEAN /\ freezing' \in BOOLEAN
    BY Parts DEF PutDown
<1> QED BY <1>12, <1>13, <1>15, <1>16, Whole

\* nr_running is only written when a flag changes.
LEMMA SamePool ==
    ASSUME NEW p \in PoolType
    PROVE  [p EXCEPT !.nr_running = p.nr_running] = p
BY DEF PoolType

\* The rest of process_one_work(), and the test of the loop: the worker goes
\* on, or is about to sleep.
LEMMA FinishStep ==
    ASSUME Counts, IInv, FinishWork
    PROVE  IInv'
<1> DEFINE x == Self
           w == Top.work
           q == work[w].pwq
           old == worker[x].flags
           G == old \ {"CPU_INTENSIVE"}
           n == RunningAfterClr(pool.nr_running, old, Intensive(q))
           p1 == [pool EXCEPT !.nr_running = n]
           goes(F, pc, p2) ==
              /\ pool' = p2
              /\ worker' = [worker EXCEPT ![x].flags = F, ![x].current_work = NULL]
              /\ stack' = SetTop([Top EXCEPT !.pc = pc, !.work = NULL, !.cnt = @ + 1])
<1>1. In("claimed") /\ unbound' = unbound /\ freezing' = freezing
    BY DEF FinishWork
<1>2. PICK S : /\ S = DecNrInFlight([pool |-> p1, pwq |-> pwq,
                                     work |-> PendingCleared(w)],
                                    q, work[w].inactive)
               /\ pwq' = S.pwq /\ work' = S.work
               /\ \/ /\ KeepsWorking(S.pool, Top.cnt + 1)
                     /\ goes(G, "process", S.pool)
                  \/ /\ ~KeepsWorking(S.pool, Top.cnt + 1)
                     /\ goes(G \cup {"PREP"}, "sleep", [S.pool EXCEPT
                          !.nr_running = RunningAfterSet(@, G, {"PREP"})])
    BY DEF FinishWork
<1>3. /\ CallOK(Top, worker[x], work) /\ Turn(Top, pool) /\ Top.pc = "claimed"
      /\ pool.nr_running = Share(old)
      /\ x \in Worker /\ worker[x] \in WorkerType /\ Top \in WorkerFrame
      /\ Data(pool, pwq, work, worker) /\ pool \in PoolType
      /\ work \in [Work -> ItemType]
    BY <1>1, InFacts DEF TopOK, Share
<1>4. /\ "IDLE" \notin old /\ "PREP" \notin old /\ w \in Work
      /\ "CPU_INTENSIVE" \in old <=> q \in CpuIntensive
      /\ worker[x].current_work = w /\ worker[x].memory = "live"
      /\ pool.idle_list # <<>> /\ Top.cnt \in {0, 1, 3}
    BY <1>3 DEF CallOK, Turn
<1>5. n = Share(G) /\ n \in Nat
    <2> HIDE DEF old, q
    <2>1. RunningAfterClr(Share(old), old, Intensive(q)) = Share(G)
        BY <1>4, IntensiveClr
    <2> QED BY <1>3, <2>1, SMT DEF Share
<1>6. G \in SUBSET FlagSet
    BY <1>3 DEF WorkerType
<1>7. work[w].inactive = FALSE
    <2>1. ~work[w].inactive
        BY <1>3, <1>4, LeaveCounted, SMT
    <2>2. work[w].inactive \in BOOLEAN
        BY <1>3, <1>4 DEF ItemType
    <2> QED BY <2>1, <2>2
<1>8. Finished(S, p1, pwq, PendingCleared(w), q)
    BY <1>2, <1>7 DEF Finished
<1>9. \A F, wk2 : Rewritten(worker, wk2, x, F, NULL) =>
          /\ Data(S.pool, S.pwq, S.work, wk2) /\ AllSettled(S.pwq)
          /\ PoolKept(p1, S.pool)
          /\ HeldKept(Front(stack), worker, work, S.work)
    BY <1>1, <1>5, <1>8, FinishFacts
<1>10. PoolKept(p1, S.pool) /\ S.pool.nr_running = n /\ S.pool \in PoolType
    <2>1. Rewritten(worker, [worker EXCEPT ![x].flags = G, ![x].current_work = NULL],
                    x, G, NULL)
        BY <1>6 DEF Rewritten
    <2>2. p1.nr_running = n
        BY <1>3 DEF PoolType
    <2> QED BY <1>9, <2>1, <2>2 DEF PoolKept, Data
<1>11. /\ S.pool.idle_list = pool.idle_list /\ S.pool.nr_idle = pool.nr_idle
       /\ S.pool.nr_workers = pool.nr_workers
    BY <1>3, <1>10 DEF PoolType, PoolKept
<1> HIDE DEF n, p1
<1>12. \A F : Rewritten(worker, worker', x, F, NULL) /\ "IDLE" \notin F
              /\ pool' = [S.pool EXCEPT !.nr_running = Share(F)]
              => PutDown(S, F)
    BY <1>1, <1>2, <1>9, <1>11 DEF PutDown
<1>13. S.pool.nr_running = Share(G) /\ S.pool.nr_running <= 1
    BY <1>5, <1>10, SMT DEF Share
<1>14. CASE KeepsWorking(S.pool, Top.cnt + 1)
    <2>1. goes(G, "process", S.pool)
        BY <1>2, <1>14
    <2>2. Rewritten(worker, worker', x, G, NULL) /\ "IDLE" \notin G
          /\ "PREP" \notin G /\ "CPU_INTENSIVE" \notin G
        BY <1>4, <1>6, <2>1 DEF Rewritten
    <2>3. pool' = [S.pool EXCEPT !.nr_running = Share(G)]
        <3>1. pool' = S.pool
            BY <2>1
        <3> HIDE DEF G
        <3> QED BY <1>10, <1>13, <3>1, SamePool
    <2>4. PutDown(S, G)
        BY <1>12, <2>2, <2>3
    <2>5. S.pool.worklist # <<>> /\ Top.cnt = 0
        BY <1>4, <1>14, SMT DEF KeepsWorking, keep_working
    <2>6. PICK f : Moved(Top, f, "process", NULL, Top.cnt + 1) /\ stack' = SetTop(f)
        BY <2>1 DEF Moved
    <2>7. Loops(S, G, "process")
        BY <2>2, <2>5 DEF Loops
    <2> QED BY <1>1, <2>4, <2>6, <2>7, FinishMoves
<1>15. CASE ~KeepsWorking(S.pool, Top.cnt + 1)
    <2> DEFINE F == G \cup {"PREP"}
    <2>1. goes(F, "sleep", [S.pool EXCEPT
             !.nr_running = RunningAfterSet(@, G, {"PREP"})])
        BY <1>2, <1>15
    <2>2. Rewritten(worker, worker', x, F, NULL) /\ "IDLE" \notin F
          /\ "PREP" \in F /\ "CPU_INTENSIVE" \notin F
        BY <1>4, <1>6, <2>1 DEF Rewritten, FlagSet
    <2>3. RunningAfterSet(S.pool.nr_running, G, {"PREP"}) = Share(F)
        <3> HIDE DEF G
        <3>1. /\ RunningAfterSet(Share(G), G, {"PREP"}) = 0
              /\ NotRunning(G \cup {"PREP"})
            BY RunningCounts
        <3>2. Share(F) = 0
            BY <3>1 DEF Share
        <3> QED BY <1>13, <3>1, <3>2
    <2>4. pool' = [S.pool EXCEPT !.nr_running = Share(F)]
        BY <2>1, <2>3
    <2>5. PutDown(S, F)
        BY <1>12, <2>2, <2>4
    <2>6. S.pool.worklist # <<>> => Top.cnt # 0
        BY <1>13, <1>15, SMT DEF KeepsWorking, keep_working
    <2>7. PICK f : Moved(Top, f, "sleep", NULL, Top.cnt + 1) /\ stack' = SetTop(f)
        BY <2>1 DEF Moved
    <2>8. Loops(S, F, "sleep")
        BY <2>2, <2>6 DEF Loops
    <2> QED BY <1>1, <2>5, <2>7, <2>8, FinishMoves
<1> QED BY <1>14, <1>15

=============================================================================
