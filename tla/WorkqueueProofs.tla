--------------------------- MODULE WorkqueueProofs ---------------------------
(***************************************************************************)
(* The worker pool and its workqueues, for any number of workqueues, work  *)
(* items and workers and any depth of nested calls of worker_thread(): the *)
(* counters agree with what they count, a pending item is in one place and *)
(* none is stranded.                                                       *)
(***************************************************************************)
EXTENDS WorkqueueSteps, LeastNumber, FiniteSetTheorems

\* Zenon proves a step unless the step cites SMT, for arithmetic.
USE ZenonT(30)

-----------------------------------------------------------------------------
(* The loop of pwq_adjust_max_active().                                     *)

\* The loop of pwq_adjust_max_active() activates until it may not.
LEMMA WhilePossibleKeeps ==
    ASSUME Counts, NEW S, NEW wk, NEW q \in Wq, S \in StateType,
           Data(S.pool, S.pwq, S.work, wk)
    PROVE  /\ Activating(S, ActivatedWhilePossible(S, q), wk, q)
           /\ ~MayActivate(ActivatedWhilePossible(S, q), q)
<1> DEFINE n == Len(S.pwq[q].inactive_works)
           States == {T \in StateType : Activating(S, T, wk, q)}
           G == [T \in States |-> ActivateTurn(T, q)]
           M == [T \in States |-> Len(T.pwq[q].inactive_works)]
           Eq(f) == f = [k \in 0..n |-> IF k = 0 THEN S
                                        ELSE ActivateTurn(f[k - 1], q)]
           turn == CHOOSE f : Eq(f)
<1>1. Activating(S, S, wk, q)
    BY DEF Activating, PoolKept, PwqsKept, RestKept
<1>2. S \in States /\ \A T \in States : Activating(S, T, wk, q)
    BY <1>1
<1>3. ASSUME NEW T \in States
      PROVE  /\ ActivateTurn(T, q) \in States
             /\ Len(T.pwq[q].inactive_works) \in Nat
             /\ \/ ActivateTurn(T, q) = T /\ ~MayActivate(T, q)
                \/ Len(ActivateTurn(T, q).pwq[q].inactive_works)
                     < Len(T.pwq[q].inactive_works)
    <2>1. Activating(S, T, wk, q)
        BY <1>3
    <2>2. Activating(S, ActivateTurn(T, q), wk, q)
        BY <2>1, ActivateTurnKeeps
    <2>3. ActivateTurn(T, q) \in States
        BY <2>2 DEF Activating
    <2> QED BY <2>1, <2>3, ActivateTurnKeeps
<1>4. Maps(G, States) /\ \A T \in States : G[T] = ActivateTurn(T, q)
    BY <1>3 DEF Maps
<1>5. Lowers(G, M, States) /\ M[S] = n /\ n \in Nat
      /\ \A T \in States : M[T] = Len(T.pwq[q].inactive_works)
    BY <1>2, <1>3 DEF Lowers
<1>6. ActivatedWhilePossible(S, q) = turn[n]
    BY DEF ActivatedWhilePossible
<1> HIDE DEF States, G, M, n
<1>7. \E f : Eq(f)
    <2>1. PICK f : Turns(f, S, G, n) /\ Within(f, n, States)
        BY <1>2, <1>4, <1>5, TurnsExist
    <2>2. \A k \in 0..n : k # 0 => f[k - 1] \in States
        BY <1>5, <2>1, SMT DEF Within
    <2>3. f = [k \in 0..n |-> IF k = 0 THEN S ELSE ActivateTurn(f[k - 1], q)]
        BY <2>1, <2>2, <1>4 DEF Turns
    <2> QED BY <2>3
<1>8. Eq(turn)
    BY <1>7
<1> HIDE DEF turn
<1>9. \A k \in 0..n : turn[k] \in States
    <2>1. 0 \in 0..n /\ \A k \in 1..n : k \in 0..n /\ k # 0
        BY <1>5, SMT
    <2>2. turn[0] \in States
        BY <1>2, <1>8, <2>1
    <2>3. \A k \in 1..n : turn[k - 1] \in States => turn[k] \in States
        BY <1>3, <1>8, <2>1
    <2> QED BY <1>5, <2>2, <2>3, TurnsStay
<1>10. Within(turn, n, States)
    BY <1>8, <1>9 DEF Within
<1>11. Turns(turn, S, G, n)
    <2>1. \A k \in 0..n : k # 0 => k - 1 \in 0..n
        BY <1>5, SMT
    <2> QED BY <1>4, <1>8, <1>9, <2>1 DEF Turns
<1>12. M[S] <= n
    BY <1>5, SMT
<1>13. G[turn[n]] = turn[n]
    BY <1>4, <1>5, <1>10, <1>11, <1>12, TurnsRest, SMT
<1>14. turn[n] \in States
    BY <1>5, <1>9, SMT
<1> DEFINE T == turn[n]
<1> HIDE DEF T
<1>15. ActivateTurn(T, q) = T /\ T \in States
    BY <1>4, <1>13, <1>14 DEF T
<1>16. ~MayActivate(T, q)
    <2>1. Len(T.pwq[q].inactive_works) \in Nat
        BY <1>3, <1>15
    <2> DEFINE l == Len(T.pwq[q].inactive_works)
    <2>2. ~(l < l)
        BY <2>1, SMT
    <2>3. (ActivateTurn(T, q) = T /\ ~MayActivate(T, q)) \/ l < l
        BY <1>3, <1>15
    <2> QED BY <2>2, <2>3
<1> QED BY <1>2, <1>6, <1>15, <1>16 DEF T

-----------------------------------------------------------------------------
(* The initial state and pwq_adjust_max_active().                           *)

\* workqueue_init()
LEMMA InitOK == Init => IInv
<1> SUFFICES ASSUME Init PROVE IInv
    OBVIOUS
<1> DEFINE first == CHOOSE x \in Worker : \A y \in Worker : x <= y
<1>1. first \in Worker
    <2>1. \E m \in Worker : \A y \in Worker : m <= y
        BY LeastNatural, WorkqueueAssumption
    <2> QED BY <2>1
<1>2. /\ worker = [x \in Worker |-> IF x = first THEN NewWorker
                    ELSE [memory |-> "free", current_work |-> NULL, flags |-> {}]]
      /\ pool = [worklist |-> <<>>, idle_list |-> <<first>>, nr_idle |-> 1,
                 nr_workers |-> 1, nr_running |-> 0]
      /\ unbound \in BOOLEAN /\ freezing = FALSE /\ stack = <<>>
      /\ work = [w \in Work |-> [pending |-> FALSE, pwq |-> NULL, inactive |-> FALSE]]
    BY DEF Init
<1> HIDE DEF first
<1>3. PICK max \in MaxActives :
         pwq = [wq \in Wq |-> [nr_in_flight |-> [k \in Color |-> 0],
                               refcnt |-> 1, nr_active |-> 0,
                               max_active |-> max, saved_max_active |-> max,
                               inactive_works |-> <<>>]]
    BY DEF Init
<1>4. /\ NewWorker \in WorkerType /\ NewWorker.memory = "live"
      /\ "IDLE" \in NewWorker.flags /\ Resting(NewWorker)
      /\ NewWorker.current_work = NULL
    BY DEF NewWorker, WorkerType, FlagSet, Resting
<1> HIDE DEF NewWorker
<1>5. /\ pool \in PoolType /\ pwq \in [Wq -> PwqType] /\ work \in [Work -> ItemType]
      /\ worker \in [Worker -> WorkerType]
    BY <1>1, <1>2, <1>3, <1>4, SMT DEF PoolType, PwqType, ItemType, WorkerType
<1>6. NULL \notin Work /\ NULL \notin Wq
    BY WorkqueueAssumption
<1>7. \A x \in Worker : worker[x].current_work = NULL /\ Resting(worker[x])
    BY <1>2, <1>4 DEF Resting
<1>8. Once(<<>>) /\ \A e : ~Contains(<<>>, e)
    BY SMT DEF Once, Contains
<1>9. Items(pool.worklist, pwq, work, worker)
    <2>1. pool.worklist = <<>> /\ \A q \in Wq : pwq[q].inactive_works = <<>>
        BY <1>2, <1>3
    <2>2. \A w \in Work : Spot(pool.worklist, pwq, worker, w, "none", NULL)
        BY <1>6, <1>7, <1>8, <2>1 DEF Spot
    <2>3. \A w \in Work :
            work[w] = [pending |-> FALSE, pwq |-> NULL, inactive |-> FALSE]
        BY <1>2
    <2> QED BY <1>8, <2>1, <2>2, <2>3 DEF Items, ItemOK
<1>10. Accounts(pwq, work)
    <2> SUFFICES ASSUME NEW q \in Wq PROVE Account(pwq[q], work, q)
        BY DEF Accounts
    <2>1. Mine(work, q) = {} /\ Active(work, q) = {}
        BY <1>2, <1>6 DEF Mine, Active
    <2>2. Cardinality({}) = 0
        BY FS_EmptySet
    <2>3. /\ pwq[q].nr_in_flight = [k \in Color |-> 0]
          /\ pwq[q].refcnt = 1 /\ pwq[q].nr_active = 0
        BY <1>3
    <2>4. get_work_color(q) \in Color /\ 0 \in Color
        BY WorkqueueAssumption, SMT DEF get_work_color, Color, WORK_NR_COLORS
    <2>5. \A c \in Color : InFlight([k \in Color |-> 0], c, 0)
        BY <2>4, SMT DEF InFlight, work_color
    <2>6. InFlight(pwq[q].nr_in_flight, get_work_color(q), 0)
        BY <2>3, <2>4, <2>5
    <2> QED BY <2>1, <2>2, <2>3, <2>6, SMT DEF Account
<1>11. AllSettled(pwq)
    BY <1>3 DEF AllSettled, Settled
<1>12. IdleOK(pool, worker)
    <2>1. InUse(worker) = {first}
        BY <1>1, <1>2, <1>4 DEF InUse
    <2>2. Cardinality({first}) = 1
        BY FS_Singleton
    <2> DEFINE s == <<first>>
    <2>3. Once(s) /\ Len(s) = 1 /\ \A e : Contains(s, e) <=> e = first
        BY SMT DEF Once, Contains
    <2>4. \A x \in Worker : x = first <=> x \in InUse(worker)
                                          /\ "IDLE" \in worker[x].flags
        BY <1>1, <1>2, <1>4, <2>1
    <2>5. pool.idle_list = s /\ pool.nr_idle = 1 /\ pool.nr_workers = 1
        BY <1>2
    <2> HIDE DEF s, InUse
    <2> QED BY <2>1, <2>2, <2>3, <2>4, <2>5, SMT DEF IdleOK
<1>13. Calls(stack, pool, worker, work)
    <2>1. pool.nr_running = 0 /\ pool.idle_list # <<>> /\ stack = <<>>
        BY <1>2
    <2>2. AllRest(worker)
        BY <1>7 DEF AllRest
    <2> QED BY <2>1, <2>2, NoCalls
<1> QED BY <1>2, <1>5, <1>9, <1>10, <1>11, <1>12, <1>13 DEF IInv

\* The turn that sets max_active and activates what it allows.
LEMMA AdjustTurn ==
    ASSUME Counts, IInv, NEW q \in Wq, NEW S, S = Adjusted(q)
    PROVE  /\ Data(S.pool, S.pwq, S.work, worker) /\ AllSettled(S.pwq)
           /\ PoolKept(pool, S.pool) /\ IdleOK(S.pool, worker)
<1>1. /\ Data(pool, pwq, work, worker) /\ AllSettled(pwq) /\ IdleOK(pool, worker)
    BY Parts
<1>2. /\ pool \in PoolType /\ pwq \in [Wq -> PwqType] /\ work \in [Work -> ItemType]
      /\ worker \in [Worker -> WorkerType]
    BY <1>1 DEF Data
<1> DEFINE c2 == [pwq[q] EXCEPT !.max_active = pwq[q].saved_max_active]
           pq == [pwq EXCEPT ![q] = c2]
           S0 == [pool |-> pool, pwq |-> pq, work |-> work]
<1>3. S = ActivatedWhilePossible(S0, q)
    <2>1. [State EXCEPT !.pwq[q].max_active = pwq[q].saved_max_active] = S0
        BY <1>2, SMT DEF State
    <2> QED BY <2>1 DEF Adjusted
<1>4. /\ c2 \in PwqType /\ c2.nr_in_flight = pwq[q].nr_in_flight
      /\ c2.refcnt = pwq[q].refcnt /\ c2.nr_active = pwq[q].nr_active
      /\ c2.inactive_works = pwq[q].inactive_works
    BY <1>2 DEF PwqType
<1> HIDE DEF c2
<1>5. /\ pq \in [Wq -> PwqType] /\ SameCounts(pwq, pq) /\ RestKept(pwq, pq, q)
    BY <1>2, <1>4 DEF SameCounts, RestKept
<1> HIDE DEF pq
<1>6. Data(pool, pq, work, worker)
    <2>1. SameHolders(worker, worker)
        BY DEF SameHolders
    <2> QED BY <1>1, <1>2, <1>5, <2>1, DataSame
<1>7. S0 \in StateType /\ S0.pool = pool /\ S0.pwq = pq /\ S0.work = work
    BY <1>2, <1>5 DEF StateType
<1> HIDE DEF S0
<1>8. Activating(S0, S, worker, q) /\ ~MayActivate(S, q)
    BY <1>3, <1>6, <1>7, WhilePossibleKeeps
<1>9. Settled(S.pwq[q])
    BY <1>8 DEF MayActivate, Settled
<1>10. AllSettled(S.pwq)
    BY <1>1, <1>5, <1>7, <1>8, <1>9, SMT DEF AllSettled, Activating, RestKept
<1>11. PoolKept(pool, S.pool) /\ Data(S.pool, S.pwq, S.work, worker)
    BY <1>7, <1>8 DEF Activating
<1>12. IdleOK(S.pool, worker)
    BY <1>1, <1>11 DEF IdleOK, PoolKept
<1> QED BY <1>10, <1>11, <1>12

\* pwq_adjust_max_active(), in all its ways out.
LEMMA AdjustStep ==
    ASSUME Counts, IInv, AdjustNext
    PROVE  IInv'
<1> DEFINE q == Head(Top.left)
           f == Adjusting(Tail(Top.left))
           ret == Append(<<>>, f)
<1>1. /\ unbound' = unbound /\ freezing' = freezing /\ worker' = worker
      /\ ~Idle /\ Top.fn = "pwq_adjust_max_active" /\ Top.left # <<>>
    BY DEF AdjustNext
<1>2. /\ Front(stack) = <<>> /\ pool.nr_running = 0 /\ pool.idle_list # <<>>
      /\ AllRest(worker) /\ Top.left \in Seq(Wq)
    BY <1>1, AdjustFacts
<1>3. q \in Wq /\ Tail(Top.left) \in Seq(Wq)
    BY <1>1, <1>2, TailHas
<1>4. SetTop(f) = ret
    BY <1>2 DEF SetTop
<1>5. /\ unbound \in BOOLEAN /\ freezing \in BOOLEAN
      /\ Data(pool, pwq, work, worker) /\ AllSettled(pwq) /\ IdleOK(pool, worker)
    BY Parts
<1>6. CASE /\ stack' = ret /\ pool' = pool /\ work' = work /\ pwq' = pwq
    <2>1. Calls(ret, pool, worker, work)
        BY <1>2, <1>3, AdjustCalls
    <2> QED BY <1>1, <1>5, <1>6, <2>1, Whole, SMT
<1>7. CASE /\ stack' = ret /\ pool' = pool /\ work' = work
           /\ pwq' = [pwq EXCEPT ![q].max_active = 0]
    <2>1. Calls(ret, pool, worker, work)
        BY <1>2, <1>3, AdjustCalls
    <2>2. /\ pwq \in [Wq -> PwqType] /\ pool \in PoolType
          /\ worker \in [Worker -> WorkerType]
        BY <1>5 DEF Data
    <2>3. /\ pwq' \in [Wq -> PwqType] /\ SameCounts(pwq, pwq')
          /\ \A r \in Wq : pwq'[r].max_active \in {pwq[r].max_active, 0}
        BY <1>3, <1>7, <2>2 DEF PwqType, SameCounts
    <2>4. Data(pool, pwq', work, worker)
        <3>1. SameHolders(worker, worker)
            BY DEF SameHolders
        <3> QED BY <1>5, <2>2, <2>3, <3>1, DataSame
    <2>5. AllSettled(pwq')
        <3> SUFFICES ASSUME NEW r \in Wq PROVE Settled(pwq'[r])
            BY DEF AllSettled
        <3>1. Settled(pwq[r]) /\ pwq[r].nr_active \in Nat
            BY <1>5, <2>2 DEF AllSettled, PwqType
        <3>2. /\ pwq'[r].nr_active = pwq[r].nr_active
              /\ pwq'[r].inactive_works = pwq[r].inactive_works
            BY <2>3 DEF SameCounts
        <3> QED BY <2>3, <3>1, <3>2, SMT DEF Settled
    <2> QED BY <1>1, <1>5, <1>7, <2>1, <2>4, <2>5, Whole
<1>8. CASE \E S \in {Adjusted(q)} :
              /\ pool' = S.pool /\ pwq' = S.pwq /\ work' = S.work
              /\ stack' = IF S.pool # pool THEN Woken(S.pool, ret) ELSE ret
    <2> DEFINE S == Adjusted(q)
    <2>1. /\ pool' = S.pool /\ pwq' = S.pwq /\ work' = S.work
          /\ stack' = IF S.pool # pool THEN Woken(S.pool, ret) ELSE ret
        BY <1>8
    <2>2. /\ Data(S.pool, S.pwq, S.work, worker) /\ AllSettled(S.pwq)
          /\ PoolKept(pool, S.pool) /\ IdleOK(S.pool, worker)
        BY <1>3, AdjustTurn
    <2> HIDE DEF S
    <2>3. S.pool.nr_running = 0 /\ S.pool.idle_list # <<>> /\ S.pool \in PoolType
        BY <1>2, <2>2 DEF PoolKept, Data
    <2>4. Calls(ret, S.pool, worker, S.work) /\ Callers(ret, worker, S.work)
        BY <1>2, <1>3, <2>3, AdjustCalls
    <2> HIDE DEF ret
    <2>5. Calls(stack', S.pool, worker, S.work)
        <3> DEFINE h == Head(S.pool.idle_list)
        <3>1. CASE worker[h].memory = "live" /\ S.pool # pool
            <4>1. stack' = Append(ret, Called(h))
                BY <2>1, <2>3, <3>1 DEF Woken, Called
            <4> QED BY <2>2, <2>3, <2>4, <3>1, <4>1, WokenCalls, SMT
        <3>2. CASE ~(worker[h].memory = "live" /\ S.pool # pool)
            BY <2>1, <2>4, <3>2 DEF Woken
        <3> QED BY <3>1, <3>2
    <2> QED BY <1>1, <1>5, <2>1, <2>2, <2>5, Whole, SMT
<1> HIDE DEF ret, f
<1>9. \/ /\ stack' = SetTop(f) /\ pool' = pool /\ work' = work /\ pwq' = pwq
      \/ /\ stack' = SetTop(f) /\ pool' = pool /\ work' = work
         /\ pwq' = [pwq EXCEPT ![q].max_active = 0]
      \/ \E S \in {Adjusted(q)} :
              /\ pool' = S.pool /\ pwq' = S.pwq /\ work' = S.work
              /\ stack' = IF S.pool # pool THEN Woken(S.pool, SetTop(f)) ELSE SetTop(f)
    BY DEF AdjustNext, f
<1> HIDE DEF q
<1> QED BY <1>4, <1>6, <1>7, <1>8, <1>9
-----------------------------------------------------------------------------
(* Every step keeps the inductive invariant.                                *)

\* The cardinalities of sets of items and of workers count.
LEMMA CountsHold == Counts
<1>1. ASSUME NEW U, IsFiniteSet(U)
      PROVE  Counting(U)
    <2> SUFFICES ASSUME NEW S \in SUBSET U
                 PROVE  /\ Cardinality(S) \in Nat
                        /\ \A x \in U : x \notin S =>
                              Cardinality(S \cup {x}) = Cardinality(S) + 1
        BY DEF Counting
    <2>1. IsFiniteSet(S)
        BY <1>1, FS_Subset
    <2>2. Cardinality(S) \in Nat
        BY <2>1, FS_CardinalityType
    <2>3. \A x : x \notin S => Cardinality(S \cup {x}) = Cardinality(S) + 1
        BY <2>1, FS_AddElement
    <2> QED BY <2>2, <2>3
<1>2. IsFiniteSet(Work) /\ IsFiniteSet(Worker)
    BY WorkqueueAssumption
<1> QED BY <1>1, <1>2 DEF Counts

\* Every operation and every step of a call keeps the inductive invariant.
LEMMA StepOK == IInv /\ [Next]_vars => IInv'
<1> SUFFICES ASSUME IInv, [Next]_vars PROVE IInv'
    OBVIOUS
<1> USE CountsHold
<1>1. ASSUME NEW q \in Wq, NEW w \in Work, queue_work_on(q, w) PROVE IInv'
    BY <1>1, QueueStep
<1>2. CASE wake_up_worker_run
    BY <1>2, WakeStep
<1>3. ASSUME NEW q \in Wq, NEW max \in MaxActives, workqueue_set_max_active(q, max)
      PROVE  IInv'
    BY <1>3, SetMaxStep
<1>4. CASE freeze_workqueues_begin \/ thaw_workqueues
    BY <1>4, FreezeStep
<1>5. CASE AdjustNext
    BY <1>5, AdjustStep, SMT
<1>6. CASE AdjustDone
    BY <1>6, AdjustDoneStep
<1>7. CASE Die
    BY <1>7, DieStep
<1>8. CASE WokeUp
    BY <1>8, WokeUpStep
<1>9. CASE NoNeed
    BY <1>9, NoNeedStep
<1>10. CASE ManageWorkers
    BY <1>10, ManageStep
<1>11. CASE StartWorking
    BY <1>11, StartStep
<1>12. CASE ClaimWork
    BY <1>12, ClaimStep
<1>13. CASE FinishWork
    BY <1>13, FinishStep
<1>14. CASE Sleep
    BY <1>14, SleepStep
<1>15. CASE UNCHANGED vars
    <2>1. /\ unbound' = unbound /\ freezing' = freezing /\ pool' = pool
          /\ pwq' = pwq /\ work' = work /\ worker' = worker /\ stack' = stack
        BY <1>15 DEF vars
    <2> QED BY <2>1, Parts, Whole
<1> QED BY <1>1, <1>2, <1>3, <1>4, <1>5, <1>6, <1>7, <1>8, <1>9, <1>10, <1>11,
           <1>12, <1>13, <1>14, <1>15, SMT DEF Next, Call, Run

\* The inductive invariant always holds.
LEMMA AlwaysIInv == Spec => []IInv
BY InitOK, StepOK, PTL DEF Spec

-----------------------------------------------------------------------------
(* What the inductive invariant implies.                                    *)

\* A list that holds everything once is as long as the set of its entries.
LEMMA OnceCounts ==
    ASSUME NEW T, NEW s \in Seq(T), Once(s)
    PROVE  Cardinality(Listed(s)) = Len(s) /\ IsFiniteSet(Listed(s))
<1>1. Len(s) \in Nat /\ DOMAIN s = 1..Len(s)
    BY SMT
<1>2. Listed(s) = {s[i] : i \in 1..Len(s)}
    BY <1>1 DEF Listed
<1>3. s \in Bijection(1..Len(s), Listed(s))
    <2>1. s \in [1..Len(s) -> Listed(s)]
        BY <1>1, <1>2, SMT
    <2>2. \A i, j \in 1..Len(s) : s[i] = s[j] => i = j
        BY DEF Once
    <2>3. \A t \in Listed(s) : \E i \in 1..Len(s) : s[i] = t
        BY <1>2
    <2> HIDE DEF Once
    <2> QED BY <2>1, <2>2, <2>3 DEF Bijection, Injection, Surjection, IsInjective
<1>4. ExistsBijection(1..Len(s), Listed(s))
    BY <1>3 DEF ExistsBijection
<1> QED BY <1>1, <1>4, FS_CountingElements, FS_NatBijection

\* What a list holds, in the two ways of saying it.
LEMMA ListedContains ==
    ASSUME NEW T, NEW s \in Seq(T)
    PROVE  \A e : e \in Listed(s) <=> Contains(s, e)
BY SMT DEF Listed, Contains

\* The types of the lists, counters, flags and calls.
LEMMA TypesHold == IInv => TypeOK
<1> SUFFICES ASSUME IInv PROVE TypeOK
    OBVIOUS
<1>1. \A f \in Frames :
         \/ f.fn = "pwq_adjust_max_active" /\ f.left \in Seq(Wq)
         \/ /\ f.fn = "worker_thread" /\ f.cnt \in 0..5
            /\ f.worker \in Worker /\ f.work \in Work \cup {NULL}
            /\ f.pc \in {"woke_up", "recheck", "process", "claimed", "sleep"}
    <2> SUFFICES ASSUME NEW f \in Frames
                 PROVE  \/ f.fn = "pwq_adjust_max_active" /\ f.left \in Seq(Wq)
                        \/ /\ f.fn = "worker_thread" /\ f.cnt \in 0..5
                           /\ f.worker \in Worker /\ f.work \in Work \cup {NULL}
                           /\ f.pc \in {"woke_up", "recheck", "process",
                                        "claimed", "sleep"}
        OBVIOUS
    <2>1. stack \in Seq(Frame)
        BY Parts DEF Calls
    <2>2. f \in Frame
        BY <2>1, SMT DEF Frames
    <2>3. CASE f \in WorkerFrame
        BY <2>3 DEF WorkerFrame
    <2>4. CASE f \in AdjustFrame
        BY <2>4 DEF AdjustFrame
    <2> QED BY <2>2, <2>3, <2>4 DEF Frame
<1>2. /\ unbound \in BOOLEAN /\ freezing \in BOOLEAN
      /\ pool \in PoolType /\ pwq \in [Wq -> PwqType]
      /\ work \in [Work -> ItemType] /\ worker \in [Worker -> WorkerType]
    BY DEF IInv
<1> HIDE DEF IInv
<1> QED BY <1>1, <1>2
        DEF TypeOK, PoolType, PwqType, ItemType, WorkerType, FlagSet

\* nr_in_flight, refcnt and nr_active count the items.
LEMMA InFlightHold == IInv => InFlightAccounts
<1> SUFFICES ASSUME IInv, NEW q \in Wq
             PROVE  LET mine == {w \in Work : work[w].pwq = q}
                    IN  /\ InFlight(pwq[q].nr_in_flight, get_work_color(q),
                                    Cardinality(mine))
                        /\ pwq[q].refcnt = 1 + Cardinality(mine)
                        /\ pwq[q].nr_active
                             = Cardinality({w \in mine : ~work[w].inactive})
    BY DEF InFlightAccounts
<1>1. Account(pwq[q], work, q)
    BY DEF IInv, Accounts
<1>2. {w \in {v \in Work : work[v].pwq = q} : ~work[w].inactive} = Active(work, q)
    BY DEF Active
<1> QED BY <1>1, <1>2 DEF Account, Mine

\* The idle list, nr_idle and nr_workers; the list is empty only while the
\* innermost call has its worker off it.
LEMMA IdleHold == IInv => IdleAccounts
<1> SUFFICES ASSUME IInv PROVE IdleAccounts
    OBVIOUS
<1> DEFINE l == pool.idle_list
<1>1. l \in Seq(Worker) /\ IdleOK(pool, worker) /\ Calls(stack, pool, worker, work)
    BY DEF IInv, PoolType
<1> HIDE DEF IInv
<1>2. Used = InUse(worker)
    BY DEF Used, InUse
<1>3. Cardinality(Listed(l)) = Len(l)
    BY <1>1, OnceCounts DEF IdleOK
<1>4. Listed(l) \subseteq Worker
    BY <1>1, SMT DEF Listed
<1>5. Listed(l) = {x \in Used : "IDLE" \in worker[x].flags}
    <2>1. \A x \in Worker : x \in Listed(l)
                               <=> x \in Used /\ "IDLE" \in worker[x].flags
        BY <1>1, <1>2, ListedContains DEF IdleOK
    <2>2. Used \subseteq Worker
        BY DEF Used
    <2> QED BY <1>4, <2>1, <2>2
<1>6. l = <<>> => In("recheck") \/ In("sleep")
    <2> SUFFICES ASSUME l = <<>> PROVE In("recheck") \/ In("sleep")
        OBVIOUS
    <2>1. stack # <<>>
        BY <1>1 DEF Calls
    <2>2. Innermost(Last(stack), Front(stack), pool, worker, work)
        BY <1>1, <2>1 DEF Calls
    <2>3. Last(stack).fn = "worker_thread" /\ Last(stack).pc \in {"recheck", "sleep"}
        BY <2>2 DEF Innermost, Turn
    <2> QED BY <2>1, <2>3 DEF In, Idle, Top
<1> QED BY <1>1, <1>2, <1>3, <1>5, <1>6, SMT DEF IdleAccounts, IdleOK

\* Only the innermost call's worker may count as running.
LEMMA OthersNotRunning ==
    ASSUME IInv, NEW x \in Used, ~NotRunning(worker[x].flags)
    PROVE  /\ stack # <<>> /\ Runs(Last(stack), x)
           /\ CallOK(Last(stack), worker[x], work)
           /\ pool.nr_running = 1
<1>1. Calls(stack, pool, worker, work) /\ x \in Worker /\ worker[x].memory # "free"
    BY DEF IInv, Used
<1> HIDE DEF IInv
<1>2. ~Resting(worker[x])
    BY <1>1, NotRunningFlags DEF Resting
<1>3. PICK i \in 1..Len(stack) : Runs(stack[i], x)
    BY <1>1, <1>2 DEF Calls, Calling, Runs
<1>4. stack \in Seq(Frame) /\ stack # <<>>
    BY <1>1, <1>3, SMT DEF Calls
<1>5. Below(Front(stack), worker, work)
      /\ Innermost(Last(stack), Front(stack), pool, worker, work)
    BY <1>1, <1>4 DEF Calls
<1>6. i = Len(stack)
    <2> SUFFICES ASSUME i # Len(stack) PROVE FALSE
        OBVIOUS
    <2>1. i \in 1..Len(Front(stack)) /\ Front(stack)[i] = stack[i]
        BY <1>4, SMT DEF Front
    <2>2. Beneath(stack[i], worker, work)
        BY <1>5, <2>1 DEF Below
    <2> QED BY <1>3, <2>2 DEF Beneath, Runs
<1>7. Runs(Last(stack), x)
    BY <1>3, <1>6 DEF Last
<1> QED BY <1>4, <1>5, <1>7 DEF Innermost, Runs

\* nr_running counts the workers that count as running, of which there is at
\* most one, and none when all are idle.
LEMMA RunningHold == IInv => RunningAccounts
<1> SUFFICES ASSUME IInv PROVE RunningAccounts
    OBVIOUS
<1> DEFINE R == {x \in Used : ~NotRunning(worker[x].flags)}
           l == pool.idle_list
<1>1. Calls(stack, pool, worker, work) /\ IdleOK(pool, worker)
      /\ l \in Seq(Worker) /\ pool.nr_running \in Nat
    BY DEF IInv, PoolType
<1>2. CASE R = {}
    <2>1. Cardinality(R) = 0
        BY <1>2, FS_EmptySet
    <2>2. CASE stack = <<>>
        BY <1>1, <2>1, <2>2, SMT DEF Calls, RunningAccounts
    <2>3. CASE stack # <<>>
        <3> DEFINE f == Last(stack)
        <3>1. Innermost(f, Front(stack), pool, worker, work) /\ stack \in Seq(Frame)
            BY <1>1, <2>3 DEF Calls
        <3>2. f.fn = "worker_thread" => f.worker \in Used
            <4>1. f \in Frame
                BY <2>3, <3>1, SMT DEF Last
            <4>2. f.fn = "worker_thread" => f.worker \in Worker
                BY <4>1 DEF Frame, WorkerFrame, AdjustFrame
            <4> QED BY <3>1, <4>2 DEF Innermost, CallOK, Used
        <3> HIDE DEF f
        <3>3. pool.nr_running = 0
            BY <1>2, <3>1, <3>2 DEF Innermost
        <3> QED BY <2>1, <3>3, SMT DEF RunningAccounts
    <2> QED BY <2>2, <2>3
<1>3. CASE R # {}
    <2>1. PICK x \in Used : ~NotRunning(worker[x].flags)
        BY <1>3
    <2>2. /\ Runs(Last(stack), x) /\ CallOK(Last(stack), worker[x], work)
          /\ pool.nr_running = 1
        BY <2>1, OthersNotRunning
    <2>3. R = {x}
        <3>1. \A y \in R : Runs(Last(stack), y)
            BY OthersNotRunning
        <3> QED BY <2>1, <2>2, <3>1 DEF Runs
    <2>4. Cardinality(R) = 1
        BY <2>3, FS_Singleton
    <2>5. "IDLE" \notin worker[x].flags
        BY <2>1, <2>2, NotRunningFlags DEF CallOK
    <2>6. pool.nr_workers # pool.nr_idle
        <3>1. /\ pool.nr_idle = Cardinality(Listed(l))
              /\ pool.nr_workers = Cardinality(Used)
              /\ Listed(l) = {y \in Used : "IDLE" \in worker[y].flags}
            BY IdleHold DEF IdleAccounts
        <3>2. Listed(l) \subseteq Used /\ Listed(l) # Used
            BY <2>1, <2>5, <3>1
        <3>3. IsFiniteSet(Used)
            <4>1. Used \subseteq Worker /\ IsFiniteSet(Worker)
                BY WorkqueueAssumption DEF Used
            <4> QED BY <4>1, FS_Subset
        <3>4. Cardinality(Listed(l)) < Cardinality(Used)
            BY <3>2, <3>3, FS_Subset, FS_CardinalityType, SMT
        <3> QED BY <3>1, <3>3, <3>4, FS_CardinalityType, SMT
    <2> QED BY <2>2, <2>4, <2>6, SMT DEF RunningAccounts
<1> QED BY <1>2, <1>3

\* How often an item is found, from the place it is in.
LEMMA SpotCounts ==
    ASSUME NEW wl \in Seq(Work), NEW pq \in [Wq -> PwqType], NEW wk, NEW w \in Work,
           NEW kind, NEW at, Spot(wl, pq, wk, w, kind, at), Once(wl),
           kind = "waiting" => at \in Wq, kind = "held" => at \in Worker
    PROVE  /\ Cardinality({i \in DOMAIN wl : wl[i] = w})
                = IF kind = "listed" THEN 1 ELSE 0
           /\ Cardinality({x \in Worker : wk[x].current_work = w})
                = IF kind = "held" THEN 1 ELSE 0
           /\ {q \in Wq : w \in Listed(pq[q].inactive_works)}
                = IF kind = "waiting" THEN {at} ELSE {}
<1> DEFINE L == {i \in DOMAIN wl : wl[i] = w}
           H == {x \in Worker : wk[x].current_work = w}
<1>1. Cardinality(L) = IF kind = "listed" THEN 1 ELSE 0
    <2>1. DOMAIN wl = 1..Len(wl)
        BY SMT
    <2>2. CASE Contains(wl, w)
        <3>1. PICK i \in 1..Len(wl) : wl[i] = w
            BY <2>2 DEF Contains
        <3>2. L = {i}
            BY <2>1, <3>1 DEF Once
        <3>3. Cardinality(L) = 1
            BY <3>2, FS_Singleton
        <3> QED BY <2>2, <3>3 DEF Spot
    <2>3. CASE ~Contains(wl, w)
        <3>1. L = {}
            BY <2>1, <2>3 DEF Contains
        <3>2. Cardinality(L) = 0
            BY <3>1, FS_EmptySet
        <3> QED BY <2>3, <3>2 DEF Spot
    <2> QED BY <2>2, <2>3
<1>2. Cardinality(H) = IF kind = "held" THEN 1 ELSE 0
    <2>1. H = IF kind = "held" THEN {at} ELSE {}
        BY DEF Spot
    <2>2. Cardinality({at}) = 1 /\ Cardinality({}) = 0
        BY FS_Singleton, FS_EmptySet
    <2> HIDE DEF H
    <2> QED BY <2>1, <2>2
<1>3. {q \in Wq : w \in Listed(pq[q].inactive_works)}
         = IF kind = "waiting" THEN {at} ELSE {}
    <2>1. \A q \in Wq : w \in Listed(pq[q].inactive_works)
                           <=> kind = "waiting" /\ at = q
        <3> SUFFICES ASSUME NEW q \in Wq
                     PROVE  w \in Listed(pq[q].inactive_works)
                               <=> kind = "waiting" /\ at = q
            OBVIOUS
        <3>1. pq[q].inactive_works \in Seq(Work)
            BY DEF PwqType
        <3> QED BY <3>1, ListedContains DEF Spot
    <2> QED BY <2>1
<1> QED BY <1>1, <1>2, <1>3

\* A pending item is in one place, any other in none.
LEMMA PlacesHold == IInv => PendingInOnePlace
<1> SUFFICES ASSUME IInv, NEW w \in Work
             PROVE  LET places == Cardinality({i \in DOMAIN pool.worklist :
                                                  pool.worklist[i] = w})
                                + Cardinality({x \in Worker :
                                                  worker[x].current_work = w})
                        waiting == {q \in Wq : w \in Listed(pwq[q].inactive_works)}
                    IN  /\ places + Cardinality(waiting)
                             = IF work[w].pending THEN 1 ELSE 0
                        /\ waiting = IF work[w].inactive THEN {work[w].pwq} ELSE {}
    BY DEF PendingInOnePlace
<1> DEFINE wl == pool.worklist
           listed == Cardinality({i \in DOMAIN wl : wl[i] = w})
           held == Cardinality({x \in Worker : worker[x].current_work = w})
           waiting == {q \in Wq : w \in Listed(pwq[q].inactive_works)}
<1>1. /\ wl \in Seq(Work) /\ pwq \in [Wq -> PwqType]
      /\ Once(wl) /\ ItemOK(wl, pwq, work, worker, w)
    BY DEF IInv, Items, PoolType
<1>2. ASSUME NEW kind, NEW at, Spot(wl, pwq, worker, w, kind, at),
             kind = "waiting" => at \in Wq, kind = "held" => at \in Worker
      PROVE  /\ listed = IF kind = "listed" THEN 1 ELSE 0
             /\ held = IF kind = "held" THEN 1 ELSE 0
             /\ waiting = IF kind = "waiting" THEN {at} ELSE {}
    BY <1>1, <1>2, SpotCounts
<1>3. Cardinality({}) = 0 /\ \A q : Cardinality({q}) = 1
    BY FS_EmptySet, FS_Singleton
<1> HIDE DEF wl, listed, held, waiting, IInv
<1>4. /\ listed + held + Cardinality(waiting) = IF work[w].pending THEN 1 ELSE 0
      /\ waiting = IF work[w].inactive THEN {work[w].pwq} ELSE {}
    <2>1. CASE /\ work[w] = [pending |-> FALSE, pwq |-> NULL, inactive |-> FALSE]
               /\ Spot(wl, pwq, worker, w, "none", NULL)
        <3>1. listed = 0 /\ held = 0 /\ waiting = {}
            BY <1>2, <2>1, SMT
        <3> QED BY <1>3, <2>1, <3>1, SMT
    <2>2. CASE /\ work[w].pending /\ work[w].pwq \in Wq /\ ~work[w].inactive
               /\ Spot(wl, pwq, worker, w, "listed", NULL)
        <3>1. listed = 1 /\ held = 0 /\ waiting = {}
            BY <1>2, <2>2
        <3> QED BY <1>3, <2>2, <3>1, SMT
    <2>3. CASE /\ work[w].pending /\ work[w].pwq \in Wq /\ work[w].inactive
               /\ Spot(wl, pwq, worker, w, "waiting", work[w].pwq)
        <3>1. listed = 0 /\ held = 0 /\ waiting = {work[w].pwq}
            BY <1>2, <2>3
        <3>2. Cardinality(waiting) = 1
            BY <1>3, <3>1
        <3>3. listed + held + Cardinality(waiting) = 1
            BY <3>1, <3>2, SMT
        <3>4. waiting = IF work[w].inactive THEN {work[w].pwq} ELSE {}
            BY <2>3, <3>1
        <3> QED BY <2>3, <3>3, <3>4
    <2>4. CASE /\ work[w].pending /\ work[w].pwq \in Wq /\ ~work[w].inactive
               /\ \E x \in Worker : Spot(wl, pwq, worker, w, "held", x)
        <3>1. listed = 0 /\ held = 1 /\ waiting = {}
            BY <1>2, <2>4
        <3> QED BY <1>3, <2>4, <3>1, SMT
    <2> QED BY <1>1, <2>1, <2>2, <2>3, <2>4 DEF ItemOK
<1> QED BY <1>4 DEF wl, listed, held, waiting

-----------------------------------------------------------------------------
\* For any workqueues, items and workers, and however deep worker_thread() calls
\* itself through wake_up_worker(): the counters of every pool_workqueue, of
\* concurrency management and of the idle list agree with what they count.
THEOREM CountersAlwaysAgree == Spec => []CountersAgree
<1>1. IInv => CountersAgree
    BY TypesHold, InFlightHold, RunningHold, IdleHold, SMT DEF CountersAgree
<1> QED BY <1>1, AlwaysIInv, PTL

\* A work item is pending exactly while it is in one place: on the worklist, on
\* the inactive list of its workqueue or claimed by one worker.
THEOREM PendingAlwaysInOnePlace == Spec => []PendingInOnePlace
BY PlacesHold, AlwaysIInv, PTL

\* pwq_adjust_max_active() and pwq_dec_nr_in_flight() leave no inactive item of a
\* workqueue that is below its max_active.
THEOREM NoneEverStranded == Spec => []NoneStranded
<1>1. IInv => NoneStranded
    BY Parts DEF AllSettled, Settled, NoneStranded, MayActivate, State
<1> QED BY <1>1, AlwaysIInv, PTL

=============================================================================
