------------------------------- MODULE RtRoot -------------------------------
(***************************************************************************)
(* The real-time run queues of all CPUs and what their root domain knows   *)
(* of them (kernel/sched/rt.c with its callers in core.c): the cpupri map, *)
(* and rto_mask with rto_count, the overloaded run queues.  Tasks wake up, *)
(* change priority and class, sleep and are scheduled; run queues push     *)
(* waiting tasks to CPUs that run less urgent ones and pull them from      *)
(* overloaded ones; rt_rqs are throttled, and run queues go offline.       *)
(*                                                                         *)
(* Tasks are in the root task group and not priority boosted.  Each call   *)
(* is made on the CPU of the task or run queue it is about, as the menus   *)
(* set smp_user_cpu; the scheduling domain spans all CPUs, and all run     *)
(* queues stay in one root domain.                                         *)
(***************************************************************************)
EXTENDS Cpupri, SequencesExt

CONSTANTS
    Task,        \* tasks whose class is real-time or fair
    Allowed,     \* p->cpus_ptr
    Hotplug,     \* CPUs that are taken down and up, or moved between domains
    Other        \* stands for a fair task that never sleeps

ASSUME RtRootAssumption ==
    /\ CPU \subseteq Nat
    /\ Allowed \in [Task -> SUBSET CPU \ {{}}]
    /\ Hotplug \subseteq CPU /\ Other \notin Task

VARIABLES
    rq,          \* the run queues, see Quiet
    task,        \* of a task: its CPU, its prio and whether it is on_rq
    rto,         \* rd->rto_mask
    rtoCount,    \* rd->rto_count
    active       \* cpu_active_mask

vars == <<pri, rq, task, rto, rtoCount, active>>

RtPrio == 0..(MaxRtPrio - 1)

\* The state as a value that the functions below pass on, with the CPU that
\* makes the call and the CPUs whose current real-time task has used up the
\* runtime of its rt_rq by the time update_curr_rt looks.
State(me, spent) ==
    [rq |-> rq, task |-> task, pri |-> pri, rto |-> rto,
     rtoCount |-> rtoCount, me |-> me, spent |-> spent]
Becomes(S) ==
    /\ rq' = S.rq /\ task' = S.task /\ pri' = S.pri
    /\ rto' = S.rto /\ rtoCount' = S.rtoCount

\* rt_task(p); priorities from MAX_RT_PRIO on are the fair class's.
IsRt(S, t) == t # Other /\ S.task[t].prio < MaxRtPrio
PrioOf(S, t) == IF t = Other THEN MaxRtPrio ELSE S.task[t].prio

\* p->nr_cpus_allowed > 1
Migratory(t) == Cardinality(Allowed[t]) > 1

\* The tasks queued in an rt_rq, rt_nr_running and the first bit that is set
\* in the bitmap of its array.
Queued(r) == UNION {ToSet(r.queue[p]) : p \in RtPrio}
Running(r) == Cardinality(Queued(r))
FirstBit(r) == CHOOSE p \in RtPrio : r.queue[p] # <<>>
                   /\ \A q \in RtPrio : r.queue[q] # <<>> => p <= q

\* init_rt_rq, with a fair task running: active.queue, highest_prio.curr,
\* highest_prio.next, pushable_tasks, overloaded, rt_queued, the real-time
\* tasks counted in rq->nr_running, rt_throttled, rq->online, rq->curr and
\* whether its TIF_NEED_RESCHED is set.
Quiet(c) ==
    [queue |-> [p \in RtPrio |-> <<>>], curr |-> MaxRtPrio,
     next |-> MaxRtPrio, pushable |-> <<>>, overloaded |-> FALSE,
     queued |-> FALSE, counted |-> 0, throttled |-> FALSE, online |-> TRUE,
     running |-> Other, resched |-> FALSE]

\* Every CPU has been activated and runs a fair task; new tasks are about to be
\* woken up on some CPU.
Init ==
    /\ rq = [c \in CPU |-> Quiet(c)]
    /\ pri = [mask |-> [l \in Level |-> IF l = Normal THEN CPU ELSE {}],
              count |-> [l \in Level |-> IF l = Normal THEN Cardinality(CPU) ELSE 0],
              level |-> [c \in CPU |-> Normal]]
    /\ task \in {f \in [Task -> [cpu : CPU, prio : 0..MaxRtPrio,
                                  on : {FALSE}]] :
                   \A t \in Task : f[t].cpu \in Allowed[t]}
    /\ rto = {} /\ rtoCount = 0
    /\ active = CPU

-----------------------------------------------------------------------------
(* The queues of one CPU.                                                  *)

\* dequeue_top_rt_rq and enqueue_top_rt_rq
DequeueTop(r) ==
    IF ~r.queued THEN r
    ELSE [r EXCEPT !.counted = @ - Running(r), !.queued = FALSE]
EnqueueTop(r) ==
    IF r.queued \/ r.throttled \/ Queued(r) = {} THEN r
    ELSE [r EXCEPT !.counted = @ + Running(r), !.queued = TRUE]

\* resched_curr: only the calling CPU marks its current task.
Resched(S, c) == IF c = S.me THEN [S EXCEPT !.rq[c].resched = TRUE] ELSE S

\* update_curr_rt with sched_rt_runtime_exceeded: the rt_rq is throttled and
\* leaves the run queue.  Offline, its runtime is RUNTIME_INF.
UpdateCurr(S, c) ==
    IF c \in S.spent /\ IsRt(S, S.rq[c].running) /\ S.rq[c].online
    THEN Resched([S EXCEPT !.rq[c] = [DequeueTop(@) EXCEPT
                                        !.throttled = TRUE]], c)
    ELSE S

\* Mutant: rto_mask and rto_count follow also while the run queue is offline.
ClearOverloadOffline(S, c) ==
    [S EXCEPT !.rto = @ \ {c}, !.rtoCount = @ - 1]

\* rt_set_overload and rt_clear_overload
SetOverload(S, c) ==
    IF ~S.rq[c].online THEN S
    ELSE [S EXCEPT !.rto = @ \cup {c}, !.rtoCount = @ + 1]
ClearOverload(S, c) ==
    IF ~S.rq[c].online THEN S
    ELSE [S EXCEPT !.rto = @ \ {c}, !.rtoCount = @ - 1]

\* update_rt_migration
UpdateMigration(S, c) ==
    LET r == S.rq[c]
        many == Running(r) > 1 /\ \E t \in Queued(r) : Migratory(t)
    IN  IF many = r.overloaded THEN S
        ELSE LET T == [S EXCEPT !.rq[c].overloaded = many]
             IN  IF many THEN SetOverload(T, c) ELSE ClearOverload(T, c)

\* enqueue_pushable_task: pushable_tasks is a plist, behind equal priorities.
EnqueuePushable(S, c, t) ==
    LET rest == SelectSeq(S.rq[c].pushable, LAMBDA u : u # t)
        before(u) == PrioOf(S, u) <= PrioOf(S, t)
        after(u) == ~before(u)
    IN  [S EXCEPT
           !.rq[c].pushable = SelectSeq(rest, before) \o <<t>>
                                \o SelectSeq(rest, after),
           !.rq[c].next = IF PrioOf(S, t) < @ THEN PrioOf(S, t) ELSE @]

\* dequeue_pushable_task
DequeuePushable(S, c, t) ==
    LET rest == SelectSeq(S.rq[c].pushable, LAMBDA u : u # t)
    IN  [S EXCEPT
           !.rq[c].pushable = rest,
           !.rq[c].next = IF rest = <<>> THEN MaxRtPrio
                          ELSE PrioOf(S, Head(rest))]

\* inc_rt_prio and dec_rt_prio of a priority, once its lists are updated.
IncPrio(S, c, prio) ==
    LET prev == S.rq[c].curr
    IN  [S EXCEPT
           !.rq[c].curr = IF prio < prev THEN prio ELSE prev,
           !.pri = IF S.rq[c].online /\ prio < prev
                   THEN CpupriSet(@, c, prio) ELSE @]
DecPrio(S, c, prio) ==
    LET r == S.rq[c]
        high == IF Queued(r) = {} THEN MaxRtPrio
                ELSE IF prio = r.curr THEN FirstBit(r) ELSE r.curr
    IN  [S EXCEPT
           !.rq[c].curr = high,
           !.pri = IF r.online /\ high # r.curr
                   THEN CpupriSet(@, c, high) ELSE @]

\* enqueue_task of a task on its CPU, at the head of its list or at the tail.
\* Only the real-time class is modelled beyond p->on_rq.
Enqueue(S, t, head) ==
    LET c == S.task[t].cpu
        prio == S.task[t].prio
        T == [S EXCEPT !.task[t].on = TRUE]
        listed == [T EXCEPT !.rq[c] = [DequeueTop(@) EXCEPT
            !.queue[prio] = IF head THEN <<t>> \o @ ELSE Append(@, t)]]
        counted == UpdateMigration(IncPrio(listed, c, prio), c)
        topped == [counted EXCEPT !.rq[c] = EnqueueTop(@)]
    IN  IF ~IsRt(S, t) THEN T
        ELSE IF S.rq[c].running # t /\ Migratory(t)
        THEN EnqueuePushable(topped, c, t)
        ELSE topped

\* dequeue_task
Dequeue(S, t) ==
    LET c == S.task[t].cpu
        prio == S.task[t].prio
        T == [S EXCEPT !.task[t].on = FALSE]
        delisted == [UpdateCurr(T, c) EXCEPT !.rq[c] = [DequeueTop(@) EXCEPT
            !.queue[prio] = SelectSeq(@, LAMBDA u : u # t)]]
        counted == UpdateMigration(DecPrio(delisted, c, prio), c)
        topped == [counted EXCEPT !.rq[c] = EnqueueTop(@)]
    IN  IF ~IsRt(S, t) THEN T ELSE DequeuePushable(topped, c, t)

\* requeue_task_rt
Requeue(S, t, head) ==
    LET c == S.task[t].cpu
        rest(s) == SelectSeq(s, LAMBDA u : u # t)
    IN  [S EXCEPT !.rq[c].queue[S.task[t].prio] =
           IF head THEN <<t>> \o rest(@) ELSE Append(rest(@), t)]

-----------------------------------------------------------------------------
(* Balancing.                                                              *)

NoCpu == -1

\* find_lowest_rq: among the lowest, the task's own CPU, the calling CPU or
\* the first one.
FindLowestRq(S, t) ==
    LET lowest == CpupriFind(S.pri, S.task[t].prio, Allowed[t])
    IN  IF ~Migratory(t) \/ lowest = {} THEN NoCpu
        ELSE IF S.task[t].cpu \in lowest THEN S.task[t].cpu
        ELSE IF S.me \in lowest THEN S.me
        ELSE Min(lowest)

\* deactivate_task, set_task_cpu and activate_task.
Move(S, t, c) == Enqueue([Dequeue(S, t) EXCEPT !.task[t].cpu = c], t, FALSE)

\* push_rt_tasks: push_rt_task until it moves nothing.  Nothing else runs
\* between the tries of find_lock_lowest_rq, so the first decides.
RECURSIVE Push(_, _)
Push(S, c) ==
    LET t == Head(S.rq[c].pushable)
        to == FindLowestRq(S, t)
    IN  IF ~S.rq[c].overloaded \/ S.rq[c].pushable = <<>> THEN S
        ELSE IF S.task[t].prio < PrioOf(S, S.rq[c].running) THEN Resched(S, c)
        ELSE IF to \in {NoCpu, c} \/ S.rq[to].curr <= S.task[t].prio THEN S
        ELSE Push(Resched(Move(S, t, to), to), c)

\* pick_highest_pushable_task: the candidates, of which the first is taken.
Pullable(S, src, c) ==
    SelectSeq(S.rq[src].pushable,
              LAMBDA t : t # S.rq[src].running /\ c \in Allowed[t])

\* One source of pull_rt_task: its candidate comes to c when it is more urgent
\* than what c has queued, and no more urgent than what the source runs.
PullFrom(S, src, c) ==
    LET able == Pullable(S, src, c)
        t == Head(able)
    IN  IF \/ src = c \/ S.rq[src].next >= S.rq[c].curr \/ able = <<>>
           \/ S.task[t].prio >= S.rq[c].curr
           \/ S.task[t].prio < PrioOf(S, S.rq[src].running)
        THEN S
        ELSE Resched(Move(S, t, c), c)

\* pull_rt_task.  A source's bit may be cleared while the mask is walked, but
\* only once it has been visited, and only the puller's own bit may be set.
Pull(S, c) ==
    IF S.rtoCount = 0 \/ (S.rtoCount = 1 /\ c \in S.rto) THEN S
    ELSE FoldLeft(LAMBDA T, src : PullFrom(T, src, c), S,
                  SetToSortSeq(S.rto, <))

-----------------------------------------------------------------------------
(* Waking up.                                                              *)

\* select_task_rq_rt
SelectRq(S, t) ==
    LET c == S.task[t].cpu
        run == S.rq[c].running
        to == FindLowestRq(S, t)
    IN  IF /\ IsRt(S, run)
           /\ ~Migratory(run) \/ S.task[run].prio <= S.task[t].prio
           /\ to # NoCpu /\ S.task[t].prio < S.rq[to].curr
        THEN to ELSE c

\* select_task_rq: where the class puts the task (the fair class anywhere), or
\* where select_fallback_rq does when that is not an active CPU.
Targets(S, t) ==
    LET usable == Allowed[t] \cap active
        wanted == IF IsRt(S, t) /\ Migratory(t) THEN {SelectRq(S, t)}
                  ELSE Allowed[t]
    IN  IF wanted \cap usable # {} THEN wanted \cap usable ELSE usable

\* check_preempt_equal_prio
CheckPreemptEqual(S, c, t) ==
    LET free(u) == Migratory(u)
                     /\ CpupriFind(S.pri, S.task[u].prio, Allowed[u]) # {}
    IN  IF ~free(S.rq[c].running) \/ free(t) THEN S
        ELSE Resched(Requeue(S, t, TRUE), c)

\* check_preempt_curr; between two fair tasks that class decides.
CheckPreempt(S, c, t) ==
    LET run == S.rq[c].running
    IN  IF ~IsRt(S, t)
        THEN IF IsRt(S, run) THEN {S} ELSE {S, Resched(S, c)}
        ELSE IF PrioOf(S, t) < PrioOf(S, run) THEN {Resched(S, c)}
        ELSE IF PrioOf(S, t) = PrioOf(S, run) /\ ~S.rq[c].resched
        THEN {CheckPreemptEqual(S, c, t)}
        ELSE {S}

\* task_woken_rt
TaskWoken(S, c, t) ==
    LET run == S.rq[c].running
    IN  IF /\ IsRt(S, t) /\ ~S.rq[c].resched /\ Migratory(t) /\ IsRt(S, run)
           /\ ~Migratory(run) \/ S.task[run].prio <= S.task[t].prio
        THEN Push(S, c) ELSE S

\* wake_up_new_task, and try_to_wake_up of a task that sleeps.  Where no CPU
\* the task may use is active, its mask would be widened: not modelled.
WakeUp(t, spent) ==
    /\ ~task[t].on
    /\ \E now \in {State(task[t].cpu, spent)} : \E c \in Targets(now, t) :
       \E S \in CheckPreempt(Enqueue([now EXCEPT !.task[t].cpu = c], t, FALSE),
                             c, t) :
          Becomes(TaskWoken(S, c, t))
    /\ UNCHANGED active

-----------------------------------------------------------------------------
(* Scheduling.                                                             *)

\* balance_rt: the run queue is left with less urgent tasks than prev, which
\* sleeps.
Balance(S, c, prev) ==
    IF IsRt(S, prev) /\ ~S.task[prev].on /\ S.rq[c].curr > S.task[prev].prio
    THEN Pull(S, c) ELSE S

\* put_prev_task_rt
PutPrev(S, c, prev) ==
    LET T == UpdateCurr(S, c)
    IN  IF IsRt(S, prev) /\ S.task[prev].on /\ Migratory(prev)
        THEN EnqueuePushable(T, c, prev) ELSE T

\* __schedule up to the pick, with prev going to sleep or not.
Descheduled(S, c, sleeps) ==
    LET prev == S.rq[c].running
    IN  PutPrev(Balance(IF sleeps THEN Dequeue(S, prev) ELSE S, c, prev),
                c, prev)

\* pick_next_task: the first real-time task when the rt_rq is queued, else any
\* fair task, as that class decides.
Picks(S, c) ==
    IF S.rq[c].queued THEN {Head(S.rq[c].queue[FirstBit(S.rq[c])])}
    ELSE {Other} \cup {t \in Task : /\ S.task[t].on /\ S.task[t].cpu = c
                                    /\ ~IsRt(S, t)}

\* Mutant: no push is queued for the tasks that keep waiting.
SwitchToKeeps(S, c, t) ==
    LET T == IF IsRt(S, t) THEN DequeuePushable(S, c, t) ELSE S
    IN  [T EXCEPT !.rq[c].running = t, !.rq[c].resched = FALSE]

\* set_next_task_rt, the context switch and the balance callbacks.
SwitchTo(S, c, t) ==
    LET T == IF IsRt(S, t) THEN DequeuePushable(S, c, t) ELSE S
        U == [T EXCEPT !.rq[c].running = t, !.rq[c].resched = FALSE]
    IN  IF IsRt(S, t) THEN Push(U, c) ELSE U

\* schedule
Schedule(c, sleeps, spent) ==
    /\ sleeps => rq[c].running # Other
    /\ \E S \in {Descheduled(State(c, spent), c, sleeps)} :
       \E t \in Picks(S, c) : Becomes(SwitchTo(S, c, t))
    /\ UNCHANGED active

\* check_class_changed of a task that was queued with priority old, and the
\* balance callbacks it leaves: switched_from_rt with switched_to_fair,
\* switched_to_rt, prio_changed_rt.
FromRt(S, c, t) ==
    {IF Queued(T.rq[c]) = {} THEN Pull(T, c) ELSE T :
       T \in IF S.rq[c].running = t THEN {Resched(S, c)}
             ELSE CheckPreempt(S, c, t)}
ToRt(S, c, t) ==
    LET run == S.rq[c].running
        T == IF PrioOf(S, t) < PrioOf(S, run) THEN Resched(S, c) ELSE S
    IN  IF run = t THEN S
        ELSE IF Migratory(t) /\ S.rq[c].overloaded THEN Push(T, c) ELSE T
PrioChanged(S, c, t, old) ==
    LET prio == S.task[t].prio
        run == S.rq[c].running
        T == IF prio > S.rq[c].curr THEN Resched(S, c) ELSE S
    IN  IF run # t THEN IF prio < PrioOf(S, run) THEN Resched(S, c) ELSE S
        ELSE IF old < prio THEN Pull(T, c) ELSE T
ClassChanged(S, c, t, old) ==
    IF ~S.task[t].on THEN {S}
    ELSE IF ~IsRt(S, t) THEN FromRt(S, c, t)
    ELSE IF old >= MaxRtPrio THEN {ToRt(S, c, t)}
    ELSE {PrioChanged(S, c, t, old)}

\* __sched_setscheduler with another priority, lower ones at the head of their
\* list.  A running task is put and set again, which changes nothing more:
\* pushable_tasks does not hold it.
SetScheduler(t, prio, spent) ==
    LET c == task[t].cpu
        old == task[t].prio
        now == State(c, spent)
        requeued == Enqueue([Dequeue(now, t) EXCEPT !.task[t].prio = prio],
                            t, old < prio)
    IN  /\ prio # old
        /\ \E S \in {IF task[t].on THEN requeued
                     ELSE [now EXCEPT !.task[t].prio = prio]} :
           \E T \in ClassChanged(S, c, t, old) : Becomes(T)
        /\ UNCHANGED active

-----------------------------------------------------------------------------
(* Time and hotplug.                                                       *)

\* task_tick_rt, with the time slice of a SCHED_RR task expiring or not.
Tick(c, expires, spent) ==
    LET S == UpdateCurr(State(c, spent), c)
        run == rq[c].running
    IN  /\ IsRt(S, run)
        /\ Becomes(IF expires /\ Len(rq[c].queue[task[run].prio]) > 1
                   THEN Resched(Requeue(S, run, FALSE), c) ELSE S)
        /\ UNCHANGED active

\* sched_rt_rq_enqueue
RtRqEnqueue(S, c) ==
    LET T == [S EXCEPT !.rq[c] = EnqueueTop(@)]
    IN  IF S.rq[c].curr < PrioOf(S, S.rq[c].running) THEN Resched(T, c) ELSE T

\* rt_throttled = 0 of __enable_runtime; __disable_runtime also puts the rt_rq
\* back.  The amounts of runtime the CPUs lend each other are not modelled.
Unthrottled(S, c) == [S EXCEPT !.rq[c].throttled = FALSE]
DisableRuntime(S, c) == RtRqEnqueue(Unthrottled(S, c), c)

\* do_sched_rt_period_timer, run on CPU me, for a CPU it replenishes or whose
\* rt_rq has tasks and has used no time: either is put back if it is not.
PeriodTimer(me, c) ==
    /\ rq[c].throttled \/ Queued(rq[c]) # {}
    /\ Becomes(RtRqEnqueue(Unthrottled(State(me, {}), c), c))
    /\ UNCHANGED active

\* Mutant: a throttled rt_rq is not put back when its run queue goes offline.
RqOfflineForgets(S, c) ==
    LET T == IF S.rq[c].overloaded THEN ClearOverload(S, c) ELSE S
    IN  IF ~S.rq[c].online THEN S
        ELSE [Unthrottled(T, c) EXCEPT !.pri = CpupriSet(@, c, Invalid),
                                       !.rq[c].online = FALSE]

\* Of set_rq_online and set_rq_offline: rq_online_rt with __enable_runtime,
\* and rq_offline_rt with __disable_runtime.
RqOnline(S, c) ==
    LET T == [S EXCEPT !.rq[c].online = TRUE]
        U == IF T.rq[c].overloaded THEN SetOverload(T, c) ELSE T
    IN  IF S.rq[c].online THEN S
        ELSE [Unthrottled(U, c) EXCEPT !.pri = CpupriSet(@, c, S.rq[c].curr)]
RqOffline(S, c) ==
    LET T == IF S.rq[c].overloaded THEN ClearOverload(S, c) ELSE S
        U == DisableRuntime(T, c)
    IN  IF ~S.rq[c].online THEN S
        ELSE [U EXCEPT !.pri = CpupriSet(@, c, Invalid),
                       !.rq[c].online = FALSE]

\* sched_cpu_activate, sched_cpu_deactivate
Activate(c) ==
    /\ c \notin active
    /\ active' = active \cup {c}
    /\ Becomes(RqOnline(State(c, {}), c))
Deactivate(c) ==
    /\ c \in active
    /\ active' = active \ {c}
    /\ Becomes(State(c, {}))

\* rq_attach_root, back to the same root domain.
Attach(c) ==
    /\ \E S \in {RqOffline(State(c, {}), c)} :
          Becomes(IF c \in active THEN RqOnline(S, c) ELSE S)
    /\ UNCHANGED active

\* The CPUs whose real-time runtime may run out during a call made on me:
\* they run real-time tasks, or me is about to.
MaySpend(me) ==
    {c \in CPU : /\ rq[c].online
                 /\ c = me \/ IsRt([task |-> task], rq[c].running)}

Next ==
    \/ \E t \in Task : \E spent \in SUBSET MaySpend(task[t].cpu) :
          WakeUp(t, spent)
    \/ \E c \in CPU, sleeps \in BOOLEAN : \E spent \in SUBSET MaySpend(c) :
          Schedule(c, sleeps, spent)
    \/ \E t \in Task, prio \in 0..MaxRtPrio :
       \E spent \in SUBSET MaySpend(task[t].cpu) : SetScheduler(t, prio, spent)
    \/ \E c \in CPU, expires \in BOOLEAN, spent \in {{}, CPU} :
          Tick(c, expires, spent)
    \/ \E me \in CPU, c \in CPU : PeriodTimer(me, c)
    \/ \E c \in Hotplug : Activate(c) \/ Deactivate(c) \/ Attach(c)

Spec == Init /\ [][Next]_vars

-----------------------------------------------------------------------------
(* Properties.                                                             *)

\* Each run queue holds exactly the real-time tasks that are on it, each once
\* and at its own priority, and highest_prio.curr is the highest of them.  The
\* rt_rq counts in nr_running unless it is throttled or empty: one that is
\* throttled is not forgotten when its run queue goes offline and comes back.
\* pushable_tasks holds exactly the waiting tasks that may move, in order of
\* priority, with highest_prio.next the first one's: no BUG_ON of
\* pick_next_pushable_task fires and no task escapes pushing and pulling.
QueuesOK ==
    \A c \in CPU :
        LET r == rq[c]
            mine == {t \in Task : /\ task[t].on /\ task[t].cpu = c
                                  /\ task[t].prio < MaxRtPrio}
            q == r.pushable
        IN  /\ \A p \in RtPrio :
                  /\ ToSet(r.queue[p]) = {t \in mine : task[t].prio = p}
                  /\ IsInjective(r.queue[p])
            /\ r.curr = Min({task[t].prio : t \in mine} \cup {MaxRtPrio})
            /\ r.queued <=> mine # {} /\ ~r.throttled
            /\ r.counted = IF r.queued THEN Cardinality(mine) ELSE 0
            /\ r.running # Other =>
                  task[r.running].on /\ task[r.running].cpu = c
            /\ ToSet(q) = {t \in mine \ {r.running} : Migratory(t)}
            /\ IsInjective(q)
            /\ \A i, j \in 1..Len(q) :
                  i < j => task[q[i]].prio <= task[q[j]].prio
            /\ r.next = IF q = <<>> THEN MaxRtPrio ELSE task[q[1]].prio

\* What the root domain records of each run queue is what the run queue has:
\* its cpupri level is that of its highest task while it is online and none
\* otherwise, rto_mask holds the online run queues that are overloaded and
\* rto_count is their number.
RootMatchesQueues ==
    /\ \A c \in CPU : pri.level[c] =
          IF rq[c].online THEN ConvertPrio(rq[c].curr) ELSE Invalid
    /\ rto = {c \in CPU : rq[c].online /\ rq[c].overloaded}
    /\ rtoCount = Cardinality(rto)

\* Once a CPU has switched to another real-time task, the first of the tasks
\* that wait there could not run at once elsewhere: every other online CPU it
\* may use has a task at least as urgent.
PushedWherePossible ==
    [][\A c \in CPU :
         LET q == rq'[c].pushable
         IN  /\ rq'[c].running \notin {rq[c].running, Other}
             /\ task'[rq'[c].running].prio < MaxRtPrio
             /\ q # <<>>
             => \A d \in Allowed[Head(q)] \ {c} :
                   rq'[d].online => rq'[d].curr <= task'[Head(q)].prio]_vars
=============================================================================
