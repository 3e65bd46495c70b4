----------------------------- MODULE Workqueue -----------------------------
(***************************************************************************)
(* One worker pool of kernel/workqueue.c and the workqueues that use it.   *)
(* There are no worker tasks in this program: wake_up_worker() calls       *)
(* worker_thread(), which may wake another worker from process_one_work(), *)
(* so the workers that run are a stack of calls.  worker_thread() returns  *)
(* only when its worker dies.  The work functions are not called.          *)
(*                                                                         *)
(* A worker is freed while the idle list still leads to it.  As long as    *)
(* its memory is not handed out again its pool pointer stays NULL, and     *)
(* worker_thread() returns at once when it is called with it.              *)
(***************************************************************************)
EXTENDS WorkqueueData

VARIABLES
    unbound,    \* the pool is an unbound one (POOL_DISASSOCIATED)
    freezing,   \* workqueue_freezing
    pool,       \* worklist, idle_list, nr_idle, nr_workers, nr_running
    pwq,        \* of each workqueue, its pool_workqueue on this pool
    work,       \* of each work item: pending, the pwq in its data, inactive
    worker,     \* of each worker: memory, flags, current_work
    stack       \* the calls that run, the innermost last

vars == <<unbound, freezing, pool, pwq, work, worker, stack>>

Idle == stack = <<>>
Top == Last(stack)
SetTop(f) == Append(Front(stack), f)

-----------------------------------------------------------------------------
\* wake_up_worker(): call worker_thread() for the first idle worker.
Woken(p, calls) ==
    IF p.idle_list # <<>> /\ worker[Head(p.idle_list)].memory = "live"
    THEN Append(calls, [fn |-> "worker_thread", worker |-> Head(p.idle_list),
                        cnt |-> 0, pc |-> "woke_up", work |-> NULL])
    ELSE calls

State == [pool |-> pool, pwq |-> pwq, work |-> work]

-----------------------------------------------------------------------------
\* queue_work_on() of an item that is not pending, and __queue_work().  All
\* pwqs are on this pool, so the last pool of the item is the same.
IsActive(wq) == pwq[wq].nr_active < pwq[wq].max_active

queue_work_on(wq, w) ==
    /\ Idle
    /\ ~work[w].pending
    /\ work' = [work EXCEPT ![w] = [pending |-> TRUE, pwq |-> wq,
                                    inactive |-> ~IsActive(wq)]]
    /\ pool' = IF IsActive(wq) THEN [pool EXCEPT !.worklist = Append(@, w)]
               ELSE pool
    /\ pwq' = [pwq EXCEPT
                 ![wq].nr_in_flight[work_color] = @ + 1, ![wq].refcnt = @ + 1,
                 ![wq].nr_active = IF IsActive(wq) THEN @ + 1 ELSE @,
                 ![wq].inactive_works = IF IsActive(wq) THEN @ ELSE Append(@, w)]
    /\ UNCHANGED <<unbound, freezing, worker, stack>>

\* The menu's wake_up_worker_run().
wake_up_worker_run ==
    /\ Idle
    /\ stack' = Woken(pool, stack)
    /\ UNCHANGED <<unbound, freezing, pool, pwq, work, worker>>

Adjusting(wqs) == [fn |-> "pwq_adjust_max_active", left |-> wqs]

workqueue_set_max_active(wq, max) ==
    /\ Idle
    /\ pwq' = [pwq EXCEPT ![wq].saved_max_active = max]
    /\ stack' = <<Adjusting(<<wq>>)>>
    /\ UNCHANGED <<unbound, freezing, pool, work, worker>>

freeze_workqueues_begin ==
    /\ Idle
    /\ ~freezing
    /\ freezing' = TRUE
    /\ stack' = <<Adjusting(WqList)>>
    /\ UNCHANGED <<unbound, pool, pwq, work, worker>>

thaw_workqueues ==
    /\ Idle
    /\ freezing
    /\ freezing' = FALSE
    /\ stack' = <<Adjusting(WqList)>>
    /\ UNCHANGED <<unbound, pool, pwq, work, worker>>

\* pwq_adjust_max_active() for the next workqueue of the caller's loop.
Adjusted(wq) ==
    ActivatedWhilePossible(
        [State EXCEPT !.pwq[wq].max_active = pwq[wq].saved_max_active], wq)

\* The fast exit for workqueues that are not freezable.
UpToDate(wq) == wq \notin Freezable /\ pwq[wq].max_active = pwq[wq].saved_max_active

AdjustNext ==
    /\ ~Idle /\ Top.fn = "pwq_adjust_max_active" /\ Top.left # <<>>
    /\ LET wq == Head(Top.left)
           return == SetTop(Adjusting(Tail(Top.left)))
       IN  \/ /\ UpToDate(wq)
              /\ stack' = return
              /\ UNCHANGED <<pool, pwq, work>>
           \/ /\ ~UpToDate(wq)
              /\ wq \notin Freezable \/ ~freezing
              /\ \E S \in {Adjusted(wq)} :
                    /\ pool' = S.pool /\ pwq' = S.pwq /\ work' = S.work
                    /\ stack' = IF S.pool # pool THEN Woken(S.pool, return)
                                ELSE return
           \/ /\ wq \in Freezable /\ freezing
              /\ pwq' = [pwq EXCEPT ![wq].max_active = 0]
              /\ stack' = return
              /\ UNCHANGED <<pool, work>>
    /\ UNCHANGED <<unbound, freezing, worker>>

AdjustDone ==
    /\ ~Idle /\ Top.fn = "pwq_adjust_max_active" /\ Top.left = <<>>
    /\ stack' = Front(stack)
    /\ UNCHANGED <<unbound, freezing, pool, pwq, work, worker>>

-----------------------------------------------------------------------------
\* worker_thread(), from one label or call to the next.
In(pc) == ~Idle /\ Top.fn = "worker_thread" /\ Top.pc = pc

Self == Top.worker
Goto(pc) == SetTop([Top EXCEPT !.pc = pc])

\* woke_up: a worker with WORKER_DIE is freed as it is.
Die ==
    /\ In("woke_up") /\ "DIE" \in worker[Self].flags
    /\ worker' = [worker EXCEPT ![Self].memory = "freed"]
    /\ stack' = Front(stack)
    /\ UNCHANGED <<unbound, freezing, pool, pwq, work>>

WokeUp ==
    /\ In("woke_up") /\ "DIE" \notin worker[Self].flags
    /\ pool' = LeaveIdle(pool, Self)
    /\ worker' = [worker EXCEPT ![Self].flags = @ \ {"IDLE"}]
    /\ stack' = Goto("recheck")
    /\ UNCHANGED <<unbound, freezing, pwq, work>>

NoNeed ==
    /\ In("recheck") /\ ~need_more_worker(pool)
    /\ stack' = Goto("sleep")
    /\ UNCHANGED <<unbound, freezing, pool, pwq, work, worker>>

\* alloc_worker() and worker_attach_to_pool(), then worker_enter_idle().
NewWorker ==
    [memory |-> "live", current_work |-> NULL,
     flags |-> {"PREP", "IDLE"} \cup (IF unbound THEN {"UNBOUND"} ELSE {})]

\* manage_workers(): create_worker() succeeds.
MayNotStart == ~may_start_working(pool)
ManageWorkers ==
    /\ In("recheck") /\ need_more_worker(pool) /\ MayNotStart
    /\ \E x \in Worker :
        /\ worker[x].memory = "free"
        /\ \A y \in Worker : y < x => worker[y].memory # "free"
        /\ worker' = [worker EXCEPT ![x] = NewWorker]
        /\ pool' = [EnterIdle(pool, x) EXCEPT !.nr_workers = @ + 1]
    /\ UNCHANGED <<unbound, freezing, pwq, work, stack>>

\* End of the PREP stage.
StartWorking ==
    /\ In("recheck") /\ need_more_worker(pool) /\ ~MayNotStart
    /\ pool' = [pool EXCEPT
                  !.nr_running = RunningAfterClr(@, worker[Self].flags,
                                                 {"PREP", "REBOUND"})]
    /\ worker' = [worker EXCEPT ![Self].flags = @ \ {"PREP", "REBOUND"}]
    /\ stack' = Goto("process")
    /\ UNCHANGED <<unbound, freezing, pwq, work>>

Intensive(wq) == IF wq \in CpuIntensive THEN {"CPU_INTENSIVE"} ELSE {}

\* process_one_work() up to the wake-up of another worker.
ClaimWork ==
    /\ In("process")
    /\ LET w == Head(pool.worklist)
           flags == Intensive(work[w].pwq)
           p == [pool EXCEPT
                   !.worklist = Tail(@),
                   !.nr_running = RunningAfterSet(@, worker[Self].flags, flags)]
           self == SetTop([Top EXCEPT !.pc = "claimed", !.work = w])
       IN  /\ pool' = p
           /\ worker' = [worker EXCEPT ![Self].flags = @ \cup flags,
                                       ![Self].current_work = w]
           /\ stack' = IF need_more_worker(p) THEN Woken(p, self) ELSE self
    /\ UNCHANGED <<unbound, freezing, pwq, work>>

\* Mutant: WORK_STRUCT_PENDING stays set.
PendingKept(w) == [work EXCEPT ![w].pwq = NULL, ![w].inactive = FALSE]

\* set_work_pool_and_clear_pending()
PendingCleared(w) == [work EXCEPT ![w].pending = FALSE, ![w].pwq = NULL,
                                  ![w].inactive = FALSE]

\* The loop condition of worker_thread() once cnt is incremented.
KeepsWorking(p, cnt) == keep_working(p) /\ cnt < 2

\* The rest of process_one_work(), and the test of the loop.
FinishWork ==
    /\ In("claimed")
    /\ LET w == Top.work
           wq == work[w].pwq
           flags == worker[Self].flags \ {"CPU_INTENSIVE"}
           running == RunningAfterClr(pool.nr_running, worker[Self].flags,
                                      Intensive(wq))
       IN  \E S \in {DecNrInFlight([pool |-> [pool EXCEPT !.nr_running = running],
                                    pwq |-> pwq, work |-> PendingCleared(w)],
                                   wq, work[w].inactive)} :
             /\ pwq' = S.pwq
             /\ work' = S.work
             /\ \/ /\ KeepsWorking(S.pool, Top.cnt + 1)
                   /\ pool' = S.pool
                   /\ worker' = [worker EXCEPT ![Self].flags = flags,
                                               ![Self].current_work = NULL]
                   /\ stack' = SetTop([Top EXCEPT !.pc = "process", !.work = NULL,
                                                  !.cnt = @ + 1])
                \/ /\ ~KeepsWorking(S.pool, Top.cnt + 1)
                   /\ pool' = [S.pool EXCEPT
                                 !.nr_running = RunningAfterSet(@, flags, {"PREP"})]
                   /\ worker' = [worker EXCEPT ![Self].flags = flags \cup {"PREP"},
                                               ![Self].current_work = NULL]
                   /\ stack' = SetTop([Top EXCEPT !.pc = "sleep", !.work = NULL,
                                                  !.cnt = @ + 1])
    /\ UNCHANGED <<unbound, freezing>>

\* The worker is marked to die after four turns.
LimitPassed(cnt) == cnt > 4

\* Mutant: a turn without work does not count.
Uncounted(cnt) == cnt

Counted(cnt) == cnt + 1

\* sleep, in place of schedule().
Sleep ==
    /\ In("sleep")
    /\ pool' = EnterIdle(pool, Self)
    /\ worker' = [worker EXCEPT
                    ![Self].flags = @ \cup {"IDLE"} \cup
                        (IF LimitPassed(Counted(Top.cnt)) THEN {"DIE"} ELSE {})]
    /\ stack' = SetTop([Top EXCEPT !.pc = "woke_up", !.cnt = Counted(@)])
    /\ UNCHANGED <<unbound, freezing, pwq, work>>

-----------------------------------------------------------------------------
\* workqueue_init() has created the first worker of the pool.
Init ==
    /\ unbound \in BOOLEAN
    /\ freezing = FALSE
    /\ LET first == CHOOSE x \in Worker : \A y \in Worker : x <= y
       IN  /\ worker = [x \in Worker |->
                          IF x = first THEN NewWorker
                          ELSE [memory |-> "free", current_work |-> NULL,
                                flags |-> {}]]
           /\ pool = [worklist |-> <<>>, idle_list |-> <<first>>, nr_idle |-> 1,
                      nr_workers |-> 1, nr_running |-> 0]
    /\ \E max \in MaxActives :
         pwq = [wq \in Wq |-> [nr_in_flight |-> [k \in Color |-> 0],
                               refcnt |-> 1, nr_active |-> 0,
                               max_active |-> max, saved_max_active |-> max,
                               inactive_works |-> <<>>]]
    /\ work = [w \in Work |-> [pending |-> FALSE, pwq |-> NULL, inactive |-> FALSE]]
    /\ stack = <<>>

Call ==
    \/ \E wq \in Wq, w \in Work : queue_work_on(wq, w)
    \/ wake_up_worker_run
    \/ \E wq \in Wq, max \in MaxActives : workqueue_set_max_active(wq, max)
    \/ freeze_workqueues_begin
    \/ thaw_workqueues

Run ==
    \/ AdjustNext \/ AdjustDone
    \/ Die \/ WokeUp \/ NoNeed \/ ManageWorkers \/ StartWorking
    \/ ClaimWork \/ FinishWork \/ Sleep

Next == Call \/ Run

Spec == Init /\ [][Next]_vars /\ WF_vars(Run)

-----------------------------------------------------------------------------
Used == {x \in Worker : worker[x].memory # "free"}
Frames == {stack[i] : i \in DOMAIN stack}
OnWorklist(wq) == SelectSeq(pool.worklist, LAMBDA w : work[w].pwq = wq)
Queue == [wq \in Wq |-> OnWorklist(wq) \o pwq[wq].inactive_works]

\* Type correctness.
TypeOK ==
    /\ unbound \in BOOLEAN /\ freezing \in BOOLEAN
    /\ pool \in [worklist : Seq(Work), idle_list : Seq(Worker), nr_idle : Nat,
                 nr_workers : Nat, nr_running : Nat]
    /\ pwq \in [Wq -> [nr_in_flight : [Color -> Int], refcnt : Nat, nr_active : Nat,
                       max_active : MaxActives \cup {0},
                       saved_max_active : MaxActives, inactive_works : Seq(Work)]]
    /\ work \in [Work -> [pending : BOOLEAN, pwq : Wq \cup {NULL},
                          inactive : BOOLEAN]]
    /\ worker \in [Worker ->
                     [memory : {"free", "live", "freed"},
                      flags : SUBSET {"PREP", "IDLE", "UNBOUND", "CPU_INTENSIVE",
                                      "DIE"},
                      current_work : Work \cup {NULL}]]
    /\ \A f \in Frames :
         \/ f.fn = "pwq_adjust_max_active" /\ f.left \in Seq(Wq)
         \/ /\ f.fn = "worker_thread" /\ f.cnt \in 0..5
            /\ f.worker \in Worker /\ f.work \in Work \cup {NULL}
            /\ f.pc \in {"woke_up", "recheck", "process", "claimed", "sleep"}

\* The counters of a pool_workqueue, kept up by __queue_work(), by the
\* activations and by pwq_dec_nr_in_flight() in nested calls of worker_thread(),
\* count the work items that are queued on it or executed for it; nr_active
\* leaves out the inactive ones and refcnt adds the base reference.
\* nr_in_flight[0] is that count only where the address of the pool_workqueue
\* leaves the bits of the colour free.  Elsewhere what leaves is taken from the
\* entry those bits select, which is never positive: nr_in_flight[0] is the
\* number of all items ever queued, and only the two together are the count.
InFlightAccounts ==
    \A wq \in Wq :
        LET mine == {w \in Work : work[w].pwq = wq}
        IN  /\ InFlight(pwq[wq].nr_in_flight, get_work_color(wq), Cardinality(mine))
            /\ pwq[wq].refcnt = 1 + Cardinality(mine)
            /\ pwq[wq].nr_active = Cardinality({w \in mine : ~work[w].inactive})

\* A work item is pending exactly while it is in one place, on the worklist, on
\* the inactive list of its workqueue or claimed by one worker: it cannot be
\* queued twice, and no worker finds it executing already.
PendingInOnePlace ==
    \A w \in Work :
        LET places == Cardinality({i \in DOMAIN pool.worklist : pool.worklist[i] = w})
                    + Cardinality({x \in Worker : worker[x].current_work = w})
            waiting == {wq \in Wq : w \in Listed(pwq[wq].inactive_works)}
        IN  /\ places + Cardinality(waiting) = IF work[w].pending THEN 1 ELSE 0
            /\ waiting = IF work[w].inactive THEN {work[w].pwq} ELSE {}

\* An inactive work item waits only while its workqueue is at max_active,
\* whatever freezing, thawing and new limits come between.
NoneStranded == \A wq \in Wq : ~MayActivate(State, wq)

\* nr_running counts the workers that take part in concurrency management, there
\* is never more than one, and the sanity check of worker_enter_idle() holds.
RunningAccounts ==
    /\ pool.nr_running =
         Cardinality({x \in Used : ~NotRunning(worker[x].flags)})
    /\ pool.nr_running <= 1
    /\ pool.nr_workers = pool.nr_idle => pool.nr_running = 0

\* The idle list holds every worker with WORKER_IDLE once, nr_idle counts it, and
\* it is empty only while the innermost call has its worker off the list and
\* wakes nobody: wake_up_worker(), which looks into the first idle worker before
\* it tests the pointer, always finds one.
IdleAccounts ==
    /\ pool.nr_idle = Len(pool.idle_list)
    /\ pool.nr_workers = Cardinality(Used)
    /\ Listed(pool.idle_list) = {x \in Used : "IDLE" \in worker[x].flags}
    /\ Cardinality(Listed(pool.idle_list)) = Len(pool.idle_list)
    /\ pool.idle_list = <<>> => In("recheck") \/ In("sleep")

\* All counters agree with the lists and flags they summarise, whatever calls of
\* worker_thread() are nested in each other: those of a pool_workqueue, of
\* concurrency management and of idle workers.
CountersAgree == TypeOK /\ InFlightAccounts /\ RunningAccounts /\ IdleAccounts

\* Work items of a workqueue start in the order they were queued, across the
\* worklist and the inactive list: what waits for a workqueue only loses its
\* first item or gains one at the end.
FifoPerWorkqueue ==
    [][\A wq \in Wq :
          \/ Queue'[wq] = Queue[wq]
          \/ Queue[wq] # <<>> /\ Queue'[wq] = Tail(Queue[wq])
          \/ Queue'[wq] # <<>> /\ Front(Queue'[wq]) = Queue[wq]]_vars

\* Every call returns, however deep worker_thread() nests.
CallsReturn == ~Idle ~> Idle

\* WARN_ON_ONCE(!list_empty(&worker->entry)) of worker_thread(): a worker that
\* dies is on no list.
DyingIsUnlisted ==
    In("woke_up") /\ "DIE" \in worker[Self].flags =>
        Self \notin Listed(pool.idle_list)
=============================================================================
