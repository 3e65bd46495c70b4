---------------------------- MODULE WorkqueueInv ----------------------------
(***************************************************************************)
(* The inductive invariant of the worker pool and its workqueues: what is  *)
(* true between any two steps of the calls that make CountersAgree,        *)
(* PendingInOnePlace and NoneStranded hold.                                *)
(***************************************************************************)
EXTENDS WorkqueueData

\* The types of the variables.
PoolType ==
    [worklist : Seq(Work), idle_list : Seq(Worker), nr_idle : Nat,
     nr_workers : Nat, nr_running : Nat]
PwqType ==
    [nr_in_flight : [Color -> Int], refcnt : Nat, nr_active : Nat,
     max_active : MaxActives \cup {0}, saved_max_active : MaxActives,
     inactive_works : Seq(Work)]
ItemType == [pending : BOOLEAN, pwq : Wq \cup {NULL}, inactive : BOOLEAN]
FlagSet == {"PREP", "IDLE", "UNBOUND", "CPU_INTENSIVE", "DIE"}
WorkerType ==
    [memory : {"free", "live", "freed"}, flags : SUBSET FlagSet,
     current_work : Work \cup {NULL}]
WorkerFrame ==
    [fn : {"worker_thread"}, worker : Worker, cnt : 0..5,
     pc : {"woke_up", "recheck", "process", "claimed", "sleep"},
     work : Work \cup {NULL}]
AdjustFrame == [fn : {"pwq_adjust_max_active"}, left : Seq(Wq)]
Frame == WorkerFrame \cup AdjustFrame

\* What a list holds.
Contains(s, e) == \E i \in 1..Len(s) : s[i] = e

\* A list holds everything once.
Once(s) == \A i, j \in 1..Len(s) : s[i] = s[j] => i = j

-----------------------------------------------------------------------------
(* The parts of the inductive invariant: p is the pool, pq the             *)
(* pool_workqueues, it the work items, wk the workers, s the calls.        *)

\* Where item w is: on the worklist, waiting on the inactive list of "at", held
\* by worker "at", or nowhere.
Spot(wl, pq, wk, w, kind, at) ==
    /\ Contains(wl, w) <=> kind = "listed"
    /\ \A q \in Wq : Contains(pq[q].inactive_works, w)
                        <=> kind = "waiting" /\ at = q
    /\ \A x \in Worker : wk[x].current_work = w <=> kind = "held" /\ at = x

\* An item is where its data says.
ItemOK(wl, pq, it, wk, w) ==
    \/ /\ it[w] = [pending |-> FALSE, pwq |-> NULL, inactive |-> FALSE]
       /\ Spot(wl, pq, wk, w, "none", NULL)
    \/ /\ it[w].pending /\ it[w].pwq \in Wq /\ ~it[w].inactive
       /\ Spot(wl, pq, wk, w, "listed", NULL)
    \/ /\ it[w].pending /\ it[w].pwq \in Wq /\ it[w].inactive
       /\ Spot(wl, pq, wk, w, "waiting", it[w].pwq)
    \/ /\ it[w].pending /\ it[w].pwq \in Wq /\ ~it[w].inactive
       /\ \E x \in Worker : Spot(wl, pq, wk, w, "held", x)

Items(wl, pq, it, wk) ==
    /\ Once(wl) /\ \A q \in Wq : Once(pq[q].inactive_works)
    /\ \A w \in Work : ItemOK(wl, pq, it, wk, w)

\* The counters of a pool_workqueue.
Mine(it, q) == {w \in Work : it[w].pwq = q}
Active(it, q) == {w \in Work : it[w].pwq = q /\ ~it[w].inactive}

Account(c, it, q) ==
    /\ InFlight(c.nr_in_flight, get_work_color(q), Cardinality(Mine(it, q)))
    /\ c.refcnt = 1 + Cardinality(Mine(it, q))
    /\ c.nr_active = Cardinality(Active(it, q))

Accounts(pq, it) == \A q \in Wq : Account(pq[q], it, q)

\* No inactive item of this pool_workqueue could be activated.
Settled(c) == c.inactive_works = <<>> \/ ~(c.nr_active < c.max_active)

AllSettled(pq) == \A q \in Wq : Settled(pq[q])

\* The idle list.
InUse(wk) == {x \in Worker : wk[x].memory # "free"}
IdleOK(p, wk) ==
    /\ Once(p.idle_list) /\ p.nr_idle = Len(p.idle_list)
    /\ p.nr_workers = Cardinality(InUse(wk))
    /\ \A x \in Worker : Contains(p.idle_list, x)
                            <=> x \in InUse(wk) /\ "IDLE" \in wk[x].flags

\* A worker that no call belongs to.
Resting(k) ==
    /\ k.memory = "free" \/ ("IDLE" \in k.flags /\ "PREP" \in k.flags)
    /\ "CPU_INTENSIVE" \notin k.flags /\ k.current_work = NULL

\* The worker k of a call of worker_thread().
CallOK(f, k, it) ==
    /\ f.fn = "worker_thread" /\ k.memory = "live"
    /\ \/ /\ f.pc = "woke_up" /\ (f.cnt > 4 => "DIE" \in k.flags)
          /\ "IDLE" \in k.flags /\ "PREP" \in k.flags
          /\ "CPU_INTENSIVE" \notin k.flags /\ k.current_work = NULL
       \/ /\ f.pc \in {"recheck", "sleep"} /\ f.cnt \in 0..4
          /\ "IDLE" \notin k.flags /\ "PREP" \in k.flags
          /\ "CPU_INTENSIVE" \notin k.flags /\ k.current_work = NULL
       \/ /\ f.pc = "process" /\ f.cnt \in {0, 1, 3}
          /\ "IDLE" \notin k.flags /\ "PREP" \notin k.flags
          /\ "CPU_INTENSIVE" \notin k.flags /\ k.current_work = NULL
       \/ /\ f.pc = "claimed" /\ f.cnt \in {0, 1, 3}
          /\ "IDLE" \notin k.flags /\ "PREP" \notin k.flags
          /\ f.work \in Work /\ k.current_work = f.work
          /\ "CPU_INTENSIVE" \in k.flags <=> it[f.work].pwq \in CpuIntensive

\* Calls that have called another: pwq_adjust_max_active(), which is called
\* first, or a process_one_work() whose worker does not count as running.
Beneath(f, wk, it) ==
    f.fn = "worker_thread" => /\ CallOK(f, wk[f.worker], it) /\ f.pc = "claimed"
                              /\ NotRunning(wk[f.worker].flags)

Calling(s, x) == \E i \in 1..Len(s) : s[i].fn = "worker_thread" /\ s[i].worker = x

Below(b, wk, it) ==
    /\ b \in Seq(Frame)
    /\ \A i \in 1..Len(b) : Beneath(b[i], wk, it)
    /\ \A i \in 1..Len(b) : b[i].fn # "worker_thread" => i = 1
    /\ \A i, j \in 1..Len(b) :
          /\ b[i].fn = "worker_thread" /\ b[j].fn = "worker_thread"
          /\ b[i].worker = b[j].worker
          => i = j

\* The innermost call, when it is one of worker_thread().
Turn(f, p) ==
    /\ f.pc \notin {"recheck", "sleep"} => p.idle_list # <<>>
    /\ f.pc = "woke_up" => /\ Head(p.idle_list) = f.worker
                           /\ p.worklist # <<>> => f.cnt \in {0, 3, 5}
    /\ f.pc = "recheck" /\ p.worklist # <<>> => f.cnt \in {0, 3}
    /\ f.pc = "sleep" /\ p.worklist # <<>> => f.cnt \in {2, 4}
    /\ f.pc = "process" => p.worklist # <<>>

Innermost(f, b, p, wk, it) ==
    IF f.fn = "worker_thread"
    THEN /\ CallOK(f, wk[f.worker], it) /\ ~Calling(b, f.worker)
         /\ p.nr_running = IF NotRunning(wk[f.worker].flags) THEN 0 ELSE 1
         /\ Turn(f, p)
    ELSE b = <<>> /\ p.nr_running = 0 /\ p.idle_list # <<>>

Calls(s, p, wk, it) ==
    /\ s \in Seq(Frame)
    /\ \A x \in Worker : ~Calling(s, x) => Resting(wk[x])
    /\ s = <<>> => p.nr_running = 0 /\ p.idle_list # <<>>
    /\ s # <<>> => /\ Below(Front(s), wk, it)
                   /\ Innermost(Last(s), Front(s), p, wk, it)
=============================================================================
