------------------------------- MODULE DlRoot -------------------------------
(***************************************************************************)
(* The -deadline run queues of all CPUs and the cpudl heaps of the root    *)
(* domains they are attached to (kernel/sched/deadline.c, core.c and       *)
(* topology.c).  Tasks are queued and dequeued, CPUs are activated and     *)
(* die, run queues are moved between root domains; each of these keeps the *)
(* heap of the root domain up to date.                                     *)
(***************************************************************************)
EXTENDS Cpudl

CONSTANTS
    Task,                 \* -deadline tasks
    RootDomain,           \* root domains
    Def,                  \* def_root_domain
    Hotplug,              \* CPUs that are hotplugged (bound)
    Movable,              \* CPUs that change the root domain (bound)
    NoCpu                 \* the CPU of a task that is not queued

ASSUME DlRootAssumption ==
    /\ Def \in RootDomain /\ 0 \notin Deadlines
    /\ IsFiniteSet(Task) /\ NoCpu \notin CPU
    /\ Hotplug \subseteq CPU /\ Movable \subseteq CPU

VARIABLES
    heaps,       \* rd->cpudl
    rd,          \* rq->rd
    online,      \* CPUs whose rq->online is 1
    active,      \* cpu_active_mask
    on,          \* the run queue a task is queued on
    deadline,    \* p->dl.deadline of a queued task
    earliest     \* dl_rq->earliest_dl.curr, 0 when nothing is queued

vars == <<heaps, rd, online, active, on, deadline, earliest>>

\* The tasks in a run queue's tree.
Queue(cpu) == {t \in Task : on[t] = cpu}

\* The deadline of the leftmost entity of the tree.
Leftmost(tasks, dl) ==
    dl[CHOOSE t \in tasks : \A u \in tasks : ~Before(dl[u], dl[t])]

-----------------------------------------------------------------------------

\* test_sched_init: every CPU is made active, then sched_init attaches every
\* run queue to def_root_domain.
Init ==
    /\ rd = [c \in CPU |-> Def]
    /\ active = CPU /\ online = CPU
    /\ heaps = [r \in RootDomain |->
                  IF r = Def THEN [Fresh EXCEPT !.free = CPU] ELSE Fresh]
    /\ on = [t \in Task |-> NoCpu]
    /\ deadline = [t \in Task |-> 0]
    /\ earliest = [c \in CPU |-> 0]

\* inc_dl_deadline: the new earliest deadline, when there is one.
IncDlDeadline(early, dl) == early = 0 \/ Before(dl, early)

\* __enqueue_dl_entity.  A task that wakes up is placed on an active CPU, but
\* __sched_setscheduler and the replenishment queue a task where it is, on a
\* run queue that may be offline.
Enqueue(t, cpu, dl) ==
    /\ on[t] = NoCpu
    /\ on' = [on EXCEPT ![t] = cpu]
    /\ deadline' = [deadline EXCEPT ![t] = dl]
    /\ IF IncDlDeadline(earliest[cpu], dl)
       THEN /\ earliest' = [earliest EXCEPT ![cpu] = dl]
            /\ heaps' = [heaps EXCEPT ![rd[cpu]] = Set(@, cpu, dl)]
       ELSE UNCHANGED <<earliest, heaps>>
    /\ UNCHANGED <<rd, online, active>>

\* Mutant: the heap is told only of a run queue that is left empty.
DecHeapEmpty(H, cpu, left, dl) == IF left = {} THEN Clear(H, cpu) ELSE H

\* dec_dl_deadline of a run queue left with these tasks, on earliest_dl.curr
\* and on the heap.
DecEarliest(left, dl) == IF left = {} THEN 0 ELSE Leftmost(left, dl)
DecHeap(H, cpu, left, dl) ==
    IF left = {} THEN Clear(H, cpu)
    ELSE Set(H, cpu, Leftmost(left, dl))

\* __dequeue_dl_entity
Dequeue(t) ==
    LET cpu == on[t]
        left == Queue(cpu) \ {t}
    IN  /\ on[t] # NoCpu
        /\ on' = [on EXCEPT ![t] = NoCpu]
        /\ deadline' = [deadline EXCEPT ![t] = 0]
        /\ earliest' = [earliest EXCEPT ![cpu] = DecEarliest(left, deadline)]
        /\ heaps' = [heaps EXCEPT
                       ![rd[cpu]] = DecHeap(@, cpu, left, deadline)]
        /\ UNCHANGED <<rd, online, active>>

-----------------------------------------------------------------------------

\* Mutant: a run queue that comes online is always free.
RqOnlineFree(H, cpu) == SetFreeCpu(H, cpu)

\* rq_online_dl and rq_offline_dl
RqOnline(H, cpu) ==
    LET G == SetFreeCpu(H, cpu)
    IN  IF Queue(cpu) # {} THEN Set(G, cpu, earliest[cpu]) ELSE G

RqOffline(H, cpu) == ClearFreeCpu(Clear(H, cpu), cpu)

\* sched_cpu_activate.  set_rq_online does nothing to a run queue that is online.
Activate(cpu) ==
    /\ active' = active \cup {cpu}
    /\ online' = online \cup {cpu}
    /\ heaps' = IF cpu \in online THEN heaps
                ELSE [heaps EXCEPT
                        ![rd[cpu]] = RqOnline(@, cpu)]
    /\ UNCHANGED <<rd, on, deadline, earliest>>

\* sched_cpu_deactivate.  When dl_cpu_busy refuses, the mask is restored and
\* nothing has changed.
Deactivate(cpu) ==
    /\ cpu \in active
    /\ active' = active \ {cpu}
    /\ UNCHANGED <<heaps, rd, online, on, deadline, earliest>>

\* rq_attach_root.  A root domain nothing refers to is freed
\* (free_rootdomain), and the next one starts from cpudl_init; a run queue is
\* moved to a new root domain or, by detach_destroy_domains, to the default.
Attach(cpu, r) ==
    LET old == rd[cpu]
        left == IF old # Def /\ \A c \in CPU \ {cpu} : rd[c] # old
                THEN Fresh
                ELSE IF cpu \in online THEN RqOffline(heaps[old], cpu)
                ELSE heaps[old]
        moved == [heaps EXCEPT ![old] = left]
    IN  /\ r # old \/ r = Def
        /\ rd' = [rd EXCEPT ![cpu] = r]
        /\ online' = IF cpu \in active THEN online \cup {cpu}
                     ELSE online \ {cpu}
        /\ heaps' = IF cpu \in active
                    THEN [moved EXCEPT ![r] = RqOnline(@, cpu)]
                    ELSE moved
        /\ UNCHANGED <<active, on, deadline, earliest>>

\* A turn of migrate_tasks: the -deadline task with the earliest deadline
\* leaves a dead run queue for the CPU that select_fallback_rq finds, unless
\* one thread is left.  "others" says whether a thread of a lower class is
\* there to be it.
MigrateOne(S, cpu, dest) ==
    LET mine == {t \in Task : S.on[t] = cpu}
        t == CHOOSE u \in mine : \A v \in mine :
                 ~Before(S.deadline[v], S.deadline[u])
        to == dest[t]
        left == mine \ {t}
        gone == [S.heaps EXCEPT
                   ![rd[cpu]] = DecHeap(@, cpu, left, S.deadline)]
        early == [S.earliest EXCEPT ![cpu] = DecEarliest(left, S.deadline)]
        lead == IncDlDeadline(early[to], S.deadline[t])
    IN  IF mine = {} \/ (~S.others /\ Cardinality(mine) = 1) THEN S
        ELSE [S EXCEPT
                !.on = [@ EXCEPT ![t] = to],
                !.earliest = IF lead THEN [early EXCEPT ![to] = S.deadline[t]]
                             ELSE early,
                !.heaps = IF lead
                          THEN [gone EXCEPT
                                  ![rd[to]] = Set(@, to, S.deadline[t])]
                          ELSE gone]

\* migrate_tasks, of a run queue with at most all tasks.
Migrate(S, cpu, dest) ==
    LET turn[n \in 0..Cardinality(Task)] ==
            IF n = 0 THEN S ELSE MigrateOne(turn[n - 1], cpu, dest)
    IN  turn[Cardinality(Task)]

\* sched_cpu_dying, of a CPU that may still be active: the program calls it
\* without sched_cpu_deactivate.  A task whose fallback is the dying CPU itself
\* keeps migrate_tasks going for ever, so the call returns only when the tasks
\* that left were sent to other CPUs that are active.
Dying(cpu, others, dest) ==
    LET off == IF cpu \in online
               THEN [heaps EXCEPT ![rd[cpu]] = RqOffline(@, cpu)] ELSE heaps
        S == Migrate([heaps |-> off, on |-> on, deadline |-> deadline,
                      earliest |-> earliest, others |-> others], cpu, dest)
    IN  /\ others \/ Queue(cpu) # {}
        /\ \A t \in Queue(cpu) : S.on[t] # cpu => dest[t] \in active
        /\ online' = online \ {cpu}
        /\ heaps' = S.heaps /\ on' = S.on /\ earliest' = S.earliest
        /\ UNCHANGED <<rd, active, deadline>>

Next ==
    \/ \E t \in Task, cpu \in CPU, dl \in Deadlines : Enqueue(t, cpu, dl)
    \/ \E t \in Task : Dequeue(t)
    \/ \E cpu \in Hotplug : Activate(cpu)
    \/ \E cpu \in Hotplug : Deactivate(cpu)
    \/ \E cpu \in Movable, r \in RootDomain : Attach(cpu, r)
    \/ \E cpu \in Hotplug, others \in BOOLEAN :
          \E dest \in [Queue(cpu) -> CPU \ {cpu}] : Dying(cpu, others, dest)

Spec == Init /\ [][Next]_vars

-----------------------------------------------------------------------------
(* Properties.                                                             *)

\* The deadline of a run queue is one of its tasks' or the 0 that stands for
\* none, and every heap of a root domain is within its array.
TypeOK ==
    /\ heaps \in [RootDomain -> HeapType]
    /\ rd \in [CPU -> RootDomain]
    /\ online \subseteq CPU /\ active \subseteq CPU
    /\ on \in [Task -> CPU \cup {NoCpu}]
    /\ deadline \in [Task -> Deadlines \cup {0}]
    /\ earliest \in [CPU -> Deadlines \cup {0}]

\* Through all enqueues, dequeues, hotplug steps and changes of root domain, also
\* those of run queues that were used while they were offline, the heap of a
\* root domain stays a heap, and it tells of each run queue that is online in it
\* the earliest deadline queued there, or that the CPU is free.  (Of run queues
\* that are offline or have left it may keep an entry, and a CPU it has an entry
\* of may be marked free as well: FoundIsLater.)
HeapsMatchQueues ==
    /\ TypeOK
    /\ \A r \in RootDomain : WellFormed(heaps[r])
    /\ \A c \in online :
          IF Queue(c) = {} THEN c \in heaps[rd[c]].free
          ELSE Entry(heaps[rd[c]], c) = Leftmost(Queue(c), deadline)

\* What a push relies on.  When cpudl_find falls back to the heap, the CPU it
\* names runs later deadlines, if its run queue is online in this root domain.
\* When it finds nothing for a task that may run everywhere, no run queue that is
\* online in the root domain is idle or has only later deadlines.
SearchMissesNone ==
    \A r \in RootDomain, dl \in Deadlines :
        LET here == {c \in online : rd[c] = r}
            H == heaps[r]
        IN  /\ \A cpus \in SUBSET CPU : H.free \cap cpus = {} =>
                  \A c \in Find(H, dl, cpus) \cap here : Before(dl, earliest[c])
            /\ Find(H, dl, CPU) = {} =>
                  \A c \in here : earliest[c] # 0 /\ ~Before(dl, earliest[c])

\* What find_later_rq says of later_mask: its CPUs are run queues whose tasks
\* have later deadlines than the task's (or that have no -deadline task).  It
\* is asked for a task of a run queue with -deadline tasks: one they push, or
\* one that wakes up where they run.
FoundIsLater ==
    \A cpu \in online, dl \in Deadlines, cpus \in SUBSET CPU :
        Queue(cpu) # {} => \A c \in Find(heaps[rd[cpu]], dl, cpus) :
            earliest[c] = 0 \/ Before(dl, earliest[c])
=============================================================================
