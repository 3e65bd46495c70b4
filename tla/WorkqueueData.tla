--------------------------- MODULE WorkqueueData ----------------------------
(***************************************************************************)
(* The lists and counters of a worker pool and of the pool_workqueues on   *)
(* it, and the helpers of kernel/workqueue.c that update them.             *)
(***************************************************************************)
EXTENDS Integers, Sequences, FiniteSets

CONSTANTS
    WqList,         \* the workqueues, in the order of the list of all workqueues
    Freezable,      \* those with WQ_FREEZABLE
    CpuIntensive,   \* those with WQ_CPU_INTENSIVE
    Work,           \* the work items
    Worker,         \* memory for workers, numbered in the order of allocation
    MaxActives,     \* the limits workqueue_set_max_active() is called with
    AddressBits,    \* of each workqueue, bits 4 to 7 of the address of its pwq
    NULL

\* The entries of a list.
Listed(s) == {s[i] : i \in DOMAIN s}
Wq == Listed(WqList)

WORK_NR_COLORS == 16
Color == 0..(WORK_NR_COLORS - 1)

ASSUME WorkqueueAssumption ==
    /\ WqList \in Seq(Wq)
    /\ Freezable \subseteq Wq /\ CpuIntensive \subseteq Wq
    /\ MaxActives \subseteq Nat \ {0}
    /\ Worker \subseteq Nat /\ Worker # {} /\ IsFiniteSet(Worker)
    /\ IsFiniteSet(Work)
    /\ AddressBits \in [Wq -> Color]
    /\ NULL \notin Work \cup Wq

\* The end of a list, and the rest of it.
Last(s) == s[Len(s)]
Front(s) == SubSeq(s, 1, Len(s) - 1)

need_more_worker(p) == p.worklist # <<>> /\ p.nr_running = 0

may_start_working(p) == p.nr_idle # 0

keep_working(p) == p.worklist # <<>> /\ p.nr_running <= 1

NotRunning(flags) ==
    flags \cap {"PREP", "CPU_INTENSIVE", "UNBOUND", "REBOUND"} # {}

\* nr_running after worker_set_flags() on a worker with flags old.
RunningAfterSet(nr, old, flags) ==
    IF NotRunning(flags) /\ ~NotRunning(old) THEN nr - 1 ELSE nr

\* Mutant: other flags that keep the worker from running are overlooked.
RunningAfterAnyClr(nr, old, flags) ==
    IF NotRunning(flags) /\ NotRunning(old) THEN nr + 1 ELSE nr

\* nr_running after worker_clr_flags().
RunningAfterClr(nr, old, flags) ==
    IF NotRunning(flags) /\ NotRunning(old) /\ ~NotRunning(old \ flags)
    THEN nr + 1 ELSE nr

\* worker_enter_idle(): idle_list is LIFO.
EnterIdle(p, x) == [p EXCEPT !.idle_list = <<x>> \o @, !.nr_idle = @ + 1]

\* worker_leave_idle()
LeaveIdle(p, x) ==
    LET at == CHOOSE i \in DOMAIN p.idle_list : p.idle_list[i] = x
    IN  [p EXCEPT !.idle_list = SubSeq(@, 1, at - 1) \o SubSeq(@, at + 1, Len(@)),
                  !.nr_idle = @ - 1]

\* Mutant: the item overtakes those on the worklist.
ActivatedAtFront(S, wq) ==
    LET w == Head(S.pwq[wq].inactive_works)
    IN  [pool |-> [S.pool EXCEPT !.worklist = <<w>> \o @],
         pwq |-> [S.pwq EXCEPT ![wq].inactive_works = Tail(@),
                               ![wq].nr_active = @ + 1],
         work |-> [S.work EXCEPT ![w].inactive = FALSE]]

\* pwq_activate_first_inactive()
Activated(S, wq) ==
    LET w == Head(S.pwq[wq].inactive_works)
    IN  [pool |-> [S.pool EXCEPT !.worklist = Append(@, w)],
         pwq |-> [S.pwq EXCEPT ![wq].inactive_works = Tail(@),
                               ![wq].nr_active = @ + 1],
         work |-> [S.work EXCEPT ![w].inactive = FALSE]]

MayActivate(S, wq) ==
    S.pwq[wq].inactive_works # <<>> /\ S.pwq[wq].nr_active < S.pwq[wq].max_active

\* The work_color of every pool_workqueue: nothing flushes a workqueue.
work_color == 0

\* get_work_color() of the data of an item of wq, the address of its pwq or-ed
\* with flags and the shifted work_color, which is 0.  Nothing aligns the pwq so
\* that the bits of the colour are free.
get_work_color(wq) == AddressBits[wq]

\* The counters of pwq c after a work item whose data has this colour left it.
Dropped(c, color, inactive) ==
    [c EXCEPT !.nr_in_flight[color] = @ - 1, !.refcnt = @ - 1,
              !.nr_active = IF inactive THEN @ ELSE @ - 1]

\* Mutant: no inactive item is activated in its place.
DecNrInFlightOnly(S, wq, inactive) ==
    [S EXCEPT !.pwq[wq] = Dropped(@, get_work_color(wq), inactive)]

\* pwq_dec_nr_in_flight() and put_pwq() for a work item whose data said whether
\* it was inactive.
DecNrInFlight(S, wq, inactive) ==
    LET D == [S EXCEPT !.pwq[wq] = Dropped(@, get_work_color(wq), inactive)]
    IN  IF ~inactive /\ MayActivate(D, wq) THEN Activated(D, wq) ELSE D

\* What the entries of nr_in_flight add up to where n items are in flight: they
\* enter with colour 0 and leave with the colour of the address.
InFlight(nr, color, n) ==
    /\ IF color = work_color THEN nr[color] = n
       ELSE nr[color] <= 0 /\ nr[work_color] + nr[color] = n
    /\ \A k \in Color \ {work_color, color} : nr[k] = 0

ActivateTurn(S, wq) == IF MayActivate(S, wq) THEN Activated(S, wq) ELSE S

\* The loop of pwq_adjust_max_active(): at most a turn for each inactive item.
ActivatedWhilePossible(S, wq) ==
    LET most == Len(S.pwq[wq].inactive_works)
        turn[n \in 0..most] ==
            IF n = 0 THEN S ELSE ActivateTurn(turn[n - 1], wq)
    IN  turn[most]
=============================================================================
