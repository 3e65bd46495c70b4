------------------------------- MODULE Cpupri -------------------------------
(***************************************************************************)
(* CPU priority management of kernel/sched/cpupri.c: for each of the       *)
(* MaxRtPrio + 2 levels the set of CPUs that run at it and its size, and   *)
(* for each CPU its level.  cpupri_find looks for CPUs that run below a    *)
(* task's priority, lowest level first, and skips levels whose count is 0. *)
(***************************************************************************)
EXTENDS Integers, FiniteSets

CONSTANTS
    CPU,         \* possible CPUs
    MaxRtPrio,   \* MAX_RT_PRIO
    MaxPrio      \* MAX_PRIO

ASSUME CpupriAssumption ==
    /\ IsFiniteSet(CPU)
    /\ MaxRtPrio \in Nat \ {0} /\ MaxPrio \in Nat /\ MaxRtPrio < MaxPrio

Invalid == -1
Idle == 0
Normal == 1
Level == 0..(MaxRtPrio + 1)

VARIABLE pri     \* the cpupri of a root domain: pri_to_cpu[].mask,
                 \* pri_to_cpu[].count and cpu_to_pri[]

\* convert_prio: a task priority as a level.
ConvertPrio(prio) ==
    IF prio = Invalid THEN Invalid
    ELSE IF prio = MaxPrio THEN Idle
    ELSE IF prio >= MaxRtPrio THEN Normal
    ELSE MaxRtPrio - prio + 1

\* cpupri_init
Unset ==
    [mask |-> [l \in Level |-> {}],
     count |-> [l \in Level |-> 0],
     level |-> [c \in CPU |-> Invalid]]

\* Mutant: the CPU stays in the mask of its old level.
CpupriSetKeepsMask(C, cpu, prio) ==
    LET new == ConvertPrio(prio)
        old == C.level[cpu]
    IN  IF new = old THEN C
        ELSE [mask |-> [l \in Level |->
                          IF l = new THEN C.mask[l] \cup {cpu}
                          ELSE C.mask[l]],
              count |-> [l \in Level |->
                          IF l = new THEN C.count[l] + 1
                          ELSE IF l = old THEN C.count[l] - 1
                          ELSE C.count[l]],
              level |-> [C.level EXCEPT ![cpu] = new]]

\* cpupri_set: the CPU enters its new level before it leaves the old one.
CpupriSet(C, cpu, prio) ==
    LET new == ConvertPrio(prio)
        old == C.level[cpu]
    IN  IF new = old THEN C
        ELSE [mask |-> [l \in Level |->
                          IF l = new THEN C.mask[l] \cup {cpu}
                          ELSE IF l = old THEN C.mask[l] \ {cpu}
                          ELSE C.mask[l]],
              count |-> [l \in Level |->
                          IF l = new THEN C.count[l] + 1
                          ELSE IF l = old THEN C.count[l] - 1
                          ELSE C.count[l]],
              level |-> [C.level EXCEPT ![cpu] = new]]

\* Mutant: CPUs at the task's own level are candidates.
CandidatesAtLevel(C, prio, cpus) ==
    {l \in Level : l <= ConvertPrio(prio) /\ C.count[l] # 0
                     /\ cpus \cap C.mask[l] # {}}

\* cpupri_find: lowest_mask for a task of priority prio allowed on cpus, {}
\* when it returns 0.
Candidates(C, prio, cpus) ==
    {l \in Level : l < ConvertPrio(prio) /\ C.count[l] # 0
                     /\ cpus \cap C.mask[l] # {}}

CpupriFind(C, prio, cpus) ==
    LET found == Candidates(C, prio, cpus)
    IN  IF found = {} THEN {}
        ELSE cpus \cap C.mask[CHOOSE l \in found : \A k \in found : l <= k]

\* Priorities callers pass: CPUPRI_INVALID, a task's, or MAX_PRIO.
Prio == Invalid..MaxPrio

\* Any sequence of cpupri_set calls.
SetCalls ==
    /\ pri = Unset
    /\ [][\E cpu \in CPU, prio \in Prio : pri' = CpupriSet(pri, cpu, prio)]_pri

-----------------------------------------------------------------------------
(* Properties.                                                             *)

\* Counts are natural numbers: atomic_dec never takes one below zero.
PriOK ==
    /\ pri = [mask |-> pri.mask, count |-> pri.count, level |-> pri.level]
    /\ pri.mask \in [Level -> SUBSET CPU]
    /\ pri.count \in [Level -> Nat]
    /\ pri.level \in [CPU -> Level \cup {Invalid}]

\* The two directions of the map agree and the counts are exact, so that a
\* level skipped for its count is empty and no CPU is at two levels at once.
MapsAgree ==
    /\ \A l \in Level : pri.mask[l] = {c \in CPU : pri.level[c] = l}
    /\ \A l \in Level : pri.count[l] = Cardinality(pri.mask[l])

\* "find the best (lowest-pri) CPU in the system": what cpupri_find returns are
\* all the allowed CPUs of the lowest level below the task's among allowed
\* CPUs, and it returns nothing only when there is none.
FindIsLowest ==
    \A prio \in Prio, cpus \in SUBSET CPU :
        LET below == {c \in cpus : pri.level[c] # Invalid
                                     /\ pri.level[c] < ConvertPrio(prio)}
        IN  CpupriFind(pri, prio, cpus)
              = {c \in below : \A d \in below : pri.level[c] <= pri.level[d]}
=============================================================================
