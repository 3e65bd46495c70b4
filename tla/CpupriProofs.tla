---------------------------- MODULE CpupriProofs ----------------------------
(***************************************************************************)
(* The two directions of the cpupri map always agree and the counts are    *)
(* exact, for any number of CPUs and priorities; hence cpupri_find returns *)
(* CPUs of the lowest suitable level.                                      *)
(***************************************************************************)
EXTENDS Cpupri, FiniteSetTheorems, LeastNumber, TLAPS

\* Zenon proves a step unless the step cites SMT, for arithmetic.
USE ZenonT(30)

\* convert_prio yields a level or CPUPRI_INVALID: BUG_ON(newpri >=
\* CPUPRI_NR_PRIORITIES) in cpupri_set and cpupri_find never fires.
LEMMA ConvertPrioRange ==
    ASSUME NEW prio \in Prio
    PROVE  ConvertPrio(prio) \in Level \cup {Invalid}
BY CpupriAssumption, SMT DEF ConvertPrio, Prio, Level, Invalid, Idle, Normal

\* cpupri_init establishes the invariant.
LEMMA InitMapsAgree == pri = Unset => PriOK /\ MapsAgree
<1> SUFFICES ASSUME pri = Unset PROVE PriOK /\ MapsAgree
    OBVIOUS
<1>1. PriOK
    BY DEF Unset, PriOK, Level, Invalid
<1>2. \A l \in Level : pri.mask[l] = {c \in CPU : pri.level[c] = l}
    BY SMT DEF Unset, Level, Invalid
<1>3. \A l \in Level : pri.count[l] = Cardinality(pri.mask[l])
    BY FS_EmptySet DEF Unset
<1> QED BY <1>1, <1>2, <1>3 DEF MapsAgree

\* One cpupri_set preserves the agreement of the masks with the CPUs' levels.
LEMMA SetKeepsMasks ==
    ASSUME PriOK, MapsAgree, NEW cpu \in CPU, NEW prio \in Prio,
           pri' = CpupriSet(pri, cpu, prio),
           ConvertPrio(prio) # pri.level[cpu]
    PROVE  /\ pri'.mask \in [Level -> SUBSET CPU]
           /\ pri'.level \in [CPU -> Level \cup {Invalid}]
           /\ \A l \in Level : pri'.mask[l] = {c \in CPU : pri'.level[c] = l}
<1> DEFINE new == ConvertPrio(prio)
           old == pri.level[cpu]
<1>1. new \in Level \cup {Invalid} /\ new # old
    BY ConvertPrioRange DEF CpupriSet
<1>2. pri'.mask = [l \in Level |-> IF l = new THEN pri.mask[l] \cup {cpu}
                               ELSE IF l = old THEN pri.mask[l] \ {cpu}
                               ELSE pri.mask[l]]
    BY DEF CpupriSet
<1>3. pri'.level = [pri.level EXCEPT ![cpu] = new]
    BY DEF CpupriSet
<1> HIDE DEF new
<1>4. pri'.mask \in [Level -> SUBSET CPU] /\ pri'.level \in [CPU -> Level \cup {Invalid}]
    BY <1>1, <1>2, <1>3, SMT DEF PriOK
<1>5. ASSUME NEW l \in Level
      PROVE  pri'.mask[l] = {c \in CPU : pri'.level[c] = l}
    <2>1. pri.mask[l] = {c \in CPU : pri.level[c] = l}
        BY DEF MapsAgree
    <2>2. \A c \in CPU : pri'.level[c] = IF c = cpu THEN new ELSE pri.level[c]
        BY <1>3 DEF PriOK
    <2> QED BY <1>1, <1>2, <2>1, <2>2, SMT
<1> QED BY <1>4, <1>5

\* One cpupri_set keeps every count equal to the size of its mask.
LEMMA SetKeepsCounts ==
    ASSUME PriOK, MapsAgree, NEW cpu \in CPU, NEW prio \in Prio,
           pri' = CpupriSet(pri, cpu, prio),
           ConvertPrio(prio) # pri.level[cpu], NEW l \in Level
    PROVE  pri'.count[l] \in Nat /\ pri'.count[l] = Cardinality(pri'.mask[l])
<1> DEFINE new == ConvertPrio(prio)
           old == pri.level[cpu]
<1>1. new \in Level \cup {Invalid} /\ new # old
    BY ConvertPrioRange DEF CpupriSet
<1>2. /\ pri'.mask[l] = IF l = new THEN pri.mask[l] \cup {cpu}
                    ELSE IF l = old THEN pri.mask[l] \ {cpu} ELSE pri.mask[l]
      /\ pri'.count[l] = IF l = new THEN pri.count[l] + 1
                     ELSE IF l = old THEN pri.count[l] - 1 ELSE pri.count[l]
    BY DEF CpupriSet
<1>3. /\ pri.mask[l] = {c \in CPU : pri.level[c] = l} /\ pri.mask[l] \subseteq CPU
      /\ pri.count[l] = Cardinality(pri.mask[l]) /\ pri.count[l] \in Nat
    BY DEF MapsAgree, PriOK
<1> HIDE DEF new
<1>4. IsFiniteSet(pri.mask[l])
    BY <1>3, FS_Subset, CpupriAssumption
<1>5. CASE l = new
    <2>1. cpu \notin pri.mask[l]
        BY <1>1, <1>3, <1>5
    <2>2. Cardinality(pri.mask[l] \cup {cpu}) = Cardinality(pri.mask[l]) + 1
        BY <2>1, <1>4, FS_AddElement
    <2> QED BY <1>2, <1>3, <1>5, <2>2, SMT
<1>6. CASE l # new /\ l = old
    <2>1. cpu \in pri.mask[l]
        BY <1>3, <1>6
    <2>2. Cardinality(pri.mask[l] \ {cpu}) = Cardinality(pri.mask[l]) - 1
        BY <2>1, <1>4, FS_RemoveElement
    <2>3. Cardinality(pri.mask[l] \ {cpu}) \in Nat
        BY <1>4, FS_RemoveElement, FS_CardinalityType
    <2> QED BY <1>2, <1>3, <1>6, <2>2, <2>3
<1>7. CASE l # new /\ l # old
    BY <1>2, <1>3, <1>7
<1> QED BY <1>5, <1>6, <1>7

\* After any sequence of cpupri_set calls the two directions of the map agree
\* and the counts are exact: atomic_dec never takes a count below zero, and
\* the levels cpupri_find skips for a zero count are those without a CPU.
THEOREM MapsAlwaysAgree == SetCalls => [](PriOK /\ MapsAgree)
<1>1. pri = Unset => PriOK /\ MapsAgree
    BY InitMapsAgree
<1>2. ASSUME PriOK, MapsAgree,
             [\E cpu \in CPU, prio \in Prio : pri' = CpupriSet(pri, cpu, prio)]_pri
      PROVE  PriOK' /\ MapsAgree'
    <2>1. ASSUME NEW cpu \in CPU, NEW prio \in Prio,
                 pri' = CpupriSet(pri, cpu, prio),
                 ConvertPrio(prio) # pri.level[cpu]
          PROVE  PriOK' /\ MapsAgree'
        <3>1. /\ pri'.mask \in [Level -> SUBSET CPU]
              /\ pri'.level \in [CPU -> Level \cup {Invalid}]
              /\ \A l \in Level : pri'.mask[l] = {c \in CPU : pri'.level[c] = l}
            BY <1>2, <2>1, SetKeepsMasks
        <3>2. \A l \in Level : pri'.count[l] \in Nat
                                 /\ pri'.count[l] = Cardinality(pri'.mask[l])
            BY <1>2, <2>1, SetKeepsCounts
        <3>3. /\ pri'.count = [l \in Level |-> pri'.count[l]]
              /\ pri' = [mask |-> pri'.mask, count |-> pri'.count,
                         level |-> pri'.level]
            BY <2>1 DEF CpupriSet
        <3>4. pri'.count \in [Level -> Nat]
            BY <3>2, <3>3
        <3> QED BY <3>1, <3>2, <3>3, <3>4 DEF PriOK, MapsAgree
    <2>2. ASSUME NEW cpu \in CPU, NEW prio \in Prio,
                 pri' = CpupriSet(pri, cpu, prio),
                 ConvertPrio(prio) = pri.level[cpu]
          PROVE  pri' = pri
        BY <2>2 DEF CpupriSet
    <2>3. CASE pri' = pri
        BY <1>2, <2>3 DEF PriOK, MapsAgree
    <2> QED BY <1>2, <2>1, <2>2, <2>3
<1> QED BY <1>1, <1>2, PTL DEF SetCalls

\* When the maps agree, cpupri_find returns exactly the allowed CPUs of the
\* lowest level that has one below the task's priority.
LEMMA AgreementGivesLowest == PriOK /\ MapsAgree => FindIsLowest
<1> SUFFICES ASSUME PriOK, MapsAgree, NEW prio \in Prio, NEW cpus \in SUBSET CPU
             PROVE  LET below == {c \in cpus : pri.level[c] # Invalid
                                                 /\ pri.level[c] < ConvertPrio(prio)}
                    IN  CpupriFind(pri, prio, cpus)
                          = {c \in below : \A d \in below : pri.level[c] <= pri.level[d]}
    BY DEF FindIsLowest
<1> DEFINE t == ConvertPrio(prio)
           found == Candidates(pri, prio, cpus)
           below == {c \in cpus : pri.level[c] # Invalid /\ pri.level[c] < t}
<1>1. t \in Int /\ Level \subseteq Nat
    BY ConvertPrioRange, CpupriAssumption, SMT DEF Level, Invalid
<1>2. \A c \in cpus : c \in CPU /\ pri.level[c] \in Level \cup {Invalid}
    BY DEF PriOK
<1>3. \A l \in Level : pri.mask[l] = {c \in CPU : pri.level[c] = l}
    BY DEF MapsAgree
<1>4. ASSUME NEW l \in Level, cpus \cap pri.mask[l] # {} PROVE pri.count[l] # 0
    <2>1. IsFiniteSet(pri.mask[l]) /\ pri.mask[l] # {}
        BY <1>4, CpupriAssumption, FS_Subset DEF PriOK
    <2>2. Cardinality(pri.mask[l]) # 0
        BY <2>1, FS_EmptySet
    <2> QED BY <2>2 DEF MapsAgree
<1>5. found = {l \in Level : l < t /\ cpus \cap pri.mask[l] # {}}
    BY <1>4 DEF Candidates
<1>6. \A c \in below : pri.level[c] \in found /\ c \in cpus \cap pri.mask[pri.level[c]]
    BY <1>2, <1>3, <1>5, SMT DEF Invalid
<1>7. \A l \in found : \A c \in cpus \cap pri.mask[l] :
          c \in below /\ pri.level[c] = l
    <2> SUFFICES ASSUME NEW l \in found, NEW c \in cpus \cap pri.mask[l]
                 PROVE  c \in below /\ pri.level[c] = l
        OBVIOUS
    <2>1. l \in Level /\ l < t
        BY <1>5
    <2>2. pri.level[c] = l
        BY <1>3, <2>1
    <2>3. l # Invalid
        BY <1>1, <2>1, SMT DEF Invalid
    <2> QED BY <2>1, <2>2, <2>3
<1>8. CpupriFind(pri, prio, cpus)
        = IF found = {} THEN {}
          ELSE cpus \cap pri.mask[CHOOSE l \in found : \A k \in found : l <= k]
    BY DEF CpupriFind
<1> HIDE DEF found, t
<1>9. CASE found = {}
    BY <1>6, <1>8, <1>9 DEF t
<1>10. CASE found # {}
    <2>1. found \subseteq Nat
        BY <1>1, <1>5
    <2>2. \E l \in found : \A k \in found : l <= k
        BY <2>1, <1>10, LeastNatural
    <2> DEFINE low == CHOOSE l \in found : \A k \in found : l <= k
    <2>3. low \in found /\ \A k \in found : low <= k
        BY <2>2
    <2>4. CpupriFind(pri, prio, cpus) = cpus \cap pri.mask[low]
        BY <1>8, <1>10
    <2> HIDE DEF low
    <2>5. PICK w : w \in cpus \cap pri.mask[low]
        BY <2>3, <1>5
    <2>6. ASSUME NEW c \in cpus \cap pri.mask[low]
          PROVE  c \in below /\ \A d \in below : pri.level[c] <= pri.level[d]
        BY <1>6, <1>7, <2>3, SMT
    <2>7. ASSUME NEW c \in below, \A d \in below : pri.level[c] <= pri.level[d]
          PROVE  c \in cpus \cap pri.mask[low]
        <3>1. w \in below /\ pri.level[w] = low
            BY <1>7, <2>3, <2>5
        <3>2. pri.level[c] \in found /\ c \in cpus \cap pri.mask[pri.level[c]]
            BY <1>6
        <3>3. pri.level[c] <= low /\ low <= pri.level[c] /\ low \in Nat /\ pri.level[c] \in Nat
            BY <3>1, <3>2, <2>1, <2>3, <2>7
        <3>4. pri.level[c] = low
            BY <3>3, SMT
        <3> QED BY <3>2, <3>4
    <2>8. cpus \cap pri.mask[low]
            = {c \in below : \A d \in below : pri.level[c] <= pri.level[d]}
        BY <2>6, <2>7
    <2> QED BY <2>4, <2>8 DEF t
<1> QED BY <1>9, <1>10

\* cpupri_find always finds the best (lowest-pri) CPUs in the system.
THEOREM FindAlwaysLowest == SetCalls => []FindIsLowest
BY MapsAlwaysAgree, AgreementGivesLowest, PTL
=============================================================================
