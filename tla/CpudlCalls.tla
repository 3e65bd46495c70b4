----------------------------- MODULE CpudlCalls -----------------------------
(***************************************************************************)
(* One cpudl heap under every sequence of cpudl_set and cpudl_clear calls. *)
(***************************************************************************)
EXTENDS Cpudl

VARIABLE heap

CallsInit == heap = Fresh

CpudlSet(cpu, dl) == heap' = Set(heap, cpu, dl)
CpudlClear(cpu) == heap' = Clear(heap, cpu)

CallsNext ==
    \E cpu \in CPU : CpudlClear(cpu) \/ \E dl \in Deadlines : CpudlSet(cpu, dl)

CallsSpec == CallsInit /\ [][CallsNext]_heap

-----------------------------------------------------------------------------
(* Properties.                                                             *)

\* Whatever sequence of updates has been made, the size never exceeds the
\* array, which has one slot per CPU, back pointers and slots agree
\* and the largest deadline is on top: what cpudl_maximum and every later
\* cpudl_set and cpudl_clear rely on.
HeapOK == heap \in HeapType /\ WellFormed(heap)

\* An update of one CPU sifts the entries of others through the array but
\* changes nothing that is recorded of them, and a CPU that leaves the heap
\* is marked free while one that enters it is not.
OthersKeepDeadline ==
    [][\E cpu \in CPU :
          /\ \A c \in CPU \ {cpu} : /\ Entry(heap', c) = Entry(heap, c)
                                    /\ c \in heap'.free <=> c \in heap.free
          /\ Entry(heap', cpu) # Entry(heap, cpu)
               /\ (Entry(heap', cpu) = NoDeadline \/ Entry(heap, cpu) = NoDeadline)
               => (cpu \in heap'.free <=> Entry(heap', cpu) = NoDeadline)]_heap

\* While some CPU is in the heap, cpudl_find falls back to a CPU with the
\* latest deadline of all, and takes it only if the task is before it.
FindIsLatest ==
    heap.size > 0 =>
        \A dl \in Deadlines, cpus \in SUBSET CPU :
            heap.free \cap cpus = {} =>
                \A best \in Find(heap, dl, cpus) :
                    /\ heap.idx[best] # IdxInvalid
                    /\ Before(dl, Entry(heap, best))
                    /\ \A c \in CPU : heap.idx[c] # IdxInvalid =>
                           ~Before(Entry(heap, best), Entry(heap, c))
=============================================================================
