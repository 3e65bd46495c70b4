---------------------------- MODULE MemblockLaws ----------------------------
(***************************************************************************)
(* What mm/memblock.c promises: its arrays implement the address map of    *)
(* MemoryMap, and its searches agree with definitions over single          *)
(* addresses.  Then the operations that cut memory down, which the program *)
(* exports and never calls.                                                *)
(***************************************************************************)
EXTENDS Memblock

Holds(r, a) == r.base <= a /\ a < End(r)

\* The addresses of an array, each with its attributes.
Cells(m) ==
    UNION {{[at |-> a, flags |-> m.regs[i].flags, nid |-> m.regs[i].nid] :
               a \in m.regs[i].base..(End(m.regs[i]) - 1)} : i \in 1..Len(m.regs)}

Covered(m) == {x.at : x \in Cells(m)}

Map == INSTANCE MemoryMap WITH
           Top <- MaxPhys, Length <- Sizes \cup AllocSizes, Mark <- Marks,
           Nid <- Node \cup {MAX_NUMNODES},
           mem <- Cells(memory), rsv <- Covered(reserved)

\* Every operation on the arrays, with its cuts, insertions and merges, is one
\* operation on the address map or changes nothing: adding does not affect
\* existing regions, a removal or a mark affects the range asked for and no
\* address outside it, and -ENOMEM leaves no half-done change.
ImplementsMap == Map!MapSpec

\* The reserved array carries neither flags nor nodes.
Usable(nid, flags) ==
    {x.at : x \in {y \in Cells(memory) : ~SkipRegion(y, nid, flags)}}
      \ Covered(reserved)

Selectors == (Node \cup {NUMA_NO_NODE}) \X {{}, {"MIRROR"}, {"NOMAP"}}

\* memblock_search finds the region that holds an address whenever there is
\* one, and -1 otherwise, also in an array that holds only the dummy entry.
SearchFindsHolder ==
    \A m \in {memory, reserved}, a \in Addr :
        LET i == Search(m, a)
        IN  IF \E j \in 1..Len(m.regs) : Holds(m.regs[j], a)
            THEN i \in 0..(Len(m.regs) - 1) /\ Holds(m.regs[i + 1], a)
            ELSE i = -1

\* The lockstep iterators return exactly the usable addresses, each in one
\* range, ranges that meet only where memory regions meet, and the reverse
\* iterator returns the same ranges as the forward one in opposite order.  The
\* binary search agrees with the linear walk (SearchFindsHolder).
IteratorsAgree ==
  /\ SearchFindsHolder
  /\ \A q \in Selectors :
        LET R == FreeRanges(q[1], q[2])
        IN  /\ FreeRangesReverse(q[1], q[2]) = Reverse(R)
            /\ \A i \in 1..Len(R) : R[i][1] < R[i][2]
            /\ \A i \in 1..(Len(R) - 1) :
                  /\ R[i][2] <= R[i + 1][1]
                  /\ R[i][2] = R[i + 1][1] =>
                       \E j \in 1..Len(memory.regs) :
                          memory.regs[j].base = R[i][2]
            /\ UNION {R[i][1]..(R[i][2] - 1) : i \in 1..Len(R)}
                 = Usable(q[1], q[2])

\* Addresses a caller could be given: aligned, below hi, off the first page,
\* and in one memory region.
Fits(size, align, hi, nid, flags) ==
    LET U == Usable(nid, flags)
    IN  {c \in PageSize..(hi - size) :
            /\ c % align = 0
            /\ c..(c + size - 1) \subseteq U
            /\ \E i \in 1..Len(memory.regs) :
                  /\ Holds(memory.regs[i], c)
                  /\ Holds(memory.regs[i], c + size - 1)}

\* What the caller would accept, best first: from min_addr up before any
\* address, mirrored memory before any, the node asked for before any.
Wishes(size, align, min_addr, hi, nid) ==
    LET fits == [i \in 1..4 |-> Fits(size, align, hi,
                                     IF i % 2 = 1 THEN nid ELSE NUMA_NO_NODE,
                                     IF i <= 2 THEN ChosenFlags ELSE {})]
    IN  [i \in 1..4 |-> {c \in fits[i] : c >= min_addr}] \o fits

BestOf(wishes) ==
    LET k == SelectInSeq(wishes, LAMBDA S : S # {})
    IN  IF k = 0 THEN 0 ELSE Max(wishes[k])

\* The answer r to a request for size addresses: a block that is not reserved
\* yet needs a free entry, also where it would be merged with a neighbour.
AnswersWith(r, wishes, size) ==
    LET room == reserved.regs = <<Dummy>> \/ Len(reserved.regs) < MaxReserved
    IN  /\ r.addr = IF room THEN BestOf(wishes) ELSE 0
        /\ Covered(r.m) = Covered(reserved) \cup
              (IF r.addr = 0 THEN {} ELSE r.addr..(r.addr + size - 1))

\* Before there is a slab allocator, memblock_alloc gives the highest address
\* that fits, on the node asked for before any other node, mirrored before not,
\* and reserves exactly that block.  It fails when nothing fits, and when the
\* reserved array is full: then every address it finds cannot be reserved, each
\* retry fails like the first try, and reserved is left as it was.
AllocIsHighestFit ==
    \A s \in AllocSizes, al \in Aligns, w \in Windows, n \in Node \cup {NUMA_NO_NODE} :
        LET max == Smaller(w[2], limit)
            hi == IF max \in {0, 1} THEN limit ELSE max
        IN  AnswersWith(AllocInternal(s, al, w[1], w[2], n),
                        Wishes(s, al, w[1], hi, n), s)

-----------------------------------------------------------------------------
(* Cutting memory down.                                                    *)

\* Mutant: the region in which the limit falls is kept whole.
FindMaxRegionEnd(lim) ==
    LET below(i) == SumSizes(SubSeq(memory.regs, 1, i - 1))
        S == {i \in 1..Len(memory.regs) : lim <= below(i + 1)}
    IN  IF S = {} THEN MaxPhys ELSE End(memory.regs[Min(S)])

\* __find_max_addr: the address below which there is lim memory, or MaxPhys.
FindMaxAddr(lim) ==
    LET below(i) == SumSizes(SubSeq(memory.regs, 1, i - 1))
        S == {i \in 1..Len(memory.regs) : lim <= below(i + 1)}
    IN  IF S = {} THEN MaxPhys
        ELSE memory.regs[Min(S)].base + lim - below(Min(S))

\* memblock_enforce_memory_limit
EnforceMemoryLimit(lim) ==
    /\ lim # 0 /\ FindMaxAddr(lim) # MaxPhys
    /\ memory' = RemoveRange(memory, FindMaxAddr(lim), MaxPhys)
    /\ reserved' = RemoveRange(reserved, FindMaxAddr(lim), MaxPhys)
    /\ UNCHANGED <<mirror, limit>>

\* memblock_cap_memory_range: everything outside goes, except NOMAP regions.
CapMemoryRange(base, size) ==
    /\ size # 0 /\ ~IsolateFails(memory, base, size)
    /\ LET w == Isolate(memory, base, size)
       IN  memory' = RemoveRegions(w,
                        {i \in 1..Len(w.regs) : "NOMAP" \notin w.regs[i].flags}
                           \ InsideIndices(w, base, size))
    /\ reserved' = RemoveRange(RemoveRange(reserved, 0, base),
                               (base + size) % (MaxPhys + 1), MaxPhys)
    /\ UNCHANGED <<mirror, limit>>

\* memblock_mem_limit_remove_map
MemLimitRemoveMap(lim) ==
    /\ lim # 0 /\ FindMaxAddr(lim) # MaxPhys
    /\ CapMemoryRange(0, FindMaxAddr(lim))

\* One round of memblock_trim_memory: w.i is the place of r in the array w.m.
TrimStep(w, r, align) ==
    LET start == RoundUp(r.base, align)
        end == RoundDown(End(r), align)
    IN  IF start = r.base /\ end = End(r) THEN [w EXCEPT !.i = @ + 1]
        ELSE IF start < end
        THEN [m |-> [w.m EXCEPT !.regs[w.i] =
                        [r EXCEPT !.base = start, !.size = end - start]],
              i |-> w.i + 1]
        ELSE [w EXCEPT !.m = RemoveRegion(@, w.i)]

\* memblock_trim_memory
TrimMemory(align) ==
    /\ memory' = FoldLeft(LAMBDA w, r : TrimStep(w, r, align),
                          [m |-> memory, i |-> 1], memory.regs).m
    /\ UNCHANGED <<reserved, mirror, limit>>

CutNext ==
    \/ Next
    \/ \E l \in Addr : EnforceMemoryLimit(l) \/ MemLimitRemoveMap(l)
    \/ \E b \in Addr, s \in Sizes : CapMemoryRange(b, s)
    \/ \E a \in Aligns : TrimMemory(a)

CutSpec == Init /\ [][CutNext]_mvars

\* By how much total_size is wrong.
Drift(m) == Wrap(m.total - SumSizes(m.regs))

\* Addresses cut off regions of m of which something is left in n.
Shaved(m, n) ==
    {a \in Covered(m) \ Covered(n) :
        \E i \in 1..Len(m.regs), b \in Covered(n) :
            Holds(m.regs[i], a) /\ Holds(m.regs[i], b)}

\* total_size is what the regions add up to, through every split, insertion,
\* merge and removal, also when one of them fails half way: it is always right
\* for reserved, as WARN_ON(type->total_size != 0) says.  For memory only
\* memblock_trim_memory sets it wrong, by what it cuts off regions that stay
\* (those it removes are subtracted); no other operation makes that better or
\* worse, until the first region added to the empty array sets it anew.
TotalsOK ==
    [][/\ Drift(reserved') = 0
       /\ \/ Drift(memory') = Drift(memory)
          \/ memory.regs = <<Dummy>> /\ Drift(memory') = 0
          \/ /\ \E a \in Aligns : TrimMemory(a)
             /\ Drift(memory') = Wrap(Drift(memory)
                                       + Cardinality(Shaved(memory, memory')))]_mvars

\* A memory limit leaves exactly the lowest lim addresses of memory, and no
\* reservation above them, unless an array has no room to be cut.
LimitKeepsLowest ==
    \A lim \in 1..MaxPhys :
        LET top == FindMaxAddr(lim)
            M == RemoveRange(memory, top, MaxPhys)
            V == RemoveRange(reserved, top, MaxPhys)
        IN  top # MaxPhys =>
               /\ ~IsolateFails(memory, top, MaxPhys) =>
                    /\ Covered(M) \subseteq Covered(memory)
                    /\ Cardinality(Covered(M)) = lim
                    /\ \A a \in Covered(M), b \in Covered(memory) \ Covered(M) :
                          a < b
               /\ ~IsolateFails(reserved, top, MaxPhys) =>
                    Covered(V) = {a \in Covered(reserved) : a < top}

=============================================================================
