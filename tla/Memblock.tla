------------------------------ MODULE Memblock ------------------------------
(***************************************************************************)
(* The boot memory allocator of mm/memblock.c: two sorted arrays of        *)
(* regions, memory and reserved, edited in place by splitting, inserting   *)
(* and merging, and searched for free ranges from the top down.            *)
(*                                                                         *)
(* An array that holds nothing has one dummy entry of size 0, as in the    *)
(* code.  memblock_allow_resize has no caller, so memblock_double_array    *)
(* always fails and the capacities are hard limits.                        *)
(***************************************************************************)
EXTENDS Integers, Sequences, FiniteSets, SequencesExt

CONSTANTS
    MaxPhys,      \* PHYS_ADDR_MAX
    PageSize,     \* PAGE_SIZE
    MaxRegions,   \* INIT_MEMBLOCK_REGIONS
    MaxReserved,  \* INIT_MEMBLOCK_RESERVED_REGIONS
    SlabAvailable, \* slab_is_available()
    Node,         \* NUMA nodes
    MAX_NUMNODES, \* node of a region that has none
    NUMA_NO_NODE, \* node selector: any node
    Sizes,        \* sizes callers ask for
    AllocSizes,   \* sizes callers allocate
    Aligns,       \* alignments callers ask for, powers of two
    Windows,      \* <<min_addr, max_addr>> pairs callers allocate from
    Limits,       \* values callers give memblock_set_current_limit
    Marks         \* flags callers set and clear

Addr == 0..MaxPhys
Flag == {"HOTPLUG", "MIRROR", "NOMAP"}

ASSUME MemblockAssumption ==
    /\ MaxPhys \in Nat \ {0} /\ PageSize \in 1..MaxPhys
    /\ MaxRegions \in Nat \ {0} /\ MaxReserved \in Nat \ {0}
    /\ SlabAvailable \in BOOLEAN
    /\ MAX_NUMNODES \notin Node /\ NUMA_NO_NODE \notin Node \cup {MAX_NUMNODES}
    /\ Sizes \cup AllocSizes \subseteq Addr \ {0} /\ Aligns \subseteq Addr \ {0}
    /\ Windows \subseteq Addr \X Addr /\ Limits \subseteq Addr
    /\ Marks \subseteq Flag

VARIABLES
    memory,       \* memblock.memory: [regs, total, max], total being total_size
    reserved,     \* memblock.reserved
    mirror,       \* system_has_some_mirror
    limit         \* memblock.current_limit

mvars == <<memory, reserved, mirror, limit>>

Region == [base : Addr, size : Addr, flags : SUBSET Flag,
           nid : Node \cup {MAX_NUMNODES}]

Dummy == [base |-> 0, size |-> 0, flags |-> {}, nid |-> MAX_NUMNODES]

Empty(max) == [regs |-> <<Dummy>>, total |-> 0, max |-> max]

\* phys_addr_t is unsigned.
Wrap(x) == x % (MaxPhys + 1)

Smaller(x, y) == IF x < y THEN x ELSE y
Larger(x, y) == IF x < y THEN y ELSE x
RoundDown(x, a) == x - (x % a)
RoundUp(x, a) == Wrap(RoundDown(x + a - 1, a))

End(r) == r.base + r.size

\* memblock_cap_size: the size that does not run past PHYS_ADDR_MAX.
CapSize(base, size) == Smaller(size, MaxPhys - base)

SumSizes(regs) == FoldLeft(LAMBDA n, r : n + r.size, 0, regs)

-----------------------------------------------------------------------------
(* Editing one array.                                                      *)

\* memblock_merge_regions
Mergeable(r, q) == End(r) = q.base /\ r.nid = q.nid /\ r.flags = q.flags

\* Mutant: nothing is merged.
MergeNothing(done, q) == Append(done, q)

MergeNext(done, q) ==
    IF done # <<>> /\ Mergeable(Last(done), q)
    THEN [done EXCEPT ![Len(done)].size = @ + q.size]
    ELSE Append(done, q)

MergeRegions(regs) == FoldLeft(MergeNext, <<>>, regs)

\* memblock_insert_region
InsertRegion(m, i, r) ==
    [m EXCEPT !.regs = InsertAt(@, i, r), !.total = Wrap(@ + r.size)]

\* Mutant: total_size is not decreased.
RemoveRegionOnly(m, i) ==
    LET regs == RemoveAt(m.regs, i)
    IN  [m EXCEPT !.regs = IF regs = <<>> THEN <<Dummy>> ELSE regs]

\* memblock_remove_region
RemoveRegion(m, i) ==
    LET regs == RemoveAt(m.regs, i)
    IN  [m EXCEPT !.regs = IF regs = <<>> THEN <<Dummy>> ELSE regs,
                  !.total = Wrap(@ - m.regs[i].size)]

\* The regions with indices in S, removed one by one from the top down.
RemoveRegions(m, S) ==
    FoldRight(LAMBDA i, w : RemoveRegion(w, i), SetToSortSeq(S, <), m)

\* One round of memblock_add_range's loop: w.base is the address up to which
\* the new area is dealt with, w.idx the place of r in the array w.m.
AddStep(w, r, end, nid, flags) ==
    LET gap == [base |-> w.base, size |-> r.base - w.base, nid |-> nid,
                flags |-> flags]
    IN  IF End(r) <= w.base THEN [w EXCEPT !.idx = @ + 1]
        ELSE IF r.base > w.base
        THEN [base |-> Smaller(End(r), end), idx |-> w.idx + 2,
              m |-> InsertRegion(w.m, w.idx, gap)]
        ELSE [w EXCEPT !.base = Smaller(End(r), end), !.idx = @ + 1]

\* The array with the uncovered parts of [base, end) inserted, before merging.
Inserted(m, base, end, nid, flags) ==
    LET k == SelectInSeq(m.regs, LAMBDA r : r.base >= end)
        n == IF k = 0 THEN Len(m.regs) ELSE k - 1
        w == FoldLeft(LAMBDA v, r : AddStep(v, r, end, nid, flags),
                      [base |-> base, idx |-> 1, m |-> m],
                      SubSeq(m.regs, 1, n))
    IN  IF w.base < end
        THEN InsertRegion(w.m, w.idx, [base |-> w.base, size |-> end - w.base,
                                       nid |-> nid, flags |-> flags])
        ELSE w.m

\* memblock_add_range: [ok, m], ok being FALSE for -ENOMEM.
AddRange(m, base, size, nid, flags) ==
    LET cap == CapSize(base, size)
        new == Inserted(m, base, base + cap, nid, flags)
        first == [base |-> base, size |-> cap, nid |-> nid, flags |-> flags]
    IN  IF cap = 0 THEN [ok |-> TRUE, m |-> m]
        ELSE IF m.regs[1].size = 0
        THEN [ok |-> TRUE, m |-> [m EXCEPT !.regs = <<first>>, !.total = cap]]
        ELSE IF Len(new.regs) = Len(m.regs) THEN [ok |-> TRUE, m |-> m]
        ELSE IF Len(new.regs) > m.max THEN [ok |-> FALSE, m |-> m]
        ELSE [ok |-> TRUE, m |-> [new EXCEPT !.regs = MergeRegions(@)]]

\* Region i is cut at address a: it keeps its top, and its bottom is inserted.
Split(m, i, a) ==
    LET r == m.regs[i]
        cut == a - r.base
    IN  InsertRegion([m EXCEPT !.regs[i] = [r EXCEPT !.base = a, !.size = @ - cut],
                               !.total = Wrap(@ - cut)],
                     i, [r EXCEPT !.size = cut])

\* The one region that crosses a, if any, is cut there.
CutAt(m, a) ==
    LET i == SelectInSeq(m.regs, LAMBDA r : r.base < a /\ a < End(r))
    IN  IF i = 0 THEN m ELSE Split(m, i, a)

\* memblock_isolate_range: the region that crosses base is cut there, then the
\* one, perhaps its top, that crosses end.
IsolateFails(m, base, size) ==
    CapSize(base, size) # 0 /\ Len(m.regs) + 2 > m.max

Isolate(m, base, size) ==
    LET cap == CapSize(base, size)
    IN  IF cap = 0 THEN m ELSE CutAt(CutAt(m, base), base + cap)

\* Mutant: the region after the range is included.
InsideAndNext(r, base, size) ==
    r.base >= base /\ r.base <= base + CapSize(base, size)

\* Regions start_rgn..end_rgn - 1 of an isolated array.
Inside(r, base, size) ==
    /\ r.base >= base /\ End(r) <= base + CapSize(base, size)
    /\ End(r) > base /\ r.base < base + CapSize(base, size)

\* start_rgn..end_rgn - 1
InsideIndices(m, base, size) ==
    {i \in 1..Len(m.regs) : Inside(m.regs[i], base, size)}

\* memblock_remove_range
RemoveRange(m, base, size) ==
    LET w == Isolate(m, base, size)
    IN  IF IsolateFails(m, base, size) THEN m
        ELSE RemoveRegions(w, InsideIndices(w, base, size))

\* memblock_setclr_flag
SetClrFlag(m, base, size, set, flag) ==
    LET marked(r) == [r EXCEPT !.flags = IF set THEN @ \cup {flag} ELSE @ \ {flag}]
        w == Isolate(m, base, size)
    IN  IF IsolateFails(m, base, size) THEN m
        ELSE [w EXCEPT !.regs = MergeRegions([i \in 1..Len(@) |->
                 IF Inside(@[i], base, size) THEN marked(@[i]) ELSE @[i]])]

\* memblock_set_node
SetNode(m, base, size, nid) ==
    LET w == Isolate(m, base, size)
    IN  IF IsolateFails(m, base, size) THEN m
        ELSE [w EXCEPT !.regs = MergeRegions([i \in 1..Len(@) |->
                 IF Inside(@[i], base, size) THEN [@[i] EXCEPT !.nid = nid]
                 ELSE @[i]])]

-----------------------------------------------------------------------------
(* Searching.                                                              *)

\* should_skip_region
SkipRegion(r, nid, flags) ==
    \/ nid # NUMA_NO_NODE /\ nid # r.nid
    \/ "MIRROR" \in flags /\ "MIRROR" \notin r.flags
    \/ "NOMAP" \notin flags /\ "NOMAP" \in r.flags

\* Mutant: a hole ends where the reserved region after it ends.
HolePastRegion(b) ==
    IF b < Len(reserved.regs) THEN End(reserved.regs[b + 1]) ELSE MaxPhys

\* The area before reserved region b (counted from 0), as in the comment of
\* __next_mem_range.
HoleStart(b) == IF b = 0 THEN 0 ELSE End(reserved.regs[b])
HoleEnd(b) == IF b < Len(reserved.regs) THEN reserved.regs[b + 1].base
              ELSE MaxPhys

\* for_each_free_mem_range: the ranges __next_mem_range returns, in order.
\* The two indices advance in lockstep, a over memory and b over the holes.
FreeRanges(nid, flags) ==
    LET NA == Len(memory.regs)
        NB == Len(reserved.regs)
        at[n \in 0..(NA + NB + 1)] ==
            IF n = 0 THEN [a |-> 1, b |-> 0, out |-> <<>>]
            ELSE LET w == at[n-1]
                     m == memory.regs[w.a]
                     lo == Larger(m.base, HoleStart(w.b))
                     hi == Smaller(End(m), HoleEnd(w.b))
                 IN  IF w.a > NA THEN w
                     ELSE IF SkipRegion(m, nid, flags) \/ w.b > NB
                     THEN [w EXCEPT !.a = @ + 1]
                     ELSE IF HoleStart(w.b) >= End(m)
                     THEN [w EXCEPT !.a = @ + 1]
                     ELSE IF m.base >= HoleEnd(w.b)
                     THEN [w EXCEPT !.b = @ + 1]
                     ELSE IF End(m) <= HoleEnd(w.b)
                     THEN [w EXCEPT !.a = @ + 1, !.out = Append(@, <<lo, hi>>)]
                     ELSE [w EXCEPT !.b = @ + 1, !.out = Append(@, <<lo, hi>>)]
    IN  at[NA + NB + 1].out

\* for_each_free_mem_range_reverse: __next_mem_range_rev, from the top down.
FreeRangesReverse(nid, flags) ==
    LET NA == Len(memory.regs)
        NB == Len(reserved.regs)
        at[n \in 0..(NA + NB + 1)] ==
            IF n = 0 THEN [a |-> NA, b |-> NB, out |-> <<>>]
            ELSE LET w == at[n-1]
                     m == memory.regs[w.a]
                     lo == Larger(m.base, HoleStart(w.b))
                     hi == Smaller(End(m), HoleEnd(w.b))
                 IN  IF w.a = 0 THEN w
                     ELSE IF SkipRegion(m, nid, flags) \/ w.b < 0
                     THEN [w EXCEPT !.a = @ - 1]
                     ELSE IF HoleEnd(w.b) <= m.base
                     THEN [w EXCEPT !.a = @ - 1]
                     ELSE IF End(m) <= HoleStart(w.b)
                     THEN [w EXCEPT !.b = @ - 1]
                     ELSE IF m.base >= HoleStart(w.b)
                     THEN [w EXCEPT !.a = @ - 1, !.out = Append(@, <<lo, hi>>)]
                     ELSE [w EXCEPT !.b = @ - 1, !.out = Append(@, <<lo, hi>>)]
    IN  at[NA + NB + 1].out

\* Mutant: the aligned candidate may lie below the range.
CandidateBelow(r, start, end, size, align) ==
    LET hi == Smaller(Larger(r[2], start), end)
    IN  IF hi < size THEN 0 ELSE RoundDown(hi - size, align)

\* __memblock_find_range_top_down: highest fit of the ranges, 0 for failure.
Candidate(r, start, end, size, align) ==
    LET lo == Smaller(Larger(r[1], start), end)
        hi == Smaller(Larger(r[2], start), end)
        cand == RoundDown(hi - size, align)
    IN  IF hi < size \/ cand < lo THEN 0 ELSE cand

FindTopDown(start, end, size, align, nid, flags) ==
    LET R == FreeRangesReverse(nid, flags)
        C == [i \in 1..Len(R) |-> Candidate(R[i], start, end, size, align)]
        k == SelectInSeq(C, LAMBDA c : c # 0)
    IN  IF k = 0 THEN 0 ELSE C[k]

\* memblock_find_in_range_node.  kernel_end = end, so the bottom-up search is
\* never tried.  0 and 1 stand for MEMBLOCK_ALLOC_ACCESSIBLE and _KASAN.
FindInRangeNode(size, align, start, end, nid, flags) ==
    LET lo == Larger(start, PageSize)
        hi == IF end \in {0, 1} THEN limit ELSE end
    IN  FindTopDown(lo, Larger(lo, hi), size, align, nid, flags)

\* choose_memblock_flags
ChosenFlags == IF mirror THEN {"MIRROR"} ELSE {}

Reserve(base, size) == AddRange(reserved, base, size, MAX_NUMNODES, {})

\* memblock_alloc_range_nid: the node asked for, then any node, first with
\* mirrored memory and then without; each address found must be reserved.
\* The result is [addr, m], addr being 0 for failure.
AllocRangeNid(size, align, start, end, nid) ==
    LET nids == IF nid = NUMA_NO_NODE THEN <<nid>> ELSE <<nid, NUMA_NO_NODE>>
        tries == [i \in 1..Len(nids) |-> <<nids[i], ChosenFlags>>]
                   \o (IF mirror THEN [i \in 1..Len(nids) |-> <<nids[i], {}>>]
                       ELSE <<>>)
        found == [i \in 1..Len(tries) |->
                     FindInRangeNode(size, align, start, end, tries[i][1],
                                     tries[i][2])]
        k == SelectInSeq(found, LAMBDA a : a # 0 /\ Reserve(a, size).ok)
    IN  IF k = 0 THEN [addr |-> 0, m |-> reserved]
        ELSE [addr |-> found[k], m |-> Reserve(found[k], size).m]

\* memblock_alloc_internal: kzalloc_node serves the request once there is a
\* slab allocator; before, max_addr is limited to current_limit, and min_addr is
\* dropped when it cannot be met.
AllocInternal(size, align, min_addr, max_addr, nid) ==
    LET max == Smaller(max_addr, limit)
        r == AllocRangeNid(size, align, min_addr, max, nid)
    IN  IF SlabAvailable THEN [addr |-> 0, m |-> reserved]
        ELSE IF r.addr = 0 /\ min_addr # 0
        THEN AllocRangeNid(size, align, 0, max, nid) ELSE r

\* Mutant: the upper half excludes the middle twice.
SearchSkips(m, addr) ==
    LET at[n \in 0..(Len(m.regs) + 1)] ==
            IF n = 0 THEN [left |-> 0, right |-> Len(m.regs), hit |-> -1]
            ELSE LET w == at[n-1]
                     mid == (w.right + w.left) \div 2
                     r == m.regs[mid + 1]
                 IN  IF w.hit # -1 \/ w.left >= w.right THEN w
                     ELSE IF addr < r.base THEN [w EXCEPT !.right = mid - 1]
                     ELSE IF addr >= End(r) THEN [w EXCEPT !.left = mid + 1]
                     ELSE [w EXCEPT !.hit = mid]
    IN  at[Len(m.regs) + 1].hit

\* memblock_search: the index (from 0) of the region that holds addr, or -1.
Search(m, addr) ==
    LET at[n \in 0..(Len(m.regs) + 1)] ==
            IF n = 0 THEN [left |-> 0, right |-> Len(m.regs), hit |-> -1]
            ELSE LET w == at[n-1]
                     mid == (w.right + w.left) \div 2
                     r == m.regs[mid + 1]
                 IN  IF w.hit # -1 \/ w.left >= w.right THEN w
                     ELSE IF addr < r.base THEN [w EXCEPT !.right = mid]
                     ELSE IF addr >= End(r) THEN [w EXCEPT !.left = mid + 1]
                     ELSE [w EXCEPT !.hit = mid]
    IN  at[Len(m.regs) + 1].hit

-----------------------------------------------------------------------------
(* Operations.                                                             *)

Init ==
    /\ memory = Empty(MaxRegions) /\ reserved = Empty(MaxReserved)
    /\ mirror = FALSE
    /\ limit = MaxPhys

\* memblock_add, memblock_add_node
MemblockAdd(base, size, nid) ==
    /\ memory' = AddRange(memory, base, size, nid, {}).m
    /\ UNCHANGED <<reserved, mirror, limit>>

\* memblock_remove
MemblockRemove(base, size) ==
    /\ memory' = RemoveRange(memory, base, size)
    /\ UNCHANGED <<reserved, mirror, limit>>

\* memblock_reserve
MemblockReserve(base, size) ==
    /\ reserved' = Reserve(base, size).m
    /\ UNCHANGED <<memory, mirror, limit>>

\* memblock_free
MemblockFree(base, size) ==
    /\ reserved' = RemoveRange(reserved, base, size)
    /\ UNCHANGED <<memory, mirror, limit>>

\* memblock_mark_hotplug, memblock_mark_mirror, memblock_mark_nomap
MemblockMark(base, size, flag) ==
    /\ memory' = SetClrFlag(memory, base, size, TRUE, flag)
    /\ mirror' = (mirror \/ flag = "MIRROR")
    /\ UNCHANGED <<reserved, limit>>

\* memblock_clear_hotplug, memblock_clear_nomap
MemblockClear(base, size, flag) ==
    /\ flag # "MIRROR"
    /\ memory' = SetClrFlag(memory, base, size, FALSE, flag)
    /\ UNCHANGED <<reserved, mirror, limit>>

\* memblock_set_node
MemblockSetNode(base, size, nid) ==
    /\ memory' = SetNode(memory, base, size, nid)
    /\ UNCHANGED <<reserved, mirror, limit>>

\* memblock_set_current_limit
MemblockSetCurrentLimit(l) ==
    /\ limit' = l
    /\ UNCHANGED <<memory, reserved, mirror>>

\* memblock_alloc and its variants
MemblockAlloc(size, align, min_addr, max_addr, nid) ==
    /\ reserved' = AllocInternal(size, align, min_addr, max_addr, nid).m
    /\ UNCHANGED <<memory, mirror, limit>>

\* memblock_phys_alloc_range, memblock_phys_alloc_try_nid
MemblockPhysAlloc(size, align, start, end, nid) ==
    /\ nid # NUMA_NO_NODE => start = 0 /\ end = 0
    /\ reserved' = AllocRangeNid(size, align, start, end, nid).m
    /\ UNCHANGED <<memory, mirror, limit>>

Next ==
    \/ \E b \in Addr, s \in Sizes :
          \/ MemblockRemove(b, s) \/ MemblockReserve(b, s) \/ MemblockFree(b, s)
          \/ \E nid \in Node \cup {MAX_NUMNODES} : MemblockAdd(b, s, nid)
          \/ \E f \in Marks : MemblockMark(b, s, f) \/ MemblockClear(b, s, f)
          \/ \E nid \in Node : MemblockSetNode(b, s, nid)
    \/ \E l \in Limits : MemblockSetCurrentLimit(l)
    \/ \E s \in AllocSizes, a \in Aligns, w \in Windows,
          nid \in Node \cup {NUMA_NO_NODE} :
             \/ MemblockAlloc(s, a, w[1], w[2], nid)
             \/ MemblockPhysAlloc(s, a, w[1], w[2], nid)

Spec == Init /\ [][Next]_mvars

-----------------------------------------------------------------------------
(* Properties.                                                             *)

\* The arrays hold between one region and as many as they have room for.
TypeOK ==
    /\ \A m \in {memory, reserved} :
          /\ m.regs \in Seq(Region) /\ Len(m.regs) \in 1..m.max
          /\ m.total \in Addr
    /\ memory.max = MaxRegions /\ reserved.max = MaxReserved
    /\ mirror \in BOOLEAN /\ limit \in Addr

\* What BUG_ON(this->base + this->size > next->base), the binary search and
\* the early breaks rely on: regions are sorted and disjoint, and none is
\* empty unless it is the only one.
SortedOK(m) ==
    /\ \A i, j \in 1..Len(m.regs) :
          i < j => End(m.regs[i]) <= m.regs[j].base
    /\ m.regs # <<Dummy>> => \A i \in 1..Len(m.regs) : m.regs[i].size > 0

\* "all neighbouring compatible regions are merged"
Minimal(m) ==
    \A i \in 1..(Len(m.regs) - 1) : ~Mergeable(m.regs[i], m.regs[i + 1])

\* Whatever was added, removed, marked and allocated before, neither array has
\* outgrown its limit, and both are sorted, disjoint and minimal.
ArraysOK ==
    TypeOK /\ \A m \in {memory, reserved} : SortedOK(m) /\ Minimal(m)

=============================================================================
