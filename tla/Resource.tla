------------------------------ MODULE Resource ------------------------------
(***************************************************************************)
(* The I/O resource tree of kernel/resource.c.                             *)
(*                                                                         *)
(* A descriptor is a struct resource: an inclusive address range, flags, a *)
(* parent pointer and a list of children.  The child / sibling pointers of *)
(* the code are one sequence here, kids, in list order.  The tree is an    *)
(* operator argument T (descriptor -> record) so that the code's compound  *)
(* operations are compositions of the code's helpers.                      *)
(*                                                                         *)
(* Addresses are 0..MaxAddr and wrap like the unsigned resource_size_t.    *)
(***************************************************************************)
EXTENDS Integers, Sequences, FiniteSets, SequencesExt

CONSTANTS
    Root,        \* iomem_resource (or ioport_resource): the tree's root
    Drv,         \* descriptors owned by drivers and firmware code
    Pool,        \* descriptors alloc_resource can hand out (numbers)
    MaxLive,     \* bound on the descriptors of the pool in use between calls
    NULL,        \* the null pointer
    MaxAddr,     \* largest resource_size_t
    RootStart,   \* range of the root
    RootEnd,
    DrvFlags,    \* flags a driver gives its descriptor
    Sizes,       \* sizes drivers ask allocate_resource / adjust_resource for
    Aligns,      \* alignments drivers ask allocate_resource for
    Bounds       \* <<min, max>> pairs drivers ask allocate_resource for

Res == {Root} \cup Drv \cup Pool
Addr == 0..MaxAddr
Flags == {"BUSY", "SYSRAM"}

ASSUME ResourceAssumption ==
    /\ MaxAddr \in Nat
    /\ RootStart \in Addr /\ RootEnd \in Addr /\ RootStart <= RootEnd
    /\ NULL \notin Res
    /\ Root \notin Drv /\ Root \notin Pool /\ Drv \cap Pool = {}
    /\ DrvFlags \in [Drv -> SUBSET Flags]
    /\ Sizes \subseteq Nat \ {0} /\ Aligns \subseteq Nat \ {0}
    /\ Bounds \subseteq Addr \X Addr
    /\ IsFiniteSet(Drv) /\ IsFiniteSet(Pool) /\ Pool \subseteq Nat
    /\ MaxLive \in Nat

VARIABLES
    tree,        \* descriptor -> [start, end, flags, parent, kids]
    live,        \* pool descriptors that are allocated
    stale        \* removed descriptors whose child pointer was left behind

vars == <<tree, live, stale>>

\* Unsigned arithmetic of resource_size_t.
Wrap(x) == x % (MaxAddr + 1)

Descriptor == [start : Addr, end : Addr, flags : SUBSET Flags,
               parent : Res \cup {NULL}, kids : Seq(Res)]

Blank == [start |-> 0, end |-> 0, flags |-> {}, parent |-> NULL, kids |-> <<>>]

-----------------------------------------------------------------------------
(* Helpers of the code, as functions of the tree.                          *)

SetRange(T, res, s, e) == [T EXCEPT ![res].start = s, ![res].end = e]

\* The scan of __request_resource stops at the first child that is neither
\* entirely below [s, e] nor already above it.
ScanStops(T, root, s, e) ==
    {k \in 1..Len(T[root].kids) :
        \/ T[T[root].kids[k]].start > e
        \/ T[T[root].kids[k]].end >= s}

ScanStop(T, root, s, e) ==
    Min(ScanStops(T, root, s, e) \cup {Len(T[root].kids) + 1})

\* Mutant: a child that starts at the last address of new is no conflict.
ConflictMissesLastAddress(T, root, new) ==
    LET s == T[new].start
        e == T[new].end
        k == ScanStop(T, root, s, e)
    IN  IF e < s \/ s < T[root].start \/ e > T[root].end THEN root
        ELSE IF k <= Len(T[root].kids) /\ T[T[root].kids[k]].start < e
             THEN T[root].kids[k]
             ELSE NULL

\* What __request_resource returns: NULL when new can be linked under root,
\* root when the range is malformed or outside root, else the child that
\* overlaps it first.
Conflict(T, root, new) ==
    LET s == T[new].start
        e == T[new].end
        k == ScanStop(T, root, s, e)
    IN  IF e < s \/ s < T[root].start \/ e > T[root].end THEN root
        ELSE IF k <= Len(T[root].kids) /\ T[T[root].kids[k]].start <= e
             THEN T[root].kids[k]
             ELSE NULL

\* __request_resource's linking of new in front of the child the scan
\* stopped at.
Link(T, root, new) ==
    LET k == ScanStop(T, root, T[new].start, T[new].end)
    IN  [T EXCEPT ![root].kids = InsertAt(@, k, new), ![new].parent = root]

DoRequest(T, root, new) ==
    IF Conflict(T, root, new) = NULL THEN Link(T, root, new) ELSE T

\* Position of old in its parent's list.
Slot(T, old) == SelectInSeq(T[T[old].parent].kids, LAMBDA x : x = old)

\* __release_resource: with release_child the whole subtree leaves with old,
\* otherwise old's children take its place.  old's own child pointer stays.
Unlink(T, old) ==
    [T EXCEPT ![T[old].parent].kids = RemoveAt(@, Slot(T, old)),
              ![old].parent = NULL]

\* Mutant: the children that move up keep their parent pointer.
UnlinkWithoutReparenting(T, old) ==
    LET p == T[old].parent
        K == T[p].kids
        k == Slot(T, old)
    IN  [T EXCEPT ![p].kids = SubSeq(K, 1, k - 1) \o T[old].kids
                                  \o SubSeq(K, k + 1, Len(K)),
                  ![old].parent = NULL]

UnlinkKeepingKids(T, old) ==
    LET p == T[old].parent
        K == T[p].kids
        k == Slot(T, old)
        merged == SubSeq(K, 1, k - 1) \o T[old].kids
                      \o SubSeq(K, k + 1, Len(K))
    IN  [r \in Res |->
            IF r = p THEN [T[r] EXCEPT !.kids = merged]
            ELSE IF r = old THEN [T[r] EXCEPT !.parent = NULL]
            ELSE IF r \in ToSet(T[old].kids) THEN [T[r] EXCEPT !.parent = p]
            ELSE T[r]]

DoRelease(T, old, release_child) ==
    IF Slot(T, old) = 0 THEN T
    ELSE IF release_child \/ T[old].kids = <<>> THEN Unlink(T, old)
    ELSE UnlinkKeepingKids(T, old)

\* Everything below r (the recursion of __release_child_resources).
Below(T, r) ==
    LET reach[n \in 0..Cardinality(Res)] ==
            IF n = 0 THEN ToSet(T[r].kids)
            ELSE LET S == reach[n-1]
                 IN  S \cup UNION {ToSet(T[x].kids) : x \in S}
    IN  reach[Cardinality(Res)]

\* __release_child_resources: every descendant is unlinked and its range
\* rebased to 0, keeping its size.
DoReleaseChildren(T, r) ==
    [x \in Res |->
        IF x \in Below(T, r)
        THEN [T[x] EXCEPT !.parent = NULL, !.kids = <<>>, !.start = 0,
                          !.end = Wrap(T[x].end - T[x].start)]
        ELSE IF x = r THEN [T[x] EXCEPT !.kids = <<>>] ELSE T[x]]

-----------------------------------------------------------------------------
(* __insert_resource                                                       *)

StrictlyInside(T, new, r) ==
    /\ T[r].start <= T[new].start /\ T[new].end <= T[r].end
    /\ ~(T[r].start = T[new].start /\ T[r].end = T[new].end)

\* The first loop descends as long as the conflict strictly contains new.
InsertParent(T, parent, new) ==
    LET at[n \in 0..Cardinality(Res)] ==
            IF n = 0 THEN parent
            ELSE LET p == at[n-1]
                     first == Conflict(T, p, new)
                 IN  IF first \notin {NULL, p} /\ StrictlyInside(T, new, first)
                     THEN first ELSE p
    IN  at[Cardinality(Res)]

\* The second loop: the children of p from the conflict on, up to the last
\* that starts inside new.
RunFirst(T, p, new) == ScanStop(T, p, T[new].start, T[new].end)

RunLast(T, p, new) ==
    LET K == T[p].kids
    IN  Min({k \in RunFirst(T, p, new)..Len(K) :
                k = Len(K) \/ T[K[k + 1]].start > T[new].end})

\* Children in that run that new overlaps only partially.
PartialOverlaps(T, p, new) ==
    {k \in RunFirst(T, p, new)..RunLast(T, p, new) :
        \/ T[T[p].kids[k]].start < T[new].start
        \/ T[T[p].kids[k]].end > T[new].end}

\* The run becomes new's list of children and new takes its place.
Adopt(T, p, new) ==
    LET K == T[p].kids
        a == RunFirst(T, p, new)
        b == RunLast(T, p, new)
        run == SubSeq(K, a, b)
    IN  [r \in Res |->
            IF r = p THEN [T[r] EXCEPT !.kids = SubSeq(K, 1, a - 1)
                              \o <<new>> \o SubSeq(K, b + 1, Len(K))]
            ELSE IF r = new THEN [T[r] EXCEPT !.parent = p, !.kids = run]
            ELSE IF r \in ToSet(run) THEN [T[r] EXCEPT !.parent = new]
            ELSE T[r]]

\* What __insert_resource returns, given the parent p its first loop ends at.
InsertConflictAt(T, p, new) ==
    LET first == Conflict(T, p, new)
    IN  IF first \in {NULL, p} THEN first
        ELSE IF PartialOverlaps(T, p, new) = {} THEN NULL
        ELSE T[p].kids[Min(PartialOverlaps(T, p, new))]

DoInsertAt(T, p, new) ==
    IF InsertConflictAt(T, p, new) # NULL THEN T
    ELSE IF Conflict(T, p, new) = NULL THEN Link(T, p, new)
    ELSE Adopt(T, p, new)

InsertConflict(T, parent, new) ==
    InsertConflictAt(T, InsertParent(T, parent, new), new)

DoInsert(T, parent, new) == DoInsertAt(T, InsertParent(T, parent, new), new)

\* Mutant: the range grows only upwards.
ExpandedUpwards(T, root, new) ==
    LET grow[n \in 0..Cardinality(Res)] ==
            IF n = 0 THEN <<T[new].start, T[new].end>>
            ELSE LET r == grow[n-1]
                     c == InsertConflict(SetRange(T, new, r[1], r[2]), root, new)
                 IN  IF c \in {NULL, root} THEN r
                     ELSE <<r[1], IF T[c].end > r[2] THEN T[c].end ELSE r[2]>>
    IN  grow[Cardinality(Res)]

\* The loop of insert_resource_expand_to_fit: the range <<start, end>> new has
\* grown to when no conflict is left, or when it does not fit root.
Expanded(T, root, new) ==
    LET grow[n \in 0..Cardinality(Res)] ==
            IF n = 0 THEN <<T[new].start, T[new].end>>
            ELSE LET r == grow[n-1]
                     c == InsertConflict(SetRange(T, new, r[1], r[2]), root, new)
                 IN  IF c \in {NULL, root} THEN r
                     ELSE <<IF T[c].start < r[1] THEN T[c].start ELSE r[1],
                            IF T[c].end > r[2] THEN T[c].end ELSE r[2]>>
    IN  grow[Cardinality(Res)]

-----------------------------------------------------------------------------
(* __adjust_resource                                                       *)

\* The checks before res takes the range [s, e].
Adjustable(T, res, s, e) ==
    LET p == T[res].parent
        K == T[p].kids
        k == Slot(T, res)
    IN  /\ p # NULL =>
            /\ s >= T[p].start /\ e <= T[p].end
            /\ k < Len(K) => T[K[k + 1]].start > e
            /\ k > 1 => s > T[K[k - 1]].end
        /\ \A i \in 1..Len(T[res].kids) :
              T[T[res].kids[i]].start >= s /\ T[T[res].kids[i]].end <= e

DoAdjust(T, res, s, size) ==
    LET e == Wrap(s + size - 1)
    IN  IF Adjustable(T, res, s, e) THEN SetRange(T, res, s, e) ELSE T

-----------------------------------------------------------------------------
(* __find_resource, reallocate_resource, allocate_resource                 *)

\* ALIGN(x, a): next multiple of a, in resource_size_t arithmetic.
Align(x, a) == Wrap(((x + a - 1) \div a) * a)

\* First child the gap loop looks at: a child at the very start of root is
\* skipped before the loop.
GapFirst(T, root) ==
    LET K == T[root].kids
    IN  IF K # <<>> /\ T[K[1]].start = T[root].start THEN 2 ELSE 1

\* The loop ends at the end of the list or at a child that ends with root.
GapLast(T, root) ==
    LET K == T[root].kids
        ends == {k \in GapFirst(T, root)..Len(K) : T[K[k]].end = T[root].end}
    IN  IF ends = {} THEN Len(K) + 1 ELSE Min(ends)

\* tmp.start when the loop reaches child i: just past the last child before i
\* other than old, whose own space counts as free.
GapStart(T, root, old, i) ==
    LET K == T[root].kids
        before == {j \in 1..(i-1) : K[j] # old}
    IN  IF before = {} THEN T[root].start
        ELSE Wrap(T[K[Max(before)]].end + 1)

\* Mutant: the gap includes the first address of the next child.
GapEndIntoChild(T, root, old, i) ==
    LET K == T[root].kids
    IN  IF i > Len(K) THEN T[root].end
        ELSE IF K[i] = old THEN T[old].end
        ELSE T[K[i]].start

\* tmp.end when the loop reaches child i.
GapEnd(T, root, old, i) ==
    LET K == T[root].kids
    IN  IF i > Len(K) THEN T[root].end
        ELSE IF K[i] = old THEN T[old].end
        ELSE Wrap(T[K[i]].start - 1)

\* Where a block of the given size starts in gap i, if it fits there.
SlotStart(T, root, old, i, min, align) ==
    LET lo == GapStart(T, root, old, i)
    IN  Align(IF lo < min THEN min ELSE lo, align)

SlotFits(T, root, old, i, size, min, max, align) ==
    LET lo == GapStart(T, root, old, i)
        hi == GapEnd(T, root, old, i)
        s == SlotStart(T, root, old, i, min, align)
        e == Wrap(s + size - 1)
    IN  /\ hi >= lo
        /\ s >= (IF lo < min THEN min ELSE lo)
        /\ s <= e
        /\ e <= (IF hi > max THEN max ELSE hi)

FittingGaps(T, root, old, size, min, max, align) ==
    {i \in GapFirst(T, root)..GapLast(T, root) :
        SlotFits(T, root, old, i, size, min, max, align)}

\* __find_resource: start of the slot found, or NULL for -EBUSY.
FindResource(T, root, old, size, min, max, align) ==
    LET fits == FittingGaps(T, root, old, size, min, max, align)
    IN  IF fits = {} THEN NULL
        ELSE SlotStart(T, root, old, Min(fits), min, align)

\* allocate_resource of a descriptor that is not in the tree.
DoAllocate(T, root, new, size, min, max, align) ==
    LET s == FindResource(T, root, NULL, size, min, max, align)
    IN  IF s = NULL THEN T
        ELSE DoRequest(SetRange(T, new, s, Wrap(s + size - 1)), root, new)

\* Mutant: the moved descriptor is one address too long.
DoReallocateTooLong(T, root, old, size, min, max, align) ==
    LET s == FindResource(T, root, old, size, min, max, align)
        e == Wrap(s + size)
        grows == s <= T[old].start /\ T[old].end <= e
        shrinks == T[old].start <= s /\ e <= T[old].end
    IN  IF s = NULL THEN T
        ELSE IF grows THEN SetRange(T, old, s, e)
        ELSE IF T[old].kids # <<>> THEN T
        ELSE IF shrinks THEN SetRange(T, old, s, e)
        ELSE DoRequest(SetRange(DoRelease(T, old, TRUE), old, s, e), root, old)

\* reallocate_resource: allocate_resource of a descriptor that is linked.
DoReallocate(T, root, old, size, min, max, align) ==
    LET s == FindResource(T, root, old, size, min, max, align)
        e == Wrap(s + size - 1)
        grows == s <= T[old].start /\ T[old].end <= e
        shrinks == T[old].start <= s /\ e <= T[old].end
    IN  IF s = NULL THEN T
        ELSE IF grows THEN SetRange(T, old, s, e)
        ELSE IF T[old].kids # <<>> THEN T
        ELSE IF shrinks THEN SetRange(T, old, s, e)
        ELSE DoRequest(SetRange(DoRelease(T, old, TRUE), old, s, e), root, old)

-----------------------------------------------------------------------------
(* alloc_resource, __request_region, __release_region,                     *)
(* __reserve_region_with_split                                             *)

\* alloc_resource: a zeroed descriptor, or NULL when memory is exhausted
\* (here: when the pool is).
AllocResource(L) == IF Pool \subseteq L THEN NULL ELSE Min(Pool \ L)

\* __request_region's loop: it descends into conflicts that are not busy.
RegionParent(T, parent, new) ==
    LET at[n \in 0..Cardinality(Res)] ==
            IF n = 0 THEN parent
            ELSE LET p == at[n-1]
                     c == Conflict(T, p, new)
                 IN  IF c \notin {NULL, p} /\ "BUSY" \notin T[c].flags
                     THEN c ELSE p
    IN  at[Cardinality(Res)]

\* The new region inherits the extended type of the parent it ends up under.
RegionTree(T, parent, new, s, e) ==
    LET U == [T EXCEPT ![new] = [Blank EXCEPT !.start = s, !.end = e]]
        p == RegionParent(U, parent, new)
    IN  DoRequest([U EXCEPT ![new].flags =
                      {"BUSY"} \cup (U[p].flags \cap {"SYSRAM"})], p, new)

\* __release_region's scan of one list: the first child that contains [s, e].
RegionHit(T, p, s, e) ==
    SelectInSeq(T[p].kids, LAMBDA c : T[c].start <= s /\ T[c].end >= e)

\* The list its loop ends in, descending through children that are not busy.
RegionHolder(T, parent, s, e) ==
    LET at[n \in 0..Cardinality(Res)] ==
            IF n = 0 THEN parent
            ELSE LET p == at[n-1]
                     k == RegionHit(T, p, s, e)
                 IN  IF k # 0 /\ "BUSY" \notin T[T[p].kids[k]].flags
                     THEN T[p].kids[k] ELSE p
    IN  at[Cardinality(Res)]

\* The busy region that is exactly [s, e], or NULL ("Trying to free
\* nonexistent resource").
RegionMatch(T, parent, s, e) ==
    LET p == RegionHolder(T, parent, s, e)
        k == RegionHit(T, p, s, e)
        c == T[p].kids[k]
    IN  IF k # 0 /\ T[c].start = s /\ T[c].end = e THEN c ELSE NULL

\* The loop of __reserve_region_with_split: res is requested; a conflict that
\* covers it ends the loop, any other splits res around the conflict, the
\* upper part waiting as next until the lower part is linked.  W is the loop
\* state; warned records WARN_ON(next_res), nomem a failed allocation.
SplitStart(T, L, s, e) ==
    LET r == AllocResource(L)
    IN  [T |-> IF r = NULL THEN T
               ELSE [T EXCEPT ![r] = [Blank EXCEPT !.start = s, !.end = e,
                                                   !.flags = {"BUSY"}]],
         L |-> IF r = NULL THEN L ELSE L \cup {r},
         res |-> r, next |-> NULL, warned |-> FALSE, nomem |-> r = NULL]

\* Mutant: the upper part is dropped when res is split around a conflict.
SplitStepDropsUpper(root, W) ==
    LET c == Conflict(W.T, root, W.res)
        T == W.T
        s == T[W.res].start
        e == T[W.res].end
    IN  CASE c = NULL ->
                [W EXCEPT !.T = Link(T, root, W.res), !.res = W.next,
                          !.next = NULL]
          [] c # NULL /\ T[c].start <= s /\ T[c].end >= e ->
                [W EXCEPT !.T[W.res] = Blank, !.L = @ \ {W.res}, !.res = NULL]
          [] c # NULL /\ T[c].start <= s /\ T[c].end < e ->
                [W EXCEPT !.T = SetRange(T, W.res, Wrap(T[c].end + 1), e)]
          [] OTHER ->
                [W EXCEPT !.T = SetRange(T, W.res, s, Wrap(T[c].start - 1))]

SplitStep(root, W) ==
    LET c == Conflict(W.T, root, W.res)
        T == W.T
        s == T[W.res].start
        e == T[W.res].end
        fresh == AllocResource(W.L)
    IN  CASE c = NULL ->
                [W EXCEPT !.T = Link(T, root, W.res), !.res = W.next,
                          !.next = NULL]
          [] c # NULL /\ T[c].start <= s /\ T[c].end >= e ->
                [W EXCEPT !.T[W.res] = Blank, !.L = @ \ {W.res}, !.res = NULL,
                          !.warned = (W.next # NULL)]
          [] c # NULL /\ T[c].start <= s /\ T[c].end < e ->
                [W EXCEPT !.T = SetRange(T, W.res, Wrap(T[c].end + 1), e)]
          [] c # NULL /\ T[c].start > s /\ T[c].end >= e ->
                [W EXCEPT !.T = SetRange(T, W.res, s, Wrap(T[c].start - 1))]
          [] c # NULL /\ T[c].start > s /\ T[c].end < e /\ fresh = NULL ->
                [W EXCEPT !.T[W.res] = Blank, !.L = @ \ {W.res}, !.res = NULL,
                          !.nomem = TRUE]
          [] OTHER ->
                [W EXCEPT !.L = @ \cup {fresh}, !.next = fresh,
                          !.T = [SetRange(T, W.res, s, Wrap(T[c].start - 1))
                                   EXCEPT ![fresh] =
                                     [Blank EXCEPT
                                        !.start = Wrap(T[c].end + 1),
                                        !.end = e, !.flags = {"BUSY"}]]]

\* Each child of root that is met costs a split and a link at most, and the
\* rest a last link.
SplitEnd(T, L, root, s, e) ==
    LET bound == 2 * Len(T[root].kids) + 3
        run[n \in 0..bound] ==
            IF n = 0 THEN SplitStart(T, L, s, e)
            ELSE CHOOSE V \in {IF W.res = NULL THEN W ELSE SplitStep(root, W) :
                               W \in {run[n-1]}} : TRUE
    IN  run[bound]

-----------------------------------------------------------------------------
(* Operations.  Drivers pass a parent that is in the tree, and a           *)
(* descriptor of their own that is not, whose child pointer is not stale.  *)

InTree == {r \in Res : r = Root \/ r \in Below(tree, Root)}

Detached(new) == new \in Drv /\ tree[new].parent = NULL

\* A driver fills in the range of a descriptor before it asks for it; one
\* that was released with its children keeps its range.
Filled(new, s, e) ==
    IF tree[new].kids = <<>> THEN SetRange(tree, new, s, e) ELSE tree

\* Out of the tree and without children, a driver's descriptor is its own
\* scratch memory, filled in again before the next call: its range is dropped.
Dropped(T, r) ==
    IF T[r].parent = NULL /\ T[r].kids = <<>> THEN SetRange(T, r, 0, 0) ELSE T

Init ==
    /\ tree = [r \in Res |->
                 IF r = Root
                 THEN [Blank EXCEPT !.start = RootStart, !.end = RootEnd]
                 ELSE IF r \in Drv THEN [Blank EXCEPT !.flags = DrvFlags[r]]
                 ELSE Blank]
    /\ live = {}
    /\ stale = {}

\* request_resource, request_resource_conflict
RequestResource(root, new, s, e) ==
    /\ Detached(new) /\ new \notin stale
    /\ tree' = Dropped(DoRequest(Filled(new, s, e), root, new), new)
    /\ UNCHANGED <<live, stale>>

\* release_resource
ReleaseResource(old) ==
    /\ old \in Drv /\ tree[old].parent # NULL
    /\ tree' = Dropped(DoRelease(tree, old, TRUE), old)
    /\ UNCHANGED <<live, stale>>

\* remove_resource.  The children move up, but old->child still points to
\* the first of them.
RemoveResource(old) ==
    /\ old \in Drv /\ tree[old].parent # NULL
    /\ tree' = Dropped(DoRelease(tree, old, FALSE), old)
    /\ stale' = IF tree[old].kids = <<>> THEN stale ELSE stale \cup {old}
    /\ UNCHANGED live

\* A driver initialises a removed descriptor again before it reuses it.
Reinitialise(r) ==
    /\ r \in stale
    /\ tree' = Dropped([tree EXCEPT ![r].kids = <<>>], r)
    /\ stale' = stale \ {r}
    /\ UNCHANGED live

\* release_child_resources
ReleaseChildResources(r) ==
    /\ r \in Drv \ stale
    /\ tree[r].kids # <<>>
    /\ tree' = DoReleaseChildren(tree, r)
    /\ UNCHANGED <<live, stale>>

\* insert_resource, insert_resource_conflict
InsertResource(parent, new, s, e) ==
    /\ Detached(new) /\ new \notin stale /\ tree[new].kids = <<>>
    /\ \E p \in Res \cap {InsertParent(Filled(new, s, e), parent, new)} :
          tree' = Dropped(DoInsertAt(Filled(new, s, e), p, new), new)
    /\ UNCHANGED <<live, stale>>

\* insert_resource_expand_to_fit
InsertExpandToFit(new, s, e) ==
    /\ Detached(new) /\ new \notin stale /\ tree[new].kids = <<>>
    /\ \E r \in (Addr \X Addr) \cap {Expanded(Filled(new, s, e), Root, new)} :
       \E p \in Res \cap {InsertParent(Filled(new, r[1], r[2]), Root, new)} :
          tree' = Dropped(DoInsertAt(Filled(new, r[1], r[2]), p, new), new)
    /\ UNCHANGED <<live, stale>>

\* adjust_resource
AdjustResource(res, s, size) ==
    /\ res \in Drv \ stale
    /\ tree[res].parent # NULL \/ tree[res].kids # <<>>
    /\ s + size - 1 \in Addr
    /\ tree' = DoAdjust(tree, res, s, size)
    /\ UNCHANGED <<live, stale>>

\* allocate_resource: the first time, and again for a descriptor that is
\* already linked under root.
AllocateResource(root, new, size, min, max, align) ==
    /\ new \in Drv \ stale
    /\ \/ /\ Detached(new) /\ tree[new].kids = <<>>
          /\ tree' = Dropped(DoAllocate(tree, root, new, size, min, max,
                                        align), new)
       \/ /\ tree[new].parent = root
          /\ tree' = DoReallocate(tree, root, new, size, min, max, align)
    /\ UNCHANGED <<live, stale>>

\* __request_region: on failure the descriptor is freed again.
RequestRegion(parent, s, n) ==
    /\ AllocResource(live) # NULL /\ Cardinality(live) < MaxLive
    /\ LET r == AllocResource(live)
           U == RegionTree(tree, parent, r, s, Wrap(s + n - 1))
       IN  IF U[r].parent = NULL THEN UNCHANGED vars
           ELSE tree' = U /\ live' = live \cup {r} /\ UNCHANGED stale

\* __release_region, of a region nothing was nested in.
ReleaseRegion(parent, s, n) ==
    /\ LET c == RegionMatch(tree, parent, s, Wrap(s + n - 1))
       IN  /\ c \in live /\ tree[c].kids = <<>>
           /\ tree' = [Unlink(tree, c) EXCEPT ![c] = Blank]
           /\ live' = live \ {c}
    /\ UNCHANGED stale

\* reserve_region_with_split, of a range that meets root.
ReserveRegionWithSplit(root, s, e) ==
    /\ s <= tree[root].end /\ e >= tree[root].start
    /\ LET lo == IF s < tree[root].start THEN tree[root].start ELSE s
           hi == IF e > tree[root].end THEN tree[root].end ELSE e
       IN  \E W \in {SplitEnd(tree, live, root, lo, hi)} :
              /\ Cardinality(W.L) <= MaxLive
              /\ tree' = W.T /\ live' = W.L
    /\ UNCHANGED stale

\* Ranges drivers ask for; one malformed range stands for all of them.
Ranges == {r \in Addr \X Addr : r[1] <= r[2]} \cup {<<1, 0>>}

Next ==
    \/ \E root \in InTree, new \in Drv, r \in Ranges :
          RequestResource(root, new, r[1], r[2])
    \/ \E old \in Drv : ReleaseResource(old) \/ RemoveResource(old)
    \/ \E r \in Drv : Reinitialise(r) \/ ReleaseChildResources(r)
    \/ \E p \in InTree, new \in Drv, r \in Ranges :
          InsertResource(p, new, r[1], r[2])
    \/ \E new \in Drv, r \in Ranges : InsertExpandToFit(new, r[1], r[2])
    \/ \E r \in Drv, s \in Addr, n \in Sizes : AdjustResource(r, s, n)
    \/ \E root \in InTree, new \in Drv, n \in Sizes, b \in Bounds,
          a \in Aligns : AllocateResource(root, new, n, b[1], b[2], a)
    \/ \E p \in InTree, s \in Addr, n \in Sizes :
          RequestRegion(p, s, n) \/ ReleaseRegion(p, s, n)
    \/ \E root \in InTree, r \in Ranges :
          ReserveRegionWithSplit(root, r[1], r[2])

Spec == Init /\ [][Next]_vars

-----------------------------------------------------------------------------
(* Properties.                                                             *)

\* Every descriptor has the fields of a struct resource.
TypeOK ==
    /\ tree \in [Res -> Descriptor]
    /\ live \subseteq Pool
    /\ stale \subseteq Drv

\* The list of one descriptor is well formed: each child points back to it,
\* lies inside it, is not empty, and ends before the next one starts.
ListOK(T, r) ==
    LET K == T[r].kids
    IN  /\ \A i \in 1..Len(K) :
              /\ T[K[i]].parent = r
              /\ T[K[i]].start <= T[K[i]].end
              /\ T[r].start <= T[K[i]].start
              /\ T[K[i]].end <= T[r].end
        /\ \A i, j \in 1..Len(K) : i < j => T[K[i]].end < T[K[j]].start

\* A descriptor that has a parent is in that parent's list.
LinkOK(T, r) ==
    T[r].parent # NULL =>
        \E i \in 1..Len(T[T[r].parent].kids) : T[T[r].parent].kids[i] = r

\* free_resource never frees a descriptor that is still linked, and what
\* alloc_resource hands out again has no parent and no children.
FreedIsUnlinked ==
    \A r \in Pool \ live :
        /\ tree[r].parent = NULL /\ tree[r].kids = <<>>
        /\ \A x \in Res \ stale : r \notin ToSet(tree[x].kids)

\* Whatever sequence of operations was made, every list of children is sorted,
\* disjoint and inside its parent, parent and child pointers agree, and no list
\* leads to freed memory: what each scan of kernel/resource.c that stops early
\* relies on.
TreeOK ==
    /\ TypeOK
    /\ \A r \in Res \ stale : ListOK(tree, r)
    /\ \A r \in Res : LinkOK(tree, r)
    /\ FreedIsUnlinked

=============================================================================
