---------------------------- MODULE ResourceLaws ----------------------------
(***************************************************************************)
(* What the compound operations and the queries of kernel/resource.c       *)
(* promise, stated of every tree the operations can build: each law        *)
(* compares what the code computes on the current tree with a definition   *)
(* that does not look at lists, gaps or loops.                             *)
(***************************************************************************)
EXTENDS Resource

-----------------------------------------------------------------------------
(* Queries.                                                                *)

\* p->sibling
Sibling(T, p) ==
    LET K == T[T[p].parent].kids
        k == Slot(T, p)
    IN  IF T[p].parent = NULL \/ k = Len(K) THEN NULL ELSE K[k + 1]

\* next_resource
NextResource(T, p, sibling_only) ==
    LET up[n \in 0..Cardinality(Res)] ==
            IF n = 0 THEN p
            ELSE LET q == up[n-1]
                 IN  IF Sibling(T, q) = NULL /\ T[q].parent # NULL
                     THEN T[q].parent ELSE q
    IN  IF sibling_only THEN Sibling(T, p)
        ELSE IF T[p].kids # <<>> THEN T[p].kids[1]
        ELSE Sibling(T, up[Cardinality(Res)])

\* find_next_iomem_res: the part of the lowest matching resource that lies in
\* [s, e], or NULL.
FindNextIomemRes(T, s, e, flags, first_lvl) ==
    LET none == <<NULL, TRUE>>
        step[n \in 0..Cardinality(Res)] ==
            IF n = 0
            THEN <<IF T[Root].kids = <<>> THEN NULL ELSE T[Root].kids[1], TRUE>>
            ELSE LET w == step[n-1]
                     p == w[1]
                 IN  IF p = NULL \/ T[p].start > e THEN none
                     ELSE IF T[p].end < s
                     THEN <<NextResource(T, p, w[2]), w[2]>>
                     ELSE IF flags \subseteq T[p].flags
                     THEN <<p, first_lvl>>
                     ELSE <<NextResource(T, p, first_lvl), first_lvl>>
        p == step[Cardinality(Res)][1]
    IN  IF s >= e \/ p = NULL \/ T[p].start > e THEN NULL
        ELSE <<IF s > T[p].start THEN s ELSE T[p].start,
               IF e < T[p].end THEN e ELSE T[p].end>>

\* A round goes on by an address at least: enough for two passes.
WalkRounds == 2 * (MaxAddr + 2)

\* Mutant: the next search starts one address too late.
WalkSkips(T, s, e, flags, first_lvl) ==
    LET step[n \in 0..WalkRounds] ==
            IF n = 0 THEN [at |-> s, done |-> FALSE, found |-> {}]
            ELSE LET w == step[n-1]
                     r == FindNextIomemRes(T, w.at, e, flags, first_lvl)
                 IN  IF w.done \/ r = NULL THEN [w EXCEPT !.done = TRUE]
                     ELSE [w EXCEPT !.at = Wrap(r[2] + 2),
                                    !.found = @ \cup {r}]
    IN  step[WalkRounds]

\* __walk_iomem_res_desc: the ranges func is called with, and whether the loop
\* is done.
Walk(T, s, e, flags, first_lvl) ==
    LET step[n \in 0..WalkRounds] ==
            IF n = 0 THEN [at |-> s, done |-> FALSE, found |-> {}]
            ELSE LET w == step[n-1]
                     r == FindNextIomemRes(T, w.at, e, flags, first_lvl)
                 IN  IF w.done \/ r = NULL THEN [w EXCEPT !.done = TRUE]
                     ELSE [w EXCEPT !.at = Wrap(r[2] + 1),
                                    !.found = @ \cup {r}]
    IN  step[WalkRounds]

Overlaps(T, r, s, e) == T[r].start <= e /\ T[r].end >= s

-----------------------------------------------------------------------------
(* Laws.                                                                   *)

\* A descriptor a driver may pass to the allocating operations.
Fresh(new) == Detached(new) /\ new \notin stale /\ tree[new].kids = <<>>

FreeIn(T, root, s, e) ==
    /\ T[root].start <= s /\ s <= e /\ e <= T[root].end
    /\ \A c \in ToSet(T[root].kids) : ~Overlaps(T, c, s, e)

\* "moves the children (if any) up to where they were before": remove_resource
\* directly after insert_resource gives back every other descriptor's fields.
RemoveUndoesInsert ==
    \A p \in InTree, new \in Drv, r \in Ranges :
        Fresh(new) =>
            \A U \in {DoInsert(SetRange(tree, new, r[1], r[2]), p, new)} :
                U[new].parent # NULL =>
                    \A V \in {DoRelease(U, new, FALSE)} :
                        \A x \in Res \ {new} : V[x] = tree[x]

\* BUG_ON(conflict) of reallocate_resource: when a descriptor has to move, the
\* place found for it is still free once the descriptor has been unlinked.
ReallocationNeverConflicts ==
    \A old \in Drv \ stale, n \in Sizes, b \in Bounds, a \in Aligns :
        LET root == tree[old].parent
        IN  root # NULL =>
              \A U \in {DoReallocate(tree, root, old, n, b[1], b[2], a)} :
                  U[old].parent = root

\* allocate_resource links new at the lowest aligned address of root that is
\* free and within the bounds, and fails only when there is none, also when
\* the end of a gap is the last address there is.  A descriptor that has a
\* place already is moved to one that is free (ReallocationNeverConflicts).
AllocateIsLowestFit ==
  /\ ReallocationNeverConflicts
  /\ \A root \in InTree, new \in Drv, n \in Sizes, b \in Bounds, a \in Aligns :
        Fresh(new) =>
            LET slots == {s \in Addr : /\ s % a = 0 /\ s >= b[1]
                                       /\ s + n - 1 <= b[2]
                                       /\ FreeIn(tree, root, s, s + n - 1)}
            IN  \A U \in {DoAllocate(tree, root, new, n, b[1], b[2], a)} :
                    IF slots = {} THEN U[new].parent = NULL
                    ELSE /\ U[new].parent = root
                         /\ U[new].start = Min(slots)
                         /\ U[new].end = U[new].start + n - 1

\* The loop of __reserve_region_with_split ends after two steps for each child
\* of root and three more, its WARN_ON(next_res) never fires, no descriptor
\* is leaked, the children of root stay sorted and disjoint, and when no
\* allocation failed every address of the request ends up inside one of them.
SplitCoversRequest ==
    \A root \in InTree, r \in Ranges :
        (tree[root].start <= r[1] /\ r[1] <= r[2] /\ r[2] <= tree[root].end) =>
            \A W \in {SplitEnd(tree, live, root, r[1], r[2])} :
                /\ W.res = NULL /\ ~W.warned
                /\ \A x \in W.L \ live : W.T[x].parent = root
                /\ ListOK(W.T, root)
                /\ ~W.nomem =>
                     \A a \in r[1]..r[2] :
                        \E c \in ToSet(W.T[root].kids) : Overlaps(W.T, c, a, a)

\* insert_resource_expand_to_fit always links a request that lies inside the
\* root, with a range that covers the request.
ExpandAlwaysFits ==
    \A new \in Drv, r \in Ranges :
        /\ Fresh(new)
        /\ RootStart <= r[1] /\ r[1] <= r[2] /\ r[2] <= RootEnd
        => \A g \in {Expanded(SetRange(tree, new, r[1], r[2]), Root, new)} :
              /\ g[1] <= r[1] /\ r[2] <= g[2]
              /\ InsertConflict(SetRange(tree, new, g[1], g[2]), Root, new) = NULL

\* Addresses inside a resource that has the flags asked for.
Matching(flags, first_lvl) ==
    {a \in Addr : \E r \in (IF first_lvl THEN ToSet(tree[Root].kids)
                            ELSE Below(tree, Root)) :
                      flags \subseteq tree[r].flags /\ Overlaps(tree, r, a, a)}

\* The walkers report every address below the last one asked for that a
\* matching resource holds, and no other but that last one, although each search
\* starts from the top again and skips subtrees.  They end unless they report the
\* last address there is: then res.end + 1 is 0, and they start over from there
\* and report all that matches, also what lies below the range asked for.
WalkReportsMatches ==
    \A f \in {{}, {"BUSY"}}, first_lvl \in BOOLEAN :
        \A M \in {Matching(f, first_lvl)}, e \in Addr :
            \A s \in 0..(e - 1) :
                \A w \in {Walk(tree, s, e, f, first_lvl)} :
                    LET W == UNION {r[1]..r[2] : r \in w.found}
                    IN  /\ w.done <=> MaxAddr \notin W
                        /\ IF w.done
                           THEN W \subseteq M \cap s..e /\ M \cap s..(e - 1) \subseteq W
                           ELSE W = M

=============================================================================
