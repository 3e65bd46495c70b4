---- MODULE RbTree ----
(***************************************************************************)
(* The augmented, leftmost-cached red-black tree of lib/rbtree.c and       *)
(* include/linux/rbtree*.h, one STORE at a time.                           *)
(*                                                                         *)
(* Every branch of the code is a list of stores into the nodes.  A branch  *)
(* is chosen by an action when no store is left to do (todo = <<>>); the   *)
(* action RbStore then does them one by one, in program order, which is    *)
(* what a reader that takes no lock would see.  job says where the code    *)
(* goes on once the stores are done: the loop of __rb_insert at a node,    *)
(* the loop of ____rb_erase_color at a parent, or the return to the        *)
(* caller.                                                                 *)
(*                                                                         *)
(* The mirrored halves of the code are one definition with a side d: d is  *)
(* "l" for the half written with rb_left first, "r" for its mirror image.  *)
(***************************************************************************)
EXTENDS Integers, Sequences, FiniteSets, FiniteSetsExt

CONSTANTS Node,     \* the nodes the users own
          KeyOf,    \* [Node -> Int], what less() compares
          ValOf,    \* [Node -> Nat], what the augmented field is the maximum of
          NULL

ASSUME NodeAssumption == /\ IsFiniteSet(Node) /\ NULL \notin Node
                         /\ KeyOf \in [Node -> Int]
                         /\ ValOf \in [Node -> Nat]

VARIABLES tree,     \* the nodes' fields, the root and the cached leftmost node
          todo,     \* the stores still to be done, in program order
          job       \* where the code is

rbvars == <<tree, todo, job>>

Ptr == Node \cup {NULL}
Side == {"l", "r"}
Other(d) == IF d = "l" THEN "r" ELSE "l"

Idle == [at |-> "user", node |-> NULL, parent |-> NULL]
Resting == job = Idle /\ todo = <<>>
----------------------------------------------------------------------------
(* The stores. *)

Child(n, d, m) == [op |-> "child", a |-> n, d |-> d, b |-> m, red |-> FALSE]
Root(m) == [op |-> "root", a |-> m, d |-> "l", b |-> NULL, red |-> FALSE]

\* rb_set_parent_color()
ParentColor(n, p, red) == [op |-> "pc", a |-> n, d |-> "l", b |-> p, red |-> red]

\* The callbacks that RB_DECLARE_CALLBACKS_MAX() makes.
Rotate(old, new) == [op |-> "rotate", a |-> old, d |-> "l", b |-> new, red |-> FALSE]
Copy(old, new) == [op |-> "copy", a |-> old, d |-> "l", b |-> new, red |-> FALSE]
Propagate(n, stop) == [op |-> "propagate", a |-> n, d |-> "l", b |-> stop, red |-> FALSE]

\* The erased node: the users clear it (RB_CLEAR_NODE) and never read it again
\* before rb_link_node() writes all of it.
Clear(n) == [op |-> "clear", a |-> n, d |-> "l", b |-> NULL, red |-> FALSE]

Blank == [l |-> NULL, r |-> NULL, parent |-> NULL, red |-> FALSE, aug |-> 0]

IfNode(n, stores) == IF n = NULL THEN <<>> ELSE stores

\* ..._compute_max(): the maximum of the node's value and its children's fields.
ComputeMax(f, n) ==
    Max({ValOf[n]} \cup {f[m].aug : m \in {f[n].l, f[n].r} \ {NULL}})

\* ..._propagate(): upwards from n, until stop or a field that is right already.
RECURSIVE Propagated(_, _, _)
Propagated(f, n, stop) ==
    IF n = stop \/ f[n].aug = ComputeMax(f, n) THEN f
    ELSE Propagated([f EXCEPT ![n].aug = ComputeMax(f, n)], f[n].parent, stop)

\* ..._rotate()
Rotated(f, old, new) ==
    LET g == [f EXCEPT ![new].aug = f[old].aug]
    IN  [g EXCEPT ![old].aug = ComputeMax(g, old)]

Stored(t, s) ==
    CASE s.op = "root" -> [t EXCEPT !.root = s.a]
      [] s.op = "child" /\ s.d = "l" -> [t EXCEPT !.node[s.a].l = s.b]
      [] s.op = "child" /\ s.d = "r" -> [t EXCEPT !.node[s.a].r = s.b]
      [] s.op = "pc" -> [t EXCEPT !.node[s.a].parent = s.b, !.node[s.a].red = s.red]
      [] s.op = "rotate" -> [t EXCEPT !.node = Rotated(@, s.a, s.b)]
      [] s.op = "copy" -> [t EXCEPT !.node[s.b].aug = t.node[s.a].aug]
      [] s.op = "propagate" -> [t EXCEPT !.node = Propagated(@, s.a, s.b)]
      [] s.op = "clear" -> [t EXCEPT !.node[s.a] = Blank]
----------------------------------------------------------------------------
(* Walks. *)

\* while (n->rb_left) n = n->rb_left, and its mirror image
RECURSIVE Deepest(_, _, _)
Deepest(f, n, d) == IF f[n][d] = NULL THEN n ELSE Deepest(f, f[n][d], d)

rb_first(t) == IF t.root = NULL THEN NULL ELSE Deepest(t.node, t.root, "l")
rb_last(t) == IF t.root = NULL THEN NULL ELSE Deepest(t.node, t.root, "r")

\* while ((parent = rb_parent(node)) && node == parent->rb_right) node = parent
RECURSIVE Climb(_, _, _)
Climb(f, n, d) ==
    LET p == f[n].parent
    IN  IF p # NULL /\ f[p][d] = n THEN Climb(f, p, d) ELSE p

\* rb_next() with d = "r", rb_prev() with d = "l"
Neighbour(f, n, d) ==
    IF f[n][d] # NULL THEN Deepest(f, f[n][d], Other(d)) ELSE Climb(f, n, d)

rb_next(f, n) == Neighbour(f, n, "r")
rb_prev(f, n) == Neighbour(f, n, "l")

RECURSIVE rb_left_deepest_node(_, _)
rb_left_deepest_node(f, n) ==
    IF f[n].l # NULL THEN rb_left_deepest_node(f, f[n].l)
    ELSE IF f[n].r # NULL THEN rb_left_deepest_node(f, f[n].r) ELSE n

rb_first_postorder(t) ==
    IF t.root = NULL THEN NULL ELSE rb_left_deepest_node(t.node, t.root)

\* Mutant: from a left child straight to the parent.
PostorderParent(f, n) == f[n].parent

rb_next_postorder(f, n) ==
    LET p == f[n].parent
    IN  IF p # NULL /\ n = f[p].l /\ f[p].r # NULL
        THEN rb_left_deepest_node(f, f[p].r) ELSE p
----------------------------------------------------------------------------
(* Insertion. *)

\* Mutant: a newcomer goes before its equals.
lessOrEqual(a, b) == KeyOf[a] <= KeyOf[b]

less(a, b) == KeyOf[a] < KeyOf[b]

\* __rb_change_child()
ChangeChild(t, old, new, p) ==
    IF p = NULL THEN <<Root(new)>>
    ELSE <<Child(p, IF t.node[p].l = old THEN "l" ELSE "r", new)>>

\* Mutant: the new top keeps its own colour.
RotateKeepColor(t, old, new, red) ==
    LET p == t.node[old].parent
    IN  <<ParentColor(new, p, t.node[new].red), ParentColor(old, new, red)>>
        \o ChangeChild(t, old, new, p)

\* __rb_rotate_set_parents()
RotateSetParents(t, old, new, red) ==
    LET p == t.node[old].parent
    IN  <<ParentColor(new, p, t.node[old].red), ParentColor(old, new, red)>>
        \o ChangeChild(t, old, new, p)

\* Mutant: p is linked below s before it has let go of it.
SwingBack(p, d, c, s) == <<Child(s, Other(d), p), Child(p, d, c)>>

\* The child stores of every rotation: p's child s on side d rises above it and
\* leaves p its inner child c.
Swing(p, d, c, s) == <<Child(p, d, c), Child(s, Other(d), p)>>

\* The nodes the search for n's place passes, from the root down.
RECURSIVE SearchPath(_, _, _)
SearchPath(f, at, n) ==
    IF at = NULL THEN <<>>
    ELSE <<at>> \o SearchPath(f, IF less(n, at) THEN f[at].l ELSE f[at].r, n)

\* rb_insert_augmented_cached()
InsertCached(t, n, leftmost) == IF leftmost THEN n ELSE t.leftmost

\* insert_augmented_cached(): the search raises the augmented fields it passes
\* and notes whether it ever turned right; rb_link_node() hangs n, red, at the
\* end of the path.
Linked(t, n, path, leftmost) ==
    LET p == IF path = <<>> THEN NULL ELSE path[Len(path)]
        passed == {path[i] : i \in 1 .. Len(path)}
        raised == [m \in Node |->
                     IF m = n THEN [Blank EXCEPT !.parent = p, !.red = TRUE, !.aug = ValOf[n]]
                     ELSE IF m \in passed
                     THEN [t.node[m] EXCEPT !.aug = IF @ < ValOf[n] THEN ValOf[n] ELSE @]
                     ELSE t.node[m]]
        hung == IF p = NULL THEN raised
                ELSE IF less(n, p) THEN [raised EXCEPT ![p].l = n]
                ELSE [raised EXCEPT ![p].r = n]
    IN  [root |-> IF p = NULL THEN n ELSE t.root,
         leftmost |-> InsertCached(t, n, leftmost),
         node |-> hung]

RbInsert(n) ==
    /\ Resting
    /\ LET path == SearchPath(tree.node, tree.root, n)
       IN  tree' = Linked(tree, n, path, \A i \in 1 .. Len(path) : less(n, path[i]))
    /\ job' = [at |-> "insert", node |-> n, parent |-> NULL]
    /\ UNCHANGED todo

\* Cases 2 and 3 of __rb_insert(): n's uncle is black.  A node on the inner
\* side is first rotated above its parent p; then g goes below.
InsertRotations(t, n, p, g, d) ==
    LET e == Other(d)
        inner == t.node[p][e] = n
        top == IF inner THEN n ELSE p
        moved == t.node[n][d]
        kept == t.node[top][e]
    IN  (IF ~inner THEN <<>>
         ELSE Swing(p, e, moved, n)
              \o IfNode(moved, <<ParentColor(moved, p, FALSE)>>)
              \o <<ParentColor(p, n, TRUE), Rotate(p, n)>>)
        \o Swing(g, d, kept, top)
        \o IfNode(kept, <<ParentColor(kept, g, FALSE)>>)
        \o RotateSetParents(t, g, top, TRUE)
        \o <<Rotate(g, top)>>

\* One turn of the loop of __rb_insert().
InsertLoop ==
    /\ job.at = "insert" /\ todo = <<>>
    /\ LET f == tree.node
           n == job.node
           p == f[n].parent
           g == f[p].parent
           d == IF f[g].r # p THEN "l" ELSE "r"
           uncle == f[g][Other(d)]
       IN  IF p = NULL
           THEN todo' = <<ParentColor(n, NULL, FALSE)>> /\ job' = Idle
           ELSE IF ~f[p].red
           THEN job' = Idle /\ UNCHANGED todo
           ELSE IF uncle # NULL /\ f[uncle].red
           THEN /\ todo' = <<ParentColor(uncle, g, FALSE), ParentColor(p, g, FALSE),
                             ParentColor(g, f[g].parent, TRUE)>>
                /\ job' = [job EXCEPT !.node = g]
           ELSE todo' = InsertRotations(tree, n, p, g, d) /\ job' = Idle
    /\ UNCHANGED tree
----------------------------------------------------------------------------
(* Erasure. *)

\* What __rb_erase_augmented() stores when n is the only child's parent, or
\* has none: the child takes n's place.
EraseNarrow(t, n, c, p) ==
    LET recolour == IfNode(c, <<ParentColor(c, p, t.node[n].red)>>)
        relink == ChangeChild(t, n, c, p)
    IN  (IF t.node[n].l = NULL THEN relink \o recolour ELSE recolour \o relink)
        \o <<Propagate(p, NULL)>>

\* ... and when n has two: its successor s, whose parent is q, takes its place.
\* A successor further down than n's right child r leaves its own child c behind.
\* Mutant: the fields between its old place and its new one are not recomputed.
SuccessorLeavesStale(t, n, s, q, r, c) ==
    IF s = r THEN <<Copy(n, s)>>
    ELSE <<Child(q, "l", c), Child(s, "r", r), ParentColor(r, s, t.node[r].red),
           Copy(n, s)>>

SuccessorLeaves(t, n, s, q, r, c) ==
    IF s = r THEN <<Copy(n, s)>>
    ELSE <<Child(q, "l", c), Child(s, "r", r), ParentColor(r, s, t.node[r].red),
           Copy(n, s), Propagate(q, s)>>

EraseWide(t, n, s, q, p) ==
    LET l == t.node[n].l
        c == t.node[s].r
    IN  SuccessorLeaves(t, n, s, q, t.node[n].r, c)
        \o <<Child(s, "l", l), ParentColor(l, s, t.node[l].red)>>
        \o ChangeChild(t, n, s, p)
        \o <<ParentColor(s, p, t.node[n].red)>>
        \o IfNode(c, <<ParentColor(c, q, FALSE)>>)
        \o <<Propagate(s, NULL)>>

\* rebalance: the node that left its place, gone, was black and leaves no child c
\* that could become black in its stead.
Short(f, gone, c) == c = NULL /\ ~f[gone].red

\* rb_erase_augmented_cached(n): the cache moves on first.
RbErase(n) ==
    /\ Resting
    /\ LET f == tree.node
           wide == f[n].l # NULL /\ f[n].r # NULL
           c == IF f[n].l = NULL THEN f[n].r ELSE f[n].l
           p == f[n].parent
           s == Deepest(f, f[n].r, "l")
           q == IF s = f[n].r THEN s ELSE f[s].parent
           short == IF wide THEN Short(f, s, f[s].r) ELSE Short(f, n, c)
           from == IF wide THEN q ELSE p
       IN  /\ tree' = [tree EXCEPT !.leftmost = IF @ = n THEN rb_next(f, n) ELSE @]
           /\ todo' = (IF wide THEN EraseWide(tree, n, s, q, p)
                       ELSE EraseNarrow(tree, n, c, p)) \o <<Clear(n)>>
           /\ job' = IF short /\ from # NULL
                     THEN [at |-> "erase", node |-> NULL, parent |-> from] ELSE Idle

\* Mutant: the rotation is forgotten.
EraseCase1Nothing(t, p, s, d) == <<Rotate(p, s)>>

\* Case 1 of ____rb_erase_color(): a red sibling s goes above p.
EraseCase1(t, p, s, d) ==
    LET c == t.node[s][d]
    IN  Swing(p, Other(d), c, s) \o <<ParentColor(c, p, FALSE)>>
        \o RotateSetParents(t, p, s, TRUE) \o <<Rotate(p, s)>>

\* Case 3: the sibling's red inner child, near, goes above it.
EraseCase3(t, p, s, near, d) ==
    LET e == Other(d)
        c == t.node[near][e]
    IN  Swing(s, d, c, near) \o <<Child(p, e, near)>>
        \o IfNode(c, <<ParentColor(c, s, FALSE)>>)
        \o <<Rotate(s, near)>>

\* Case 4: the sibling s goes above p, its outer child far becomes black.
\* near is the sibling's inner child.
EraseCase4(t, p, s, near, far, d) ==
    Swing(p, Other(d), near, s)
    \o <<ParentColor(far, s, FALSE)>>
    \o IfNode(near, <<ParentColor(near, p, t.node[near].red)>>)
    \o RotateSetParents(t, p, s, FALSE)
    \o <<Rotate(p, s)>>

IsRed(f, n) == n # NULL /\ f[n].red

\* One turn of the loop of ____rb_erase_color(), whose side is short of one
\* black node.  Case 1 comes back to the head of the loop: node and parent are
\* what they were, and the new sibling is black.
EraseLoop ==
    /\ job.at = "erase" /\ todo = <<>>
    /\ LET f == tree.node
           p == job.parent
           d == IF f[p].r # job.node THEN "l" ELSE "r"
           e == Other(d)
           s == f[p][e]
           near == f[s][d]
           far == f[s][e]
       IN  IF f[s].red
           THEN todo' = EraseCase1(tree, p, s, d) /\ UNCHANGED job
           ELSE IF ~IsRed(f, far) /\ ~IsRed(f, near)
           THEN /\ todo' = <<ParentColor(s, p, TRUE)>>
                           \o (IF f[p].red THEN <<ParentColor(p, f[p].parent, FALSE)>>
                               ELSE <<>>)
                /\ job' = IF f[p].red \/ f[p].parent = NULL THEN Idle
                          ELSE [job EXCEPT !.node = p, !.parent = f[p].parent]
           ELSE IF ~IsRed(f, far)
           THEN /\ todo' = EraseCase3(tree, p, s, near, d)
                           \o EraseCase4(tree, p, near, f[near][d], s, d)
                /\ job' = Idle
           ELSE todo' = EraseCase4(tree, p, s, near, far, d) /\ job' = Idle
    /\ UNCHANGED tree

RbStore ==
    /\ todo # <<>>
    /\ tree' = Stored(tree, todo[1])
    /\ todo' = Tail(todo)
    /\ UNCHANGED job

RbInit ==
    /\ tree = [root |-> NULL, leftmost |-> NULL, node |-> [n \in Node |-> Blank]]
    /\ todo = <<>>
    /\ job = Idle

RbStep == InsertLoop \/ EraseLoop \/ RbStore
====
