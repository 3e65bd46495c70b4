---- MODULE Ordered ----
(***************************************************************************)
(* The two ordered containers of lib/, given the same additions and        *)
(* removals: the red-black tree (deadline and fair class, and the program  *)
(* of lib/rbtree_test.c) and the priority list (real-time class).          *)
(***************************************************************************)
EXTENDS RbTree, SequencesExt

CONSTANT PlistHead

VARIABLES node_list, prio_list,   \* the priority list
          before     \* the tree's order when the operation under way began

INSTANCE Plist

vars == <<tree, todo, job, node_list, prio_list, before>>

RECURSIVE InOrder(_, _)
InOrder(f, n) ==
    IF n = NULL THEN <<>> ELSE InOrder(f, f[n].l) \o <<n>> \o InOrder(f, f[n].r)

TreeOrder == InOrder(tree.node, tree.root)

Insert(n) ==
    /\ RbInsert(n) /\ plist_add(n)
    /\ before' = TreeOrder

Erase(n) ==
    /\ RbErase(n) /\ plist_del(n)
    /\ before' = TreeOrder

\* Only the priority list has a requeue.
Requeue(n) ==
    /\ Resting /\ plist_requeue(n)
    /\ UNCHANGED <<tree, todo, job, before>>

Step ==
    /\ RbStep
    /\ before' = IF Resting' THEN <<>> ELSE before
    /\ UNCHANGED <<node_list, prio_list>>

Init == RbInit /\ PlistInit /\ before = <<>>

Next == \/ \E n \in Node : Insert(n) \/ Erase(n) \/ Requeue(n)
        \/ Step

\* The caller waits until the function it called returns: the code goes on.
Spec == Init /\ [][Next]_vars /\ WF_vars(Step)
----------------------------------------------------------------------------
\* Type correctness: pointers lead to nodes and an augmented field is a value of
\* some node.
TypeOK ==
    /\ tree \in [root : Ptr, leftmost : Ptr,
                 node : [Node -> [l : Ptr, r : Ptr, parent : Ptr, red : BOOLEAN,
                                  aug : {0} \cup Range(ValOf)]]]
    /\ job \in [at : {"user", "insert", "erase"}, node : Ptr, parent : Ptr]
    /\ node_list \in [Node \cup {PlistHead} -> Node \cup {PlistHead}]
    /\ prio_list \in [Node -> Node]

\* The nodes that child pointers reach from n, in at most d steps.
RECURSIVE Reach(_, _, _)
Reach(f, S, d) ==
    IF d = 0 THEN S
    ELSE Reach(f, S \cup UNION {{f[n].l, f[n].r} : n \in S \ {NULL}}, d - 1)

Below(f, n) == Reach(f, {f[n].l, f[n].r}, Cardinality(Node)) \ {NULL}

\* Black nodes on every path from n to a leaf, or -1 when paths differ, when a
\* red node has a red child or when a child does not know its parent.
RECURSIVE BlackHeight(_, _)
BlackHeight(f, n) ==
    IF n = NULL THEN 0
    ELSE LET l == BlackHeight(f, f[n].l)
             r == BlackHeight(f, f[n].r)
             kids == {f[n].l, f[n].r} \ {NULL}
         IN  IF \/ l # r \/ l = -1
                \/ \E m \in kids : f[m].parent # n \/ (f[n].red /\ f[m].red)
             THEN -1
             ELSE l + (IF f[n].red THEN 0 ELSE 1)

(* "we must not inadvertently cause (temporary) loops in the tree structure   *)
(* as seen in program order" (lib/rbtree.c:38-40): after every single store,  *)
(* no node reachable from the root can reach itself through child pointers.   *)
NoLoops ==
    \A n \in Reach(tree.node, {tree.root}, Cardinality(Node)) \ {NULL} :
        n \notin Below(tree.node, n)

\* At the head of the loop of ____rb_erase_color(), the paths through node have
\* exactly one black node less than those through its sibling, and both are
\* otherwise trees in order.
EraseLoopInvariant ==
    (job.at = "erase" /\ todo = <<>>) =>
        LET f == tree.node
            p == job.parent
            s == IF f[p].r # job.node THEN f[p].r ELSE f[p].l
        IN  /\ job.node \in {f[p].l, f[p].r}
            /\ s # NULL
            /\ BlackHeight(f, job.node) # -1
            /\ BlackHeight(f, s) = BlackHeight(f, job.node) + 1

(* "red-black trees properties" 2, 4 and 5 (lib/rbtree.c:15-23), with the     *)
(* parent pointers: whenever an insertion or an erasure has returned, the     *)
(* root is black, no red node has a red child, all paths have as many black   *)
(* nodes and every child points to its parent.  Within an erasure the loop    *)
(* invariants that the comments of ____rb_erase_color() state hold, also when *)
(* case 1 comes back to the head of the loop.                                 *)
RedBlack ==
    /\ TypeOK
    /\ Resting => /\ BlackHeight(tree.node, tree.root) # -1
                  /\ tree.root # NULL => /\ ~tree.node[tree.root].red
                                         /\ tree.node[tree.root].parent = NULL
    /\ EraseLoopInvariant

RECURSIVE Forward(_, _)
Forward(f, n) == IF n = NULL THEN <<>> ELSE <<n>> \o Forward(f, rb_next(f, n))

RECURSIVE Backward(_, _)
Backward(f, n) == IF n = NULL THEN <<>> ELSE Backward(f, rb_prev(f, n)) \o <<n>>

RECURSIVE Postorder(_, _)
Postorder(f, n) == IF n = NULL THEN <<>> ELSE <<n>> \o Postorder(f, rb_next_postorder(f, n))

\* prio_list links exactly the first node of every priority, in order: what
\* plist_test_check() asserts (lib/plist.c:185-212).
PrioListIsFirsts ==
    LET order == Entries(node_list, PlistHead)
        firsts == SelectSeq(order, LAMBDA n : \A i \in 1 .. Len(order) :
                              (KeyOf[order[i]] = KeyOf[n]) => \E j \in 1 .. i : order[j] = n)
    IN  /\ \A i \in 1 .. Len(firsts) :
              prio_list[firsts[i]] = firsts[IF i = Len(firsts) THEN 1 ELSE i + 1]
        /\ \A n \in Node \ Range(firsts) : list_empty(prio_list, n)

(* The three walks visit what is in the tree: rb_first() with rb_next(), and  *)
(* rb_last() with rb_prev(), give the order of the tree, and the postorder    *)
(* walk visits every node once, children before their parent (a caller may    *)
(* free what it has visited).  rb_first_cached(), which the schedulers pick   *)
(* from, is where the walk begins.  The walk of plist_add() along prio_list   *)
(* meets every priority once.                                                 *)
WalksAgree ==
    /\ PrioListIsFirsts
    /\ Resting =>
        LET f == tree.node
            post == Postorder(f, rb_first_postorder(tree))
        IN  /\ tree.leftmost = rb_first(tree)
            /\ Forward(f, rb_first(tree)) = TreeOrder
            /\ Backward(f, rb_last(tree)) = TreeOrder
            /\ Len(post) = Len(TreeOrder) /\ Range(post) = Range(TreeOrder)
            /\ \A i, j \in 1 .. Len(post) : post[j] \in Below(f, post[i]) => j < i

(* The augmented field of every node in the tree is the maximum over its      *)
(* subtree whenever an operation has returned, however many rotations and     *)
(* moves the operation took.                                                  *)
AugmentedIsMax ==
    Resting =>
        \A n \in Range(TreeOrder) :
            tree.node[n].aug = Max({ValOf[m] : m \in {n} \cup Below(tree.node, n)})

Tree == INSTANCE SortedList WITH list <- IF Resting THEN TreeOrder ELSE before

(* The tree implements the sorted list: seen by its callers, every insertion  *)
(* and erasure is one step of SortedList.                                     *)
TreeImplementsList == Tree!Spec

Prios == INSTANCE SortedList WITH list <- Entries(node_list, PlistHead)

(* plist_add(), plist_del() and plist_requeue() implement the sorted list.    *)
PlistImplementsList == Prios!Spec

(* Every insertion and every erasure returns: the loops that recolour and     *)
(* rotate end.                                                                *)
OperationsReturn == []<>Resting
====
