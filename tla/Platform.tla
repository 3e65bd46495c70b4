------------------------------ MODULE Platform ------------------------------
(***************************************************************************)
(* Platform devices on top of the resource tree: platform_device_add and   *)
(* platform_device_del of drivers/base/platform_.c claim and release the   *)
(* descriptors pdev->resource[] of a device, one by one, and an automatic  *)
(* device id.  Drivers of registered devices request regions inside.       *)
(***************************************************************************)
EXTENDS Resource

CONSTANTS
    Dev,         \* platform devices
    DevRes,      \* pdev->resource[]: device -> sequence of descriptors
    MaxId,       \* ids the allocator platform_devid_ida can hand out: 0..MaxId
    AUTO         \* PLATFORM_DEVID_AUTO

ASSUME PlatformAssumption ==
    /\ DevRes \in [Dev -> Seq(Drv)]
    /\ MaxId \in Nat /\ AUTO \notin Nat

VARIABLES
    registered,  \* devices that device_add accepted
    id,          \* pdev->id, AUTO while the device has none
    ida          \* platform_devid_ida: the ids that are taken

pvars == <<tree, live, stale, registered, id, ida>>

\* ida_simple_get, when it has an id to give
NextId == Min((0..MaxId) \ ida)

\* Descriptors of d that are not in the tree get the ranges R before the
\* device is added; one that still has children keeps its range.
WithRanges(T, d, R) ==
    [r \in Res |->
        IF r \in ToSet(DevRes[d]) /\ T[r].parent = NULL /\ T[r].kids = <<>>
        THEN LET g == R[SelectInSeq(DevRes[d], LAMBDA x : x = r)]
             IN  [T[r] EXCEPT !.start = g[1], !.end = g[2]]
        ELSE T[r]]

\* The tree after the first i descriptors of d were inserted.
Inserted(T, d, i) ==
    LET after[n \in 0..i] ==
            IF n = 0 THEN T ELSE DoInsert(after[n-1], Root, DevRes[d][n])
    IN  after[i]

\* How many descriptors insert_resource accepts before the first failure.
Accepted(T, d) ==
    LET ok(n) == InsertConflict(Inserted(T, d, n - 1), Root, DevRes[d][n]) = NULL
        bad == {n \in 1..Len(DevRes[d]) : ~ok(n)}
    IN  IF bad = {} THEN Len(DevRes[d]) ELSE Min(bad) - 1

\* Mutant: the rollback leaves descriptor 1 in the tree.
ReleasedDownTo2(T, d, i) ==
    LET after[n \in 0..i] ==
            IF n = 0 THEN T
            ELSE LET U == after[n-1]
                     r == DevRes[d][i + 1 - n]
                 IN  IF U[r].parent = NULL \/ n = i THEN U
                     ELSE DoRelease(U, r, TRUE)
    IN  after[i]

\* release_resource of descriptors i, i-1, ..., 1 of d, those that are linked.
ReleasedDown(T, d, i) ==
    LET after[n \in 0..i] ==
            IF n = 0 THEN T
            ELSE LET U == after[n-1]
                     r == DevRes[d][i + 1 - n]
                 IN  IF U[r].parent = NULL THEN U ELSE DoRelease(U, r, TRUE)
    IN  after[i]

\* Mutant: the last descriptor stays.
ReleasedUpToLast(T, d) ==
    LET after[n \in 0..Len(DevRes[d])] ==
            IF n = 0 THEN T
            ELSE LET U == after[n-1]
                     r == DevRes[d][n]
                 IN  IF U[r].parent = NULL \/ n = Len(DevRes[d]) THEN U
                     ELSE DoRelease(U, r, TRUE)
    IN  after[Len(DevRes[d])]

\* release_resource of descriptors 1, 2, ... of d.
ReleasedUp(T, d) ==
    LET after[n \in 0..Len(DevRes[d])] ==
            IF n = 0 THEN T
            ELSE LET U == after[n-1]
                     r == DevRes[d][n]
                 IN  IF U[r].parent = NULL THEN U ELSE DoRelease(U, r, TRUE)
    IN  after[Len(DevRes[d])]

\* A descriptor without parent and children has no range of its own.
DroppedAll(T, d) ==
    [r \in Res |-> IF r \in ToSet(DevRes[d]) THEN Dropped(T, r)[r] ELSE T[r]]

PInit ==
    /\ Init
    /\ registered = {}
    /\ id = [d \in Dev |-> AUTO]
    /\ ida = {}

\* ida_simple_remove of the device's id
FreeId(ids, ids_of, d) ==
    /\ ida' = ids \ {ids_of[d]}
    /\ id' = [ids_of EXCEPT ![d] = AUTO]

\* platform_device_add, when ida_simple_get fails
PlatformDeviceAddNoId(d) ==
    /\ d \notin registered
    /\ UNCHANGED pvars

\* platform_device_add: the id, then every descriptor, then device_add, which
\* may fail.  A failure gives the id back and releases what was inserted.
PlatformDeviceAdd(d, R, device_add_fails) ==
    /\ d \notin registered /\ ~(0..MaxId \subseteq ida)
    /\ LET T == WithRanges(tree, d, R)
           n == Accepted(T, d)
           U == Inserted(T, d, n)
           ids == ida \cup {NextId}
           ids_of == [id EXCEPT ![d] = NextId]
       IN  IF n < Len(DevRes[d]) \/ device_add_fails
           THEN /\ FreeId(ids, ids_of, d)
                /\ tree' = DroppedAll(ReleasedDown(U, d, n), d)
                /\ UNCHANGED registered
           ELSE /\ ida' = ids /\ id' = ids_of
                /\ tree' = U
                /\ registered' = registered \cup {d}
    /\ UNCHANGED <<live, stale>>

\* platform_device_del
PlatformDeviceDel(d) ==
    /\ d \in registered
    /\ FreeId(ida, id, d)
    /\ tree' = DroppedAll(ReleasedUp(tree, d), d)
    /\ registered' = registered \ {d}
    /\ UNCHANGED <<live, stale>>

DevRanges(d) == [1..Len(DevRes[d]) -> {r \in Ranges : r[1] <= r[2]}]

\* Drivers claim and release regions below what is registered.
Regions ==
    /\ \E p \in InTree, s \in Addr, n \in Sizes :
          RequestRegion(p, s, n) \/ ReleaseRegion(p, s, n)
    /\ UNCHANGED <<registered, id, ida>>

\* Devices come and go in nesting order: a device is added before anything
\* inside its ranges is claimed and deleted after all of that is released.
Encloses(d, R) ==
    \E i \in 1..Len(DevRes[d]), r \in InTree \ {Root} :
        /\ R[i][1] <= tree[r].start /\ tree[r].end <= R[i][2]

HoldsOthers(d) ==
    \E i \in 1..Len(DevRes[d]) :
        ToSet(tree[DevRes[d][i]].kids) \ ToSet(DevRes[d]) # {}

PNext ==
    \/ \E d \in Dev, fails \in BOOLEAN :
          \E R \in DevRanges(d) :
             ~Encloses(d, R) /\ PlatformDeviceAdd(d, R, fails)
    \/ \E d \in Dev : PlatformDeviceAddNoId(d)
    \/ \E d \in Dev : ~HoldsOthers(d) /\ PlatformDeviceDel(d)
    \/ Regions

PSpec == PInit /\ [][PNext]_pvars

-----------------------------------------------------------------------------
(* Properties.                                                             *)

\* Device ids lie in the range of the id allocator.
PTypeOK ==
    /\ TypeOK
    /\ registered \subseteq Dev
    /\ id \in [Dev -> (0..MaxId) \cup {AUTO}] /\ ida \subseteq 0..MaxId

\* Every resource of a registered device is reachable in a well-formed tree, so
\* that any later claim of an overlapping range is refused, and no resource of
\* an unregistered one is: platform_device_del "will also release all memory-
\* and port-based resources owned by the device", and no others.  No id is
\* leaked and no id is given twice, also when adding a device fails half way.
ClaimsMatchDevices ==
    /\ PTypeOK /\ TreeOK
    /\ \A d \in Dev : \A i \in 1..Len(DevRes[d]) :
          DevRes[d][i] \in InTree <=> d \in registered
    /\ \A d \in Dev : id[d] # AUTO <=> d \in registered
    /\ ida = {id[d] : d \in registered}
    /\ \A d, e \in registered : id[d] = id[e] => d = e

\* A platform_device_add that fails leaves the tree as it was.
FailedAddLeavesNoTrace ==
    [][(registered' = registered /\ live' = live) => tree' = tree]_pvars
=============================================================================
