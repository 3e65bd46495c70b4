# Specifications of the kernel parts of linux-kernel-test

The repository compiles parts of the Linux kernel (scheduler, resource tree,
boot memory allocator, driver core, device tree, workqueues, data structures)
into one user-space program that is driven from menus.  The program has a
single thread: spinlocks are empty, timers never fire and `schedule()` returns
at once.  What can go wrong is therefore not a race but a *sequence* of legal
calls that leaves a data structure in a state the next call does not expect, an
arithmetic edge, a failure half way through an operation, cached state that
no longer matches what it was computed from, or a loop that does not end.  These
specifications are about that.

## 1. Parts of the system

| Part | Source | Specification |
|---|---|---|
| I/O resource tree | `kernel/resource.c` | `Resource`, `ResourceLaws` |
| Platform devices (claims, ids) | `drivers/base/platform_.c` | `Platform` |
| Boot memory allocator | `mm/memblock.c` | `Memblock`, `MemblockLaws`, `MemoryMap` |
| CPU priority map | `kernel/sched/cpupri.c` | `Cpupri`, `CpupriProofs` |
| CPU deadline heap | `kernel/sched/cpudeadline.c` | `Cpudl`, `CpudlCalls`, `CpudlProofs` |
| Deadline run queues, root domains, CPU activation and death | `kernel/sched/{deadline,core,topology}.c` | `DlRoot`, `DlRootProofs` |
| Real-time run queues: pushing, pulling, throttling, going offline | `kernel/sched/{rt,core,topology}.c` | `RtRoot` |
| Fair class, bandwidth amounts | `kernel/sched/{rt,fair,deadline}.c` | planned |
| Completions, wait queues | `kernel/sched/{completion,wait}.c` | planned |
| Workqueues (one pool, its workers and workqueues) | `kernel/workqueue.c` | `WorkqueueData`, `Workqueue`, `WorkqueueInv`, `WorkqueueLemmas`, `WorkqueueSteps`, `WorkqueueProofs` |
| Red-black tree, priority list | `lib/{rbtree,plist}.c`, `include/linux/{rbtree*,plist,list}.h` | `RbTree`, `Plist`, `ListHead`, `Ordered`, `SortedList` |
| List sort, heap sort | `lib/{list_sort,sort}.c` | `ListSort`, `HeapSort`, `Sorting`, `HeapSortProofs` |
| CPU hotplug state machine | `kernel/cpu.c` | not modelled, has no caller |
| Driver core, klist, kobject | `drivers/base/*.c`, `lib/{klist,kobject,refcount}.c` | planned |
| Device tree changesets, overlays, reserved memory | `drivers/of/*.c` | planned |
| XArray, IDR | `lib/{xarray,idr}.c` | planned |
| Maple tree, libfdt, tools libraries, formatting, menus | `lib/`, `scripts/`, `test/` | not modelled |

`PROJECT.json` lists every part with the reason where it is left out.

The parts interact like this.  `platform_device_add` inserts the resources of a
device into the resource tree and drivers request regions below them
(`Platform` EXTENDS `Resource`).  The deadline class reports the earliest
deadline of each run queue to the heap of the root domain the run queue is
attached to, and `find_later_rq` asks that heap (`DlRoot` EXTENDS `Cpudl`).  The
real-time class reports its highest priority to the priority map in the same way
and asks it where to push a task (`RtRoot` EXTENDS `Cpupri`).
`memblock` stands alone; `drivers/of` and the architecture code call it.  The
containers of `lib/` are used by the scheduling classes (tree: fair and deadline;
priority list: real-time), the sorts by the device tree code.

## 2. Modules

**Resource.**  `tree` maps every descriptor (`struct resource`) to its range,
flags, parent and list of children; the `child`/`sibling` pointers are one
sequence.  `live` are the descriptors `alloc_resource` has handed out.  `stale`
are descriptors whose `child` pointer `remove_resource` has left behind: a
driver initialises such a descriptor before it uses it again.  The helpers of
the code are operators on a tree `T` (`Conflict` and `Link` for
`__request_resource`, `Unlink` and `UnlinkKeepingKids` for
`__release_resource`, `InsertParent`, `RunLast` and `Adopt` for
`__insert_resource`, the `Gap` and `Slot` operators for `__find_resource`,
`SplitStep` for one round of `__reserve_region_with_split`), and each exported
operation is one action.  Addresses are `0..MaxAddr` and wrap as
`resource_size_t` does.  Not kept: names, `desc`, and flags other than BUSY and
SYSRAM.  A descriptor out of the tree and without children loses its range: the
driver fills it in before the next call anyway.

**ResourceLaws** adds the queries (`find_next_iomem_res` and the walkers) and states what compound operations and queries compute on
any reachable tree.

**Platform** adds the registered devices, their automatic ids and the allocator
`platform_devid_ida` of those ids.  Adding a device is one action that goes through
id, resources and `device_add`, each of which may fail; the error path is part of it.  The callers add and delete devices
in nesting order.

**Memblock.**  `memory` and `reserved` are `[regs, total, max]`: the array of
regions with its dummy entry, `total_size`, an unsigned number, and the capacity.
Nothing calls `memblock_allow_resize`, so an array never grows and `-ENOMEM` is a
normal outcome.  `kernel_end` is `end` in this port, so the bottom-up search is dead
code.  `InsertRegion`, `RemoveRegion` and `Split` edit one region and adjust
`total_size` as the code does there; `AddRange`, `Isolate`, `RemoveRange`,
`SetClrFlag` and `SetNode` are the editing functions made of them, `FreeRanges` and
`FreeRangesReverse` the two lockstep iterators with their two indices,
`AllocRangeNid` and `AllocInternal` the chain of retries of an allocation.
`slab_state` is `UP` from the start of this program, so that `memblock_alloc` gets its
memory from `kzalloc_node` and only the `memblock_phys_alloc` functions reach the
arrays: `SlabAvailable` is true in the run `memblock`, and false in `memblock_map`,
which is the state that the commented-out `slab_state_set(DOWN)` of `mm-test.c`
would make.

**MemoryMap** is the abstract specification: for each address the attributes of
the memory there, and whether it is reserved; a step edits one range of a
length that callers ask for, or nothing.  **MemblockLaws** shows that
`Memblock` implements it, compares the searches with definitions over single
addresses, and adds the operations that cut memory down, which the program
exports but never calls.

**Cpupri** has the masks, counts and levels as one value `pri`, `cpupri_set` and
`cpupri_find` as operators on it, and `SetCalls`, one map under arbitrary calls,
which the proofs are about; **Cpudl** the heap as an array used both for slots
and for back pointers, as operators on a heap value; **CpudlCalls** one heap
under arbitrary calls.  The loops of `cpudl_heapify_up` and `_down` are a turn
(`UpTurn`, `DownTurn`) and a recursive function that repeats it more often than
the code can; a turn after the last one changes nothing.

**RtRoot** has a run queue per CPU (`rq`: the lists by priority,
`highest_prio.curr` and `.next`, `pushable_tasks`, `overloaded`, `rt_queued`,
`rt_throttled`, `online`, the current task and its need to reschedule), the tasks,
`pri`, and `rto_mask` with `rto_count`.  The functions of `rt.c` are operators on
a state `S` that they pass on, because they nest (a switch pushes, a push
dequeues, a dequeue may throttle); each entry point is one action: `WakeUp`,
`Schedule` with the old task sleeping or not, `SetScheduler`, `Tick`,
`PeriodTimer`, `Activate`, `Deactivate`, `Attach`.  `S.me` is
`smp_processor_id()`: `resched_curr` marks only the calling CPU's task, for another
CPU it sends nothing in this program.  `S.spent` are the CPUs whose runtime is
used up when `update_curr_rt` looks, chosen once per call: the amounts of
runtime, and what CPUs lend each other, are not kept.  The fair class decides
freely among its tasks; `Other` stands for one that never sleeps.  The model
takes tasks of the root task group without priority boosting, one root domain,
one scheduling domain over all CPUs, fixed affinities, and calls made on the CPU
they are about.  `__sched_setscheduler` is called with a changed priority only;
no task is woken while no CPU it may use is active.  `scheduler_tick` and the
period timer are modelled from their code although no menu reaches them.  Left
out: `migrate_tasks` of a dead CPU; `try_to_wake_up` of a queued task and
`test_sched_deactivate_task` of the running one, both of which overwrite `on_rq`
for the tests; a run queue without a current task; and `RT_PUSH_IPI`, because
`include/test/config.h` has no `CONFIG_IRQ_WORK`.

**DlRoot** has the tasks queued per CPU, `earliest_dl.curr`, `rq->rd`,
`rq->online`, `cpu_active_mask` and one heap per root domain.  Actions:
queueing and dequeueing a task, `sched_cpu_activate`, `sched_cpu_deactivate`,
`sched_cpu_dying` with the whole loop of `migrate_tasks` (`MigrateOne` is a turn of
it), and `rq_attach_root`.  As in the program, all CPUs are active and online at
first, a CPU may die while it is active, and tasks are queued on run queues that are
offline (`__sched_setscheduler` and the replenishment queue a task where it is).
`sched_cpu_activate` and `sched_cpu_deactivate` have no caller in the program and
are modelled from their code.  When the fallback of a task is the dying CPU itself,
`migrate_tasks` does not return; the action then is not taken.
A root domain nothing is attached to is freed and starts again from
`cpudl_init`.  Deadlines exclude 0, which the code uses for "none".

**RbTree** works on single stores.  Every branch of `__rb_insert`,
`__rb_erase_augmented` and `____rb_erase_color` is a list of the stores it makes,
in program order; an action chooses the branch (`InsertLoop`, `EraseLoop`), and
`RbStore` does one store at a time, so that every intermediate tree is a state.
`job` is where the code goes on afterwards.  The mirrored halves of the code are
one definition with a side as parameter.  **Plist** has the two rings of
`lib/plist.c` on the list primitives of **ListHead**.  **Ordered** puts the same
nodes into both, and shows that each implements **SortedList**: a list in order
of keys, first come first served among equals.

**ListSort** has the links of the list, the pending sublists chained through
`prev`, and one action per turn of the loops of `list_sort`.  **HeapSort** has
the array, the byte offsets `a`, `b`, `c`, `n` and one action per turn of each
loop of `sort_r`; `input` keeps what it was called with, and `HeapSortCall` is one
call on any elements of any size.  **Sorting** runs both on one input.

**Workqueue** and **WorkqueueData.**  `WorkqueueData` has the lists and counters,
and the helpers that update them as operators on a state `S`; `Workqueue` has the
variables and the actions.  There are no kernel threads in the program: `wake_up_worker`
calls `worker_thread`, which may wake another worker out of `process_one_work`.
`stack` is this stack of calls, and `worker_thread` is cut at its labels and at
the calls that nest.  `worker_thread` returns only when its worker dies, after a
fixed number of turns, and the worker is freed while the idle list still leads to
it; as long as its memory is not handed out again, a later wake-up finds its
`pool` pointer NULL and returns.  `pool`, `pwq` and `work` have the fields of the
code that decide something.  All workqueues of the model use one pool, bound or
unbound.  The branch of `process_one_work` for a work item that another worker is
executing already is left out because it cannot be reached (`PendingInOnePlace`),
and so is the list of linked works, which only flushing fills.

`nr_in_flight` is an array indexed by colour.  `__queue_work` counts an item under
the `work_color` of the `pool_workqueue`, which stays 0 because nothing modelled
flushes; `pwq_dec_nr_in_flight` counts it off under the colour it reads back from
the item's data, and there the four bits of the colour are or-ed onto bits 4 to 7
of the address of the `pool_workqueue` (constant `AddressBits`).
`include/linux/workqueue.h:63` says that the layout "makes pwqs aligned to 256
bytes", but the memory comes from an allocator that aligns to 16 and the `BUG_ON`
of `init_pwq` (`workqueue.c:4054`) is commented out.  So in a `pool_workqueue` with other
bits there, `nr_in_flight[0]` is never counted down and another entry falls below
zero; `InFlightAccounts` states exactly that, and that the sum is right.  Of what
is modelled nothing reads the array; `pwq_busy`, which looks at its entries
when a workqueue is destroyed, is not modelled.

Freezing and thawing are compiled only with `CONFIG_FREEZER`, which the headers
this program is built with leave undefined; they are modelled as the source has
them because they are the other caller of `pwq_adjust_max_active`.  The idle list
of the model keeps a dead worker in its place.  In the program `free` may
overwrite the links in it, so once a worker has died only the head of the list
means anything, and only the head is looked at by `wake_up_worker`.  `NoneStranded`
speaks of inactive items.  An item on the worklist of a pool whose first idle
worker is dead is not run any more, and no property says it is.

Operators whose comment starts with "Mutant" are deliberately wrong variants of
the definition that follows; they show that the properties notice the mistake.

## 3. Runs

Fairness is assumed only of code that is running: an operation that was called
goes on until it returns (`WF` of the steps inside the call), because the program
has one thread and the caller waits.  Nothing obliges a caller to make a call.
Under this assumption `OperationsReturn`, `SortsReturn` and `CallsReturn` say
that the loops end; all other properties are safety properties.

| Run | Question | Bounds | Result |
|---|---|---|---|
| `resource` | does every sequence of operations keep the tree sorted, nested and doubly linked, and do removal, allocation, reallocation, expansion, split reservations (also when descriptors run out) and the walkers compute what they promise on every such tree? | 2 drivers' descriptors, 2 to allocate of which 1 in use between calls, addresses 0..3, sizes 1-2 | holds |
| `platform` | do claims and ids match the registered devices after any failure? | devices with 2 and 1 resources, 1 region | holds |
| `memblock` | does `total_size` follow every edit, do iterators and binary search agree with single addresses, does a memory limit keep the lowest memory? | 5 addresses, 4 entries per array, NOMAP; all operations, cutting and trimming included | holds |
| `memblock_map` | are the arrays sorted, disjoint and minimal, do they implement the address map, is an allocation the highest fit in order of preference? | 5 addresses, 3 entries per array, 1 node, MIRROR, 2 limits | holds |
| `rt_root` | do the real-time run queues, the priority map and the overload mask agree, is the search of the map right, and does a CPU that switches leave no task waiting that could run elsewhere? | 2 CPUs of which 1 goes offline, 3 tasks of which 1 is pinned, 2 RT priorities | holds |
| `cpudl` | is the heap a heap, and its search right, across the wrap-around? | 5 CPUs, 3 deadlines around 2^w | holds |
| `dl_root` | do the heaps tell the truth about the run queues that are online, and does a search miss none of them? | 3 CPUs of which 2 are hotplugged and 1 changes its root domain, 3 tasks, 2 deadlines, 2 root domains | holds |
| `dl_root_hotplug` | does a search name only CPUs with later deadlines? | as above | violated |
| `ordered` | do tree and priority list implement a sorted list, is the tree red-black at rest and free of loops at every store, do the cached and augmented fields agree with it, do all operations return? | 8 nodes, 6 different keys | holds |
| `sorting` | do the invariants that the comments of `list_sort` and `sort_r` state hold, is `list_sort` stable, do both sorts agree and return? | all inputs of up to 8 elements with 2 keys and 6 with 3 keys, some of 13, 20 and 27; element sizes 4 and 6 | holds |
| `workqueue` | is no work item lost, doubled, stranded or overtaken, do the counters of pool and workqueues agree with the lists, do all calls return? | 3 items, 2 workqueues (one freezable, its `pool_workqueue` aligned to 256 bytes; one CPU-intensive, aligned to 16), 5 workers, limits 1 and 2 | holds |
| `workqueue_dying` | is a worker that dies on no list? | as above | violated |

Why the bounds are enough to be interesting.  Four addresses and three
descriptors give every relation two ranges can have (equal, nested, touching,
overlapping, apart) at both ends of the address space, and trees of depth three.
Four entries are the least capacity at which an array can hold a hole and be cut
twice; with three and five addresses `reserved` can be full while addresses are
still free, and regions compete for an allocation: the highest, one on the node asked
for and one that is mirrored can be three different ones.  Five CPUs give a heap of three levels, in which an entry
that replaces a removed one can move up as well as down.  Two CPUs and three
tasks let a run queue be overloaded, throttled and offline in every order, with a
task that cannot move among those that wait; with two CPUs a push seldom moves a
second task, and the priority map has only four levels, which its proofs (section
4) make up for.  Three tasks on three
CPUs with two root domains let one CPU die with several tasks while others, online,
offline or in another domain, take them over; entries that were made while a CPU was
offline and then left behind in another domain multiply the states, hence the CPUs
that are hotplugged (`Hotplug`) and moved (`Movable`) are bounded apart.  Eight nodes make every case of the rebalancing
happen, on both sides and after another case of the same operation; two pairs of them
have equal keys (a third node with the same key would multiply the states by three), so
`plist_requeue` never passes more than one node of its own priority.  Eight
elements are two full rounds of doubling of `list_sort`; the longer inputs add
sublists of size 16; an element size of 6 is the smallest even one that is no
power of two.  Five workers are one more than three items ever use, because a
worker is created only while an item waits and no idle one is left: with four the
reachable states are the same.  `nr_in_flight[0]` of the unaligned `pool_workqueue`
needs no bound, because workers die after a fixed number of turns and an item that
no worker takes cannot be queued again.

### What the violated runs show

* `dl_root_hotplug`: `inc_dl_deadline` and `dec_dl_deadline` do not ask
  `rq->online` (their RT counterparts do), so a task queued on an offline run queue
  enters the run queue into the heap.  When it comes online, `rq_online_dl` marks the
  CPU free, and `cpudl_set` does not take the mark back, because the CPU is in the
  heap already.  It is both free and busy, and the search names it for a task with a
  later deadline.  What is left of the promise is `SearchMissesNone`.

* `workqueue_dying`: `worker_thread` marks its worker to die after it has put it
  on the idle list, and frees it there.  The counters keep counting it.

### What the models assume of callers

Five assumptions are needed; the code does not check them.

* A descriptor that `remove_resource` took out is initialised before it is used
  again (`stale`): `old->child` still points to the children that moved up.
* `adjust_resource` is asked for ranges that do not wrap: `start + size - 1` is
  not checked for overflow.
* Regions that `__release_region` frees have no children.
* A descriptor that `release_resource` took out together with its children has lost
  them again before it is inserted or allocated anew: `__insert_resource` overwrites
  `new->child` when it adopts others.
* A platform device is added before anything inside its ranges is claimed and
  deleted after all of that is released.  Otherwise `insert_resource` moves the
  existing claims below the new one, and `release_resource` of the new one, also
  on the error path of `platform_device_add`, takes them all out of the tree.

Some limits of the code show in how a property is stated.  The walkers end at
`start >= end` although the range is inclusive, so `WalkReportsMatches` leaves
out a match of which only the last address is left; and a walk that reports the last
address there is goes on at `res.end + 1`, which is 0: it calls the callback with all
that matches, also below the range asked for, and ends only when the callback says so.
Nothing in this program calls the walkers.  `memblock_cap_memory_range`
can cut a NOMAP region in two that no later addition with nothing to insert
merges, so `ArraysOK` (minimality) is checked without the cutting operations.
`memblock_trim_memory`, which has no caller, shrinks regions without `total_size`
following; `TotalsOK` says by how much, and that nothing repairs it before the array
is empty and gets a new region: when the last region is removed before, the
`WARN_ON(type->total_size != 0)` fires.  (A region that starts in the last, partial
unit of alignment of the address space, where `round_up` wraps to 0, is beyond the
bounds.)

## 4. Proofs

The runs check small instances; the theorems hold for every value of the
constants that the named assumptions of the modules allow.

| Theorem | Module | Statement | In every instance of |
|---|---|---|---|
| `MapsAlwaysAgree` | `CpupriProofs` | `SetCalls => [](PriOK /\ MapsAgree)` | CPUs, priorities |
| `FindAlwaysLowest` | `CpupriProofs` | `SetCalls => []FindIsLowest` | CPUs, priorities |
| `HeapAlwaysOK` | `CpudlProofs` | `CallsSpec => []HeapOK` | CPUs, deadlines |
| `FallbackIsLatest` | `CpudlProofs` | `CallsSpec => []FindIsLatest` | CPUs, deadlines |
| `CallsKeepOthers` | `CpudlProofs` | `CallsSpec => OthersKeepDeadline` | CPUs, deadlines |
| `HeapsAlwaysMatch` | `DlRootProofs` | `Spec => []HeapsMatchQueues` | CPUs, tasks, deadlines, root domains |
| `SearchAlwaysMissesNone` | `DlRootProofs` | `Spec => []SearchMissesNone` | CPUs, tasks, deadlines, root domains |
| `SortSorts` | `HeapSortProofs` | `HeapSortCall => []HeapInvariant` | elements, number and size of them |
| `CountersAlwaysAgree` | `WorkqueueProofs` | `Spec => []CountersAgree` | workqueues and their alignment, items, workers, limits |
| `PendingAlwaysInOnePlace` | `WorkqueueProofs` | `Spec => []PendingInOnePlace` | workqueues, items, workers, limits |
| `NoneEverStranded` | `WorkqueueProofs` | `Spec => []NoneStranded` | workqueues, items, workers, limits |

### Loops without induction

The prover cannot instantiate an induction theorem, and knows nothing of a
recursive function.  `LeastNumber` gives what the proofs use instead, each from
the least counterexample (`LeastNatural`, from the well-foundedness of `<`):
the turns of a loop exist as a function of their number (`TurnsExist`); what each
turn keeps holds after any number (`TurnsStay`); and turns that lower a measure
until they change nothing are at rest after as many as the measure is high
(`TurnsRest`).  A loop of the code that a model writes as
`turn[n \in 0..bound]` is therefore proved in two parts: what one turn does, and
that the bound is not less than the measure, so that the model stops where the
code does.  The measures are the depth left below or above a slot (heap), the
tasks still queued (`migrate_tasks`) and the inactive items
(`pwq_adjust_max_active`).

### The priority map

`PriOK /\ MapsAgree` is inductive as it stands: the counts are natural numbers
only because they equal the sizes of the masks, and the masks can be updated one
CPU at a time only because they are determined by the levels, so neither conjunct
is inductive alone.  From it, the least candidate level is the least level of an
allowed CPU below the task's.  Assumed (`CpupriAssumption`): the CPUs are a finite
set, `0 < MAX_RT_PRIO < MAX_PRIO`.  `SetCalls` starts from `cpupri_init` and
allows any `cpupri_set` call; that `RtRoot` changes `pri` only through
`CpupriSet` is seen in its text, not proved.

### The deadline heap

The inductive invariant is `Good`: `HeapOK`, and the deadlines of the live slots
are ones that tasks use.  That is needed because `dl_time_before` is an order
only of deadlines within half of the number space, not of the zero an unused
slot holds.  Inside an update the invariant is broken at one slot, the hole that
the entry in hand goes to (`Hole`: all other slots agree with their back
pointers).  A turn moves the hole by one level and keeps `Hole` together with
the order of all pairs that do not touch it; the last store closes it.
`CallsKeepOthers` is an action property: it follows the recorded deadline of
every other CPU through the moves.  Assumed (`CpudlAssumption`): at least one
CPU, a number space of at least 2, and deadlines of which `dl_time_before` is a
strict total order.

### The heaps of the root domains

`IInv` of `DlRootProofs` says of every root domain that its heap is `Good` and
shows what each run queue that is online in it has queued (`Records`), and that
`earliest_dl.curr` is the earliest queued deadline.  It deliberately says nothing of
run queues that are offline or attached elsewhere: their entries may be stale.  What
carries the argument is that every operation on one CPU leaves what the heap
records of all others alone (`Alike`), and that `cpudl_set` and `cpudl_clear` are
right for a CPU whatever the heap recorded of it before.  The migration loop is
followed turn by turn: the tasks of the dying CPU leave for CPUs of any root
domain.  `SearchMissesNone` then needs that the root of a heap is a latest entry
(`RootIsLatest`).  Assumed (`DlRootAssumption`): finitely many tasks, and no deadline
is 0.

### Heap sort

`HeapInvariant` states the loop invariants of the comment in `sort_r` for each of
its loops, and is inductive as it stands; the proof is about positions instead of
byte offsets (`PositionsOK`), and shows apart that `parent`, with its
`size & -(i & lsbit)`, maps the offset of a position to the offset of its parent
for every element size.  That no element is lost is counted by swaps: an exchange
of two positions is a bijection of the positions that hold a value.  Nothing is
assumed of the elements but that they are compared as integers, nor of the
sizes but that an element has one: that byte offsets do not overflow `size_t` is
part of having the array in memory.

### Workqueues

The inductive invariant is in `WorkqueueInv` and consists of

* `Items`: every item is in exactly the place its data names: nowhere, on the
  worklist, on the inactive list of its workqueue, or held by one worker.
* `Accounts`: `nr_in_flight`, `refcnt` and `nr_active` of every pool_workqueue count
  the items whose data names it, `nr_in_flight` in the sum of entry 0 and, if it is
  another, the entry that its address selects.  Counting items by their data and not by the
  lists makes an action change a count by one exactly where it changes one item.
* `AllSettled`: no workqueue below its limit has inactive items.
* `IdleOK`: the idle list, its length and the number of workers agree with the flags.
* `Calls`: where each call of `worker_thread` on the stack stands and what its
  worker's flags are then.  All calls but the innermost are at the wake-up inside
  `process_one_work`, and their workers do not count as running; no two belong
  to the same worker; the innermost one determines `nr_running`.  Without this
  the counter of running workers and the reuse of a worker's memory could not be
  followed through nested calls of any depth.

`WorkqueueLemmas` says what each helper does to a state, `WorkqueueSteps` what each
step of a call does to `Calls` and the rest, and `WorkqueueProofs` puts the
actions together, adds the loop of `pwq_adjust_max_active` and derives the three
properties.  Assumed (`WorkqueueAssumption`): finitely many items and workers,
limits of at least 1, and nothing of the addresses.  The entries of `nr_in_flight`
are integers without a width: an `int` overflows after 2^31 items.

### Only model-checked

* The liveness properties `OperationsReturn`, `SortsReturn` and `CallsReturn`:
  the prover has no fairness.
* `FifoPerWorkqueue`: it speaks of the items of one workqueue filtered out of the
  worklist, and what a filter does to a sequence needs induction over it.
* `Memblock` and its refinement of `MemoryMap`: the editing functions are folds
  over the array.  `RtRoot`, `RbTree`, `ListSort` and `Plist`: their loops and
  the walks that their properties define are RECURSIVE operators.
* `Resource` and `Platform`: the invariant relates lists of children at every depth
  and has not been proved.

## 5. Not modelled

* CPU hotplug (`kernel/cpu.c`): nothing in the program calls `cpu_up` or
  `cpu_down`, and the thread that would run callbacks on the other CPU is a stub.
* Flushing, cancelling and draining of workqueues: they wait for completions,
  which return at once in this program, and `get_work_pool` and `get_work_pwq`
  mask the pointer in a work item differently, so that what they find depends on
  where `malloc` has put a `pool_workqueue`.  Timers of the workqueue code
  (idle workers, mayday) never fire, because `mod_timer` is empty.
* `rb_replace_node` has no caller.
* The maple tree, the imported libraries, formatting and the menus.

## 6. Plan

1. Real-time bandwidth on top of `RtRoot`: the amounts of `rt_runtime` that
   CPUs lend and take back, so that `BUG_ON(want)` of `__disable_runtime` becomes
   a property; task groups; `migrate_tasks`.
2. XArray against a plain map.
3. Reserved memory of the device tree on top of `Memblock` (static regions,
   dynamic allocation, overlap check).
4. Deadline bandwidth: `running_bw`, `this_bw` and the admission test through
   enqueue, block, migrate and `switched_from`; then CFS bandwidth.
5. Changesets of `drivers/of/dynamic.c`: apply, revert after a failure at any
   entry, refining an all-or-nothing specification.
6. klist and driver binding; completions.
7. Proofs: `TreeOK` of `Resource` as an inductive invariant, operation by
   operation; sortedness and totals of `Memblock`'s editing functions, once their
   folds are loops written as turns like those of section 4; `DlRoot` as the
   environment of a heap, as a refinement of `CpudlCalls`.
