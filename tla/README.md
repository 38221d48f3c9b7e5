# Verification of the Rtcr checkpoint/restore component

This directory holds TLA+ specifications of Rtcr, the userland
checkpointer/restorer for Genode on Fiasco.OC found under `src/src/rtcr`, the
TLC instances that check them, and TLAPS proofs about incremental checkpointing,
pausing, the stored lists and the RAM session. Paths below are relative to `src/src/rtcr` unless
they start with `src/`.

## 1. The system

Rtcr is the parent of a *target* component. It starts the target with
intercepted sessions, records in *online lists* what the target obtains through
them, copies this into *stored lists* and copy dataspaces when
`Checkpointer::checkpoint()` is called, and recreates it all in a fresh child
when `Restorer::restore()` runs.

Threads that matter:

| thread | runs | shares with the others |
|---|---|---|
| threads of the target | the target's code; block in calls to sessions and in page faults | memory, region maps |
| resources entrypoint (`_resources_ep`) | every intercepted session, one request at a time | online lists, `cpu_threads_lock` and its like |
| "managed dataspace pager", one per RAM session | `Fault_handler::entry` | `Designated_dataspace_info` records, region maps |
| caller of `checkpoint()` | the checkpointer | reads all online lists without locks, changes the designated dataspaces |

### Inventory

| component | state it keeps | operations | hard behaviour | what makes it correct |
|---|---|---|---|---|
| Incremental checkpointing: `intercept/ram_session.cc` (pager), `online_storage/ram_dataspace_info.h`, `checkpointer.cc` | per designated dataspace the flag `attached`, the kernel's region map, fault signals, `_memory_to_checkpoint` | attach on fault; mark, read, unmark the capability map; resolve; detach; copy | pager and checkpointer share records without a lock; faults are counted, not identified | a change is stored or still marked; only threads that were set running late change memory meanwhile; every fault is resolved |
| Stored lists: `checkpointer.cc`, `offline_storage/` | stored infos per list, `_copy_dataspaces` with counts, `_region_map_dataspaces` | two loops per list: create/update, then delete; reference and release copies | online lists change while they are walked; badges are reused; capabilities go stale | counts exact; stored = online, but for regions that are confused with their neighbours; everything stored is saved |
| CPU session: `intercept/cpu_session.cc`, `cpu_thread_component.cc` | `cpu_threads`, `started`, `paused` | create, start, pause, resume, kill; `pause_threads`, `resume_threads` | requests served between two pauses; a lock taken twice | nothing runs during a checkpoint; callers get answers |
| RAM session: `intercept/ram_session.cc` | `ram_dataspaces`, region map per managed dataspace | `alloc` in granules, `free` | failure in the middle of `alloc`; the pager walks the list | no leak, no info without its dataspace |
| Region map: `intercept/region_map_component.cc` | `attached_regions` | `attach`, `detach`, `fault_handler` | kernel state and list change in two steps; inclusive bound in `find_by_addr` | list = kernel's region map |
| RM session: `intercept/rm_session.cc` | `region_maps` | `create`, `destroy` | `destroy` takes `region_maps_lock` twice | as for the CPU session |
| PD session: `intercept/pd_session.cc` | signal sources, contexts, native capabilities, three region maps | allocate and free each | as the stored lists | stored = online |
| Timer, LOG, ROM sessions and the roots | session lists, `timeout`, sigh | forwarded to the parent; create, upgrade, destroy sessions | `_destroy_session` without the lock | every session is found by its badge |
| Restorer: `restorer.cc`, `util/sort.h` | badge mapping, capability-map infos, `_memory_to_restore` | identify or recreate; restore state; capability map and space; content | order of creation as identity; order of the lists against what refers to what; insertion into a linked list in the child's memory; direction of a copy | every object has one counterpart, with its state; every capability leads to the counterpart; content = stored content |
| Target child: `target_child.cc` | `_in_bootstrap`, `_restorer`, roots | service lookup, `start`, restore hook | restore runs within the first LOG request | bootstrap ends once, restore runs once |
| Capability map: `src/genode_patched_files/.../cap_map.cc` | tree of indices with reference counts | insert at an index | double insertion | one index per capability |
| Rtcr service, printing, tests, run scripts | none | | | |

`PROJECT.json` lists the hazards with the line where each one bites and the
property that covers it, or why none does yet.

## 2. Modules

| module | models | composes |
|---|---|---|
| `MemorySnapshot` | what a checkpoint promises about memory (abstract) | |
| `IncCheckpoint` | target threads, pager and checkpointer around managed dataspaces | refines `MemorySnapshot` |
| `IncCheckpointProofs` | theorems about `IncCheckpoint` | extends `IncCheckpoint` |
| `RamSession` | managed dataspaces allocated and freed under a walking pager | |
| `RamSessionProofs` | theorems about `RamSession`, its memory and its pager | extends `RamSession`, `ListFacts` |
| `StoredState` | the stored lists against the online lists, counted copies | |
| `ListFacts` | lemmas about lists with their head first: inserting, removing, counting, turning round; induction and recursive functions | |
| `StoredStateProofs` | theorems about `StoredState` | extends `StoredState`, `ListFacts` |
| `CpuSession` | pausing and resuming against the requests of the target | |
| `CpuSessionProofs` | theorems about `CpuSession` | extends `CpuSession` |
| `TargetObjects` | the RPC objects of a component, online or stored, and what bootstrap makes | |
| `TargetSessions` | the requests of a running target to all intercepted sessions, its capability space | `TargetObjects` |
| `StoredSessions` | all stored lists of `Target_state`, one call of `_prepare_*` at a time | `TargetSessions` |
| `Restorer` | `Restorer::restore()` in a fresh child | `StoredSessions` |
| `CheckpointRestore` | a target that is checkpointed, maybe again, and restored; the properties | the four above |
| `StoredSessionsProofs` | theorems about `CheckpointRestore` up to the checkpoint | extends `CheckpointRestore`, `ListFacts` |
| `RestorerProofs` | theorems about the patched capability map and `merge_sort` | extends `StoredSessionsProofs` |
| `RestoredProofs` | theorems about the objects of the restored child | extends `RestorerProofs` |
| `MC...` | constants for TLC | |

### IncCheckpoint

`inMap[d]` is the kernel's truth, `attached[d]` the flag of
`Designated_dataspace_info`; the two are set in different steps because
`attach()` and `detach()` set them in different statements. `pgPc` follows
`_find_faulting_mrm_info` (`scan`), the second `state()` call (`state`) and
`attach()` (`attach`, `attach_at`, `mark`). `ckPc` follows `checkpoint()`:
`pause`; `map_*` for `_create_cap_map_infos`; `resolve`; `detach`/`unflag`;
`store`. `dead` stands for a thread that is stuck: the pager after
dereferencing a null pointer, either one after an uncaught `Region_conflict`.
Where the code walks a list and the order does not matter, `ckTodo` is the set
of elements still to visit; that one list position which does matter, the head
of `dd_infos`, is the constant `ListHead`.

`pause_threads` is one walk, and the entrypoint goes on serving while and after
it is made (module `CpuSession`, finding 5). So a thread waits for the answer to
a request (`Ask`, the pairs in `asked`), the entrypoint may serve it at any time
(`Serve`), and the thread that is started or resumed by it, if the walk has
passed it, runs, faults and writes while pages are looked at, detached and
copied. `late` records these threads until `checkpoint()` returns. The order in
which the entrypoint takes up requests and pauses is left open here;
`CpuSession` keeps the queue.

`missed` is a history variable: the designated dataspaces the checkpointer took
for detached although they were attached, and those that a late thread wrote
during the checkpoint, as long as they have not been stored since. It names
exactly the harm of the mark race and of late threads, so that everything else
can be stated, and proved, in spite of them. `HeadNeverForgotten` drops the
excuse and fails. `lost` says that a late thread touched a dataspace between its
detachment and the reset of its flag: the pager then takes it for attached, and
the signal of that fault is used up.

Data is reduced to `Val`; `Zero` is what fresh RAM holds. A page fault needs
room in `signals`, bounded by `MaxSignals`.

### RamSession

`alloc()` and `free()` are served by the resources entrypoint, which holds
`ram_dataspaces_lock` for part of the time; the pager walks `ram_dataspaces`
without it. Each request is as many steps as there are writes the pager can see
between (`epPc`): `AllocStart` creates the region map, `AllocPart` adds one
designated dataspace to the head of `dd_infos`, `AllocInsert` puts the whole
into the list, `AllocFails` is Quota_exceeded; `FreeStart` takes an info out of
the list, `FreeDissolve` is `Signal_receiver::dissolve`, which waits for the
pager's signal and drops those nobody has received, `FreeDestroy` gives the
designated dataspaces back. The region map itself is never destroyed:
`ram_session.cc:131` hands its dataspace to the parent's RAM session, which
does not own it; hence `Map` counts region maps in the order they are created.

The pager's place in the list is the number of elements up to its end
(`pgLeft`), since insertions happen at the head. When the element it stands on
is removed and destroyed, what it reads next is undefined and the pager counts
as `dead`, as after the null pointer. `away[m]` holds the addresses at which
nothing is attached. What `IncCheckpoint` takes apart is one step here: attaching,
and `_detach_designated_dataspaces`. Which designated dataspace the pager attaches
is computed by `FindByAddr` from addresses and sizes, with the bound as
`ram_dataspace_info.h:168` has it, and not assumed. A session has either managed
dataspaces only or none, so the branch of `_find_faulting_mrm_info` for an
unmanaged one, which would never end, is not reached.

The history variables `doubled` and `freedEarly` name the two causes for which
the pager may die or lose a fault; section 4 has them.

### StoredState

One RAM session, one region map, one RM session. A list is a sequence with its
head first, since `Genode::List::insert` inserts at the head; `left` counts the
elements from the cursor to the end, so that insertions at the head are missed
and a removal at the cursor is a use after free (`ckPc = "dead"`). Dataspaces
are their badges; `stale` holds the badges whose entry in `_copy_dataspaces`
names a capability core has revoked. `Request` bounds the requests served while
a checkpoint runs by `flight`, chosen at its start (at most `MaxFlight`): a
target thread has at most one call under way when it is paused. Regions are one
page long, which is the size at which `find_by_addr` with its inclusive bound
confuses neighbours.

### CpuSession

`queue` is the entrypoint's: a caller waits for its answer, the checkpointer
included, because `pause_threads` calls the threads' capabilities through
the entrypoint. `stopped` is the kernel's view, `paused` the flag in
`Cpu_thread_info`. `late` records the threads that a request of the target set
running since `checkpoint()` began. `ServeKill` ends with the entrypoint
holding `cpu_threads_lock` (`Hung`): the code takes that lock a second time.

### TargetObjects and TargetSessions

An object is a record: kind, badge, badge of the session it belongs to
(`owner`), badge of what it was made with (`ref`), timestamp, handler (`sigh`),
`mode` (a timer's trigger, a thread's single-stepping), quota. All lists of a
component are one sequence, head first; `Under(objs, kind, owner)` is one list.
`Bootstrapped(d)` is what a component has after its startup, with badges from
`d + 1` on, and `BootSlots(d)` which capabilities it holds at which selector.
Badges core gives out later are multiples of 1000 (`NthBadge`), so that those of
what comes into being with an object (`SpaceOf`, `DsOf`) are no object's, whatever
the bounds.

`TargetSessions` has one action for each request: the six roots' create,
upgrade and destroy, and each session's operations. A request inserts into the
online list; that the target receives the new capability is a step of its own
(`Receive`), since the target may be paused in between. `FreeBadge` lets core
give out badges again, which the test `cap_reuse` shows it does; timestamps
never come back. A *menu* (`kinds`, `new`, `ops`) is what one target uses and
how much: it bounds the instance and has no counterpart in the code. The areas
of a PD session other than its address space are region maps of the same kind,
treated by the same functions, and are left out.

Regions are one page long, and `find_by_addr` counts the address behind a region in
(`Includes`, `FindByAddr`: the first in the list that does). So `detach` may take the
info of a neighbour out of the list, while core takes away what is really at the
address. `real` is core's region maps: it decides whether an `attach` is accepted and
what is left to detach. Nobody asks whether a dataspace is still attached when it is
freed or its session closed; core drops it from its region maps (`Destroyed`), the
lists keep their infos. `Same` tells regions apart by their time of creation; the
properties use it, the models of the code use `FindByAddr`.

### StoredSessions

`checkpoint()` while the target is paused. Here, and so in `CheckpointRestore`, the
pause is assumed to be complete: no thread runs and no request is served until the
checkpoint has ended. The code does not guarantee that (finding 5). What happens
otherwise is the subject of `CpuSession` (who runs), `IncCheckpoint` (what it does to
the memory) and `StoredState` (requests that are served while the lists are walked).

`Mirrored` is the pair of loops that every list but the regions' has: infos of new
objects go to the head one by one, infos of gone objects are destroyed, those of known
ones are `Updated`, which reads again only what the code reads again. A new info notes
the selector (`kcap`) the capability map has for its badge, or 0.
`PrepareAttachedRegions` is the same pair of loops with `find_by_addr`, which looks at
the list as it grows: a region gets no info where a stored one includes its address,
and an info stays as long as some region of the target includes its address.

A checkpoint may fail: `CkNoCapMap`, when the region with the capability map is not
found in the list or its dataspace is gone; `CkContentDies`, when the memory of a
dataspace that is gone is to be copied (`Lost`: the capability an info names has become
invalid); the counted copies themselves are in `StoredState`. `CkPdDies`: destroying a
stored PD session gives its members back to the allocator, after which anything may
happen; the model lets the checkpointer die or go on.

### Restorer

`LogRequest` is the hook in `Target_child::resolve_session_request`. The
restorer walks the stored lists twice, in the order `IdentifyWalk` and
`StateWalk` give, with one action for each kind of element; `tr` is
`_ckpt_to_resto_infos`, `caps` `_capability_map_infos`, `mem`
`_memory_to_restore`. `failed` is an exception nobody catches, `crashed` a null
pointer. `MergeSort` translates the index arithmetic of `util/sort.h` with two
moving pointers over one array. `ArrayOverrun` says when the arrays of
`_identify_ram_dataspaces` are written past their end; the outcome is then a
choice between the sorted timestamps and a null pointer. `ResolveInc` chooses
whether the child runs with incremental checkpoints, and with which of its
designated dataspaces touched (`HeadsUp`). `CopyCapMap` and `PatchCapMap`
are the list of capability indices in the child's memory, as the array of
next pointers that `_restore_cap_map` writes; `Install` is the kernel call for
one selector; `RestoreContent` is one `memcpy`. A region of the bootstrap is looked up
with `find_by_addr` in the child, any other is attached, which core refuses where the
child has a region already (`Occupied`), and a dataspace without translation is the
null pointer of `restorer.cc:968`.

### CheckpointRestore

The caller of the test `rtcr_restore_child`: checkpoints, resumes or leaves the
target paused, and starts a restorer on the paused one. `Restorable` spells out
what the restorer can restore, in terms of the target and of what the checkpoint has of
it: an info of each object and no others. Neighbouring regions may be missing among the
infos or have left one behind, and such a target is not `Restorable`. What else it
leaves out is listed in section 4.

## 3. Runs

| run | instance | shows |
|---|---|---|
| `inc_promise` | 2 threads, 1 managed dataspace of 2 with the capability map | `HeadNotForgotten`, `FaultCovered`, `SnapshotSpec` (refinement), `FrozenMemory`, `CapMapReadable` |
| `ram_free` | 2 threads, 2 region maps, sizes of one part and of two, a quota for three parts, 2 checkpoints | `Tiled`, `RamAccounted`, `DiesForCause`, `FaultResolved`, `Answered` |
| `inc_if_while` | 1 thread, 1 managed dataspace of 2 | finding: only the head is stored (`if` where a `while` is meant) |
| `inc_mark_race` | same | finding: a change is lost between `attach_at` and `attached = true` |
| `pager_unresolved` | 2 threads | finding: the pager dies on the second signal of a resolved fault |
| `stored_lists` | 2 RAM badges, 1 region map badge, 2 pages, 1 request in flight | `RefCountExact`, `RamRegular`, `RegionsRestorable`, `EverySaved` |
| `stored_reattached` | 1 page, none in flight | finding: a reattached page keeps its old info |
| `cpu_pause` | 2 threads | `OnlyLateRun`, `PausedAreStored`, `Answered`, `PausingEnds` |
| `cpu_running` | 2 threads | finding: a thread runs during the checkpoint |
| `cpu_kill` | 2 threads | finding: `kill_thread` hangs the entrypoint |
| `restore_objects` | 11 menus, 7 selectors, 2 checkpoints | `StoredCurrent`, `RegionsAccounted`, `ObjectsRestored`, `RestorableIsRestored`, `CapSpaceRestored`, `CapMapIntact`, `MemoryPlanned`, `MergeSortSorts` |
| `restore_content` | 1 dataspace, 1 checkpoint | finding: the checkpoint is overwritten, not restored |

Bounds. Two threads are needed and enough for two faults in one designated
dataspace, for a fault during another's handling, for a request that races
a pause, and for one thread that is paused and sets another running. Two designated dataspaces separate the head from the rest, and the two
region maps of `ram_free` one managed dataspace from the next; more add more of
the same, and the theorems of section 5 hold for any number. `MaxSignals = 2` is
the number of threads: a blocked thread raises no second signal. Two pages make
neighbours; two regions fill them, including infos that went stale. One request
in flight already inserts at, and removes from, each list at each position of
the cursor.

In `ram_free` a page has two bytes and a granule one page, so that sizes 1 and 3
give a part that is not full, and two parts whose border the inclusive bound
blurs. Two such dataspaces of two parts need more than the quota, so `alloc`
fails half way when nothing was freed before. Two checkpoints let a fault of one
meet the parts the next one detaches.

In `restore_objects` two checkpoints tell new, known, gone and replaced objects
apart; a third would meet the same four. A target with every kind at once has
far too many orders of requests that do not touch each other, so each menu takes
kinds that refer to each other (a context and its source, its timer, its thread;
a dataspace and a region; a thread and its session), with enough requests to
create, change, give up and create again. The menu of regions alone has five requests:
as many as it takes to confuse the bootstrap's two pages with the one behind them until
the region of the capability map has left the list. Seven selectors hold the four
capabilities of the bootstrap and the three that a menu lets a target create.
`MergeSortSorts` looks at every sequence of up to five numbers of three values,
which has halves of unequal length, ties, and either half used up first. An
instance with a head at each designated dataspace is not needed: `HeadsUp` has
one set, since entries of different dataspaces do not affect each other.

Every restorer state is reached from every `taken` state, so properties of
`done` speak about a restoration of each target.

What `pager_unresolved` asks does not depend on what the dataspaces contain, so
`Val` has one element there.

Symmetry is used in `stored_lists` (RAM badges) and `inc_promise` (threads), which
check no liveness. Deadlock is not checked: pager, checkpointer and
entrypoint can die or hang in the code as it is, a paused target that nobody
resumes stands still, and a restoration ends.

Fairness. `IncCheckpoint!FairSpec` is weakly fair to the pager and to the steps
of a checkpoint that has begun: both run on threads of their own which nothing
in the code pauses. `CpuSession!FairSpec` is weakly fair to the entrypoint and
to a checkpoint that has begun. `RamSession!Spec` is weakly fair to the pager and
to what is left of a request the entrypoint has begun. Nothing is assumed of the target, nor that
anybody calls `checkpoint()` or `resume()`. `EveryFaultResolved` is conditional on
the target not being checkpointed for ever again, because each detach undoes an
attach, so that what `pager_unresolved` shows is the pager's death and not a thread
that is starved by checkpoints. That a pager which lives resolves every fault is
checked in `RamSession`, whose lists are allocated, freed and checkpointed meanwhile.
`IncCheckpoint` with its late threads keeps the safety half, `FaultCovered`.

## 4. Findings

1. `checkpointer.cc:1230`: of the attached designated dataspaces only the first
   is stored, all are detached. `ToStore` is what the code does; with
   `{d \in DdsOf(r) : attached[d]}` in its place `NothingForgotten` holds.
2. `ram_dataspace_info.h:206`: the flag is set after the thread is awake.
3. `ram_session.cc:44`: null pointer on a fault that is resolved already.
4. `checkpointer.cc:364`: a stored region is never updated.
5. `cpu_session.cc:96`: late requests set threads running during a checkpoint.
6. `cpu_session.cc:143`: `kill_thread` waits for itself.
7. `restorer.cc:1367`: source and target of the `memcpy` are exchanged.

These are shown by the violation runs. While modelling, other limits of the code
came up; the models have them, and the properties say where they begin instead
of promising more:

* `ram_session.cc:131`: the region map behind a managed dataspace is never
  destroyed. `ram_session.cc:229`: Quota_exceeded leaves everything allocated so
  far to nobody (`abandoned`).
* `ram_session.cc:105`: the pager takes the first region map in a fault state,
  whosever signal it has, so the signal that dissolving drops may be the one the
  fault of another region map relies on; that thread then waits until a later
  fault. And a thread may touch a dataspace while it is freed. `DiesForCause` and
  `FaultResolved` of `RamSession` are stated without such frees (`freedEarly`),
  and `DiesForCause` without two threads waiting for one designated dataspace
  (`doubled`, finding 3). Both excuses are needed: without `freedEarly`
  `FaultResolved` fails although the pager lives.
* `ram_dataspace_info.h:233`: the flag is reset after the dataspace has left the
  region map; a thread that finding 5 left running and that faults in between
  waits for ever. `FaultCovered` and `EveryFaultResolved` exclude it (`lost`).
* `attached_region_info.h:71`: the upper bound of a region belongs to the next one, so
  neighbours are confused (`checkpointer.cc:355` and `377`). A region attached next to
  a stored one gets no info, against the comment of `checkpointer.cc:350`, and the info
  of one that is gone stays while a neighbour stands, against that of line 369. With
  two pages and no request in flight `RegionsCurrent` fails for this reason too. `RegionsRestorable` and
  `EverySaved` hold in spite of it, and so does what `StoredCurrent` still says of
  regions: each stored one has at least a neighbour in the target, and no two are for
  one place. `RegionsAccounted` says where a region may be left out. It speaks of the
  first loop and of regions stored before, because the second loop may undo the first:
  with 2 stored, 2 detached and 3 attached, the lookup of 3 hits the old info of 2, which
  is then destroyed, and the region at 3 ends with no info at all.
* A stale info of a region outlives the dataspace as well. If that was a RAM
  dataspace, the next checkpoint dies when it copies the memory (`CkContentDies`). If
  it was a region map whose session was closed, nothing is copied, and the restorer
  uses the null pointer of `restorer.cc:968`.
* `region_map_component.cc:122`: `detach` may take a neighbour's info. When it is the
  one of the capability map, the next checkpoint raises an exception
  (`checkpointer.cc:37`, `CkNoCapMap`).
* A stored info is found by its badge alone. An object that took the badge of
  one that is gone keeps that one's info (`Current` is false of it), and is
  restored from it. What is read again at each checkpoint is right even then
  (`StoredCurrent`).
* `restorer.cc:370`: the index of the timestamp arrays counts the other
  dataspaces too (`ArrayOverrun`); no stored bootstrapped dataspace at all ends
  the restoration.
* Bootstrapped dataspaces are identified by rank, threads by name
  (`Identifiable`): one that is gone, or a name used twice, mixes up the others.
* A second PD session has no signal source of its own at first and is refused,
  and so is a second RAM session, which has no bootstrapped dataspace.
* A handler, source or PD session that is gone while something still refers to
  it ends the restoration, and so does a region with a dataspace of a service
  that is not intercepted (`restorer.cc:968` uses a null pointer), or one at an
  address where the child has attached something itself.
* Quota is noted once; upgrades after the first checkpoint are not restored.
  Native capabilities are stored but not recreated.
* A selector that was looked up before the target received the capability is 0
  for ever, and one at which the target put another capability than bootstrap
  did cuts the child's list of capability indices (`CapMapIntact` is stated for
  selectors wanted once).
* `restorer.cc:1101`: of a managed dataspace of the child at most the first
  designated dataspace is restored (`MemoryPlanned` is stated without
  incremental checkpoints).

## 5. Proofs

`IncCheckpointProofs` proves, for any sets of threads, dataspaces and contents
and any assignment of dataspaces to lists, from the named assumptions in
`IncCheckpoint` only (`ListHead` and `AtZero` give a dataspace of the list they
are asked for, `Zero` is a content, `NoDd` is none of the dataspaces):

* `TypeCorrect`: `Spec => []TypeOK`.
* `HeadsKept`: `Spec => []HeadNotForgotten`. The property is not inductive:
  nothing in it says that a dataspace which is detached in phase `detach` was
  looked at in phase `resolve`. What late threads write meanwhile is in `missed`
  at once, so the invariant survives them. `HeadInv` adds `PausedInv` (in `Freezing`
  every thread is paused or late, in `pause` all but those in `ckTodo`), `MarkInv` (a
  head the checkpointer attaches for reading the capability map, and will
  detach again without storing it, has its change stored or is in `missed`; and
  nothing is left over in `memory` and `marked` from an earlier checkpoint) and
  `ResolveInv` (after a managed dataspace has been resolved its head is about to
  be stored, is stored, or is in `missed`).
* `MemoryFrozen`: `Spec => FrozenMemory`, from `PausedInv`: who runs during a
  checkpoint is late (`RunningIsLate`), and as long as nobody is and no request is
  under way nobody can become it (`StaysUndisturbed`).
* `Implements`: `Spec => SnapshotSpec`. Each step is a step of `MemorySnapshot`
  or a stutter; `CkReturn` is `Return` because `memory` is empty and
  `HeadNotForgotten` and `ResolveInv` hold. `missed` maps to itself,
  restricted to the heads. A write of a late thread is `Disturb`, which puts the
  piece in `missed`; `Return` excuses nothing that was neither overlooked nor
  disturbed.
* `MapReadable`: `Spec => []CapMapReadable`. `FlagInv` relates the flag to the
  kernel's region map: a dataspace whose flag is set is attached, but for the one
  the checkpointer is detaching. The converse does not hold, because the pager may
  set a flag late. `ReadInv` says that what the checkpointer has visited
  in `_mark_attach_designated_dataspaces` keeps its flag set until it is read.
* `FaultsCovered`: `Spec => []FaultCovered`. The property counts the pager's round
  as one signal, which is not inductive: the checkpointer may attach the
  dataspace the round is about, and the next fault would find the round spent.
  `CountInv` counts the round only while it is about a fault (`OnFault`);
  `WaitInv` adds that threads wait only for what is not attached, and, until a fault
  has been lost, for none the checkpointer is just detaching.

`CpuSessionProofs` proves, for any set of threads, from `MainAssumption` and
`CkAssumption` only:

* `TypeCorrect`: `Spec => []TypeOK`. That the list holds no thread twice depends
  on the queue: a creation that waits in it is for a thread nobody else creates
  (`OneCreation`) and which is not in the list (`AboutListed`).
* `OnlyLateRuns`: `Spec => []OnlyLateRun`. The property speaks of the phase
  `store`; the invariant `PauseInv` adds what holds on the way there: the
  elements before the cursor run only if they are in `late` (`PassedInv`), only
  listed threads are started (`ListedInv`), so that an element created in front
  of the cursor does no harm, and the checkpointer's request is for the element
  at the cursor (`AboutCurrent`), so that the answer passes the thread that was
  paused.
* `StoresPaused`: `Spec => PausedAreStored`, from `PauseInv` and `StoreInv`, which
  says the same of the second walk: the started elements before its cursor are
  stored or in `late`.

`StoredStateProofs` proves, for any sets of badges and any numbers of pages,
regions and requests under way, from `NoDsAssumption` and `BoundsAssumption`:

* `TypeCorrect`: `Spec => []TypeOK`.
* `RegionsApart`: `Spec => []RegionsRestorable`, although the online infos the
  stored ones are made from may be stale (`OnlineInv`): two stored regions at one
  page cannot come from any order of requests.
* `RamStored`: `Spec => []RamRegular`, from `WalkInv`, which says what the elements
  behind the cursor and those in front of it have to do with the stored ones in
  each of the two loops, insertions at the head and removals included.
* `CountsExact`: `Spec => []RefCountExact`, from `CountInv`. The count is a
  `Cardinality` of positions; `ListFacts` shows by bijections how inserting at
  the head and removing change it. The property speaks of badges of RAM
  dataspaces that no region map has, and so does the theorem.
* `AllSaved`: `Spec => EverySaved` (`SaveInv`), if no badge is a RAM dataspace's and
  a region map's: the assumption is part of the theorem.

`RamSessionProofs` proves, for any page size, granularity, quota and sizes, from
`SizeAssumption` and `MapsAssumption`:

* `EveryAddressFound`: `Spec => []Tiled`. `BuildInv` says that an element of the
  list is complete, and that the one in the making has its first parts in
  reverse order; `Located` is the arithmetic: of the elements `find_by_addr` accepts
  the first is the right one, because what stands before it begins at higher
  addresses, and the neighbour whose bound counts its first byte in, which ends
  where it begins, stands behind it.
* `NothingElseGiven`: `Spec => []RamAccounted`, also from `BuildInv`, with `Distinct`:
  what is freed is in the list once, and gone from it afterwards.

* `DeathHasCause`: `Spec => []DiesForCause`. The invariant `KeptInv` holds until
  one of the two causes occurs. `Enough`: the rounds to come, those of the signal
  the pager holds and of all pending ones, are no more than the threads that wait.
  They are counted as a set of pairs (`Rounds`), since a sum over region maps would
  need induction; taking a signal renames its rounds (`SameRounds`, a
  bijection), dissolving drops some, and an attach wakes at most one thread
  (`Apart`), because designated dataspaces do not overlap (`Disjoint`). `Ahead`:
  while the pager walks, somebody waits for an element it has not passed, so
  neither insertions at the head nor faults behind it lead it past the end.

* `TypeCorrect`: `Spec => []TypeOK`. The sum of what the quota has given is a
  recursive function over the dataspaces; that every summand changes it by its own
  size is an induction over their number.

`StoredSessionsProofs` proves, for any menus and any bounds on objects, requests,
selectors and checkpoints, from the assumptions of `TargetSessions` and
`SlotsAssumption`:

* `StoredAfterCheckpoint`: `Spec => []StoredCurrent`. Two invariants carry it.
  `TargetInv` says what a request can rely on: objects have their time of creation
  in order, no two of a class share a badge, whatever has an owner or a source
  finds it, and a space has its PD session. `StoredInv` says of the stored lists
  that they name no object twice and no place twice (`Apart`), hold nothing from the
  future, and of what was made for an object of now have what never changes in it; and,
  while `checkpoint()` runs, that each class the checkpointer has finished is in sync,
  which for regions means that a neighbour stands. `RequestKept` shows the first for
  each request, `MirrorStep` and `RegionsBrought` that bringing one class up to date
  (the two loops, as the recursive functions `Only`, `Reverse` and `RegionsAdded`)
  finishes it and spoils no other.
* `RegionsKept`: `Spec => RegionsAccounted`. `RegionsAddedFacts` follows the first loop
  by the number of regions it has looked at: each of them is found in the list from then
  on. The second loop keeps what some region of the target includes, so in particular
  each info whose own region is there, and what the first loop made.

  Its last sections hold what the module's theorems do not need and those of
  `RestoredProofs` do. `TargetSound` and `StoredSound` say what a target can have and
  what can be stored at all (`Sane`: badges are apart, members have sessions; `BootsIn`:
  what bootstrap makes is there with its constant badges, once); `RequestForms` reduces
  every request to one of five forms, and `SoundKept` and `SlotsKept` go by these.

`RestorerProofs` proves, from the same assumptions:

* `MapStaysOneList`: `Spec => []CapMapIntact`. `CapInv` carries the list that is
  patched as a path (`Linked`): from selector 4 through the selectors used so
  far, each once, to the end, with `prev` the last but one on it. `Copied` gives
  the path of the four selectors of the bootstrap, `LinkedMore` prolongs a path by
  a selector that is not on it, `Counted` derives from the number of
  selectors in use that no two capabilities want the same, and `WalkAlong` that
  following the array from its start is following the path.
* `MergeSortFacts`: for every sequence of naturals `MergeSort` returns the same
  numbers, each as often (`Permuted`, a bijection of positions), in ascending order;
  `SortRight` (`Spec => []MergeSortSorts`) is a consequence. `MergeState` says of
  each round how many elements of each half have been taken, that they are the
  smallest, and where the pointers may stand: a half that is used up has its
  pointer at the end of the other half, and the code's two loops still end only
  when everything is taken (`RoundKeeps`). `MergeSortFacts` goes by the lengths of
  the lists.

`RestoredProofs` proves, from the same assumptions:

* `TypeCorrect`: `Spec => []TypeOK` of `CheckpointRestore`. The code dereferences
  what its lookups return, and so does the model: a state with its types is one
  where every lookup of the first walk has found something. `RestoredInv` carries
  that, with `TargetSound` and `StoredSound` of `StoredSessionsProofs`. `PairsFacts` gives each bootstrapped RAM dataspace the
  one of the child that has the same rank by time of creation; it rests on
  `MergeSortFacts`. `Matched` says which badges are translated after a part of the
  first walk, and that each leads to an object of the child of the same kind;
  `IdentifyFinds` shows for each `_identify_recreate_*` that its lookups are among
  them, because a walk visits an owner before its members. In the
  second walk `CounterpartFacts` finds the object whose state is set.
* `RestoredAsStored`: `Spec => []ObjectsRestored`, and `CopiedBackOnce`:
  `Spec => []MemoryPlanned`. `ObjectsInv` carries both. `Fit` is what `Identifiable`
  asks of the target, said of the stored infos, so that it does not change during a
  restore. `Twins` says after a part of the first walk that each info has its like in
  the child (`Twin`: same kind and name, owner and reference translated), that badges
  of the bootstrap lead to those of the child's bootstrap (`FoundRight`: the pairs of
  RAM dataspaces are the right ones, and the thread found by its name is the main
  thread) and that new badges are new (`Newcomers`). It needs that the walk passes
  nothing twice (`IdentifyWalkOnce`). At its end `AllTwins` concludes that badges can
  be told apart (`Faithful`). `Rebuilt` says after a part of the second walk that what
  it passed has handler, mode and quota, that regions are attached, and that the rest
  is still blank, because a counter such as the quota is added to; `MemHolds` that a
  RAM dataspace it passed is noted once. A region adds nothing, since all RAM
  dataspaces come first in the walk (`StateWalkOnce`) and a region map's dataspace is
  known as such.

* `CapabilitiesRestored`: `Spec => []CapSpaceRestored`. `SlotsSound` says of the target
  that what it holds is there and is held once, that low badges are where the bootstrap
  put them, and that a selector an info has noted still has the capability the info was
  made for: this is why a request and its answer had to be two steps in the model, and
  why the property leaves out an object whose capability was on its way when it was
  first stored. `NotedCaps` says what the first walk notes, namely each object made
  anew at the selector of its info, and `Installed` that what one step of
  `_restore_cap_space` installed no later one takes away, since no two of the noted
  capabilities want the same selector. `CapSpaceFromInv` combines these with `Twins`.
* `RestorableRestored`: `Spec => []RestorableIsRestored`. `Able` is what `Restorable`
  asks of the target, said of the stored infos (`AbleWhenRestorable` derives it). In the
  first walk only the RAM session, the PD session, a signal context and a thread can
  fail, and they do not: the RAM session has a bootstrapped dataspace and its array is
  not overrun, the one PD session is bootstrapped and holds all sources and contexts,
  sources first, and it comes ahead of the threads (`IdentifyWalkAhead`, `GoesOn`). In
  the second walk a handler leads to a context that has been made (`StateFound`), and an
  attachment to a dataspace and to a place that is free (`RegionFound`): `MapsTold` tells
  the counterparts of two region maps apart, `Joined` says that what the child has
  attached beyond its bootstrap is what the walk has passed, no two infos are for one
  place (`Apart`), and what the child attached during bootstrap is at the two addresses
  `Able` keeps free. It needs neither `Fit` nor `ObjectsInv`: where two threads share
  a name, or a dataspace of the bootstrap is gone, the restorer may rebuild something
  else, but it does not give up. That the dataspace of each stored attachment is still
  there is part of `Restorable`: the target may free a dataspace, or close its session,
  without detaching it, and then there is nothing to attach.

Recursive functions are reasoned about with `Induction` and `Recursion` in
`ListFacts`: the least number outside a set of naturals is not its successor's,
so no counterexample is least; this needs no induction theorem that takes an
operator.

Only model-checked: all liveness (out of the prover's reach). Every invariant and action
property of a passing run is stated by a theorem.

## 6. Plan

1. done: `MemorySnapshot`, `IncCheckpoint` and its proofs.
2. done: `StoredState` and its proofs.
3. done: `CpuSession` and its proofs. Open: the threads of a second CPU session,
   which nobody pauses.
4. done: `TargetSessions`, `StoredSessions`, `Restorer`, `CheckpointRestore`, and the
   proofs of `StoredCurrent`, `RegionsAccounted`, `CapMapIntact`, `TypeOK`, `ObjectsRestored`,
   `MemoryPlanned`, `CapSpaceRestored`, `RestorableIsRestored` and the sort.
5. done: `RamSession` and its proofs.
6. open: regions longer than a page; what a target finds mapped that is resumed
   between the two steps of `detach` in `region_map_component.cc` (the checkpointer
   reads the list only, which the second step changes); the tree of indices in
   `cap_map.cc`.

Not modelled, and not planned: printing and debug output, the stubs of the Rtcr
service, run scripts, ROM sessions (forwarded, never checkpointed), the startup
patches of Genode, which only expose addresses, service lookup and session
policy of `Target_child`, registers, affinities and priorities (copied as they
are), `Rm_session_component::destroy` (it hangs the entrypoint before it changes
anything), and starting and pausing restored threads, which `restorer.cc:832`
has commented out.
