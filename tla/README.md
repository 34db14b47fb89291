# Verification of the work distribution and synchronisation of SYCL*TLA

SYCL*TLA is a C++ template library of GEMM and attention kernels for Intel
Xe GPUs, derived from CUTLASS. Most of its half million lines describe the
data movement and arithmetic of *one* work-group. Where it can go wrong in
ways a unit test hardly shows is where work-groups depend on each other: how a
problem is cut into pieces, how several work-groups reduce one output tile
through a workspace in global memory, what a workspace holds between two
launches, and how the warps of a block, and the blocks of a cluster, hand each
other shared memory. These specifications model that part.

Paths below are relative to `src/`. Short names: **PK**
`include/cutlass/gemm/kernel/xe_persistent_tile_scheduler_params_streamk.hpp`,
**SK** `…/xe_tile_scheduler_streamk.hpp`, **KC** `…/xe_gemm_cooperative.hpp`,
**GA** `include/cutlass/gemm/device/gemm_universal_adapter.h`,
**GB** `include/cutlass/barrier.h`, **FK**
`applications/flash_attention_v2/kernel/xe_fmha_fwd_kernel.hpp`, **FS**
`…/xe_tile_scheduler.hpp`, **XG** `…/xe_tile_scheduler_group.hpp` and **XA**
`…/xe_gemm_array_cooperative.hpp` (both in `include/cutlass/gemm/kernel/`),
**EM** `tools/util/include/cutlass/util/sycl_event_manager.hpp`, **SP**
`include/cutlass/pipeline/sm90_pipeline.hpp`, **SB**
`include/cutlass/arch/barrier.h`, **SM**
`include/cutlass/gemm/collective/sm90_mma_tma_gmma_ss_warpspecialized.hpp`,
**PP**, **CO** `include/cutlass/gemm/kernel/sm90_gemm_tma_warpspecialized_{pingpong,cooperative}.hpp`.

## 1. Inventory

| component | state it keeps | operations | interacts with | hard behaviour | what makes it correct |
|---|---|---|---|---|---|
| stream-K scheduler (PK, SK) | host: `Params`; device: linear index and `WorkTileInfo` of a work-group | `initialize`, `get_workspace_size`, `get_grid_shape`, `assign_work`, `fetch_next_work` | kernel loop, fixup, workspace | uneven divisions, minimum split size, two places that size the workspace | every k tile of every tile once; every shared tile inside the workspace; waits point to earlier work |
| stream-K fixup (SK, GB, `block_striped.h`, `arch/barrier.h`) | one flag and one slot of partial sums per shared tile, in global memory | `fixup_helper`: `store`, `wait_eq`, `wait_lt`, `reduce`, `arrive_inc`, `load_add` | all work-groups sharing a tile | order of accumulation, visibility of writes, slots that are never cleared, two reduction modes | slot accessed in turn, tile written once from all splits, nobody spins for ever |
| cooperative kernel and adapter (KC, GA) | `params_`, the workspace across launches | `initialize`, `update`, `run(args)`, `run()`; the persistent loop | scheduler, fixup, device queue | relaunch without reinitialisation, dispatch order, residency | every launch ends with every tile complete, written once |
| flash-attention decode with KV split (FK, FS) | one counter per batch head, eight slots of partial results per head | block division, partial store, `atomicAdd`, leader's wait and combination | all work-groups of a head | work-group counted by one thread, counter reset by a racing store, rounding | each KV block once; ids are what the leader reads; leader combines all and terminates |
| flash-attention collectives, other attention kernels | registers, SLM | mainloop with a split barrier per block | threads of one work-group | – | numerical |
| grouped GEMM (XG, XA) | group found last, start of its tile numbers; parameters of the group in use | look up a tile number, advance by a grid, take over a group's parameters | kernel loop, lists of extents on host and device | groups without tiles, resuming a search, parameters kept too long | each tile of each group once, with its own group's parameters |
| event manager, timers (EM, `sycl_timer.hpp`) | event list, count of marks, indices in timers | record, add, destroy, elapsed time | launches, timers | capacity, reclamation while a timer measures | a timer reads exactly the launches between its marks |
| sm90 mainloop pipeline, Pingpong and Cooperative kernels (SP, SB, SM, PP, CO) | full and empty barrier per stage, ordered barrier of the math warp groups, `PipelineState` of each actor, stages in shared memory | acquire, TMA copy, wait, release, tail; order wait and arrive | producer warp, two math warp groups, the other blocks of the cluster | phases known by one bit, copies and remote arrivals in flight, blocks that exit | MMAs read the k tile they are meant to; turns; nobody is written to after exit; all tiles stored |
| compat runtime (`include/cute/util/compat`) | device list, current device per thread, queues | select, create, reset | host threads | several host threads | queue belongs to a live device |
| semaphore, sm100 pipelines, other sm90 schedulers, 2.x stream-K | barriers, phases, locks | acquire, commit, wait, release | NVIDIA warps and blocks | as for the parts above | as for the parts above |
| CuTe layouts, epilogues, dual GEMM, convolution | – | pure | – | – | functional |
| profiler, library, generators, Python packages, examples, benchmarks | – | tooling | – | – | – |

PROJECT.json lists every component with its status, and the hazards of the
modelled and the planned ones, each at the line where it bites.

## 2. Modules

```
XeStreamKParams      host: decomposition, parameters, workspace size
  XeStreamKScheduler   device: assign_work, fetch_next_work
    XeStreamKCoverage    the walk of all work-groups against the whole problem
    XeStreamKGemm        launches + dispatch + scheduler + fixup, interleaved
GemmOutput           abstract: each part of the output goes from unwritten to
                     the complete sum in one write
StreamKSplits        the splits of one tile
  StreamKFixup         the turnstile, work-group steps      implements GemmOutput
  StreamKFixupThreads  the turnstile, thread steps and delayed writes
                                                            implements GemmOutput
XeFmhaSplitKV        division of KV blocks, partition numbers
  XeFmhaSplitKVCoverage   the walk of all work-groups
  XeFmhaSplitKVReduction  partial results, counters, leaders, interleaved
XeGroupScheduler     the grouped scheduler and the kernel's loop over it
EventManager         the event buffer and the timers that mark places in it
Sm90Pipeline         mbarriers, PipelineState, who frees a stage for whom
  Sm90WarpSpecialized  the Pingpong and Cooperative kernels over a cluster
NaturalsLemmas       products, quotients, induction, sums: for the proofs
*_proofs             theorems about the module they are named after, or about
                     the modules whose names start so
MC_*                 constants for TLC
```

**XeStreamKParams, XeStreamKScheduler.** A problem is a record: tiles in M, N
and L, `T` k tiles per output tile, number of SMs, `splits`, decomposition
mode. `initialize(pr)` is PK's `initialize` and yields the fields of `Params`
as a record; `get_workspace_tiles(pr)` counts what `get_workspace_component_sizes`
reserves and `reduction_tiles(p)` what the device later assumes.
`assign_work` keeps SK's structure: `RawStart`/`RawCount` (even division with
big units), `Snap` (no split below `min_iters_per_sk_unit`), `AtTile` (the last
tile of the unit first: a unit is walked backwards). The k tile alignment of 2
is left out, as the kernel passes 1; raster order and swizzle only permute
tile coordinates.

The branch of PK:296-311 (the heuristic turning stream-K into split-K) is
translated but never taken: the grid is truncated to the number of tiles, so
there are never more units than stream-K tiles.

**StreamKFixup.** One shared tile. `pc` holds the place of each split's
work-group in `fixup_helper`; sums are abstracted to how often each split was
added. `workspace` starts with *any* counts up to `MaxStale`, since slots are
never cleared; `flag` starts at zero.

**StreamKFixupThreads.** The same protocol for `N` threads per work-group. A
write is pending until it lands: by itself at any time, or through the release
in `red_release`, for the writes ordered before it. `SyncFence` says whether
the work-group barrier orders the writes of the other threads: TRUE for
`syncthreads` and `bar.sync`, FALSE for `NamedBarrier` on an Intel target, a
split barrier with memory semantics 0 (`arch/barrier.h:292`). The history variable
`overtaken`, which no step reads, keeps the stripes whose write was still pending
when the flag was raised for it.

**XeStreamKGemm.** The composition: `Run` is `run(args, workspace)`, which
zeroes flags and nothing else (PK:664-676), `Update` is `update(args)`, which
replaces `params_` (`stored`) and may come while a kernel runs with its own
copy, `Relaunch` is `run()`. Work-groups
are queued, dispatched in any order as far as `Resident` allows, and then run
KC's loop with the scheduler and the fixup. Slots hold the term `Stale` when a
launch starts, so an output that uses them before a store shows it.

**XeFmhaSplitKV\***. `StartOfLoop`, `NextPartition` and `LoopContinues` are the
loop of FK:597-662; the reduction runs that loop for every thread of every
work-group. Threads of a work-group are kept together by the split barrier of
the mainloop (`xe_fmha_fwd_mainloop.hpp:343,447`) and by nothing else. A
counter starts at 0 (`initialize_workspace`) or at its head's number of
partitions (a later launch). A stored part is on its way (`onTheWay`) until it
lands; `CountOrders` says whether `atomicAdd` keeps behind the earlier stores of
its thread. The leader's reset is a plain store at the start of its kernel, so counts
may come before it. Two history variables say when something went wrong: `early`
has the parts counted before they were in memory, `lost` the heads whose counter
was reset after a count.

**XeGroupScheduler.** The walk of all work-groups over the tiles of a list of
groups, one after the other as they share nothing. `blocks_before` is the sum
the host's loop (XG:193) builds up, group by group. `NextGroup` is one round of
the while loop of XG:311, `Found` the tile and what XA:331-336 makes of it,
`Compute` an iteration of XA's loop with the look-up of the next number. Groups
are given by their extents in elements. The Xe kernel asserts a 1x1x1 cluster,
so the grid has one row and `get_log_swizzle_size` is 0 for every swizzle
argument; both are left out.

**EventManager.** An event is the number of its launch; a timer keeps two
indices. `Record` is `startRecording`, `AddEvent` a launch with its `addEvent`,
`Destroy` the two `eventDestroy` of `~SYCLTimer`. When the buffer is full
`addEvent` drops everything and throws (`Overflow`); the program catches the
exception and goes on. Two history variables: `measured` has the launches a timer
was really around, `dropped` the timers alive whose start mark was taken in a buffer
that was dropped. `Careful` restricts the program to what the repository's own users
do: a timer is stopped only when it was started, and destroyed only when it was
stopped.

**Sm90Pipeline, Sm90WarpSpecialized.** A barrier counts the arrivals and bytes
(in slices of A and B) it waits for; a waiter sees the parity of its phase
only. A producer's load is one step that expects the bytes and puts a copy in
flight to each block that shares the slice; copies and arrivals at other blocks
land later, in any order, so the barriers of a cluster lag behind each other in
every way they can. A math warp group issues MMAs for a k tile and lets the one
before go (`reading` holds those in flight), as SM:533-551 does with one
outstanding batch. `FirstMath` and `TilesPerTurn` are Pingpong's stride over
the tiles, `OrderWait` and `OrderArrive` its ordered barrier. Abstractions: a
warp group of 128 threads arrives as one; an arrival at the own block lands at
once; the epilogue is one step without its own load and store pipelines; the
scheduler is the static one, of which only the number of tiles per block
matters here.

## 3. Runs

| run | module | bounds | shows |
|---|---|---|---|
| streamk_coverage | XeStreamKCoverage | 1-3 x 1-3 x 1-2 tiles, k extents on both sides of every threshold of the minimum split 8, 1-4 SMs, four modes, splits 1, 2, 3, 5 | `ExactCover`, `FixupInsideWorkspace`, `NoTinySplits`, `AtMostTwoPeers`, `WaitsPointBackwards` |
| fixup | StreamKFixup | four splits of unequal length, slot holding 0 or 1 of each | `WorkspaceInOrder`, `TurnstileExclusive`, `OutputComplete`, `EventuallyWritten`, refinement of `GemmOutput` |
| fixup_threads | StreamKFixupThreads | 3 splits, 3 threads, the Intel barrier (`SyncFence = FALSE`) | `ArrivalPublishesAll`, `AccessInTurn`, refinement of `GemmOutput` for every stripe |
| gemm | XeStreamKGemm | six problems (nondeterministic reduction with at most two splits per tile), two launches; `run()`, with or without `update()` before it, only for a problem that shares no tile | `OutputComplete`, `NothingLeftBehind`, `WrittenOnce`, `EveryLaunchEnds` |
| gemm_nondeterministic_three | same | split-K by three | violates `OutputComplete` (finding) |
| gemm_relaunch | same | `run()` after `run(args)` | violates `OutputComplete` (finding) |
| fmha_coverage | XeFmhaSplitKVCoverage | 1-6 heads, 1-9 KV blocks, grids up to 8, 4 slots per head | `EachBlockOnce`, `IdsAreWhatTheLeaderReads`, `HeadsExist`, `SlotsSuffice` |
| fmha_reduction | XeFmhaSplitKVReduction | up to 3 heads, 4 blocks, 3 work-groups of one thread, and three problems with two threads; stores that land late, counts that overtake stores and resets | `CombinesEachBlockOnce`, `EveryHeadWritten` |
| fmha_threads | same | one head, two work-groups of two threads | violates `CombinesAllPartials` (finding) |
| group_coverage | XeGroupScheduler | every list of 1-3 groups over five extents (empty, one, several, partial tiles), extents known to the host or not, three raster options, 1, 2 and 4 SMs | `EachTileOnce`, `OwnGroupsParameters` |
| timers | EventManager | three timers, five launches, capacities 3 and 5, programs that go on when the buffer overflows | `ReadingIsExact`, `ReclaimedAtLast` |
| sm90_pipeline | Sm90WarpSpecialized | ten launches: clusters 2x1 and 1x2 and single blocks, 2-4 stages, 1-3 k tiles, 0-5 tiles per block, both kernels | `ReadsItsTile`, `ParityTellsPhases`, `TakesTurns`, `NothingReachesAnExitedBlock`, `AllTilesStored` |

*Why the bounds are enough.* The scheduler's decisions compare k extents with
the minimum split, and tiles with waves; the chosen extents and grids lie on
both sides of each comparison, with and without remainders. In the fixup a
split relates to the one before it, the one behind it and the final one: four
splits have a first, two middle ones and a final one. The composition uses
problems where a stream-K unit ends one tile and starts another, where
data-parallel tiles follow, and split-K by two and three. The KV division
compares `(head+1)*local` with multiples of the blocks per work-group; all
residues occur; with 4 slots a head both fits and does not fit. In the grouped
walk a work-group's stride stays in a group, enters the next one and skips
groups, and every comparison of a number with the end of a group is met from
both sides. With two timers inside each other and a third that comes and goes,
the buffer is reclaimed between, during and after measurements, and fills up at
both capacities. In the pipeline stages are used again and again (the
producer has lapped the ring and waits for its readers), k tiles are fewer and
more than the stages (both rules of `advance`), tiles are odd and even in
number, and one block has none. Larger clusters differ in who is told of a free
stage; `EverybodyToldOnce`, an assumption TLC evaluates in this run, checks that
rule for every cluster shape of up to 16 blocks.

*Deadlock* is checked in gemm, fmha_reduction, group_coverage and sm90_pipeline,
whose models say when they have terminated; a thread that spins has no step, so
everybody spinning is a deadlock. Fixup, fixup_threads and the coverage walks of stream-K and decode
simply stop when all work is done; there the liveness properties, and `Complete`
in the walks, take its place. The program of timers may stop at any time.

A leader of fmha_reduction that waits for a count its own reset took away spins
for ever: that is how the code is, so `Terminated` allows it, for leaders in `lost`
only.

*What `fmha_reduction` says of a kernel that can go wrong.* Three things in the
decode kernel are ordered by nothing: thread 0 counts a partition while other threads
may still be storing (FK:652), the atomics are relaxed and may overtake even thread
0's own store (FK:652, FK:668), and the leader's reset of its counter is a plain store
that may come after counts (FK:587). The run has all three, with one and two threads per
work-group, and its properties say exactly what they can do. `CombinesEachBlockOnce`: a
part of the output is wrong only if that part, of that head and thread, was itself
counted before it was in memory. `EveryHeadWritten`: a head is never written only if its
own leader's reset came after a count. `TypeOK`: no counter, once reset, passes what its
leader waits for. Everything else, numbering, reuse of counters from launch to
launch, leaders that start before or after their workers, is shown right.
What the comments of the code promise is more (`CombinesAllPartials`, without the
exception), and the run fmha_threads shows it broken. Stores are delayed, loads are
never taken early. `ReductionAssumption` excludes problems whose work-groups start
behind the last head, and those where a head has more partitions than slots;
`can_implement` accepts both (see the next paragraph).

*What `fmha_coverage` says of the launches `can_implement` accepts.*
`HeadsExist` and `SlotsSuffice` hold for all of them, and say where the kernel
leaves its arrays. With 8 heads of 2 KV blocks on 20 Xe cores,
`num_blocks_per_wg` rounds up to 1, and work-groups 16 to 19, whose share lies
behind the last block, start at batch head 8: the loop (FK:597) tests the head
only after processing it. One head of 20 KV blocks on 20 Xe cores has 20
partitions and 8 slots. Neither contradicts a statement in the repository, so
no run expects a violation.

*Condition of `timers`.* `Careful = TRUE`. A timer that is destroyed without
having recorded counts down twice for nothing: the count goes below zero, the
buffer is not reclaimed with the last timer, and with another timer measuring it
is emptied too early (`ReclaimedAtLast`, `ReadingIsExact` fail with
`Careful = FALSE`). The buffer drops its events when it *reaches* its
capacity; a buffer of capacity c never holds c events. A timer whose events were
dropped keeps its marks, and may read events of later launches without noticing;
`ReadingIsExact` excepts these timers (`dropped`) and says that timers started
after the overflow read right again.

*What `fixup_threads` says.* On the Intel target a write of a thread other than
thread 0 may land after the flag was raised, since the barrier in `arrive_inc` orders no
memory, and the next split may then add to the slot too early. The run has this barrier.
`ArrivalPublishesAll` says that a counted arrival stands for writes that all threads have
at least issued, that thread 0's own have landed, and that any other still on its way is
in `overtaken`. `ImplementsPromise` says that a stripe without an overtaken write
keeps the abstract promise, whatever the others hold: stripes never mix. With
`SyncFence = TRUE` nothing is ever overtaken, and the two properties have no
exception.

## 4. Fairness

`WF` for each step of a work-group or thread. The kernels launch at most as
many work-groups as the device runs at once (KC:217 "we do not launch more
thread blocks than we can run concurrently"; FS sets the grid to the number of
Xe cores), and a resident work-group keeps its hardware threads until it ends,
so each makes progress. For the sm90 kernels `WF_vars(Next)` is enough: a
waiting warp takes no step in the model, every other step brings the launch
nearer to its end, so a behaviour that always takes some step ends with all
tiles stored or shows a deadlock. Nothing obliges the host to launch again, and no
fairness is assumed for a delayed write to land by itself. Without residency
the properties do not follow from the code: split and KV partitions wait for
work-groups that may be queued behind them.

## 5. Proofs

Each `_proofs` module has an inductive invariant (or two), a lemma per action
that says the action keeps it, and theorems that follow from it by propositional
temporal logic. Each invariant was checked by TLC on the run of its component
before it was proved. What the theorems assume is named in them or is an
`ASSUME` of the component's module, which TLC evaluates on every run.

| module | theorem | states, for every value of the constants | assumes |
|---|---|---|---|
| StreamKFixup_proofs | `TypeCorrect` | `TypeOK` | – |
| | `MutualExclusion`, `WorkspaceCorrect`, `OutputCorrect` | `TurnstileExclusive`, `WorkspaceInOrder`, `OutputComplete` | `WaitSuffices` |
| | `Implements` | `Promise!Spec`: refinement of `GemmOutput`, safety | `WaitSuffices` |
| StreamKFixupThreads_proofs | `TypeCorrect`, `TurnsKept` | `TypeOK`, `AccessInTurn` | – |
| | `ArrivalsPublish`, `Implements` | `ArrivalPublishesAll`, `Promise!Spec` | – |
| EventManager_proofs | `TypeCorrect`, `ReadingsExact`, `Reclaimed` | `TypeOK`, `ReadingIsExact`, `ReclaimedAtLast` | `Careful` |
| XeGroupScheduler_proofs | `OwnParameters`, `TilesOnce` | `OwnGroupsParameters`, `EachTileOnce` | – |
| XeFmhaSplitKV_proofs | `TypeCorrect`, `BlocksOnce`, `NoOtherHeads`, `SlotsAreEnough`, `IdsMatch` | of XeFmhaSplitKVCoverage: `WalkTypeOK`, `EachBlockOnce`, `HeadsExist`, `SlotsSuffice`, `IdsAreWhatTheLeaderReads` | – |
| | `ReductionTypesHold`, `EachBlockCombinedOnce` | `TypeOK`, `CombinesEachBlockOnce` of XeFmhaSplitKVReduction | – |
| XeStreamK_proofs | `OutputIsTheSum`, `AllTilesAreWritten`, `TilesAreWrittenOnce`, `GemmTypesHold` | `OutputComplete`, `NothingLeftBehind`, `WrittenOnce`, `TypeOK` of XeStreamKGemm | `RelaunchSharesNothing`, `AnyOrderOfTwo` |
| | `TypesHold`, `CoverIsExact`, `WorkspaceSuffices`, `SplitsAreNotTiny`, `PeersAreTwo`, `WaitsAreOrdered` | of XeStreamKCoverage: `WalkTypeOK`, `ExactCover`, `FixupInsideWorkspace`, `NoTinySplits`, `AtMostTwoPeers`, `WaitsPointBackwards` | – |
| Sm90WarpSpecialized_proofs | `TurnsTaken` | `TakesTurns` | – |
| | `Typed`, `ReadsTheTileItCameFor`, `ParityIsEnough`, `NothingOnItsWayToAnExitedBlock` | `TypeOK`, `ReadsItsTile`, `ParityTellsPhases`, `NothingReachesAnExitedBlock` | – |

*Assumptions.* `WaitSuffices` is deterministic mode, or no split between the
first and the final one; gemm_nondeterministic_three shows that without it the
theorems are false. `Careful` is the condition of the run
timers (section 3), which fails without it too.
`RelaunchSharesNothing` says that what is launched without `initialize` shares no
tile, `AnyOrderOfTwo` that a nondeterministic reduction has at most two splits: the
runs gemm_relaunch and gemm_nondeterministic_three show that `OutputComplete` is
false without either. `SyncFence` and `CountOrders` are constants of their modules, but
no theorem assumes anything of them. `ReductionAssumption` (section 3) is an `ASSUME`
of XeFmhaSplitKVReduction. `HostAssumption` (accepted problems, a device that can hold
the grid) is an `ASSUME` of XeStreamKGemm. `SplitsAssumption`
(the splits partition the k extent) is what `CoverIsExact` proves of the
scheduler. The three `ProblemsAssumption` say that extents are naturals, a list of
groups is not empty, a decode launch has a head, a block and a work-group, and a
stream-K problem has a tile, a k tile, an SM and a split (zero of them reach the
divisions of `set_params_basic`, which is a hazard of its own).

*StreamKFixup.* `OutputComplete` needs to know what the final split loads,
`WorkspaceInOrder` who may be writing, and both whose turn the flag names.
`IInv` adds `FlagInv` (the flag is the start of a split; splits before it are
done and no other, the final one excepted), `LocationInv` (who is inside the
turnstile has the flag at its own start), `AccumulatorInv` and `OutputInv`. It
rests on lemma `SplitOrder`: adding a split's length to its start gives the next
split and skips none, so an arrival hands the turn to exactly one successor.

*StreamKFixupThreads.* The invariant has two halves. The control half
(`FlagInv`, `LocationInv`, `BarrierInv`) says how far the threads of a
work-group may be apart: those of later splits are held by the barrier of
`wait_eq`, where thread 0 is missing, and a thread that has left the barrier of
`arrive_inc` left nobody behind who still writes. `AccessInTurn` follows from it.
The data half says of each write that it is on its way or has landed
(`PendingInv`, `HasLanded`), that one of an earlier split still on its way has been
recorded in `overtaken`, and that a stripe which is not overtaken holds what has landed
(`SlotInv`), in order. The final split's sum and the output follow for these stripes
(`SumInv`, `OutputInv`). No part of it depends on the kind of barrier: `Released`, the
threads whose writes the release lands, is all that `Signal` needs to know.

*EventManager.* `ReadingIsExact` says nothing of the count of marks, nor of
timers still running. The invariant adds that `recorders` is the number of
marks that are out, counted over the timers alive (`CountInv`), and that the
marks of a timer that is not `dropped` lie in the buffer, which holds between them, or
behind the start mark while the timer runs, what `measured` has collected
(`BufferInv`). With `CountInv` the count reaches zero only when no timer is left
with a mark, so nobody loses events it still has to read.

*XeGroupScheduler.* `OwnParameters` needs what the loop carries between tiles
(`ParametersInv`: `base_params` belongs to `curr_group`, or
`did_group_change` is set). `TilesOnce` needs where the search is: `TilesInv`
says that the group in hand starts at the sum of the blocks before it and not
behind the number searched for, that every computed tile is the one with its
number in the residue of its work-group, and that every number already passed
has been computed. Numbers and tiles correspond one to one
(`TileOfNumber`, `NumberOfTile`, `HoldsOnce`, `TilesDiffer`), and a stride of a
whole grid meets every number of a residue (`ModStep`).

*XeFmhaSplitKVCoverage.* The blocks of all heads are counted in one sequence
(`Linear`); the invariant says that the work-groups walk it from left to right,
each its own share, that no two partitions overlap, and that what has been
walked is covered. The numbering of the partitions is then arithmetic about
which shares meet a head (`IdCounts`, `PartitionCount`).

*XeFmhaSplitKVReduction.* `TypeOK` bounds a counter, and `CombinesEachBlockOnce`
speaks of outputs; neither says whose partitions a counter stands for. The invariant
does: a thread's loop is at a place in the line of all blocks from which its budget
leads to the end of its share (`LoopOf`), so the heads behind it are those it has had,
and after its reset a counter is at most the number of work-groups that share the head
and have gone past it (`Counted`, `CounterInv`); less, if counts came before the reset.
As there are no more of these than the leader waits for (`WorkersCount`), a counter at
that number means that all have counted (`CountersAre`), and it never goes further. A
counter that lost a count never gets there, so losing counts hurts progress only, never
contents. The data half (`DataInv`) follows each part: on its way it belongs to a
partition its work-group has stored, and once it has landed it is in the slot
nobody else writes, as ids are unique (`PartLands`). A part that is counted is in memory or
its head and thread are in `early` (`CountedInv`). A leader thread not in `early` that
has combined i parts then holds the blocks of the first i work-groups of its head, and
after the last all of them (`PartsAdd`). The barrier of the mainloop enters once
(`BarrierInv`): a thread that is through it finds its work-group's reset made, so no
leader waits for a count an earlier launch left.

*XeStreamKCoverage.* The k tiles of all output tiles are laid end to end. In
every decomposition a unit of the linearised unit space is an interval of that
line (`Lo`, `Hi`), and the units partition it (`Units`): in split-K because an
even division with a remainder does (`CutIs`, `BasicPartition`), in stream-K
because there is a tile for each work-group (`StreamTiles`), so boundaries start
at least a tile apart and the adjustment of `assign_work` keeps them so
(`SnapKeepsApart`, `StreamPartition`). What the code computes with its two index
spaces and its backward walk is then the piece of the unit that ends at a given
place (`BasicAssign`, `StreamAssign`, `TailAssign`), and `fetch_next_work` moves that
place down to the previous tile boundary (`Fetch`). The invariant says that
each recorded piece is one of these (`InPlace`), that pieces of a unit do not
overlap, and that nothing walked past is missing. The other properties follow from
where a piece may end: at its unit's end or its tile's (`StreamPiece`,
`BasicPiece`). `ParamsAre` also proves that the branch of PK:296-311 is never
taken.

*XeStreamKGemm.* The composition reuses that line. Each position has one owner
(`OwnerIs`), and `Met` says that the owner's work-group is done with it: beyond
its unit, or below it in the unit. `FlagInv` says that the flag of a shared tile
counts the positions met below its final split, and that these are met in
order; `SlotInv` that between two arrivals the slot holds their sum;
`OutputInv` that the tile is written when its last position is met, and
unwritten before. `PlaceInv` says what a work-group relies on where it is: from
its turn to its arrival the flag stands at its own start. A step then changes
what is met only in `Arrive`, `Epilogue` and the end of an unshared piece
(`Moves`), and never when the next work is fetched (`Resumes`): this is where the
arithmetic of `assign_work` and `fetch_next_work` enters. Two work-groups cannot
both have the turn, because they would have the same position at hand
(`TurnsDiffer`). The final split of a nondeterministic reduction waits for any
arrival; with two splits one arrival is all of them (`OnePeer`, `AllArrived`).
A launch starts with nothing met and flags of zero (`LaunchStarts`): this is what
a relaunch with shared tiles breaks.

*Sm90WarpSpecialized.* The ordered barriers of a Pingpong block are seen through
one parity bit. `BarrierInv` says that each of the four barriers has counted the
arrivals of the other math warp group, `PlaceInv` which phase a warp group waits
for, and `TurnInv` that neither is further ahead of the other than a turn, so that
the bit is enough to tell the phases apart. The rest of the kernel enters only
through what a step may change (`Moves`), so the theorem holds whatever the
pipeline does.

The k tiles a block goes through, tile after tile, are numbered from 0, and number i
uses stage `i % Depth`, phase `i \div Depth` (`At`, `Advance`: this is what the two
rules of `PipelineState::advance` compute). A barrier that has completed n phases
therefore waits for number `n * Depth + s` (`FullAt`, `EmptyAt`). `PipeInv` reads
everything off how far each producer has loaded (`Loaded`) and each math warp group
has read and let go (`Taken`, `LetGo`): what a full barrier still waits for are the
slices of its number that no producer has loaded or that are still in flight, and a
stage holds the slices of that number that have landed and those of the number a
round before otherwise (`FullInv`); what an empty barrier has counted are the readers
that have let go of its number and whose arrival is not on its way (`EmptyInv`). A
copy or an arrival on its way is always of the number its barrier waits for
(`CopyInv`, `ArrivalInv`), so nothing ever arrives a phase early or late: this is what
the three properties need and none of them says. No bound on the distance between
the blocks of a cluster is assumed; it follows, as a producer loads number i only
when all readers in its row and column have let go of number i - Depth. That each
block is told of a free stage by exactly one thread of a warp group
(`EverybodyToldOnce` in the run) is proved for every cluster of up to 16 blocks. A
block has exited when its producer has waited for every stage to be freed
(`load_tail`), and by then nothing is on its way to it.

*Induction.* `NaturalsLemmas` proves induction for a *set* of naturals from the
library's well-foundedness of `<`. With it the proofs reach the
recursive function `blocks_before`: `SumsExist` and `SumsMonotone` say that the
host's loop computes the sums and that they grow.

Only model-checked: the liveness properties, as fairness and ENABLED are out of the
prover's reach. Every invariant of the passing runs is stated by a theorem, under the
conditions the table names.

## 6. Findings

Three runs end in a violation of what a comment of the code states; PROJECT.json
quotes each comment. In short: nondeterministic reduction with three or more
splits may drop a split; `run()` reuses stale flags; the decode kernel counts a
partition before all its threads have stored it. Further weak spots are inside the runs, as exceptions the
properties name: the memory semantics of the Intel named barrier (`overtaken`), the
reset and the relaxed atomics of the decode counters (`lost`, `early`), and timers
around an overflow of the event buffer (`dropped`). Outside them, as conditions: decode
launches with work-groups behind the last head or heads with more partitions than
slots, `update()` before a launch that shares tiles, and timers that never recorded.

## 7. Not modelled, and the plan

Not modelled: arithmetic of mainloops and epilogues, CuTe layouts, copies and
MMA atoms (generated tables of instructions, which are most of the
repository's lines and hold no state), the sm100 pipelines, CUTLASS 2.x
kernels, distributed GEMM, convolution, profiler, generators, Python. The
scheduler's 32-bit values are unbounded here; the extents at which they wrap
are out of TLC's reach. The compat runtime's queues are taken as one in-order
default queue.

Order of the further work:

1. Lifetimes of queues in the compat runtime, with several host threads.
2. The epilogue's load and store pipelines of the sm90 kernels.
