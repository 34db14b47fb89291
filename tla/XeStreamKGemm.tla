----------------------------- MODULE XeStreamKGemm -----------------------------
(***************************************************************************)
(* A GEMM kernel with the stream-K scheduler, from the host's run() to the *)
(* last tile: the persistent work-groups of the Xe cooperative kernel walk *)
(* the work XeStreamKScheduler assigns them and reduce shared tiles        *)
(* through flags and slots in a workspace that outlives the launch.        *)
(*                                                                         *)
(* Accumulators, slots and output tiles count how often each k tile was    *)
(* added to them in this launch; the extra term Stale marks data left in   *)
(* the workspace by an earlier launch, or by nobody.                       *)
(***************************************************************************)
EXTENDS XeStreamKScheduler, FiniteSets

CONSTANTS Relaunched,      \* the problems run() may launch without initialize()
          MaxLaunches,     \* bound on the number of launches
          Resident         \* work-groups the device runs at the same time

ASSUME HostAssumption ==
    /\ Relaunched \subseteq Problems
    /\ MaxLaunches \in Nat \ {0}
    /\ \A pr \in Problems : can_implement(pr) /\ pr.sms <= Resident

VARIABLES stored,   \* arguments the adapter's params_ was made from
          problem,  \* arguments of the current launch
          params,   \* the launch's copy of params_.scheduler
          launches, \* launches so far
          where,    \* where each work-group of the launch is
          idx,      \* its current_work_linear_idx_
          work,     \* its work_tile_info
          acc,      \* its accumulators
          flags,    \* lock workspace: k tiles accumulated, per output tile
          slots,    \* reduction workspace: partial sums, per output tile
          D         \* output tiles of the current launch

device == <<where, idx, work, acc, slots, D>>
vars   == <<stored, problem, params, launches, flags, device>>

WorkGroups == 0 .. get_grid_shape(problem) - 1
Tiles      == 0 .. OutputTiles(problem) - 1

Stale     == -1
Terms(pr) == {Stale} \cup (0 .. pr.T - 1)
Unwritten == [k \in Terms(problem) |-> 0]
Complete  == [k \in Terms(problem) |-> IF k = Stale THEN 0 ELSE 1]
Sum(a, b) == [k \in DOMAIN a |-> a[k] + b[k]]

\* The product of the k tiles of one piece of work.
Product(w) ==
    [k \in Terms(problem) |-> IF k \in w.K_idx .. w.K_idx + w.k_tile_count - 1
                              THEN 1 ELSE 0]

TileOf(g) == output_tile_index(params, work[g])

-----------------------------------------------------------------------------
(* The host.                                                               *)

Finished == \A g \in DOMAIN where : where[g] = "retired"

\* State of the device when a launch of problem pr starts.
StartLaunch(pr) ==
    LET grid  == 0 .. get_grid_shape(pr) - 1
        tiles == 0 .. OutputTiles(pr) - 1
    IN  /\ problem' = pr
        /\ params' = initialize(pr)
        /\ where' = [g \in grid |-> "queued"]
        /\ idx'   = [g \in grid |-> g]
        /\ work'  = [g \in grid |-> invalid_work_tile]
        /\ acc'   = [g \in grid |-> [k \in Terms(pr) |-> 0]]
        /\ slots' = [t \in tiles |-> [k \in Terms(pr) |-> IF k = Stale THEN 1 ELSE 0]]
        /\ D'     = [t \in tiles |-> [k \in Terms(pr) |-> 0]]

\* No launch yet.
Init ==
    /\ problem \in Problems
    /\ stored = problem
    /\ params = initialize(problem)
    /\ launches = 0
    /\ where = << >> /\ idx = << >> /\ work = << >> /\ acc = << >>
    /\ flags = << >> /\ slots = << >> /\ D = << >>

\* Mutant: initialize_workspace leaves flags that are already there.
Run_KeepFlags(pr) ==
    /\ launches < MaxLaunches
    /\ Finished
    /\ launches' = launches + 1
    /\ stored' = pr
    /\ flags' = [t \in 0 .. OutputTiles(pr) - 1 |->
                   IF t \in DOMAIN flags THEN flags[t] ELSE 0]
    /\ StartLaunch(pr)

\* run(args, workspace): initialize_workspace zeroes the flags, and only
\* them; kernels of one queue run one after the other.
Run(pr) ==
    /\ launches < MaxLaunches
    /\ Finished
    /\ launches' = launches + 1
    /\ stored' = pr
    /\ flags' = [t \in 0 .. OutputTiles(pr) - 1 |-> 0]
    /\ StartLaunch(pr)

\* update(args): replaces params_ and leaves the workspace as it is; a kernel
\* that is running has its own copy.
Update(pr) ==
    /\ launches \in 1 .. MaxLaunches - 1
    /\ stored' = pr
    /\ UNCHANGED <<problem, params, launches, flags, device>>

\* run() without arguments launches params_ again.
Relaunch ==
    /\ stored \in Relaunched
    /\ launches \in 1 .. MaxLaunches - 1
    /\ Finished
    /\ launches' = launches + 1
    /\ StartLaunch(stored)
    /\ UNCHANGED <<stored, flags>>

-----------------------------------------------------------------------------
(* A work-group.                                                           *)

Goto(g, place) == where' = [where EXCEPT ![g] = place]

\* Where the loop continues with the work w: it ends at the first invalid one.
LoopPlace(w) == IF is_valid(w) THEN "mainloop" ELSE "retired"

\* The device starts queued work-groups in any order, as many as fit.
Dispatch(g) ==
    /\ where[g] = "queued"
    /\ Cardinality({h \in WorkGroups : where[h] \notin {"queued", "retired"}}) < Resident
    /\ work' = [work EXCEPT ![g] = get_current_work(params, idx[g])]
    /\ Goto(g, LoopPlace(work'[g]))
    /\ UNCHANGED <<stored, problem, params, launches, flags, idx, acc, slots, D>>

\* Mutant: only a piece that was reduced gets an epilogue.
AfterMainloop_FixupOnly(w) == IF requires_fixup(params, w) THEN "fixup" ELSE "fetch"

\* Where a piece goes after its mainloop.
AfterMainloop(w) ==
    IF requires_fixup(params, w) THEN "fixup"
    ELSE IF compute_epilogue(params, w) THEN "epilogue" ELSE "fetch"

Mainloop(g) ==
    /\ where[g] = "mainloop"
    /\ acc' = [acc EXCEPT ![g] = Product(work[g])]
    /\ Goto(g, AfterMainloop(work[g]))
    /\ UNCHANGED <<stored, problem, params, launches, flags, idx, work, slots, D>>

Store(g) ==
    /\ where[g] = "fixup"
    /\ ~compute_epilogue(params, work[g])
    /\ work[g].K_idx = 0
    /\ slots' = [slots EXCEPT ![TileOf(g)] = acc[g]]
    /\ Goto(g, "arrive")
    /\ UNCHANGED <<stored, problem, params, launches, flags, idx, work, acc, D>>

WaitTurn(g) ==
    /\ where[g] = "fixup"
    /\ ~compute_epilogue(params, work[g])
    /\ work[g].K_idx # 0
    /\ flags[TileOf(g)] = work[g].K_idx
    /\ Goto(g, "reduce")
    /\ UNCHANGED <<stored, problem, params, launches, flags, idx, work, acc, slots, D>>

Reduce(g) ==
    /\ where[g] = "reduce"
    /\ slots' = [slots EXCEPT ![TileOf(g)] = Sum(@, acc[g])]
    /\ Goto(g, "arrive")
    /\ UNCHANGED <<stored, problem, params, launches, flags, idx, work, acc, D>>

\* Mutant: the flag counts work-groups, not k tiles.
Arrive_ByOne(g) ==
    /\ where[g] = "arrive"
    /\ flags' = [flags EXCEPT ![TileOf(g)] = @ + 1]
    /\ Goto(g, "fetch")
    /\ UNCHANGED <<stored, problem, params, launches, idx, work, acc, slots, D>>

Arrive(g) ==
    /\ where[g] = "arrive"
    /\ flags' = [flags EXCEPT ![TileOf(g)] = @ + work[g].k_tile_count]
    /\ Goto(g, "fetch")
    /\ UNCHANGED <<stored, problem, params, launches, idx, work, acc, slots, D>>

\* What the final split waits for.
\* Mutant: nothing.
PartialsReady_Always(g) == TRUE

PartialsReady(g) ==
    IF params.reduction_mode = "Deterministic"
    THEN flags[TileOf(g)] = work[g].K_idx
    ELSE flags[TileOf(g)] >= 1

LoadAdd(g) ==
    /\ where[g] = "fixup"
    /\ compute_epilogue(params, work[g])
    /\ PartialsReady(g)
    /\ acc' = [acc EXCEPT ![g] = Sum(@, slots[TileOf(g)])]
    /\ Goto(g, "epilogue")
    /\ UNCHANGED <<stored, problem, params, launches, flags, idx, work, slots, D>>

Epilogue(g) ==
    /\ where[g] = "epilogue"
    /\ D' = [D EXCEPT ![TileOf(g)] = acc[g]]
    /\ Goto(g, "fetch")
    /\ UNCHANGED <<stored, problem, params, launches, flags, idx, work, acc, slots>>

\* Mutant: after a unit the work-group goes on to the next index.
FetchNext_NoStride(g) ==
    /\ where[g] = "fetch"
    /\ LET next == fetch_next_work(params, 1, idx[g], work[g])
       IN  /\ idx'  = [idx EXCEPT ![g] = next[1]]
           /\ work' = [work EXCEPT ![g] = next[2]]
    /\ Goto(g, LoopPlace(work'[g]))
    /\ UNCHANGED <<stored, problem, params, launches, flags, acc, slots, D>>

FetchNext(g) ==
    /\ where[g] = "fetch"
    /\ LET next == fetch_next_work(params, get_grid_shape(problem), idx[g], work[g])
       IN  /\ idx'  = [idx EXCEPT ![g] = next[1]]
           /\ work' = [work EXCEPT ![g] = next[2]]
    /\ Goto(g, LoopPlace(work'[g]))
    /\ UNCHANGED <<stored, problem, params, launches, flags, acc, slots, D>>

Step(g) ==
    \/ Dispatch(g) \/ Mainloop(g) \/ Store(g) \/ WaitTurn(g) \/ Reduce(g)
    \/ Arrive(g) \/ LoadAdd(g) \/ Epilogue(g) \/ FetchNext(g)

\* The host makes no more calls and the last launch has ended.
Terminated ==
    /\ launches = MaxLaunches
    /\ Finished
    /\ UNCHANGED vars

Next ==
    \/ \E pr \in Problems : Run(pr)
    \/ \E pr \in Relaunched : Update(pr)
    \/ Relaunch
    \/ \E g \in DOMAIN where : Step(g)
    \/ Terminated

\* Resident work-groups all make progress, and a queued one starts once there
\* is room for it.  Nothing obliges the host to launch.
Spec     == Init /\ [][Next]_vars
AllGroups == 0 .. Resident - 1
FairSpec == Spec /\ \A g \in AllGroups : WF_vars(g \in DOMAIN where /\ Step(g))

-----------------------------------------------------------------------------
\* Every variable stays in its range; a flag of a launch that uses the
\* workspace never counts more k tiles than the tile has.
TypeOK ==
    /\ stored \in Problems
    /\ problem \in Problems /\ params = initialize(problem)
    /\ launches \in 0 .. MaxLaunches
    /\ launches > 0 =>
        /\ where \in [WorkGroups -> {"queued", "mainloop", "fixup", "reduce",
                                     "arrive", "epilogue", "fetch", "retired"}]
        /\ get_workspace_tiles(problem) > 0 => flags \in [Tiles -> 0 .. problem.T]
        /\ slots \in [Tiles -> [Terms(problem) -> Nat]]
        /\ D \in [Tiles -> [Terms(problem) -> Nat]]

\* A tile is written only as the sum of each of its k tiles exactly once,
\* whatever the workspace held before and whoever shared the tile.
OutputComplete == \A t \in DOMAIN D : D[t] \in {Unwritten, Complete}

\* When the launch has ended, every tile has been written.
NothingLeftBehind ==
    launches > 0 /\ Finished => \A t \in Tiles : D[t] = Complete

\* A tile is written once in a launch, by one work-group: whoever has come to
\* the epilogue is alone there with its tile and finds it unwritten.
WrittenOnce ==
    \A g \in DOMAIN where : where[g] = "epilogue" =>
        /\ D[TileOf(g)] = Unwritten
        /\ \A h \in DOMAIN where \ {g} :
              where[h] = "epilogue" => TileOf(h) # TileOf(g)

\* Every launch ends: no work-group spins for ever on a flag.
EveryLaunchEnds == \A n \in 1 .. MaxLaunches :
    launches = n ~> (launches = n /\ Finished)
=============================================================================
