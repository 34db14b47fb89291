-------------------------- MODULE XeStreamKCoverage --------------------------
(***************************************************************************)
(* Walks the persistent loop of every work-group of a launch and records   *)
(* the pieces of work it meets, to compare the assignment as a whole with  *)
(* what a GEMM needs.  The assignment does not depend on the interleaving, *)
(* so the work-groups are walked one after the other.                      *)
(***************************************************************************)
EXTENDS XeStreamKScheduler, FiniteSets

VARIABLES subject,     \* the problem of this launch
          wg,          \* BlockIdxX of the work-group being walked
          linear_idx,  \* its current_work_linear_idx_
          tile_info,   \* its work_tile_info
          step,        \* number of pieces it has computed
          pieces       \* every piece computed so far by any work-group

walk == <<subject, wg, linear_idx, tile_info, step, pieces>>

Params == initialize(subject)
Grid   == get_grid_shape(subject)

WalkInit ==
    /\ subject \in {pr \in Problems : can_implement(pr)}
    /\ wg = 0
    /\ linear_idx = 0
    /\ tile_info = get_current_work(Params, 0)
    /\ step = 0
    /\ pieces = {}

\* One iteration of the kernel's while loop.
Compute ==
    /\ is_valid(tile_info)
    /\ pieces' = pieces \cup
         {[ wg |-> wg, step |-> step, unit |-> linear_idx,
            tile |-> output_tile_index(Params, tile_info),
            from |-> tile_info.K_idx, count |-> tile_info.k_tile_count,
            fixup |-> requires_fixup(Params, tile_info),
            final |-> compute_epilogue(Params, tile_info) ]}
    /\ step' = step + 1
    /\ LET next == fetch_next_work(Params, Grid, linear_idx, tile_info)
       IN  linear_idx' = next[1] /\ tile_info' = next[2]
    /\ UNCHANGED <<subject, wg>>

\* The loop has ended: walk the next work-group.
NextWorkGroup ==
    /\ ~is_valid(tile_info)
    /\ wg + 1 < Grid
    /\ wg' = wg + 1
    /\ linear_idx' = wg + 1
    /\ tile_info' = get_current_work(Params, wg + 1)
    /\ step' = 0
    /\ UNCHANGED <<subject, pieces>>

WalkNext == Compute \/ NextWorkGroup

WalkSpec == WalkInit /\ [][WalkNext]_walk

-----------------------------------------------------------------------------
SubjectTiles == 0 .. OutputTiles(subject) - 1
WalkComplete == ~is_valid(tile_info) /\ wg + 1 = Grid
End(x)    == x.from + x.count
Awaits(b, a) == a.tile = b.tile /\ End(a) = b.from
IsStreamK == Params.sk_units > 0

\* Every variable stays in its range: the recorded pieces lie inside the
\* k extent of an existing tile.
WalkTypeOK ==
    /\ subject \in Problems
    /\ wg \in 0 .. Grid - 1
    /\ linear_idx \in Nat /\ step \in Nat
    /\ \A x \in pieces : x.tile \in SubjectTiles /\ x.from >= 0 /\ End(x) <= subject.T

\* All work-groups together compute every k tile of every output tile exactly
\* once (assign_work with fetch_next_work and the grid-stride loop).
ExactCover ==
    WalkComplete => \A t \in SubjectTiles, k \in 0 .. subject.T - 1 :
        Cardinality({x \in pieces : x.tile = t /\ k \in x.from .. End(x) - 1}) = 1

\* A piece that needs fixup has a slot and a zeroed flag: the flag base the
\* device recomputes is the one initialize_workspace zeroed from, and the
\* tile lies inside the reserved part.
FixupInsideWorkspace ==
    \A x \in pieces : x.fixup =>
        /\ reduction_tiles(Params) = get_workspace_tiles(subject)
        /\ x.tile < get_workspace_tiles(subject)

\* Stream-K never leaves a work-group a sliver: pieces of a shared tile have
\* at least min_iters_per_sk_unit_ k tiles (the adjustments in assign_work).
NoTinySplits ==
    IsStreamK => \A x \in pieces : x.fixup => x.count >= min_iters_per_sk_unit

\* A stream-K tile is shared by at most two work-groups, a first and a final
\* one: units are never shorter than a tile.
AtMostTwoPeers ==
    IsStreamK => \A t \in SubjectTiles : Cardinality({x \in pieces : x.tile = t}) <= 2

\* A work-group only ever waits for work that is not behind it: a stream-K
\* piece others wait for is the first its work-group computes, and in split-K
\* the piece waited for has the smaller linear index.
WaitsPointBackwards ==
    \A a, b \in pieces : Awaits(b, a) =>
        IF IsStreamK THEN a.step = 0 ELSE a.unit < b.unit
=============================================================================
