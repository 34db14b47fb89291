--------------------------- MODULE XeStreamKParams ---------------------------
(***************************************************************************)
(* Host-side arithmetic of the Xe persistent stream-K scheduler            *)
(* (PersistentTileSchedulerXeStreamKParams): which decomposition a GEMM    *)
(* problem gets, how many work units it is cut into, and how much          *)
(* workspace is reserved for the tiles that several work-groups share.     *)
(*                                                                         *)
(* A problem is a record                                                   *)
(*   m, n, l  output tiles along each dimension (problem_blocks),          *)
(*   T        k tiles per output tile,                                     *)
(*   sms      hw_info.sm_count (already positive),                         *)
(*   splits   the caller's splitting factor,                               *)
(*   mode     the caller's DecompositionMode,                              *)
(*   reduction_mode   the caller's ReductionMode.                          *)
(* ktile_start_alignment_count is 1 for every Xe kernel: nothing assigns   *)
(* the member another value, so the branches it guards are left out.       *)
(***************************************************************************)
EXTENDS Integers

CONSTANTS min_iters_per_sk_unit, \* fewest k tiles worth a stream-K split (8)
          Problems               \* the problems the kernel is asked to solve

ASSUME MinItersAssumption == min_iters_per_sk_unit \in Nat \ {0}

DecompositionMode == {"Heuristic", "DataParallel", "SplitK", "StreamK"}
ReductionMode     == {"Deterministic", "Nondeterministic"}

\* Extents, SMs and splits of at least one: nothing else reaches the divisions
\* of set_params.
ASSUME ProblemsAssumption ==
    \A pr \in Problems :
        /\ {pr.m, pr.n, pr.l, pr.T, pr.sms, pr.splits} \subseteq Nat \ {0}
        /\ pr.mode \in DecompositionMode

Smaller(a, b) == IF a <= b THEN a ELSE b
Larger(a, b)  == IF a >= b THEN a ELSE b

OutputTiles(pr) == pr.m * pr.n * pr.l

\* Work-groups launched: one per SM, never more than there are tiles.
get_grid_shape(pr) == Smaller(pr.sms, OutputTiles(pr))

\* Arguments the kernel accepts: a splitting factor above one only makes
\* sense for the decompositions that look at it.
can_implement(pr) == pr.splits = 1 \/ pr.mode \in {"Heuristic", "SplitK"}

-----------------------------------------------------------------------------
(* How many tiles, and how many units, are worked on in stream-K fashion.  *)

\* The heuristic prefers whole tiles when there is no wave quantisation,
\* when k is too short to split, or when the tail wave is half full.
HeuristicRefuses(pr, wgs) ==
    LET tiles == OutputTiles(pr)
        tail  == tiles % wgs
    IN  tail = 0 \/ pr.T <= min_iters_per_sk_unit \/ 2 * tail >= wgs

\* Mutant: only the tail wave is stream-K, as if one wave sufficed.
get_num_sk_tiles_TailOnly(pr, wgs) ==
    LET tiles == OutputTiles(pr)
    IN  IF \/ pr.mode \in {"DataParallel", "SplitK"}
           \/ pr.mode = "Heuristic" /\ HeuristicRefuses(pr, wgs)
        THEN 0
        ELSE tiles - (tiles \div wgs) * wgs

get_num_sk_tiles(pr, wgs) ==
    LET tiles     == OutputTiles(pr)
        fullWaves == tiles \div wgs
        dpWaves   == IF fullWaves > 1 THEN fullWaves - 1 ELSE 0
    IN  IF \/ pr.mode \in {"DataParallel", "SplitK"}
           \/ pr.mode = "Heuristic" /\ HeuristicRefuses(pr, wgs)
        THEN 0
        ELSE tiles - dpWaves * wgs

get_num_sk_units(wgs, skTiles, T) ==
    Smaller(wgs, (T * skTiles) \div min_iters_per_sk_unit)

-----------------------------------------------------------------------------
(* The parameters handed to the device.                                    *)

\* Data-parallel (splits = 1) and split-K: `splits' units on every tile.
set_params_basic(pr, splits) ==
    [ tiles_per_output_tile |-> pr.T,
      batch                 |-> pr.m * pr.n,
      blk_major             |-> pr.n,
      splits                |-> splits,
      units_per_problem     |-> OutputTiles(pr),
      big_units             |-> pr.T % splits,
      k_tiles_per_sk_unit   |-> pr.T \div splits,
      sk_tiles              |-> 0,
      sk_units              |-> 0,
      sk_units_per_group    |-> OutputTiles(pr),
      reduction_mode        |-> pr.reduction_mode ]

set_params_stream_k(pr, skTiles, skUnits) ==
    LET perUnit == (pr.T * skTiles) \div skUnits
    IN  [ tiles_per_output_tile |-> pr.T,
          batch                 |-> pr.m * pr.n,
          blk_major             |-> pr.n,
          splits                |-> pr.splits,
          units_per_problem     |-> (OutputTiles(pr) - skTiles) + skUnits,
          big_units             |-> (pr.T * skTiles) % perUnit,
          k_tiles_per_sk_unit   |-> perUnit,
          sk_tiles              |-> skTiles,
          sk_units              |-> skUnits,
          sk_units_per_group    |-> skUnits,
          reduction_mode        |-> pr.reduction_mode ]

WantsSplitK(pr) ==
    pr.mode = "SplitK" \/ (pr.mode = "Heuristic" /\ pr.splits > 1)

\* The heuristic's own switch to split-K when units divide evenly over tiles.
HeuristicSplitK(pr, skTiles, skUnits) ==
    pr.mode = "Heuristic" /\ skTiles < skUnits /\ skUnits % skTiles = 0

initialize(pr) ==
    LET wgs     == get_grid_shape(pr)
        skTiles == get_num_sk_tiles(pr, wgs)
        skUnits == get_num_sk_units(wgs, skTiles, pr.T)
    IN  IF WantsSplitK(pr)
        THEN set_params_basic(pr, Smaller(Smaller(pr.splits, pr.sms), pr.T))
        ELSE IF \/ pr.mode = "DataParallel"
                \/ pr.mode = "Heuristic" /\ skTiles = 0
                \/ skUnits = 0
        THEN set_params_basic(pr, 1)
        ELSE IF HeuristicSplitK(pr, skTiles, skUnits)
        THEN set_params_basic(pr, skUnits \div skTiles)
        ELSE set_params_stream_k(pr, skTiles, skUnits)

-----------------------------------------------------------------------------
(* Workspace, counted in output tiles: how many have a slot for partial    *)
(* accumulators and a barrier flag.  Sized from the arguments alone, before *)
(* and independently of `initialize'.                                      *)

\* Mutant: sized by the stream-K units instead of the tiles they share.
get_workspace_tiles_ByUnits(pr) ==
    CASE pr.mode = "DataParallel" -> 0
      [] pr.splits > 1 /\ pr.mode \in {"SplitK", "Heuristic"} -> OutputTiles(pr)
      [] OTHER -> LET wgs == get_grid_shape(pr)
                  IN  get_num_sk_units(wgs, get_num_sk_tiles(pr, wgs), pr.T)

get_workspace_tiles(pr) ==
    CASE pr.mode = "DataParallel" -> 0
      [] pr.splits > 1 /\ pr.mode \in {"SplitK", "Heuristic"} -> OutputTiles(pr)
      [] OTHER -> get_num_sk_tiles(pr, get_grid_shape(pr))

\* Where the device believes the reduction slots end and the barrier flags
\* start: recomputed by every fixup from the parameters.
reduction_tiles(p) == IF p.splits > 1 THEN p.units_per_problem ELSE p.sk_tiles
=============================================================================
