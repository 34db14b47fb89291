----------------------------- MODULE StreamKSplits -----------------------------
(***************************************************************************)
(* One output tile whose k extent is split over several work-groups: the   *)
(* splits, named by the k tile they start at (WorkTileInfo::K_idx), and    *)
(* sums of their accumulators, abstracted to how often each split was      *)
(* added.                                                                  *)
(***************************************************************************)
EXTENDS Naturals

CONSTANTS T,              \* divmod_tiles_per_output_tile_.divisor
          Splits,         \* the K_idx of every split of this tile
          k_tile_count    \* how many k tiles each split computes

\* The splits partition the k extent 0 .. T-1 (the scheduler's ExactCover).
ASSUME SplitsAssumption ==
    /\ T \in Nat \ {0}
    /\ Splits \subseteq 0 .. T - 1
    /\ 0 \in Splits
    /\ k_tile_count \in [Splits -> Nat \ {0}]
    /\ \A p \in Splits : p + k_tile_count[p] \in Splits \cup {T}
    /\ \A p, q \in Splits : p < q => p + k_tile_count[p] <= q

is_final_split(p) == p + k_tile_count[p] = T

requires_fixup(p) == k_tile_count[p] # T

Sums      == [Splits -> Nat]
Unwritten == [q \in Splits |-> 0]
Complete  == [q \in Splits |-> 1]
Only(p)   == [q \in Splits |-> IF q = p THEN 1 ELSE 0]
Add(a, b) == [q \in Splits |-> a[q] + b[q]]
=============================================================================
