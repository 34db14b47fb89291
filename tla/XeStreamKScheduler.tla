-------------------------- MODULE XeStreamKScheduler --------------------------
(***************************************************************************)
(* Device-side work assignment of PersistentTileSchedulerXeStreamK: the    *)
(* output tile and the range of k tiles behind every index of the          *)
(* linearised unit space, and the order a work-group visits them in.       *)
(* Everything here is a function of the parameters, so work-groups agree   *)
(* on the assignment without talking to each other.                        *)
(***************************************************************************)
EXTENDS XeStreamKParams

\* WorkTileInfo.  Invalid work has k_tile_count = 0.
invalid_work_tile ==
    [ M_idx |-> -1, N_idx |-> -1, L_idx |-> -1, K_idx |-> -1,
      k_tile_count |-> 0, k_tile_remaining |-> 0 ]

is_valid(w) == w.k_tile_count > 0

is_final_split(p, w) == w.K_idx + w.k_tile_count = p.tiles_per_output_tile

compute_epilogue(p, w) == is_valid(w) /\ is_final_split(p, w)

requires_fixup(p, w) ==
    is_valid(w) /\ w.k_tile_count # p.tiles_per_output_tile

\* Linear index of the tile at (M, N, L): selects its slot and its flag.
output_tile_index(p, w) ==
    p.batch * w.L_idx + (w.M_idx * p.blk_major + w.N_idx)

-----------------------------------------------------------------------------
(* Range of k iterations, over all split tiles laid end to end, that the   *)
(* unit `idx' computes.                                                    *)

\* Even division with the remainder spread over the first, "big", units.
\* In split-K the iterations of unit idx start at its own copy of the tile.
RawStart(p, idx) ==
    IF p.splits > 1
    THEN LET split == idx \div p.sk_units_per_group
         IN  p.tiles_per_output_tile * idx + p.k_tiles_per_sk_unit * split
               + Smaller(split, p.big_units)
    ELSE LET total   == p.sk_tiles * p.tiles_per_output_tile
             perUnit == total \div p.sk_units_per_group
             big     == total - perUnit * p.sk_units_per_group
         IN  perUnit * idx + Smaller(idx, big)

\* Mutant: the remainder of the division is dropped.
RawCount_NoBigUnits(p, idx) ==
    IF p.splits > 1
    THEN p.k_tiles_per_sk_unit
    ELSE (p.sk_tiles * p.tiles_per_output_tile) \div p.sk_units_per_group

RawCount(p, idx) ==
    IF p.splits > 1
    THEN p.k_tiles_per_sk_unit
           + (IF idx \div p.sk_units_per_group < p.big_units THEN 1 ELSE 0)
    ELSE LET total   == p.sk_tiles * p.tiles_per_output_tile
             perUnit == total \div p.sk_units_per_group
         IN  perUnit
               + (IF idx < total - perUnit * p.sk_units_per_group THEN 1 ELSE 0)

\* Mutant: boundaries are left where the even division puts them.
Snap_Never(p, x) == x

\* Move a unit boundary that would leave fewer than the minimum of k tiles on
\* either side of it onto the nearest tile boundary.  The code's comparison
\* with T - min is unsigned: for T < min it wraps and is never true.
Snap(p, x) ==
    LET T == p.tiles_per_output_tile
        r == x % T
    IN  IF r < min_iters_per_sk_unit THEN x - r
        ELSE IF T >= min_iters_per_sk_unit /\ r > T - min_iters_per_sk_unit
        THEN x + (T - r)
        ELSE x

UnitStart(p, idx) ==
    IF p.splits > 1 THEN RawStart(p, idx) ELSE Snap(p, RawStart(p, idx))

UnitEnd(p, idx) ==
    LET end == RawStart(p, idx) + RawCount(p, idx)
    IN  IF p.splits > 1 THEN end ELSE Snap(p, end)

-----------------------------------------------------------------------------
(* One piece of work: an output tile and a range of its k tiles.           *)

\* Mutant: the piece is not cut off at the end of its tile.
AtTile_PastEnd(p, tile, kIdx, count, remaining) ==
    LET inBatch == tile % p.batch
    IN  [ M_idx            |-> inBatch \div p.blk_major,
          N_idx            |-> inBatch % p.blk_major,
          L_idx            |-> tile \div p.batch,
          K_idx            |-> kIdx,
          k_tile_count     |-> remaining,
          k_tile_remaining |-> remaining ]

\* divmod_batch, then get_work_idx_m_and_n.
AtTile(p, tile, kIdx, count, remaining) ==
    LET inBatch == tile % p.batch
    IN  [ M_idx            |-> inBatch \div p.blk_major,
          N_idx            |-> inBatch % p.blk_major,
          L_idx            |-> tile \div p.batch,
          K_idx            |-> kIdx,
          k_tile_count     |-> count,
          k_tile_remaining |-> remaining ]

\* Mutant: a unit works forwards, from its first tile to its last.
assign_work_Forwards(p, idx, w) ==
    LET T == p.tiles_per_output_tile
    IN  IF idx >= p.sk_units /\ p.splits = 1
        THEN AtTile(p, (idx - p.sk_units) + p.sk_tiles, 0, T, T)
        ELSE LET end       == UnitEnd(p, idx)
                 remaining == IF w.k_tile_count = 0
                              THEN end - UnitStart(p, idx)
                              ELSE w.k_tile_remaining
                 start     == end - remaining
                 tile      == start \div T
                 to        == Smaller((tile + 1) * T, end)
             IN  AtTile(p,
                        IF p.splits > 1 THEN tile % p.units_per_problem ELSE tile,
                        start - tile * T, to - start, remaining)

\* A unit works backwards through its tiles: the piece is the part of the
\* unit's remaining range that lies in the last tile of that range.
assign_work(p, idx, w) ==
    LET T == p.tiles_per_output_tile
    IN  IF idx >= p.sk_units /\ p.splits = 1
        THEN AtTile(p, (idx - p.sk_units) + p.sk_tiles, 0, T, T)
        ELSE LET start     == UnitStart(p, idx)
                 remaining == IF w.k_tile_count = 0
                              THEN UnitEnd(p, idx) - start
                              ELSE w.k_tile_remaining
                 end       == start + remaining
                 tile      == (end - 1) \div T
                 from      == Larger(tile * T, start)
                 to        == Smaller((tile + 1) * T, end)
             IN  AtTile(p,
                        IF p.splits > 1 THEN tile % p.units_per_problem ELSE tile,
                        from - tile * T, to - from, remaining)

get_current_work(p, idx) ==
    IF idx >= p.units_per_problem * p.splits
    THEN invalid_work_tile
    ELSE assign_work(p, idx, invalid_work_tile)

\* Rest of the current unit, if any: invalid work says it is exhausted.
continue_current_work(p, idx, w) ==
    LET left == w.k_tile_remaining - w.k_tile_count
    IN  IF left = 0
        THEN invalid_work_tile
        ELSE assign_work(p, idx, [w EXCEPT !.k_tile_remaining = left])

\* The next <<linear index, work>> of a work-group in a grid of `grid'.
fetch_next_work(p, grid, idx, w) ==
    LET more == continue_current_work(p, idx, w)
    IN  IF is_valid(more)
        THEN <<idx, more>>
        ELSE <<idx + grid, get_current_work(p, idx + grid)>>
=============================================================================
