-------------------------- MODULE MC_XeGroupScheduler --------------------------
EXTENDS XeGroupScheduler

\* Empty, one tile, whole and partial tiles, more rows than columns and the
\* other way round.
Extents == {[m |-> 0, n |-> 3], [m |-> 1, n |-> 2], [m |-> 3, n |-> 4],
            [m |-> 5, n |-> 2], [m |-> 2, n |-> 7]}

\* Up to three groups, on grids smaller and larger than the number of tiles.
MCProblems ==
    [ groups   : UNION {[1 .. n -> Extents] : n \in 1 .. 3},
      host     : BOOLEAN,
      raster   : {"AlongM", "AlongN", "Heuristic"},
      sm_count : {1, 2, 4} ]
=============================================================================
