------------------------ MODULE MC_Sm90WarpSpecialized ------------------------
EXTENDS Sm90WarpSpecialized

\* In every cluster the kernels can have, each block a consumer frees a stage
\* for hears of it from exactly one thread, and init_barriers counts as many.
ASSUME EverybodyToldOnce ==
    \A cm, cn \in {1, 2, 4, 8, 16} : cm * cn <= 16 =>
        \A b \in Blocks(cm, cn) :
            /\ \A t, u \in Signals(b, cm, cn) : dst_blockid(t) = dst_blockid(u) => t = u
            /\ Cardinality(Signals(b, cm, cn)) = multicast_consumer_arrival_count(cm, cn, 1)

Launch(kernel, m, n, stages, k, tiles) ==
    [kernel |-> kernel, cluster_m |-> m, cluster_n |-> n, stages |-> stages,
     k_tile_count |-> k, tiles |-> tiles]

\* Two blocks that share A or B, with stages that are used again; one block
\* with more tiles, k tiles fewer and more than stages; a second math warp
\* group without a tile; no tile at all.
MCLaunches ==
    {Launch("pingpong", 2, 1, 2, 2, 2), Launch("pingpong", 1, 2, 2, 3, 1),
     Launch("cooperative", 2, 1, 2, 3, 1), Launch("pingpong", 2, 1, 3, 2, 0),
     Launch("pingpong", 1, 1, 2, 3, 4), Launch("pingpong", 1, 1, 3, 2, 4),
     Launch("pingpong", 1, 1, 2, 1, 5), Launch("pingpong", 1, 1, 4, 3, 3),
     Launch("cooperative", 1, 1, 2, 3, 2), Launch("cooperative", 1, 1, 3, 2, 3)}
=============================================================================
