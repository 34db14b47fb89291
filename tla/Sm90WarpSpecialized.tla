-------------------------- MODULE Sm90WarpSpecialized --------------------------
(***************************************************************************)
(* The warp-specialized GEMM kernels for SM90, Pingpong and Cooperative,   *)
(* with the TMA mainloop sm90_mma_tma_gmma_ss and the static scheduler.    *)
(*                                                                         *)
(* In every block of a cluster a producer warp loads k tiles into the      *)
(* stages of shared memory and two math warp groups read them.  Each       *)
(* producer loads a slice of A for its row of the cluster and a slice of   *)
(* B for its column, so a stage fills from several blocks, and a block     *)
(* may load into it only after its readers in all of them let it go.  In   *)
(* Pingpong the math warp groups take tiles in turn, in Cooperative they   *)
(* share each tile.                                                        *)
(*                                                                         *)
(* A slice holds the number of the k tile, counted through all tiles of    *)
(* the block.  Copies and remote arrivals are in flight until they land,   *)
(* in any order.  The epilogue is one step; its own pipelines are not      *)
(* modelled.                                                               *)
(***************************************************************************)
EXTENDS Sm90Pipeline, FiniteSets, Sequences

CONSTANT Launches   \* the launches considered, each a record of: kernel,
                    \* cluster_m and cluster_n, stages, k_tile_count and the
                    \* number of tiles the scheduler gives each block

\* sm90_mma_tma_gmma_ss: K_PIPE_MMAS < K_PIPE_MAX.  A block may
\* get no tile at all.
ASSUME LaunchesAssumption ==
    \A l \in Launches :
        /\ l.kernel \in {"pingpong", "cooperative"}
        /\ {l.cluster_m, l.cluster_n, l.k_tile_count} \subseteq Nat \ {0}
        /\ l.tiles \in Nat
        /\ l.cluster_m * l.cluster_n <= 16
        /\ l.stages \in Nat \ {0, 1}

VARIABLES launch,    \* the launch
          full,      \* full_barrier_: per block and stage
          empty,     \* empty_barrier_: per block and stage
          order,     \* math_wg_order_barrier: per block, its stage and group
          producer,  \* the mainloop producer warp of each block
          math,      \* Consumer0 and Consumer1 of each block
          smem,      \* per block, stage and loading block: the k tile there
          copies,    \* TMA copies that have not landed
          arrivals,  \* remote arrivals that have not landed
          stored     \* per block: the tiles stored, with the warp group

vars == <<launch, full, empty, order, producer, math, smem, copies, arrivals, stored>>

Pingpong   == launch.kernel = "pingpong"
K          == launch.k_tile_count
CTAs       == Blocks(launch.cluster_m, launch.cluster_n)
Stages     == 0 .. launch.stages - 1
WarpGroups == {0, 1}
NoData     == -1

next(s)       == Incremented(s, launch.stages)
after(s, n)   == advance(s, n, launch.stages)

\* The blocks that load into b, and that b loads into; what one sends another
\* in slices; what b needs in a stage (tma_transaction_bytes, in slices).
Sharing(b)        == {d \in CTAs : is_same_row_or_col(d, b, launch.cluster_m)}
Slices(from, to)  == IF from = to THEN 2 ELSE 1
\* Mutant: only the bytes of A are expected.
TmaTransaction_A  == launch.cluster_n
TmaTransaction    == launch.cluster_m + launch.cluster_n

NumConsumerWarpGroups == IF Pingpong THEN 1 ELSE 2   \* num_consumers / 128
TilesPerTurn          == IF Pingpong THEN 2 ELSE 1   \* NumMmaWarpGroups in turn

\* OrderedSequenceBarrier: two stages (mainloop, epilogue) of two groups; a
\* group waits on its own barrier and arrives at the other's.
OrderOf(st, g) == <<st.index, g>>
OrderDepth     == 2

FirstPc(tile)  == IF tile >= launch.tiles THEN "exit"
                  ELSE IF Pingpong THEN "order_mma" ELSE "mma"

\* Mutant: Consumer1's pipeline state starts where Consumer0's does.
FirstMath_SamePipe(w) ==
    LET tile == IF Pingpong THEN w ELSE 0
        pipe == PipelineState(0, 0)
    IN  [pc |-> FirstPc(tile), tile |-> tile, pipe |-> pipe,
         read |-> pipe, release |-> pipe, k |-> 0, reading |-> <<>>,
         order |-> PipelineState(0, IF w = 0 THEN 1 ELSE 0)]

\* Consumer1 of Pingpong starts at the second tile, past the first one's k tiles.
FirstMath(w) ==
    LET tile == IF Pingpong THEN w ELSE 0
        pipe == after(PipelineState(0, 0), tile * K)
    IN  [pc |-> FirstPc(tile), tile |-> tile, pipe |-> pipe,
         read |-> pipe, release |-> pipe, k |-> 0, reading |-> <<>>,
         order |-> PipelineState(0, IF w = 0 THEN 1 ELSE 0)]

\* Mutant: the last tile is not loaded.
LoadOrTail_OffByOne(tile) == IF tile + 1 < launch.tiles THEN "load" ELSE "tail"
LoadOrTail(tile) == IF tile < launch.tiles THEN "load" ELSE "tail"
FirstProducer == [pc |-> LoadOrTail(0), tile |-> 0, k |-> 0, waited |-> 0,
                  pipe |-> make_producer_start_state, write |-> make_producer_start_state]

Init ==
    /\ launch \in Launches
    /\ full  = [b \in CTAs |-> [s \in Stages |-> Barrier(1)]]
    /\ empty = [b \in CTAs |-> [s \in Stages |->
                  Barrier(multicast_consumer_arrival_count(launch.cluster_m,
                            launch.cluster_n, NumConsumerWarpGroups))]]
    /\ order = [b \in CTAs |-> [o \in (0 .. OrderDepth - 1) \X WarpGroups |-> Barrier(1)]]
    /\ producer = [b \in CTAs |-> FirstProducer]
    /\ math = [b \in CTAs |-> [w \in WarpGroups |-> FirstMath(w)]]
    /\ smem = [b \in CTAs |-> [s \in Stages |-> [from \in Sharing(b) |-> NoData]]]
    /\ copies = {}
    /\ arrivals = {}
    /\ stored = [b \in CTAs |-> <<>>]

\* load: the next k tile, once its stage is free.
Load(b) ==
    LET p == producer[b]
        s == p.write.index
        i == p.tile * K + p.k
        last == p.k = K - 1
    IN  /\ p.pc = "load"
        /\ wait(empty[b][s], p.write.phase)
        /\ full' = [full EXCEPT ![b][s] = arrive_and_expect_tx(@, TmaTransaction)]
        /\ copies' = copies \cup {[from |-> b, to |-> d, stage |-> s, k |-> i] : d \in Sharing(b)}
        /\ producer' = [producer EXCEPT ![b] =
             IF last
             THEN [p EXCEPT !.pc = LoadOrTail(p.tile + 1),
                            !.tile = @ + 1, !.k = 0,
                            !.pipe = after(@, K), !.write = after(p.pipe, K)]
             ELSE [p EXCEPT !.k = @ + 1, !.write = next(@)]]
        /\ UNCHANGED <<launch, empty, order, math, smem, arrivals, stored>>

\* Mutant: waits for one stage only.
LoadTail_OneStage(b) ==
    /\ producer[b].pc = "tail"
    /\ wait(empty[b][producer[b].pipe.index], producer[b].pipe.phase)
    /\ producer' = [producer EXCEPT ![b].pc = "exit"]
    /\ UNCHANGED <<launch, full, empty, order, math, smem, copies, arrivals, stored>>

\* load_tail: one stage after the other must be free before the warp exits.
LoadTail(b) ==
    LET p == producer[b]
    IN  /\ p.pc = "tail"
        /\ wait(empty[b][p.pipe.index], p.pipe.phase)
        /\ producer' = [producer EXCEPT ![b].pipe = next(@), ![b].waited = @ + 1,
                          ![b].pc = IF p.waited + 1 = launch.stages THEN "exit" ELSE @]
        /\ UNCHANGED <<launch, full, empty, order, math, smem, copies, arrivals, stored>>

\* A copy lands: the data, then its bytes at the barrier.
CopyLands(m) ==
    /\ smem' = [smem EXCEPT ![m.to][m.stage][m.from] = m.k]
    /\ full' = [full EXCEPT ![m.to][m.stage] = complete_transaction(@, Slices(m.from, m.to))]
    /\ copies' = copies \ {m}
    /\ UNCHANGED <<launch, empty, order, producer, math, arrivals, stored>>

ArrivalLands(m) ==
    /\ empty' = [empty EXCEPT ![m.to][m.stage] = arrive(@)]
    /\ arrivals' = arrivals \ {m}
    /\ UNCHANGED <<launch, full, order, producer, math, smem, copies, stored>>

\* consumer_release of a stage that held k tile i.  The arrival at the block's
\* own barrier lands at once.
consumer_release(b, w, s, i) ==
    LET threads == Signals(b, launch.cluster_m, launch.cluster_n)
    IN  /\ arrivals' = arrivals \cup
             {[from |-> b, group |-> w, thread |-> t, to |-> dst_blockid(t), stage |-> s, k |-> i] :
                t \in {u \in threads : dst_blockid(u) # b}}
        /\ empty' = IF \E t \in threads : dst_blockid(t) = b
                    THEN [empty EXCEPT ![b][s] = arrive(@)]
                    ELSE empty

\* Mutant: waits before the mainloop only.
OrderWait_MainloopOnly(b, w) ==
    LET m == math[b][w]
    IN  /\ m.pc \in {"order_mma", "order_store"}
        /\ m.pc = "order_mma" => wait(order[b][OrderOf(m.order, w)], m.order.phase)
        /\ math' = [math EXCEPT ![b][w].pc = IF m.pc = "order_mma" THEN "mma" ELSE "store"]
        /\ UNCHANGED <<launch, full, empty, order, producer, smem, copies, arrivals, stored>>

\* Mutant: waits before the epilogue only.
OrderWait_EpilogueOnly(b, w) ==
    LET m == math[b][w]
    IN  /\ m.pc \in {"order_mma", "order_store"}
        /\ m.pc = "order_store" => wait(order[b][OrderOf(m.order, w)], m.order.phase)
        /\ math' = [math EXCEPT ![b][w].pc = IF m.pc = "order_mma" THEN "mma" ELSE "store"]
        /\ UNCHANGED <<launch, full, empty, order, producer, smem, copies, arrivals, stored>>

\* math_wg_order_barrier.wait(), before the mainloop and before the epilogue.
OrderWait(b, w) ==
    LET m == math[b][w]
    IN  /\ m.pc \in {"order_mma", "order_store"}
        /\ wait(order[b][OrderOf(m.order, w)], m.order.phase)
        /\ math' = [math EXCEPT ![b][w].pc = IF m.pc = "order_mma" THEN "mma" ELSE "store"]
        /\ UNCHANGED <<launch, full, empty, order, producer, smem, copies, arrivals, stored>>

\* math_wg_order_barrier.arrive(), in Pingpong only.
OrderArrive(b, w) ==
    order' = IF Pingpong
             THEN [order EXCEPT ![b][OrderOf(math[b][w].order, 1 - w)] = arrive(@)]
             ELSE order
NextOrder(st) == IF Pingpong THEN Incremented(st, OrderDepth) ELSE st

\* mma: the next k tile has arrived and its MMAs are issued.
Mma(b, w) ==
    LET m == math[b][w]
    IN  /\ m.pc = "mma"
        /\ m.k < K
        /\ Len(m.reading) < 2
        /\ wait(full[b][m.read.index], m.read.phase)
        /\ math' = [math EXCEPT ![b][w].k = @ + 1, ![b][w].read = next(@),
                      ![b][w].reading = Append(@, [stage |-> m.read.index, k |-> m.tile * K + m.k])]
        /\ UNCHANGED <<launch, full, empty, order, producer, smem, copies, arrivals, stored>>

\* mma: with one k tile in flight (K_PIPE_MMAS) the one before is let go.
MmaRelease(b, w) ==
    LET m == math[b][w]
    IN  /\ m.pc = "mma"
        /\ Len(m.reading) = 2
        /\ consumer_release(b, w, m.release.index, m.reading[1].k)
        /\ math' = [math EXCEPT ![b][w].release = next(@), ![b][w].reading = Tail(@)]
        /\ UNCHANGED <<launch, full, order, producer, smem, copies, stored>>

\* The mainloop is over: the other math warp group may start its own.
MmaEnds(b, w) ==
    LET m == math[b][w]
    IN  /\ m.pc = "mma"
        /\ m.k = K
        /\ Len(m.reading) = 1
        /\ OrderArrive(b, w)
        /\ math' = [math EXCEPT ![b][w].pc = "mma_tail", ![b][w].order = NextOrder(@)]
        /\ UNCHANGED <<launch, full, empty, producer, smem, copies, arrivals, stored>>

\* mma_tail: the last k tile is let go; the pipeline state moves to the next tile.
MmaTail(b, w) ==
    LET m == math[b][w]
        pipe == after(m.pipe, K * TilesPerTurn)
    IN  /\ m.pc = "mma_tail"
        /\ consumer_release(b, w, after(m.pipe, K - 1).index, m.reading[1].k)
        /\ math' = [math EXCEPT ![b][w] =
             [m EXCEPT !.pc = IF Pingpong THEN "order_store" ELSE "store",
                       !.reading = <<>>, !.pipe = pipe, !.read = pipe, !.release = pipe]]
        /\ UNCHANGED <<launch, full, order, producer, smem, copies, stored>>

\* The epilogue stores the tile, lets the other warp group store, and takes
\* its next tile.
Store(b, w) ==
    LET m == math[b][w]
        tile == m.tile + TilesPerTurn
    IN  /\ m.pc = "store"
        /\ stored' = [stored EXCEPT ![b] = Append(@, <<m.tile, w>>)]
        /\ OrderArrive(b, w)
        /\ math' = [math EXCEPT ![b][w] =
             [m EXCEPT !.tile = tile, !.k = 0, !.order = NextOrder(@), !.pc = FirstPc(tile)]]
        /\ UNCHANGED <<launch, full, empty, producer, smem, copies, arrivals>>

Exited(b) == /\ producer[b].pc = "exit"
             /\ \A w \in WarpGroups : math[b][w].pc = "exit"
AllExited == \A b \in CTAs : Exited(b)

WarpGroup(b, w) == \/ OrderWait(b, w) \/ Mma(b, w) \/ MmaRelease(b, w)
                   \/ MmaEnds(b, w) \/ MmaTail(b, w) \/ Store(b, w)
Producer(b)     == Load(b) \/ LoadTail(b)

Done == AllExited /\ copies = {} /\ arrivals = {} /\ UNCHANGED vars

Next == \/ \E b \in CTAs : Producer(b)
        \/ \E b \in CTAs, w \in WarpGroups : WarpGroup(b, w)
        \/ \E m \in copies : CopyLands(m)
        \/ \E m \in arrivals : ArrivalLands(m)
        \/ Done

Spec == Init /\ [][Next]_vars

\* The device runs some warp, or lands something in flight, as long as it can.
\* A waiting warp takes no step, so no fairness among warps is needed.
FairSpec == Spec /\ WF_vars(Next)

--------------------------------------------------------------------------------

\* Types, and the range of every barrier: no more arrivals than a phase counts,
\* and no bytes of a later phase on top of those of the current one.
BarrierOK(b, ahead, behind) ==
    /\ b.pending \in 1 .. b.count \/ (b.pending = 0 /\ b.tx > 0)
    /\ b.tx \in -ahead .. behind
    /\ b.phases \in Nat

StateOK(s, n) == s.index \in 0 .. n - 1 /\ s.phase \in {0, 1}

TypeOK ==
    /\ launch \in Launches
    /\ \A b \in CTAs, s \in Stages :
        /\ BarrierOK(full[b][s], launch.cluster_m + launch.cluster_n - 2,
                                   launch.cluster_m + launch.cluster_n)
        /\ BarrierOK(empty[b][s], 0, 0)
    /\ \A b \in CTAs : \A o \in DOMAIN order[b] : BarrierOK(order[b][o], 0, 0)
    /\ \A b \in CTAs :
        /\ producer[b].pc \in {"load", "tail", "exit"}
        /\ producer[b].tile \in 0 .. launch.tiles
        /\ StateOK(producer[b].pipe, launch.stages)
        /\ StateOK(producer[b].write, launch.stages)
    /\ \A b \in CTAs, w \in WarpGroups :
        /\ math[b][w].pc \in {"order_mma", "mma", "mma_tail", "order_store", "store", "exit"}
        /\ math[b][w].k \in 0 .. K
        /\ StateOK(math[b][w].read, launch.stages)
        /\ StateOK(math[b][w].order, OrderDepth)
    /\ \A m \in copies : m.to \in Sharing(m.from) /\ m.stage \in Stages
    /\ \A m \in arrivals : m.to \in Sharing(m.from) /\ m.stage \in Stages

\* While MMAs read a stage, every slice in it is of the k tile they are meant
\* to read: no block of the cluster has loaded past a reader, and no reader
\* went ahead of a copy (the pairing of full and empty barriers).
ReadsItsTile ==
    \A b \in CTAs, w \in WarpGroups :
        \A i \in DOMAIN math[b][w].reading :
            LET r == math[b][w].reading[i]
            IN  \A from \in Sharing(b) : smem[b][r.stage][from] = r.k

\* A waiter tells phases apart by parity alone, so the barrier it waits at is
\* never more than one phase away from the one it waits for.
ParityTellsPhases ==
    \A b \in CTAs :
        /\ producer[b].pc \in {"load", "tail"} =>
             LET p == producer[b]
                 i == p.tile * K + p.k + p.waited
                 n == i \div launch.stages
             IN  empty[b][i % launch.stages].phases \in {n - 1, n}
        /\ \A w \in WarpGroups :
             LET m == math[b][w]
                 i == m.tile * K + m.k
                 n == i \div launch.stages
                 turn == m.tile \div 2
             IN  /\ m.pc = "mma" /\ m.k < K =>
                       full[b][i % launch.stages].phases \in {n, n + 1}
                 /\ m.pc \in {"order_mma", "order_store"} =>
                       order[b][<<IF m.pc = "order_mma" THEN 0 ELSE 1, w>>].phases
                           \in {turn + w - 1, turn + w}

\* Pingpong: one math warp group at a time in the mainloop, one at a time in
\* the epilogue (they share its shared memory), and the tiles of a block are
\* stored in order by the two in turn.
TakesTurns ==
    Pingpong => \A b \in CTAs :
        /\ \A phase \in {"mma", "store"} : \E w \in WarpGroups : math[b][w].pc # phase
        /\ \A i \in DOMAIN stored[b] : stored[b][i] = <<i - 1, (i - 1) % 2>>

\* "This helps avoid early exit of blocks in Cluster": when a block has exited
\* no copy and no arrival is on its way to it.
NothingReachesAnExitedBlock ==
    \A m \in copies \cup arrivals : ~Exited(m.to)

\* Every block stores every tile it was given, by every warp group that has a
\* share in it, and exits.
AllTilesStored ==
    <>[](\A b \in CTAs :
            /\ Exited(b)
            /\ \A tile \in 0 .. launch.tiles - 1, w \in WarpGroups :
                 (Pingpong => w = tile % 2) =>
                     \E i \in DOMAIN stored[b] : stored[b][i] = <<tile, w>>)
=============================================================================
