----------------------------- MODULE Sm90Pipeline -----------------------------
(***************************************************************************)
(* The values the mainloop pipeline of the SM90 kernels is made of: the    *)
(* mbarriers of arch/barrier.h, and from pipeline/sm90_pipeline.hpp the    *)
(* PipelineState that walks the stages and the rule that says which blocks *)
(* of a cluster a consumer frees a stage for (PipelineTmaAsync).           *)
(*                                                                         *)
(* An mbarrier counts the arrivals and the bytes it still waits for; it    *)
(* enters its next phase when both are 0.  A waiter knows the phase it     *)
(* waits for by its parity only.  phases counts what the hardware keeps    *)
(* one bit of.  A warp group of 128 threads arrives as one.                *)
(***************************************************************************)
EXTENDS Integers

\* ClusterBarrier and ClusterTransactionBarrier.
Barrier(arrive_count) ==
    [count |-> arrive_count, pending |-> arrive_count, tx |-> 0, phases |-> 0]

PhaseEnds(b) ==
    IF b.pending = 0 /\ b.tx = 0
    THEN [b EXCEPT !.pending = b.count, !.phases = @ + 1]
    ELSE b

arrive(b)                   == PhaseEnds([b EXCEPT !.pending = @ - 1])
arrive_and_expect_tx(b, tx) == PhaseEnds([b EXCEPT !.pending = @ - 1, !.tx = @ + tx])
complete_transaction(b, tx) == PhaseEnds([b EXCEPT !.tx = @ - tx])

\* wait(phase) returns once the phase of this parity is over.
wait(b, phase) == b.phases % 2 # phase

\* PipelineState: the stage an actor is at and the parity it waits for there.
PipelineState(index, phase) == [index |-> index, phase |-> phase]
make_producer_start_state   == PipelineState(0, 1)

Incremented(s, Stages) ==
    IF s.index + 1 = Stages THEN PipelineState(0, 1 - s.phase)
                            ELSE PipelineState(s.index + 1, s.phase)

advance(s, n, Stages) ==
    LET crossed == \/ n < Stages /\ s.index + n >= Stages
                   \/ n >= Stages /\ ((s.index + n) \div Stages) % 2 = 1
    IN  PipelineState((s.index + n) % Stages, IF crossed THEN 1 - s.phase ELSE s.phase)

\* The blocks of a cluster of cm x cn, and the place of each.
Blocks(cm, cn)   == 0 .. cm * cn - 1
block_x(cm, b)   == b % cm
block_y(cm, b)   == b \div cm

\* spread_arrivals_to_warpgroup: of each warp (row) every eighth thread (col)
\* signals, one of them for each of 16 blocks.
SignalingThreads  == (0 .. 3) \X (0 .. 3)
Xor2(a, b)        == ((a + b) % 2) + 2 * ((a \div 2 + b \div 2) % 2)
dst_blockid(t)    == Xor2(t[1], t[2]) * 4 + t[2]

is_same_row_or_col(dst, b, cm) ==
    \/ block_x(cm, dst) = block_x(cm, b)
    \/ block_y(cm, dst) = block_y(cm, b)

\* The threads of a warp group of block b whose arrival counts.
Signals(b, cm, cn) ==
    {t \in SignalingThreads : /\ dst_blockid(t) < cm * cn
                              /\ is_same_row_or_col(dst_blockid(t), b, cm)}

\* init_barriers: the arrivals that free a stage.
multicast_consumer_arrival_count(cm, cn, warpgroups) == (cm + cn - 1) * warpgroups
=============================================================================
