----------------------------- MODULE XeFmhaSplitKV -----------------------------
(***************************************************************************)
(* How the flash-attention decode kernel XeFMHAFwdDynamicSplitKernel       *)
(* divides the KV blocks of all batch heads over a fixed grid: work-group  *)
(* w takes the next num_blocks_per_wg blocks of the concatenated heads,    *)
(* and cuts them at every head boundary into partitions.                   *)
(*                                                                         *)
(* A problem has                                                           *)
(*   heads   num_batch_heads = batch * num_heads_q                         *)
(*   local   local_k_blocks, KV blocks of one head                         *)
(*   grid    work-groups in z: hw_info.sm_count                            *)
(* and one query block (seq_len_qo = 1, one V tile).                       *)
(***************************************************************************)
EXTENDS Integers

CONSTANTS max_num_partitions,   \* slots reserved for the partitions of a head
          Problems              \* the problems a launch may have

ASSUME PartitionsAssumption == max_num_partitions \in Nat \ {0}

ASSUME ProblemsAssumption ==
    \A pr \in Problems : /\ pr.heads \in Nat \ {0}
                         /\ pr.local \in Nat \ {0}
                         /\ pr.grid \in Nat \ {0}

can_implement(pr) == pr.heads <= pr.grid

ceil_div(a, b) == (a + b - 1) \div b

num_blocks_per_wg(pr) == ceil_div(pr.local * pr.heads, pr.grid)

start_batch_head_id(pr, w) == (w * num_blocks_per_wg(pr)) \div pr.local

is_leader_wg(pr, w) == w < pr.heads

\* State of a work-group's loop: the batch head it is at, the blocks of that
\* head that belong to earlier work-groups, and the blocks it may still do.
StartOfLoop(pr, w) ==
    LET head == start_batch_head_id(pr, w)
    IN  [ batch_head_id |-> head,
          num_computed_blocks |-> w * num_blocks_per_wg(pr) - head * pr.local,
          block_budget_remained |-> num_blocks_per_wg(pr) ]

num_new_blocks(pr, s) == pr.local - s.num_computed_blocks

FinishesHead(pr, s) == num_new_blocks(pr, s) <= s.block_budget_remained

start_blk(s) == s.num_computed_blocks

\* Mutant: the budget is not cut off at the end of the head.
end_blk_PastHead(pr, s) == s.num_computed_blocks + s.block_budget_remained

end_blk(pr, s) ==
    s.num_computed_blocks + IF FinishesHead(pr, s) THEN num_new_blocks(pr, s)
                                                   ELSE s.block_budget_remained

\* Mutant: the blocks done in the previous head are not forgotten.
NextPartition_KeepComputed(pr, s) ==
    IF FinishesHead(pr, s)
    THEN [ s EXCEPT !.batch_head_id = @ + 1,
                    !.block_budget_remained = @ - num_new_blocks(pr, s) ]
    ELSE [ s EXCEPT !.block_budget_remained = 0 ]

\* The loop state after a partition.
NextPartition(pr, s) ==
    IF FinishesHead(pr, s)
    THEN [ batch_head_id |-> s.batch_head_id + 1,
           num_computed_blocks |-> 0,
           block_budget_remained |-> s.block_budget_remained - num_new_blocks(pr, s) ]
    ELSE [ s EXCEPT !.block_budget_remained = 0 ]

\* Mutant: only the budget ends the loop.
LoopContinues_WholeBudget(pr, s) == s.block_budget_remained > 0

\* The loop ends with the budget, or after the last head; the second test is
\* made only once a head has been finished.
LoopContinues(pr, s) == s.block_budget_remained > 0 /\ s.batch_head_id < pr.heads

\* Mutant: the partitions of all heads are numbered from the first work-group on.
get_partition_id_Global(pr, w, head) == w

\* The number of a work-group among those that share a head.
get_partition_id(pr, w, head) ==
    IF head = 0 THEN w ELSE w - (head * pr.local) \div num_blocks_per_wg(pr)

\* Mutant: a head that ends where a work-group ends is not corrected for.
get_num_partitions_NoCorrection(pr, head) ==
    ((head + 1) * pr.local) \div num_blocks_per_wg(pr)
      - (head * pr.local) \div num_blocks_per_wg(pr) + 1

get_num_partitions(pr, head) ==
    LET start_wg_id == (head * pr.local) \div num_blocks_per_wg(pr)
        end_wg_id   == ((head + 1) * pr.local) \div num_blocks_per_wg(pr)
    IN  end_wg_id - start_wg_id
          + IF ((head + 1) * pr.local) % num_blocks_per_wg(pr) = 0 THEN 0 ELSE 1
=============================================================================
