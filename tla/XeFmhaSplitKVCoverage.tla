------------------------- MODULE XeFmhaSplitKVCoverage -------------------------
(***************************************************************************)
(* Walks the loops of all work-groups of a decode launch and records the   *)
(* partitions, to compare the division with the batch heads as a whole.    *)
(* The division does not depend on the interleaving, so the work-groups    *)
(* are walked one after the other.                                         *)
(***************************************************************************)
EXTENDS XeFmhaSplitKV, FiniteSets

VARIABLES subject,     \* the problem of this launch
          wg,          \* the work-group being walked
          iter,        \* its loop state
          partitions   \* the partitions computed so far

walk == <<subject, wg, iter, partitions>>

WalkInit ==
    /\ subject \in {pr \in Problems : can_implement(pr)}
    /\ wg = 0
    /\ iter = StartOfLoop(subject, 0)
    /\ partitions = {}

\* One iteration of the while loop: mainloop over the blocks and store of the
\* partial result.
Compute ==
    /\ iter.block_budget_remained > 0
    /\ partitions' = partitions \cup
         {[ wg   |-> wg,
            head |-> iter.batch_head_id,
            id   |-> get_partition_id(subject, wg, iter.batch_head_id),
            from |-> start_blk(iter),
            to   |-> end_blk(subject, iter) ]}
    /\ iter' = LET s == NextPartition(subject, iter)
               IN  IF LoopContinues(subject, s) THEN s
                   ELSE [s EXCEPT !.block_budget_remained = 0]
    /\ UNCHANGED <<subject, wg>>

NextWorkGroup ==
    /\ iter.block_budget_remained = 0
    /\ wg + 1 < subject.grid
    /\ wg' = wg + 1
    /\ iter' = StartOfLoop(subject, wg + 1)
    /\ UNCHANGED <<subject, partitions>>

WalkNext == Compute \/ NextWorkGroup

WalkSpec == WalkInit /\ [][WalkNext]_walk

-----------------------------------------------------------------------------
SubjectHeads == 0 .. subject.heads - 1
WalkComplete == iter.block_budget_remained = 0 /\ wg + 1 = subject.grid
OfHead(head) == {x \in partitions : x.head = head}

\* Every variable stays in its range: partitions are non-empty block ranges
\* of a head.
WalkTypeOK ==
    /\ subject \in Problems
    /\ wg \in 0 .. subject.grid - 1
    /\ iter.block_budget_remained \in 0 .. num_blocks_per_wg(subject)
    /\ iter.num_computed_blocks \in 0 .. subject.local - 1
    /\ \A x \in partitions : 0 <= x.from /\ x.from < x.to /\ x.to <= subject.local

\* Together the work-groups process every KV block of every batch head
\* exactly once.
EachBlockOnce ==
    WalkComplete => \A head \in SubjectHeads, k \in 0 .. subject.local - 1 :
        Cardinality({x \in OfHead(head) : k \in x.from .. x.to - 1}) = 1

\* The partitions of a head are stored under the ids the leader reads:
\* get_partition_id, computed by each worker for itself, numbers them
\* 0 .. get_num_partitions - 1 without gap or clash.
IdsAreWhatTheLeaderReads ==
    WalkComplete => \A head \in SubjectHeads :
        /\ {x.id : x \in OfHead(head)} = 0 .. get_num_partitions(subject, head) - 1
        /\ Cardinality(OfHead(head)) = get_num_partitions(subject, head)

\* A head that does not exist is processed only by work-groups whose whole
\* share lies behind the last block: no other work-group runs past the heads.
\* can_implement does not refuse launches that have such work-groups.
HeadsExist == \A x \in partitions :
    x.wg * num_blocks_per_wg(subject) < subject.heads * subject.local => x.head \in SubjectHeads

\* The slots reserved for a head hold its partitions, as long as a head is at
\* most one block longer than all but one of the slots can be given.
SlotsSuffice ==
    subject.local <= (max_num_partitions - 1) * num_blocks_per_wg(subject) + 1 =>
        \A x \in partitions : x.head \in SubjectHeads => x.id \in 0 .. max_num_partitions - 1
=============================================================================
