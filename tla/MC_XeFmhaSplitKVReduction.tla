----------------------- MODULE MC_XeFmhaSplitKVReduction -----------------------
EXTENDS XeFmhaSplitKVReduction

InRange(pr) ==
    /\ can_implement(pr)
    /\ \A w \in 0 .. pr.grid - 1 : start_batch_head_id(pr, w) < pr.heads
    /\ \A h \in 0 .. pr.heads - 1 : get_num_partitions(pr, h) <= max_num_partitions

\* Work-groups of one thread: heads in one to three partitions, work-groups with
\* pieces of two heads, work-groups that lead no head.
OneThread == {pr \in [heads : 1 .. 3, local : 1 .. 4, grid : 1 .. 3, threads : {1}] : InRange(pr)}

\* One head, two partitions, work-groups of two threads.
OneProblem == {[heads |-> 1, local |-> 2, grid |-> 2, threads |-> 2]}

\* Two threads: one head in two and in three partitions, and two heads.
MCProblems == OneThread \cup OneProblem \cup
    {[heads |-> 1, local |-> 3, grid |-> 3, threads |-> 2],
     [heads |-> 2, local |-> 2, grid |-> 2, threads |-> 2]}
=============================================================================
