------------------------- MODULE XeFmhaSplitKVReduction -------------------------
(***************************************************************************)
(* The reduction of XeFMHAFwdDynamicSplitKernel, thread by thread.  Every  *)
(* work-group stores one partial result per partition and counts it; the   *)
(* leader of a batch head -- the work-group of the same number -- spins    *)
(* until all partitions are counted and combines them.                     *)
(*                                                                         *)
(* Each thread stores and reads its own part of a partial result.  Data    *)
(* is abstracted to how often each KV block went into it; the extra term   *)
(* Stale marks what an earlier launch left there.  A stored part is on its *)
(* way for a while, and lands at any time later.                           *)
(*                                                                         *)
(* Nothing makes a count wait for the parts it stands for, nor for the     *)
(* leader's reset.  Two history variables, which no step of the kernel     *)
(* reads, record when that went wrong: early has the parts counted before  *)
(* they were in memory, lost the heads whose counter was reset after a     *)
(* count.                                                                  *)
(***************************************************************************)
EXTENDS XeFmhaSplitKV

CONSTANT CountOrders   \* TRUE: atomicAdd keeps behind the earlier stores of its
                       \* thread; FALSE: it need not, as a relaxed operation

\* A problem has one more part here: threads, the threads of a work-group.
\* can_implement, and the problems whose work-groups all start at an existing
\* head and whose partitions fit (see XeFmhaSplitKVCoverage).
ASSUME ReductionAssumption ==
    /\ CountOrders \in BOOLEAN
    /\ \A pr \in Problems :
        /\ pr.threads \in Nat \ {0}
        /\ can_implement(pr)
        /\ \A w \in 0 .. pr.grid - 1 : start_batch_head_id(pr, w) < pr.heads
        /\ \A h \in 0 .. pr.heads - 1 : get_num_partitions(pr, h) <= max_num_partitions

Stale == -1

VARIABLES problem,  \* the problem of this launch
          pc,       \* where each thread of each work-group is
          loop,     \* its loop state
          counter,  \* atomic_reduce_cnt_ptr, per batch head
          partial,  \* partial_results_ptr: per head, partition id and thread
          onTheWay, \* stored parts that have not landed there
          read,     \* partitions a thread of a leader has combined
          acc,      \* tArA, tA_max, tA_sum of the thread
          O,        \* the output of each head, per thread
          early,    \* history: <<head, thread>> of the parts counted too early
          lost      \* history: the heads that lost a count

history == <<early, lost>>
vars    == <<problem, pc, loop, counter, partial, onTheWay, read, acc, O, history>>

Groups    == 0 .. problem.grid - 1
Heads     == 0 .. problem.heads - 1
Threads   == 0 .. problem.threads - 1
Everyone  == Groups \X Threads
Terms     == {Stale} \cup 0 .. problem.local - 1
Nothing   == [k \in Terms |-> 0]
Garbage   == [k \in Terms |-> IF k = Stale THEN 1 ELSE 0]
AllBlocks == [k \in Terms |-> IF k = Stale THEN 0 ELSE 1]
Sum(a, b) == [k \in Terms |-> a[k] + b[k]]

\* What the mainloop computes from the blocks of the thread's partition.
Blocks(s) ==
    [k \in Terms |-> IF k \in start_blk(s) .. end_blk(problem, s) - 1 THEN 1 ELSE 0]

\* A first launch finds the counters zeroed by initialize_workspace, a later
\* one as the launch before left them.
Init ==
    /\ problem \in Problems
    /\ pc = [x \in Everyone |-> "start"]
    /\ loop = [x \in Everyone |-> StartOfLoop(problem, x[1])]
    /\ counter \in {[h \in Heads |-> 0], [h \in Heads |-> get_num_partitions(problem, h)]}
    /\ partial = [h \in Heads |-> [i \in 0 .. max_num_partitions - 1 |->
                                     [t \in Threads |-> Garbage]]]
    /\ onTheWay = {}
    /\ read = [x \in Everyone |-> 0]
    /\ acc = [x \in Everyone |-> Nothing]
    /\ O = [h \in Heads |-> [t \in Threads |-> Nothing]]
    /\ early = {} /\ lost = {}

Goto(w, t, place) == pc' = [pc EXCEPT ![<<w, t>>] = place]

head(w, t) == loop[<<w, t>>].batch_head_id

-----------------------------------------------------------------------------
\* Mutant: the reset is left to initialize_workspace.
Start_NoReset(w, t) ==
    /\ pc[<<w, t>>] = "start"
    /\ Goto(w, t, "mainloop")
    /\ UNCHANGED <<problem, loop, counter, partial, onTheWay, read, acc, O, history>>

\* Thread 0 of a leader resets its head's counter, with a plain store.
Start(w, t) ==
    /\ pc[<<w, t>>] = "start"
    /\ counter' = IF t = 0 /\ is_leader_wg(problem, w)
                  THEN [counter EXCEPT ![w] = 0] ELSE counter
    /\ Goto(w, t, "mainloop")
    /\ UNCHANGED <<problem, loop, partial, onTheWay, read, acc, O, history>>

\* What is left of the budget of thread t, the current partition included: equal
\* for threads in the same iteration.
BehindOf(w, t) == loop[<<w, t>>].block_budget_remained

\* The split barrier in every block of the mainloop: a thread leaves the last
\* one only when all threads of the work-group have come to this iteration.
Mainloop(w, t) ==
    /\ pc[<<w, t>>] = "mainloop"
    /\ \A u \in Threads : pc[<<w, u>>] # "start" /\ BehindOf(w, u) <= BehindOf(w, t)
    /\ acc' = [acc EXCEPT ![<<w, t>>] = Blocks(loop[<<w, t>>])]
    /\ Goto(w, t, "store")
    /\ UNCHANGED <<problem, loop, counter, partial, onTheWay, read, O, history>>

\* Where a thread goes after a partition, and with which loop state.
Advance(w, t) ==
    LET s == NextPartition(problem, loop[<<w, t>>])
    IN  IF LoopContinues(problem, s)
        THEN /\ loop' = [loop EXCEPT ![<<w, t>>] = s]
             /\ Goto(w, t, "mainloop")
        ELSE /\ loop' = [loop EXCEPT ![<<w, t>>].block_budget_remained = 0]
             /\ Goto(w, t, IF is_leader_wg(problem, w) THEN "await" ELSE "done")

Store(w, t) ==
    /\ pc[<<w, t>>] = "store"
    /\ onTheWay' = onTheWay \cup
         {[ by |-> <<w, t>>, head |-> head(w, t),
            id |-> get_partition_id(problem, w, head(w, t)), part |-> acc[<<w, t>>] ]}
    /\ IF t = 0 THEN Goto(w, t, "count") /\ UNCHANGED loop
                ELSE Advance(w, t)
    /\ UNCHANGED <<problem, counter, partial, read, acc, O, history>>

\* Memory with the stored parts of stores in it.
Landed(stores) ==
    [h \in Heads |-> [i \in 0 .. max_num_partitions - 1 |-> [t \in Threads |->
        IF \E x \in stores : x.head = h /\ x.id = i /\ x.by[2] = t
        THEN (CHOOSE x \in stores : x.head = h /\ x.id = i /\ x.by[2] = t).part
        ELSE partial[h][i][t]]]]

\* A store lands by itself.
Land(x) ==
    /\ onTheWay' = onTheWay \ {x}
    /\ partial' = Landed({x})
    /\ UNCHANGED <<problem, pc, loop, counter, read, acc, O, history>>

StoresOf(w, t) == {x \in onTheWay : x.by = <<w, t>>}

\* The work-group's parts of a head that are not in memory yet.
MissingParts(w, h) ==
    {t \in Threads : partial'[h][get_partition_id(problem, w, h)][t] = Garbage}

\* Thread 0 counts the partition for the whole work-group.
Count(w) ==
    /\ pc[<<w, 0>>] = "count"
    /\ counter' = [counter EXCEPT ![head(w, 0)] = @ + 1]
    /\ LET ordered == IF CountOrders THEN StoresOf(w, 0) ELSE {}
       IN  /\ partial' = Landed(ordered)
           /\ onTheWay' = onTheWay \ ordered
    /\ early' = early \cup {<<head(w, 0), t>> : t \in MissingParts(w, head(w, 0))}
    /\ lost' = lost \cup {h \in {head(w, 0)} : pc[<<h, 0>>] = "start"}
    /\ Advance(w, 0)
    /\ UNCHANGED <<problem, read, acc, O>>

\* Mutant: the leader waits for the first partition only.
Await_First(w, t) ==
    /\ pc[<<w, t>>] = "await"
    /\ counter[w] > 0
    /\ acc' = [acc EXCEPT ![<<w, t>>] = Nothing]
    /\ Goto(w, t, "reduce")
    /\ UNCHANGED <<problem, loop, counter, partial, onTheWay, read, O, history>>

\* Every thread of a leader spins on the counter by itself.
Await(w, t) ==
    /\ pc[<<w, t>>] = "await"
    /\ counter[w] = get_num_partitions(problem, w)
    /\ acc' = [acc EXCEPT ![<<w, t>>] = Nothing]
    /\ Goto(w, t, "reduce")
    /\ UNCHANGED <<problem, loop, counter, partial, onTheWay, read, O, history>>

\* reduce_split2 with the next partition, in the order of the ids; a thread sees
\* its own stores at once.
Reduce(w, t) ==
    /\ pc[<<w, t>>] = "reduce"
    /\ read[<<w, t>>] < get_num_partitions(problem, w)
    /\ acc' = [acc EXCEPT ![<<w, t>>] = Sum(@, Landed(StoresOf(w, t))[w][read[<<w, t>>]][t])]
    /\ read' = [read EXCEPT ![<<w, t>>] = @ + 1]
    /\ UNCHANGED <<problem, pc, loop, counter, partial, onTheWay, O, history>>

Epilogue(w, t) ==
    /\ pc[<<w, t>>] = "reduce"
    /\ read[<<w, t>>] = get_num_partitions(problem, w)
    /\ O' = [O EXCEPT ![w][t] = acc[<<w, t>>]]
    /\ Goto(w, t, "done")
    /\ UNCHANGED <<problem, loop, counter, partial, onTheWay, read, acc, history>>

ThreadStep(w, t) ==
    \/ Start(w, t) \/ Mainloop(w, t) \/ Store(w, t) \/ (t = 0 /\ Count(w))
    \/ Await(w, t) \/ Reduce(w, t) \/ Epilogue(w, t)

\* All threads have ended, or spin on a counter that lost a count.
Terminated ==
    /\ \A x \in Everyone : pc[x] = "done" \/ (pc[x] = "await" /\ x[1] \in lost)
    /\ UNCHANGED vars

Next ==
    \/ \E w \in Groups, t \in Threads : ThreadStep(w, t)
    \/ \E x \in onTheWay : Land(x)
    \/ Terminated

\* The grid is one work-group per Xe core: all of them are resident and their
\* threads make progress.
AllThreads == UNION {(0 .. pr.grid - 1) \X (0 .. pr.threads - 1) : pr \in Problems}
Spec       == Init /\ [][Next]_vars
FairSpec   == Spec /\ \A x \in AllThreads :
                        WF_vars(x \in Everyone /\ ThreadStep(x[1], x[2]))

-----------------------------------------------------------------------------
\* Every variable stays in its range; from its reset on no counter passes the
\* number of partitions its leader waits for.
TypeOK ==
    /\ problem \in Problems
    /\ pc \in [Everyone -> {"start", "mainloop", "store", "count", "await",
                            "reduce", "done"}]
    /\ \A x \in Everyone : loop[x].block_budget_remained \in 0 .. num_blocks_per_wg(problem)
    /\ \A h \in Heads :
          counter[h] \in 0 .. get_num_partitions(problem, h) * (IF pc[<<h, 0>>] = "start" THEN 2 ELSE 1)
    /\ acc \in [Everyone -> [Terms -> Nat]]
    /\ O \in [Heads -> [Threads -> [Terms -> Nat]]]
    /\ early \subseteq Heads \X Threads /\ lost \subseteq Heads

\* A thread of a leader writes its part of a head only as the combination of
\* each of the head's KV blocks exactly once; nothing spoils it but a count that
\* came before the very part it stands for.
CombinesEachBlockOnce ==
    \A h \in Heads, t \in Threads :
        O[h][t] \in {Nothing, AllBlocks} \/ <<h, t>> \in early

\* Every head is written in the end: no leader spins for ever, unless its own
\* reset took a count away.
EveryHeadWritten == <>(\A h \in Heads, t \in Threads : h \in lost \/ O[h][t] # Nothing)

\* "check atomic to wait for partial results ready": a head's output is written
\* only as the combination of each of its KV blocks exactly once.
CombinesAllPartials ==
    \A h \in Heads, t \in Threads : O[h][t] \in {Nothing, AllBlocks}
=============================================================================
