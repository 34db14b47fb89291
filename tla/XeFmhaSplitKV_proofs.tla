---------------------- MODULE XeFmhaSplitKV_proofs ----------------------
(***************************************************************************)
(* Proofs about the dynamic split of a decode launch, for every problem.   *)
(*                                                                         *)
(* The coverage: the partitions cover every KV block of every batch head   *)
(* exactly once, and are numbered the way their readers count them.  The   *)
(* argument counts the blocks of all heads in one sequence: the work-      *)
(* groups walk it from left to right, each its own num_blocks_per_wg, and  *)
(* what has been walked is what the partitions cover.                      *)
(*                                                                         *)
(* The reduction: the types hold, and what a thread of a leader writes is  *)
(* the combination of all blocks of the head, unless a part of the thread  *)
(* was counted too early; all this for every number of threads, in any     *)
(* order of resets, stores and counts.  The argument ties each counter to  *)
(* the work-groups that have counted their partition of the head           *)
(* (ControlInv), and each of these to its part in memory (DataInv).        *)
(***************************************************************************)
EXTENDS XeFmhaSplitKVCoverage, XeFmhaSplitKVReduction, NaturalsLemmas,
        FiniteSetTheorems, FunctionTheorems, TLAPS

\* The place of a block among the blocks of all heads, and how far the work-
\* groups have come.
Linear(pr, hd, k) == hd * pr.local + k
Share(pr) == num_blocks_per_wg(pr)
Walking         == iter.block_budget_remained > 0
Walked          == IF Walking THEN Linear(subject, iter.batch_head_id, iter.num_computed_blocks)
                              ELSE (wg + 1) * Share(subject)

\* What is left of the budget ends where the work-group's share ends; the loop
\* runs past the heads only in a work-group that starts past them.
LoopInv ==
    /\ DOMAIN iter = {"batch_head_id", "num_computed_blocks", "block_budget_remained"}
    /\ iter.batch_head_id \in Nat
    /\ iter.num_computed_blocks \in 0 .. subject.local - 1
    /\ iter.block_budget_remained \in 0 .. Share(subject)
    /\ Walking => /\ Walked + iter.block_budget_remained = (wg + 1) * Share(subject)
                  /\ wg * Share(subject) < subject.heads * subject.local =>
                         iter.batch_head_id < subject.heads

\* A partition lies in its head and in the share of its work-group, and behind
\* none of the blocks still to come.
InPlace(x) ==
    /\ x.wg \in 0 .. wg /\ x.head \in Nat
    /\ x.from \in Nat /\ x.to \in Nat /\ x.from < x.to /\ x.to <= subject.local
    /\ x.id = get_partition_id(subject, x.wg, x.head)
    /\ x.wg * Share(subject) <= Linear(subject, x.head, x.from)
    /\ Linear(subject, x.head, x.to) <= (x.wg + 1) * Share(subject)
    /\ Linear(subject, x.head, x.to) <= Walked
    /\ x.wg * Share(subject) < subject.heads * subject.local => x.head < subject.heads
    /\ Walking /\ x.wg = wg => x.head < iter.batch_head_id

\* No two partitions share a block, nor a work-group and a head.
Apart(x, y) ==
    /\ x.head = y.head /\ x.from < y.to /\ y.from < x.to => x = y
    /\ x.head = y.head /\ x.wg = y.wg => x = y

\* Every block walked is in a partition.
Covered ==
    \A hd \in SubjectHeads, k \in 0 .. subject.local - 1 :
        Linear(subject, hd, k) < Walked =>
            \E x \in partitions : x.head = hd /\ k \in x.from .. x.to - 1

\* The inductive invariant.
WalkInv ==
    /\ subject \in Problems
    /\ wg \in 0 .. subject.grid - 1
    /\ LoopInv
    /\ \A x \in partitions : InPlace(x)
    /\ \A x, y \in partitions : Apart(x, y)
    /\ Covered

-----------------------------------------------------------------------------
\* The last work-group with a share before a, counted from 1.
LEMMA RoundedUp ==
    ASSUME NEW a \in Nat \ {0}, NEW n \in Nat \ {0}, NEW c,
           c = (a \div n) + (IF a % n = 0 THEN 0 ELSE 1)
    PROVE  c \in Nat \ {0} /\ (c - 1) * n < a /\ a <= c * n
  <1> DEFINE q == a \div n
  <1>1. q \in Nat /\ a % n \in 0 .. n - 1 /\ a = q * n + (a % n)
    BY Quotient
  <1> HIDE DEF q
  <1>2. CASE a % n = 0
    <2>1. c = q
      BY <1>1, <1>2 DEF q
    <2>2. q # 0
      BY <1>1, <1>2
    <2>3. (q - 1) * n + n = q * n
      BY <1>1, <2>2, TimesTypes
    <2>4. (q - 1) * n \in Int /\ q * n \in Int
      BY <1>1
    <2> QED BY <1>1, <1>2, <2>1, <2>2, <2>3, <2>4
  <1>3. CASE a % n # 0
    <2>1. c = q + 1
      BY <1>3 DEF q
    <2>2. (q + 1) * n = q * n + n /\ q * n \in Nat
      BY <1>1, TimesTypes
    <2>3. c - 1 = q
      BY <1>1, <2>1
    <2> QED BY <1>1, <1>3, <2>1, <2>2, <2>3
  <1> QED BY <1>2, <1>3

-----------------------------------------------------------------------------
\* Every share has a block, and the shares of the grid hold all blocks.
LEMMA Shares ==
    ASSUME NEW pr \in Problems
    PROVE  /\ pr.heads \in Nat \ {0} /\ pr.local \in Nat \ {0}
           /\ pr.grid \in Nat \ {0} /\ Share(pr) \in Nat \ {0}
           /\ pr.heads * pr.local <= pr.grid * Share(pr)
  <1> DEFINE h == pr.heads
             n == pr.local
             g == pr.grid
             a == n * h + g - 1
  <1>1. h \in Nat \ {0} /\ n \in Nat \ {0} /\ g \in Nat \ {0}
    BY ProblemsAssumption
  <1>2. Share(pr) = a \div g
    BY DEF Share, num_blocks_per_wg, ceil_div
  <1> HIDE DEF h, n, g
  <1>3. n * h \in Nat /\ n * h >= 1
    <2>1. 1 * h <= n * h
      BY <1>1, TimesMonotone
    <2> QED BY <1>1, <2>1, TimesTypes
  <1>4. a \in Nat
    BY <1>1, <1>3
  <1> HIDE DEF a
  <1>5. a \div g \in Nat /\ a % g \in 0 .. g - 1 /\ a = (a \div g) * g + (a % g)
    BY <1>1, <1>4, Quotient
  <1>6. (a \div g) * g >= n * h
    <2>1. (a \div g) * g \in Nat
      BY <1>1, <1>5, TimesTypes
    <2> QED BY <1>1, <1>3, <1>5, <1>4, <2>1 DEF a
  <1>7. a \div g # 0
    BY <1>1, <1>3, <1>6
  <1>8. (a \div g) * g = g * (a \div g) /\ n * h = h * n
    BY <1>1, <1>5, TimesTypes
  <1> QED BY <1>1, <1>2, <1>5, <1>6, <1>7, <1>8 DEF h, n, g

LEMMA LinearTypes ==
    ASSUME NEW pr, pr.local \in Nat \ {0}, NEW hd \in Nat, NEW k \in Nat
    PROVE  /\ Linear(pr, hd, k) \in Nat
           /\ Linear(pr, hd + 1, 0) = Linear(pr, hd, pr.local)
           /\ \A j \in Nat : Linear(pr, hd, k + j) = Linear(pr, hd, k) + j
           /\ \A j \in Nat : j < k <=> Linear(pr, hd, j) < Linear(pr, hd, k)
  BY TimesTypes DEF Linear

\* The blocks of a head come before those of the next.
LEMMA HeadsInOrder ==
    ASSUME NEW pr, pr.local \in Nat \ {0}, NEW g \in Nat, NEW h \in Nat,
           NEW j \in Nat, NEW k \in Nat, j < pr.local,
           Linear(pr, g, j) >= Linear(pr, h, k)
    PROVE  g >= h
  <1> DEFINE n == pr.local
  <1>1. n \in Nat
    OBVIOUS
  <1> HIDE DEF n
  <1>2. SUFFICES ASSUME g + 1 <= h
                 PROVE  FALSE
    OBVIOUS
  <1>3. (g + 1) * n <= h * n
    BY <1>1, <1>2, TimesMonotone
  <1>4. (g + 1) * n = g * n + n /\ g * n \in Nat /\ h * n \in Nat
    BY <1>1, TimesTypes
  <1>5. g * n + j >= h * n + k
    BY DEF Linear, n
  <1> QED BY <1>1, <1>3, <1>4, <1>5 DEF n

\* Where a work-group starts.
LEMMA Starts ==
    ASSUME NEW pr \in Problems, NEW w \in Nat
    PROVE  LET s == StartOfLoop(pr, w)
           IN  /\ DOMAIN s = {"batch_head_id", "num_computed_blocks", "block_budget_remained"}
               /\ s.batch_head_id \in Nat
               /\ s.num_computed_blocks \in 0 .. pr.local - 1
               /\ s.block_budget_remained = Share(pr)
               /\ Linear(pr, s.batch_head_id, s.num_computed_blocks) = w * Share(pr)
               /\ w * Share(pr) < pr.heads * pr.local => s.batch_head_id < pr.heads
  <1> DEFINE n == pr.local
             a == w * Share(pr)
             q == a \div n
             s == StartOfLoop(pr, w)
  <1>1. /\ DOMAIN s = {"batch_head_id", "num_computed_blocks", "block_budget_remained"}
        /\ s.batch_head_id = q /\ s.num_computed_blocks = a - q * n
        /\ s.block_budget_remained = Share(pr)
    BY DEF StartOfLoop, start_batch_head_id, Share
  <1> HIDE DEF s
  <1>2. n \in Nat \ {0} /\ Share(pr) \in Nat /\ pr.heads \in Nat
    BY Shares
  <1>3. a \in Nat
    BY <1>2, TimesTypes
  <1> HIDE DEF a
  <1>4. q \in Nat /\ a % n \in 0 .. n - 1 /\ a = q * n + (a % n)
    BY <1>2, <1>3, Quotient
  <1> HIDE DEF q
  <1>5. q * n \in Nat
    BY <1>2, <1>4, TimesTypes
  <1>6. s.num_computed_blocks = a % n
    BY <1>1, <1>4, <1>5
  <1>7. Linear(pr, q, a % n) = a
    BY <1>4 DEF Linear
  <1>8. a < pr.heads * n => q < pr.heads
    <2>1. SUFFICES ASSUME a < pr.heads * n
                   PROVE  q < pr.heads
      OBVIOUS
    <2>2. pr.heads * n \in Nat
      BY <1>2, TimesTypes
    <2>3. q * n < pr.heads * n
      BY <1>2, <1>3, <1>4, <1>5, <2>1, <2>2
    <2> QED BY <1>2, <1>4, <2>3, TimesCancels
  <1> HIDE DEF n
  <1>9. Linear(pr, s.batch_head_id, s.num_computed_blocks) = a
    BY <1>1, <1>6, <1>7
  <1> QED BY <1>1, <1>4, <1>6, <1>8, <1>9 DEF s, a, n

LEMMA InitWalkInv == WalkInit => WalkInv
  <1> SUFFICES ASSUME WalkInit
               PROVE  WalkInv
    OBVIOUS
  <1>1. subject \in Problems /\ wg = 0 /\ iter = StartOfLoop(subject, 0) /\ partitions = {}
    BY DEF WalkInit
  <1>2. /\ subject.heads \in Nat \ {0} /\ subject.local \in Nat \ {0}
        /\ subject.grid \in Nat \ {0} /\ Share(subject) \in Nat \ {0}
    BY <1>1, Shares
  <1>3. /\ DOMAIN iter = {"batch_head_id", "num_computed_blocks", "block_budget_remained"}
        /\ iter.batch_head_id \in Nat
        /\ iter.num_computed_blocks \in 0 .. subject.local - 1
        /\ iter.block_budget_remained = Share(subject)
        /\ Linear(subject, iter.batch_head_id, iter.num_computed_blocks) = 0 * Share(subject)
        /\ 0 * Share(subject) < subject.heads * subject.local => iter.batch_head_id < subject.heads
    BY <1>1, Starts
  <1>4. Walking /\ Walked = 0
    BY <1>2, <1>3 DEF Walking, Walked
  <1>5. LoopInv
    BY <1>1, <1>2, <1>3, <1>4 DEF LoopInv
  <1>6. Covered
    <2>1. ASSUME NEW hd \in SubjectHeads, NEW k \in 0 .. subject.local - 1
          PROVE  ~(Linear(subject, hd, k) < Walked)
      <3>1. hd \in Nat /\ k \in Nat
        BY <1>2 DEF SubjectHeads
      <3>2. Linear(subject, hd, k) \in Nat
        BY <1>2, <3>1, LinearTypes
      <3> QED BY <1>4, <3>2
    <2> QED BY <2>1 DEF Covered
  <1> QED BY <1>1, <1>2, <1>5, <1>6 DEF WalkInv

-----------------------------------------------------------------------------
\* What one iteration of the loop does: it takes the blocks up to to, and goes
\* on only at the next head.
LEMMA Iteration ==
    ASSUME WalkInv, Compute
    PROVE  LET h  == iter.batch_head_id
               c  == iter.num_computed_blocks
               to == end_blk(subject, iter)
           IN  /\ to \in Nat /\ c < to /\ to <= subject.local
               /\ Linear(subject, h, to) <= (wg + 1) * Share(subject)
               /\ DOMAIN iter' = DOMAIN iter
               /\ iter'.batch_head_id \in Nat
               /\ iter'.num_computed_blocks \in 0 .. subject.local - 1
               /\ iter'.block_budget_remained \in 0 .. Share(subject)
               /\ Walking' => /\ iter'.batch_head_id = h + 1 /\ h + 1 < subject.heads
                              /\ iter'.num_computed_blocks = 0
                              /\ to = subject.local
                              /\ Linear(subject, h, to) + iter'.block_budget_remained = (wg + 1) * Share(subject)
               /\ ~Walking' => \/ Linear(subject, h, to) = (wg + 1) * Share(subject)
                               \/ to = subject.local /\ h + 1 >= subject.heads
  <1> DEFINE h  == iter.batch_head_id
             c  == iter.num_computed_blocks
             left == iter.block_budget_remained
             n  == subject.local
             to == end_blk(subject, iter)
             s  == NextPartition(subject, iter)
  <1>1. /\ subject.heads \in Nat \ {0} /\ n \in Nat \ {0}
        /\ subject.grid \in Nat \ {0} /\ Share(subject) \in Nat \ {0}
    BY Shares DEF WalkInv
  <1>2. /\ DOMAIN iter = {"batch_head_id", "num_computed_blocks", "block_budget_remained"}
        /\ h \in Nat /\ c \in 0 .. n - 1 /\ left \in 0 .. Share(subject) /\ left > 0
        /\ Linear(subject, h, c) + left = (wg + 1) * Share(subject)
    BY DEF WalkInv, LoopInv, Compute, Walking, Walked
  <1>3. wg \in Nat /\ (wg + 1) * Share(subject) \in Nat
    <2>1. wg \in Nat
      BY <1>1 DEF WalkInv
    <2> QED BY <1>1, <2>1, TimesTypes
  <1>4. iter' = IF LoopContinues(subject, s) THEN s ELSE [s EXCEPT !.block_budget_remained = 0]
    BY Zenon DEF Compute
  <1>5. /\ FinishesHead(subject, iter) <=> n - c <= left
        /\ to = IF FinishesHead(subject, iter) THEN c + (n - c) ELSE c + left
    BY DEF FinishesHead, num_new_blocks, end_blk
  <1>6. CASE FinishesHead(subject, iter)
    <2>1. to = n /\ n - c <= left
      BY <1>1, <1>2, <1>5, <1>6
    <2>2. s = [batch_head_id |-> h + 1, num_computed_blocks |-> 0,
               block_budget_remained |-> left - (n - c)]
      BY <1>6 DEF NextPartition, num_new_blocks
    <2>3. LoopContinues(subject, s) <=> left - (n - c) > 0 /\ h + 1 < subject.heads
      BY <2>2 DEF LoopContinues
    <2>4. Linear(subject, h, n) + (left - (n - c)) = (wg + 1) * Share(subject)
      <3>1. PICK j \in Nat : j = n - c
        BY <1>1, <1>2
      <3>2. Linear(subject, h, c + j) = Linear(subject, h, c) + j /\ Linear(subject, h, c) \in Nat
        <4>1. h \in Nat /\ c \in Nat /\ n \in Nat \ {0}
          BY <1>1, <1>2
        <4> HIDE DEF h, c
        <4>2. \A i \in Nat : Linear(subject, h, c + i) = Linear(subject, h, c) + i
          BY <4>1, LinearTypes
        <4>3. Linear(subject, h, c) \in Nat
          BY <4>1, LinearTypes
        <4> QED BY <4>2, <4>3
      <3>3. c + j = n
        BY <1>1, <1>2, <3>1
      <3>4. Linear(subject, h, n) = Linear(subject, h, c) + j
        BY <3>2, <3>3
      <3> QED BY <1>2, <1>3, <3>1, <3>2, <3>4
    <2>5. Linear(subject, h, n) \in Nat
      BY <1>1, <1>2, LinearTypes
    <2>6. \E left_ \in Nat :
            /\ DOMAIN iter' = DOMAIN iter /\ iter'.batch_head_id = h + 1
            /\ iter'.num_computed_blocks = 0 /\ iter'.block_budget_remained = left_
            /\ left_ = 0 \/ (left_ = left - (n - c) /\ h + 1 < subject.heads)
            /\ left_ = 0 => left - (n - c) = 0 \/ h + 1 >= subject.heads
      <3>1. left - (n - c) \in Nat
        BY <1>1, <1>2, <2>1
      <3>2. CASE LoopContinues(subject, s)
        BY <1>2, <1>4, <2>2, <2>3, <3>1, <3>2
      <3>3. CASE ~LoopContinues(subject, s)
        <4>1. /\ DOMAIN s = DOMAIN iter
              /\ s.batch_head_id = h + 1 /\ s.num_computed_blocks = 0
          BY <1>2, <2>2
        <4>2. iter' = [s EXCEPT !.block_budget_remained = 0]
          BY <1>4, <3>3, Zenon
        <4> HIDE DEF s
        <4>3. /\ DOMAIN iter' = DOMAIN iter /\ iter'.batch_head_id = h + 1
              /\ iter'.num_computed_blocks = 0 /\ iter'.block_budget_remained = 0
          BY <1>2, <4>1, <4>2, Zenon
        <4>4. left - (n - c) = 0 \/ h + 1 >= subject.heads
          BY <1>1, <1>2, <2>3, <3>1, <3>3
        <4> QED BY <4>3, <4>4
      <3> QED BY <3>2, <3>3
    <2>7. PICK left_ \in Nat :
            /\ DOMAIN iter' = DOMAIN iter /\ iter'.batch_head_id = h + 1
            /\ iter'.num_computed_blocks = 0 /\ iter'.block_budget_remained = left_
            /\ left_ = 0 \/ (left_ = left - (n - c) /\ h + 1 < subject.heads)
            /\ left_ = 0 => left - (n - c) = 0 \/ h + 1 >= subject.heads
      BY <2>6
    <2>8. Walking' <=> left_ > 0
      BY <2>7 DEF Walking
    <2> QED BY <1>1, <1>2, <1>3, <2>1, <2>4, <2>5, <2>7, <2>8
  <1>7. CASE ~FinishesHead(subject, iter)
    <2>1. to = c + left /\ left < n - c
      BY <1>1, <1>2, <1>5, <1>7
    <2>2. s = [iter EXCEPT !.block_budget_remained = 0]
      BY <1>7, Zenon DEF NextPartition
    <2>3. s.block_budget_remained = 0
      BY <1>2, <2>2
    <2>4. iter' = [s EXCEPT !.block_budget_remained = 0]
      <3>1. ~LoopContinues(subject, s)
        BY <2>3 DEF LoopContinues
      <3> QED BY <1>4, <3>1
    <2>5. /\ DOMAIN iter' = DOMAIN iter /\ iter'.batch_head_id = h
          /\ iter'.num_computed_blocks = c /\ iter'.block_budget_remained = 0
      BY <1>2, <2>2, <2>4, Zenon
    <2>6. Linear(subject, h, to) = (wg + 1) * Share(subject)
      BY <1>1, <1>2, <2>1, LinearTypes
    <2>7. ~Walking'
      BY <2>5 DEF Walking
    <2> QED BY <1>1, <1>2, <1>3, <2>1, <2>5, <2>6, <2>7
  <1> QED BY <1>6, <1>7

LEMMA ComputeKeeps == WalkInv /\ Compute => WalkInv'
  <1> SUFFICES ASSUME WalkInv, Compute
               PROVE  WalkInv'
    OBVIOUS
  <1> DEFINE h  == iter.batch_head_id
             c  == iter.num_computed_blocks
             left == iter.block_budget_remained
             n  == subject.local
             to == end_blk(subject, iter)
  <1>1. /\ subject.heads \in Nat \ {0} /\ n \in Nat \ {0}
        /\ subject.grid \in Nat \ {0} /\ Share(subject) \in Nat \ {0}
    BY Shares DEF WalkInv
  <1>2. /\ DOMAIN iter = {"batch_head_id", "num_computed_blocks", "block_budget_remained"}
        /\ h \in Nat /\ c \in 0 .. n - 1 /\ left \in 0 .. Share(subject)
        /\ Walking /\ Walked = Linear(subject, h, c) /\ Walked + left = (wg + 1) * Share(subject)
        /\ wg * Share(subject) < subject.heads * n => h < subject.heads
    BY DEF WalkInv, LoopInv, Compute, Walking, Walked
  <1>3. wg \in Nat /\ wg * Share(subject) \in Nat /\ (wg + 1) * Share(subject) = wg * Share(subject) + Share(subject)
    <2>1. wg \in Nat
      BY <1>1 DEF WalkInv
    <2> QED BY <1>1, <2>1, TimesTypes
  <1>4. subject' = subject /\ wg' = wg /\ Share(subject)' = Share(subject) /\ SubjectHeads' = SubjectHeads
    BY DEF Compute, Share, SubjectHeads
  <1>5. \A hd, k : Linear(subject, hd, k)' = Linear(subject, hd, k)
    BY <1>4 DEF Linear
  <1>6. /\ to \in Nat /\ c < to /\ to <= n
        /\ Linear(subject, h, to) <= (wg + 1) * Share(subject)
        /\ DOMAIN iter' = DOMAIN iter
        /\ iter'.batch_head_id \in Nat
        /\ iter'.num_computed_blocks \in 0 .. n - 1
        /\ iter'.block_budget_remained \in 0 .. Share(subject)
        /\ Walking' => /\ iter'.batch_head_id = h + 1 /\ h + 1 < subject.heads
                       /\ iter'.num_computed_blocks = 0
                       /\ to = n
                       /\ Linear(subject, h, to) + iter'.block_budget_remained = (wg + 1) * Share(subject)
        /\ ~Walking' => \/ Linear(subject, h, to) = (wg + 1) * Share(subject)
                        \/ to = n /\ h + 1 >= subject.heads
    BY Iteration
  <1>7. PICK p : /\ partitions' = partitions \cup {p}
                 /\ p = [ wg |-> wg, head |-> h, id |-> get_partition_id(subject, wg, h),
                          from |-> c, to |-> to ]
    BY DEF Compute, start_blk
  <1> HIDE DEF to
  <1>8. /\ p.wg = wg /\ p.head = h /\ p.id = get_partition_id(subject, wg, h)
        /\ p.from = c /\ p.to = to
    BY <1>7
  <1> HIDE DEF h, c, left
  <1>9. /\ Linear(subject, h, c) \in Nat /\ Linear(subject, h, to) \in Nat /\ Linear(subject, h, c) < Linear(subject, h, to)
        /\ Linear(subject, h + 1, 0) = Linear(subject, h, n)
        /\ \A j \in Nat : j < c <=> Linear(subject, h, j) < Linear(subject, h, c)
        /\ \A j \in Nat : j < to <=> Linear(subject, h, j) < Linear(subject, h, to)
    <2>1. h \in Nat /\ c \in Nat
      BY <1>1, <1>2
    <2> QED BY <1>1, <1>6, <2>1, LinearTypes
  <1>10. /\ Walking' => Walked' = Linear(subject, h, to)
         /\ ~Walking' => Walked' = (wg + 1) * Share(subject)
    BY <1>4, <1>5, <1>6, <1>9 DEF Walked
  <1>11. Walked < Linear(subject, h, to) /\ Linear(subject, h, to) <= Walked' /\ Walked \in Nat /\ Walked' \in Nat
    BY <1>1, <1>2, <1>3, <1>6, <1>9, <1>10
  <1>12. LoopInv'
    BY <1>2, <1>4, <1>6, <1>10 DEF LoopInv
  <1>13. ASSUME NEW x \in partitions
         PROVE  InPlace(x)'
    <2>1. InPlace(x)
      BY DEF WalkInv
    <2>2. Linear(subject, x.head, x.to) \in Nat
      BY <1>1, <2>1, LinearTypes DEF InPlace
    <2>3. Linear(subject, x.head, x.to) <= Walked'
      <3>1. Linear(subject, x.head, x.to) <= Walked
        BY <2>1, Zenon DEF InPlace
      <3> QED BY <1>9, <1>11, <2>2, <3>1
    <2>4. Walking' /\ x.wg = wg => x.head < iter'.batch_head_id
      BY <1>2, <1>6, <2>1 DEF InPlace, h
    <2> QED BY <1>4, <1>5, <2>1, <2>3, <2>4 DEF InPlace
  <1>14. InPlace(p)'
    <2>1. p.wg \in 0 .. wg /\ p.head \in Nat /\ p.from \in Nat /\ p.to \in Nat
          /\ p.from < p.to /\ p.to <= n
      BY <1>1, <1>2, <1>3, <1>6, <1>8
    <2>2. wg * Share(subject) <= Linear(subject, h, c)
      BY <1>1, <1>2, <1>3, <1>9
    <2>3. Walking' => h < iter'.batch_head_id
      BY <1>2, <1>6
    <2> QED BY <1>2, <1>4, <1>5, <1>6, <1>8, <1>11, <2>1, <2>2, <2>3 DEF InPlace
  <1>15. ASSUME NEW x \in partitions
         PROVE  Apart(x, p) /\ Apart(p, x)
    <2>1. InPlace(x)
      BY DEF WalkInv
    <2>2. ASSUME x.head = h
          PROVE  x.to <= c
      <3>1. Linear(subject, h, x.to) <= Linear(subject, h, c) /\ x.to \in Nat
        BY <1>2, <2>1, <2>2, Zenon DEF InPlace
      <3>2. c \in Nat /\ h \in Nat
        BY <1>1, <1>2
      <3>3. Linear(subject, h, x.to) \in Nat /\ (c < x.to <=> Linear(subject, h, c) < Linear(subject, h, x.to))
        BY <1>1, <3>1, <3>2, LinearTypes
      <3> QED BY <1>9, <3>1, <3>2, <3>3
    <2>3. x.wg = wg => x.head < h
      BY <1>2, <2>1 DEF InPlace, h
    <2>4. x.to \in Nat /\ x.head \in Nat /\ x.wg \in Nat /\ h \in Nat /\ c \in Nat
      BY <1>1, <1>2, <1>3, <2>1 DEF InPlace
    <2>5. ~(p.head = x.head /\ p.from < x.to) /\ ~(p.head = x.head /\ p.wg = x.wg)
      BY <1>8, <2>2, <2>3, <2>4
    <2> QED BY <2>5 DEF Apart
  <1>16. Covered'
    <2> SUFFICES ASSUME NEW hd \in SubjectHeads, NEW k \in 0 .. n - 1, Linear(subject, hd, k) < Walked'
                 PROVE  \E x \in partitions' : x.head = hd /\ k \in x.from .. x.to - 1
      BY <1>4, <1>5 DEF Covered
    <2>1. hd \in Nat /\ hd < subject.heads /\ k \in Nat /\ Linear(subject, hd, k) \in Nat
          /\ h \in Nat /\ c \in Nat
      <3>1. hd \in Nat /\ hd < subject.heads /\ k \in Nat
        BY <1>1 DEF SubjectHeads
      <3> QED BY <1>1, <1>2, <3>1, LinearTypes
    <2>2. CASE Linear(subject, hd, k) < Walked
      <3>1. PICK x \in partitions : x.head = hd /\ k \in x.from .. x.to - 1
        BY <2>2 DEF WalkInv, Covered
      <3> QED BY <1>7, <3>1
    <2>3. CASE Linear(subject, hd, k) >= Linear(subject, h, c)
      <3>1. hd >= h
        BY <1>1, <2>1, <2>3, HeadsInOrder
      <3>2. h >= hd
        <4>1. CASE Linear(subject, h, to) = Walked'
          <5>1. PICK j \in Nat : to = j + 1
            BY <1>2, <1>6, <2>1
          <5>2. Linear(subject, h, to) = Linear(subject, h, j) + 1 /\ Linear(subject, h, j) \in Nat
            <6>1. Linear(subject, h, j) \in Nat
              BY <1>1, <2>1, LinearTypes
            <6>2. \A i \in Nat : Linear(subject, h, j + i) = Linear(subject, h, j) + i
              BY <1>1, <2>1, LinearTypes
            <6> QED BY <5>1, <6>1, <6>2
          <5>3. Linear(subject, h, j) >= Linear(subject, hd, k)
            BY <2>1, <4>1, <5>2
          <5>4. j < n
            BY <1>1, <1>6, <5>1
          <5> QED BY <1>1, <2>1, <5>3, <5>4, HeadsInOrder
        <4>2. CASE h + 1 >= subject.heads
          BY <1>1, <2>1, <4>2
        <4> QED BY <1>6, <1>10, <4>1, <4>2
      <3>3. hd = h
        BY <2>1, <3>1, <3>2
      <3>4. c <= k
        BY <1>9, <2>1, <2>3, <3>3
      <3>5. k < to
        <4>1. CASE Linear(subject, h, to) = Walked'
          BY <1>9, <2>1, <3>3, <4>1
        <4>2. CASE to = n
          BY <1>1, <4>2
        <4> QED BY <1>6, <1>10, <4>1, <4>2
      <3> QED BY <1>6, <1>7, <1>8, <2>1, <3>3, <3>4, <3>5
    <2> QED BY <1>2, <1>9, <2>1, <2>2, <2>3
  <1>17. \A x, y \in partitions' : Apart(x, y)
    BY <1>7, <1>15 DEF WalkInv, Apart
  <1>18. \A x \in partitions' : InPlace(x)'
    BY <1>7, <1>13, <1>14
  <1> QED BY <1>4, <1>12, <1>16, <1>17, <1>18 DEF WalkInv, Apart

LEMMA NextWorkGroupKeeps == WalkInv /\ NextWorkGroup => WalkInv'
  <1> SUFFICES ASSUME WalkInv, NextWorkGroup
               PROVE  WalkInv'
    OBVIOUS
  <1> DEFINE s == StartOfLoop(subject, wg + 1)
             n == subject.local
  <1>1. /\ subject.heads \in Nat \ {0} /\ n \in Nat \ {0}
        /\ subject.grid \in Nat \ {0} /\ Share(subject) \in Nat \ {0}
    BY Shares DEF WalkInv
  <1>2. /\ wg \in Nat /\ wg + 1 < subject.grid /\ wg' = wg + 1 /\ iter' = s
        /\ subject' = subject /\ partitions' = partitions
        /\ iter.block_budget_remained = 0
    BY <1>1 DEF WalkInv, NextWorkGroup
  <1>3. Share(subject)' = Share(subject) /\ SubjectHeads' = SubjectHeads /\ \A hd, k : Linear(subject, hd, k)' = Linear(subject, hd, k)
    BY <1>2 DEF Share, SubjectHeads, Linear
  <1>4. /\ DOMAIN s = {"batch_head_id", "num_computed_blocks", "block_budget_remained"}
        /\ s.batch_head_id \in Nat
        /\ s.num_computed_blocks \in 0 .. n - 1
        /\ s.block_budget_remained = Share(subject)
        /\ Linear(subject, s.batch_head_id, s.num_computed_blocks) = (wg + 1) * Share(subject)
        /\ (wg + 1) * Share(subject) < subject.heads * n => s.batch_head_id < subject.heads
    <2>1. wg + 1 \in Nat /\ subject \in Problems
      BY <1>2 DEF WalkInv
    <2> QED BY <2>1, Starts
  <1> HIDE DEF s
  <1>5. Walked = (wg + 1) * Share(subject)
    BY <1>2 DEF Walked, Walking
  <1>6. Walking' /\ Walked' = (wg + 1) * Share(subject)
    BY <1>1, <1>2, <1>3, <1>4 DEF Walked, Walking
  <1>7. (wg + 1) * Share(subject) \in Nat /\ (wg + 1 + 1) * Share(subject) = (wg + 1) * Share(subject) + Share(subject)
    <2>1. wg + 1 \in Nat
      BY <1>2
    <2> QED BY <1>1, <2>1, TimesTypes
  <1>8. LoopInv'
    BY <1>1, <1>2, <1>3, <1>4, <1>6, <1>7 DEF LoopInv
  <1>9. ASSUME NEW x \in partitions
        PROVE  InPlace(x)'
    <2>1. InPlace(x)
      BY DEF WalkInv
    <2>2. x.wg \in 0 .. wg + 1 /\ x.wg # wg + 1
      BY <1>2, <2>1 DEF InPlace
    <2>3. Walked' = Walked
      BY <1>5, <1>6
    <2> QED BY <1>2, <1>3, <2>1, <2>2, <2>3 DEF InPlace
  <1>10. Covered'
    BY <1>2, <1>3, <1>5, <1>6 DEF WalkInv, Covered
  <1>11. wg' \in 0 .. subject.grid - 1
    BY <1>1, <1>2
  <1> QED BY <1>2, <1>8, <1>9, <1>10, <1>11 DEF WalkInv, Apart

LEMMA NextWalkInv == WalkInv /\ [WalkNext]_walk => WalkInv'
  <1>1. ASSUME WalkInv, UNCHANGED walk
        PROVE  WalkInv'
    BY <1>1 DEF WalkInv, walk, LoopInv, InPlace, Apart, Covered, SubjectHeads, Linear, Share, Walking, Walked
  <1> QED BY <1>1, ComputeKeeps, NextWorkGroupKeeps DEF WalkNext

LEMMA WalkInvariance == WalkSpec => []WalkInv
  BY InitWalkInv, NextWalkInv, PTL DEF WalkSpec

-----------------------------------------------------------------------------
\* Every variable stays in its range: partitions are non-empty block ranges
\* of a head (start_blk and end_blk).
THEOREM TypeCorrect == WalkSpec => []WalkTypeOK
  <1>1. WalkInv => WalkTypeOK
    <2> SUFFICES ASSUME WalkInv
                 PROVE  WalkTypeOK
      OBVIOUS
    <2>1. \A x \in partitions : 0 <= x.from /\ x.from < x.to /\ x.to <= subject.local
      BY DEF WalkInv, InPlace
    <2> QED BY <2>1 DEF WalkInv, LoopInv, Share, WalkTypeOK
  <1> QED BY <1>1, WalkInvariance, PTL

\* Once all work-groups are done, all blocks of all heads have been walked.
LEMMA AllWalked ==
    ASSUME WalkInv, WalkComplete, NEW hd \in SubjectHeads, NEW k \in 0 .. subject.local - 1
    PROVE  \E x \in partitions : x.head = hd /\ k \in x.from .. x.to - 1
  <1> DEFINE n == subject.local
  <1>1. /\ subject.heads \in Nat \ {0} /\ n \in Nat \ {0}
        /\ subject.grid \in Nat \ {0} /\ Share(subject) \in Nat \ {0}
        /\ subject.heads * n <= subject.grid * Share(subject)
    BY Shares DEF WalkInv
  <1>2. Walked = subject.grid * Share(subject)
    BY DEF WalkComplete, Walked, Walking
  <1>3. hd \in Nat /\ hd + 1 <= subject.heads /\ k \in Nat
    BY <1>1 DEF SubjectHeads
  <1>4. (hd + 1) * n <= subject.heads * n
    BY <1>1, <1>3, TimesMonotone
  <1>5. Linear(subject, hd, k) < (hd + 1) * n
    BY <1>1, <1>3, TimesTypes DEF Linear
  <1>6. /\ Linear(subject, hd, k) \in Nat /\ (hd + 1) * n \in Nat
        /\ subject.heads * n \in Nat /\ subject.grid * Share(subject) \in Nat
    <2>1. hd + 1 \in Nat
      BY <1>3
    <2> QED BY <1>1, <1>3, <2>1, TimesTypes, LinearTypes
  <1>7. Linear(subject, hd, k) < Walked
    BY <1>1, <1>2, <1>4, <1>5, <1>6
  <1> QED BY <1>7 DEF WalkInv, Covered

\* Together the work-groups process every KV block of every batch head exactly
\* once, whatever the heads, the blocks and the grid.
THEOREM BlocksOnce == WalkSpec => []EachBlockOnce
  <1>1. WalkInv => EachBlockOnce
    <2> SUFFICES ASSUME WalkInv, WalkComplete, NEW hd \in SubjectHeads, NEW k \in 0 .. subject.local - 1
                 PROVE  Cardinality({x \in OfHead(hd) : k \in x.from .. x.to - 1}) = 1
      BY DEF EachBlockOnce
    <2>1. PICK p \in partitions : p.head = hd /\ k \in p.from .. p.to - 1
      BY AllWalked
    <2>2. ASSUME NEW x \in partitions, x.head = hd, k \in x.from .. x.to - 1
          PROVE  x = p
      <3>1. InPlace(x) /\ InPlace(p) /\ Apart(x, p)
        BY DEF WalkInv
      <3>2. x.from < p.to /\ p.from < x.to
        BY <2>1, <2>2, <3>1 DEF InPlace
      <3> QED BY <2>1, <2>2, <3>1, <3>2 DEF Apart
    <2>3. {x \in OfHead(hd) : k \in x.from .. x.to - 1} = {p}
      BY <2>1, <2>2 DEF OfHead
    <2> QED BY <2>3, FS_Singleton
  <1> QED BY <1>1, WalkInvariance, PTL

\* A head that does not exist is processed only by work-groups whose whole
\* share lies behind the last block (the loop's test of batch_head_id).
THEOREM NoOtherHeads == WalkSpec => []HeadsExist
  <1>1. WalkInv => HeadsExist
    <2> SUFFICES ASSUME WalkInv, NEW x \in partitions,
                        x.wg * num_blocks_per_wg(subject) < subject.heads * subject.local
                 PROVE  x.head \in SubjectHeads
      BY DEF HeadsExist
    <2>1. x.head \in Nat /\ x.head < subject.heads /\ subject.heads \in Nat
      BY Shares DEF WalkInv, InPlace, Share
    <2> QED BY <2>1 DEF SubjectHeads
  <1> QED BY <1>1, WalkInvariance, PTL

-----------------------------------------------------------------------------
\* The first work-group with blocks of a head; an id is counted from there.
FirstOf(pr, hd) == (hd * pr.local) \div Share(pr)

LEMMA IdCounts ==
    ASSUME WalkInv, NEW x \in partitions
    PROVE  /\ FirstOf(subject, x.head) \in Nat /\ FirstOf(subject, x.head) <= x.wg
           /\ x.id = x.wg - FirstOf(subject, x.head)
           /\ FirstOf(subject, x.head) * Share(subject) <= x.head * subject.local
           /\ x.head * subject.local < (FirstOf(subject, x.head) + 1) * Share(subject)
  <1> DEFINE n == subject.local
             a == x.head * n
             q == FirstOf(subject, x.head)
  <1>1. n \in Nat \ {0} /\ Share(subject) \in Nat \ {0}
    BY Shares DEF WalkInv
  <1>2. /\ x.wg \in Nat /\ x.head \in Nat /\ x.from \in Nat /\ x.to \in Nat /\ x.from < x.to
        /\ x.id = get_partition_id(subject, x.wg, x.head)
        /\ Linear(subject, x.head, x.to) <= (x.wg + 1) * Share(subject)
    <2>1. InPlace(x)
      BY DEF WalkInv
    <2> QED BY <2>1 DEF InPlace
  <1>3. a \in Nat
    BY <1>1, <1>2, TimesTypes
  <1>4. q = a \div Share(subject) /\ Linear(subject, x.head, x.to) = a + x.to
    BY DEF FirstOf, Linear
  <1>5. x.head = 0 => a = 0
    BY <1>1
  <1>6. x.id = IF x.head = 0 THEN x.wg ELSE x.wg - (a \div Share(subject))
    BY <1>2 DEF get_partition_id, Share
  <1> HIDE DEF a, q
  <1>7. q \in Nat /\ a % Share(subject) \in 0 .. Share(subject) - 1 /\ a = q * Share(subject) + (a % Share(subject))
    BY <1>1, <1>3, <1>4, Quotient
  <1>8. /\ q * Share(subject) \in Nat /\ (q + 1) * Share(subject) = q * Share(subject) + Share(subject)
        /\ (x.wg + 1) * Share(subject) \in Nat
    <2>1. x.wg + 1 \in Nat
      BY <1>2
    <2> QED BY <1>1, <1>7, <2>1, TimesTypes
  <1>9. q * Share(subject) <= a /\ a < (q + 1) * Share(subject)
    BY <1>1, <1>3, <1>7, <1>8
  <1>10. q < x.wg + 1
    <2>1. q * Share(subject) < (x.wg + 1) * Share(subject)
      BY <1>2, <1>3, <1>4, <1>8, <1>9
    <2>2. q \in Int /\ x.wg + 1 \in Int /\ Share(subject) \in Nat
      BY <1>1, <1>2, <1>7
    <2> QED BY <2>1, <2>2, TimesCancels
  <1>11. x.id = x.wg - q
    <2>1. CASE x.head = 0
      <3>1. q = 0
        BY <1>1, <1>4, <1>5, <2>1
      <3> QED BY <1>2, <1>6, <2>1, <3>1
    <2>2. CASE x.head # 0
      BY <1>4, <1>6, <2>2
    <2> QED BY <2>1, <2>2
  <1> QED BY <1>2, <1>7, <1>9, <1>10, <1>11 DEF a, q

\* The slots reserved for a head hold its partitions, as long as a head is at
\* most one block longer than all but one of the slots can be given.
THEOREM SlotsAreEnough == WalkSpec => []SlotsSuffice
  <1>1. WalkInv => SlotsSuffice
    <2> DEFINE n == subject.local
               max == max_num_partitions
    <2> SUFFICES ASSUME WalkInv, n <= (max - 1) * Share(subject) + 1, NEW x \in partitions
                 PROVE  x.id \in 0 .. max - 1
      BY DEF SlotsSuffice, Share
    <2> DEFINE q == FirstOf(subject, x.head)
               a == x.head * n
    <2>1. n \in Nat \ {0} /\ Share(subject) \in Nat \ {0} /\ max \in Nat \ {0}
      BY Shares, PartitionsAssumption DEF WalkInv
    <2>2. /\ q \in Nat /\ q <= x.wg /\ x.id = x.wg - q
          /\ q * Share(subject) <= a /\ a < (q + 1) * Share(subject)
      BY IdCounts
    <2>3. /\ x.wg \in Nat /\ x.head \in Nat /\ x.from \in Nat /\ x.to \in Nat
          /\ x.from < x.to /\ x.to <= n
          /\ x.wg * Share(subject) <= Linear(subject, x.head, x.from)
      <3>1. InPlace(x)
        BY DEF WalkInv
      <3> QED BY <3>1 DEF InPlace
    <2>4. Linear(subject, x.head, x.from) = a + x.from /\ a \in Nat
      BY <2>1, <2>3, TimesTypes DEF Linear
    <2> HIDE DEF n, max, q, a
    <2>5. /\ (q + 1) * Share(subject) \in Nat /\ (max - 1) * Share(subject) \in Nat /\ x.wg * Share(subject) \in Nat
      <3>1. q + 1 \in Nat /\ max - 1 \in Nat
        BY <2>1, <2>2
      <3> QED BY <2>1, <2>3, <3>1, TimesTypes
    <2>6. (q + max) * Share(subject) = (q + 1) * Share(subject) + (max - 1) * Share(subject)
      <3>1. \A i, j, m \in Int : (i + j) * m = i * m + j * m
        OBVIOUS
      <3>2. q + max = (q + 1) + (max - 1)
        BY <2>1, <2>2
      <3>3. q + 1 \in Int /\ max - 1 \in Int /\ Share(subject) \in Int
        BY <2>1, <2>2
      <3>4. ((q + 1) + (max - 1)) * Share(subject) = (q + 1) * Share(subject) + (max - 1) * Share(subject)
        BY <3>1, <3>3
      <3> QED BY <3>2, <3>4
    <2>7. x.wg * Share(subject) < (q + max) * Share(subject)
      BY <2>1, <2>2, <2>3, <2>4, <2>5, <2>6 DEF n, max
    <2>8. x.wg < q + max
      <3>1. q + max \in Int /\ x.wg \in Int /\ Share(subject) \in Nat
        BY <2>1, <2>2, <2>3
      <3> QED BY <2>7, <3>1, TimesCancels
    <2> QED BY <2>1, <2>2, <2>3, <2>8 DEF max
  <1> QED BY <1>1, WalkInvariance, PTL

\* get_num_partitions counts the work-groups from the first with blocks of the
\* head to the last.
LEMMA PartitionCount ==
    ASSUME NEW pr \in Problems, NEW hd \in Nat
    PROVE  /\ FirstOf(pr, hd) \in Nat /\ hd * pr.local \in Nat
           /\ FirstOf(pr, hd) * Share(pr) <= hd * pr.local
           /\ hd * pr.local < (FirstOf(pr, hd) + 1) * Share(pr)
           /\ (hd + 1) * pr.local = hd * pr.local + pr.local
           /\ \E last \in Nat \ {0} :
                /\ get_num_partitions(pr, hd) = last - FirstOf(pr, hd)
                /\ (last - 1) * Share(pr) < (hd + 1) * pr.local
                /\ (hd + 1) * pr.local <= last * Share(pr)
  <1> DEFINE n == pr.local
             a == hd * n
             e == (hd + 1) * n
             q == FirstOf(pr, hd)
             r == IF e % Share(pr) = 0 THEN 0 ELSE 1
             c == (e \div Share(pr)) + r
  <1>1. n \in Nat \ {0} /\ Share(pr) \in Nat \ {0}
    BY Shares
  <1>2. a \in Nat /\ e \in Nat \ {0} /\ e = a + n
    BY <1>1, TimesTypes
  <1>3. q = a \div Share(pr)
    BY DEF FirstOf
  <1>4. get_num_partitions(pr, hd) = (e \div Share(pr)) - (a \div Share(pr)) + r
    BY DEF get_num_partitions, Share
  <1>5. r \in Nat
    OBVIOUS
  <1> HIDE DEF n, a, e, q
  <1>6. q \in Nat /\ a % Share(pr) \in 0 .. Share(pr) - 1 /\ a = q * Share(pr) + (a % Share(pr))
    BY <1>1, <1>2, <1>3, Quotient
  <1>7. q * Share(pr) \in Nat /\ (q + 1) * Share(pr) = q * Share(pr) + Share(pr)
    BY <1>1, <1>6, TimesTypes
  <1>8. e \div Share(pr) \in Nat
    BY <1>1, <1>2, Quotient
  <1>9. c \in Nat \ {0} /\ (c - 1) * Share(pr) < e /\ e <= c * Share(pr)
    BY <1>1, <1>2, RoundedUp
  <1> HIDE DEF r
  <1>10. get_num_partitions(pr, hd) = c - q
    BY <1>3, <1>4, <1>5, <1>6, <1>8
  <1> HIDE DEF c
  <1> QED BY <1>1, <1>2, <1>6, <1>7, <1>9, <1>10 DEF n, a, e, q

\* The partitions of a head are stored under the ids the leader reads: each
\* worker numbers them for itself, 0 .. get_num_partitions - 1 without gap or
\* clash.
THEOREM IdsMatch == WalkSpec => []IdsAreWhatTheLeaderReads
  <1>1. WalkInv => IdsAreWhatTheLeaderReads
    <2> SUFFICES ASSUME WalkInv, WalkComplete, NEW hd \in SubjectHeads
                 PROVE  /\ {x.id : x \in OfHead(hd)}
                             = 0 .. get_num_partitions(subject, hd) - 1
                        /\ Cardinality(OfHead(hd)) = get_num_partitions(subject, hd)
      BY DEF IdsAreWhatTheLeaderReads
    <2> DEFINE n == subject.local
               a == hd * n
               q == FirstOf(subject, hd)
               count == get_num_partitions(subject, hd)
    <2>1. n \in Nat \ {0} /\ Share(subject) \in Nat \ {0} /\ hd \in Nat
      BY Shares DEF WalkInv, SubjectHeads
    <2>2. PICK last \in Nat \ {0} :
            /\ count = last - q
            /\ (last - 1) * Share(subject) < a + n /\ a + n <= last * Share(subject)
      BY <2>1, PartitionCount DEF WalkInv
    <2>3. /\ q \in Nat /\ a \in Nat /\ a + n \in Nat
          /\ q * Share(subject) <= a /\ a < (q + 1) * Share(subject)
      <3>1. q \in Nat /\ a \in Nat /\ q * Share(subject) <= a /\ a < (q + 1) * Share(subject)
        BY <2>1, PartitionCount DEF WalkInv
      <3> HIDE DEF n, a
      <3>2. a + n \in Nat
        BY <2>1, <3>1
      <3> QED BY <3>1, <3>2
    <2> HIDE DEF count
    <2>4. ASSUME NEW x \in OfHead(hd)
          PROVE  x.id \in 0 .. count - 1 /\ x.wg \in Nat /\ x.id = x.wg - q
      <3>1. x \in partitions /\ x.head = hd
        BY DEF OfHead
      <3>2. /\ x.wg \in Nat /\ x.from \in Nat /\ x.to \in Nat /\ x.from < x.to /\ x.to <= n
            /\ x.wg * Share(subject) <= a + x.from
        <4>1. InPlace(x)
          BY <3>1 DEF WalkInv
        <4> QED BY <2>1, <3>1, <4>1 DEF InPlace, Linear
      <3>3. x.id = x.wg - q /\ q <= x.wg
        BY <3>1, IdCounts
      <3>4. x.wg * Share(subject) \in Nat /\ last * Share(subject) \in Nat
        BY <2>1, <2>2, <3>2, TimesTypes
      <3> HIDE DEF n, a, q
      <3>5. x.wg * Share(subject) < last * Share(subject)
        BY <2>1, <2>2, <2>3, <3>2, <3>4
      <3>6. x.wg < last
        <4>1. x.wg \in Int /\ last \in Int /\ Share(subject) \in Nat
          BY <2>1, <2>2, <3>2
        <4> QED BY <3>5, <4>1, TimesCancels
      <3> QED BY <2>2, <2>3, <3>2, <3>3, <3>6
    <2>5. ASSUME NEW i \in 0 .. count - 1
          PROVE  \E x \in OfHead(hd) : x.id = i
      <3> DEFINE w == q + i
                 first == IF a <= w * Share(subject) THEN w * Share(subject) ELSE a
                 k == first - a
      <3>1. w \in Nat /\ w <= last - 1 /\ q <= w
        BY <2>2, <2>3
      <3>2. /\ w * Share(subject) \in Nat /\ (w + 1) * Share(subject) = w * Share(subject) + Share(subject)
            /\ (last - 1) * Share(subject) \in Nat /\ (q + 1) * Share(subject) \in Nat /\ (w + 1) * Share(subject) \in Nat
        <4>1. last - 1 \in Nat /\ q + 1 \in Nat /\ w + 1 \in Nat
          BY <2>2, <2>3, <3>1
        <4> HIDE DEF w
        <4> QED BY <2>1, <3>1, <4>1, TimesTypes
      <3>3. w * Share(subject) <= (last - 1) * Share(subject) /\ (q + 1) * Share(subject) <= (w + 1) * Share(subject)
        <4>1. /\ last - 1 \in Int /\ q + 1 \in Int /\ w + 1 \in Int /\ w \in Int
              /\ q + 1 <= w + 1 /\ Share(subject) \in Nat
          BY <2>1, <2>2, <2>3, <3>1
        <4> HIDE DEF w
        <4> QED BY <3>1, <4>1, TimesMonotone
      <3> HIDE DEF n, a, q, w
      <3>4. /\ first \in Nat /\ w * Share(subject) <= first /\ first < (w + 1) * Share(subject)
            /\ a <= first /\ first < a + n
        BY <2>1, <2>2, <2>3, <3>2, <3>3
      <3> HIDE DEF first
      <3>5. k \in 0 .. n - 1 /\ a + k = first
        BY <2>1, <2>3, <3>4
      <3> HIDE DEF k
      <3>6. PICK x \in partitions : x.head = hd /\ k \in x.from .. x.to - 1
        BY <3>5, AllWalked DEF n
      <3>7. /\ x.wg \in Nat /\ x.from \in Nat /\ x.to \in Nat
            /\ x.wg * Share(subject) <= a + x.from /\ a + x.to <= (x.wg + 1) * Share(subject)
        <4>1. InPlace(x)
          BY DEF WalkInv
        <4> QED BY <3>6, <4>1 DEF InPlace, Linear, a, n
      <3>8. x.wg * Share(subject) \in Nat /\ (x.wg + 1) * Share(subject) \in Nat
        <4>1. x.wg + 1 \in Nat
          BY <3>7
        <4> QED BY <2>1, <3>7, <4>1, TimesTypes
      <3>9. x.wg * Share(subject) <= first /\ first < (x.wg + 1) * Share(subject)
        BY <2>1, <2>3, <3>4, <3>5, <3>6, <3>7, <3>8
      <3>10. x.wg * Share(subject) < (w + 1) * Share(subject) /\ w * Share(subject) < (x.wg + 1) * Share(subject)
        BY <3>2, <3>4, <3>8, <3>9
      <3>11. x.wg = w
        <4>1. /\ x.wg \in Int /\ x.wg + 1 \in Int /\ w \in Int /\ w + 1 \in Int /\ Share(subject) \in Nat
          BY <2>1, <3>1, <3>7
        <4>2. x.wg < w + 1 /\ w < x.wg + 1
          BY <3>10, <4>1, TimesCancels
        <4> QED BY <4>1, <4>2
      <3>12. x \in OfHead(hd)
        BY <3>6 DEF OfHead
      <3>13. x.id = i
        BY <2>3, <2>4, <3>11, <3>12 DEF w
      <3> QED BY <3>12, <3>13
    <2>6. ASSUME NEW x \in OfHead(hd), NEW y \in OfHead(hd), x.id = y.id
          PROVE  x = y
      <3>1. x.wg = y.wg
        BY <2>3, <2>4, <2>6
      <3>2. Apart(x, y)
        BY DEF WalkInv, OfHead
      <3> QED BY <3>1, <3>2 DEF Apart, OfHead
    <2>7. {x.id : x \in OfHead(hd)} = 0 .. count - 1
      BY <2>4, <2>5
    <2>8. Cardinality(OfHead(hd)) = count
      <3> DEFINE f == [i \in 0 .. count - 1 |-> CHOOSE x \in OfHead(hd) : x.id = i]
      <3>1. \A i \in 0 .. count - 1 : f[i] \in OfHead(hd) /\ f[i].id = i
        BY <2>5
      <3>2. f \in [0 .. count - 1 -> OfHead(hd)]
        BY <3>1
      <3>3. \A i, j \in 0 .. count - 1 : f[i] = f[j] => i = j
        BY <3>1
      <3>4. \A x \in OfHead(hd) : \E i \in 0 .. count - 1 : f[i] = x
        BY <2>4, <2>6, <3>1
      <3> HIDE DEF f
      <3>5. f \in Bijection(0 .. count - 1, OfHead(hd))
        BY <3>2, <3>3, <3>4, Fun_IsBij
      <3>6. count \in Int /\ count >= 0
        <4>1. q * Share(subject) \in Nat /\ last * Share(subject) \in Nat
          BY <2>1, <2>2, <2>3, TimesTypes
        <4> HIDE DEF n, a, q
        <4>2. q * Share(subject) < last * Share(subject)
          BY <2>1, <2>2, <2>3, <4>1
        <4>3. q \in Int /\ last \in Int /\ Share(subject) \in Nat
          BY <2>1, <2>2, <2>3
        <4>4. q < last
          BY <4>2, <4>3, TimesCancels
        <4> QED BY <2>2, <2>3, <4>4
      <3>7. IsFiniteSet(0 .. count - 1) /\ Cardinality(0 .. count - 1) = count
        <4>1. 0 \in Int /\ count - 1 \in Int
          BY <3>6
        <4> QED BY <3>6, <4>1, FS_Interval
      <3> QED BY <3>5, <3>7, FS_Bijection DEF ExistsBijection
    <2> QED BY <2>7, <2>8 DEF count
  <1> QED BY <1>1, WalkInvariance, PTL

-----------------------------------------------------------------------------
(* The reduction.                                                          *)

\* Work-group w has blocks of head h.
Meets(w, h) ==
    /\ w * Share(problem) < (h + 1) * problem.local
    /\ h * problem.local < (w + 1) * Share(problem)

\* What work-group w contributes to head h, and what the first i of the work-
\* groups that share the head contribute together.
Blk(k) == k \in 0 .. problem.local - 1
PartOf(w, h) ==
    [k \in Terms |-> IF /\ Blk(k) /\ w * Share(problem) <= Linear(problem, h, k)
                        /\ Linear(problem, h, k) < (w + 1) * Share(problem)
                     THEN 1 ELSE 0]
UpTo(h, i) ==
    [k \in Terms |-> IF Blk(k) /\ Linear(problem, h, k) < (FirstOf(problem, h) + i) * Share(problem)
                     THEN 1 ELSE 0]

\* Where a thread may be, and where it still has a partition in hand.
Places == {"start", "mainloop", "store", "count", "await", "reduce", "done"}
Inside == {"start", "mainloop", "store", "count"}

\* The head a thread is at, and the place it ends its partition at.
LoopFields == {"batch_head_id", "num_computed_blocks", "block_budget_remained"}
LoopOf(w, s, inside) ==
    /\ DOMAIN s = LoopFields
    /\ s.batch_head_id \in Nat
    /\ s.num_computed_blocks \in 0 .. problem.local - 1
    /\ s.block_budget_remained \in 0 .. Share(problem)
    /\ inside =>
         /\ s.batch_head_id < problem.heads
         /\ s.block_budget_remained > 0
         /\ Linear(problem, s.batch_head_id, s.num_computed_blocks) + s.block_budget_remained
              = (w + 1) * Share(problem)
         /\ \/ s.num_computed_blocks = 0
            \/ Linear(problem, s.batch_head_id, s.num_computed_blocks) = w * Share(problem)
         /\ w * Share(problem) <= Linear(problem, s.batch_head_id, s.num_computed_blocks)

\* Thread t of work-group w.
ThreadInv(w, t) ==
    /\ pc[<<w, t>>] \in Places
    /\ LoopOf(w, loop[<<w, t>>], pc[<<w, t>>] \in Inside)
    /\ pc[<<w, t>>] = "start" => loop[<<w, t>>] = StartOfLoop(problem, w)
    /\ pc[<<w, t>>] = "count" => t = 0
    /\ pc[<<w, t>>] \in {"await", "reduce"} => w \in Heads
    /\ read[<<w, t>>] \in Nat

\* Work-group w has counted its partition of head h.
Counted(w, h) ==
    /\ Meets(w, h)
    /\ pc[<<w, 0>>] \in Inside => h < loop[<<w, 0>>].batch_head_id
Counters(h) == {w \in Groups : Counted(w, h)}

\* A counter that has been reset counts no more than that; before its reset it
\* also has what the launch before left there.
CounterInv ==
    \A h \in Heads :
        counter[h] \in 0 .. Cardinality(Counters(h))
                              + (IF pc[<<h, 0>>] = "start" THEN get_num_partitions(problem, h) ELSE 0)

\* The barriers of the mainloop: a thread that has been through one has left no
\* thread of its work-group, thread 0 in particular, at the start.
Past == {"store", "count", "await", "reduce", "done"}
BarrierInv ==
    \A w \in Groups, t \in Threads : pc[<<w, t>>] \in Past => pc[<<w, 0>>] # "start"

\* The ranges of the variables.
Sums == [Terms -> Nat]
TypesInv ==
    /\ pc = [x \in Everyone |-> pc[x]]
    /\ loop = [x \in Everyone |-> loop[x]]
    /\ counter = [h \in Heads |-> counter[h]]
    /\ read = [x \in Everyone |-> read[x]]
    /\ acc \in [Everyone -> Sums]
    /\ partial \in [Heads -> [0 .. max_num_partitions - 1 -> [Threads -> Sums]]]
    /\ \A x \in onTheWay : x.by \in Everyone /\ x.part \in Sums
    /\ O \in [Heads -> [Threads -> Sums]]
    /\ early \subseteq Heads \X Threads /\ lost \subseteq Heads

ControlInv ==
    /\ problem \in Problems
    /\ TypesInv
    /\ \A w \in Groups, t \in Threads : ThreadInv(w, t)
    /\ BarrierInv
    /\ CounterInv

\* What thread t of work-group w stores for head h.
IdOf(w, h) == get_partition_id(problem, w, h)
StoreOf(w, t, h) == [by |-> <<w, t>>, head |-> h, id |-> IdOf(w, h), part |-> PartOf(w, h)]

\* What is on its way is a thread's part of a head the work-group has blocks of.
StoresInv ==
    \A x \in onTheWay : \E w \in Groups, t \in Threads, h \in Heads :
        Meets(w, h) /\ x = StoreOf(w, t, h)

\* A thread's place in memory holds its part, or still what was there before.
PartialInv ==
    \A w \in Groups, t \in Threads, h \in Heads :
        Meets(w, h) => partial[h][IdOf(w, h)][t] \in {Garbage, PartOf(w, h)}

\* A part that is counted and not in memory was counted too early.
CountedInv ==
    \A w \in Groups, t \in Threads, h \in Heads :
        Counted(w, h) /\ partial[h][IdOf(w, h)][t] = Garbage => <<h, t>> \in early

\* A thread holds the part of the head it is about to store.
WorkerInv(w, t) ==
    LET h == loop[<<w, t>>].batch_head_id
    IN  pc[<<w, t>>] = "store" => acc[<<w, t>>] = PartOf(w, h)

\* A thread of a leader has combined the first parts of its head, all of them
\* counted, unless one was counted too early.
LeaderInv(w, t) ==
    /\ pc[<<w, t>>] \in Inside \cup {"await"} => read[<<w, t>>] = 0
    /\ pc[<<w, t>>] = "reduce" =>
         /\ read[<<w, t>>] <= get_num_partitions(problem, w)
         /\ acc[<<w, t>>] = UpTo(w, read[<<w, t>>]) \/ <<w, t>> \in early
         /\ \A v \in Groups : Meets(v, w) => Counted(v, w)

DataInv ==
    /\ StoresInv
    /\ PartialInv
    /\ CountedInv
    /\ \A w \in Groups, t \in Threads : WorkerInv(w, t) /\ LeaderInv(w, t)
    /\ CombinesEachBlockOnce

-----------------------------------------------------------------------------
(* The partitions of a head.                                               *)

LEMMA HeadTypes ==
    ASSUME problem \in Problems, NEW h \in Heads
    PROVE  /\ h \in Nat /\ h + 1 \in Nat /\ h + 1 <= problem.heads
           /\ problem.local \in Nat \ {0} /\ Share(problem) \in Nat \ {0}
           /\ h * problem.local \in Nat
           /\ (h + 1) * problem.local = h * problem.local + problem.local
           /\ h \in Groups
  <1>1. problem.heads \in Nat \ {0} /\ problem.local \in Nat \ {0} /\ problem.grid \in Nat \ {0}
        /\ Share(problem) \in Nat \ {0}
    BY Shares
  <1>2. h \in Nat /\ h + 1 \in Nat /\ h + 1 <= problem.heads
    BY <1>1 DEF Heads
  <1>3. h * problem.local \in Nat /\ (h + 1) * problem.local = h * problem.local + problem.local
    BY <1>1, <1>2, TimesTypes
  <1>4. problem.heads <= problem.grid
    BY ReductionAssumption DEF can_implement
  <1> QED BY <1>1, <1>2, <1>3, <1>4 DEF Groups

\* The work-groups that share a head follow each other, and number their
\* partitions from the first of them.
LEMMA WorkersAre ==
    ASSUME problem \in Problems, NEW h \in Heads
    PROVE  LET first == FirstOf(problem, h)
               num   == get_num_partitions(problem, h)
           IN  /\ first \in Nat /\ num \in Nat \ {0} /\ num <= max_num_partitions
               /\ first * Share(problem) <= h * problem.local
               /\ (h + 1) * problem.local <= (first + num) * Share(problem)
               /\ \A w \in Nat : Meets(w, h) <=> w \in first .. first + num - 1
               /\ \A w \in Nat : Meets(w, h) => w \in Groups /\ IdOf(w, h) = w - first
  <1> DEFINE first == FirstOf(problem, h)
             num   == get_num_partitions(problem, h)
             n     == problem.local
             S     == Share(problem)
             a     == h * n
             e     == (h + 1) * n
  <1>1. /\ h \in Nat /\ n \in Nat \ {0} /\ S \in Nat \ {0} /\ a \in Nat /\ e = a + n
        /\ h + 1 \in Nat /\ h + 1 <= problem.heads
    BY HeadTypes
  <1>2. first \in Nat /\ first * S <= a /\ a < (first + 1) * S
    BY <1>1, PartitionCount
  <1>3. PICK last \in Nat \ {0} : num = last - first /\ (last - 1) * S < e /\ e <= last * S
    BY <1>1, PartitionCount
  <1>4. num <= max_num_partitions
    BY ReductionAssumption DEF Heads
  <1>5. /\ problem.heads * n \in Nat /\ problem.grid * S \in Nat /\ problem.grid \in Nat
        /\ problem.heads * n <= problem.grid * S /\ e <= problem.heads * n
    <2>1. problem.heads \in Nat /\ problem.grid \in Nat /\ problem.heads * n <= problem.grid * S
      BY Shares
    <2>2. (h + 1) * n <= problem.heads * n
      BY <1>1, <2>1, TimesMonotone
    <2> QED BY <1>1, <2>1, <2>2, TimesTypes
  <1>6. \A w \in Nat : Meets(w, h) <=> w * S < e /\ a < (w + 1) * S
    BY DEF Meets
  <1>7. h = 0 => a = 0 /\ first = 0
    <2> SUFFICES ASSUME h = 0 PROVE a = 0 /\ first = 0
      OBVIOUS
    <2>1. 0 * n = 0
      BY <1>1
    <2>2. first = 0 \div S
      BY <2>1 DEF FirstOf
    <2>3. 0 \div S = 0
      <3>1. 0 * S + 0 = 0
        BY <1>1
      <3>2. (0 * S + 0) \div S = 0
        BY <1>1, QuotientIs
      <3> QED BY <3>1, <3>2
    <2> QED BY <2>1, <2>2, <2>3
  <1>8. \A w \in Nat : IdOf(w, h) = w - first
    <2>1. \A w \in Nat : IdOf(w, h) = IF h = 0 THEN w ELSE w - first
      BY DEF IdOf, get_partition_id, FirstOf, Share
    <2> QED BY <1>7, <2>1
  <1> HIDE DEF first, num, n, S, a, e
  <1>9. ASSUME NEW w \in Nat PROVE Meets(w, h) <=> first <= w /\ w < last
    <2>1. w * S \in Nat /\ (w + 1) * S \in Nat /\ (first + 1) * S \in Nat /\ first * S \in Nat
          /\ (last - 1) * S \in Nat /\ last * S \in Nat
      <3>1. w + 1 \in Nat /\ first + 1 \in Nat /\ last - 1 \in Nat
        BY <1>2
      <3> QED BY <1>1, <1>2, <3>1, TimesTypes
    <2>2. Meets(w, h) => first <= w /\ w < last
      <3> SUFFICES ASSUME w * S < e, a < (w + 1) * S PROVE first <= w /\ w < last
        BY <1>6
      <3>1. w * S < last * S
        BY <1>1, <1>3, <2>1
      <3>2. first * S < (w + 1) * S
        BY <1>1, <1>2, <2>1
      <3>3. w < last
        BY <1>1, <3>1, TimesCancels
      <3>4. first < w + 1
        BY <1>1, <1>2, <3>2, TimesCancels
      <3> QED BY <1>2, <3>3, <3>4
    <2>3. first <= w /\ w < last => Meets(w, h)
      <3> SUFFICES ASSUME first <= w, w < last PROVE w * S < e /\ a < (w + 1) * S
        BY <1>6
      <3>1. w <= last - 1 /\ first + 1 <= w + 1
        BY <1>2
      <3>2. w * S <= (last - 1) * S
        BY <1>1, <3>1, TimesMonotone
      <3>3. (first + 1) * S <= (w + 1) * S
        BY <1>1, <1>2, <3>1, TimesMonotone
      <3> QED BY <1>1, <1>2, <1>3, <2>1, <3>2, <3>3
    <2> QED BY <2>2, <2>3
  <1>10. first < last
    <2>1. first * S \in Nat /\ last * S \in Nat
      BY <1>1, <1>2, TimesTypes
    <2>2. first * S < last * S
      BY <1>1, <1>2, <1>3, <2>1
    <2> QED BY <1>1, <1>2, <2>2, TimesCancels
  <1>11. num \in Nat \ {0} /\ first + num = last
    BY <1>2, <1>3, <1>10
  <1>12. ASSUME NEW w \in Nat, w < last PROVE w \in Groups
    <2>1. (last - 1) * S < problem.grid * S
      <3>1. (last - 1) * S \in Int
        BY <1>1
      <3> QED BY <1>1, <1>3, <1>5, <3>1
    <2>2. last - 1 < problem.grid
      BY <1>1, <1>5, <2>1, TimesCancels
    <2> QED BY <1>5, <1>12, <2>2 DEF Groups
  <1>13. \A w \in Nat : Meets(w, h) <=> w \in first .. first + num - 1
    BY <1>2, <1>9, <1>11
  <1>14. \A w \in Nat : Meets(w, h) => w \in Groups /\ IdOf(w, h) = w - first
    BY <1>8, <1>9, <1>12
  <1>15. e <= (first + num) * S
    BY <1>3, <1>11
  <1> QED BY <1>2, <1>4, <1>11, <1>13, <1>14, <1>15 DEF first, num, n, S, a, e

\* As many work-groups share a head as it has partitions.
LEMMA WorkersCount ==
    ASSUME problem \in Problems, NEW h \in Heads
    PROVE  LET workers == {w \in Groups : Meets(w, h)}
           IN  IsFiniteSet(workers) /\ Cardinality(workers) = get_num_partitions(problem, h)
  <1> DEFINE first == FirstOf(problem, h)
             num   == get_num_partitions(problem, h)
             workers == {w \in Groups : Meets(w, h)}
  <1>1. first \in Nat /\ num \in Nat \ {0}
    BY WorkersAre
  <1>2. workers = first .. first + num - 1
    <2>1. \A w \in Nat : Meets(w, h) <=> w \in first .. first + num - 1
      BY WorkersAre
    <2>2. \A w \in Nat : Meets(w, h) => w \in Groups
      BY WorkersAre
    <2>3. Groups \subseteq Nat
      BY Shares DEF Groups
    <2>4. \A w \in first .. first + num - 1 : w \in Nat
      BY <1>1
    <2> HIDE DEF first, num
    <2> QED BY <2>1, <2>2, <2>3, <2>4, Zenon
  <1> HIDE DEF first, num, workers
  <1>3. IsFiniteSet(first .. first + num - 1) /\ Cardinality(first .. first + num - 1) = num
    <2>1. first \in Int /\ first + num - 1 \in Int /\ ~(first > first + num - 1)
          /\ (first + num - 1) - first + 1 = num
      BY <1>1
    <2> QED BY <2>1, FS_Interval
  <1> QED BY <1>2, <1>3 DEF num, workers

-----------------------------------------------------------------------------
(* What the partitions of a head hold.                                     *)

\* Whatever is stored or combined counts blocks.
LEMMA SumsTyped ==
    /\ Nothing \in Sums /\ Garbage \in Sums /\ AllBlocks \in Sums
    /\ \A a, b \in Sums : Sum(a, b) \in Sums
    /\ \A s : Blocks(s) \in Sums
    /\ \A w, h : PartOf(w, h) \in Sums
  BY DEF Nothing, Garbage, AllBlocks, Sum, Blocks, PartOf, Sums

\* Combined in the order of their ids, the partitions of a head add up from
\* its first block to its last.
LEMMA PartsAdd ==
    ASSUME problem \in Problems, NEW h \in Heads
    PROVE  LET first == FirstOf(problem, h)
               num   == get_num_partitions(problem, h)
           IN  /\ UpTo(h, 0) = Nothing
               /\ UpTo(h, num) = AllBlocks
               /\ \A i \in Nat : Sum(UpTo(h, i), PartOf(first + i, h)) = UpTo(h, i + 1)
  <1> DEFINE first == FirstOf(problem, h)
             num   == get_num_partitions(problem, h)
             S     == Share(problem)
             n     == problem.local
             Lin(k) == Linear(problem, h, k)
  <1>1. /\ h \in Nat /\ n \in Nat \ {0} /\ S \in Nat \ {0} /\ h * n \in Nat
        /\ (h + 1) * n = h * n + n
    BY HeadTypes
  <1>2. first \in Nat /\ num \in Nat /\ first * S <= h * n /\ (h + 1) * n <= (first + num) * S
    BY WorkersAre
  <1>3. ASSUME NEW k \in Terms, Blk(k)
        PROVE  Lin(k) \in Nat /\ h * n <= Lin(k) /\ Lin(k) < (h + 1) * n
    BY <1>1, <1>3 DEF Blk, Linear
  <1>4. \A k \in Terms : k = Stale \/ Blk(k)
    BY DEF Terms, Blk
  <1>5. ~Blk(Stale)
    <2> HIDE DEF n
    <2> QED BY <1>1 DEF Blk, Stale, n
  <1>6. \A i \in Nat : /\ (first + i) * S \in Nat /\ (first + i + 1) * S \in Nat
                       /\ first * S \in Nat
                       /\ (first + i) * S <= (first + i + 1) * S
    <2> SUFFICES ASSUME NEW i \in Nat
                 PROVE  /\ (first + i) * S \in Nat /\ (first + i + 1) * S \in Nat
                        /\ first * S \in Nat
                        /\ (first + i) * S <= (first + i + 1) * S
      OBVIOUS
    <2>1. first + i \in Nat /\ first + i + 1 \in Nat
      BY <1>2
    <2>2. (first + i) * S \in Nat /\ (first + i + 1) * S \in Nat /\ first * S \in Nat
      BY <1>1, <1>2, <2>1, TimesTypes
    <2>3. (first + i) * S <= (first + i + 1) * S
      <3>1. first + i <= first + i + 1
        BY <2>1
      <3> QED BY <1>1, <2>1, <3>1, TimesMonotone
    <2> QED BY <2>2, <2>3
  <1> HIDE DEF first, num, S, n
  <1>7. UpTo(h, 0) = Nothing
    <2>1. first + 0 = first /\ first * S \in Nat
      BY <1>2, <1>6
    <2>2. \A k \in Terms : ~(Blk(k) /\ Lin(k) < (first + 0) * S)
      BY <1>1, <1>2, <1>3, <2>1
    <2> QED BY <2>2 DEF UpTo, Nothing, first, S
  <1>8. UpTo(h, num) = AllBlocks
    <2>1. (first + num) * S \in Nat
      BY <1>2, <1>6
    <2>2. \A k \in Terms : (Blk(k) /\ Lin(k) < (first + num) * S) <=> k # Stale
      BY <1>1, <1>2, <1>3, <1>4, <1>5, <2>1
    <2> HIDE DEF Lin
    <2>3. UpTo(h, num) = [k \in Terms |-> IF Blk(k) /\ Lin(k) < (first + num) * S THEN 1 ELSE 0]
      BY DEF UpTo, Lin, first, S
    <2> QED BY <2>2, <2>3 DEF AllBlocks
  <1>9. ASSUME NEW i \in Nat
        PROVE  Sum(UpTo(h, i), PartOf(first + i, h)) = UpTo(h, i + 1)
    <2>1. /\ (first + i) * S \in Nat /\ (first + i + 1) * S \in Nat
          /\ (first + i) * S <= (first + i + 1) * S
      BY <1>6
    <2>2. first + (i + 1) = first + i + 1
      BY <1>2
    <2> DEFINE f == [k \in Terms |-> IF Blk(k) /\ Lin(k) < (first + i) * S THEN 1 ELSE 0]
               p == [k \in Terms |-> IF /\ Blk(k) /\ (first + i) * S <= Lin(k)
                                        /\ Lin(k) < (first + i + 1) * S THEN 1 ELSE 0]
               g == [k \in Terms |-> IF Blk(k) /\ Lin(k) < (first + i + 1) * S THEN 1 ELSE 0]
    <2>3. UpTo(h, i) = f /\ PartOf(first + i, h) = p /\ UpTo(h, i + 1) = g
      BY <2>2, Zenon DEF UpTo, PartOf, first, S
    <2>4. \A k \in Terms : f[k] + p[k] = g[k]
      BY <1>3, <2>1
    <2> HIDE DEF f, p
    <2>5. Sum(f, p) = g
      BY <2>4 DEF Sum
    <2> QED BY <2>3, <2>5
  <1> QED BY <1>7, <1>8, <1>9 DEF first, num

-----------------------------------------------------------------------------
(* The loop of a thread.                                                   *)

\* The loop is at a head the work-group has blocks of, and the mainloop takes
\* all the work-group has of it.
LEMMA PartitionIs ==
    ASSUME problem \in Problems, NEW w \in Groups, NEW s, LoopOf(w, s, TRUE)
    PROVE  /\ s.batch_head_id \in Heads
           /\ Meets(w, s.batch_head_id)
           /\ Blocks(s) = PartOf(w, s.batch_head_id)
  <1> DEFINE h == s.batch_head_id
             c == s.num_computed_blocks
             left == s.block_budget_remained
             n == problem.local
             S == Share(problem)
  <1>1. /\ h \in Nat /\ c \in 0 .. n - 1 /\ left \in 0 .. S /\ left > 0 /\ h < problem.heads
        /\ Linear(problem, h, c) + left = (w + 1) * S
        /\ c = 0 \/ Linear(problem, h, c) = w * S
        /\ w * S <= Linear(problem, h, c)
    BY DEF LoopOf
  <1>2. problem.heads \in Nat
    BY Shares
  <1>3. h \in Heads
    BY <1>1, <1>2 DEF Heads
  <1>4. /\ n \in Nat \ {0} /\ S \in Nat \ {0} /\ h * n \in Nat /\ (h + 1) * n = h * n + n
    BY <1>3, HeadTypes
  <1>5. w \in Nat /\ w * S \in Nat /\ (w + 1) * S \in Nat
    <2>1. w \in Nat
      BY Shares DEF Groups
    <2>2. w + 1 \in Nat
      BY <2>1
    <2> QED BY <1>4, <2>1, <2>2, TimesTypes
  <1> HIDE DEF h, c, left, S, n
  <1>6. Linear(problem, h, c) = h * n + c
    BY DEF Linear, n
  <1>7. Meets(w, h)
    <2>1. w * S < (h + 1) * n
      BY <1>1, <1>4, <1>5, <1>6
    <2>2. h * n < (w + 1) * S
      BY <1>1, <1>4, <1>5, <1>6
    <2> QED BY <2>1, <2>2 DEF Meets, n, S
  <1>8. Blocks(s) = PartOf(w, h)
    <2> DEFINE e == IF n - c <= left THEN n ELSE c + left
    <2>1. end_blk(problem, s) = e /\ start_blk(s) = c
      <3>1. end_blk(problem, s) = c + (IF n - c <= left THEN n - c ELSE left)
        BY DEF end_blk, FinishesHead, num_new_blocks, n, c, left
      <3> QED BY <1>1, <1>4, <3>1 DEF start_blk, c
    <2>2. ASSUME NEW k \in Terms
          PROVE  k \in c .. e - 1 <=> /\ Blk(k) /\ w * S <= Linear(problem, h, k)
                                      /\ Linear(problem, h, k) < (w + 1) * S
      <3>1. Linear(problem, h, k) = h * n + k
        BY DEF Linear, n
      <3>2. k = Stale \/ k \in 0 .. n - 1
        BY DEF Terms, n
      <3>3. Blk(k) <=> k \in 0 .. n - 1
        BY DEF Blk, n
      <3>4. CASE k = Stale
        <4>1. ~(k \in 0 .. n - 1) /\ ~(k \in c .. e - 1)
          BY <1>1, <1>4, <3>4 DEF Stale
        <4> QED BY <3>3, <4>1
      <3>5. CASE k \in 0 .. n - 1
        <4>1. CASE n - c <= left
          BY <1>1, <1>4, <1>5, <1>6, <3>1, <3>3, <3>5, <4>1
        <4>2. CASE ~(n - c <= left)
          BY <1>1, <1>4, <1>5, <1>6, <3>1, <3>3, <3>5, <4>2
        <4> QED BY <4>1, <4>2
      <3> QED BY <3>2, <3>4, <3>5
    <2>3. Blocks(s) = [k \in Terms |-> IF k \in c .. e - 1 THEN 1 ELSE 0]
      BY <2>1, Zenon DEF Blocks
    <2> HIDE DEF e
    <2> QED BY <2>2, <2>3 DEF PartOf, S
  <1> QED BY <1>3, <1>7, <1>8 DEF h

\* A loop starts at the first head the work-group has blocks of.
LEMMA StartIs ==
    ASSUME problem \in Problems, NEW w \in Groups
    PROVE  LET s == StartOfLoop(problem, w)
           IN  /\ LoopOf(w, s, TRUE)
               /\ \A h \in Heads : Meets(w, h) => ~(h < s.batch_head_id)
  <1> DEFINE s == StartOfLoop(problem, w)
             g == s.batch_head_id
             n == problem.local
             S == Share(problem)
  <1>1. w \in Nat /\ n \in Nat \ {0} /\ S \in Nat \ {0} /\ problem.heads \in Nat
    BY Shares DEF Groups
  <1>2. /\ DOMAIN s = LoopFields
        /\ g \in Nat /\ s.num_computed_blocks \in 0 .. n - 1
        /\ s.block_budget_remained = S
        /\ Linear(problem, g, s.num_computed_blocks) = w * S
    BY <1>1, Starts DEF LoopFields
  <1>3. g < problem.heads
    BY ReductionAssumption DEF StartOfLoop, Groups
  <1>4. w * S \in Nat /\ (w + 1) * S = w * S + S
    BY <1>1, TimesTypes
  <1> HIDE DEF s, n, S
  <1>5. LoopOf(w, s, TRUE)
    <2>1. w * S + S = (w + 1) * S /\ S > 0 /\ S \in 0 .. S /\ w * S <= w * S
      BY <1>1, <1>4
    <2> QED BY <1>2, <1>3, <2>1 DEF LoopOf, S, n
  <1>6. ASSUME NEW h \in Heads, Meets(w, h), h < g
        PROVE  FALSE
    <2>1. h \in Nat /\ h + 1 \in Nat /\ (h + 1) * n \in Nat
      <3>1. h \in Nat /\ h + 1 \in Nat
        BY HeadTypes
      <3> QED BY <1>1, <3>1, TimesTypes
    <2>2. (h + 1) * n <= g * n
      <3>1. h + 1 <= g
        BY <1>2, <1>6, <2>1
      <3> QED BY <1>1, <1>2, <2>1, <3>1, TimesMonotone
    <2>3. g * n \in Nat
      BY <1>1, <1>2, TimesTypes
    <2>4. w * S = g * n + s.num_computed_blocks
      BY <1>2 DEF Linear, n
    <2>5. w * S < (h + 1) * n
      BY <1>6 DEF Meets, S, n
    <2> QED BY <1>2, <1>4, <2>1, <2>2, <2>3, <2>4, <2>5
  <1> QED BY <1>5, <1>6 DEF s

\* After a partition the loop goes on at the next head, or the work-group has
\* no blocks of a later one.
LEMMA NextLoop ==
    ASSUME problem \in Problems, NEW w \in Groups, NEW s, LoopOf(w, s, TRUE)
    PROVE  LET next == NextPartition(problem, s)
           IN  /\ LoopContinues(problem, next) =>
                    LoopOf(w, next, TRUE) /\ next.batch_head_id = s.batch_head_id + 1
               /\ LoopOf(w, [s EXCEPT !.block_budget_remained = 0], FALSE)
               /\ ~LoopContinues(problem, next) =>
                    \A h \in Heads : Meets(w, h) => h <= s.batch_head_id
  <1> DEFINE g == s.batch_head_id
             c == s.num_computed_blocks
             left == s.block_budget_remained
             n == problem.local
             S == Share(problem)
             next == NextPartition(problem, s)
  <1>1. /\ DOMAIN s = LoopFields
        /\ g \in Nat /\ c \in 0 .. n - 1 /\ left \in 0 .. S /\ left > 0 /\ g < problem.heads
        /\ Linear(problem, g, c) + left = (w + 1) * S
        /\ w * S <= Linear(problem, g, c)
    BY DEF LoopOf
  <1>2. problem.heads \in Nat /\ g \in Heads /\ w \in Nat
    BY <1>1, Shares DEF Heads, Groups
  <1>3. /\ n \in Nat \ {0} /\ S \in Nat \ {0} /\ g * n \in Nat /\ (g + 1) * n = g * n + n
    BY <1>2, HeadTypes
  <1>4. w * S \in Nat /\ (w + 1) * S \in Nat
    <2>1. w + 1 \in Nat
      BY <1>2
    <2> QED BY <1>2, <1>3, <2>1, TimesTypes
  <1>5. FinishesHead(problem, s) <=> n - c <= left
    BY DEF FinishesHead, num_new_blocks
  <1>6. LoopOf(w, [s EXCEPT !.block_budget_remained = 0], FALSE)
    <2> DEFINE r == [s EXCEPT !.block_budget_remained = 0]
    <2>1. DOMAIN r = LoopFields /\ r.batch_head_id = g /\ r.num_computed_blocks = c
          /\ r.block_budget_remained = 0
      BY <1>1 DEF LoopFields
    <2> HIDE DEF r
    <2>2. 0 \in 0 .. S
      BY <1>3
    <2> QED BY <1>1, <2>1, <2>2 DEF LoopOf, r
  <1>7. Linear(problem, g, c) = g * n + c /\ Linear(problem, g + 1, 0) = (g + 1) * n
    <2>1. Linear(problem, g + 1, 0) = (g + 1) * n + 0
      BY DEF Linear
    <2> QED BY <1>3, <2>1 DEF Linear
  <1>8. CASE FinishesHead(problem, s)
    <2>1. next = [batch_head_id |-> g + 1, num_computed_blocks |-> 0,
                  block_budget_remained |-> left - (n - c)]
      BY <1>8 DEF NextPartition, num_new_blocks
    <2>2. /\ next.batch_head_id = g + 1 /\ next.num_computed_blocks = 0
          /\ next.block_budget_remained = left - (n - c)
          /\ DOMAIN next = LoopFields
      BY <2>1 DEF LoopFields
    <2> HIDE DEF g, c, left, n, S, next
    <2>3. left - (n - c) \in 0 .. S
      BY <1>1, <1>3, <1>5, <1>8
    <2>4. (g + 1) * n + (left - (n - c)) = (w + 1) * S
      BY <1>1, <1>3, <1>4, <1>7
    <2>5. LoopContinues(problem, next) =>
            LoopOf(w, next, TRUE) /\ next.batch_head_id = g + 1
      <3> SUFFICES ASSUME LoopContinues(problem, next)
                   PROVE  LoopOf(w, next, TRUE) /\ next.batch_head_id = g + 1
        OBVIOUS
      <3>1. left - (n - c) > 0 /\ g + 1 < problem.heads
        BY <2>2 DEF LoopContinues
      <3>2. g + 1 \in Nat /\ 0 \in 0 .. n - 1
        BY <1>1, <1>3
      <3>3. w * S <= (g + 1) * n
        BY <1>1, <1>3, <1>4, <1>7
      <3> QED BY <1>7, <2>2, <2>3, <2>4, <3>1, <3>2, <3>3 DEF LoopOf, n, S
    <2>6. ~LoopContinues(problem, next) => \A h \in Heads : Meets(w, h) => h <= g
      <3> SUFFICES ASSUME ~LoopContinues(problem, next), NEW h \in Heads, Meets(w, h), h > g
                   PROVE  FALSE
        BY <1>1, HeadTypes
      <3>1. h \in Nat /\ h + 1 <= problem.heads /\ h * n \in Nat
        BY HeadTypes DEF n
      <3>2. left - (n - c) = 0
        <4>1. g + 1 < problem.heads
          BY <1>1, <1>2, <3>1
        <4> QED BY <2>2, <2>3, <4>1 DEF LoopContinues
      <3>3. (g + 1) * n <= h * n
        <4>1. g + 1 <= h
          BY <1>1, <3>1
        <4> QED BY <1>1, <1>3, <3>1, <4>1, TimesMonotone
      <3>4. h * n < (w + 1) * S
        BY DEF Meets, n, S
      <3> QED BY <1>3, <1>4, <2>4, <3>1, <3>2, <3>3, <3>4
    <2> QED BY <1>6, <2>5, <2>6 DEF g, next
  <1>9. CASE ~FinishesHead(problem, s)
    <2>1. next = [s EXCEPT !.block_budget_remained = 0]
      BY <1>9, Zenon DEF NextPartition
    <2>2. next.block_budget_remained = 0
      BY <1>1, <2>1 DEF LoopFields
    <2>3. ~LoopContinues(problem, next)
      BY <2>2 DEF LoopContinues
    <2>4. ASSUME NEW h \in Heads, Meets(w, h) PROVE h <= g
      <3> SUFFICES ASSUME h > g PROVE FALSE
        BY <1>1, HeadTypes
      <3>1. h \in Nat /\ h * n \in Nat
        BY HeadTypes
      <3>2. (g + 1) * n <= h * n
        <4>1. g + 1 <= h
          BY <1>1, <3>1
        <4> HIDE DEF g, n
        <4> QED BY <1>1, <1>3, <3>1, <4>1, TimesMonotone
      <3>3. h * n < (w + 1) * S
        BY <2>4 DEF Meets
      <3> HIDE DEF g, c, left, n, S
      <3> QED BY <1>1, <1>3, <1>4, <1>5, <1>7, <1>9, <3>1, <3>2, <3>3
    <2> QED BY <1>6, <2>3, <2>4
  <1> QED BY <1>8, <1>9

-----------------------------------------------------------------------------
(* How the threads move.                                                   *)

\* The problem stays the same during a launch, and what is defined by it.
LEMMA SameProblem ==
    ASSUME problem' = problem
    PROVE  /\ Heads' = Heads /\ Groups' = Groups /\ Threads' = Threads /\ Everyone' = Everyone
           /\ Terms' = Terms /\ Sums' = Sums
           /\ Nothing' = Nothing /\ AllBlocks' = AllBlocks /\ Garbage' = Garbage
           /\ \A w, h : Meets(w, h)' <=> Meets(w, h)
           /\ \A w, h : PartOf(w, h)' = PartOf(w, h) /\ IdOf(w, h)' = IdOf(w, h)
           /\ \A w, t, h : StoreOf(w, t, h)' = StoreOf(w, t, h)
           /\ \A h, i : UpTo(h, i)' = UpTo(h, i)
  <1>1. /\ Heads' = Heads /\ Groups' = Groups /\ Threads' = Threads /\ Everyone' = Everyone
        /\ Terms' = Terms
    BY DEF Heads, Groups, Threads, Everyone, Terms
  <1>2. Sums' = Sums /\ Nothing' = Nothing /\ AllBlocks' = AllBlocks /\ Garbage' = Garbage
    BY <1>1 DEF Sums, Nothing, AllBlocks, Garbage
  <1>3. \A w, h : Meets(w, h)' <=> Meets(w, h)
    BY DEF Meets
  <1>4. \A w, h : PartOf(w, h)' = PartOf(w, h) /\ IdOf(w, h)' = IdOf(w, h)
    BY <1>1 DEF PartOf, IdOf, Blk
  <1>5. \A w, t, h : StoreOf(w, t, h)' = StoreOf(w, t, h)
    BY <1>4 DEF StoreOf
  <1>6. \A h, i : UpTo(h, i)' = UpTo(h, i)
    BY <1>1 DEF UpTo, Blk
  <1> QED BY <1>1, <1>2, <1>3, <1>4, <1>5, <1>6

LEMMA ThreadsAre ==
    /\ problem \in Problems \/ ControlInv => 0 \in Threads
    /\ \A w \in Groups, t \in Threads : <<w, t>> \in Everyone
  <1>1. problem \in Problems \/ ControlInv => problem \in Problems
    BY DEF ControlInv
  <1>2. problem \in Problems => 0 \in Threads
    BY ReductionAssumption DEF Threads
  <1> QED BY <1>1, <1>2 DEF Everyone

LEMMA LeadersAre ==
    ASSUME problem \in Problems
    PROVE  /\ \A w \in Groups : is_leader_wg(problem, w) <=> w \in Heads
           /\ \A h \in Heads : h \in Groups
  <1>1. problem.heads \in Nat /\ problem.grid \in Nat
    BY Shares
  <1> QED BY <1>1, HeadTypes DEF Groups, is_leader_wg, Heads

\* What to show of a thread that moves, and that nothing is to show of others.
LEMMA ThreadGoes ==
    ASSUME problem' = problem, NEW w, NEW t, NEW p, NEW s,
           p = pc'[<<w, t>>], s = loop'[<<w, t>>], read'[<<w, t>>] \in Nat,
           p \in Places, LoopOf(w, s, p \in Inside),
           p = "start" => s = StartOfLoop(problem, w), p = "count" => t = 0,
           p \in {"await", "reduce"} => w \in Heads
    PROVE  ThreadInv(w, t)'
  BY SameProblem DEF ThreadInv, LoopOf

LEMMA ThreadRests ==
    ASSUME problem' = problem, NEW w, NEW t, ThreadInv(w, t),
           pc'[<<w, t>>] = pc[<<w, t>>], loop'[<<w, t>>] = loop[<<w, t>>],
           read'[<<w, t>>] = read[<<w, t>>]
    PROVE  ThreadInv(w, t)'
  <1>1. PICK p, s : p = pc[<<w, t>>] /\ s = loop[<<w, t>>]
    OBVIOUS
  <1>2. /\ p \in Places /\ LoopOf(w, s, p \in Inside)
        /\ p = "start" => s = StartOfLoop(problem, w)
        /\ p = "count" => t = 0
        /\ p \in {"await", "reduce"} => w \in Heads
        /\ read[<<w, t>>] \in Nat
    BY <1>1 DEF ThreadInv
  <1> QED BY <1>1, <1>2, ThreadGoes

\* A thread goes to another place.
LEMMA Goes ==
    ASSUME TypesInv, NEW w \in Groups, NEW t \in Threads, NEW place, Goto(w, t, place)
    PROVE  /\ pc' = [x \in Everyone |-> pc'[x]]
           /\ pc'[<<w, t>>] = place
           /\ \A x \in Everyone : x # <<w, t>> => pc'[x] = pc[x]
  <1>1. pc' = [pc EXCEPT ![<<w, t>>] = place] /\ <<w, t>> \in Everyone
    BY ThreadsAre DEF Goto
  <1>2. pc = [x \in Everyone |-> pc[x]]
    BY DEF TypesInv
  <1> QED BY <1>1, <1>2

\* A thread leaves a partition: from then on the work-group has had every head
\* up to this one.
LEMMA Advances ==
    ASSUME problem \in Problems, TypesInv, NEW w \in Groups, NEW t \in Threads,
           LoopOf(w, loop[<<w, t>>], TRUE), Advance(w, t)
    PROVE  /\ pc' = [x \in Everyone |-> pc'[x]] /\ loop' = [x \in Everyone |-> loop'[x]]
           /\ \A x \in Everyone : x # <<w, t>> => pc'[x] = pc[x] /\ loop'[x] = loop[x]
           /\ \E p, s : /\ p = pc'[<<w, t>>] /\ s = loop'[<<w, t>>]
                        /\ p \in {"mainloop", "await", "done"}
                        /\ p = "await" => w \in Heads
                        /\ LoopOf(w, s, p \in Inside)
                        /\ \A h \in Heads : Meets(w, h) =>
                             ((p \in Inside => h < s.batch_head_id)
                                <=> h <= loop[<<w, t>>].batch_head_id)
  <1>1. PICK s : s = loop[<<w, t>>]
    OBVIOUS
  <1> DEFINE next == NextPartition(problem, s)
             last == [s EXCEPT !.block_budget_remained = 0]
  <1>2. LoopOf(w, s, TRUE)
    BY <1>1
  <1>3. /\ LoopContinues(problem, next) =>
             LoopOf(w, next, TRUE) /\ next.batch_head_id = s.batch_head_id + 1
        /\ LoopOf(w, last, FALSE)
        /\ ~LoopContinues(problem, next) => \A h \in Heads : Meets(w, h) => h <= s.batch_head_id
    BY <1>2, NextLoop
  <1>4. loop = [x \in Everyone |-> loop[x]] /\ <<w, t>> \in Everyone
    BY ThreadsAre DEF TypesInv
  <1>5. s.batch_head_id \in Nat /\ \A h \in Heads : h \in Nat
    BY <1>2, HeadTypes DEF LoopOf
  <1>6. CASE LoopContinues(problem, next)
    <2>1. loop' = [loop EXCEPT ![<<w, t>>] = next] /\ Goto(w, t, "mainloop")
      BY <1>1, <1>6, Zenon DEF Advance
    <2>2. /\ pc' = [x \in Everyone |-> pc'[x]] /\ pc'[<<w, t>>] = "mainloop"
          /\ \A x \in Everyone : x # <<w, t>> => pc'[x] = pc[x]
      BY <2>1, Goes
    <2> HIDE DEF next
    <2>3. /\ loop' = [x \in Everyone |-> loop'[x]] /\ loop'[<<w, t>>] = next
          /\ \A x \in Everyone : x # <<w, t>> => loop'[x] = loop[x]
      BY <1>4, <2>1
    <2>4. \A h \in Heads : h < next.batch_head_id <=> h <= s.batch_head_id
      BY <1>3, <1>5, <1>6
    <2>5. "mainloop" \in Inside
      BY DEF Inside
    <2>6. LoopOf(w, next, "mainloop" \in Inside)
      BY <1>3, <1>6, <2>5
    <2> QED BY <1>1, <2>2, <2>3, <2>4, <2>5, <2>6
  <1>7. CASE ~LoopContinues(problem, next)
    <2>1. PICK p : p = (IF is_leader_wg(problem, w) THEN "await" ELSE "done")
      OBVIOUS
    <2>2. loop' = [loop EXCEPT ![<<w, t>>].block_budget_remained = 0] /\ Goto(w, t, p)
      BY <1>1, <1>7, <2>1, Zenon DEF Advance
    <2>3. /\ pc' = [x \in Everyone |-> pc'[x]] /\ pc'[<<w, t>>] = p
          /\ \A x \in Everyone : x # <<w, t>> => pc'[x] = pc[x]
      BY <2>2, Goes
    <2>4. /\ loop' = [x \in Everyone |-> loop'[x]] /\ loop'[<<w, t>>] = last
          /\ \A x \in Everyone : x # <<w, t>> => loop'[x] = loop[x]
      BY <1>1, <1>4, <2>2
    <2>5. p \in {"await", "done"} /\ p \notin Inside /\ (p = "await" => w \in Heads)
      BY <2>1, LeadersAre DEF Inside
    <2> HIDE DEF last
    <2>6. LoopOf(w, last, p \in Inside)
      BY <1>3, <2>5 DEF LoopOf
    <2> QED BY <1>1, <1>3, <1>7, <2>3, <2>4, <2>5, <2>6
  <1> QED BY <1>6, <1>7

-----------------------------------------------------------------------------
(* What the counters count.                                                *)

\* A counter cannot pass the number of partitions, and there all have counted.
LEMMA CountersAre ==
    ASSUME problem \in Problems, NEW h \in Heads
    PROVE  /\ IsFiniteSet(Counters(h)) /\ Cardinality(Counters(h)) \in Nat
           /\ Cardinality(Counters(h)) <= get_num_partitions(problem, h)
           /\ Cardinality(Counters(h)) = get_num_partitions(problem, h) =>
                \A v \in Groups : Meets(v, h) => Counted(v, h)
  <1> DEFINE workers == {w \in Groups : Meets(w, h)}
  <1>1. IsFiniteSet(workers) /\ Cardinality(workers) = get_num_partitions(problem, h)
    BY WorkersCount
  <1>2. Counters(h) \subseteq workers
    BY DEF Counters, Counted
  <1> HIDE DEF workers
  <1>3. /\ IsFiniteSet(Counters(h)) /\ Cardinality(Counters(h)) <= Cardinality(workers)
        /\ Cardinality(Counters(h)) = Cardinality(workers) => Counters(h) = workers
    BY <1>1, <1>2, FS_Subset
  <1>4. Cardinality(Counters(h)) \in Nat
    BY <1>3, FS_CardinalityType
  <1>5. Counters(h) = workers => \A v \in Groups : Meets(v, h) => Counted(v, h)
    BY DEF Counters, workers
  <1> QED BY <1>1, <1>3, <1>4, <1>5

LEMMA CountedRests ==
    ASSUME problem' = problem, NEW w, NEW h,
           pc'[<<w, 0>>] \in Inside <=> pc[<<w, 0>>] \in Inside,
           pc[<<w, 0>>] \in Inside => loop'[<<w, 0>>] = loop[<<w, 0>>]
    PROVE  Counted(w, h)' <=> Counted(w, h)
  BY SameProblem DEF Counted, Inside

\* A step that counts nothing and resets nothing.
LEMMA Uncounted ==
    ASSUME ControlInv, problem' = problem, counter' = counter,
           \A w \in Groups : /\ pc'[<<w, 0>>] = "start" <=> pc[<<w, 0>>] = "start"
                             /\ pc'[<<w, 0>>] \in Inside <=> pc[<<w, 0>>] \in Inside
                             /\ pc[<<w, 0>>] \in Inside => loop'[<<w, 0>>] = loop[<<w, 0>>]
    PROVE  /\ CounterInv'
           /\ \A w \in Groups, h \in Heads : Counted(w, h)' <=> Counted(w, h)
  <1>1. \A w \in Groups, h \in Heads : Counted(w, h)' <=> Counted(w, h)
    BY CountedRests
  <1>2. \A h \in Heads : Counters(h)' = Counters(h)
    BY <1>1, SameProblem DEF Counters
  <1>3. \A h \in Heads : h \in Groups
    BY LeadersAre DEF ControlInv
  <1>4. ASSUME NEW h \in Heads
        PROVE  counter'[h] \in 0 .. Cardinality(Counters(h)')
                 + (IF pc'[<<h, 0>>] = "start" THEN get_num_partitions(problem', h) ELSE 0)
    <2>1. pc'[<<h, 0>>] = "start" <=> pc[<<h, 0>>] = "start"
      BY <1>3
    <2>2. Counters(h)' = Counters(h)
      BY <1>2
    <2>3. counter[h] \in 0 .. Cardinality(Counters(h))
            + (IF pc[<<h, 0>>] = "start" THEN get_num_partitions(problem, h) ELSE 0)
      BY DEF ControlInv, CounterInv
    <2>4. counter'[h] = counter[h] /\ problem' = problem
      OBVIOUS
    <2>5. CASE pc[<<h, 0>>] = "start"
      BY <2>1, <2>2, <2>3, <2>4, <2>5
    <2>6. CASE pc[<<h, 0>>] # "start"
      BY <2>1, <2>2, <2>3, <2>4, <2>6
    <2> QED BY <2>5, <2>6
  <1>5. Heads' = Heads
    BY SameProblem
  <1> QED BY <1>1, <1>4, <1>5 DEF CounterInv

\* One thread has moved, not back to the start, and past the barriers of the
\* mainloop only behind thread 0.
LEMMA OneMoves ==
    ASSUME ControlInv, problem' = problem, NEW w \in Groups, NEW t \in Threads,
           \A x \in Everyone : x # <<w, t>> =>
              pc'[x] = pc[x] /\ loop'[x] = loop[x] /\ read'[x] = read[x],
           pc'[<<w, t>>] # "start", pc'[<<w, t>>] \in Past => pc[<<w, 0>>] # "start",
           ThreadInv(w, t)', TypesInv', CounterInv'
    PROVE  ControlInv'
  <1>1. ASSUME NEW v \in Groups, NEW u \in Threads, <<v, u>> # <<w, t>>
        PROVE  pc'[<<v, u>>] = pc[<<v, u>>] /\ ThreadInv(v, u)'
    <2>1. <<v, u>> \in Everyone
      BY ThreadsAre
    <2>2. /\ pc'[<<v, u>>] = pc[<<v, u>>] /\ loop'[<<v, u>>] = loop[<<v, u>>]
          /\ read'[<<v, u>>] = read[<<v, u>>]
      BY <1>1, <2>1
    <2>3. ThreadInv(v, u)
      BY DEF ControlInv
    <2> QED BY <2>2, <2>3, ThreadRests
  <1>2. \A v \in Groups, u \in Threads : ThreadInv(v, u)'
    BY <1>1
  <1>3. ASSUME NEW v \in Groups, NEW u \in Threads, pc'[<<v, u>>] \in Past
        PROVE  pc'[<<v, 0>>] # "start"
    <2>1. 0 \in Threads
      BY ThreadsAre
    <2>2. pc[<<v, 0>>] # "start"
      <3>1. CASE <<v, u>> = <<w, t>>
        BY <1>3, <3>1
      <3>2. CASE <<v, u>> # <<w, t>>
        BY <1>1, <1>3, <3>2 DEF ControlInv, BarrierInv
      <3> QED BY <3>1, <3>2
    <2>3. CASE <<v, 0>> = <<w, t>>
      BY <2>3
    <2>4. CASE <<v, 0>> # <<w, t>>
      BY <1>1, <2>1, <2>2, <2>4
    <2> QED BY <2>3, <2>4
  <1>4. BarrierInv'
    BY <1>3, SameProblem DEF BarrierInv, Past
  <1> QED BY <1>2, <1>4, SameProblem DEF ControlInv

\* Memory after stores have landed.
LEMMA LandedIs ==
    ASSUME TypesInv, NEW S, S \subseteq onTheWay
    PROVE  /\ Landed(S) \in [Heads -> [0 .. max_num_partitions - 1 -> [Threads -> Sums]]]
           /\ \A h \in Heads, i \in 0 .. max_num_partitions - 1, t \in Threads :
                \/ \E x \in S : /\ x.head = h /\ x.id = i /\ x.by[2] = t
                                /\ Landed(S)[h][i][t] = x.part
                \/ /\ ~\E x \in S : x.head = h /\ x.id = i /\ x.by[2] = t
                   /\ Landed(S)[h][i][t] = partial[h][i][t]
  <1> DEFINE Hits(x, h, i, t) == x.head = h /\ x.id = i /\ x.by[2] = t
             val(h, i, t) == IF \E x \in S : Hits(x, h, i, t)
                             THEN (CHOOSE x \in S : Hits(x, h, i, t)).part
                             ELSE partial[h][i][t]
  <1>1. Landed(S) = [h \in Heads |-> [i \in 0 .. max_num_partitions - 1 |->
                       [t \in Threads |-> val(h, i, t)]]]
    BY DEF Landed
  <1>2. ASSUME NEW h \in Heads, NEW i \in 0 .. max_num_partitions - 1, NEW t \in Threads
        PROVE  /\ val(h, i, t) \in Sums
               /\ \/ \E x \in S : Hits(x, h, i, t) /\ val(h, i, t) = x.part
                  \/ ~(\E x \in S : Hits(x, h, i, t)) /\ val(h, i, t) = partial[h][i][t]
    <2>1. CASE \E x \in S : Hits(x, h, i, t)
      <3>1. PICK y : y = CHOOSE x \in S : Hits(x, h, i, t)
        OBVIOUS
      <3> HIDE DEF Hits
      <3>2. y \in S /\ Hits(y, h, i, t)
        BY <2>1, <3>1
      <3>3. val(h, i, t) = y.part
        BY <2>1, <3>1
      <3> QED BY <3>2, <3>3 DEF TypesInv
    <2>2. CASE ~\E x \in S : Hits(x, h, i, t)
      <3>1. partial[h][i][t] \in Sums
        <4>1. partial \in [Heads -> [0 .. max_num_partitions - 1 -> [Threads -> Sums]]]
          BY DEF TypesInv
        <4>2. partial[h] \in [0 .. max_num_partitions - 1 -> [Threads -> Sums]]
          BY <4>1
        <4>3. partial[h][i] \in [Threads -> Sums]
          BY <4>2
        <4> QED BY <4>3
      <3> HIDE DEF Hits
      <3>2. val(h, i, t) = partial[h][i][t]
        BY <2>2
      <3> QED BY <2>2, <3>1, <3>2
    <2> QED BY <2>1, <2>2
  <1> HIDE DEF val
  <1> QED BY <1>1, <1>2

-----------------------------------------------------------------------------
(* Every step keeps to the control flow (ControlInv).                      *)

LEMMA InitControl == Init => ControlInv
  <1> SUFFICES ASSUME Init PROVE ControlInv
    OBVIOUS
  <1>1. problem \in Problems
    BY DEF Init
  <1>2. TypesInv
    <2>1. /\ pc = [x \in Everyone |-> pc[x]] /\ loop = [x \in Everyone |-> loop[x]]
          /\ read = [x \in Everyone |-> read[x]] /\ counter = [h \in Heads |-> counter[h]]
      BY DEF Init
    <2>2. /\ acc \in [Everyone -> Sums] /\ O \in [Heads -> [Threads -> Sums]]
          /\ partial \in [Heads -> [0 .. max_num_partitions - 1 -> [Threads -> Sums]]]
      BY SumsTyped DEF Init
    <2> QED BY <2>1, <2>2 DEF TypesInv, Init
  <1>3. \A x \in Everyone : pc[x] = "start" /\ loop[x] = StartOfLoop(problem, x[1]) /\ read[x] = 0
    BY DEF Init
  <1>4. ASSUME NEW w \in Groups, NEW t \in Threads PROVE ThreadInv(w, t)
    <2>1. <<w, t>> \in Everyone
      BY ThreadsAre
    <2>2. pc[<<w, t>>] = "start" /\ loop[<<w, t>>] = StartOfLoop(problem, w) /\ read[<<w, t>>] = 0
      BY <1>3, <2>1
    <2>3. LoopOf(w, loop[<<w, t>>], TRUE)
      BY <1>1, <2>2, StartIs
    <2>4. "start" \in Inside /\ "start" \in Places
      BY DEF Inside, Places
    <2>5. PICK p, s : p = pc[<<w, t>>] /\ s = loop[<<w, t>>]
      OBVIOUS
    <2>6. LoopOf(w, s, p \in Inside)
      BY <2>2, <2>3, <2>4, <2>5
    <2>7. p = "start" /\ s = StartOfLoop(problem, w) /\ read[<<w, t>>] \in Nat
      BY <2>2, <2>5
    <2> QED BY <2>4, <2>5, <2>6, <2>7 DEF ThreadInv
  <1>5. ASSUME NEW w \in Groups, NEW h \in Heads PROVE ~Counted(w, h)
    <2>1. <<w, 0>> \in Everyone
      BY <1>1, ThreadsAre
    <2>2. pc[<<w, 0>>] = "start" /\ loop[<<w, 0>>] = StartOfLoop(problem, w)
      BY <1>3, <2>1
    <2>3. Meets(w, h) => ~(h < loop[<<w, 0>>].batch_head_id)
      BY <1>1, <2>2, StartIs
    <2> QED BY <2>2, <2>3 DEF Counted, Inside
  <1>6. ASSUME NEW h \in Heads
        PROVE  pc[<<h, 0>>] = "start" /\ counter[h] \in {0, get_num_partitions(problem, h)}
    <2>1. <<h, 0>> \in Everyone
      BY <1>1, LeadersAre, ThreadsAre
    <2> QED BY <1>3, <2>1 DEF Init
  <1>7. CounterInv
    <2>1. ASSUME NEW h \in Heads
          PROVE  counter[h] \in 0 .. Cardinality(Counters(h))
                   + (IF pc[<<h, 0>>] = "start" THEN get_num_partitions(problem, h) ELSE 0)
      <3>1. Counters(h) = {}
        BY <1>5 DEF Counters
      <3>2. Cardinality(Counters(h)) = 0
        BY <3>1, FS_EmptySet
      <3>3. get_num_partitions(problem, h) \in Nat
        BY <1>1, WorkersAre
      <3> QED BY <1>6, <3>2, <3>3
    <2> QED BY <2>1 DEF CounterInv
  <1>8. BarrierInv
    <2>1. \A w \in Groups, t \in Threads : pc[<<w, t>>] = "start"
      BY <1>3, ThreadsAre
    <2> QED BY <2>1 DEF BarrierInv, Past
  <1> QED BY <1>1, <1>2, <1>4, <1>7, <1>8 DEF ControlInv

LEMMA StartControl ==
    ASSUME ControlInv, NEW w \in Groups, NEW t \in Threads, Start(w, t)
    PROVE  /\ ControlInv'
           /\ \A v \in Groups, h \in Heads : Counted(v, h)' <=> Counted(v, h)
  <1>1. /\ problem' = problem /\ loop' = loop /\ partial' = partial /\ onTheWay' = onTheWay
        /\ read' = read /\ acc' = acc /\ O' = O /\ early' = early /\ lost' = lost
        /\ pc[<<w, t>>] = "start" /\ Goto(w, t, "mainloop")
        /\ counter' = IF t = 0 /\ is_leader_wg(problem, w)
                      THEN [counter EXCEPT ![w] = 0] ELSE counter
    BY DEF Start, history
  <1>2. problem \in Problems /\ TypesInv /\ ThreadInv(w, t) /\ CounterInv
    BY DEF ControlInv
  <1>3. /\ pc' = [x \in Everyone |-> pc'[x]] /\ pc'[<<w, t>>] = "mainloop"
        /\ \A x \in Everyone : x # <<w, t>> => pc'[x] = pc[x]
    BY <1>1, <1>2, Goes
  <1>4. counter = [h \in Heads |-> counter[h]]
    BY <1>2 DEF TypesInv
  <1>5. counter' = [h \in Heads |-> counter'[h]]
    BY <1>1, <1>4
  <1>6. TypesInv'
    BY <1>1, <1>2, <1>3, <1>5, SameProblem DEF TypesInv
  <1>7. ThreadInv(w, t)'
    <2>1. PICK s : s = loop[<<w, t>>]
      OBVIOUS
    <2>2. LoopOf(w, s, TRUE) /\ read[<<w, t>>] \in Nat
      BY <1>1, <1>2, <2>1 DEF ThreadInv, Inside
    <2>3. "mainloop" \in Places /\ "mainloop" \in Inside
      BY DEF Places, Inside
    <2>4. LoopOf(w, s, "mainloop" \in Inside)
      BY <2>2, <2>3
    <2> QED BY <1>1, <1>3, <2>1, <2>2, <2>3, <2>4, ThreadGoes
  <1>8. ASSUME NEW v \in Groups
        PROVE  \/ pc'[<<v, 0>>] = pc[<<v, 0>>]
               \/ t = 0 /\ v = w /\ pc'[<<v, 0>>] = "mainloop" /\ pc[<<v, 0>>] = "start"
    <2>1. <<v, 0>> \in Everyone
      BY ThreadsAre
    <2>2. CASE <<v, 0>> # <<w, t>>
      BY <1>3, <2>1, <2>2
    <2>3. CASE <<v, 0>> = <<w, t>>
      <3>1. v = w /\ t = 0
        BY <2>3
      <3> QED BY <1>1, <1>3, <3>1
    <2> QED BY <2>2, <2>3
  <1>9. ASSUME NEW v \in Groups, NEW h \in Heads PROVE Counted(v, h)' <=> Counted(v, h)
    <2>1. pc'[<<v, 0>>] \in Inside <=> pc[<<v, 0>>] \in Inside
      BY <1>8 DEF Inside
    <2> QED BY <1>1, <2>1, CountedRests
  <1>10. \A h \in Heads : Counters(h)' = Counters(h)
    BY <1>1, <1>9, SameProblem DEF Counters
  <1>11. ASSUME NEW h \in Heads
         PROVE  counter'[h] \in 0 .. Cardinality(Counters(h)')
                  + (IF pc'[<<h, 0>>] = "start" THEN get_num_partitions(problem', h) ELSE 0)
    <2>1. h \in Groups /\ (is_leader_wg(problem, w) <=> w \in Heads)
      BY <1>2, LeadersAre
    <2>2. counter[h] \in 0 .. Cardinality(Counters(h))
            + (IF pc[<<h, 0>>] = "start" THEN get_num_partitions(problem, h) ELSE 0)
      BY <1>2 DEF CounterInv
    <2>3. Cardinality(Counters(h)) \in Nat /\ get_num_partitions(problem, h) \in Nat
      BY <1>2, CountersAre, WorkersAre
    <2>4. CASE t = 0 /\ h = w
      <3>1. counter'[h] = 0 /\ pc'[<<h, 0>>] = "mainloop"
        BY <1>1, <1>3, <1>4, <2>1, <2>4
      <3> QED BY <1>10, <2>3, <3>1
    <2>5. CASE ~(t = 0 /\ h = w)
      <3>1. counter'[h] = counter[h] /\ pc'[<<h, 0>>] = pc[<<h, 0>>]
        BY <1>1, <1>4, <1>8, <2>1, <2>5
      <3> QED BY <1>1, <1>10, <2>2, <3>1
    <2> QED BY <2>4, <2>5
  <1>12. CounterInv'
    BY <1>1, <1>11, SameProblem DEF CounterInv
  <1>13. "mainloop" \notin Past
    BY DEF Past
  <1> QED BY <1>1, <1>3, <1>6, <1>7, <1>9, <1>12, <1>13, OneMoves

\* A thread goes on at the head it is at, or after its partitions.
LEMMA GoesOn ==
    ASSUME ControlInv, problem' = problem, counter' = counter, loop' = loop,
           early' = early, lost' = lost,
           NEW w \in Groups, NEW t \in Threads, NEW place \in Places, Goto(w, t, place),
           pc[<<w, 0>>] # "start",
           pc[<<w, t>>] # "start", place # "start",
           pc[<<w, t>>] \in Inside <=> place \in Inside,
           place = "count" => t = 0, place \in {"await", "reduce"} => w \in Heads,
           read' = [x \in Everyone |-> read'[x]], read'[<<w, t>>] \in Nat,
           \A x \in Everyone : x # <<w, t>> => read'[x] = read[x],
           acc' \in [Everyone -> Sums], O' \in [Heads -> [Threads -> Sums]],
           partial' = partial,
           \A x \in onTheWay' : x.by \in Everyone /\ x.part \in Sums
    PROVE  /\ ControlInv'
           /\ \A v \in Groups, h \in Heads : Counted(v, h)' <=> Counted(v, h)
  <1>1. problem \in Problems /\ TypesInv /\ ThreadInv(w, t)
    BY DEF ControlInv
  <1>2. /\ pc' = [x \in Everyone |-> pc'[x]] /\ pc'[<<w, t>>] = place
        /\ \A x \in Everyone : x # <<w, t>> => pc'[x] = pc[x]
    BY <1>1, Goes
  <1>3. TypesInv'
    BY <1>1, <1>2, SameProblem DEF TypesInv
  <1>4. ThreadInv(w, t)'
    <2>1. PICK s, p : s = loop[<<w, t>>] /\ p = pc[<<w, t>>]
      OBVIOUS
    <2>2. LoopOf(w, s, p \in Inside)
      BY <1>1, <2>1 DEF ThreadInv
    <2>3. LoopOf(w, s, place \in Inside)
      BY <2>1, <2>2 DEF LoopOf
    <2> QED BY <1>1, <1>2, <2>1, <2>3, ThreadGoes
  <1>5. ASSUME NEW v \in Groups
        PROVE  /\ pc'[<<v, 0>>] = "start" <=> pc[<<v, 0>>] = "start"
               /\ pc'[<<v, 0>>] \in Inside <=> pc[<<v, 0>>] \in Inside
    <2>1. <<v, 0>> \in Everyone
      BY ThreadsAre
    <2>2. CASE <<v, 0>> # <<w, t>>
      BY <1>2, <2>1, <2>2
    <2>3. CASE <<v, 0>> = <<w, t>>
      <3>1. pc'[<<v, 0>>] = place /\ pc[<<v, 0>>] = pc[<<w, t>>]
        BY <1>2, <2>3
      <3> QED BY <3>1
    <2> QED BY <2>2, <2>3
  <1>6. CounterInv' /\ \A v \in Groups, h \in Heads : Counted(v, h)' <=> Counted(v, h)
    BY <1>5, Uncounted
  <1>7. \A x \in Everyone : x # <<w, t>> =>
           pc'[x] = pc[x] /\ loop'[x] = loop[x] /\ read'[x] = read[x]
    BY <1>2
  <1>8. ControlInv'
    BY <1>2, <1>3, <1>4, <1>6, <1>7, OneMoves
  <1> QED BY <1>6, <1>8

LEMMA MainloopControl ==
    ASSUME ControlInv, NEW w \in Groups, NEW t \in Threads, Mainloop(w, t)
    PROVE  /\ ControlInv'
           /\ \A v \in Groups, h \in Heads : Counted(v, h)' <=> Counted(v, h)
  <1>1. /\ problem' = problem /\ loop' = loop /\ partial' = partial /\ onTheWay' = onTheWay
        /\ read' = read /\ counter' = counter /\ O' = O /\ early' = early /\ lost' = lost
        /\ pc[<<w, t>>] = "mainloop" /\ Goto(w, t, "store")
        /\ acc' = [acc EXCEPT ![<<w, t>>] = Blocks(loop[<<w, t>>])]
    BY DEF Mainloop, history
  <1>2. TypesInv /\ ThreadInv(w, t)
    BY DEF ControlInv
  <1>3. acc' \in [Everyone -> Sums]
    <2>1. acc \in [Everyone -> Sums]
      BY <1>2 DEF TypesInv
    <2> QED BY <1>1, <2>1, SumsTyped
  <1>4. /\ read' = [x \in Everyone |-> read'[x]] /\ O' \in [Heads -> [Threads -> Sums]]
        /\ \A x \in onTheWay' : x.by \in Everyone /\ x.part \in Sums
    BY <1>1, <1>2 DEF TypesInv
  <1>5. read'[<<w, t>>] \in Nat
    BY <1>1, <1>2 DEF ThreadInv
  <1>6. "store" \in Places /\ "store" \in Inside /\ "mainloop" \in Inside
    BY DEF Places, Inside
  <1>7. pc[<<w, 0>>] # "start"
    BY ThreadsAre DEF Mainloop
  <1> QED BY <1>1, <1>3, <1>4, <1>5, <1>6, <1>7, GoesOn

LEMMA StoreControl ==
    ASSUME ControlInv, NEW w \in Groups, NEW t \in Threads, Store(w, t)
    PROVE  /\ ControlInv'
           /\ \A v \in Groups, h \in Heads : Counted(v, h)' <=> Counted(v, h)
  <1>1. /\ problem' = problem /\ counter' = counter /\ partial' = partial
        /\ read' = read /\ acc' = acc /\ O' = O /\ early' = early /\ lost' = lost
        /\ pc[<<w, t>>] = "store"
        /\ IF t = 0 THEN Goto(w, t, "count") /\ loop' = loop ELSE Advance(w, t)
    BY DEF Store, history
  <1>2. TypesInv /\ ThreadInv(w, t) /\ problem \in Problems
    BY DEF ControlInv
  <1>3. \A x \in onTheWay' : x.by \in Everyone /\ x.part \in Sums
    <2>1. acc[<<w, t>>] \in Sums /\ <<w, t>> \in Everyone
      BY <1>2, ThreadsAre DEF TypesInv
    <2>2. \A x \in onTheWay : x.by \in Everyone /\ x.part \in Sums
      BY <1>2 DEF TypesInv
    <2> QED BY <2>1, <2>2 DEF Store
  <1>4. /\ read' = [x \in Everyone |-> read'[x]] /\ O' \in [Heads -> [Threads -> Sums]]
        /\ acc' \in [Everyone -> Sums]
    BY <1>1, <1>2 DEF TypesInv
  <1>5. read'[<<w, t>>] \in Nat
    BY <1>1, <1>2 DEF ThreadInv
  <1>a. pc[<<w, 0>>] # "start"
    BY <1>1 DEF ControlInv, BarrierInv, Past
  <1>6. CASE t = 0
    <2>1. "store" \in Inside /\ "count" \in Places /\ "count" \in Inside
      BY DEF Places, Inside
    <2>2. loop' = loop /\ Goto(w, t, "count")
      BY <1>1, <1>6
    <2> QED BY <1>1, <1>3, <1>4, <1>5, <1>6, <1>a, <2>1, <2>2, GoesOn
  <1>7. CASE t # 0
    <2>1. LoopOf(w, loop[<<w, t>>], TRUE)
      <3>1. PICK s : s = loop[<<w, t>>]
        OBVIOUS
      <3>2. LoopOf(w, s, TRUE)
        BY <1>1, <1>2, <3>1 DEF ThreadInv, Inside
      <3> QED BY <3>1, <3>2
    <2>2. Advance(w, t)
      BY <1>1, <1>7
    <2>3. /\ pc' = [x \in Everyone |-> pc'[x]] /\ loop' = [x \in Everyone |-> loop'[x]]
          /\ \A x \in Everyone : x # <<w, t>> => pc'[x] = pc[x] /\ loop'[x] = loop[x]
          /\ \E p, s : /\ p = pc'[<<w, t>>] /\ s = loop'[<<w, t>>]
                       /\ p \in {"mainloop", "await", "done"}
                       /\ p = "await" => w \in Heads
                       /\ LoopOf(w, s, p \in Inside)
      BY <1>2, <2>1, <2>2, Advances
    <2>4. PICK p, s : /\ p = pc'[<<w, t>>] /\ s = loop'[<<w, t>>]
                      /\ p \in {"mainloop", "await", "done"}
                      /\ p = "await" => w \in Heads
                      /\ LoopOf(w, s, p \in Inside)
      BY <2>3
    <2>5. p \in Places
      BY <2>4 DEF Places
    <2>6. ThreadInv(w, t)'
      BY <1>1, <1>5, <2>4, <2>5, ThreadGoes
    <2>7. TypesInv'
      BY <1>1, <1>2, <1>3, <2>3, SameProblem DEF TypesInv
    <2>8. ASSUME NEW v \in Groups
          PROVE  pc'[<<v, 0>>] = pc[<<v, 0>>] /\ loop'[<<v, 0>>] = loop[<<v, 0>>]
      <3>1. <<v, 0>> \in Everyone /\ <<v, 0>> # <<w, t>>
        BY <1>7, ThreadsAre
      <3> QED BY <2>3, <3>1
    <2>9. CounterInv' /\ \A v \in Groups, h \in Heads : Counted(v, h)' <=> Counted(v, h)
      BY <1>1, <2>8, Uncounted
    <2>10. \A x \in Everyone : x # <<w, t>> =>
              pc'[x] = pc[x] /\ loop'[x] = loop[x] /\ read'[x] = read[x]
      BY <1>1, <2>3
    <2>11. ControlInv'
      BY <1>1, <1>a, <2>4, <2>6, <2>7, <2>9, <2>10, OneMoves
    <2> QED BY <2>9, <2>11
  <1> QED BY <1>6, <1>7

\* No thread moves.
LEMMA NobodyMoves ==
    ASSUME ControlInv, problem' = problem, pc' = pc, loop' = loop, read' = read,
           counter' = counter, early' = early, lost' = lost,
           acc' \in [Everyone -> Sums], O' \in [Heads -> [Threads -> Sums]],
           partial' \in [Heads -> [0 .. max_num_partitions - 1 -> [Threads -> Sums]]],
           \A x \in onTheWay' : x.by \in Everyone /\ x.part \in Sums
    PROVE  /\ ControlInv'
           /\ \A v \in Groups, h \in Heads : Counted(v, h)' <=> Counted(v, h)
  <1>1. TypesInv'
    BY SameProblem DEF TypesInv, ControlInv
  <1>2. \A v \in Groups, u \in Threads : ThreadInv(v, u)'
    BY ThreadRests DEF ControlInv
  <1>3. CounterInv' /\ \A v \in Groups, h \in Heads : Counted(v, h)' <=> Counted(v, h)
    BY Uncounted
  <1>4. BarrierInv'
    BY SameProblem DEF ControlInv, BarrierInv, Past
  <1> QED BY <1>1, <1>2, <1>3, <1>4, SameProblem DEF ControlInv

LEMMA LandControl ==
    ASSUME ControlInv, NEW x \in onTheWay, Land(x)
    PROVE  /\ ControlInv'
           /\ \A v \in Groups, h \in Heads : Counted(v, h)' <=> Counted(v, h)
  <1>1. /\ problem' = problem /\ pc' = pc /\ loop' = loop /\ counter' = counter
        /\ read' = read /\ acc' = acc /\ O' = O /\ early' = early /\ lost' = lost
        /\ onTheWay' = onTheWay \ {x} /\ partial' = Landed({x})
    BY DEF Land, history
  <1>2. TypesInv
    BY DEF ControlInv
  <1>3. partial' \in [Heads -> [0 .. max_num_partitions - 1 -> [Threads -> Sums]]]
    BY <1>1, <1>2, LandedIs
  <1>4. /\ acc' \in [Everyone -> Sums] /\ O' \in [Heads -> [Threads -> Sums]]
        /\ \A y \in onTheWay' : y.by \in Everyone /\ y.part \in Sums
    BY <1>1, <1>2 DEF TypesInv
  <1> QED BY <1>1, <1>3, <1>4, NobodyMoves

LEMMA AwaitControl ==
    ASSUME ControlInv, NEW w \in Groups, NEW t \in Threads, Await(w, t)
    PROVE  /\ ControlInv'
           /\ \A v \in Groups, h \in Heads : Counted(v, h)' <=> Counted(v, h)
  <1>1. /\ problem' = problem /\ loop' = loop /\ partial' = partial /\ onTheWay' = onTheWay
        /\ read' = read /\ counter' = counter /\ O' = O /\ early' = early /\ lost' = lost
        /\ pc[<<w, t>>] = "await" /\ Goto(w, t, "reduce")
        /\ acc' = [acc EXCEPT ![<<w, t>>] = Nothing]
    BY DEF Await, history
  <1>2. TypesInv /\ ThreadInv(w, t)
    BY DEF ControlInv
  <1>3. acc' \in [Everyone -> Sums]
    <2>1. acc \in [Everyone -> Sums]
      BY <1>2 DEF TypesInv
    <2> QED BY <1>1, <2>1, SumsTyped
  <1>4. /\ read' = [x \in Everyone |-> read'[x]] /\ O' \in [Heads -> [Threads -> Sums]]
        /\ \A x \in onTheWay' : x.by \in Everyone /\ x.part \in Sums
    BY <1>1, <1>2 DEF TypesInv
  <1>5. read'[<<w, t>>] \in Nat /\ w \in Heads
    BY <1>1, <1>2 DEF ThreadInv
  <1>6. "reduce" \in Places /\ "reduce" \notin Inside /\ "await" \notin Inside
    BY DEF Places, Inside
  <1>7. pc[<<w, 0>>] # "start"
    BY <1>1 DEF ControlInv, BarrierInv, Past
  <1> QED BY <1>1, <1>3, <1>4, <1>5, <1>6, <1>7, GoesOn

LEMMA EpilogueControl ==
    ASSUME ControlInv, NEW w \in Groups, NEW t \in Threads, Epilogue(w, t)
    PROVE  /\ ControlInv'
           /\ \A v \in Groups, h \in Heads : Counted(v, h)' <=> Counted(v, h)
  <1>1. /\ problem' = problem /\ loop' = loop /\ partial' = partial /\ onTheWay' = onTheWay
        /\ read' = read /\ counter' = counter /\ acc' = acc /\ early' = early /\ lost' = lost
        /\ pc[<<w, t>>] = "reduce" /\ Goto(w, t, "done")
        /\ O' = [O EXCEPT ![w][t] = acc[<<w, t>>]]
    BY DEF Epilogue, history
  <1>2. TypesInv /\ ThreadInv(w, t)
    BY DEF ControlInv
  <1>3. O' \in [Heads -> [Threads -> Sums]]
    <2>1. O \in [Heads -> [Threads -> Sums]] /\ acc[<<w, t>>] \in Sums
      BY <1>2, ThreadsAre DEF TypesInv
    <2> QED BY <1>1, <2>1
  <1>4. /\ read' = [x \in Everyone |-> read'[x]] /\ acc' \in [Everyone -> Sums]
        /\ \A x \in onTheWay' : x.by \in Everyone /\ x.part \in Sums
    BY <1>1, <1>2 DEF TypesInv
  <1>5. read'[<<w, t>>] \in Nat
    BY <1>1, <1>2 DEF ThreadInv
  <1>6. "done" \in Places /\ "done" \notin Inside /\ "reduce" \notin Inside
    BY DEF Places, Inside
  <1>7. pc[<<w, 0>>] # "start"
    BY <1>1 DEF ControlInv, BarrierInv, Past
  <1> QED BY <1>1, <1>3, <1>4, <1>5, <1>6, <1>7, GoesOn

LEMMA ReduceControl ==
    ASSUME ControlInv, NEW w \in Groups, NEW t \in Threads, Reduce(w, t)
    PROVE  /\ ControlInv'
           /\ \A v \in Groups, h \in Heads : Counted(v, h)' <=> Counted(v, h)
  <1> DEFINE part == Landed(StoresOf(w, t))[w][read[<<w, t>>]][t]
  <1>1. /\ problem' = problem /\ pc' = pc /\ loop' = loop /\ partial' = partial
        /\ onTheWay' = onTheWay /\ counter' = counter /\ O' = O /\ early' = early /\ lost' = lost
        /\ pc[<<w, t>>] = "reduce" /\ read[<<w, t>>] < get_num_partitions(problem, w)
        /\ acc' = [acc EXCEPT ![<<w, t>>] = Sum(@, part)]
        /\ read' = [read EXCEPT ![<<w, t>>] = @ + 1]
    BY DEF Reduce, history
  <1>2. TypesInv /\ ThreadInv(w, t) /\ problem \in Problems
    BY DEF ControlInv
  <1>3. read[<<w, t>>] \in Nat /\ w \in Heads
    BY <1>1, <1>2 DEF ThreadInv
  <1>4. read[<<w, t>>] \in 0 .. max_num_partitions - 1
    <2>1. get_num_partitions(problem, w) \in Nat /\ get_num_partitions(problem, w) <= max_num_partitions
      BY <1>2, <1>3, WorkersAre
    <2> QED BY <1>1, <1>3, <2>1, PartitionsAssumption
  <1>5. part \in Sums
    <2>1. StoresOf(w, t) \subseteq onTheWay
      BY DEF StoresOf
    <2>2. Landed(StoresOf(w, t)) \in [Heads -> [0 .. max_num_partitions - 1 -> [Threads -> Sums]]]
      BY <1>2, <2>1, LandedIs
    <2>3. Landed(StoresOf(w, t))[w] \in [0 .. max_num_partitions - 1 -> [Threads -> Sums]]
      BY <1>3, <2>2
    <2>4. Landed(StoresOf(w, t))[w][read[<<w, t>>]] \in [Threads -> Sums]
      BY <1>4, <2>3
    <2> QED BY <2>4
  <1> HIDE DEF part
  <1>6. acc' \in [Everyone -> Sums]
    <2>1. acc \in [Everyone -> Sums] /\ acc[<<w, t>>] \in Sums
      BY <1>2, ThreadsAre DEF TypesInv
    <2>2. Sum(acc[<<w, t>>], part) \in Sums
      BY <1>5, <2>1, SumsTyped
    <2>3. acc' = [acc EXCEPT ![<<w, t>>] = Sum(acc[<<w, t>>], part)]
      BY <1>1, Zenon
    <2> QED BY <2>1, <2>2, <2>3
  <1>7. /\ read' = [x \in Everyone |-> read'[x]] /\ read'[<<w, t>>] \in Nat
        /\ \A x \in Everyone : x # <<w, t>> => read'[x] = read[x]
    <2>1. read = [x \in Everyone |-> read[x]] /\ <<w, t>> \in Everyone
      BY <1>2, ThreadsAre DEF TypesInv
    <2>2. read' = [read EXCEPT ![<<w, t>>] = read[<<w, t>>] + 1]
      BY <1>1, Zenon
    <2> QED BY <1>3, <2>1, <2>2
  <1>8. /\ O' \in [Heads -> [Threads -> Sums]]
        /\ \A x \in onTheWay' : x.by \in Everyone /\ x.part \in Sums
    BY <1>1, <1>2 DEF TypesInv
  <1>9. Goto(w, t, "reduce")
    <2>1. pc = [x \in Everyone |-> pc[x]]
      BY <1>2 DEF TypesInv
    <2> QED BY <1>1, <2>1 DEF Goto
  <1>10. "reduce" \in Places
    BY DEF Places
  <1>11. /\ problem' = problem /\ counter' = counter /\ loop' = loop /\ partial' = partial
         /\ early' = early /\ lost' = lost
         /\ pc[<<w, t>>] # "start" /\ (pc[<<w, t>>] \in Inside <=> "reduce" \in Inside)
    BY <1>1
  <1>12. pc[<<w, 0>>] # "start"
    BY <1>1 DEF ControlInv, BarrierInv, Past
  <1> QED BY <1>3, <1>6, <1>7, <1>8, <1>9, <1>10, <1>11, <1>12, GoesOn

\* Counting a partition counts just this one.
LEMMA CountControl ==
    ASSUME ControlInv, NEW w \in Groups, Count(w)
    PROVE  LET g == loop[<<w, 0>>].batch_head_id
           IN  /\ ControlInv'
               /\ g \in Heads /\ Meets(w, g)
               /\ LoopOf(w, loop[<<w, 0>>], TRUE)
               /\ pc'[<<w, 0>>] \in {"mainloop", "await", "done"}
               /\ \A x \in Everyone : x # <<w, 0>> => pc'[x] = pc[x] /\ loop'[x] = loop[x]
               /\ \A v \in Groups, h \in Heads :
                    Counted(v, h)' <=> Counted(v, h) \/ (v = w /\ h = g)
  <1> DEFINE g == loop[<<w, 0>>].batch_head_id
             ordered == IF CountOrders THEN StoresOf(w, 0) ELSE {}
  <1>1. /\ problem' = problem /\ read' = read /\ acc' = acc /\ O' = O
        /\ pc[<<w, 0>>] = "count"
        /\ counter' = [counter EXCEPT ![g] = @ + 1]
        /\ partial' = Landed(ordered) /\ onTheWay' = onTheWay \ ordered
        /\ early' = early \cup {<<g, t>> : t \in MissingParts(w, g)}
        /\ lost' = lost \cup {h \in {g} : pc[<<h, 0>>] = "start"}
        /\ Advance(w, 0)
    BY DEF Count, head
  <1>2. TypesInv /\ problem \in Problems /\ 0 \in Threads /\ <<w, 0>> \in Everyone /\ CounterInv
    BY ThreadsAre DEF ControlInv
  <1>3. ThreadInv(w, 0)
    BY <1>2 DEF ControlInv
  <1>4. LoopOf(w, loop[<<w, 0>>], TRUE)
    <2>1. PICK s : s = loop[<<w, 0>>]
      OBVIOUS
    <2>2. LoopOf(w, s, TRUE)
      BY <1>1, <1>3, <2>1 DEF ThreadInv, Inside
    <2> QED BY <2>1, <2>2
  <1>5. g \in Heads /\ Meets(w, g)
    BY <1>2, <1>4, PartitionIs
  <1>6. /\ pc' = [x \in Everyone |-> pc'[x]] /\ loop' = [x \in Everyone |-> loop'[x]]
        /\ \A x \in Everyone : x # <<w, 0>> => pc'[x] = pc[x] /\ loop'[x] = loop[x]
        /\ \E p, s : /\ p = pc'[<<w, 0>>] /\ s = loop'[<<w, 0>>]
                     /\ p \in {"mainloop", "await", "done"}
                     /\ p = "await" => w \in Heads
                     /\ LoopOf(w, s, p \in Inside)
                     /\ \A h \in Heads : Meets(w, h) =>
                          ((p \in Inside => h < s.batch_head_id) <=> h <= g)
    BY <1>1, <1>2, <1>4, Advances
  <1> HIDE DEF g
  <1>7. PICK p, s : /\ p = pc'[<<w, 0>>] /\ s = loop'[<<w, 0>>]
                    /\ p \in {"mainloop", "await", "done"}
                    /\ p = "await" => w \in Heads
                    /\ LoopOf(w, s, p \in Inside)
                    /\ \A h \in Heads : Meets(w, h) =>
                         ((p \in Inside => h < s.batch_head_id) <=> h <= g)
    BY <1>6
  <1>8. ThreadInv(w, 0)'
    <2>1. p \in Places
      BY <1>7 DEF Places
    <2>2. read'[<<w, 0>>] \in Nat
      BY <1>1, <1>3 DEF ThreadInv
    <2> QED BY <1>1, <1>7, <2>1, <2>2, ThreadGoes
  <1>9. ordered \subseteq onTheWay
    BY DEF StoresOf
  <1>10. counter = [h \in Heads |-> counter[h]]
    BY <1>2 DEF TypesInv
  <1>11. TypesInv'
    <2>1. Landed(ordered) \in [Heads -> [0 .. max_num_partitions - 1 -> [Threads -> Sums]]]
      BY <1>2, <1>9, LandedIs
    <2>2. counter' = [h \in Heads |-> counter'[h]]
      BY <1>1, <1>10
    <2>3. early' \subseteq Heads \X Threads /\ lost' \subseteq Heads
      <3>1. MissingParts(w, g) \subseteq Threads
        BY DEF MissingParts
      <3> QED BY <1>1, <1>2, <1>5, <3>1 DEF TypesInv
    <2> HIDE DEF ordered
    <2> QED BY <1>1, <1>2, <1>6, <2>1, <2>2, <2>3, SameProblem DEF TypesInv
  <1> HIDE DEF ordered
  <1>12. g \in Nat /\ \A h \in Heads : h \in Nat
    BY <1>2, <1>5, HeadTypes
  <1>13. ASSUME NEW v \in Groups, NEW h \in Heads
         PROVE  Counted(v, h)' <=> Counted(v, h) \/ (v = w /\ h = g)
    <2>1. <<v, 0>> \in Everyone
      BY ThreadsAre
    <2>2. CASE v # w
      <3>1. pc'[<<v, 0>>] = pc[<<v, 0>>] /\ loop'[<<v, 0>>] = loop[<<v, 0>>]
        BY <1>6, <2>1, <2>2
      <3> QED BY <1>1, <2>2, <3>1, CountedRests
    <2>3. CASE v = w
      <3>1. Counted(w, h)' <=> Meets(w, h) /\ (p \in Inside => h < s.batch_head_id)
        BY <1>1, <1>7, SameProblem DEF Counted, Inside
      <3>2. Counted(w, h)' <=> Meets(w, h) /\ h <= g
        BY <1>7, <3>1
      <3>3. Counted(w, h) <=> Meets(w, h) /\ h < g
        <4>1. "count" \in Inside
          BY DEF Inside
        <4> QED BY <1>1, <4>1 DEF Counted, g
      <3>4. h <= g <=> h < g \/ h = g
        BY <1>12
      <3> QED BY <1>5, <2>3, <3>2, <3>3, <3>4
    <2> QED BY <2>2, <2>3
  <1>14. Heads' = Heads /\ Groups' = Groups
    BY <1>1, SameProblem
  <1> PICK k \in Heads : k = g
    BY <1>5
  <1>15. ASSUME NEW h \in Heads, h # k PROVE Counters(h)' = Counters(h)
    BY <1>13, <1>14, <1>15 DEF Counters
  <1>16. Counters(k)' = Counters(k) \cup {w} /\ w \notin Counters(k)
    <2>1. ~Counted(w, k)
      <3>1. "count" \in Inside /\ ~(g < g)
        BY <1>12 DEF Inside
      <3> QED BY <1>1, <3>1 DEF Counted, g
    <2>2. \A v \in Groups : Counted(v, k)' <=> Counted(v, k) \/ v = w
      BY <1>5, <1>13
    <2>3. Counters(k)' = {v \in Groups : Counted(v, k)'}
      BY <1>14 DEF Counters
    <2> QED BY <2>1, <2>2, <2>3 DEF Counters
  <1>17. ASSUME NEW h \in Heads
         PROVE  pc'[<<h, 0>>] = "start" <=> pc[<<h, 0>>] = "start"
    <2>1. <<h, 0>> \in Everyone
      BY <1>2, LeadersAre, ThreadsAre
    <2>2. CASE h = w
      BY <1>1, <1>7, <2>2
    <2>3. CASE h # w
      BY <1>6, <2>1, <2>3
    <2> QED BY <2>2, <2>3
  <1>18. ASSUME NEW h \in Heads
         PROVE  counter'[h] \in 0 .. Cardinality(Counters(h)')
                  + (IF pc'[<<h, 0>>] = "start" THEN get_num_partitions(problem', h) ELSE 0)
    <2> DEFINE old == IF pc[<<h, 0>>] = "start" THEN get_num_partitions(problem, h) ELSE 0
    <2>1. counter[h] \in 0 .. Cardinality(Counters(h)) + old
      BY <1>2 DEF CounterInv
    <2>2. (IF pc'[<<h, 0>>] = "start" THEN get_num_partitions(problem', h) ELSE 0) = old
      BY <1>1, <1>17
    <2>3. old \in Nat /\ Cardinality(Counters(h)) \in Nat
      BY <1>2, CountersAre, WorkersAre
    <2> HIDE DEF old
    <2>4. CASE h # k
      <3>1. Counters(h)' = Counters(h) /\ counter'[h] = counter[h]
        BY <1>1, <1>10, <1>15, <2>4
      <3> QED BY <2>1, <2>2, <3>1
    <2>5. CASE h = k
      <3>1. IsFiniteSet(Counters(k))
        BY <1>2, <1>5, CountersAre
      <3>2. Cardinality(Counters(k) \cup {w}) = Cardinality(Counters(k)) + 1
        BY <1>16, <3>1, FS_AddElement
      <3>3. counter'[k] = counter[k] + 1
        BY <1>1, <1>5, <1>10
      <3>4. Cardinality(Counters(k)') = Cardinality(Counters(k)) + 1
        BY <1>16, <3>2
      <3>5. counter[k] \in 0 .. Cardinality(Counters(k)) + old /\ Cardinality(Counters(k)) \in Nat
        BY <2>1, <2>3, <2>5
      <3>6. counter'[k] \in 0 .. Cardinality(Counters(k)') + old
        BY <2>3, <3>3, <3>4, <3>5
      <3> QED BY <2>2, <2>5, <3>6
    <2> QED BY <2>4, <2>5
  <1>19. CounterInv'
    BY <1>14, <1>18 DEF CounterInv
  <1>20. /\ \A x \in Everyone : x # <<w, 0>> =>
              pc'[x] = pc[x] /\ loop'[x] = loop[x] /\ read'[x] = read[x]
         /\ pc'[<<w, 0>>] # "start" /\ pc[<<w, 0>>] # "start"
    BY <1>1, <1>6, <1>7
  <1>21. ControlInv'
    BY <1>1, <1>2, <1>8, <1>11, <1>19, <1>20, OneMoves
  <1> QED BY <1>4, <1>5, <1>6, <1>7, <1>13, <1>21 DEF g

LEMMA NextControl ==
    ASSUME ControlInv, [Next]_vars
    PROVE  ControlInv'
  <1>1. ASSUME NEW w \in Groups, NEW t \in Threads, ThreadStep(w, t)
        PROVE  ControlInv'
    <2>1. CASE Start(w, t)
      BY <2>1, StartControl
    <2>2. CASE Mainloop(w, t)
      BY <2>2, MainloopControl
    <2>3. CASE Store(w, t)
      BY <2>3, StoreControl
    <2>4. CASE Count(w)
      BY <2>4, CountControl
    <2>5. CASE Await(w, t)
      BY <2>5, AwaitControl
    <2>6. CASE Reduce(w, t)
      BY <2>6, ReduceControl
    <2>7. CASE Epilogue(w, t)
      BY <2>7, EpilogueControl
    <2> QED BY <1>1, <2>1, <2>2, <2>3, <2>4, <2>5, <2>6, <2>7 DEF ThreadStep
  <1>2. ASSUME NEW x \in onTheWay, Land(x) PROVE ControlInv'
    BY <1>2, LandControl
  <1>3. CASE UNCHANGED vars
    <2>1. /\ problem' = problem /\ pc' = pc /\ loop' = loop /\ read' = read /\ counter' = counter
          /\ acc' = acc /\ O' = O /\ partial' = partial /\ onTheWay' = onTheWay
          /\ early' = early /\ lost' = lost
      BY <1>3 DEF vars, history
    <2>2. TypesInv
      BY DEF ControlInv
    <2>3. /\ acc' \in [Everyone -> Sums] /\ O' \in [Heads -> [Threads -> Sums]]
          /\ partial' \in [Heads -> [0 .. max_num_partitions - 1 -> [Threads -> Sums]]]
          /\ \A x \in onTheWay' : x.by \in Everyone /\ x.part \in Sums
      BY <2>1, <2>2 DEF TypesInv
    <2> QED BY <2>1, <2>3, NobodyMoves
  <1> QED BY <1>1, <1>2, <1>3 DEF Next, Terminated

\* What the control flow says of the types.
LEMMA ControlTypes == ControlInv => TypeOK
  <1> SUFFICES ASSUME ControlInv PROVE TypeOK
    OBVIOUS
  <1>1. problem \in Problems /\ TypesInv /\ CounterInv
    BY DEF ControlInv
  <1>2. \A w \in Groups, t \in Threads : ThreadInv(w, t)
    BY DEF ControlInv
  <1>3. ASSUME NEW x \in Everyone
        PROVE  /\ pc[x] \in Places
               /\ loop[x].block_budget_remained \in 0 .. num_blocks_per_wg(problem)
    <2>1. PICK w \in Groups, t \in Threads : x = <<w, t>>
      BY DEF Everyone
    <2>2. ThreadInv(w, t)
      BY <1>2
    <2>3. PICK s : s = loop[x]
      OBVIOUS
    <2>4. LoopOf(w, s, pc[x] \in Inside) /\ pc[x] \in Places
      BY <2>1, <2>2, <2>3 DEF ThreadInv
    <2>5. s.block_budget_remained \in 0 .. Share(problem)
      BY <2>4 DEF LoopOf
    <2> QED BY <2>3, <2>4, <2>5 DEF Share
  <1>4. pc \in [Everyone -> Places]
    BY <1>1, <1>3 DEF TypesInv
  <1>5. ASSUME NEW h \in Heads
        PROVE  counter[h] \in 0 .. get_num_partitions(problem, h)
                                     * (IF pc[<<h, 0>>] = "start" THEN 2 ELSE 1)
    <2>1. get_num_partitions(problem, h) \in Nat
      BY <1>1, WorkersAre
    <2>2. /\ Cardinality(Counters(h)) \in Nat
          /\ Cardinality(Counters(h)) <= get_num_partitions(problem, h)
      BY <1>1, CountersAre
    <2>3. counter[h] \in 0 .. Cardinality(Counters(h))
            + (IF pc[<<h, 0>>] = "start" THEN get_num_partitions(problem, h) ELSE 0)
      BY <1>1 DEF CounterInv
    <2>4. CASE pc[<<h, 0>>] = "start"
      BY <2>1, <2>2, <2>3, <2>4
    <2>5. CASE pc[<<h, 0>>] # "start"
      BY <2>1, <2>2, <2>3, <2>5
    <2> QED BY <2>4, <2>5
  <1>6. /\ acc \in [Everyone -> [Terms -> Nat]] /\ O \in [Heads -> [Threads -> [Terms -> Nat]]]
        /\ early \subseteq Heads \X Threads /\ lost \subseteq Heads
    BY <1>1 DEF TypesInv, Sums
  <1> QED BY <1>1, <1>3, <1>4, <1>5, <1>6 DEF TypeOK, Places

\* Every variable keeps to its range.  In particular no counter passes, from its
\* reset on, the number of partitions its leader waits for: each work-group that
\* shares a head counts its one partition of it once; what is counted before the
\* reset, or left by the launch before, at most doubles it until then (TypeOK).
THEOREM ReductionTypesHold == Spec => []TypeOK
  <1>1. Init => ControlInv
    BY InitControl
  <1>2. ControlInv /\ [Next]_vars => ControlInv'
    BY NextControl
  <1>3. ControlInv => TypeOK
    BY ControlTypes
  <1> QED BY <1>1, <1>2, <1>3, PTL DEF Spec

-----------------------------------------------------------------------------
(* Every step keeps the data right (DataInv).                              *)

\* No part looks like what an earlier launch left.
LEMMA PartIsNew ==
    ASSUME problem \in Problems, NEW w, NEW h
    PROVE  PartOf(w, h) # Garbage
  <1>1. problem.local \in Nat \ {0}
    BY ProblemsAssumption
  <1>2. ~Blk(Stale)
    <2> DEFINE n == problem.local
    <2>1. n \in Nat /\ (Blk(Stale) <=> Stale \in 0 .. n - 1)
      BY <1>1 DEF Blk
    <2> HIDE DEF n
    <2> QED BY <2>1 DEF Stale
  <1>3. Stale \in Terms
    BY DEF Terms
  <1>4. PartOf(w, h)[Stale] = 0
    BY <1>2, <1>3 DEF PartOf
  <1>5. Garbage[Stale] = 1
    BY <1>3 DEF Garbage
  <1> QED BY <1>4, <1>5

\* Stores land where the work-groups that share a head meant them, and nowhere
\* else.
LEMMA PartLands ==
    ASSUME ControlInv, StoresInv, NEW S, S \subseteq onTheWay,
           NEW w \in Groups, NEW t \in Threads, NEW h \in Heads, Meets(w, h)
    PROVE  Landed(S)[h][IdOf(w, h)][t] \in {PartOf(w, h), partial[h][IdOf(w, h)][t]}
  <1>1. problem \in Problems /\ TypesInv
    BY DEF ControlInv
  <1>2. \A v \in Groups : v \in Nat
    BY <1>1, Shares DEF Groups
  <1>3. PICK first, num : /\ first \in Nat /\ num \in Nat /\ num <= max_num_partitions
                          /\ \A v \in Nat : Meets(v, h) <=> v \in first .. first + num - 1
                          /\ \A v \in Nat : Meets(v, h) => IdOf(v, h) = v - first
    BY <1>1, WorkersAre
  <1>4. IdOf(w, h) = w - first /\ w - first \in 0 .. max_num_partitions - 1
    BY <1>2, <1>3, PartitionsAssumption
  <1> DEFINE i == IdOf(w, h)
  <1>5. ASSUME NEW x \in S, x.head = h, x.id = i, x.by[2] = t
        PROVE  x.part = PartOf(w, h)
    <2>1. PICK v \in Groups, u \in Threads, g \in Heads : Meets(v, g) /\ x = StoreOf(v, u, g)
      BY DEF StoresInv
    <2>2. g = h /\ x.id = IdOf(v, h) /\ x.part = PartOf(v, h)
      BY <1>5, <2>1 DEF StoreOf
    <2>3. v - first = w - first
      BY <1>2, <1>3, <1>4, <1>5, <2>1, <2>2
    <2>4. v = w
      BY <1>2, <1>3, <2>3
    <2> QED BY <2>2, <2>4
  <1>6. i \in 0 .. max_num_partitions - 1
    BY <1>4
  <1> HIDE DEF i
  <1>7. \/ \E x \in S : /\ x.head = h /\ x.id = i /\ x.by[2] = t
                        /\ Landed(S)[h][i][t] = x.part
        \/ Landed(S)[h][i][t] = partial[h][i][t]
    BY <1>1, <1>6, LandedIs
  <1> QED BY <1>5, <1>7 DEF i

\* Stores land: what was in memory before stays, and nothing else gets there
\* than what was on its way.
LEMMA StoresLand ==
    ASSUME ControlInv, DataInv, problem' = problem, NEW S, S \subseteq onTheWay,
           partial' = Landed(S), onTheWay' = onTheWay \ S
    PROVE  /\ StoresInv' /\ PartialInv'
           /\ \A w \in Groups, t \in Threads, h \in Heads :
                Meets(w, h) /\ partial'[h][IdOf(w, h)][t] = Garbage =>
                    partial[h][IdOf(w, h)][t] = Garbage
  <1>1. StoresInv /\ PartialInv /\ problem \in Problems
    BY DEF DataInv, ControlInv
  <1>2. Groups' = Groups /\ Threads' = Threads /\ Heads' = Heads /\ Garbage' = Garbage
    BY SameProblem
  <1>3. \A w, h : /\ Meets(w, h)' <=> Meets(w, h)
                  /\ PartOf(w, h)' = PartOf(w, h) /\ IdOf(w, h)' = IdOf(w, h)
    BY SameProblem
  <1>4. \A w, t, h : StoreOf(w, t, h)' = StoreOf(w, t, h)
    BY SameProblem
  <1>5. StoresInv'
    <2>1. \A x \in onTheWay' : \E w \in Groups, t \in Threads, h \in Heads :
              Meets(w, h) /\ x = StoreOf(w, t, h)
      BY <1>1 DEF StoresInv
    <2> QED BY <1>2, <1>3, <1>4, <2>1 DEF StoresInv
  <1>6. ASSUME NEW w \in Groups, NEW t \in Threads, NEW h \in Heads, Meets(w, h)
        PROVE  partial'[h][IdOf(w, h)][t] \in {PartOf(w, h), partial[h][IdOf(w, h)][t]}
    <2>1. Landed(S)[h][IdOf(w, h)][t] \in {PartOf(w, h), partial[h][IdOf(w, h)][t]}
      BY <1>1, <1>6, PartLands
    <2> QED BY <2>1
  <1>7. PartialInv'
    <2>1. \A w \in Groups, t \in Threads, h \in Heads :
              Meets(w, h) => partial'[h][IdOf(w, h)][t] \in {Garbage, PartOf(w, h)}
      BY <1>1, <1>6 DEF PartialInv
    <2>2. \A w \in Groups, t \in Threads, h \in Heads :
              Meets(w, h)' => partial'[h][IdOf(w, h)'][t] \in {Garbage', PartOf(w, h)'}
      BY <1>2, <1>3, <2>1
    <2> QED BY <1>2, <2>2 DEF PartialInv
  <1>8. \A w \in Groups, t \in Threads, h \in Heads :
            Meets(w, h) /\ partial'[h][IdOf(w, h)][t] = Garbage =>
                partial[h][IdOf(w, h)][t] = Garbage
    BY <1>1, <1>6, PartIsNew
  <1> QED BY <1>5, <1>7, <1>8

\* A worker or leader that does not move keeps its part of the invariant.
LEMMA WorkerRests ==
    ASSUME problem' = problem, NEW w, NEW t, WorkerInv(w, t),
           pc'[<<w, t>>] = pc[<<w, t>>], loop'[<<w, t>>] = loop[<<w, t>>],
           acc'[<<w, t>>] = acc[<<w, t>>]
    PROVE  WorkerInv(w, t)'
  <1>1. PICK h : h = loop[<<w, t>>].batch_head_id
    OBVIOUS
  <1>2. pc[<<w, t>>] = "store" => acc[<<w, t>>] = PartOf(w, h)
    BY <1>1 DEF WorkerInv
  <1>3. PartOf(w, h)' = PartOf(w, h)
    BY SameProblem
  <1>4. pc'[<<w, t>>] = "store" => acc'[<<w, t>>] = PartOf(w, h)'
    BY <1>2, <1>3
  <1>5. h = loop'[<<w, t>>].batch_head_id
    BY <1>1
  <1> QED BY <1>4, <1>5 DEF WorkerInv

LEMMA LeaderRests ==
    ASSUME problem' = problem, NEW w, NEW t, LeaderInv(w, t),
           pc'[<<w, t>>] = pc[<<w, t>>] \/ {pc[<<w, t>>], pc'[<<w, t>>]} \subseteq Inside \cup {"await"},
           read'[<<w, t>>] = read[<<w, t>>],
           pc'[<<w, t>>] = "reduce" => acc'[<<w, t>>] = acc[<<w, t>>],
           early \subseteq early',
           pc[<<w, t>>] = "reduce" => \A v \in Groups : Counted(v, w) => Counted(v, w)'
    PROVE  LeaderInv(w, t)'
  <1>1. PICK i : i = read[<<w, t>>]
    OBVIOUS
  <1>2. /\ pc[<<w, t>>] \in Inside \cup {"await"} => i = 0
        /\ pc[<<w, t>>] = "reduce" =>
             /\ i <= get_num_partitions(problem, w)
             /\ acc[<<w, t>>] = UpTo(w, i) \/ <<w, t>> \in early
             /\ \A v \in Groups : Meets(v, w) => Counted(v, w)
    BY <1>1 DEF LeaderInv
  <1>3. "reduce" \notin Inside \cup {"await"}
    BY DEF Inside
  <1>4. Inside' = Inside /\ UpTo(w, i)' = UpTo(w, i) /\ Groups' = Groups
        /\ \A v \in Groups : Meets(v, w)' <=> Meets(v, w)
    BY SameProblem DEF Inside
  <1>5. pc'[<<w, t>>] \in Inside \cup {"await"} => i = 0
    BY <1>2
  <1>6. pc'[<<w, t>>] = "reduce" =>
             /\ i <= get_num_partitions(problem', w)
             /\ acc'[<<w, t>>] = UpTo(w, i)' \/ <<w, t>> \in early'
             /\ \A v \in Groups' : Meets(v, w)' => Counted(v, w)'
    BY <1>2, <1>3, <1>4
  <1>7. i = read'[<<w, t>>]
    BY <1>1
  <1> QED BY <1>4, <1>5, <1>6, <1>7 DEF LeaderInv

LEMMA OutputRests ==
    ASSUME problem' = problem, O' = O, early \subseteq early', CombinesEachBlockOnce
    PROVE  CombinesEachBlockOnce'
  BY SameProblem DEF CombinesEachBlockOnce

\* The other threads keep their part of the invariant when one has moved.
LEMMA OthersRest ==
    ASSUME ControlInv, DataInv, problem' = problem, early \subseteq early',
           NEW w \in Groups, NEW t \in Threads,
           \A x \in Everyone : x # <<w, t>> =>
              /\ pc'[x] = pc[x] /\ loop'[x] = loop[x]
              /\ read'[x] = read[x] /\ acc'[x] = acc[x],
           \A v \in Groups, h \in Heads : Counted(v, h) => Counted(v, h)'
    PROVE  \A v \in Groups, u \in Threads : <<v, u>> # <<w, t>> =>
              WorkerInv(v, u)' /\ LeaderInv(v, u)'
  <1> SUFFICES ASSUME NEW v \in Groups, NEW u \in Threads, <<v, u>> # <<w, t>>
               PROVE  WorkerInv(v, u)' /\ LeaderInv(v, u)'
    OBVIOUS
  <1>1. <<v, u>> \in Everyone
    BY ThreadsAre
  <1>2. /\ pc'[<<v, u>>] = pc[<<v, u>>] /\ loop'[<<v, u>>] = loop[<<v, u>>]
        /\ read'[<<v, u>>] = read[<<v, u>>] /\ acc'[<<v, u>>] = acc[<<v, u>>]
    BY <1>1
  <1>3. WorkerInv(v, u) /\ LeaderInv(v, u)
    BY DEF DataInv
  <1>4. pc[<<v, u>>] = "reduce" => v \in Heads
    BY DEF ControlInv, ThreadInv
  <1>5. WorkerInv(v, u)'
    BY <1>2, <1>3, WorkerRests
  <1>6. LeaderInv(v, u)'
    BY <1>2, <1>3, <1>4, LeaderRests
  <1> QED BY <1>5, <1>6

\* A step of one thread that leaves memory alone and counts nothing.
LEMMA OneComputes ==
    ASSUME ControlInv, DataInv, problem' = problem, partial' = partial, early' = early,
           NEW w \in Groups, NEW t \in Threads,
           \A x \in Everyone : x # <<w, t>> =>
              /\ pc'[x] = pc[x] /\ loop'[x] = loop[x]
              /\ read'[x] = read[x] /\ acc'[x] = acc[x],
           \A v \in Groups, h \in Heads : Counted(v, h)' <=> Counted(v, h),
           WorkerInv(w, t)', LeaderInv(w, t)',
           \A x \in onTheWay' :
              x \in onTheWay \/ \E h \in Heads : Meets(w, h) /\ x = StoreOf(w, t, h),
           CombinesEachBlockOnce'
    PROVE  DataInv'
  <1>1. Groups' = Groups /\ Threads' = Threads /\ Heads' = Heads /\ Garbage' = Garbage
    BY SameProblem
  <1>2. \A v, h : /\ Meets(v, h)' <=> Meets(v, h)
                  /\ PartOf(v, h)' = PartOf(v, h) /\ IdOf(v, h)' = IdOf(v, h)
    BY SameProblem
  <1>3. \A v, u, h : StoreOf(v, u, h)' = StoreOf(v, u, h)
    BY SameProblem
  <1>4. StoresInv'
    <2>1. \A x \in onTheWay' : \E v \in Groups, u \in Threads, h \in Heads :
              Meets(v, h) /\ x = StoreOf(v, u, h)
      BY DEF DataInv, StoresInv
    <2> QED BY <1>1, <1>2, <1>3, <2>1 DEF StoresInv
  <1>5. PartialInv'
    <2>1. \A v \in Groups, u \in Threads, h \in Heads :
              Meets(v, h)' => partial'[h][IdOf(v, h)'][u] \in {Garbage', PartOf(v, h)'}
      BY <1>1, <1>2 DEF DataInv, PartialInv
    <2> QED BY <1>1, <2>1 DEF PartialInv
  <1>6. CountedInv'
    <2>1. \A v \in Groups, u \in Threads, h \in Heads :
              Counted(v, h)' /\ partial'[h][IdOf(v, h)'][u] = Garbage' => <<h, u>> \in early'
      BY <1>1, <1>2 DEF DataInv, CountedInv
    <2> QED BY <1>1, <2>1 DEF CountedInv
  <1>7. \A v \in Groups, u \in Threads : WorkerInv(v, u)' /\ LeaderInv(v, u)'
    <2>1. \A v \in Groups, u \in Threads : <<v, u>> # <<w, t>> =>
              WorkerInv(v, u)' /\ LeaderInv(v, u)'
      BY OthersRest
    <2>2. ASSUME NEW v \in Groups, NEW u \in Threads, <<v, u>> = <<w, t>>
          PROVE  WorkerInv(v, u)' /\ LeaderInv(v, u)'
      <3>1. v = w /\ u = t
        BY <2>2
      <3> QED BY <3>1
    <2> QED BY <2>1, <2>2
  <1> QED BY <1>1, <1>4, <1>5, <1>6, <1>7 DEF DataInv

LEMMA StartData ==
    ASSUME ControlInv, DataInv, NEW w \in Groups, NEW t \in Threads, Start(w, t)
    PROVE  DataInv'
  <1>1. /\ problem' = problem /\ loop' = loop /\ partial' = partial /\ onTheWay' = onTheWay
        /\ read' = read /\ acc' = acc /\ O' = O /\ early' = early
        /\ pc[<<w, t>>] = "start" /\ Goto(w, t, "mainloop")
    BY DEF Start, history
  <1>2. /\ pc'[<<w, t>>] = "mainloop"
        /\ \A x \in Everyone : x # <<w, t>> => pc'[x] = pc[x]
    BY <1>1, Goes DEF ControlInv
  <1>3. \A v \in Groups, h \in Heads : Counted(v, h)' <=> Counted(v, h)
    BY StartControl
  <1>4. CombinesEachBlockOnce'
    BY <1>1, OutputRests DEF DataInv
  <1>5. WorkerInv(w, t)'
    BY <1>2 DEF WorkerInv
  <1>6. LeaderInv(w, t)'
    <2>1. "start" \in Inside /\ "mainloop" \in Inside
      BY DEF Inside
    <2> QED BY <1>1, <1>2, <2>1, LeaderRests DEF DataInv
  <1> QED BY <1>1, <1>2, <1>3, <1>4, <1>5, <1>6, OneComputes

LEMMA MainloopData ==
    ASSUME ControlInv, DataInv, NEW w \in Groups, NEW t \in Threads, Mainloop(w, t)
    PROVE  DataInv'
  <1>1. /\ problem' = problem /\ loop' = loop /\ partial' = partial /\ onTheWay' = onTheWay
        /\ read' = read /\ O' = O /\ early' = early
        /\ pc[<<w, t>>] = "mainloop" /\ Goto(w, t, "store")
        /\ acc' = [acc EXCEPT ![<<w, t>>] = Blocks(loop[<<w, t>>])]
    BY DEF Mainloop, history
  <1>2. /\ pc'[<<w, t>>] = "store"
        /\ \A x \in Everyone : x # <<w, t>> => pc'[x] = pc[x]
    BY <1>1, Goes DEF ControlInv
  <1>3. \A v \in Groups, h \in Heads : Counted(v, h)' <=> Counted(v, h)
    BY MainloopControl
  <1>4. CombinesEachBlockOnce'
    BY <1>1, OutputRests DEF DataInv
  <1>5. /\ acc'[<<w, t>>] = Blocks(loop[<<w, t>>])
        /\ \A x \in Everyone : x # <<w, t>> => acc'[x] = acc[x]
    <2>1. acc \in [Everyone -> Sums] /\ <<w, t>> \in Everyone
      BY ThreadsAre DEF ControlInv, TypesInv
    <2> QED BY <1>1, <2>1
  <1>6. "store" \in Inside /\ "mainloop" \in Inside
    BY DEF Inside
  <1>7. LeaderInv(w, t)'
    BY <1>1, <1>2, <1>6, LeaderRests DEF DataInv
  <1>8. WorkerInv(w, t)'
    <2>1. PICK s, h : s = loop[<<w, t>>] /\ h = s.batch_head_id
      OBVIOUS
    <2>2. LoopOf(w, s, TRUE)
      BY <1>1, <1>6, <2>1 DEF ControlInv, ThreadInv
    <2>3. Blocks(s) = PartOf(w, h)
      BY <2>1, <2>2, PartitionIs DEF ControlInv
    <2>4. PartOf(w, h)' = PartOf(w, h)
      BY <1>1, SameProblem
    <2>5. acc'[<<w, t>>] = PartOf(w, h)' /\ h = loop'[<<w, t>>].batch_head_id
      BY <1>1, <1>5, <2>1, <2>3, <2>4
    <2> QED BY <2>5 DEF WorkerInv
  <1> QED BY <1>1, <1>2, <1>3, <1>4, <1>5, <1>7, <1>8, OneComputes

LEMMA StoreData ==
    ASSUME ControlInv, DataInv, NEW w \in Groups, NEW t \in Threads, Store(w, t)
    PROVE  DataInv'
  <1>1. /\ problem' = problem /\ partial' = partial
        /\ read' = read /\ acc' = acc /\ O' = O /\ early' = early
        /\ pc[<<w, t>>] = "store"
        /\ IF t = 0 THEN Goto(w, t, "count") /\ loop' = loop ELSE Advance(w, t)
    BY DEF Store, history
  <1>2. TypesInv /\ ThreadInv(w, t) /\ problem \in Problems
    BY DEF ControlInv
  <1>3. PICK s, h : s = loop[<<w, t>>] /\ h = s.batch_head_id
    OBVIOUS
  <1>4. LoopOf(w, s, TRUE)
    BY <1>1, <1>2, <1>3 DEF ThreadInv, Inside
  <1>5. h \in Heads /\ Meets(w, h)
    BY <1>2, <1>3, <1>4, PartitionIs
  <1>6. onTheWay' = onTheWay \cup {StoreOf(w, t, h)}
    <2>1. acc[<<w, t>>] = PartOf(w, h)
      BY <1>1, <1>3 DEF DataInv, WorkerInv
    <2>2. onTheWay' = onTheWay \cup
            {[by |-> <<w, t>>, head |-> h, id |-> get_partition_id(problem, w, h),
              part |-> acc[<<w, t>>]]}
      BY <1>3 DEF Store, head
    <2> QED BY <2>1, <2>2 DEF StoreOf, IdOf
  <1>7. \A v \in Groups, g \in Heads : Counted(v, g)' <=> Counted(v, g)
    BY StoreControl
  <1>8. CombinesEachBlockOnce'
    BY <1>1, OutputRests DEF DataInv
  <1>9. /\ \A x \in Everyone : x # <<w, t>> => pc'[x] = pc[x] /\ loop'[x] = loop[x]
        /\ pc'[<<w, t>>] \in {"count", "mainloop", "await", "done"}
    <2>1. CASE t = 0
      <3>1. Goto(w, t, "count") /\ loop' = loop
        BY <1>1, <2>1
      <3> QED BY <1>2, <3>1, Goes
    <2>2. CASE t # 0
      <3>1. Advance(w, t) /\ LoopOf(w, loop[<<w, t>>], TRUE)
        BY <1>1, <1>3, <1>4, <2>2
      <3> QED BY <1>2, <3>1, Advances
    <2> QED BY <2>1, <2>2
  <1>10. WorkerInv(w, t)'
    BY <1>9 DEF WorkerInv
  <1>11. LeaderInv(w, t)'
    <2>1. "store" \in Inside
      BY DEF Inside
    <2>2. read'[<<w, t>>] = 0
      BY <1>1, <2>1 DEF DataInv, LeaderInv
    <2> QED BY <1>9, <2>2 DEF LeaderInv
  <1>12. \A x \in onTheWay' :
            x \in onTheWay \/ \E g \in Heads : Meets(w, g) /\ x = StoreOf(w, t, g)
    BY <1>5, <1>6
  <1> QED BY <1>1, <1>7, <1>8, <1>9, <1>10, <1>11, <1>12, OneComputes

\* A thread of a leader goes on to reduce when all partitions of its head are
\* counted: the counter has been reset, as thread 0 is past the start too.
LEMMA AwaitData ==
    ASSUME ControlInv, DataInv, NEW w \in Groups, NEW t \in Threads, Await(w, t)
    PROVE  DataInv'
  <1>1. /\ problem' = problem /\ loop' = loop /\ partial' = partial /\ onTheWay' = onTheWay
        /\ read' = read /\ O' = O /\ early' = early
        /\ pc[<<w, t>>] = "await" /\ Goto(w, t, "reduce")
        /\ counter[w] = get_num_partitions(problem, w)
        /\ acc' = [acc EXCEPT ![<<w, t>>] = Nothing]
    BY DEF Await, history
  <1>2. /\ pc'[<<w, t>>] = "reduce"
        /\ \A x \in Everyone : x # <<w, t>> => pc'[x] = pc[x]
    BY <1>1, Goes DEF ControlInv
  <1>3. \A v \in Groups, h \in Heads : Counted(v, h)' <=> Counted(v, h)
    BY AwaitControl
  <1>4. CombinesEachBlockOnce'
    BY <1>1, OutputRests DEF DataInv
  <1>5. /\ acc'[<<w, t>>] = Nothing
        /\ \A x \in Everyone : x # <<w, t>> => acc'[x] = acc[x]
    <2>1. acc \in [Everyone -> Sums] /\ <<w, t>> \in Everyone
      BY ThreadsAre DEF ControlInv, TypesInv
    <2> QED BY <1>1, <2>1
  <1>6. problem \in Problems /\ w \in Heads /\ CounterInv
    BY <1>1 DEF ControlInv, ThreadInv
  <1>7. \A v \in Groups : Meets(v, w) => Counted(v, w)
    <2>1. pc[<<w, 0>>] # "start"
      BY <1>1 DEF ControlInv, BarrierInv, Past
    <2>2. counter[w] <= Cardinality(Counters(w))
      <3>1. counter[w] \in 0 .. Cardinality(Counters(w))
              + (IF pc[<<w, 0>>] = "start" THEN get_num_partitions(problem, w) ELSE 0)
        BY <1>6 DEF CounterInv
      <3>2. Cardinality(Counters(w)) \in Nat
        BY <1>6, CountersAre
      <3> QED BY <2>1, <3>1, <3>2
    <2>3. get_num_partitions(problem, w) \in Nat
      BY <1>6, WorkersAre
    <2>4. /\ Cardinality(Counters(w)) \in Nat
          /\ Cardinality(Counters(w)) <= get_num_partitions(problem, w)
      BY <1>6, CountersAre
    <2>5. Cardinality(Counters(w)) = get_num_partitions(problem, w)
      BY <1>1, <2>2, <2>3, <2>4
    <2> QED BY <1>6, <2>5, CountersAre
  <1>8. LeaderInv(w, t)'
    <2>1. Nothing = UpTo(w, 0) /\ get_num_partitions(problem, w) \in Nat
      BY <1>6, PartsAdd, WorkersAre
    <2>2. read'[<<w, t>>] = 0
      BY <1>1 DEF DataInv, LeaderInv
    <2>3. UpTo(w, 0)' = UpTo(w, 0) /\ Groups' = Groups
          /\ \A v \in Groups : Meets(v, w)' <=> Meets(v, w)
      BY <1>1, SameProblem
    <2>4. /\ 0 <= get_num_partitions(problem', w)
          /\ acc'[<<w, t>>] = UpTo(w, 0)'
          /\ \A v \in Groups' : Meets(v, w)' => Counted(v, w)'
      BY <1>1, <1>3, <1>5, <1>6, <1>7, <2>1, <2>3
    <2> QED BY <2>2, <2>4 DEF LeaderInv
  <1>9. WorkerInv(w, t)'
    BY <1>2 DEF WorkerInv
  <1> QED BY <1>1, <1>2, <1>3, <1>4, <1>5, <1>8, <1>9, OneComputes

\* A thread of a leader finds its part of the next partition in memory, or it
\* was counted too early.
LEMMA ReduceData ==
    ASSUME ControlInv, DataInv, NEW w \in Groups, NEW t \in Threads, Reduce(w, t)
    PROVE  DataInv'
  <1> DEFINE part == Landed(StoresOf(w, t))[w][read[<<w, t>>]][t]
  <1>1. /\ problem' = problem /\ pc' = pc /\ loop' = loop /\ partial' = partial
        /\ onTheWay' = onTheWay /\ O' = O /\ early' = early
        /\ pc[<<w, t>>] = "reduce" /\ read[<<w, t>>] < get_num_partitions(problem, w)
        /\ acc' = [acc EXCEPT ![<<w, t>>] = Sum(@, part)]
        /\ read' = [read EXCEPT ![<<w, t>>] = @ + 1]
    BY DEF Reduce, history
  <1>2. \A v \in Groups, h \in Heads : Counted(v, h)' <=> Counted(v, h)
    BY ReduceControl
  <1>3. CombinesEachBlockOnce'
    BY <1>1, OutputRests DEF DataInv
  <1>4. /\ acc'[<<w, t>>] = Sum(acc[<<w, t>>], part) /\ read'[<<w, t>>] = read[<<w, t>>] + 1
        /\ \A x \in Everyone : x # <<w, t>> => acc'[x] = acc[x] /\ read'[x] = read[x]
    <2>1. /\ acc \in [Everyone -> Sums] /\ <<w, t>> \in Everyone
          /\ read = [x \in Everyone |-> read[x]]
      BY ThreadsAre DEF ControlInv, TypesInv
    <2> HIDE DEF part
    <2> QED BY <1>1, <2>1
  <1>5. PICK i : i = read[<<w, t>>]
    OBVIOUS
  <1>6. /\ problem \in Problems /\ w \in Heads /\ i \in Nat
        /\ i < get_num_partitions(problem, w)
    BY <1>1, <1>5 DEF ControlInv, ThreadInv
  <1>7. /\ acc[<<w, t>>] = UpTo(w, i) \/ <<w, t>> \in early
        /\ \A v \in Groups : Meets(v, w) => Counted(v, w)
    BY <1>1, <1>5 DEF DataInv, LeaderInv
  <1>8. PICK first, num : /\ first = FirstOf(problem, w) /\ num = get_num_partitions(problem, w)
                          /\ first \in Nat /\ num \in Nat
                          /\ \A v \in Nat : Meets(v, w) <=> v \in first .. first + num - 1
                          /\ \A v \in Nat : Meets(v, w) => v \in Groups /\ IdOf(v, w) = v - first
    BY <1>6, WorkersAre
  <1>9. PICK v \in Nat : v = first + i
    BY <1>6, <1>8
  <1>10. Meets(v, w) /\ v \in Groups /\ IdOf(v, w) = i
    <2>1. v \in first .. first + num - 1
      BY <1>6, <1>8, <1>9
    <2>2. Meets(v, w)
      BY <1>8, <2>1
    <2>3. v \in Groups /\ IdOf(v, w) = v - first
      BY <1>8, <2>2
    <2> QED BY <1>6, <1>8, <1>9, <2>2, <2>3
  <1>11. part = PartOf(v, w) \/ <<w, t>> \in early
    <2>1. StoresOf(w, t) \subseteq onTheWay
      BY DEF StoresOf
    <2>2. StoresInv /\ PartialInv /\ CountedInv
      BY DEF DataInv
    <2>3. Landed(StoresOf(w, t))[w][IdOf(v, w)][t] \in {PartOf(v, w), partial[w][IdOf(v, w)][t]}
      BY <1>6, <1>10, <2>1, <2>2, PartLands
    <2>4. partial[w][IdOf(v, w)][t] \in {Garbage, PartOf(v, w)}
      BY <1>6, <1>10, <2>2 DEF PartialInv
    <2>5. partial[w][IdOf(v, w)][t] = Garbage => <<w, t>> \in early
      BY <1>6, <1>7, <1>10, <2>2 DEF CountedInv
    <2> QED BY <1>5, <1>10, <2>3, <2>4, <2>5
  <1> HIDE DEF part
  <1>12. Sum(UpTo(w, i), PartOf(v, w)) = UpTo(w, i + 1)
    BY <1>6, <1>8, <1>9, PartsAdd
  <1>13. PICK k \in Nat : k = i + 1 /\ k <= get_num_partitions(problem, w)
    BY <1>6, <1>8
  <1>14. acc'[<<w, t>>] = UpTo(w, k) \/ <<w, t>> \in early
    BY <1>4, <1>7, <1>11, <1>12, <1>13
  <1>15. LeaderInv(w, t)'
    <2>1. UpTo(w, k)' = UpTo(w, k) /\ Groups' = Groups
          /\ \A u \in Groups : Meets(u, w)' <=> Meets(u, w)
      BY <1>1, SameProblem
    <2>2. /\ k = read'[<<w, t>>] /\ k <= get_num_partitions(problem', w)
          /\ acc'[<<w, t>>] = UpTo(w, k)' \/ <<w, t>> \in early'
          /\ \A u \in Groups' : Meets(u, w)' => Counted(u, w)'
      BY <1>1, <1>2, <1>4, <1>5, <1>6, <1>7, <1>13, <1>14, <2>1
    <2>3. "reduce" \notin Inside \cup {"await"} /\ Inside' = Inside
      BY DEF Inside
    <2> QED BY <1>1, <2>2, <2>3 DEF LeaderInv
  <1>16. WorkerInv(w, t)'
    BY <1>1 DEF WorkerInv
  <1>17. \A x \in Everyone : x # <<w, t>> =>
             /\ pc'[x] = pc[x] /\ loop'[x] = loop[x]
             /\ read'[x] = read[x] /\ acc'[x] = acc[x]
    BY <1>1, <1>4
  <1>18. problem' = problem /\ partial' = partial /\ early' = early /\ onTheWay' = onTheWay
    BY <1>1
  <1> QED BY <1>2, <1>3, <1>15, <1>16, <1>17, <1>18, OneComputes

\* What a thread of a leader writes is the whole head, unless a part of it was
\* counted too early.
LEMMA EpilogueData ==
    ASSUME ControlInv, DataInv, NEW w \in Groups, NEW t \in Threads, Epilogue(w, t)
    PROVE  DataInv'
  <1>1. /\ problem' = problem /\ loop' = loop /\ partial' = partial /\ onTheWay' = onTheWay
        /\ read' = read /\ acc' = acc /\ early' = early
        /\ pc[<<w, t>>] = "reduce" /\ Goto(w, t, "done")
        /\ read[<<w, t>>] = get_num_partitions(problem, w)
        /\ O' = [O EXCEPT ![w][t] = acc[<<w, t>>]]
    BY DEF Epilogue, history
  <1>2. /\ pc'[<<w, t>>] = "done"
        /\ \A x \in Everyone : x # <<w, t>> => pc'[x] = pc[x]
    BY <1>1, Goes DEF ControlInv
  <1>3. \A v \in Groups, h \in Heads : Counted(v, h)' <=> Counted(v, h)
    BY EpilogueControl
  <1>4. problem \in Problems /\ O \in [Heads -> [Threads -> Sums]] /\ w \in Heads
    BY <1>1 DEF ControlInv, TypesInv, ThreadInv
  <1>5. acc[<<w, t>>] = AllBlocks \/ <<w, t>> \in early
    <2>1. PICK i : i = read[<<w, t>>]
      OBVIOUS
    <2>2. acc[<<w, t>>] = UpTo(w, i) \/ <<w, t>> \in early
      BY <1>1, <2>1 DEF DataInv, LeaderInv
    <2>3. UpTo(w, get_num_partitions(problem, w)) = AllBlocks
      BY <1>4, PartsAdd
    <2> QED BY <1>1, <2>1, <2>2, <2>3
  <1>6. ASSUME NEW h \in Heads, NEW u \in Threads
        PROVE  O'[h][u] \in {Nothing, AllBlocks} \/ <<h, u>> \in early
    <2>1. O[h][u] \in {Nothing, AllBlocks} \/ <<h, u>> \in early
      BY DEF DataInv, CombinesEachBlockOnce
    <2>2. CASE h = w /\ u = t
      <3>1. O'[h][u] = acc[<<w, t>>]
        BY <1>1, <1>4, <2>2
      <3> QED BY <1>5, <2>2, <3>1
    <2>3. CASE ~(h = w /\ u = t)
      <3>1. O'[h][u] = O[h][u]
        BY <1>1, <1>4, <2>3
      <3> QED BY <2>1, <3>1
    <2> QED BY <2>2, <2>3
  <1>7. CombinesEachBlockOnce'
    BY <1>1, <1>6, SameProblem DEF CombinesEachBlockOnce
  <1>8. WorkerInv(w, t)' /\ LeaderInv(w, t)'
    BY <1>2 DEF WorkerInv, LeaderInv, Inside
  <1> QED BY <1>1, <1>2, <1>3, <1>7, <1>8, OneComputes

LEMMA LandData ==
    ASSUME ControlInv, DataInv, NEW x \in onTheWay, Land(x)
    PROVE  DataInv'
  <1>1. /\ problem' = problem /\ pc' = pc /\ loop' = loop /\ read' = read /\ acc' = acc
        /\ O' = O /\ early' = early
        /\ onTheWay' = onTheWay \ {x} /\ partial' = Landed({x})
    BY DEF Land, history
  <1>2. \A v \in Groups, h \in Heads : Counted(v, h)' <=> Counted(v, h)
    BY LandControl
  <1>3. /\ StoresInv' /\ PartialInv'
        /\ \A w \in Groups, t \in Threads, h \in Heads :
             Meets(w, h) /\ partial'[h][IdOf(w, h)][t] = Garbage =>
                 partial[h][IdOf(w, h)][t] = Garbage
    <2>1. PICK S : S = {x}
      OBVIOUS
    <2>2. S \subseteq onTheWay /\ partial' = Landed(S) /\ onTheWay' = onTheWay \ S
      BY <1>1, <2>1
    <2> QED BY <1>1, <2>2, StoresLand
  <1>4. /\ Groups' = Groups /\ Threads' = Threads /\ Heads' = Heads /\ Garbage' = Garbage
        /\ \A w, h : IdOf(w, h)' = IdOf(w, h)
    BY <1>1, SameProblem
  <1>5. CountedInv'
    <2>1. \A w \in Groups, t \in Threads, h \in Heads :
              Counted(w, h)' /\ partial'[h][IdOf(w, h)][t] = Garbage => <<h, t>> \in early
      BY <1>2, <1>3 DEF DataInv, CountedInv, Counted
    <2>2. \A w \in Groups, t \in Threads, h \in Heads :
              Counted(w, h)' /\ partial'[h][IdOf(w, h)'][t] = Garbage' => <<h, t>> \in early'
      BY <1>1, <1>4, <2>1
    <2> QED BY <1>4, <2>2 DEF CountedInv
  <1>6. ASSUME NEW w \in Groups, NEW t \in Threads
        PROVE  WorkerInv(w, t)' /\ LeaderInv(w, t)'
    <2>1. WorkerInv(w, t) /\ LeaderInv(w, t)
      BY DEF DataInv
    <2>2. pc[<<w, t>>] = "reduce" => w \in Heads
      BY DEF ControlInv, ThreadInv
    <2> QED BY <1>1, <1>2, <2>1, <2>2, WorkerRests, LeaderRests
  <1>7. CombinesEachBlockOnce'
    BY <1>1, OutputRests DEF DataInv
  <1> QED BY <1>3, <1>4, <1>5, <1>6, <1>7 DEF DataInv

\* Counting a partition: a part of it that is not in memory is on record.
LEMMA CountData ==
    ASSUME ControlInv, DataInv, NEW w \in Groups, Count(w)
    PROVE  DataInv'
  <1> PICK s, g : s = loop[<<w, 0>>] /\ g = s.batch_head_id
    OBVIOUS
  <1> DEFINE ordered == IF CountOrders THEN StoresOf(w, 0) ELSE {}
  <1>1. /\ problem' = problem /\ read' = read /\ acc' = acc /\ O' = O
        /\ pc[<<w, 0>>] = "count"
        /\ partial' = Landed(ordered) /\ onTheWay' = onTheWay \ ordered
        /\ early' = early \cup {<<g, t>> : t \in MissingParts(w, g)}
    BY DEF Count, head
  <1>2. /\ g \in Heads /\ Meets(w, g)
        /\ pc'[<<w, 0>>] \in {"mainloop", "await", "done"}
        /\ \A x \in Everyone : x # <<w, 0>> => pc'[x] = pc[x] /\ loop'[x] = loop[x]
        /\ \A v \in Groups, h \in Heads :
             Counted(v, h)' <=> Counted(v, h) \/ (v = w /\ h = g)
    BY CountControl
  <1>3. /\ Groups' = Groups /\ Threads' = Threads /\ Heads' = Heads /\ Garbage' = Garbage
        /\ \A v, h : IdOf(v, h)' = IdOf(v, h)
    BY <1>1, SameProblem
  <1>4. 0 \in Threads /\ early \subseteq early'
    BY <1>1, ThreadsAre
  <1>5. /\ StoresInv' /\ PartialInv'
        /\ \A v \in Groups, t \in Threads, h \in Heads :
             Meets(v, h) /\ partial'[h][IdOf(v, h)][t] = Garbage =>
                 partial[h][IdOf(v, h)][t] = Garbage
    <2>1. ordered \subseteq onTheWay
      BY DEF StoresOf
    <2> HIDE DEF ordered
    <2> QED BY <1>1, <2>1, StoresLand
  <1> HIDE DEF ordered
  <1>6. CountedInv'
    <2>1. ASSUME NEW v \in Groups, NEW t \in Threads, NEW h \in Heads,
                 Counted(v, h)', partial'[h][IdOf(v, h)][t] = Garbage
          PROVE  <<h, t>> \in early'
      <3>1. CASE Counted(v, h)
        <4>1. partial[h][IdOf(v, h)][t] = Garbage
          BY <1>5, <2>1, <3>1 DEF Counted
        <4> QED BY <1>4, <3>1, <4>1 DEF DataInv, CountedInv
      <3>2. CASE v = w /\ h = g
        <4>1. t \in MissingParts(w, g)
          BY <2>1, <3>2 DEF MissingParts, IdOf
        <4> QED BY <1>1, <3>2, <4>1
      <3> QED BY <1>2, <2>1, <3>1, <3>2
    <2>2. \A v \in Groups, t \in Threads, h \in Heads :
              Counted(v, h)' /\ partial'[h][IdOf(v, h)'][t] = Garbage' => <<h, t>> \in early'
      BY <1>3, <2>1
    <2> QED BY <1>3, <2>2 DEF CountedInv
  <1>7. \A v \in Groups, t \in Threads : WorkerInv(v, t)' /\ LeaderInv(v, t)'
    <2>1. \A x \in Everyone : x # <<w, 0>> =>
              /\ pc'[x] = pc[x] /\ loop'[x] = loop[x]
              /\ read'[x] = read[x] /\ acc'[x] = acc[x]
      BY <1>1, <1>2
    <2>2. \A v \in Groups, h \in Heads : Counted(v, h) => Counted(v, h)'
      BY <1>2
    <2>3. \A v \in Groups, t \in Threads : <<v, t>> # <<w, 0>> =>
              WorkerInv(v, t)' /\ LeaderInv(v, t)'
      BY <1>1, <1>4, <2>1, <2>2, OthersRest
    <2>4. WorkerInv(w, 0)'
      BY <1>2 DEF WorkerInv
    <2>5. LeaderInv(w, 0)'
      <3>1. "count" \in Inside
        BY DEF Inside
      <3>2. read'[<<w, 0>>] = 0
        BY <1>1, <1>4, <3>1 DEF DataInv, LeaderInv
      <3> QED BY <1>2, <3>2 DEF LeaderInv
    <2>6. ASSUME NEW v \in Groups, NEW t \in Threads, <<v, t>> = <<w, 0>>
          PROVE  WorkerInv(v, t)' /\ LeaderInv(v, t)'
      <3>1. v = w /\ t = 0
        BY <2>6
      <3> QED BY <2>4, <2>5, <3>1
    <2> QED BY <2>3, <2>6
  <1>8. CombinesEachBlockOnce'
    BY <1>1, <1>4, OutputRests DEF DataInv
  <1> QED BY <1>3, <1>5, <1>6, <1>7, <1>8 DEF DataInv

LEMMA InitData == Init => DataInv
  <1> SUFFICES ASSUME Init PROVE DataInv
    OBVIOUS
  <1>1. problem \in Problems
    BY DEF Init
  <1>2. \A w \in Groups, t \in Threads :
            /\ pc[<<w, t>>] = "start" /\ read[<<w, t>>] = 0
            /\ loop[<<w, t>>] = StartOfLoop(problem, w)
    BY ThreadsAre DEF Init
  <1>3. \A w \in Groups, t \in Threads : WorkerInv(w, t) /\ LeaderInv(w, t)
    BY <1>2 DEF WorkerInv, LeaderInv
  <1>4. StoresInv
    BY DEF Init, StoresInv
  <1>5. PartialInv
    <2>1. ASSUME NEW w \in Groups, NEW t \in Threads, NEW h \in Heads, Meets(w, h)
          PROVE  partial[h][IdOf(w, h)][t] = Garbage
      <3>1. w \in Nat
        BY <1>1, Shares DEF Groups
      <3>2. IdOf(w, h) \in 0 .. max_num_partitions - 1
        BY <1>1, <2>1, <3>1, WorkersAre, PartitionsAssumption
      <3> QED BY <3>2 DEF Init
    <2> QED BY <2>1 DEF PartialInv
  <1>6. CountedInv
    <2>1. ASSUME NEW w \in Groups, NEW h \in Heads, Counted(w, h) PROVE FALSE
      <3>1. 0 \in Threads
        BY <1>1, ThreadsAre
      <3>2. pc[<<w, 0>>] = "start" /\ loop[<<w, 0>>] = StartOfLoop(problem, w)
        BY <1>2, <3>1
      <3>3. ~(h < loop[<<w, 0>>].batch_head_id)
        BY <1>1, <2>1, <3>2, StartIs DEF Counted
      <3> QED BY <2>1, <3>2, <3>3 DEF Counted, Inside
    <2> QED BY <2>1 DEF CountedInv
  <1>7. CombinesEachBlockOnce
    BY DEF Init, CombinesEachBlockOnce
  <1> QED BY <1>3, <1>4, <1>5, <1>6, <1>7 DEF DataInv

LEMMA NextData ==
    ASSUME ControlInv, DataInv, [Next]_vars
    PROVE  DataInv'
  <1>1. ASSUME NEW w \in Groups, NEW t \in Threads, ThreadStep(w, t)
        PROVE  DataInv'
    <2>1. CASE Start(w, t)
      BY <2>1, StartData
    <2>2. CASE Mainloop(w, t)
      BY <2>2, MainloopData
    <2>3. CASE Store(w, t)
      BY <2>3, StoreData
    <2>4. CASE Count(w)
      BY <2>4, CountData
    <2>5. CASE Await(w, t)
      BY <2>5, AwaitData
    <2>6. CASE Reduce(w, t)
      BY <2>6, ReduceData
    <2>7. CASE Epilogue(w, t)
      BY <2>7, EpilogueData
    <2> QED BY <1>1, <2>1, <2>2, <2>3, <2>4, <2>5, <2>6, <2>7 DEF ThreadStep
  <1>2. ASSUME NEW x \in onTheWay, Land(x) PROVE DataInv'
    BY <1>2, LandData
  <1>3. CASE UNCHANGED vars
    <2>1. /\ problem' = problem /\ pc' = pc /\ loop' = loop /\ read' = read /\ acc' = acc
          /\ O' = O /\ partial' = partial /\ onTheWay' = onTheWay /\ early' = early
      BY <1>3 DEF vars, history
    <2>2. /\ Groups' = Groups /\ Threads' = Threads /\ Heads' = Heads /\ Garbage' = Garbage
          /\ \A w, h : /\ Meets(w, h)' <=> Meets(w, h)
                       /\ PartOf(w, h)' = PartOf(w, h) /\ IdOf(w, h)' = IdOf(w, h)
      BY <2>1, SameProblem
    <2>3. \A w, t, h : StoreOf(w, t, h)' = StoreOf(w, t, h)
      BY <2>1, SameProblem
    <2>4. \A w \in Groups, h \in Heads : Counted(w, h)' <=> Counted(w, h)
      BY <2>1, CountedRests
    <2>5. StoresInv' /\ PartialInv' /\ CountedInv'
      BY <2>1, <2>2, <2>3, <2>4 DEF DataInv, StoresInv, PartialInv, CountedInv
    <2>6. ASSUME NEW w \in Groups, NEW t \in Threads
          PROVE  WorkerInv(w, t)' /\ LeaderInv(w, t)'
      <3>1. WorkerInv(w, t) /\ LeaderInv(w, t)
        BY DEF DataInv
      <3>2. pc[<<w, t>>] = "reduce" => w \in Heads
        BY DEF ControlInv, ThreadInv
      <3> QED BY <2>1, <2>4, <3>1, <3>2, WorkerRests, LeaderRests
    <2>7. CombinesEachBlockOnce'
      BY <2>1, OutputRests DEF DataInv
    <2> QED BY <2>2, <2>5, <2>6, <2>7 DEF DataInv
  <1> QED BY <1>1, <1>2, <1>3 DEF Next, Terminated

\* A thread of a leader writes its part of a head only as the combination of each
\* of the head's KV blocks exactly once, for every problem, grid and number of
\* threads, on a first and on a later launch; the one exception is a part that was
\* counted before it was in memory (CombinesEachBlockOnce).  In particular a reset
\* that comes after a count never makes a leader combine too early.
THEOREM EachBlockCombinedOnce == Spec => []CombinesEachBlockOnce
  <1>1. Init => ControlInv /\ DataInv
    BY InitControl, InitData
  <1>2. ControlInv /\ DataInv /\ [Next]_vars => (ControlInv /\ DataInv)'
    BY NextControl, NextData
  <1>3. ControlInv /\ DataInv => CombinesEachBlockOnce
    BY DEF DataInv
  <1> QED BY <1>1, <1>2, <1>3, PTL DEF Spec
=============================================================================
