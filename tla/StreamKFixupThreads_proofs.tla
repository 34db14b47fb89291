----------------------- MODULE StreamKFixupThreads_proofs -----------------------
(***************************************************************************)
(* Proofs about the fixup with its threads and its late writes, for every  *)
(* partition of the k extent and every number of threads.                  *)
(*                                                                         *)
(* The invariant comes in two parts: ControlInv, who is where when, and    *)
(* DataInv, what is pending and what the slot, the sums and the tile hold. *)
(* Nothing is assumed of the work-group barrier: where it does not order   *)
(* memory, a write may be pending when thread 0 has signalled, and the     *)
(* stripe it belongs to, overtaken from then on, may hold anything.        *)
(***************************************************************************)
EXTENDS StreamKFixupThreads, TLAPS

\* Splits are ordered like their k extents: nothing lies inside a split, and
\* there is one final split, with every other before it.
LEMMA SplitOrder ==
    ASSUME NEW p \in Splits
    PROVE  /\ p \in Nat /\ k_tile_count[p] \in Nat /\ p + k_tile_count[p] > p
           /\ is_final_split(p) => \A q \in Splits : q <= p
           /\ ~is_final_split(p) => p + k_tile_count[p] \in Splits
           /\ \A q \in Splits : q < p + k_tile_count[p] <=> q <= p
           /\ ~requires_fixup(p) => p = 0 /\ is_final_split(p)
           /\ is_final_split(p) /\ requires_fixup(p) => p # 0
  BY SplitsAssumption DEF is_final_split, requires_fixup

\* Before the slot is touched, before it is written, and after.
Waiting == {"mainloop", "spin", "wait_sync"}
Unissued == Waiting \cup {"access"}
Issued == {"arrive_sync", "signal", "done"}

\* The flag is at a split, with the work-groups of earlier splits through
\* their barrier, and those of later splits held by the one of wait_eq, where
\* thread 0 is still missing.
FlagInv ==
    /\ flag \in Splits
    /\ \A p \in Splits, t \in Threads :
          /\ p < flag => pc[p][t] \in {"arrive_sync", "done"} /\ pc[p][0] = "done"
          /\ p > flag => pc[p][t] \in Waiting /\ pc[p][0] # "wait_sync"

\* Who can be where.
LocationInv ==
    \A p \in Splits, t \in Threads :
        /\ pc[p][t] \in {"spin", "signal"} => t = 0
        /\ pc[p][t] \in {"spin", "wait_sync"} => p # 0
        /\ pc[p][t] \in {"arrive_sync", "signal"} => ~is_final_split(p)
        /\ pc[p][t] = "epilogue" => is_final_split(p)

\* A thread that left the barrier of arrive_inc left nobody behind who could
\* still write.
BarrierInv ==
    \A p \in Splits, t, u \in Threads :
        ~is_final_split(p) /\ pc[p][t] \in {"signal", "done"} => pc[p][u] \notin Unissued

ControlInv == TypeOK /\ FlagInv /\ LocationInv /\ BarrierInv

\* A pending write was issued, by the work-group whose turn it is or, when
\* the flag has overtaken it, by an earlier one.
PendingInv ==
    \A p \in Splits, t \in Threads :
        <<p, t>> \in pending =>
            /\ ~is_final_split(p)
            /\ pc[p][t] \in Issued
            /\ p # flag => t \notin Released /\ t \in overtaken

\* The write of thread t of split p is in the slot.
HasLanded(p, t) ==
    /\ ~is_final_split(p)
    /\ pc[p][t] \in Issued
    /\ <<p, t>> \notin pending

\* Once the first split has landed in a stripe, the stripe holds what landed.
SlotInv ==
    \A t \in Threads :
        HasLanded(0, t) /\ t \notin overtaken =>
            slot[t] = [q \in Splits |-> IF HasLanded(q, t) THEN 1 ELSE 0]

\* A value for the stripe t: complete, unless a write to it came too late.
Good(t, x) == x # Unwritten /\ (t \notin overtaken => x = Complete)

\* What the epilogue stores, and whether it has.
SumInv == \A p \in Splits, t \in Threads : pc[p][t] = "epilogue" => Good(t, sum[t])

OutputInv ==
    \A t \in Threads :
        IF is_final_split(flag) /\ pc[flag][t] = "done" THEN Good(t, D[t])
                                                        ELSE D[t] = Unwritten

DataInv == PendingInv /\ SlotInv /\ SumInv /\ OutputInv

\* The inductive invariant.
IInv == ControlInv /\ DataInv

-----------------------------------------------------------------------------
LEMMA Zero ==
    /\ 0 \in Threads
    /\ 0 \in Splits
    /\ \A p \in Splits : p \in Nat
    /\ \A p \in Splits : is_final_split(p) => p # 0
  <1>1. 0 \in Threads /\ 0 \in Splits
    BY ThreadsAssumption, SplitsAssumption DEF Threads
  <1>2. \A p \in Splits : p \in Nat
    BY SplitOrder
  <1>3. ~is_final_split(0)
    <2>1. PICK q \in Splits : q # 0
      BY <1>1, ThreadsAssumption
    <2> QED BY <1>1, <1>2, <2>1, SplitOrder
  <1> QED BY <1>1, <1>2, <1>3

\* A step moves one thread.
LEMMA Moves ==
    ASSUME TypeOK, NEW p \in Splits, NEW t \in Threads, NEW place, Goto(p, t, place)
    PROVE  \A q \in Splits, u \in Threads :
              pc'[q][u] = IF q = p /\ u = t THEN place ELSE pc[q][u]
  BY DEF TypeOK, Goto

LEMMA SumsClosed ==
    /\ \A p \in Splits : Only(p) \in Sums
    /\ \A a, b \in Sums : Add(a, b) \in Sums
    /\ Unwritten \in Sums /\ Complete \in Sums
  BY DEF Only, Add, Sums, Unwritten, Complete

LEMMA InitIInv == Init => IInv
  <1> SUFFICES ASSUME Init PROVE ControlInv /\ DataInv
    BY DEF IInv
  <1> USE Zero DEF Init
  <1>1. TypeOK
    BY SumsClosed, SplitsAssumption DEF TypeOK
  <1>2. \A p \in Splits, t \in Threads : pc[p][t] = "mainloop"
    OBVIOUS
  <1>3. FlagInv
    BY <1>2 DEF FlagInv, Waiting
  <1>4. LocationInv /\ BarrierInv
    BY <1>2 DEF LocationInv, BarrierInv
  <1>5. PendingInv /\ SlotInv /\ SumInv /\ OutputInv
    BY <1>2 DEF PendingInv, SlotInv, HasLanded, Issued, SumInv, OutputInv
  <1> QED BY <1>1, <1>3, <1>4, <1>5 DEF ControlInv, DataInv

-----------------------------------------------------------------------------
\* The control part.

\* Only the work-group whose turn it is can access the slot, be at its signal
\* or in its epilogue.
LEMMA Turn ==
    ASSUME ControlInv, NEW p \in Splits, NEW t \in Threads,
           pc[p][t] \in {"access", "signal", "epilogue"}
    PROVE  p = flag
  BY Zero DEF ControlInv, FlagInv, Waiting

\* Every step keeps the types: a signal comes from a split that is not the
\* final one, so the flag goes to the start of the next split.
LEMMA StepType ==
    ASSUME ControlInv, NEW p \in Splits, NEW t \in Threads, ThreadStep(p, t) \/ Land(p, t)
    PROVE  TypeOK'
  <1> USE Zero, SumsClosed DEF ControlInv, TypeOK, Goto
  <1>1. \A u \in Threads : Landed(p, u) \in Sums
    BY DEF Landed
  <1>2. CASE Mainloop(p, t)
    BY <1>2 DEF Mainloop
  <1>3. CASE Spin(p)
    BY <1>3 DEF Spin
  <1>4. CASE WaitSync(p, t)
    BY <1>4 DEF WaitSync
  <1>5. CASE Write(p, t)
    BY <1>5 DEF Write
  <1>6. CASE ArriveSync(p, t)
    BY <1>6 DEF ArriveSync
  <1>7. CASE Signal(p)
    <2> USE <1>7 DEF Signal
    <2>1. flag' \in 0 .. T
      <3>1. p = flag /\ ~is_final_split(p)
        BY Turn DEF LocationInv
      <3> QED BY <3>1, SplitOrder, SplitsAssumption
    <2>2. slot' \in [Threads -> Sums]
      BY <1>1
    <2>3. pc' \in [Splits -> [Threads -> {"mainloop", "spin", "wait_sync", "access",
                                            "arrive_sync", "signal", "epilogue", "done"}]]
      OBVIOUS
    <2> QED BY <2>1, <2>2, <2>3
  <1>8. CASE Load(p, t)
    <2>1. Add(Only(p), slot[t]) \in Sums
      OBVIOUS
    <2> QED BY <1>8, <2>1 DEF Load
  <1>9. CASE Epilogue(p, t)
    BY <1>9 DEF Epilogue
  <1>10. CASE Land(p, t)
    BY <1>1, <1>10 DEF Land
  <1> QED
    BY <1>2, <1>3, <1>4, <1>5, <1>6, <1>7, <1>8, <1>9, <1>10 DEF ThreadStep

\* Every step keeps the control part.  The barrier of wait_eq opens once
\* thread 0 is there, which has seen the flag; the barrier of arrive_inc once
\* nobody can still write, so the signal leaves a finished work-group behind.
LEMMA StepControl ==
    ASSUME ControlInv, NEW p \in Splits, NEW t \in Threads, ThreadStep(p, t) \/ Land(p, t)
    PROVE  ControlInv'
  <1> USE Zero DEF ControlInv
  <1>a. TypeOK'
    BY StepType
  <1>1. CASE Mainloop(p, t)
    <2> USE <1>1 DEF Mainloop
    <2>1. \A q \in Splits, u \in Threads :
              pc'[q][u] = IF q = p /\ u = t THEN (IF p = 0 THEN "access" ELSE IF t = 0 THEN "spin" ELSE "wait_sync") ELSE pc[q][u]
      BY Moves
    <2>3. FlagInv'
      BY <2>1 DEF FlagInv, Waiting
    <2>4. LocationInv'
      BY <2>1 DEF LocationInv
    <2>5. BarrierInv'
      BY <2>1 DEF BarrierInv, NoneAt, Unissued, Waiting, LocationInv
    <2> QED BY <1>a, <2>3, <2>4, <2>5
  <1>2. CASE Spin(p)
    <2> USE <1>2 DEF Spin
    <2>1. \A q \in Splits, u \in Threads :
              pc'[q][u] = IF q = p /\ u = 0 THEN "wait_sync" ELSE pc[q][u]
      BY Moves
    <2>3. FlagInv'
      BY <2>1 DEF FlagInv, Waiting
    <2>4. LocationInv'
      BY <2>1 DEF LocationInv
    <2>5. BarrierInv'
      BY <2>1 DEF BarrierInv, NoneAt, Unissued, Waiting, LocationInv
    <2> QED BY <1>a, <2>3, <2>4, <2>5
  <1>3. CASE WaitSync(p, t)
    <2> USE <1>3 DEF WaitSync
    <2>1. \A q \in Splits, u \in Threads :
              pc'[q][u] = IF q = p /\ u = t THEN "access" ELSE pc[q][u]
      BY Moves
    <2>2. p = flag
      <3>1. ~(p < flag)
        BY DEF FlagInv
      <3>2. ~(p > flag)
        BY DEF FlagInv, NoneAt, Waiting
      <3> QED BY <3>1, <3>2 DEF FlagInv
    <2>3. FlagInv'
      BY <2>1, <2>2 DEF FlagInv, Waiting
    <2>4. LocationInv'
      BY <2>1 DEF LocationInv
    <2>5. BarrierInv'
      BY <2>1 DEF BarrierInv, NoneAt, Unissued, Waiting, LocationInv
    <2> QED BY <1>a, <2>3, <2>4, <2>5
  <1>4. CASE Write(p, t)
    <2> USE <1>4 DEF Write
    <2>1. \A q \in Splits, u \in Threads :
              pc'[q][u] = IF q = p /\ u = t THEN "arrive_sync" ELSE pc[q][u]
      BY Moves
    <2>3. FlagInv'
      BY <2>1 DEF FlagInv, Waiting
    <2>4. LocationInv'
      BY <2>1 DEF LocationInv
    <2>5. BarrierInv'
      BY <2>1 DEF BarrierInv, NoneAt, Unissued, Waiting, LocationInv
    <2> QED BY <1>a, <2>3, <2>4, <2>5
  <1>5. CASE ArriveSync(p, t)
    <2> USE <1>5 DEF ArriveSync
    <2>1. \A q \in Splits, u \in Threads :
              pc'[q][u] = IF q = p /\ u = t THEN (IF t = 0 THEN "signal" ELSE "done") ELSE pc[q][u]
      BY Moves
    <2>3. FlagInv'
      BY <2>1 DEF FlagInv, Waiting
    <2>4. LocationInv'
      BY <2>1 DEF LocationInv
    <2>5. BarrierInv'
      BY <2>1 DEF BarrierInv, NoneAt, Unissued, Waiting, LocationInv
    <2> QED BY <1>a, <2>3, <2>4, <2>5
  <1>6. CASE Signal(p)
    <2> USE <1>6 DEF Signal
    <2>1. \A q \in Splits, u \in Threads :
              pc'[q][u] = IF q = p /\ u = 0 THEN "done" ELSE pc[q][u]
      BY Moves
    <2>2. p = flag /\ ~is_final_split(p)
      BY Turn DEF LocationInv
    <2>3. flag' \in Splits /\ \A q \in Splits : q < flag' <=> q <= p
      BY <2>2, SplitOrder
    <2>4. \A u \in Threads : u # 0 => pc[p][u] \in {"arrive_sync", "done"}
      <3>1. \A u \in Threads : pc[p][u] \notin Unissued
        BY <2>2 DEF BarrierInv
      <3> QED BY <2>2, <3>1 DEF TypeOK, LocationInv, Unissued, Waiting
    <2>5. FlagInv'
      <3> SUFFICES ASSUME NEW q \in Splits, NEW u \in Threads
                   PROVE  /\ q < flag' => /\ pc'[q][u] \in {"arrive_sync", "done"}
                                          /\ pc'[q][0] = "done"
                          /\ q > flag' => pc'[q][u] \in Waiting /\ pc'[q][0] # "wait_sync"
        BY <2>3 DEF FlagInv
      <3>1. CASE q < p
        BY <2>1, <2>2, <2>3, <3>1 DEF FlagInv
      <3>2. CASE q = p
        BY <2>1, <2>3, <2>4, <3>2
      <3>3. CASE q > p
        BY <2>1, <2>2, <2>3, <3>3 DEF FlagInv
      <3> QED BY <3>1, <3>2, <3>3
    <2>6. LocationInv'
      BY <2>1 DEF LocationInv
    <2>7. BarrierInv'
      BY <2>1 DEF BarrierInv, Unissued, Waiting
    <2> QED BY <1>a, <2>5, <2>6, <2>7
  <1>7. CASE Load(p, t)
    <2> USE <1>7 DEF Load
    <2>1. \A q \in Splits, u \in Threads :
              pc'[q][u] = IF q = p /\ u = t THEN "epilogue" ELSE pc[q][u]
      BY Moves
    <2>2. p = flag
      BY Turn
    <2>3. FlagInv'
      BY <2>1, <2>2 DEF FlagInv, Waiting
    <2>4. LocationInv'
      BY <2>1 DEF LocationInv
    <2>5. BarrierInv'
      BY <2>1 DEF BarrierInv, NoneAt, Unissued, Waiting, LocationInv
    <2> QED BY <1>a, <2>3, <2>4, <2>5
  <1>8. CASE Epilogue(p, t)
    <2> USE <1>8 DEF Epilogue
    <2>1. \A q \in Splits, u \in Threads :
              pc'[q][u] = IF q = p /\ u = t THEN "done" ELSE pc[q][u]
      BY Moves
    <2>2. p = flag /\ is_final_split(p)
      BY Turn DEF LocationInv
    <2>3. FlagInv'
      BY <2>1, <2>2 DEF FlagInv, Waiting
    <2>4. LocationInv'
      BY <2>1 DEF LocationInv
    <2>5. BarrierInv'
      BY <2>1 DEF BarrierInv, Unissued, Waiting, LocationInv
    <2> QED BY <1>a, <2>3, <2>4, <2>5
  <1>9. CASE Land(p, t)
    BY <1>a, <1>9 DEF Land, FlagInv, LocationInv, BarrierInv
  <1> QED
    BY <1>1, <1>2, <1>3, <1>4, <1>5, <1>6, <1>7, <1>8, <1>9 DEF ThreadStep

-----------------------------------------------------------------------------
\* The data part.

\* What has landed in a stripe that was not overtaken follows the flag: all of
\* the earlier splits, none of the later ones.
LEMMA LandedInOrder ==
    ASSUME ControlInv, DataInv, NEW t \in Threads, t \notin overtaken
    PROVE  /\ \A q \in Splits : q < flag => HasLanded(q, t)
           /\ \A q \in Splits : q > flag => ~HasLanded(q, t)
  <1>1. flag \in Splits
    BY DEF ControlInv, FlagInv
  <1>2. \A q \in Splits : q < flag => <<q, t>> \notin pending
    BY <1>1, Zero DEF DataInv, PendingInv
  <1>3. \A q \in Splits : q < flag => HasLanded(q, t)
    BY <1>1, <1>2, SplitOrder DEF ControlInv, FlagInv, HasLanded, Issued
  <1>4. \A q \in Splits : q > flag => ~HasLanded(q, t)
    BY DEF ControlInv, FlagInv, HasLanded, Issued, Waiting
  <1> QED BY <1>3, <1>4

\* The slot in the turn of a later split that has not landed in it.
LEMMA SlotInTurn ==
    ASSUME ControlInv, DataInv, NEW t \in Threads, t \notin overtaken,
           flag # 0, ~HasLanded(flag, t)
    PROVE  slot[t] = [q \in Splits |-> IF q < flag THEN 1 ELSE 0]
  <1>1. flag \in Splits
    BY DEF ControlInv, FlagInv
  <1>2. \A q \in Splits : HasLanded(q, t) <=> q < flag
    BY <1>1, LandedInOrder, Zero
  <1>3. HasLanded(0, t)
    BY <1>1, <1>2, Zero
  <1> QED BY <1>2, <1>3 DEF DataInv, SlotInv

\* Landing in its turn completes the stripe up to the split.
LEMMA LandedInTurn ==
    ASSUME ControlInv, DataInv, NEW t \in Threads, t \notin overtaken,
           <<flag, t>> \in pending
    PROVE  Landed(flag, t) = [q \in Splits |-> IF q <= flag THEN 1 ELSE 0]
  <1>1. flag \in Splits
    BY DEF ControlInv, FlagInv
  <1>2. CASE flag = 0
    <2>1. \A q \in Splits : q <= flag <=> q = flag
      BY <1>2, Zero
    <2>2. Landed(flag, t) = [q \in Splits |-> IF q = flag THEN 1 ELSE 0]
      BY <1>2 DEF Landed, Only
    <2> QED BY <2>1, <2>2
  <1>3. CASE flag # 0
    <2>1. slot[t] = [q \in Splits |-> IF q < flag THEN 1 ELSE 0]
      BY <1>3, SlotInTurn DEF HasLanded
    <2> QED BY <1>1, <1>3, <2>1, Zero DEF Landed, Add, Only
  <1> QED BY <1>2, <1>3

\* A step that neither writes, lands, signals, loads nor stores: it changes
\* only where one thread is.
LEMMA MoveData ==
    ASSUME ControlInv, DataInv, NEW p \in Splits, NEW t \in Threads, NEW place,
           Goto(p, t, place), UNCHANGED <<pending, slot, flag, sum, D, overtaken>>,
           is_final_split(p) => pc[p][t] # "done" /\ place \notin {"done", "epilogue"},
           ~is_final_split(p) => /\ pc[p][t] \in Issued <=> place \in Issued
                                 /\ place # "epilogue"
    PROVE  DataInv'
  <1> USE DEF DataInv
  <1>1. \A q \in Splits, u \in Threads :
            pc'[q][u] = IF q = p /\ u = t THEN place ELSE pc[q][u]
    BY Moves DEF ControlInv
  <1>2. PendingInv'
    BY <1>1 DEF PendingInv
  <1>3. \A q \in Splits, u \in Threads : HasLanded(q, u)' <=> HasLanded(q, u)
    BY <1>1 DEF HasLanded
  <1>4. SlotInv'
    BY <1>3, Zero DEF SlotInv
  <1>5. SumInv'
    BY <1>1 DEF SumInv, Good
  <1>6. OutputInv'
    BY <1>1 DEF OutputInv, Good, ControlInv, FlagInv
  <1> QED BY <1>2, <1>4, <1>5, <1>6

\* A thread issues its write, which has not landed yet.
LEMMA WriteData ==
    ASSUME ControlInv, DataInv, NEW p \in Splits, NEW t \in Threads, Write(p, t)
    PROVE  DataInv'
  <1> USE DEF DataInv, Write
  <1>1. \A q \in Splits, u \in Threads :
            pc'[q][u] = IF q = p /\ u = t THEN "arrive_sync" ELSE pc[q][u]
    BY Moves DEF ControlInv
  <1>2. \A q \in Splits, u \in Threads :
            <<q, u>> \in pending' <=> <<q, u>> \in pending \/ (q = p /\ u = t)
    OBVIOUS
  <1>3. PendingInv'
    BY <1>1, <1>2, Turn DEF PendingInv, Issued
  <1>4. \A q \in Splits, u \in Threads : HasLanded(q, u)' <=> HasLanded(q, u)
    BY <1>1, <1>2 DEF HasLanded, Issued
  <1>5. SlotInv'
    BY <1>4, Zero DEF SlotInv
  <1>6. SumInv' /\ OutputInv'
    BY <1>1 DEF SumInv, OutputInv, Good, ControlInv, FlagInv
  <1> QED BY <1>3, <1>5, <1>6

\* A pending write lands, after those of all earlier splits unless its stripe
\* was overtaken.
LEMMA LandData ==
    ASSUME ControlInv, DataInv, NEW p \in Splits, NEW t \in Threads, Land(p, t)
    PROVE  DataInv'
  <1> USE DEF DataInv, Land
  <1>1. \A q \in Splits, u \in Threads :
            <<q, u>> \in pending' <=> <<q, u>> \in pending /\ ~(q = p /\ u = t)
    OBVIOUS
  <1>2. ~is_final_split(p) /\ pc[p][t] \in Issued /\ (t \notin overtaken => p = flag)
    BY DEF PendingInv
  <1>3. \A q \in Splits, u \in Threads :
            HasLanded(q, u)' <=> HasLanded(q, u) \/ (q = p /\ u = t)
    BY <1>1, <1>2 DEF HasLanded
  <1>4. ASSUME t \notin overtaken
        PROVE  \A q \in Splits : HasLanded(q, t)' <=> q <= p
    BY <1>2, <1>3, <1>4, LandedInOrder, Zero
  <1>5. ASSUME t \notin overtaken
        PROVE  slot'[t] = [q \in Splits |-> IF q <= p THEN 1 ELSE 0]
    BY <1>2, <1>5, LandedInTurn DEF ControlInv, TypeOK
  <1>6. \A u \in Threads : u # t => slot'[u] = slot[u]
    BY DEF ControlInv, TypeOK
  <1>7. PendingInv' /\ SumInv' /\ OutputInv'
    BY <1>1 DEF PendingInv, SumInv, OutputInv, Good, Released
  <1>8. SlotInv'
    <2> SUFFICES ASSUME NEW u \in Threads, HasLanded(0, u)', u \notin overtaken
                 PROVE  slot'[u] = [q \in Splits |-> IF HasLanded(q, u)' THEN 1 ELSE 0]
      BY DEF SlotInv
    <2>1. CASE u = t
      BY <1>4, <1>5, <2>1
    <2>2. CASE u # t
      BY <1>3, <1>6, <2>2, Zero DEF SlotInv
    <2> QED BY <2>1, <2>2
  <1> QED BY <1>7, <1>8

\* Thread 0 signals: its release lands what barrier and release order, what is
\* still pending is overtaken, and in every other stripe the next split finds
\* the slot complete up to itself.
LEMMA SignalData ==
    ASSUME ControlInv, DataInv, NEW p \in Splits, Signal(p)
    PROVE  DataInv'
  <1> USE DEF DataInv, Signal
  <1>1. \A q \in Splits, u \in Threads :
            pc'[q][u] = IF q = p /\ u = 0 THEN "done" ELSE pc[q][u]
    BY Moves, Zero DEF ControlInv
  <1>2. p = flag /\ ~is_final_split(p)
    BY Turn, Zero DEF ControlInv, LocationInv
  <1>3. \A q \in Splits, u \in Threads :
            <<q, u>> \in pending' <=> <<q, u>> \in pending /\ ~(q = p /\ u \in Released)
    OBVIOUS
  <1>a. \A q \in Splits, u \in Threads :
            <<q, u>> \in pending' => u \notin Released /\ u \in overtaken'
    <2> SUFFICES ASSUME NEW q \in Splits, NEW u \in Threads, <<q, u>> \in pending'
                 PROVE  u \notin Released /\ u \in overtaken'
      OBVIOUS
    <2>1. CASE q = p
      BY <1>3, <2>1 DEF Late
    <2>2. CASE q # p
      BY <1>2, <1>3, <2>2 DEF PendingInv
    <2> QED BY <2>1, <2>2
  <1>b. \A u \in Threads : u \notin overtaken' => u \notin overtaken
    OBVIOUS
  <1>4. \A u \in Threads : pc[p][u] \in Issued
    <2>1. \A u \in Threads : pc[p][u] \notin Unissued
      BY <1>2, Zero DEF ControlInv, BarrierInv
    <2> QED BY <1>2, <2>1 DEF ControlInv, TypeOK, LocationInv, Unissued, Waiting, Issued
  <1>5. \A q \in Splits, u \in Threads : u \notin overtaken' => (HasLanded(q, u)' <=> q <= p)
    <2> SUFFICES ASSUME NEW q \in Splits, NEW u \in Threads, u \notin overtaken'
                 PROVE  HasLanded(q, u)' <=> q <= p
      OBVIOUS
    <2> <<q, u>> \notin pending'
      BY <1>a
    <2>1. CASE q < p
      BY <1>1, <1>2, <1>b, <2>1, LandedInOrder, Zero DEF HasLanded, Issued
    <2>2. CASE q = p
      BY <1>1, <1>2, <1>4, <2>2, Zero DEF HasLanded, Issued
    <2>3. CASE q > p
      <3>1. pc'[q][u] = pc[q][u] /\ pc[q][u] \in Waiting
        BY <1>1, <1>2, <2>3, Zero DEF ControlInv, FlagInv
      <3> QED BY <2>3, <3>1, Zero DEF HasLanded, Issued, Waiting
    <2> QED BY <2>1, <2>2, <2>3, Zero
  <1>6. \A u \in Threads : u \notin overtaken' =>
            slot'[u] = [q \in Splits |-> IF q <= p THEN 1 ELSE 0]
    <2> SUFFICES ASSUME NEW u \in Threads, u \notin overtaken'
                 PROVE  slot'[u] = [q \in Splits |-> IF q <= p THEN 1 ELSE 0]
      OBVIOUS
    <2>1. slot'[u] = IF <<p, u>> \in pending THEN Landed(p, u) ELSE slot[u]
      BY DEF Late
    <2>2. CASE <<p, u>> \in pending
      BY <1>2, <1>b, <2>1, <2>2, LandedInTurn
    <2>3. CASE <<p, u>> \notin pending
      <3>1. HasLanded(p, u)
        BY <1>2, <1>4, <2>3 DEF HasLanded
      <3>2. \A q \in Splits : HasLanded(q, u) <=> q <= p
        BY <1>2, <1>b, <3>1, LandedInOrder, Zero
      <3> QED BY <1>b, <2>1, <2>3, <3>2, Zero DEF SlotInv
    <2> QED BY <2>2, <2>3
  <1>7. PendingInv'
    <2>1. \A q \in Splits, u \in Threads :
              <<q, u>> \in pending' => ~is_final_split(q) /\ pc'[q][u] \in Issued
      BY <1>1, <1>3 DEF PendingInv, Issued
    <2> QED BY <1>a, <2>1 DEF PendingInv, Released
  <1>8. SlotInv'
    BY <1>5, <1>6 DEF SlotInv
  <1>9. SumInv'
    BY <1>1, <1>b DEF SumInv, Good
  <1>10. OutputInv'
    <2>1. flag' \in Splits /\ flag' > p
      BY <1>2, SplitOrder
    <2>2. \A u \in Threads : pc'[flag'][u] # "done"
      BY <1>1, <1>2, <2>1, Zero DEF ControlInv, FlagInv, Waiting
    <2> QED BY <1>2, <2>2 DEF OutputInv
  <1> QED BY <1>7, <1>8, <1>9, <1>10

\* A thread of the final split adds the slot, which holds all other splits
\* unless the stripe was overtaken.
LEMMA LoadData ==
    ASSUME ControlInv, DataInv, NEW p \in Splits, NEW t \in Threads, Load(p, t)
    PROVE  DataInv'
  <1> USE DEF DataInv, Load
  <1>1. \A q \in Splits, u \in Threads :
            pc'[q][u] = IF q = p /\ u = t THEN "epilogue" ELSE pc[q][u]
    BY Moves DEF ControlInv
  <1>2. p = flag /\ p # 0 /\ \A q \in Splits : q <= p
    BY Turn, SplitOrder, Zero
  <1>3. Good(t, Add(Only(p), slot[t]))
    <2>1. Add(Only(p), slot[t]) # Unwritten
      <3>1. Add(Only(p), slot[t])[p] # 0
        BY DEF Add, Only, ControlInv, TypeOK, Sums
      <3> QED BY <3>1 DEF Unwritten
    <2>2. ASSUME t \notin overtaken PROVE Add(Only(p), slot[t]) = Complete
      <3>1. slot[t] = [q \in Splits |-> IF q < p THEN 1 ELSE 0]
        BY <1>2, <2>2, SlotInTurn DEF HasLanded
      <3> QED BY <1>2, <3>1, Zero DEF Add, Only, Complete
    <2> QED BY <2>1, <2>2 DEF Good
  <1>4. \A u \in Threads : sum'[u] = IF u = t THEN Add(Only(p), slot[t]) ELSE sum[u]
    BY DEF ControlInv, TypeOK
  <1>5. PendingInv'
    BY <1>1 DEF PendingInv, Issued, Released
  <1>6. \A q \in Splits, u \in Threads : HasLanded(q, u)' <=> HasLanded(q, u)
    BY <1>1 DEF HasLanded
  <1>7. SlotInv'
    BY <1>6, Zero DEF SlotInv
  <1>8. SumInv'
    BY <1>1, <1>3, <1>4 DEF SumInv, Good
  <1>9. OutputInv'
    BY <1>1, <1>2 DEF OutputInv, Good
  <1> QED BY <1>5, <1>7, <1>8, <1>9

\* A thread of the final split writes its stripe of the tile.
LEMMA EpilogueData ==
    ASSUME ControlInv, DataInv, NEW p \in Splits, NEW t \in Threads, Epilogue(p, t)
    PROVE  DataInv'
  <1> USE DEF DataInv, Epilogue
  <1>1. \A q \in Splits, u \in Threads :
            pc'[q][u] = IF q = p /\ u = t THEN "done" ELSE pc[q][u]
    BY Moves DEF ControlInv
  <1>2. is_final_split(p) /\ p = flag
    BY Turn DEF ControlInv, LocationInv
  <1>3. \A u \in Threads : D'[u] = IF u = t THEN sum[t] ELSE D[u]
    BY DEF ControlInv, TypeOK
  <1>4. PendingInv'
    BY <1>1 DEF PendingInv, Issued, Released
  <1>5. \A q \in Splits, u \in Threads : HasLanded(q, u)' <=> HasLanded(q, u)
    BY <1>1, <1>2 DEF HasLanded
  <1>6. SlotInv'
    BY <1>5, Zero DEF SlotInv
  <1>7. SumInv'
    BY <1>1 DEF SumInv, Good
  <1>8. OutputInv'
    BY <1>1, <1>2, <1>3 DEF OutputInv, SumInv, Good
  <1> QED BY <1>4, <1>6, <1>7, <1>8

LEMMA StepData ==
    ASSUME ControlInv, DataInv, NEW p \in Splits, NEW t \in Threads, ThreadStep(p, t)
    PROVE  DataInv'
  <1>1. CASE Mainloop(p, t)
    BY <1>1, MoveData DEF Mainloop, Issued
  <1>2. CASE Spin(p)
    BY <1>2, MoveData, Zero DEF Spin, Issued
  <1>3. CASE WaitSync(p, t)
    BY <1>3, MoveData DEF WaitSync, Issued
  <1>4. CASE ArriveSync(p, t)
    <2>1. ~is_final_split(p)
      BY <1>4 DEF ArriveSync, ControlInv, LocationInv
    <2> QED BY <1>4, <2>1, MoveData DEF ArriveSync, Issued
  <1> QED
    BY <1>1, <1>2, <1>3, <1>4, WriteData, SignalData, LoadData, EpilogueData DEF ThreadStep

-----------------------------------------------------------------------------
\* Every step preserves the inductive invariant.
LEMMA NextIInv ==
    ASSUME IInv, [Next]_vars
    PROVE  IInv'
  <1>1. ASSUME NEW p \in Splits, NEW t \in Threads, ThreadStep(p, t) \/ Land(p, t)
        PROVE  IInv'
    <2>1. ControlInv'
      BY <1>1, StepControl DEF IInv
    <2>2. DataInv'
      BY <1>1, StepData, LandData DEF IInv
    <2> QED BY <2>1, <2>2 DEF IInv
  <1>2. CASE UNCHANGED vars
    <2> USE <1>2 DEF vars
    <2>1. ControlInv => ControlInv'
      BY DEF ControlInv, TypeOK, FlagInv, LocationInv, BarrierInv
    <2>2. DataInv => DataInv'
      BY DEF DataInv, PendingInv, SlotInv, HasLanded, SumInv, OutputInv, Good, Released
    <2> QED BY <2>1, <2>2 DEF IInv
  <1> QED BY <1>1, <1>2 DEF Next

\* The inductive invariant holds throughout.
THEOREM Invariance == Spec => []IInv
  <1>1. IInv /\ [Next]_vars => IInv'
    BY NextIInv
  <1> QED BY <1>1, InitIInv, PTL DEF Spec

\* Type correctness: the flag in particular stays inside the k extent.
THEOREM TypeCorrect == Spec => []TypeOK
  <1>1. IInv => TypeOK
    BY DEF IInv, ControlInv
  <1> QED BY <1>1, Invariance, PTL

\* No thread touches the slot before the turn of its work-group, whether or
\* not the barrier orders memory.
THEOREM TurnsKept == Spec => []AccessInTurn
  <1>1. IInv => AccessInTurn
    BY Turn DEF IInv, AccessInTurn
  <1> QED BY <1>1, Invariance, PTL

\* Once the flag has moved past a split, all threads of its work-group have
\* written; a write not visible by then is one that barrier and release do not
\* order, and its stripe is on record as overtaken.
THEOREM ArrivalsPublish == Spec => []ArrivalPublishesAll
  <1>1. IInv => ArrivalPublishesAll
    BY Zero DEF IInv, ControlInv, DataInv, FlagInv, PendingInv, ArrivalPublishesAll, NoneAt
  <1> QED BY <1>1, Invariance, PTL

\* The threads together keep the safety part of the promise about the tile: an
\* epilogue is the one write of its stripe, complete unless the stripe was
\* overtaken, and every other step is a stutter.
THEOREM Implements == Spec => Promise!Spec
  <1> USE DEF Promise!Unwritten, Promise!Complete, Complete, Unwritten
  <1>1. Init => Promise!Init
    BY DEF Init, Promise!Init, Output
  <1>2. IInv /\ [Next]_vars => [Promise!Next]_Output
    <2> SUFFICES ASSUME IInv, [Next]_vars PROVE Promise!Next \/ UNCHANGED Output
      OBVIOUS
    <2>1. ASSUME NEW p \in Splits, NEW t \in Threads, Epilogue(p, t) PROVE Promise!Write(t)
      <3>1. is_final_split(p) /\ p = flag /\ pc[p][t] = "epilogue" /\ Good(t, sum[t])
        BY <2>1, Turn DEF IInv, ControlInv, DataInv, LocationInv, SumInv, Epilogue
      <3>2. D[t] = Unwritten
        BY <3>1 DEF IInv, DataInv, OutputInv
      <3>3. Output[t] = Unwritten
        BY <3>2 DEF Output
      <3>4. Output' = [Output EXCEPT ![t] = Complete]
        BY <2>1, <3>1 DEF Output, Good, Epilogue, IInv, ControlInv, TypeOK
      <3> QED BY <3>3, <3>4 DEF Promise!Write
    <2>2. ASSUME NEW p \in Splits, Signal(p) PROVE UNCHANGED Output
      <3>1. \A t \in Threads : D[t] = Unwritten
        <4>1. p = flag /\ ~is_final_split(p)
          BY <2>2, Turn, Zero DEF IInv, ControlInv, LocationInv, Signal
        <4> QED BY <4>1 DEF IInv, DataInv, OutputInv
      <3> QED BY <2>2, <3>1 DEF Signal, Output
    <2>3. ASSUME NEW p \in Splits, NEW t \in Threads, ThreadStep(p, t)
          PROVE  Epilogue(p, t) \/ Signal(p) \/ UNCHANGED Output
      BY <2>3 DEF ThreadStep, Mainloop, Spin, WaitSync, Write, ArriveSync, Load, Output
    <2>4. ASSUME NEW p \in Splits, NEW t \in Threads, Land(p, t) PROVE UNCHANGED Output
      BY <2>4 DEF Land, Output
    <2>5. CASE UNCHANGED vars
      BY <2>5 DEF vars, Output
    <2> QED BY <2>1, <2>2, <2>3, <2>4, <2>5 DEF Next, Promise!Next
  <1> QED BY <1>1, <1>2, Invariance, PTL DEF Spec, Promise!Spec
=============================================================================
