----------------------- MODULE Sm90WarpSpecialized_proofs -----------------------
(***************************************************************************)
(* Proofs about the warp-specialized SM90 kernels, for every launch:       *)
(* whatever the kernel, the cluster, the number of stages, k tiles and     *)
(* tiles, and in whatever order copies and arrivals land.                  *)
(*                                                                         *)
(* First the two math warp groups of a Pingpong kernel: they take turns at *)
(* the mainloop and at the epilogue (IInv).  Then the mainloop pipeline    *)
(* (PipeInv): how far each producer has loaded and each math warp group    *)
(* has read and let go says what every full and empty barrier counts, what *)
(* is in flight and what every stage holds.                                *)
(***************************************************************************)
EXTENDS Sm90WarpSpecialized, NaturalsLemmas, FiniteSetTheorems, TLAPS

\* How many tiles a warp group has stored, and how often it has entered and
\* left its mainloop and entered its epilogue.
Turn(b, w)     == math[b][w].tile \div 2
Past(b, w, S)  == IF math[b][w].pc \in S THEN Turn(b, w) + 1 ELSE Turn(b, w)
MmaBegun(b, w)   == Past(b, w, {"mma", "mma_tail", "order_store", "store"})
MmaEnded(b, w)   == Past(b, w, {"mma_tail", "order_store", "store"})
StoreBegun(b, w) == Past(b, w, {"store"})

\* An order barrier after so many arrivals of the other warp group.
OrderBarrier(phases) == [count |-> 1, pending |-> 1, tx |-> 0, phases |-> phases]

MathFields == {"pc", "tile", "pipe", "read", "release", "k", "reading", "order"}

ShapeInv ==
    /\ DOMAIN math = CTAs /\ DOMAIN order = CTAs /\ DOMAIN stored = CTAs
    /\ \A b \in CTAs :
        /\ DOMAIN math[b] = WarpGroups
        /\ DOMAIN order[b] = (0 .. OrderDepth - 1) \X WarpGroups
        /\ \A w \in WarpGroups : DOMAIN math[b][w] = MathFields

\* Where a warp group is, and which phase of which barrier that means.
PlaceInv(b) ==
    \A w \in WarpGroups :
        LET m == math[b][w]
        IN  /\ m.pc \in {"order_mma", "mma", "mma_tail", "order_store", "store", "exit"}
            /\ m.tile \in Nat /\ m.tile % 2 = w
            /\ m.order = PipelineState(
                  IF m.pc \in {"mma_tail", "order_store", "store"} THEN 1 ELSE 0,
                  (Turn(b, w) + 1 - w) % 2)

\* Each barrier counts the arrivals of the other warp group.
BarrierInv(b) ==
    \A w \in WarpGroups :
        /\ order[b][<<0, w>>] = OrderBarrier(MmaEnded(b, 1 - w))
        /\ order[b][<<1, w>>] = OrderBarrier(Turn(b, 1 - w))

\* Consumer0 is never more than one turn ahead, Consumer1 never ahead at all.
TurnInv(b) ==
    /\ MmaBegun(b, 0) <= MmaEnded(b, 1) + 1
    /\ MmaBegun(b, 1) <= MmaEnded(b, 0)
    /\ StoreBegun(b, 0) <= Turn(b, 1) + 1
    /\ StoreBegun(b, 1) <= Turn(b, 0)

StoredInv(b) ==
    /\ stored[b] \in Seq(Nat \X WarpGroups)
    /\ Len(stored[b]) = Turn(b, 0) + Turn(b, 1)
    /\ \A i \in DOMAIN stored[b] : stored[b][i] = <<i - 1, (i - 1) % 2>>

\* The inductive invariant.
BlockInv(b) == PlaceInv(b) /\ BarrierInv(b) /\ TurnInv(b) /\ StoredInv(b)

IInv == Pingpong => ShapeInv /\ \A b \in CTAs : BlockInv(b)

-----------------------------------------------------------------------------
(* The order barriers.                                                     *)

\* What a step of warp group w of block b does to the places of the groups.
Moves(b, w, pc, tile, order_) ==
    /\ \A c \in CTAs \ {b} : math'[c] = math[c]
    /\ math'[b][1 - w] = math[b][1 - w]
    /\ math'[b][w].pc = pc /\ math'[b][w].tile = tile /\ math'[b][w].order = order_
    /\ DOMAIN math' = DOMAIN math /\ DOMAIN math'[b] = DOMAIN math[b]
    /\ DOMAIN math'[b][w] = DOMAIN math[b][w]

\* The two math warp groups.
LEMMA Groups == \A w \in WarpGroups : 1 - w \in WarpGroups /\ 1 - w # w /\ 1 - (1 - w) = w
  BY DEF WarpGroups

\* What each step of a math warp group does to its place.
LEMMA OrderWaitMoves ==
    ASSUME ShapeInv, NEW b \in CTAs, NEW w \in WarpGroups, OrderWait(b, w)
    PROVE  Moves(b, w, IF math[b][w].pc = "order_mma" THEN "mma" ELSE "store",
                 math[b][w].tile, math[b][w].order)
  <1> DEFINE place == IF math[b][w].pc = "order_mma" THEN "mma" ELSE "store"
  <1>1. math' = [math EXCEPT ![b][w].pc = place]
    BY DEF OrderWait
  <1> HIDE DEF place
  <1>2. Moves(b, w, place, math[b][w].tile, math[b][w].order)
    BY <1>1, Groups, ZenonT(40) DEF Moves, ShapeInv, MathFields
  <1> QED BY <1>2 DEF place

LEMMA MmaMoves ==
    ASSUME ShapeInv, NEW b \in CTAs, NEW w \in WarpGroups, Mma(b, w)
    PROVE  Moves(b, w, math[b][w].pc, math[b][w].tile, math[b][w].order)
  <1>1. PICK k, read, reading :
          math' = [math EXCEPT ![b][w].k = k, ![b][w].read = read, ![b][w].reading = reading]
    BY Zenon DEF Mma
  <1>2. {"pc", "tile", "order"} \subseteq DOMAIN math[b][w]
    BY DEF ShapeInv, MathFields
  <1>3. math'[b][w].pc = math[b][w].pc
    BY <1>1, <1>2, Zenon DEF ShapeInv
  <1>4. math'[b][w].tile = math[b][w].tile
    BY <1>1, <1>2, Zenon DEF ShapeInv
  <1>5. math'[b][w].order = math[b][w].order
    BY <1>1, <1>2, Zenon DEF ShapeInv
  <1>6. (\A c \in CTAs \ {b} : math'[c] = math[c]) /\ math'[b][1 - w] = math[b][1 - w]
    BY <1>1, Groups, Zenon DEF ShapeInv
  <1>7. DOMAIN math' = DOMAIN math /\ DOMAIN math'[b] = DOMAIN math[b]
    BY <1>1, Zenon DEF ShapeInv
  <1>8. DOMAIN math'[b][w] = DOMAIN math[b][w]
    BY <1>1, Zenon DEF ShapeInv
  <1> QED BY <1>3, <1>4, <1>5, <1>6, <1>7, <1>8 DEF Moves

LEMMA MmaReleaseMoves ==
    ASSUME ShapeInv, NEW b \in CTAs, NEW w \in WarpGroups, MmaRelease(b, w)
    PROVE  Moves(b, w, math[b][w].pc, math[b][w].tile, math[b][w].order)
  <1>1. PICK release, reading :
          math' = [math EXCEPT ![b][w].release = release, ![b][w].reading = reading]
    BY Zenon DEF MmaRelease
  <1>2. {"pc", "tile", "order"} \subseteq DOMAIN math[b][w]
    BY DEF ShapeInv, MathFields
  <1>3. math'[b][w].pc = math[b][w].pc
    BY <1>1, <1>2, Zenon DEF ShapeInv
  <1>4. math'[b][w].tile = math[b][w].tile
    BY <1>1, <1>2, Zenon DEF ShapeInv
  <1>5. math'[b][w].order = math[b][w].order
    BY <1>1, <1>2, Zenon DEF ShapeInv
  <1>6. (\A c \in CTAs \ {b} : math'[c] = math[c]) /\ math'[b][1 - w] = math[b][1 - w]
    BY <1>1, Groups, Zenon DEF ShapeInv
  <1>7. DOMAIN math' = DOMAIN math /\ DOMAIN math'[b] = DOMAIN math[b]
    BY <1>1, Zenon DEF ShapeInv
  <1>8. DOMAIN math'[b][w] = DOMAIN math[b][w]
    BY <1>1, Zenon DEF ShapeInv
  <1> QED BY <1>3, <1>4, <1>5, <1>6, <1>7, <1>8 DEF Moves

LEMMA MmaEndsMoves ==
    ASSUME ShapeInv, NEW b \in CTAs, NEW w \in WarpGroups, MmaEnds(b, w)
    PROVE  Moves(b, w, "mma_tail", math[b][w].tile, NextOrder(math[b][w].order))
  BY Groups, ZenonT(40) DEF MmaEnds, Moves, ShapeInv, MathFields

LEMMA MmaTailMoves ==
    ASSUME Pingpong, ShapeInv, NEW b \in CTAs, NEW w \in WarpGroups, MmaTail(b, w)
    PROVE  Moves(b, w, "order_store", math[b][w].tile, math[b][w].order)
  BY Groups, ZenonT(40) DEF MmaTail, Moves, ShapeInv, MathFields

LEMMA StoreMoves ==
    ASSUME Pingpong, ShapeInv, NEW b \in CTAs, NEW w \in WarpGroups, Store(b, w)
    PROVE  Moves(b, w, FirstPc(math[b][w].tile + 2), math[b][w].tile + 2,
                 NextOrder(math[b][w].order))
  BY Groups, ZenonT(40) DEF Store, TilesPerTurn, Moves, ShapeInv, MathFields

\* The shape is kept, and so is everything about the other blocks.
LEMMA ShapeKept ==
    ASSUME ShapeInv, launch' = launch, NEW b \in CTAs, NEW w \in WarpGroups,
           NEW pc, NEW tile, NEW order_, Moves(b, w, pc, tile, order_),
           DOMAIN order' = DOMAIN order, DOMAIN stored' = DOMAIN stored,
           \A c \in CTAs : DOMAIN order'[c] = DOMAIN order[c]
    PROVE  ShapeInv'
  <1>1. CTAs' = CTAs
    BY DEF CTAs, Blocks
  <1>2. ASSUME NEW c \in CTAs
        PROVE  /\ DOMAIN math'[c] = WarpGroups
               /\ \A v \in WarpGroups : DOMAIN math'[c][v] = MathFields
    <2>1. CASE c # b
      BY <2>1 DEF Moves, ShapeInv
    <2>2. CASE c = b
      <3>1. \A v \in WarpGroups : v # w => v = 1 - w
        BY DEF WarpGroups
      <3> QED BY <2>2, <3>1, Groups, SMTT(20) DEF Moves, ShapeInv
    <2> QED BY <2>1, <2>2
  <1> QED BY <1>1, <1>2 DEF Moves, ShapeInv

\* A block nothing happens to.
LEMMA OtherBlock ==
    ASSUME NEW c, BlockInv(c),
           math'[c] = math[c], order'[c] = order[c], stored'[c] = stored[c]
    PROVE  BlockInv(c)'
  <1> USE DEF BlockInv, Past, Turn, MmaBegun, MmaEnded, StoreBegun
  <1>1. PlaceInv(c)'
    BY DEF PlaceInv
  <1>2. BarrierInv(c)'
    BY DEF BarrierInv
  <1>3. TurnInv(c)'
    BY DEF TurnInv
  <1>4. StoredInv(c)'
    BY DEF StoredInv
  <1> QED BY <1>1, <1>2, <1>3, <1>4

\* The counts of a group are numbers, and count what has begun before it ends.
LEMMA Counts ==
    ASSUME NEW b, PlaceInv(b), NEW w \in WarpGroups
    PROVE  /\ Turn(b, w) \in Nat
           /\ MmaBegun(b, w) \in Nat /\ MmaEnded(b, w) \in Nat /\ StoreBegun(b, w) \in Nat
           /\ Turn(b, w) <= StoreBegun(b, w)
           /\ MmaEnded(b, w) <= MmaBegun(b, w)
  <1>1. Turn(b, w) \in Nat
    BY DEF PlaceInv, Turn
  <1> QED BY <1>1 DEF Past, MmaBegun, MmaEnded, StoreBegun

\* A group that does not move keeps its counts.
LEMMA OtherGroup ==
    ASSUME NEW b, NEW v, math'[b][v] = math[b][v]
    PROVE  /\ Turn(b, v)' = Turn(b, v)
           /\ MmaBegun(b, v)' = MmaBegun(b, v)
           /\ MmaEnded(b, v)' = MmaEnded(b, v)
           /\ StoreBegun(b, v)' = StoreBegun(b, v)
  BY DEF Past, Turn, MmaBegun, MmaEnded, StoreBegun

\* The two barriers of a group are one phase ahead at most: once the parity
\* differs, it is the awaited phase that is over.
LEMMA ParityTells ==
    ASSUME NEW turn \in Nat, NEW phases \in Nat, NEW w \in {0, 1},
           turn <= phases + 1 - w, phases <= turn + w,
           phases % 2 # (turn + 1 - w) % 2
    PROVE  phases = turn + w
  OBVIOUS

LEMMA PhasesOf == \A n : OrderBarrier(n).phases = n
  BY DEF OrderBarrier

\* The one arrival of a phase begins the next.
LEMMA Arrives ==
    ASSUME NEW phases \in Nat
    PROVE  arrive(OrderBarrier(phases)) = OrderBarrier(phases + 1)
  <1> DEFINE bar == OrderBarrier(phases)
             counted == [bar EXCEPT !.pending = @ - 1]
  <1>1. counted = [count |-> 1, pending |-> 0, tx |-> 0, phases |-> phases]
    BY DEF OrderBarrier
  <1>2. PhaseEnds(counted) = OrderBarrier(phases + 1)
    BY <1>1 DEF PhaseEnds, OrderBarrier
  <1> QED BY <1>2 DEF arrive

\* TurnInv, said of one group and the other.
LEMMA TurnInvOf ==
    ASSUME NEW b, PlaceInv(b), TurnInv(b), NEW w \in WarpGroups
    PROVE  /\ MmaBegun(b, w) <= MmaEnded(b, 1 - w) + 1 - w
           /\ StoreBegun(b, w) <= Turn(b, 1 - w) + 1 - w
  <1>1. CASE w = 0
    <2>1. 1 - w = 1
      BY <1>1
    <2>2. MmaEnded(b, 1) \in Nat /\ Turn(b, 1) \in Nat
      BY Counts DEF WarpGroups
    <2> QED BY <1>1, <2>1, <2>2 DEF TurnInv
  <1>2. CASE w = 1
    <2>1. 1 - w = 0
      BY <1>2
    <2>2. MmaEnded(b, 0) \in Nat /\ Turn(b, 0) \in Nat
      BY Counts DEF WarpGroups
    <2> QED BY <1>2, <2>1, <2>2 DEF TurnInv
  <1> QED BY <1>1, <1>2 DEF WarpGroups

\* The two groups of a block.
LEMMA EitherGroup ==
    \A v, w \in WarpGroups : v # w => v = 1 - w
  BY DEF WarpGroups

\* A group that moves to a place with the order state that belongs to it.
LEMMA PlaceKept ==
    ASSUME NEW b \in CTAs, PlaceInv(b), NEW w \in WarpGroups,
           NEW pc \in {"order_mma", "mma", "mma_tail", "order_store", "store", "exit"},
           NEW tile \in Nat, tile % 2 = w,
           Moves(b, w, pc, tile,
             PipelineState(IF pc \in {"mma_tail", "order_store", "store"} THEN 1 ELSE 0,
                           (tile \div 2 + 1 - w) % 2))
    PROVE  PlaceInv(b)'
  <1>1. math'[b][w].pc = pc /\ math'[b][w].tile = tile
    BY DEF Moves
  <1>2. math'[b][w].order =
          PipelineState(IF math'[b][w].pc \in {"mma_tail", "order_store", "store"} THEN 1 ELSE 0,
                        (Turn(b, w)' + 1 - w) % 2)
    BY <1>1 DEF Moves, Turn
  <1>3. math'[b][1 - w] = math[b][1 - w]
    BY DEF Moves
  <1>4. Turn(b, 1 - w)' = Turn(b, 1 - w)
    BY <1>3, OtherGroup
  <1> SUFFICES ASSUME NEW v \in WarpGroups
               PROVE  /\ math'[b][v].pc \in {"order_mma", "mma", "mma_tail", "order_store",
                                              "store", "exit"}
                      /\ math'[b][v].tile \in Nat /\ math'[b][v].tile % 2 = v
                      /\ math'[b][v].order = PipelineState(
                           IF math'[b][v].pc \in {"mma_tail", "order_store", "store"}
                             THEN 1 ELSE 0, (Turn(b, v)' + 1 - v) % 2)
    BY DEF PlaceInv
  <1>5. CASE v = w
    BY <1>1, <1>2, <1>5
  <1>6. CASE v = 1 - w
    BY <1>3, <1>4, <1>6 DEF PlaceInv
  <1> QED BY <1>5, <1>6, EitherGroup

\* TurnInv from what a step of one group must show of both.
LEMMA TurnKept ==
    ASSUME NEW b \in CTAs, PlaceInv(b)', NEW w \in WarpGroups,
           MmaBegun(b, w)' <= MmaEnded(b, 1 - w)' + 1 - w,
           StoreBegun(b, w)' <= Turn(b, 1 - w)' + 1 - w,
           MmaBegun(b, 1 - w)' <= MmaEnded(b, w)' + w,
           StoreBegun(b, 1 - w)' <= Turn(b, w)' + w
    PROVE  TurnInv(b)'
  <1>1. \A v \in WarpGroups : MmaEnded(b, v)' \in Nat /\ Turn(b, v)' \in Nat
    <2>1. \A v \in WarpGroups : Turn(b, v)' \in Nat
      BY DEF PlaceInv, Turn
    <2> QED BY <2>1 DEF MmaEnded, Past
  <1>2. CASE w = 0
    <2>1. 1 - w = 1
      BY <1>2
    <2> QED BY <1>1, <1>2, <2>1 DEF TurnInv, WarpGroups
  <1>3. CASE w = 1
    <2>1. 1 - w = 0
      BY <1>3
    <2> QED BY <1>1, <1>3, <2>1 DEF TurnInv, WarpGroups
  <1> QED BY <1>2, <1>3 DEF WarpGroups

\* The two waits.
LEMMA OrderWaitKeeps ==
    ASSUME ShapeInv, NEW b \in CTAs, BlockInv(b), NEW w \in WarpGroups, OrderWait(b, w)
    PROVE  BlockInv(b)'
  <1> DEFINE m == math[b][w]
             v == 1 - w
             pc == IF m.pc = "order_mma" THEN "mma" ELSE "store"
  <1>0. v \in WarpGroups /\ 1 - v = w /\ w \in {0, 1}
    BY DEF WarpGroups
  <1>1. Moves(b, w, pc, m.tile, m.order)
    BY OrderWaitMoves
  <1>2. /\ m.pc \in {"order_mma", "order_store"}
        /\ m.tile \in Nat /\ m.tile % 2 = w
        /\ m.order = PipelineState(IF m.pc = "order_mma" THEN 0 ELSE 1, (Turn(b, w) + 1 - w) % 2)
    BY DEF BlockInv, PlaceInv, OrderWait
  <1>3. PlaceInv(b)'
    <2>1. pc \in {"mma", "store"} /\ (pc = "mma" <=> m.pc = "order_mma")
      BY <1>2
    <2>2. m.order = PipelineState(IF pc \in {"mma_tail", "order_store", "store"} THEN 1 ELSE 0,
                                  (m.tile \div 2 + 1 - w) % 2)
      BY <1>2, <2>1 DEF Turn
    <2> HIDE DEF pc
    <2> QED BY <1>1, <1>2, <2>1, <2>2, PlaceKept DEF BlockInv
  <1>4. /\ Turn(b, v)' = Turn(b, v) /\ MmaBegun(b, v)' = MmaBegun(b, v)
        /\ MmaEnded(b, v)' = MmaEnded(b, v) /\ StoreBegun(b, v)' = StoreBegun(b, v)
    BY <1>1, OtherGroup DEF Moves
  <1>5. Turn(b, w)' = Turn(b, w) /\ MmaEnded(b, w)' = MmaEnded(b, w)
    BY <1>1, <1>2 DEF Moves, Turn, MmaEnded, Past
  <1>6. order' = order /\ stored' = stored
    BY DEF OrderWait
  <1>7. /\ MmaBegun(b, w) <= MmaEnded(b, v) + 1 - w
        /\ StoreBegun(b, w) <= Turn(b, v) + 1 - w
        /\ MmaBegun(b, v) <= MmaEnded(b, w) + w
        /\ StoreBegun(b, v) <= Turn(b, w) + w
    <2>1. MmaEnded(b, w) \in Nat /\ Turn(b, w) \in Nat
      BY Counts DEF BlockInv
    <2>2. \A n \in Nat : n + 1 - v = n + w
      BY DEF WarpGroups
    <2> QED BY <1>0, <2>1, <2>2, TurnInvOf DEF BlockInv
  <1>8. /\ Turn(b, w) \in Nat /\ MmaEnded(b, v) \in Nat /\ Turn(b, v) \in Nat
        /\ MmaBegun(b, v) \in Nat /\ StoreBegun(b, v) \in Nat
        /\ Turn(b, v) <= StoreBegun(b, v) /\ MmaEnded(b, v) <= MmaBegun(b, v)
    BY <1>0, Counts DEF BlockInv
  <1>9. TurnInv(b)'
    <2>1. CASE m.pc = "order_mma"
      <3>1. MmaBegun(b, w) = Turn(b, w) /\ MmaEnded(b, w) = Turn(b, w)
        BY <2>1 DEF MmaBegun, MmaEnded, Past
      <3>2. MmaEnded(b, v) % 2 # (Turn(b, w) + 1 - w) % 2
        <4>1. m.order.index = 0 /\ m.order.phase = (Turn(b, w) + 1 - w) % 2
          BY <1>2, <2>1 DEF PipelineState
        <4>2. order[b][<<0, w>>] = OrderBarrier(MmaEnded(b, v))
          BY Zenon DEF BlockInv, BarrierInv
        <4>5. order[b][<<0, w>>].phases = MmaEnded(b, v)
          BY <4>2, PhasesOf
        <4>3. OrderOf(m.order, w) = <<0, w>>
          BY <4>1 DEF OrderOf
        <4>4. wait(order[b][OrderOf(m.order, w)], m.order.phase)
          BY Zenon DEF OrderWait
        <4> QED BY <4>1, <4>3, <4>4, <4>5 DEF wait
      <3>3. MmaEnded(b, v) = Turn(b, w) + w
        BY <1>0, <1>7, <1>8, <3>1, <3>2, ParityTells
      <3>4. MmaBegun(b, w)' = Turn(b, w) + 1 /\ StoreBegun(b, w)' = StoreBegun(b, w)
        BY <1>1, <1>5, <2>1 DEF MmaBegun, StoreBegun, Past, Moves
      <3> QED BY <1>0, <1>3, <1>4, <1>5, <1>7, <1>8, <3>3, <3>4, TurnKept
    <2>2. CASE m.pc = "order_store"
      <3>1. StoreBegun(b, w) = Turn(b, w)
        BY <2>2 DEF StoreBegun, Past
      <3>2. Turn(b, v) % 2 # (Turn(b, w) + 1 - w) % 2
        <4>1. m.order.index = 1 /\ m.order.phase = (Turn(b, w) + 1 - w) % 2
          BY <1>2, <2>2 DEF PipelineState
        <4>2. order[b][<<1, w>>] = OrderBarrier(Turn(b, v))
          BY Zenon DEF BlockInv, BarrierInv
        <4>5. order[b][<<1, w>>].phases = Turn(b, v)
          BY <4>2, PhasesOf
        <4>3. OrderOf(m.order, w) = <<1, w>>
          BY <4>1 DEF OrderOf
        <4>4. wait(order[b][OrderOf(m.order, w)], m.order.phase)
          BY Zenon DEF OrderWait
        <4> QED BY <4>1, <4>3, <4>4, <4>5 DEF wait
      <3>3. Turn(b, v) = Turn(b, w) + w
        BY <1>0, <1>7, <1>8, <3>1, <3>2, ParityTells
      <3>4. StoreBegun(b, w)' = Turn(b, w) + 1 /\ MmaBegun(b, w)' = MmaBegun(b, w)
        BY <1>1, <1>5, <2>2 DEF MmaBegun, StoreBegun, Past, Moves
      <3> QED BY <1>0, <1>3, <1>4, <1>5, <1>7, <1>8, <3>3, <3>4, TurnKept
    <2> QED BY <1>2, <2>1, <2>2
  <1>10. BarrierInv(b)'
    BY <1>0, <1>4, <1>5, <1>6, EitherGroup DEF BlockInv, BarrierInv
  <1>11. StoredInv(b)'
    BY <1>4, <1>5, <1>6 DEF BlockInv, StoredInv, WarpGroups
  <1> QED BY <1>3, <1>9, <1>10, <1>11 DEF BlockInv

\* Steps within the mainloop.
LEMMA QuietKeeps ==
    ASSUME NEW b \in CTAs, BlockInv(b), NEW w \in WarpGroups,
           Moves(b, w, math[b][w].pc, math[b][w].tile, math[b][w].order),
           order'[b] = order[b], stored'[b] = stored[b]
    PROVE  BlockInv(b)'
  <1>1. \A v \in WarpGroups : /\ math'[b][v].pc = math[b][v].pc
                              /\ math'[b][v].tile = math[b][v].tile
                              /\ math'[b][v].order = math[b][v].order
    BY EitherGroup DEF Moves
  <1>2. \A v \in WarpGroups :
            /\ Turn(b, v)' = Turn(b, v) /\ MmaBegun(b, v)' = MmaBegun(b, v)
            /\ MmaEnded(b, v)' = MmaEnded(b, v) /\ StoreBegun(b, v)' = StoreBegun(b, v)
    BY <1>1 DEF Turn, MmaBegun, MmaEnded, StoreBegun, Past
  <1>3. PlaceInv(b)'
    BY <1>1, <1>2 DEF BlockInv, PlaceInv
  <1>4. BarrierInv(b)'
    BY <1>2, Groups DEF BlockInv, BarrierInv
  <1>5. TurnInv(b)'
    BY <1>2 DEF BlockInv, TurnInv, WarpGroups
  <1>6. StoredInv(b)'
    BY <1>2 DEF BlockInv, StoredInv, WarpGroups
  <1> QED BY <1>3, <1>4, <1>5, <1>6 DEF BlockInv

\* An arrival is the next phase of the other group's barrier.
LEMMA ArriveCounts ==
    ASSUME Pingpong, ShapeInv, NEW b \in CTAs, NEW w \in WarpGroups, NEW i \in {0, 1},
           math[b][w].order.index = i, NEW n \in Nat,
           order[b][<<i, 1 - w>>] = OrderBarrier(n), OrderArrive(b, w)
    PROVE  /\ order'[b][<<i, 1 - w>>] = OrderBarrier(n + 1)
           /\ \A c \in CTAs \ {b} : order'[c] = order[c]
           /\ \A o \in DOMAIN order[b] : o # <<i, 1 - w>> => order'[b][o] = order[b][o]
           /\ DOMAIN order' = DOMAIN order
           /\ \A c \in CTAs : DOMAIN order'[c] = DOMAIN order[c]
  <1> DEFINE o == <<i, 1 - w>>
  <1>1. o \in DOMAIN order[b]
    BY Groups DEF ShapeInv, OrderDepth
  <1>2. order' = [order EXCEPT ![b][o] = arrive(order[b][o])]
    BY DEF OrderArrive, OrderOf
  <1>3. arrive(order[b][o]) = OrderBarrier(n + 1)
    BY Arrives
  <1> HIDE DEF o
  <1>4. order'[b][o] = OrderBarrier(n + 1)
    BY <1>1, <1>2, <1>3, Zenon DEF ShapeInv
  <1>5. \A c \in CTAs \ {b} : order'[c] = order[c]
    BY <1>2, Zenon DEF ShapeInv
  <1>6. \A p \in DOMAIN order[b] : p # o => order'[b][p] = order[b][p]
    BY <1>1, <1>2, Zenon DEF ShapeInv
  <1>7. DOMAIN order' = DOMAIN order /\ \A c \in CTAs : DOMAIN order'[c] = DOMAIN order[c]
    BY <1>2, Zenon DEF ShapeInv
  <1> QED BY <1>4, <1>5, <1>6, <1>7 DEF o

\* From the mainloop to the epilogue: no barrier of the order is touched.
LEMMA MmaTailKeeps ==
    ASSUME Pingpong, ShapeInv, NEW b \in CTAs, BlockInv(b), NEW w \in WarpGroups, MmaTail(b, w)
    PROVE  BlockInv(b)'
  <1> DEFINE m == math[b][w]
  <1>1. Moves(b, w, "order_store", m.tile, m.order)
    BY MmaTailMoves
  <1>2. m.pc = "mma_tail" /\ m.tile \in Nat /\ m.tile % 2 = w
        /\ m.order = PipelineState(1, (m.tile \div 2 + 1 - w) % 2)
    BY DEF BlockInv, PlaceInv, Turn, MmaTail
  <1>3. PlaceInv(b)'
    BY <1>1, <1>2, PlaceKept DEF BlockInv
  <1>4. \A v \in WarpGroups :
            /\ Turn(b, v)' = Turn(b, v) /\ MmaBegun(b, v)' = MmaBegun(b, v)
            /\ MmaEnded(b, v)' = MmaEnded(b, v) /\ StoreBegun(b, v)' = StoreBegun(b, v)
    BY <1>1, <1>2, EitherGroup DEF Moves, Turn, MmaBegun, MmaEnded, StoreBegun, Past
  <1>5. order' = order /\ stored' = stored
    BY Zenon DEF MmaTail
  <1>6. BarrierInv(b)'
    BY <1>4, <1>5, Groups DEF BlockInv, BarrierInv
  <1>7. TurnInv(b)'
    BY <1>4 DEF BlockInv, TurnInv, WarpGroups
  <1>8. StoredInv(b)'
    BY <1>4, <1>5 DEF BlockInv, StoredInv, WarpGroups
  <1> QED BY <1>3, <1>6, <1>7, <1>8 DEF BlockInv

\* The other group's barrier of the mainloop, and its own of the epilogue,
\* count what this group has left.
LEMMA MmaEndsKeeps ==
    ASSUME Pingpong, ShapeInv, NEW b \in CTAs, BlockInv(b), NEW w \in WarpGroups, MmaEnds(b, w)
    PROVE  BlockInv(b)'
  <1> DEFINE m == math[b][w]
             v == 1 - w
  <1>0. v \in WarpGroups /\ 1 - v = w /\ v # w /\ w \in {0, 1}
    BY DEF WarpGroups
  <1>1. Moves(b, w, "mma_tail", m.tile, NextOrder(m.order))
    BY MmaEndsMoves
  <1>2. m.pc = "mma" /\ m.tile \in Nat /\ m.tile % 2 = w
        /\ m.order = PipelineState(0, (m.tile \div 2 + 1 - w) % 2)
    BY DEF BlockInv, PlaceInv, Turn, MmaEnds
  <1>3. NextOrder(m.order) = PipelineState(1, (m.tile \div 2 + 1 - w) % 2)
    BY <1>2 DEF NextOrder, Incremented, PipelineState, OrderDepth
  <1>4. PlaceInv(b)'
    BY <1>1, <1>2, <1>3, PlaceKept DEF BlockInv
  <1>5. /\ Turn(b, v)' = Turn(b, v) /\ MmaBegun(b, v)' = MmaBegun(b, v)
        /\ MmaEnded(b, v)' = MmaEnded(b, v) /\ StoreBegun(b, v)' = StoreBegun(b, v)
    BY <1>1, OtherGroup DEF Moves
  <1>6. /\ Turn(b, w)' = Turn(b, w) /\ MmaBegun(b, w)' = MmaBegun(b, w)
        /\ StoreBegun(b, w)' = StoreBegun(b, w)
        /\ MmaEnded(b, w) = Turn(b, w) /\ MmaEnded(b, w)' = Turn(b, w) + 1
    BY <1>1, <1>2 DEF Moves, Turn, MmaBegun, MmaEnded, StoreBegun, Past
  <1>7. stored' = stored /\ OrderArrive(b, w)
    BY Zenon DEF MmaEnds
  <1>8. BarrierInv(b)'
    <2>1. order[b][<<0, v>>] = OrderBarrier(Turn(b, w))
      <3>1. order[b][<<0, v>>] = OrderBarrier(MmaEnded(b, 1 - v))
        BY <1>0, Zenon DEF BlockInv, BarrierInv
      <3> QED BY <1>0, <1>6, <3>1
    <2>2. m.order.index = 0 /\ Turn(b, w) \in Nat
      BY <1>2, Counts DEF PipelineState, BlockInv
    <2>3. /\ order'[b][<<0, v>>] = OrderBarrier(Turn(b, w) + 1)
          /\ \A o \in DOMAIN order[b] : o # <<0, v>> => order'[b][o] = order[b][o]
      BY <1>7, <2>1, <2>2, ArriveCounts
    <2>4. {<<0, w>>, <<1, w>>, <<1, v>>} \subseteq DOMAIN order[b]
      BY <1>0 DEF ShapeInv, OrderDepth
    <2>5. order'[b][<<0, w>>] = order[b][<<0, w>>]
      BY <1>0, <2>3, <2>4
    <2>6. order'[b][<<1, w>>] = order[b][<<1, w>>] /\ order'[b][<<1, v>>] = order[b][<<1, v>>]
      BY <2>3, <2>4
    <2>7. order'[b][<<0, v>>] = OrderBarrier(MmaEnded(b, w)')
      BY <1>6, <2>3
    <2>8. order'[b][<<0, w>>] = OrderBarrier(MmaEnded(b, v)')
      BY <1>5, <2>5, Zenon DEF BlockInv, BarrierInv
    <2>9. order'[b][<<1, v>>] = OrderBarrier(Turn(b, w)')
      <3>1. order[b][<<1, v>>] = OrderBarrier(Turn(b, 1 - v))
        BY <1>0, Zenon DEF BlockInv, BarrierInv
      <3> QED BY <1>0, <1>6, <2>6, <3>1
    <2>10. order'[b][<<1, w>>] = OrderBarrier(Turn(b, v)')
      BY <1>5, <2>6, Zenon DEF BlockInv, BarrierInv
    <2> SUFFICES ASSUME NEW u \in WarpGroups
                 PROVE  /\ order'[b][<<0, u>>] = OrderBarrier(MmaEnded(b, 1 - u)')
                        /\ order'[b][<<1, u>>] = OrderBarrier(Turn(b, 1 - u)')
      BY DEF BarrierInv
    <2>11. CASE u = w
      BY <2>8, <2>10, <2>11
    <2>12. CASE u = v
      BY <1>0, <2>7, <2>9, <2>12
    <2> QED BY <2>11, <2>12, EitherGroup
  <1>9. TurnInv(b)'
    <2>1. /\ MmaBegun(b, w) <= MmaEnded(b, v) + 1 - w
          /\ StoreBegun(b, w) <= Turn(b, v) + 1 - w
          /\ MmaBegun(b, v) <= MmaEnded(b, w) + 1 - v
          /\ StoreBegun(b, v) <= Turn(b, w) + 1 - v
      BY <1>0, TurnInvOf DEF BlockInv
    <2>2. Turn(b, w) \in Nat /\ MmaBegun(b, v) \in Nat
      BY <1>0, Counts DEF BlockInv
    <2>3. \A n \in Nat : n + 1 - v = n + w
      BY <1>0
    <2>4. MmaBegun(b, v)' <= MmaEnded(b, w)' + w /\ StoreBegun(b, v)' <= Turn(b, w)' + w
      BY <1>0, <1>5, <1>6, <2>1, <2>2, <2>3
    <2> QED BY <1>4, <1>5, <1>6, <2>1, <2>4, TurnKept
  <1>10. StoredInv(b)'
    BY <1>0, <1>5, <1>6, <1>7 DEF BlockInv, StoredInv, WarpGroups
  <1> QED BY <1>4, <1>8, <1>9, <1>10 DEF BlockInv

\* The state a group takes to its next tile.
LEMMA NextTurn ==
    ASSUME NEW tile \in Nat, NEW w \in {0, 1}, tile % 2 = w
    PROVE  /\ (tile + 2) % 2 = w /\ (tile + 2) \div 2 = tile \div 2 + 1
           /\ 1 - ((tile \div 2 + 1 - w) % 2) = (tile \div 2 + 1 + 1 - w) % 2
           /\ tile = 2 * (tile \div 2) + w
  OBVIOUS

\* A group stores its tile when the two have stored all before it.
LEMMA StoreKeeps ==
    ASSUME Pingpong, ShapeInv, NEW b \in CTAs, BlockInv(b), NEW w \in WarpGroups, Store(b, w)
    PROVE  BlockInv(b)'
  <1> DEFINE m == math[b][w]
             v == 1 - w
  <1>0. v \in WarpGroups /\ 1 - v = w /\ v # w /\ w \in {0, 1}
    BY DEF WarpGroups
  <1>1. Moves(b, w, FirstPc(m.tile + 2), m.tile + 2, NextOrder(m.order))
    BY StoreMoves
  <1>2. m.pc = "store" /\ m.tile \in Nat /\ m.tile % 2 = w
        /\ m.order = PipelineState(1, (m.tile \div 2 + 1 - w) % 2)
    BY DEF BlockInv, PlaceInv, Turn, Store
  <1>3. NextOrder(m.order) = PipelineState(0, 1 - ((m.tile \div 2 + 1 - w) % 2))
    BY <1>2 DEF NextOrder, Incremented, PipelineState, OrderDepth
  <1>4. FirstPc(m.tile + 2) \in {"exit", "order_mma"}
    BY DEF FirstPc
  <1>5. PlaceInv(b)'
    <2> DEFINE pc == FirstPc(m.tile + 2)
               tile == m.tile + 2
    <2>1. pc \in {"exit", "order_mma"} /\ tile \in Nat /\ tile % 2 = w
      BY <1>0, <1>2, <1>4, NextTurn
    <2>2. NextOrder(m.order) =
            PipelineState(IF pc \in {"mma_tail", "order_store", "store"} THEN 1 ELSE 0,
                          (tile \div 2 + 1 - w) % 2)
      BY <1>0, <1>2, <1>3, <2>1, NextTurn
    <2>3. Moves(b, w, pc, tile, NextOrder(m.order))
      BY <1>1
    <2> HIDE DEF pc, tile
    <2> QED BY <2>1, <2>2, <2>3, PlaceKept DEF BlockInv
  <1>6. /\ Turn(b, v)' = Turn(b, v) /\ MmaBegun(b, v)' = MmaBegun(b, v)
        /\ MmaEnded(b, v)' = MmaEnded(b, v) /\ StoreBegun(b, v)' = StoreBegun(b, v)
    BY <1>1, OtherGroup DEF Moves
  <1>7. /\ Turn(b, w)' = Turn(b, w) + 1 /\ MmaBegun(b, w)' = MmaBegun(b, w)
        /\ MmaEnded(b, w)' = MmaEnded(b, w) /\ StoreBegun(b, w)' = StoreBegun(b, w)
        /\ StoreBegun(b, w) = Turn(b, w) + 1
    <2>1. math'[b][w].pc \in {"exit", "order_mma"} /\ math'[b][w].tile = m.tile + 2
      BY <1>1, <1>4 DEF Moves
    <2>2. Turn(b, w)' = Turn(b, w) + 1
      BY <1>0, <1>2, <2>1, NextTurn DEF Turn
    <2> QED BY <1>2, <2>1, <2>2 DEF MmaBegun, MmaEnded, StoreBegun, Past
  <1>8. stored' = [stored EXCEPT ![b] = Append(@, <<m.tile, w>>)] /\ OrderArrive(b, w)
    BY Zenon DEF Store
  <1>9. /\ Turn(b, w) \in Nat /\ Turn(b, v) \in Nat /\ StoreBegun(b, v) \in Nat
        /\ Turn(b, v) <= StoreBegun(b, v)
    BY <1>0, Counts DEF BlockInv
  <1>10. /\ MmaBegun(b, w) <= MmaEnded(b, v) + 1 - w
         /\ StoreBegun(b, w) <= Turn(b, v) + 1 - w
         /\ MmaBegun(b, v) <= MmaEnded(b, w) + w
         /\ StoreBegun(b, v) <= Turn(b, w) + w
    <2>1. MmaEnded(b, w) \in Nat
      BY Counts DEF BlockInv
    <2>2. \A n \in Nat : n + 1 - v = n + w
      BY <1>0
    <2> QED BY <1>0, <1>9, <2>1, <2>2, TurnInvOf DEF BlockInv
  <1>11. BarrierInv(b)'
    <2>1. order[b][<<1, v>>] = OrderBarrier(Turn(b, w))
      <3>1. order[b][<<1, v>>] = OrderBarrier(Turn(b, 1 - v))
        BY <1>0, Zenon DEF BlockInv, BarrierInv
      <3> QED BY <1>0, <3>1
    <2>2. m.order.index = 1
      BY <1>2 DEF PipelineState
    <2>3. /\ order'[b][<<1, v>>] = OrderBarrier(Turn(b, w) + 1)
          /\ \A o \in DOMAIN order[b] : o # <<1, v>> => order'[b][o] = order[b][o]
      BY <1>8, <1>9, <2>1, <2>2, ArriveCounts
    <2>4. {<<0, w>>, <<1, w>>, <<0, v>>} \subseteq DOMAIN order[b]
      BY <1>0 DEF ShapeInv, OrderDepth
    <2>5. order'[b][<<1, w>>] = order[b][<<1, w>>]
      BY <1>0, <2>3, <2>4
    <2>6. order'[b][<<0, w>>] = order[b][<<0, w>>] /\ order'[b][<<0, v>>] = order[b][<<0, v>>]
      BY <2>3, <2>4
    <2>7. order'[b][<<1, v>>] = OrderBarrier(Turn(b, w)')
      BY <1>7, <2>3
    <2>8. order'[b][<<1, w>>] = OrderBarrier(Turn(b, v)')
      BY <1>6, <2>5, Zenon DEF BlockInv, BarrierInv
    <2>9. order'[b][<<0, v>>] = OrderBarrier(MmaEnded(b, w)')
      <3>1. order[b][<<0, v>>] = OrderBarrier(MmaEnded(b, 1 - v))
        BY <1>0, Zenon DEF BlockInv, BarrierInv
      <3> QED BY <1>0, <1>7, <2>6, <3>1
    <2>10. order'[b][<<0, w>>] = OrderBarrier(MmaEnded(b, v)')
      BY <1>6, <2>6, Zenon DEF BlockInv, BarrierInv
    <2> SUFFICES ASSUME NEW u \in WarpGroups
                 PROVE  /\ order'[b][<<0, u>>] = OrderBarrier(MmaEnded(b, 1 - u)')
                        /\ order'[b][<<1, u>>] = OrderBarrier(Turn(b, 1 - u)')
      BY DEF BarrierInv
    <2>11. CASE u = w
      BY <2>8, <2>10, <2>11
    <2>12. CASE u = v
      BY <1>0, <2>7, <2>9, <2>12
    <2> QED BY <2>11, <2>12, EitherGroup
  <1>12. TurnInv(b)'
    <2>1. StoreBegun(b, v)' <= Turn(b, w)' + w
      BY <1>0, <1>6, <1>7, <1>9, <1>10
    <2> QED BY <1>5, <1>6, <1>7, <1>10, <2>1, TurnKept
  <1>13. StoredInv(b)'
    <2>1. Turn(b, v) = Turn(b, w) + w
      BY <1>0, <1>7, <1>9, <1>10
    <2>2. Turn(b, 0) + Turn(b, 1) = Turn(b, w) + Turn(b, v)
      <3>1. w = 0 => v = 1
        OBVIOUS
      <3>2. w = 1 => v = 0
        OBVIOUS
      <3>3. CASE w = 0
        BY <3>1, <3>3
      <3>4. CASE w = 1
        BY <1>9, <3>2, <3>4
      <3> QED BY <1>0, <3>3, <3>4
    <2>3. Turn(b, 0)' + Turn(b, 1)' = Turn(b, 0) + Turn(b, 1) + 1
      <3>1. Turn(b, 0) \in Nat /\ Turn(b, 1) \in Nat
        BY Counts DEF BlockInv, WarpGroups
      <3>2. CASE w = 0
        BY <1>6, <1>7, <3>1, <3>2
      <3>3. CASE w = 1
        BY <1>6, <1>7, <3>1, <3>3
      <3> QED BY <1>0, <3>2, <3>3
    <2>4. Len(stored[b]) = m.tile
      <3>1. m.tile = 2 * Turn(b, w) + w
        BY <1>0, <1>2, NextTurn DEF Turn
      <3> QED BY <1>0, <1>9, <2>1, <2>2, <3>1 DEF BlockInv, StoredInv
    <2>5. stored'[b] = Append(stored[b], <<m.tile, w>>)
      BY <1>8 DEF ShapeInv
    <2>6. stored[b] \in Seq(Nat \X WarpGroups) /\ <<m.tile, w>> \in Nat \X WarpGroups
      BY <1>2 DEF BlockInv, StoredInv
    <2>7. stored'[b] \in Seq(Nat \X WarpGroups) /\ Len(stored'[b]) = Len(stored[b]) + 1
      BY <2>5, <2>6
    <2>8. ASSUME NEW i \in DOMAIN stored'[b]
          PROVE  stored'[b][i] = <<i - 1, (i - 1) % 2>>
      <3>1. i \in 1 .. Len(stored[b]) + 1
        BY <2>7
      <3>2. CASE i = Len(stored[b]) + 1
        <4>1. stored'[b][i] = <<m.tile, w>>
          BY <2>5, <2>6, <3>2
        <4>2. i - 1 = m.tile
          BY <1>2, <2>4, <3>2
        <4> QED BY <1>2, <4>1, <4>2
      <3>3. CASE i \in 1 .. Len(stored[b])
        <4>1. stored'[b][i] = stored[b][i]
          BY <2>5, <2>6, <3>3
        <4>2. i \in DOMAIN stored[b]
          BY <2>6, <3>3
        <4>3. \A j \in DOMAIN stored[b] : stored[b][j] = <<j - 1, (j - 1) % 2>>
          BY ZenonT(40) DEF BlockInv, StoredInv
        <4> QED BY <4>1, <4>2, <4>3, ZenonT(40)
      <3>4. i = Len(stored[b]) + 1 \/ i \in 1 .. Len(stored[b])
        <4>1. PICK len \in Nat : len = Len(stored[b])
          BY <2>6
        <4> QED BY <3>1, <4>1
      <3> QED BY <3>2, <3>3, <3>4, Zenon
    <2>9. Len(stored[b]) = Turn(b, 0) + Turn(b, 1)
      BY DEF BlockInv, StoredInv
    <2> QED BY <2>3, <2>7, <2>8, <2>9 DEF StoredInv
  <1> QED BY <1>5, <1>11, <1>12, <1>13 DEF BlockInv

-----------------------------------------------------------------------------

\* The invariant of the order barriers, initially and step by step.
LEMMA InitIInv == Init => IInv
  <1> SUFFICES ASSUME Init, Pingpong
               PROVE  ShapeInv /\ \A b \in CTAs : BlockInv(b)
    BY DEF IInv
  <1>1. DOMAIN math = CTAs /\ DOMAIN order = CTAs /\ DOMAIN stored = CTAs
    BY DEF Init
  <1>2. ASSUME NEW b \in CTAs, NEW w \in WarpGroups
        PROVE  /\ math[b][w].pc \in {"exit", "order_mma"}
               /\ math[b][w].tile = w
               /\ math[b][w].order = PipelineState(0, IF w = 0 THEN 1 ELSE 0)
               /\ DOMAIN math[b][w] = MathFields
               /\ DOMAIN math[b] = WarpGroups
    <2>1. math[b] = [v \in WarpGroups |-> FirstMath(v)]
      BY DEF Init
    <2>2. FirstPc(w) \in {"exit", "order_mma"}
      BY DEF FirstPc
    <2>3. /\ FirstMath(w).pc = FirstPc(w) /\ FirstMath(w).tile = w
          /\ FirstMath(w).order = PipelineState(0, IF w = 0 THEN 1 ELSE 0)
          /\ DOMAIN FirstMath(w) = MathFields
      BY DEF FirstMath, MathFields
    <2> QED BY <2>1, <2>2, <2>3
  <1>3. ASSUME NEW b \in CTAs
        PROVE  /\ DOMAIN order[b] = (0 .. OrderDepth - 1) \X WarpGroups
               /\ \A o \in (0 .. OrderDepth - 1) \X WarpGroups : order[b][o] = OrderBarrier(0)
               /\ stored[b] = <<>>
    BY DEF Init, Barrier, OrderBarrier
  <1>4. ShapeInv
    BY <1>1, <1>2, <1>3 DEF ShapeInv, WarpGroups
  <1>5. ASSUME NEW b \in CTAs
        PROVE  BlockInv(b)
    <2>1. \A w \in WarpGroups :
              /\ Turn(b, w) = 0 /\ MmaBegun(b, w) = 0
              /\ MmaEnded(b, w) = 0 /\ StoreBegun(b, w) = 0
      BY <1>2 DEF Turn, MmaBegun, MmaEnded, StoreBegun, Past, WarpGroups
    <2>2. PlaceInv(b)
      <3>1. \A w \in WarpGroups : (0 + 1 - w) % 2 = (IF w = 0 THEN 1 ELSE 0) /\ w \in Nat /\ w % 2 = w
        BY DEF WarpGroups
      <3> QED BY <1>2, <2>1, <3>1 DEF PlaceInv
    <2>3. BarrierInv(b)
      <3>1. \A w \in WarpGroups : {<<0, w>>, <<1, w>>} \subseteq (0 .. OrderDepth - 1) \X WarpGroups
        BY DEF OrderDepth
      <3> QED BY <1>3, <2>1, <3>1, Groups DEF BarrierInv
    <2>4. TurnInv(b)
      BY <2>1 DEF TurnInv, WarpGroups
    <2>5. StoredInv(b)
      <3>1. stored[b] = <<>> /\ Turn(b, 0) = 0 /\ Turn(b, 1) = 0
        BY <1>3, <2>1 DEF WarpGroups
      <3> QED BY <3>1 DEF StoredInv
    <2> QED BY <2>2, <2>3, <2>4, <2>5 DEF BlockInv
  <1> QED BY <1>4, <1>5

\* A step of a math warp group.
LEMMA WarpGroupKeeps ==
    ASSUME Pingpong, ShapeInv, \A c \in CTAs : BlockInv(c),
           NEW b \in CTAs, NEW w \in WarpGroups, WarpGroup(b, w)
    PROVE  ShapeInv' /\ \A c \in CTAs : BlockInv(c)'
  <1>1. launch' = launch
    BY Zenon DEF WarpGroup, OrderWait, Mma, MmaRelease, MmaEnds, MmaTail, Store
  <1>2. ASSUME BlockInv(b)', NEW pc, NEW tile, NEW order_, Moves(b, w, pc, tile, order_),
               DOMAIN order' = DOMAIN order, DOMAIN stored' = DOMAIN stored,
               \A c \in CTAs : DOMAIN order'[c] = DOMAIN order[c],
               \A c \in CTAs \ {b} : order'[c] = order[c] /\ stored'[c] = stored[c]
        PROVE  ShapeInv' /\ \A c \in CTAs : BlockInv(c)'
    <2>1. ShapeInv'
      BY <1>1, <1>2, ShapeKept
    <2>2. ASSUME NEW c \in CTAs, c # b
          PROVE  BlockInv(c)'
      BY <1>2, <2>2, OtherBlock DEF Moves
    <2> QED BY <1>2, <2>1, <2>2
  <1>3. CASE OrderWait(b, w)
    <2>1. order' = order /\ stored' = stored
      BY <1>3, Zenon DEF OrderWait
    <2> QED BY <1>2, <1>3, <2>1, OrderWaitMoves, OrderWaitKeeps
  <1>4. CASE Mma(b, w)
    <2>1. order' = order /\ stored' = stored
      BY <1>4, Zenon DEF Mma
    <2> QED BY <1>2, <1>4, <2>1, MmaMoves, QuietKeeps
  <1>5. CASE MmaRelease(b, w)
    <2>1. order' = order /\ stored' = stored
      BY <1>5, Zenon DEF MmaRelease
    <2> QED BY <1>2, <1>5, <2>1, MmaReleaseMoves, QuietKeeps
  <1>6. ASSUME NEW i \in {0, 1}, math[b][w].order.index = i, OrderArrive(b, w)
        PROVE  /\ \A c \in CTAs \ {b} : order'[c] = order[c]
               /\ DOMAIN order' = DOMAIN order
               /\ \A c \in CTAs : DOMAIN order'[c] = DOMAIN order[c]
    <2>1. PICK n \in Nat : order[b][<<i, 1 - w>>] = OrderBarrier(n)
      <3> DEFINE v == 1 - w
      <3>1. v \in WarpGroups /\ 1 - v = w
        BY Groups
      <3>2. /\ order[b][<<0, v>>] = OrderBarrier(MmaEnded(b, 1 - v))
            /\ order[b][<<1, v>>] = OrderBarrier(Turn(b, 1 - v))
        BY <3>1, Zenon DEF BlockInv, BarrierInv
      <3>3. MmaEnded(b, w) \in Nat /\ Turn(b, w) \in Nat
        BY Counts DEF BlockInv
      <3>4. CASE i = 0
        BY <3>1, <3>2, <3>3, <3>4
      <3>5. CASE i = 1
        BY <3>1, <3>2, <3>3, <3>5
      <3> QED BY <3>4, <3>5
    <2> QED BY <1>6, <2>1, ArriveCounts
  <1>7. CASE MmaEnds(b, w)
    <2>1. stored' = stored /\ OrderArrive(b, w)
      BY <1>7, Zenon DEF MmaEnds
    <2>2. math[b][w].order.index = 0
      <3>1. math[b][w].pc = "mma"
        BY <1>7, Zenon DEF MmaEnds
      <3>2. math[b][w].order = PipelineState(0, (Turn(b, w) + 1 - w) % 2)
        BY <3>1 DEF BlockInv, PlaceInv
      <3> QED BY <3>2 DEF PipelineState
    <2> QED BY <1>2, <1>6, <1>7, <2>1, <2>2, MmaEndsMoves, MmaEndsKeeps
  <1>8. CASE MmaTail(b, w)
    <2>1. order' = order /\ stored' = stored
      BY <1>8, Zenon DEF MmaTail
    <2> QED BY <1>2, <1>8, <2>1, MmaTailMoves, MmaTailKeeps
  <1>9. CASE Store(b, w)
    <2>1. OrderArrive(b, w)
      BY <1>9, Zenon DEF Store
    <2>2. math[b][w].order.index = 1
      <3>1. math[b][w].pc = "store"
        BY <1>9, Zenon DEF Store
      <3>2. math[b][w].order = PipelineState(1, (Turn(b, w) + 1 - w) % 2)
        BY <3>1 DEF BlockInv, PlaceInv
      <3> QED BY <3>2 DEF PipelineState
    <2>3. PICK tiles : stored' = [stored EXCEPT ![b] = tiles]
      BY <1>9, Zenon DEF Store
    <2>4. DOMAIN stored' = DOMAIN stored /\ \A c \in CTAs \ {b} : stored'[c] = stored[c]
      BY <2>3 DEF ShapeInv
    <2> QED BY <1>2, <1>6, <1>9, <2>1, <2>2, <2>4, StoreMoves, StoreKeeps
  <1> QED BY <1>3, <1>4, <1>5, <1>7, <1>8, <1>9 DEF WarpGroup

LEMMA NextIInv == IInv /\ [Next]_vars => IInv'
  <1> SUFFICES ASSUME IInv, [Next]_vars, Pingpong'
               PROVE  ShapeInv' /\ \A b \in CTAs' : BlockInv(b)'
    BY DEF IInv
  <1>1. launch' = launch
    <2>1. ASSUME NEW b, NEW w, WarpGroup(b, w)
          PROVE  launch' = launch
      BY <2>1, Zenon DEF WarpGroup, OrderWait, Mma, MmaRelease, MmaEnds, MmaTail, Store
    <2>2. ASSUME NEW b, Producer(b)
          PROVE  launch' = launch
      BY <2>2, Zenon DEF Producer, Load, LoadTail
    <2>3. ASSUME NEW m, CopyLands(m) \/ ArrivalLands(m)
          PROVE  launch' = launch
      BY <2>3, Zenon DEF CopyLands, ArrivalLands
    <2>4. Done \/ UNCHANGED vars => launch' = launch
      BY Zenon DEF Done, vars
    <2> QED BY <2>1, <2>2, <2>3, <2>4, Zenon DEF Next
  <1>2. CTAs' = CTAs /\ Pingpong
    BY <1>1 DEF CTAs, Pingpong
  <1>3. ShapeInv /\ \A b \in CTAs : BlockInv(b)
    BY <1>2 DEF IInv
  <1>4. CASE \E b \in CTAs, w \in WarpGroups : WarpGroup(b, w)
    BY <1>2, <1>3, <1>4, WarpGroupKeeps
  <1>5. CASE UNCHANGED <<math, order, stored>>
    <2>1. ShapeInv'
      BY <1>2, <1>3, <1>5 DEF ShapeInv
    <2> QED BY <1>2, <1>3, <1>5, <2>1, OtherBlock
  <1>6. \/ \E b \in CTAs, w \in WarpGroups : WarpGroup(b, w)
        \/ UNCHANGED <<math, order, stored>>
    BY Zenon DEF Next, vars, Producer, Load, LoadTail, CopyLands, ArrivalLands, Done
  <1> QED BY <1>4, <1>5, <1>6

\* The groups are never in the same place, by counting: each has begun as
\* often as the other has ended, give or take the one turn of Consumer0.
LEMMA IInvTakesTurns == IInv => TakesTurns
  <1> SUFFICES ASSUME IInv, Pingpong, NEW b \in CTAs
               PROVE  /\ \A phase \in {"mma", "store"} : \E w \in WarpGroups : math[b][w].pc # phase
                      /\ \A i \in DOMAIN stored[b] : stored[b][i] = <<i - 1, (i - 1) % 2>>
    BY DEF TakesTurns
  <1>1. PlaceInv(b) /\ TurnInv(b) /\ StoredInv(b)
    BY DEF IInv, BlockInv
  <1>2. 0 \in WarpGroups /\ 1 \in WarpGroups
    BY DEF WarpGroups
  <1>3. Turn(b, 0) \in Nat /\ Turn(b, 1) \in Nat
    BY <1>1, <1>2, Counts
  <1>4. ~(math[b][0].pc = "mma" /\ math[b][1].pc = "mma")
    BY <1>1, <1>3 DEF TurnInv, MmaBegun, MmaEnded, Past
  <1>5. ~(math[b][0].pc = "store" /\ math[b][1].pc = "store")
    BY <1>1, <1>3 DEF TurnInv, StoreBegun, Past
  <1> QED BY <1>1, <1>2, <1>4, <1>5 DEF StoredInv

\* Pingpong: one math warp group at a time in the mainloop, one at a time in
\* the epilogue, and the tiles of a block are stored in order, by the two in
\* turn: for every launch, whatever the order in which copies and arrivals
\* land (OrderedSequenceBarrier, and the states the two groups start with).
THEOREM TurnsTaken == Spec => []TakesTurns
  <1>1. Spec => []IInv
    BY InitIInv, NextIInv, PTL DEF Spec
  <1> QED BY <1>1, IInvTakesTurns, PTL

-----------------------------------------------------------------------------
(* The mainloop pipeline.                                                  *)

\* The k tiles of all tiles of a block are numbered through; number i goes to
\* stage i % Depth.  A pipeline state that has come to number i.
Depth == launch.stages
At(i, parity) == PipelineState(i % Depth, (i \div Depth + parity) % 2)

\* The number a barrier is waiting for.
FullAt(b, s)  == full[b][s].phases * Depth + s
EmptyAt(b, s) == empty[b][s].phases * Depth + s

\* How far a producer has loaded and has waited for free stages, and how far a
\* math warp group has read and let go.
Loaded(b)   == producer[b].tile * K + producer[b].k
Awaited(b)  == Loaded(b) + producer[b].waited
Taken(b, w) == math[b][w].tile * K + math[b][w].k
LetGo(b, w) == Taken(b, w) - Len(math[b][w].reading)

\* The math warp groups that read number i.
Reads(w, i) == Pingpong => (i \div K) % 2 = w

PipeShape ==
    /\ full = [b \in CTAs |-> [s \in Stages |-> full[b][s]]]
    /\ empty = [b \in CTAs |-> [s \in Stages |-> empty[b][s]]]
    /\ producer = [b \in CTAs |-> producer[b]]
    /\ math = [b \in CTAs |-> [w \in WarpGroups |-> math[b][w]]]
    /\ smem = [b \in CTAs |-> [s \in Stages |-> [d \in Sharing(b) |-> smem[b][s][d]]]]

\* A producer has waited for every stage it has come to.
ProducerInv(b) ==
    LET p == producer[b]
    IN  /\ p = [pc |-> p.pc, tile |-> p.tile, k |-> p.k, waited |-> p.waited,
                pipe |-> At(p.tile * K + p.waited, 1), write |-> At(Loaded(b), 1)]
        /\ \/ p.pc = "load" /\ p.tile \in 0 .. launch.tiles - 1 /\ p.k \in 0 .. K - 1 /\ p.waited = 0
           \/ p.pc = "tail" /\ p.tile = launch.tiles /\ p.k = 0 /\ p.waited \in 0 .. Depth - 1
           \/ p.pc = "exit" /\ p.tile = launch.tiles /\ p.k = 0 /\ p.waited = Depth
        /\ \A s \in Stages : Awaited(b) <= EmptyAt(b, s) + Depth

Entry(i) == [stage |-> i % Depth, k |-> i]

\* A math warp group has read its tile, or reads it: then it holds the last
\* one or two k tiles it came to.
HasRead(b, w) == math[b][w].pc \in {"order_store", "store"}

MathShape(b, w) ==
    LET m == math[b][w]
    IN  /\ m = [pc |-> m.pc, tile |-> m.tile, pipe |-> m.pipe, read |-> m.read,
                release |-> m.release, k |-> m.k, reading |-> m.reading, order |-> m.order]
        /\ m.tile \in Nat /\ (Pingpong => m.tile % 2 = w)
        /\ m.pc = "exit" <=> launch.tiles <= m.tile
        /\ m.pc \in {"order_mma", "order_store"} => Pingpong

MathHolds(b, w) ==
    LET m == math[b][w]
        t == Taken(b, w)
    IN  \/ m.pc \in {"order_mma", "mma", "exit"} /\ m.k = 0 /\ m.reading = <<>>
        \/ m.pc = "mma" /\ m.k \in 1 .. K /\ m.reading = <<Entry(t - 1)>>
        \/ m.pc = "mma" /\ m.k \in 2 .. K /\ m.reading = <<Entry(t - 2), Entry(t - 1)>>
        \/ m.pc = "mma_tail" /\ m.k = K /\ m.reading = <<Entry(t - 1)>>
        \/ HasRead(b, w) /\ m.k = K /\ m.reading = <<>>

MathPipes(b, w) ==
    LET m == math[b][w]
    IN  /\ m.pipe = At((IF HasRead(b, w) THEN m.tile + TilesPerTurn ELSE m.tile) * K, 0)
        /\ m.read = IF HasRead(b, w) THEN m.pipe ELSE At(Taken(b, w), 0)
        /\ m.pc # "mma_tail" =>
             m.release = IF HasRead(b, w) THEN m.pipe ELSE At(LetGo(b, w), 0)

\* What it has passed it has read, if it is its to read.
MathReads(b, w) ==
    \A i \in Nat : i < Taken(b, w) /\ Reads(w, i) => i < FullAt(b, i % Depth)

MathInv(b, w) == MathShape(b, w) /\ MathHolds(b, w) /\ MathPipes(b, w) /\ MathReads(b, w)

BarrierOf(count, phases, pending, tx) ==
    [count |-> count, pending |-> pending, tx |-> tx, phases |-> phases]

\* The slices of the awaited number that have landed.
Landed(b, s) ==
    {d \in Sharing(b) : /\ FullAt(b, s) < Loaded(d)
                        /\ [from |-> d, to |-> b, stage |-> s, k |-> FullAt(b, s)] \notin copies}

\* What the slices of a set of blocks weigh in block b.
Weight(b, L) == Cardinality(L) + (IF b \in L THEN 1 ELSE 0)

\* A full barrier counts the landed slices of the number it waits for; the
\* other slices are of the number before.
FullInv(b, s) ==
    LET x == FullAt(b, s)
        n == full[b][s].phases
    IN  /\ n \in Nat
        /\ full[b][s] = BarrierOf(1, n, IF x < Loaded(b) THEN 0 ELSE 1,
                                  (IF x < Loaded(b) THEN TmaTransaction ELSE 0)
                                    - Weight(b, Landed(b, s)))
        /\ Landed(b, s) # Sharing(b)
        /\ \A d \in Sharing(b) :
             /\ x < Loaded(d) + Depth
             /\ smem[b][s][d] =
                  IF d \in Landed(b, s) THEN x ELSE IF n = 0 THEN NoData ELSE x - Depth

\* A copy on its way is of the number its barrier waits for.
CopyInv(m) ==
    /\ m = [from |-> m.from, to |-> m.to, stage |-> m.stage, k |-> m.k]
    /\ m.from \in CTAs /\ m.to \in Sharing(m.from) /\ m.stage \in Stages
    /\ m.k = FullAt(m.to, m.stage) /\ m.k < Loaded(m.from)

\* The readers of number i in the blocks that b loads into, and those whose
\* arrival at an empty barrier has been counted.
Everybody(b, i) == {c \in Sharing(b) \X WarpGroups : Reads(c[2], i)}
OnItsWay(c, b, s) ==
    \E m \in arrivals : m.from = c[1] /\ m.group = c[2] /\ m.to = b /\ m.stage = s
Freed(b, s) ==
    {c \in Everybody(b, EmptyAt(b, s)) : EmptyAt(b, s) < LetGo(c[1], c[2]) /\ ~OnItsWay(c, b, s)}
Consumers == (launch.cluster_m + launch.cluster_n - 1) * NumConsumerWarpGroups

\* An empty barrier counts the readers that have let go of the number it waits
\* for; nobody holds an earlier one.
EmptyInv(b, s) ==
    LET x == EmptyAt(b, s)
        n == empty[b][s].phases
    IN  /\ n \in Nat
        /\ empty[b][s] = BarrierOf(Consumers, n, Consumers - Cardinality(Freed(b, s)), 0)
        /\ Freed(b, s) # Everybody(b, x)
        /\ \A d \in Sharing(b), w \in WarpGroups, i \in 0 .. x - 1 :
             i % Depth = s /\ Reads(w, i) => i < LetGo(d, w)

\* An arrival on its way is of the number its barrier waits for.
ArrivalInv(m) ==
    /\ m = [from |-> m.from, group |-> m.group, thread |-> m.thread, to |-> m.to,
            stage |-> m.stage, k |-> m.k]
    /\ m.from \in CTAs /\ m.to \in Sharing(m.from) /\ m.to # m.from
    /\ m.group \in WarpGroups /\ m.stage \in Stages
    /\ m.thread \in Signals(m.from, launch.cluster_m, launch.cluster_n)
    /\ m.to = dst_blockid(m.thread)
    /\ m.k = EmptyAt(m.to, m.stage) /\ Reads(m.group, m.k) /\ m.k < LetGo(m.from, m.group)

LaunchOK == launch \in Launches

PipeInv ==
    /\ LaunchOK /\ PipeShape
    /\ \A b \in CTAs : ProducerInv(b)
    /\ \A b \in CTAs, w \in WarpGroups : MathInv(b, w)
    /\ \A b \in CTAs, s \in Stages : FullInv(b, s) /\ EmptyInv(b, s)
    /\ \A m \in copies : CopyInv(m)
    /\ \A m \in arrivals : ArrivalInv(m)

\* Cooperative has no use for the order barriers.
OrderRests ==
    ~Pingpong => \A b \in CTAs :
        /\ order[b] = [o \in (0 .. OrderDepth - 1) \X WarpGroups |-> Barrier(1)]
        /\ \A w \in WarpGroups : math[b][w].order = PipelineState(0, IF w = 0 THEN 1 ELSE 0)

-----------------------------------------------------------------------------
(* Positions, stages and phases.                                           *)



\* What a launch is.
LEMMA LaunchIs ==
    ASSUME LaunchOK
    PROVE  /\ Depth \in Nat \ {0, 1} /\ K \in Nat \ {0} /\ launch.tiles \in Nat
           /\ launch.cluster_m \in Nat \ {0} /\ launch.cluster_n \in Nat \ {0}
           /\ launch.cluster_m * launch.cluster_n \in 1 .. 16
           /\ CTAs = 0 .. launch.cluster_m * launch.cluster_n - 1
           /\ Stages = 0 .. Depth - 1
           /\ Pingpong \/ launch.kernel = "cooperative"
           /\ NumConsumerWarpGroups \in {1, 2} /\ TilesPerTurn \in {1, 2}
           /\ \A i, parity : At(i, parity) =
                PipelineState(i % Depth, (i \div Depth + parity) % 2)
  <1>1. launch.cluster_m \in Nat \ {0} /\ launch.cluster_n \in Nat \ {0}
    BY LaunchesAssumption DEF LaunchOK
  <1>2. \A a, b \in Nat \ {0} : 1 <= a * b /\ a * b \in Nat
    OBVIOUS
  <1>3. launch.cluster_m * launch.cluster_n \in 1 .. 16
    <2>1. launch.cluster_m * launch.cluster_n <= 16
      BY LaunchesAssumption DEF LaunchOK
    <2>2. 1 <= launch.cluster_m * launch.cluster_n /\ launch.cluster_m * launch.cluster_n \in Nat
      BY <1>1, <1>2
    <2> QED BY <2>1, <2>2
  <1> QED
    BY <1>1, <1>3, LaunchesAssumption DEF LaunchOK, Depth, K, CTAs, Blocks, Stages, Pingpong,
       NumConsumerWarpGroups, TilesPerTurn, At

\* Positions of one stage are a whole depth apart.
LEMMA Apart ==
    ASSUME NEW n \in Nat \ {0}, NEW p \in Nat, NEW q \in Nat, NEW s \in 0 .. n - 1
    PROVE  /\ p * n + s \in Nat /\ (p + 1) * n + s = p * n + s + n
           /\ p * n + s < q * n + s + n => p * n + s <= q * n + s
           /\ p * n + s < q * n + s => p * n + s + n <= q * n + s
           /\ p * n + s = q * n + s => p = q
           /\ p = 0 => p * n + s = s
           /\ p # 0 => n <= p * n + s
  <1>1. p * n \in Nat /\ q * n \in Nat /\ (p + 1) * n = p * n + n /\ (q + 1) * n = q * n + n
    BY TimesTypes
  <1>2. p * n + s < q * n + s + n => p * n <= q * n
    <2> SUFFICES ASSUME p * n + s < q * n + s + n PROVE p * n <= q * n
      OBVIOUS
    <2>1. p * n < (q + 1) * n
      BY <1>1
    <2>2. p < q + 1
      BY <2>1, TimesCancels
    <2>3. p <= q
      BY <2>2
    <2> QED BY <2>3, TimesMonotone
  <1>3. p * n + s < q * n + s => p * n + n <= q * n
    <2> SUFFICES ASSUME p * n + s < q * n + s PROVE p * n + n <= q * n
      OBVIOUS
    <2>1. p * n < q * n
      BY <1>1
    <2>2. p < q
      BY <2>1, TimesCancels
    <2>3. p + 1 <= q
      BY <2>2
    <2>4. (p + 1) * n <= q * n
      BY <2>3, TimesMonotone
    <2> QED BY <1>1, <2>4
  <1>4. p * n + s = q * n + s => p = q
    BY <1>1, QuotientUnique
  <1>5. p # 0 => n <= p * n
    <2>1. p # 0 => 1 * n <= p * n
      BY TimesMonotone
    <2> QED BY <2>1
  <1>6. p = 0 => p * n = 0
    OBVIOUS
  <1> QED BY <1>1, <1>2, <1>3, <1>4, <1>5, <1>6

\* The stage and the round of a position.
LEMMA PlaceOf ==
    ASSUME NEW n \in Nat \ {0}, NEW i \in Nat
    PROVE  /\ i % n \in 0 .. n - 1 /\ i \div n \in Nat /\ i = (i \div n) * n + (i % n)
           /\ \A p \in Nat, s \in 0 .. n - 1 :
                i = p * n + s => p = i \div n /\ s = i % n
  <1>1. i % n \in 0 .. n - 1 /\ i \div n \in Nat /\ i = (i \div n) * n + (i % n)
    BY Quotient
  <1>2. ASSUME NEW p \in Nat, NEW s \in 0 .. n - 1, i = p * n + s
        PROVE  p = i \div n /\ s = i % n
    BY <1>2, QuotientIs
  <1> QED BY <1>1, <1>2

\* PipelineState.advance and ++ move a position as they should, phase bit included.
LEMMA Advance ==
    ASSUME LaunchOK, NEW i \in Nat, NEW m \in Nat, NEW parity \in {0, 1}
    PROVE  after(At(i, parity), m) = At(i + m, parity)
  <1>1. PICK n \in Nat \ {0} : n = Depth
    BY LaunchIs
  <1>2. PICK q \in Nat, r \in 0 .. n - 1 : q = i \div n /\ r = i % n /\ i = q * n + r
    BY Quotient
  <1>3. PICK p \in Nat, s \in 0 .. n - 1 :
           p = (r + m) \div n /\ s = (r + m) % n /\ r + m = p * n + s
    <2>1. r + m \in Nat
      OBVIOUS
    <2> QED BY <2>1, Quotient
  <1>4. /\ (i + m) \div n = q + p /\ (i + m) % n = s
    <2>1. (q + p) * n = q * n + p * n /\ q * n \in Nat /\ p * n \in Nat
      OBVIOUS
    <2>2. PICK u \in Nat : u = q + p
      OBVIOUS
    <2>3. i + m = u * n + s
      <3>1. PICK c \in Nat, d \in Nat : c = q * n /\ d = p * n
        BY <2>1, TimesTypes
      <3>2. u * n = c + d
        BY <2>1, <2>2, <3>1, Zenon
      <3>3. i = c + r /\ r + m = d + s
        BY <1>2, <1>3, <3>1, Zenon
      <3>4. i + m = c + d + s
        BY <3>3
      <3> QED BY <3>2, <3>4, Zenon
    <2>4. (u * n + s) \div n = u /\ (u * n + s) % n = s
      BY QuotientIs
    <2> QED BY <2>2, <2>3, <2>4, Zenon
  <1>5. At(i, parity) = PipelineState(r, (q + parity) % 2)
    BY <1>1, <1>2 DEF At
  <1>6. At(i + m, parity) = PipelineState(s, (q + p + parity) % 2)
    BY <1>1, <1>4 DEF At
  <1>7. m < n => (p \in {0, 1} /\ (p = 1 <=> r + m >= n))
    <2> SUFFICES ASSUME m < n PROVE p \in {0, 1} /\ (p = 1 <=> r + m >= n)
      OBVIOUS
    <2>1. p * n < 2 * n /\ 2 * n = n + n /\ p * n \in Nat
      BY <1>3
    <2>2. p < 2
      BY <2>1, TimesCancels
    <2>3. p = 0 \/ p = 1
      BY <2>2
    <2> QED BY <1>3, <2>3
  <1> DEFINE crossed == \/ m < n /\ r + m >= n
                        \/ m >= n /\ ((r + m) \div n) % 2 = 1
             h == (q + parity) % 2
  <1>9. crossed <=> p % 2 = 1
    BY <1>3, <1>7
  <1>10. after(At(i, parity), m) =
           PipelineState(s, IF crossed THEN 1 - h ELSE h)
    <2> HIDE DEF h
    <2>1. /\ after(PipelineState(r, h), m) = advance(PipelineState(r, h), m, n)
          /\ PipelineState(r, h).index = r /\ PipelineState(r, h).phase = h
      BY <1>1 DEF after, Depth, PipelineState
    <2>2. advance(PipelineState(r, h), m, n) =
            PipelineState((r + m) % n, IF crossed THEN 1 - h ELSE h)
      BY <2>1 DEF advance
    <2> QED BY <1>3, <1>5, <2>1, <2>2 DEF h
  <1>11. (IF p % 2 = 1 THEN 1 - h ELSE h) = (q + p + parity) % 2
    OBVIOUS
  <1> HIDE DEF crossed
  <1> QED BY <1>6, <1>9, <1>10, <1>11

LEMMA Increment ==
    ASSUME LaunchOK, NEW i \in Nat, NEW parity \in {0, 1}
    PROVE  next(At(i, parity)) = At(i + 1, parity)
  <1>1. PICK n \in Nat \ {0, 1} : n = Depth
    BY LaunchIs
  <1>2. after(At(i, parity), 1) = At(i + 1, parity)
    BY Advance
  <1>3. PICK r \in 0 .. n - 1, h \in {0, 1} : At(i, parity) = PipelineState(r, h)
    <2>1. i % n \in 0 .. n - 1 /\ (i \div n + parity) % 2 \in {0, 1}
      BY PlaceOf
    <2> QED BY <1>1, <2>1 DEF At
  <1>4. next(PipelineState(r, h)) = after(PipelineState(r, h), 1)
    <2>1. /\ next(PipelineState(r, h)) =
               IF r + 1 = n THEN PipelineState(0, 1 - h) ELSE PipelineState(r + 1, h)
      BY <1>1 DEF next, Incremented, PipelineState, Depth
    <2>2. after(PipelineState(r, h), 1) =
            PipelineState((r + 1) % n, IF r + 1 >= n THEN 1 - h ELSE h)
      BY <1>1 DEF after, advance, PipelineState, Depth
    <2>3. r + 1 < n => (r + 1) % n = r + 1
      BY ModOfSmall
    <2>4. r + 1 = n => (r + 1) % n = 0
      BY QuotientIs, ModStep, ModOfSmall
    <2> QED BY <2>1, <2>2, <2>3, <2>4
  <1> QED BY <1>2, <1>3, <1>4

\* One of two neighbouring phases is told by its parity.
LEMMA Parity ==
    \A a, b \in Nat : /\ a \in {b, b + 1} /\ a % 2 # b % 2 => a = b + 1
                      /\ a \in {b - 1, b} /\ a % 2 # (b + 1) % 2 => a = b
  OBVIOUS

-----------------------------------------------------------------------------
(* The cluster.                                                            *)

\* d is a bijection of 0 .. n - 1 onto the set D.
LEMMA CountsAs ==
    ASSUME NEW n \in Nat, NEW D, NEW f \in [0 .. n - 1 -> D],
           \A x, y \in 0 .. n - 1 : f[x] = f[y] => x = y,
           \A d \in D : \E x \in 0 .. n - 1 : f[x] = d
    PROVE  IsFiniteSet(D) /\ Cardinality(D) = n
  <1>1. IsFiniteSet(0 .. n - 1) /\ Cardinality(0 .. n - 1) = n
    <2>1. 0 \in Int /\ n - 1 \in Int
      OBVIOUS
    <2>2. IsFiniteSet(0 .. n - 1) /\ Cardinality(0 .. n - 1) = IF 0 > n - 1 THEN 0 ELSE n - 1 - 0 + 1
      BY <2>1, FS_Interval
    <2> QED BY <2>2
  <1>2. f \in Bijection(0 .. n - 1, D)
    BY Zenon DEF Bijection, Injection, IsInjective, Surjection
  <1>3. ExistsBijection(0 .. n - 1, D)
    BY <1>2 DEF ExistsBijection
  <1> QED BY <1>1, <1>3, FS_Bijection

\* A row and a column of the cluster.
LEMMA SharingIs ==
    ASSUME LaunchOK, NEW b \in CTAs
    PROVE  /\ Sharing(b) \subseteq CTAs /\ b \in Sharing(b)
           /\ \A d \in Sharing(b) : b \in Sharing(d)
           /\ IsFiniteSet(Sharing(b))
           /\ Cardinality(Sharing(b)) = launch.cluster_m + launch.cluster_n - 1
  <1>1. PICK m \in Nat \ {0}, n \in Nat \ {0} : m = launch.cluster_m /\ n = launch.cluster_n
    BY LaunchIs
  <1>2. CTAs = 0 .. m * n - 1 /\ m * n \in Nat
    BY <1>1, LaunchIs
  <1> DEFINE x == b % m
             y == b \div m
             row == {d \in CTAs : d \div m = y}
             col == {d \in CTAs : d % m = x}
  <1>3. x \in 0 .. m - 1 /\ y \in Nat /\ b = y * m + x /\ b \in Nat
    <2>1. b \in Nat
      BY <1>2
    <2> QED BY <2>1, Quotient
  <1>4. y < n
    <2>1. y * m < n * m
      BY <1>2, <1>3
    <2> QED BY <1>3, <2>1, TimesCancels
  <1>5. Sharing(b) = row \cup col
    BY <1>1 DEF Sharing, is_same_row_or_col, block_x, block_y
  <1>6. \A d \in Sharing(b) : b \in Sharing(d)
    BY <1>1 DEF Sharing, is_same_row_or_col, block_x, block_y
  <1> HIDE DEF x, y
  <1>7. ASSUME NEW q \in 0 .. n - 1, NEW r \in 0 .. m - 1
        PROVE  q * m + r \in CTAs /\ (q * m + r) \div m = q /\ (q * m + r) % m = r
    <2>1. q * m + m <= n * m
      <3>1. (q + 1) * m <= n * m
        BY TimesMonotone
      <3> QED BY <3>1
    <2>2. q * m \in Nat /\ n * m = m * n
      OBVIOUS
    <2>3. q * m + r \in 0 .. m * n - 1
      BY <1>2, <2>1, <2>2
    <2> QED BY <1>2, <2>3, QuotientIs
  <1>8. ASSUME NEW d \in CTAs
        PROVE  /\ d % m \in 0 .. m - 1 /\ d \div m \in 0 .. n - 1
               /\ d = (d \div m) * m + (d % m)
    <2>1. d \in Nat /\ d % m \in 0 .. m - 1 /\ d \div m \in Nat /\ d = (d \div m) * m + (d % m)
      <3>1. d \in Nat
        BY <1>2
      <3> QED BY <3>1, Quotient
    <2>2. (d \div m) * m < n * m
      BY <1>2, <2>1
    <2>3. d \div m < n
      BY <2>1, <2>2, TimesCancels
    <2> QED BY <2>1, <2>3
  <1>9. IsFiniteSet(row) /\ Cardinality(row) = m
    <2> DEFINE f == [r \in 0 .. m - 1 |-> y * m + r]
    <2>1. y \in 0 .. n - 1
      BY <1>3, <1>4
    <2>2. f \in [0 .. m - 1 -> row]
      BY <1>7, <2>1
    <2>3. \A p, r \in 0 .. m - 1 : f[p] = f[r] => p = r
      BY <1>3
    <2>4. ASSUME NEW d \in row PROVE \E r \in 0 .. m - 1 : f[r] = d
      <3>1. d % m \in 0 .. m - 1 /\ d = y * m + (d % m)
        BY <1>8
      <3> QED BY <3>1
    <2> HIDE DEF f, row
    <2> QED BY <2>2, <2>3, <2>4, CountsAs
  <1>10. IsFiniteSet(col) /\ Cardinality(col) = n
    <2> DEFINE f == [q \in 0 .. n - 1 |-> q * m + x]
    <2>1. f \in [0 .. n - 1 -> col]
      BY <1>3, <1>7
    <2>2. \A p, q \in 0 .. n - 1 : f[p] = f[q] => p = q
      <3> SUFFICES ASSUME NEW p \in 0 .. n - 1, NEW q \in 0 .. n - 1, f[p] = f[q] PROVE p = q
        OBVIOUS
      <3>1. p * m + x = q * m + x
        OBVIOUS
      <3> QED BY <1>3, <3>1, QuotientUnique
    <2>3. ASSUME NEW d \in col PROVE \E q \in 0 .. n - 1 : f[q] = d
      <3>1. d \div m \in 0 .. n - 1 /\ d = (d \div m) * m + x
        BY <1>8
      <3> QED BY <3>1
    <2> HIDE DEF f, col
    <2> QED BY <2>1, <2>2, <2>3, CountsAs
  <1>11. row \cap col = {b}
    BY <1>3, <1>8 DEF x, y
  <1>12. Cardinality({b}) = 1
    BY FS_Singleton
  <1>13. IsFiniteSet(row \cup col) /\ Cardinality(row \cup col) = m + n - 1
    <2> HIDE DEF row, col
    <2> QED BY <1>9, <1>10, <1>11, <1>12, FS_Union
  <1>14. Sharing(b) \subseteq CTAs /\ b \in Sharing(b)
    BY <1>1 DEF Sharing, is_same_row_or_col
  <1> QED BY <1>1, <1>5, <1>6, <1>13, <1>14

\* A consumer tells each block it shares a stage with from exactly one thread.
LEMMA Xor2Twice ==
    \A a, c \in 0 .. 3 : Xor2(a, c) \in 0 .. 3 /\ Xor2(Xor2(a, c), c) = a
  <1> SUFFICES ASSUME NEW a \in {0, 1, 2, 3}, NEW c \in {0, 1, 2, 3}
               PROVE  Xor2(a, c) \in 0 .. 3 /\ Xor2(Xor2(a, c), c) = a
    OBVIOUS
  <1> QED BY DEF Xor2

\* Each block a consumer frees a stage for is told by exactly one thread.
LEMMA OneThread ==
    ASSUME LaunchOK, NEW b \in CTAs
    PROVE  LET threads == Signals(b, launch.cluster_m, launch.cluster_n)
           IN  /\ \A t \in threads : dst_blockid(t) \in Sharing(b)
               /\ \A d \in Sharing(b) : \E t \in threads : dst_blockid(t) = d
               /\ \A t, u \in threads : dst_blockid(t) = dst_blockid(u) => t = u
  <1> DEFINE blocks == launch.cluster_m * launch.cluster_n
             threads == Signals(b, launch.cluster_m, launch.cluster_n)
  <1>1. CTAs = 0 .. blocks - 1 /\ blocks \in 1 .. 16
    BY LaunchIs
  <1>2. ASSUME NEW t \in SignalingThreads
        PROVE  /\ t = <<t[1], t[2]>> /\ t[1] \in 0 .. 3 /\ t[2] \in 0 .. 3
               /\ dst_blockid(t) = Xor2(t[1], t[2]) * 4 + t[2]
               /\ dst_blockid(t) \in Nat
    <2>1. t = <<t[1], t[2]>> /\ t[1] \in 0 .. 3 /\ t[2] \in 0 .. 3
      BY DEF SignalingThreads
    <2>2. Xor2(t[1], t[2]) \in 0 .. 3
      BY <2>1, Xor2Twice
    <2> QED BY <2>1, <2>2 DEF dst_blockid
  <1>3. \A t \in threads : t \in SignalingThreads /\ dst_blockid(t) < blocks
                           /\ is_same_row_or_col(dst_blockid(t), b, launch.cluster_m)
    BY DEF Signals
  <1>4. \A t \in threads : dst_blockid(t) \in Sharing(b)
    BY <1>1, <1>2, <1>3 DEF Sharing
  <1>5. ASSUME NEW d \in Sharing(b) PROVE \E t \in threads : dst_blockid(t) = d
    <2>1. d \in 0 .. 15 /\ d < blocks /\ is_same_row_or_col(d, b, launch.cluster_m)
      <3>1. d \in CTAs /\ is_same_row_or_col(d, b, launch.cluster_m)
        BY DEF Sharing
      <3>2. PICK n \in 1 .. 16 : n = blocks
        BY <1>1
      <3>3. d \in 0 .. n - 1
        BY <1>1, <3>1, <3>2
      <3> QED BY <3>1, <3>2, <3>3
    <2>2. PICK p \in 0 .. 3, q \in 0 .. 3 : d = p * 4 + q
      <3>1. d \div 4 \in 0 .. 3 /\ d % 4 \in 0 .. 3 /\ d = (d \div 4) * 4 + (d % 4)
        BY <2>1
      <3> QED BY <3>1
    <2> DEFINE t == <<Xor2(p, q), q>>
    <2>3. t \in SignalingThreads
      BY Xor2Twice DEF SignalingThreads
    <2>4. dst_blockid(t) = d
      BY <2>2, Xor2Twice DEF dst_blockid
    <2>5. t \in threads
      BY <2>1, <2>3, <2>4 DEF Signals
    <2> QED BY <2>4, <2>5
  <1>6. ASSUME NEW t \in threads, NEW u \in threads, dst_blockid(t) = dst_blockid(u)
        PROVE  t = u
    <2>1. PICK p \in 0 .. 3, q \in 0 .. 3 : t = <<p, q>> /\ dst_blockid(t) = Xor2(p, q) * 4 + q
      BY <1>2, <1>3
    <2>2. PICK r \in 0 .. 3, s \in 0 .. 3 : u = <<r, s>> /\ dst_blockid(u) = Xor2(r, s) * 4 + s
      BY <1>2, <1>3
    <2>3. PICK v \in 0 .. 3, x \in 0 .. 3 : v = Xor2(p, q) /\ x = Xor2(r, s)
      BY Xor2Twice
    <2>4. v * 4 + q = x * 4 + s
      BY <1>6, <2>1, <2>2, <2>3
    <2>5. q = s /\ v = x
      BY <2>4
    <2>6. Xor2(Xor2(p, q), q) = p /\ Xor2(Xor2(r, s), s) = r
      BY Xor2Twice
    <2> QED BY <2>1, <2>2, <2>3, <2>5, <2>6
  <1> QED BY <1>4, <1>5, <1>6

\* As many readers of a k tile as init_barriers counts arrivals.
LEMMA EverybodyIs ==
    ASSUME LaunchOK, NEW b \in CTAs, NEW i \in Nat
    PROVE  /\ IsFiniteSet(Everybody(b, i)) /\ Cardinality(Everybody(b, i)) = Consumers
           /\ Consumers \in Nat \ {0}
           /\ \E w \in WarpGroups : Reads(w, i)
  <1> DEFINE A == Sharing(b)
             Of(w) == {c \in A \X WarpGroups : c[2] = w}
  <1>1. /\ IsFiniteSet(A) /\ Cardinality(A) = launch.cluster_m + launch.cluster_n - 1
        /\ Cardinality(A) \in Nat \ {0}
    <2>1. IsFiniteSet(A) /\ Cardinality(A) = launch.cluster_m + launch.cluster_n - 1
      BY SharingIs
    <2>2. PICK m \in Nat \ {0}, n \in Nat \ {0} : m = launch.cluster_m /\ n = launch.cluster_n
      BY LaunchIs
    <2>3. m + n - 1 \in Nat \ {0}
      OBVIOUS
    <2> QED BY <2>1, <2>2, <2>3
  <1>2. ASSUME NEW w \in WarpGroups PROVE IsFiniteSet(Of(w)) /\ Cardinality(Of(w)) = Cardinality(A)
    <2> DEFINE f == [d \in A |-> <<d, w>>]
    <2>1. f \in [A -> Of(w)] /\ (\A d \in A : f[d] = <<d, w>>)
          /\ \A c \in Of(w) : c[1] \in A /\ f[c[1]] = c
      OBVIOUS
    <2> HIDE DEF f
    <2>2. \A d, e \in A : f[d] = f[e] => d = e
      BY <2>1
    <2>3. f \in Bijection(A, Of(w))
      <3>1. f \in Injection(A, Of(w))
        BY <2>1, <2>2 DEF Injection, IsInjective
      <3>2. f \in Surjection(A, Of(w))
        BY <2>1 DEF Surjection
      <3> QED BY <3>1, <3>2 DEF Bijection
    <2>4. ExistsBijection(A, Of(w))
      BY <2>3 DEF ExistsBijection
    <2> HIDE DEF A, Of
    <2> QED BY <1>1, <2>4, FS_Bijection
  <1>3. CASE Pingpong
    <2>1. PICK w \in WarpGroups : w = (i \div K) % 2
      <3>1. i \div K \in Nat
        BY LaunchIs, Quotient
      <3> QED BY <3>1 DEF WarpGroups
    <2>2. Everybody(b, i) = Of(w) /\ Reads(w, i)
      BY <1>3, <2>1 DEF Everybody, Reads
    <2>3. Consumers = Cardinality(A)
      BY <1>1, <1>3 DEF Consumers, NumConsumerWarpGroups
    <2> QED BY <1>1, <1>2, <2>2, <2>3
  <1>4. CASE ~Pingpong
    <2>1. Everybody(b, i) = Of(0) \cup Of(1) /\ Of(0) \cap Of(1) = {} /\ Reads(0, i)
      BY <1>4 DEF Everybody, Reads, WarpGroups
    <2>2. 0 \in WarpGroups /\ 1 \in WarpGroups
      BY DEF WarpGroups
    <2>3. Consumers = Cardinality(A) + Cardinality(A)
      BY <1>1, <1>4 DEF Consumers, NumConsumerWarpGroups
    <2>4. /\ IsFiniteSet(Of(0)) /\ Cardinality(Of(0)) = Cardinality(A)
          /\ IsFiniteSet(Of(1)) /\ Cardinality(Of(1)) = Cardinality(A)
      BY <1>2, <2>2
    <2>5. /\ IsFiniteSet(Of(0) \cup Of(1))
          /\ Cardinality(Of(0) \cup Of(1)) = Cardinality(A) + Cardinality(A) - 0
      <3> HIDE DEF A, Of
      <3> QED BY <2>1, <2>4, FS_Union, FS_EmptySet
    <2> HIDE DEF A, Of
    <2> QED BY <1>1, <2>1, <2>2, <2>3, <2>5
  <1> QED BY <1>3, <1>4

\* The bytes of a stage, in slices.
LEMMA WeightIs ==
    ASSUME LaunchOK, NEW b \in CTAs, NEW L \in SUBSET Sharing(b)
    PROVE  /\ IsFiniteSet(L) /\ Weight(b, L) \in Nat
           /\ L = {} => Weight(b, L) = 0
           /\ L = Sharing(b) => Weight(b, L) = TmaTransaction
           /\ L # Sharing(b) => Weight(b, L) < TmaTransaction
           /\ b \notin L => Weight(b, L) <= TmaTransaction - 2
           /\ \A d \in Sharing(b) \ L : Weight(b, L \cup {d}) = Weight(b, L) + Slices(d, b)
           /\ TmaTransaction = launch.cluster_m + launch.cluster_n
  <1>1. /\ IsFiniteSet(Sharing(b)) /\ b \in Sharing(b)
        /\ Cardinality(Sharing(b)) = TmaTransaction - 1
        /\ TmaTransaction = launch.cluster_m + launch.cluster_n
        /\ TmaTransaction \in Nat
    <2>1. /\ IsFiniteSet(Sharing(b)) /\ b \in Sharing(b)
          /\ Cardinality(Sharing(b)) = launch.cluster_m + launch.cluster_n - 1
      BY SharingIs
    <2>2. launch.cluster_m \in Nat /\ launch.cluster_n \in Nat
      BY LaunchIs
    <2>3. TmaTransaction = launch.cluster_m + launch.cluster_n
      BY DEF TmaTransaction
    <2> QED BY <2>1, <2>2, <2>3
  <1>2. IsFiniteSet(L) /\ Cardinality(L) \in Nat /\ Cardinality(L) <= TmaTransaction - 1
        /\ (L # Sharing(b) => Cardinality(L) < TmaTransaction - 1)
    <2>1. /\ IsFiniteSet(L) /\ Cardinality(L) <= Cardinality(Sharing(b))
          /\ Cardinality(Sharing(b)) = Cardinality(L) => Sharing(b) = L
      BY <1>1, FS_Subset
    <2>2. Cardinality(L) \in Nat
      BY <2>1, FS_CardinalityType
    <2> QED BY <1>1, <2>1, <2>2
  <1>3. L = {} => Cardinality(L) = 0
    BY FS_EmptySet
  <1>4. ASSUME NEW d \in Sharing(b) \ L
        PROVE  Weight(b, L \cup {d}) = Weight(b, L) + Slices(d, b)
    <2>1. Cardinality(L \cup {d}) = Cardinality(L) + 1
      BY <1>2, <1>4, FS_AddElement
    <2>2. CASE d = b
      BY <1>2, <2>1, <2>2 DEF Weight, Slices
    <2>3. CASE d # b
      BY <1>2, <2>1, <2>3 DEF Weight, Slices
    <2> QED BY <2>2, <2>3
  <1>5. Weight(b, L) = Cardinality(L) + (IF b \in L THEN 1 ELSE 0)
    BY DEF Weight
  <1> QED BY <1>1, <1>2, <1>3, <1>4, <1>5

-----------------------------------------------------------------------------
(* How far the actors are of each other.                                   *)

\* Numbers of one stage are a whole depth apart.
LEMMA SameStage ==
    ASSUME NEW n \in Nat \ {0}, NEW x \in Nat, NEW y \in Nat, x % n = y % n
    PROVE  /\ x < y + n => x <= y
           /\ x < y => x + n <= y
           /\ (x + n) % n = x % n
           /\ x < n => x <= y
           /\ n <= x => (x - n) \in Nat /\ (x - n) % n = x % n
  <1>1. PICK p \in Nat, q \in Nat, s \in 0 .. n - 1 :
           x = p * n + s /\ y = q * n + s /\ s = x % n /\ p = x \div n
    <2>1. x % n \in 0 .. n - 1 /\ x \div n \in Nat /\ x = (x \div n) * n + (x % n)
      BY PlaceOf
    <2>2. y \div n \in Nat /\ y = (y \div n) * n + (y % n)
      BY PlaceOf
    <2>3. PICK p \in Nat, q \in Nat, s \in 0 .. n - 1 :
             p = x \div n /\ q = y \div n /\ s = x % n /\ s = y % n
      BY <2>1, <2>2
    <2>4. x = p * n + s /\ y = q * n + s
      BY <2>1, <2>2, <2>3, Zenon
    <2> QED BY <2>3, <2>4, Zenon
  <1>2. /\ p * n + s < q * n + s + n => p * n + s <= q * n + s
        /\ p * n + s < q * n + s => p * n + s + n <= q * n + s
        /\ p = 0 => p * n + s = s
        /\ p # 0 => n <= p * n + s
    BY Apart
  <1>3. (p + 1) * n + s = p * n + s + n /\ (x + n) % n = s
    <2>1. (p + 1) * n + s = p * n + s + n
      BY Apart
    <2>2. ((p + 1) * n + s) % n = s
      <3>1. p + 1 \in Nat
        OBVIOUS
      <3> QED BY <3>1, QuotientIs
    <2> QED BY <1>1, <2>1, <2>2
  <1>4. x < n => x <= y
    <2>1. q * n \in Nat
      BY TimesTypes
    <2>2. x < n => p = 0
      BY <1>1, <1>2
    <2> QED BY <1>1, <1>2, <2>1, <2>2
  <1>5. n <= x => (x - n) \in Nat /\ (x - n) % n = x % n
    <2> SUFFICES ASSUME n <= x PROVE (x - n) \in Nat /\ (x - n) % n = x % n
      OBVIOUS
    <2>1. PICK z \in Nat : z = x - n
      OBVIOUS
    <2>2. (z + n) % n = z % n
      BY ModStep
    <2> QED BY <2>1, <2>2
  <1> QED BY <1>1, <1>2, <1>3, <1>4, <1>5

\* A math warp group holds the last one or two k tiles it has taken, in order.
LEMMA ReadingIs ==
    ASSUME PipeInv, NEW b \in CTAs, NEW w \in WarpGroups
    PROVE  LET m == math[b][w]
           IN  /\ m.tile \in Nat /\ m.k \in 0 .. K
               /\ Len(m.reading) \in 0 .. 2 /\ Len(m.reading) <= m.k
               /\ \A i \in DOMAIN m.reading :
                    m.reading[i] = Entry(LetGo(b, w) + i - 1) /\ LetGo(b, w) + i - 1 < Taken(b, w)
               /\ DOMAIN m.reading = 1 .. Len(m.reading)
  <1> DEFINE m == math[b][w]
             t == Taken(b, w)
  <1>1. K \in Nat \ {0}
    BY LaunchIs DEF PipeInv
  <1>2. MathInv(b, w)
    BY DEF PipeInv
  <1>3. m.tile \in Nat /\ m.k \in 0 .. K
    BY <1>1, <1>2 DEF MathInv, MathShape, MathHolds, HasRead
  <1>4. t \in Nat /\ m.k <= t
    <2>1. m.tile * K \in Nat
      BY <1>1, <1>3, TimesTypes
    <2> QED BY <1>3, <2>1 DEF Taken
  <1>5. LetGo(b, w) = t - Len(m.reading)
    BY DEF LetGo
  <1> HIDE DEF t
  <1>6. \/ m.reading = <<>>
        \/ m.k >= 1 /\ m.reading = <<Entry(t - 1)>>
        \/ m.k >= 2 /\ m.reading = <<Entry(t - 2), Entry(t - 1)>>
    BY <1>1, <1>2 DEF MathInv, MathHolds, HasRead, t
  <1>7. CASE m.reading = <<>>
    BY <1>3, <1>4, <1>5, <1>7
  <1>8. CASE m.k >= 1 /\ m.reading = <<Entry(t - 1)>>
    <2>1. Len(m.reading) = 1 /\ DOMAIN m.reading = {1} /\ m.reading[1] = Entry(t - 1)
      BY <1>8
    <2>2. LetGo(b, w) = t - 1 /\ LetGo(b, w) + 1 - 1 = t - 1 /\ t - 1 < t
      BY <1>4, <1>5, <2>1
    <2> QED BY <1>3, <1>8, <2>1, <2>2 DEF t
  <1>9. CASE m.k >= 2 /\ m.reading = <<Entry(t - 2), Entry(t - 1)>>
    <2>1. /\ Len(m.reading) = 2 /\ DOMAIN m.reading = {1, 2}
          /\ m.reading[1] = Entry(t - 2) /\ m.reading[2] = Entry(t - 1)
      BY <1>9
    <2>2. LetGo(b, w) = t - 2 /\ LetGo(b, w) + 1 - 1 = t - 2 /\ LetGo(b, w) + 2 - 1 = t - 1
          /\ t - 2 < t /\ t - 1 < t
      BY <1>4, <1>5, <2>1
    <2> QED BY <1>3, <1>9, <2>1, <2>2 DEF t
  <1> QED BY <1>6, <1>7, <1>8, <1>9

\* All the numbers are numbers, and the barriers of a stage wait for its own.
LEMMA Places ==
    ASSUME PipeInv
    PROVE  /\ \A b \in CTAs : /\ Loaded(b) \in Nat /\ Awaited(b) \in Nat
                              /\ Loaded(b) <= Awaited(b)
           /\ \A b \in CTAs, w \in WarpGroups : /\ Taken(b, w) \in Nat /\ LetGo(b, w) \in Nat
                                                /\ LetGo(b, w) <= Taken(b, w)
           /\ \A b \in CTAs, s \in Stages :
                /\ FullAt(b, s) \in Nat /\ FullAt(b, s) % Depth = s
                /\ EmptyAt(b, s) \in Nat /\ EmptyAt(b, s) % Depth = s
                /\ full[b][s].phases = FullAt(b, s) \div Depth
                /\ empty[b][s].phases = EmptyAt(b, s) \div Depth
                /\ full[b][s].phases \in Nat /\ empty[b][s].phases \in Nat
  <1>1. K \in Nat \ {0} /\ Depth \in Nat \ {0, 1} /\ Stages = 0 .. Depth - 1 /\ launch.tiles \in Nat
    BY LaunchIs DEF PipeInv
  <1>2. ASSUME NEW b \in CTAs
        PROVE  Loaded(b) \in Nat /\ Awaited(b) \in Nat /\ Loaded(b) <= Awaited(b)
    <2>1. ProducerInv(b)
      BY DEF PipeInv
    <2>2. producer[b].tile \in Nat /\ producer[b].k \in Nat /\ producer[b].waited \in Nat
      BY <1>1, <2>1 DEF ProducerInv
    <2>3. producer[b].tile * K \in Nat
      BY <1>1, <2>2, TimesTypes
    <2> QED BY <2>2, <2>3 DEF Loaded, Awaited
  <1>3. ASSUME NEW b \in CTAs, NEW w \in WarpGroups
        PROVE  Taken(b, w) \in Nat /\ LetGo(b, w) \in Nat /\ LetGo(b, w) <= Taken(b, w)
    <2>1. PICK k \in Nat, l \in Nat : /\ k = math[b][w].k /\ l = Len(math[b][w].reading)
                                     /\ l <= k /\ math[b][w].tile \in Nat
      BY <1>1, ReadingIs
    <2>2. PICK p \in Nat : p = math[b][w].tile * K
      BY <1>1, <2>1, TimesTypes
    <2>3. Taken(b, w) = p + k
      BY <2>1, <2>2 DEF Taken
    <2>4. LetGo(b, w) = (p + k) - l
      BY <2>1, <2>3 DEF LetGo
    <2>5. l <= k
      BY <2>1
    <2>6. (p + k) \in Nat /\ (p + k) - l \in Nat /\ (p + k) - l <= p + k
      BY <2>5
    <2> QED BY <2>3, <2>4, <2>6
  <1>4. ASSUME NEW b \in CTAs, NEW s \in Stages
        PROVE  /\ FullAt(b, s) \in Nat /\ FullAt(b, s) % Depth = s
               /\ EmptyAt(b, s) \in Nat /\ EmptyAt(b, s) % Depth = s
               /\ full[b][s].phases = FullAt(b, s) \div Depth
               /\ empty[b][s].phases = EmptyAt(b, s) \div Depth
               /\ full[b][s].phases \in Nat /\ empty[b][s].phases \in Nat
    <2>1. FullInv(b, s) /\ EmptyInv(b, s)
      BY DEF PipeInv
    <2>2. full[b][s].phases \in Nat /\ empty[b][s].phases \in Nat
      BY <2>1 DEF FullInv, EmptyInv
    <2> QED BY <1>1, <2>2, QuotientIs DEF FullAt, EmptyAt
  <1> QED BY <1>2, <1>3, <1>4

\* Nothing is loaded before it is let go, read before it is full, full before
\* it is loaded, or awaited before the number one depth before is free.
LEMMA Chain ==
    ASSUME PipeInv, NEW i \in Nat, NEW s \in Stages, s = i % Depth
    PROVE  /\ \A b \in CTAs : \A d \in Sharing(b), w \in WarpGroups :
                 i < EmptyAt(b, s) /\ Reads(w, i) => i < LetGo(d, w)
           /\ \A b \in CTAs : \A d \in Sharing(b) : i < EmptyAt(b, s) => i < FullAt(d, s)
           /\ \A b \in CTAs : \A d \in Sharing(b) : i < FullAt(b, s) => i < Loaded(d)
           /\ \A b \in CTAs : i < Awaited(b) => i <= EmptyAt(b, s)
           /\ \A b \in CTAs, w \in WarpGroups : i < Taken(b, w) /\ Reads(w, i) => i < FullAt(b, s)
  <1>1. Depth \in Nat \ {0} /\ LaunchOK
    BY LaunchIs DEF PipeInv
  <1>2. ASSUME NEW b \in CTAs, NEW d \in Sharing(b), NEW w \in WarpGroups,
               i < EmptyAt(b, s), Reads(w, i)
        PROVE  i < LetGo(d, w)
    <2>1. EmptyInv(b, s) /\ EmptyAt(b, s) \in Nat
      BY Places DEF PipeInv
    <2>2. i \in 0 .. EmptyAt(b, s) - 1
      BY <1>2, <2>1
    <2> QED BY <1>2, <2>1, <2>2 DEF EmptyInv
  <1>3. ASSUME NEW b \in CTAs, NEW w \in WarpGroups, i < Taken(b, w), Reads(w, i)
        PROVE  i < FullAt(b, s)
    <2>1. MathInv(b, w)
      BY DEF PipeInv
    <2> QED BY <1>3, <2>1 DEF MathInv, MathReads
  <1>4. ASSUME NEW b \in CTAs, NEW d \in Sharing(b), i < EmptyAt(b, s)
        PROVE  i < FullAt(d, s)
    <2>1. PICK w \in WarpGroups : Reads(w, i)
      BY <1>1, EverybodyIs
    <2>2. d \in CTAs
      BY <1>1, SharingIs
    <2>3. i < LetGo(d, w) /\ LetGo(d, w) <= Taken(d, w) /\ LetGo(d, w) \in Nat /\ Taken(d, w) \in Nat
      BY <1>2, <1>4, <2>1, <2>2, Places
    <2>4. i < Taken(d, w)
      BY <2>3
    <2> QED BY <1>3, <2>1, <2>2, <2>4
  <1>5. ASSUME NEW b \in CTAs, NEW d \in Sharing(b), i < FullAt(b, s)
        PROVE  i < Loaded(d)
    <2>1. FullInv(b, s) /\ FullAt(b, s) \in Nat /\ FullAt(b, s) % Depth = s
      BY Places DEF PipeInv
    <2>2. FullAt(b, s) < Loaded(d) + Depth
      BY <2>1 DEF FullInv
    <2>3. i + Depth <= FullAt(b, s)
      BY <1>1, <1>5, <2>1, SameStage
    <2>4. d \in CTAs /\ Loaded(d) \in Nat
      BY <1>1, SharingIs, Places
    <2> QED BY <1>1, <2>1, <2>2, <2>3, <2>4
  <1>6. ASSUME NEW b \in CTAs, i < Awaited(b)
        PROVE  i <= EmptyAt(b, s)
    <2>1. ProducerInv(b) /\ EmptyAt(b, s) \in Nat /\ EmptyAt(b, s) % Depth = s /\ Awaited(b) \in Nat
      BY Places DEF PipeInv
    <2>2. Awaited(b) <= EmptyAt(b, s) + Depth
      BY <2>1 DEF ProducerInv
    <2>3. i < EmptyAt(b, s) + Depth
      BY <1>1, <1>6, <2>1, <2>2
    <2> QED BY <1>1, <2>1, <2>3, SameStage
  <1> QED BY <1>2, <1>3, <1>4, <1>5, <1>6

-----------------------------------------------------------------------------
(* What a wait shows, and how far nobody has come.                         *)

\* Nearby numbers of one stage.
LEMMA Neighbours ==
    ASSUME NEW n \in Nat \ {0}, NEW x \in Nat, NEW y \in Nat, x % n = y % n
    PROVE  /\ y <= x => y \div n <= x \div n
           /\ x <= y + n => x \div n <= y \div n + 1
           /\ x \div n = y \div n => x = y
           /\ x \div n = y \div n + 1 => x = y + n
           /\ x \div n = 0 <=> x < n
  <1>1. PICK p \in Nat, q \in Nat, s \in 0 .. n - 1 :
           p = x \div n /\ q = y \div n /\ x = p * n + s /\ y = q * n + s
    <2>1. x % n \in 0 .. n - 1 /\ x \div n \in Nat /\ x = (x \div n) * n + (x % n)
      BY Quotient
    <2>2. y \div n \in Nat /\ y = (y \div n) * n + (y % n)
      BY Quotient
    <2> QED BY <2>1, <2>2
  <1>2. /\ p * n + s < q * n + s => p * n + s + n <= q * n + s
        /\ p * n + s \in Nat /\ q * n + s \in Nat
        /\ (q + 1) * n + s = q * n + s + n
    BY Apart
  <1>3. ASSUME y <= x PROVE q <= p
    <2> SUFFICES ASSUME p < q PROVE FALSE
      OBVIOUS
    <2>1. (p + 1) * n <= q * n
      BY TimesMonotone
    <2>2. (p + 1) * n = p * n + n
      BY TimesTypes
    <2>3. p * n \in Nat /\ q * n \in Nat
      BY TimesTypes
    <2> QED BY <1>1, <1>3, <2>1, <2>2, <2>3
  <1>4. ASSUME x <= y + n PROVE p <= q + 1
    <2> SUFFICES ASSUME q + 1 < p PROVE FALSE
      OBVIOUS
    <2>1. (q + 1 + 1) * n <= p * n
      BY TimesMonotone
    <2>2. (q + 1 + 1) * n = (q + 1) * n + n /\ (q + 1) * n = q * n + n
      BY TimesTypes
    <2>3. p * n \in Nat /\ q * n \in Nat
      BY TimesTypes
    <2> QED BY <1>1, <1>4, <2>1, <2>2, <2>3
  <1>5. p = 0 <=> x < n
    <2>1. p = 0 => p * n = 0
      OBVIOUS
    <2>2. p # 0 => n <= p * n + s
      BY Apart
    <2> QED BY <1>1, <2>1, <2>2
  <1> QED BY <1>1, <1>2, <1>3, <1>4, <1>5

\* The phase a producer waits for is the next one of the barrier, or the last.
LEMMA ProducerNear ==
    ASSUME PipeInv, NEW b \in CTAs, NEW s \in Stages, s = Awaited(b) % Depth
    PROVE  LET n == Awaited(b) \div Depth
           IN  /\ empty[b][s].phases \in {n - 1, n} /\ n \in Nat
               /\ empty[b][s].phases = n => EmptyAt(b, s) = Awaited(b)
  <1>1. Depth \in Nat \ {0} /\ LaunchOK
    BY LaunchIs DEF PipeInv
  <1>2. PICK x \in Nat, y \in Nat : x = Awaited(b) /\ y = EmptyAt(b, s)
    BY Places
  <1>3. y % Depth = s /\ empty[b][s].phases = y \div Depth
    BY <1>2, Places
  <1>4. x <= y + Depth
    <2>1. ProducerInv(b)
      BY DEF PipeInv
    <2> QED BY <1>2, <2>1 DEF ProducerInv
  <1>5. y <= x
    <2> SUFFICES ASSUME x < y PROVE FALSE
      BY <1>2
    <2>1. b \in Sharing(b)
      BY <1>1, SharingIs
    <2>2. x < FullAt(b, s)
      BY <1>2, <2>1, Chain
    <2>3. x < Loaded(b)
      BY <1>2, <2>1, <2>2, Chain
    <2> QED BY <1>2, <2>3, Places
  <1>6. y \div Depth <= x \div Depth /\ x \div Depth <= y \div Depth + 1
    BY <1>1, <1>2, <1>3, <1>4, <1>5, Neighbours
  <1>7. y \div Depth \in Nat /\ x \div Depth \in Nat
    BY <1>1, Quotient
  <1>8. y \div Depth = x \div Depth => y = x
    BY <1>1, <1>2, <1>3, Neighbours
  <1> QED BY <1>2, <1>3, <1>6, <1>7, <1>8

\* When producer_acquire returns, the stage has been freed of what was in it.
LEMMA ProducerWaits ==
    ASSUME PipeInv, NEW b \in CTAs, NEW s \in Stages, s = Awaited(b) % Depth,
           wait(empty[b][s], At(Awaited(b), 1).phase)
    PROVE  EmptyAt(b, s) = Awaited(b)
  <1>1. PICK p, n \in Nat : p = empty[b][s].phases /\ n = Awaited(b) \div Depth
    BY ProducerNear, Places
  <1>2. p \in {n - 1, n} /\ p \in Nat /\ (p = n => EmptyAt(b, s) = Awaited(b))
    BY <1>1, ProducerNear, Places
  <1>3. p % 2 # (n + 1) % 2
    BY <1>1 DEF wait, At, PipelineState
  <1> QED BY <1>2, <1>3, Parity

\* A free stage is full of the number before, in all blocks that are loaded.
LEMMA FreeStage ==
    ASSUME PipeInv, NEW b \in CTAs, NEW s \in Stages, EmptyAt(b, s) = Loaded(b)
    PROVE  \A d \in Sharing(b) : FullAt(d, s) = Loaded(b)
  <1> SUFFICES ASSUME NEW d \in Sharing(b) PROVE FullAt(d, s) = Loaded(b)
    OBVIOUS
  <1>1. Depth \in Nat \ {0} /\ LaunchOK
    BY LaunchIs DEF PipeInv
  <1>2. d \in CTAs /\ b \in Sharing(d)
    BY <1>1, SharingIs
  <1>3. PICK x \in Nat, y \in Nat : x = Loaded(b) /\ y = FullAt(d, s)
    BY <1>2, Places
  <1>4. x % Depth = s /\ y % Depth = s
    BY <1>2, <1>3, Places
  <1>5. y <= x
    <2>1. ~(x < y)
      <3>1. x < y => x < Loaded(b)
        BY <1>2, <1>3, <1>4, Chain
      <3> QED BY <1>3, <3>1
    <2> QED BY <1>3, <2>1
  <1>6. x <= y
    <2>1. CASE x < Depth
      BY <1>1, <1>3, <1>4, <2>1, SameStage
    <2>2. CASE ~(x < Depth)
      <3>1. PICK z \in Nat : z = x - Depth /\ z % Depth = s
        BY <1>1, <1>3, <1>4, <2>2, SameStage
      <3>2. z < EmptyAt(b, s)
        BY <1>1, <1>3, <3>1
      <3>3. z < y
        BY <1>3, <3>1, <3>2, Chain
      <3>4. z + Depth <= y
        BY <1>1, <1>3, <1>4, <3>1, <3>3, SameStage
      <3> QED BY <1>1, <3>1, <3>4
    <2> QED BY <2>1, <2>2
  <1> QED BY <1>3, <1>5, <1>6

\* Nobody has come a round past a barrier.
LEMMA NotLoadedPast ==
    ASSUME PipeInv, NEW b \in CTAs, NEW s \in Stages, NEW d \in Sharing(b)
    PROVE  ~(FullAt(b, s) + Depth < Loaded(d))
  <1> SUFFICES ASSUME FullAt(b, s) + Depth < Loaded(d) PROVE FALSE
    OBVIOUS
  <1>1. Depth \in Nat \ {0} /\ LaunchOK
    BY LaunchIs DEF PipeInv
  <1>2. d \in CTAs /\ b \in Sharing(d)
    BY <1>1, SharingIs
  <1>3. PICK x \in Nat : x = FullAt(b, s) /\ x % Depth = s
    BY Places
  <1>4. PICK y \in Nat : y = x + Depth /\ y % Depth = s
    BY <1>1, <1>3, SameStage
  <1>5. y < Awaited(d)
    BY <1>2, <1>3, <1>4, Places
  <1>6. y <= EmptyAt(d, s)
    BY <1>2, <1>4, <1>5, Chain
  <1>7. x < EmptyAt(d, s)
    BY <1>1, <1>2, <1>4, <1>6, Places
  <1>8. x < FullAt(b, s)
    BY <1>2, <1>3, <1>7, Chain
  <1> QED BY <1>3, <1>8

\* Nobody lets go of what the barrier of its block has not come to.
LEMMA NotLetGoPast ==
    ASSUME PipeInv, NEW d \in CTAs, NEW s \in Stages, NEW e \in Sharing(d), NEW w \in WarpGroups,
           Reads(w, EmptyAt(d, s) + Depth)
    PROVE  ~(EmptyAt(d, s) + Depth < LetGo(e, w))
  <1> SUFFICES ASSUME EmptyAt(d, s) + Depth < LetGo(e, w) PROVE FALSE
    OBVIOUS
  <1>1. Depth \in Nat \ {0} /\ LaunchOK
    BY LaunchIs DEF PipeInv
  <1>2. e \in CTAs /\ d \in Sharing(e)
    BY <1>1, SharingIs
  <1>3. PICK x \in Nat : x = EmptyAt(d, s) /\ x % Depth = s
    BY Places
  <1>4. PICK y \in Nat : y = x + Depth /\ y % Depth = s
    BY <1>1, <1>3, SameStage
  <1>5. y < Taken(e, w)
    BY <1>2, <1>3, <1>4, Places
  <1>6. y < FullAt(e, s)
    BY <1>2, <1>3, <1>4, <1>5, Chain
  <1>7. y < Loaded(d)
    BY <1>2, <1>4, <1>6, Chain
  <1>8. y <= EmptyAt(d, s)
    <2>1. y < Awaited(d)
      BY <1>7, Places
    <2> QED BY <1>4, <2>1, Chain
  <1> QED BY <1>1, <1>3, <1>4, <1>8

\* What a math warp group holds is there and is not free.
LEMMA HeldStage ==
    ASSUME PipeInv, NEW b \in CTAs, NEW w \in WarpGroups, NEW i \in Nat, NEW s \in Stages,
           s = i % Depth, LetGo(b, w) <= i, i < Taken(b, w), Reads(w, i)
    PROVE  /\ FullAt(b, s) = i + Depth
           /\ \A d \in Sharing(b) : EmptyAt(d, s) = i /\ ~(i + Depth < Loaded(d))
  <1>1. Depth \in Nat \ {0} /\ LaunchOK
    BY LaunchIs DEF PipeInv
  <1>2. PICK y \in Nat : y = i + Depth /\ y % Depth = s
    <2>1. (i + Depth) % Depth = i % Depth
      BY <1>1, ModStep
    <2> QED BY <1>1, <2>1
  <1>3. i < FullAt(b, s)
    BY Chain
  <1>4. ASSUME NEW d \in Sharing(b) PROVE EmptyAt(d, s) = i /\ ~(y < Loaded(d))
    <2>1. d \in CTAs /\ b \in Sharing(d)
      BY <1>1, SharingIs
    <2>2. ~(i < EmptyAt(d, s))
      <3>1. i < EmptyAt(d, s) => i < LetGo(b, w)
        BY <2>1, Chain
      <3> QED BY <3>1, Places
    <2>3. i < Loaded(d)
      BY <1>3, Chain
    <2>4. i < Awaited(d)
      BY <2>1, <2>3, Places
    <2>5. i <= EmptyAt(d, s)
      BY <2>1, <2>4, Chain
    <2>6. ~(y < Loaded(d))
      <3>1. y < Loaded(d) => y < Awaited(d)
        BY <2>1, Places
      <3>2. y < Awaited(d) => y <= EmptyAt(d, s)
        BY <1>2, <2>1, Chain
      <3>3. EmptyAt(d, s) \in Nat
        BY <2>1, Places
      <3> QED BY <1>1, <1>2, <2>2, <3>1, <3>2, <3>3
    <2>7. EmptyAt(d, s) \in Nat
      BY <2>1, Places
    <2> QED BY <2>2, <2>5, <2>6, <2>7
  <1>5. FullAt(b, s) = y
    <2>1. b \in Sharing(b)
      BY <1>1, SharingIs
    <2>2. ~(y < FullAt(b, s))
      BY <1>2, <1>4, <2>1, Chain
    <2>3. FullAt(b, s) \in Nat /\ FullAt(b, s) % Depth = s
      BY Places
    <2>4. y <= FullAt(b, s)
      BY <1>1, <1>2, <1>3, <2>3, SameStage
    <2> QED BY <1>2, <2>2, <2>3, <2>4
  <1> QED BY <1>2, <1>4, <1>5

-----------------------------------------------------------------------------
(* The tile of a math warp group.                                          *)

\* The tile a math warp group is at is its own.
LEMMA OwnTile ==
    ASSUME PipeInv, NEW b \in CTAs, NEW w \in WarpGroups, NEW j \in 0 .. K - 1
    PROVE  /\ math[b][w].tile * K + j \in Nat /\ Reads(w, math[b][w].tile * K + j)
           /\ (math[b][w].tile * K + j) \div K = math[b][w].tile
  <1>1. K \in Nat \ {0}
    BY LaunchIs DEF PipeInv
  <1>2. PICK tile \in Nat : tile = math[b][w].tile /\ (Pingpong => tile % 2 = w)
    BY DEF PipeInv, MathInv, MathShape
  <1>3. tile * K + j \in Nat /\ (tile * K + j) \div K = tile
    BY <1>1, QuotientIs
  <1> QED BY <1>2, <1>3 DEF Reads

\* What a math warp group holds is its to read.
LEMMA HeldReads ==
    ASSUME PipeInv, NEW b \in CTAs, NEW w \in WarpGroups, NEW i \in Nat,
           LetGo(b, w) <= i, i < Taken(b, w)
    PROVE  Reads(w, i)
  <1>1. K \in Nat \ {0}
    BY LaunchIs DEF PipeInv
  <1>2. PICK k \in Nat, l \in Nat : k = math[b][w].k /\ l = Len(math[b][w].reading)
    BY <1>1, ReadingIs
  <1>3. l <= k /\ k <= K /\ math[b][w].tile \in Nat
    BY <1>1, <1>2, ReadingIs
  <1>4. PICK p \in Nat : p = math[b][w].tile * K
    BY <1>1, <1>3, TimesTypes
  <1>5. Taken(b, w) = p + k
    BY <1>2, <1>4 DEF Taken
  <1>6. LetGo(b, w) = (p + k) - l
    BY <1>2, <1>5 DEF LetGo
  <1>7. p <= (p + k) - l
    BY <1>3
  <1>8. PICK j \in 0 .. K - 1 : i = p + j
    <2>1. p <= i /\ i < p + K
      BY <1>1, <1>3, <1>5, <1>6, <1>7
    <2>2. (i - p) \in 0 .. K - 1 /\ i = p + (i - p)
      BY <1>1, <2>1
    <2> QED BY <2>2
  <1> QED BY <1>4, <1>8, OwnTile

\* When a group is in its mainloop the tiles before its own have been read.
LEMMA OthersRead ==
    ASSUME PipeInv, IInv, NEW b \in CTAs, NEW w \in WarpGroups, math[b][w].pc = "mma",
           NEW i \in Nat, i < math[b][w].tile * K
    PROVE  \E v \in WarpGroups : Reads(v, i) /\ i < Taken(b, v)
  <1>1. K \in Nat \ {0} /\ LaunchOK
    BY LaunchIs DEF PipeInv
  <1>2. \A v \in WarpGroups : /\ math[b][v].tile \in Nat /\ math[b][v].k \in Nat
                              /\ math[b][v].tile * K \in Nat
                              /\ Taken(b, v) = math[b][v].tile * K + math[b][v].k
    <2> SUFFICES ASSUME NEW v \in WarpGroups
                 PROVE  /\ math[b][v].tile \in Nat /\ math[b][v].k \in Nat
                        /\ math[b][v].tile * K \in Nat
                        /\ Taken(b, v) = math[b][v].tile * K + math[b][v].k
      OBVIOUS
    <2>1. math[b][v].tile \in Nat /\ math[b][v].k \in Nat
      BY <1>1, ReadingIs
    <2> QED BY <1>1, <2>1, TimesTypes DEF Taken
  <1>3. PICK v \in WarpGroups : Reads(v, i)
    BY <1>1, EverybodyIs
  <1>4. CASE ~Pingpong
    <2>1. Reads(w, i)
      BY <1>4 DEF Reads
    <2>2. i < Taken(b, w)
      BY <1>2
    <2> QED BY <2>1, <2>2
  <1>5. CASE v = w
    <2>1. i < Taken(b, w)
      BY <1>2
    <2> QED BY <1>3, <1>5, <2>1
  <1>6. CASE Pingpong /\ v # w
    <2>1. PICK q \in Nat, j \in 0 .. K - 1 : i = q * K + j /\ q = i \div K /\ q % 2 = v
      <3>1. i \div K \in Nat /\ i % K \in 0 .. K - 1 /\ i = (i \div K) * K + (i % K)
        BY <1>1, Quotient
      <3>2. (i \div K) % 2 = v
        BY <1>3, <1>6 DEF Reads
      <3> QED BY <3>1, <3>2
    <2>2. q < math[b][w].tile
      <3>1. q * K < math[b][w].tile * K
        <4>1. PICK a \in Nat : a = q * K
          BY <1>1, TimesTypes
        <4>2. PICK c \in Nat : c = math[b][w].tile * K
          BY <1>2
        <4>3. i = a + j /\ i < c
          BY <2>1, <4>1, <4>2
        <4>4. a < c
          BY <1>1, <4>3
        <4> QED BY <4>1, <4>2, <4>4
      <3> QED BY <1>1, <1>2, <3>1, TimesCancels
    <2>3. PlaceInv(b) /\ TurnInv(b)
      BY <1>6 DEF IInv, BlockInv
    <2>4. v = 1 - w /\ w \in {0, 1} /\ v \in {0, 1}
      BY <1>6, EitherGroup DEF WarpGroups
    <2>5. PICK turn \in Nat, ended \in Nat, own \in Nat :
             turn = Turn(b, v) /\ ended = MmaEnded(b, v) /\ own = Turn(b, w)
      BY <2>3, Counts
    <2>6. own + 1 <= ended + 1 - w
      <3>1. MmaBegun(b, w) = own + 1
        BY <2>5 DEF MmaBegun, Past
      <3> QED BY <2>3, <2>4, <2>5, <3>1, TurnInvOf
    <2>7. /\ math[b][w].tile = 2 * own + w /\ math[b][v].tile = 2 * turn + v
      <3>1. \A u \in WarpGroups : math[b][u].tile \in Nat /\ math[b][u].tile % 2 = u
        BY <2>3 DEF PlaceInv
      <3>2. \A t \in Nat : t = 2 * (t \div 2) + (t % 2)
        OBVIOUS
      <3> QED BY <2>5, <3>1, <3>2 DEF Turn
    <2>8. q = 2 * (q \div 2) + v /\ q \div 2 \in Nat
      BY <2>1
    <2>9. q \div 2 < ended
      BY <2>2, <2>4, <2>6, <2>7, <2>8
    <2>10. CASE q < math[b][v].tile
      <3>1. (q + 1) * K <= math[b][v].tile * K
        BY <1>1, <1>2, <2>10, TimesMonotone
      <3>2. (q + 1) * K = q * K + K /\ q * K \in Nat
        BY <1>1, TimesTypes
      <3>3. i < Taken(b, v)
        BY <1>1, <1>2, <2>1, <3>1, <3>2
      <3> QED BY <1>3, <3>3
    <2>11. CASE ~(q < math[b][v].tile)
      <3>1. turn = q \div 2 /\ ended = turn + 1
        <4>1. turn <= q \div 2
          <5>1. PICK h \in Nat, c \in Nat : h = q \div 2 /\ c = math[b][v].tile
            BY <1>2, <2>8
          <5>2. q = 2 * h + v /\ c = 2 * turn + v /\ c <= q
            BY <2>7, <2>8, <2>11, <5>1
          <5>3. turn <= h
            BY <2>4, <5>2
          <5> QED BY <5>1, <5>3
        <4>2. ended \in {turn, turn + 1}
          BY <2>5 DEF MmaEnded, Past
        <4> QED BY <2>8, <2>9, <4>1, <4>2
      <3>2. math[b][v].pc \in {"mma_tail", "order_store", "store"}
        BY <2>5, <3>1 DEF MmaEnded, Past
      <3>3. math[b][v].k = K
        BY <3>2 DEF PipeInv, MathInv, MathHolds, HasRead
      <3>4. math[b][v].tile = q
        BY <2>7, <2>8, <3>1
      <3>5. PICK a \in Nat : a = q * K
        BY <1>1, TimesTypes
      <3>6. i = a + j /\ Taken(b, v) = a + K
        BY <1>2, <2>1, <3>3, <3>4, <3>5
      <3>7. i < Taken(b, v)
        BY <1>1, <3>6
      <3> QED BY <1>3, <3>7
    <2> QED BY <2>10, <2>11
  <1> QED BY <1>4, <1>5, <1>6

\* The phase a math warp group waits for is the next one of the barrier, or
\* the last.
LEMMA ConsumerNear ==
    ASSUME PipeInv, IInv, NEW b \in CTAs, NEW w \in WarpGroups,
           math[b][w].pc = "mma", math[b][w].k < K,
           NEW s \in Stages, s = Taken(b, w) % Depth
    PROVE  LET n == Taken(b, w) \div Depth
           IN  /\ full[b][s].phases \in {n, n + 1} /\ n \in Nat
               /\ full[b][s].phases = n + 1 => FullAt(b, s) = Taken(b, w) + Depth
               /\ Reads(w, Taken(b, w))
  <1>1. K \in Nat \ {0} /\ Depth \in Nat \ {0} /\ LaunchOK
    BY LaunchIs DEF PipeInv
  <1>2. PICK x \in Nat, y \in Nat : x = Taken(b, w) /\ y = FullAt(b, s)
    BY Places
  <1>3. y % Depth = s /\ full[b][s].phases = y \div Depth
    BY <1>2, Places
  <1>4. PICK k \in 0 .. K - 1 : k = math[b][w].k
    BY <1>1, ReadingIs
  <1>5. math[b][w].tile * K \in Nat /\ x = math[b][w].tile * K + k /\ Reads(w, x)
    <2>1. math[b][w].tile \in Nat
      BY ReadingIs
    <2>2. math[b][w].tile * K \in Nat
      BY <1>1, <2>1, TimesTypes
    <2> QED BY <1>2, <1>4, <2>2, OwnTile DEF Taken
  <1>6. x <= y
    <2>1. CASE x < Depth
      BY <1>1, <1>2, <1>3, <2>1, SameStage
    <2>2. CASE ~(x < Depth)
      <3>1. PICK z \in Nat : z = x - Depth /\ z % Depth = s
        BY <1>1, <1>2, <1>3, <2>2, SameStage
      <3>2. z < y
        <4>1. CASE z < math[b][w].tile * K
          <5>1. PICK v \in WarpGroups : Reads(v, z) /\ z < Taken(b, v)
            BY <4>1, OthersRead
          <5> QED BY <1>2, <3>1, <5>1, Chain
        <4>2. CASE ~(z < math[b][w].tile * K)
          <5>1. PICK j \in 0 .. K - 1 : z = math[b][w].tile * K + j
            <6>1. (z - math[b][w].tile * K) \in 0 .. K - 1
              BY <1>1, <1>4, <1>5, <3>1, <4>2
            <6>2. z = math[b][w].tile * K + (z - math[b][w].tile * K)
              BY <1>5
            <6> QED BY <6>1, <6>2
          <5>2. Reads(w, z)
            BY <5>1, OwnTile
          <5>3. z < Taken(b, w)
            BY <1>1, <1>2, <3>1
          <5> QED BY <1>2, <3>1, <5>2, <5>3, Chain
        <4> QED BY <4>1, <4>2
      <3>3. z + Depth <= y
        BY <1>1, <1>2, <1>3, <3>1, <3>2, SameStage
      <3> QED BY <1>1, <3>1, <3>3
    <2> QED BY <2>1, <2>2
  <1>7. y <= x + Depth
    <2> SUFFICES ASSUME x + Depth < y PROVE FALSE
      BY <1>1
    <2>0. b \in Sharing(b)
      BY <1>1, SharingIs
    <2>1. PICK z \in Nat : z = x + Depth /\ z % Depth = s
      <3>1. (x + Depth) % Depth = x % Depth
        BY <1>1, ModStep
      <3> QED BY <1>1, <1>2, <3>1
    <2>2. z < Loaded(b)
      BY <1>2, <2>0, <2>1, Chain
    <2>3. z < Awaited(b)
      BY <2>1, <2>2, Places
    <2>4. z <= EmptyAt(b, s)
      BY <2>1, <2>3, Chain
    <2>5. x < EmptyAt(b, s)
      BY <1>1, <2>1, <2>4, Places
    <2>6. x < LetGo(b, w)
      BY <1>2, <1>5, <2>0, <2>5, Chain
    <2> QED BY <1>2, <2>6, Places
  <1>8. x \div Depth <= y \div Depth /\ y \div Depth <= x \div Depth + 1
    BY <1>1, <1>2, <1>3, <1>6, <1>7, Neighbours
  <1>9. y \div Depth = x \div Depth + 1 => y = x + Depth
    BY <1>1, <1>2, <1>3, Neighbours
  <1>10. y \div Depth \in Nat /\ x \div Depth \in Nat
    BY <1>1, Quotient
  <1> QED BY <1>2, <1>3, <1>5, <1>8, <1>9, <1>10

\* When consumer_wait returns, the stage holds the k tile it waited for.
LEMMA ConsumerWaits ==
    ASSUME PipeInv, IInv, NEW b \in CTAs, NEW w \in WarpGroups,
           math[b][w].pc = "mma", math[b][w].k < K,
           NEW s \in Stages, s = Taken(b, w) % Depth,
           wait(full[b][s], At(Taken(b, w), 0).phase)
    PROVE  FullAt(b, s) = Taken(b, w) + Depth
  <1>1. PICK p, n \in Nat : p = full[b][s].phases /\ n = Taken(b, w) \div Depth
    BY ConsumerNear, Places
  <1>2. p \in {n, n + 1} /\ (p = n + 1 => FullAt(b, s) = Taken(b, w) + Depth)
    BY <1>1, ConsumerNear
  <1>3. p % 2 # n % 2
    BY <1>1 DEF wait, At, PipelineState
  <1> QED BY <1>2, <1>3, Parity

-----------------------------------------------------------------------------
(* What a step leaves alone.                                               *)

\* The launch settles the sizes.
LEMMA SameLaunch ==
    ASSUME launch' = launch
    PROVE  /\ Depth' = Depth /\ K' = K /\ CTAs' = CTAs /\ Stages' = Stages
           /\ TmaTransaction' = TmaTransaction /\ TilesPerTurn' = TilesPerTurn
           /\ Consumers' = Consumers /\ (Pingpong' <=> Pingpong) /\ (LaunchOK' <=> LaunchOK)
           /\ \A b : Sharing(b)' = Sharing(b)
           /\ \A w, i : Reads(w, i)' <=> Reads(w, i)
           /\ \A b, i : Everybody(b, i)' = Everybody(b, i)
           /\ \A i, parity : At(i, parity)' = At(i, parity)
  <1>1. CTAs' = CTAs /\ Depth' = Depth /\ K' = K /\ (Pingpong' <=> Pingpong)
    BY DEF CTAs, Depth, K, Pingpong
  <1>2. \A b : Sharing(b)' = Sharing(b)
    BY <1>1 DEF Sharing
  <1>3. \A w, i : Reads(w, i)' <=> Reads(w, i)
    BY <1>1 DEF Reads
  <1>4. \A b, i : Everybody(b, i)' = Everybody(b, i)
    BY <1>2, <1>3 DEF Everybody
  <1>5. \A i, parity : At(i, parity)' = At(i, parity)
    BY <1>1 DEF At
  <1>6. /\ Stages' = Stages /\ TmaTransaction' = TmaTransaction /\ TilesPerTurn' = TilesPerTurn
        /\ Consumers' = Consumers /\ (LaunchOK' <=> LaunchOK)
    BY <1>1 DEF Stages, TmaTransaction, TilesPerTurn, Consumers, NumConsumerWarpGroups, LaunchOK
  <1> QED BY <1>1, <1>2, <1>3, <1>4, <1>5, <1>6

\* The parts of the invariant are kept by a step that leaves alone what they are about.
LEMMA FullKept ==
    ASSUME PipeInv, launch' = launch, NEW b \in CTAs, NEW s \in Stages,
           full'[b][s] = full[b][s], smem'[b][s] = smem[b][s], Landed(b, s)' = Landed(b, s),
           \A d \in Sharing(b) : Loaded(d)' \in Nat /\ Loaded(d) <= Loaded(d)',
           FullAt(b, s) < Loaded(b)' <=> FullAt(b, s) < Loaded(b)
    PROVE  FullInv(b, s)'
  <1>1. Depth' = Depth /\ TmaTransaction' = TmaTransaction /\ Sharing(b)' = Sharing(b)
    BY SameLaunch
  <1>2. FullAt(b, s)' = FullAt(b, s) /\ full'[b][s].phases = full[b][s].phases
    BY <1>1 DEF FullAt
  <1>3. FullInv(b, s) /\ FullAt(b, s) \in Nat /\ Depth \in Nat
    BY Places, LaunchIs DEF PipeInv
  <1>4. \A d \in Sharing(b) : FullAt(b, s) < Loaded(d)' + Depth
    <2> SUFFICES ASSUME NEW d \in Sharing(b) PROVE FullAt(b, s) < Loaded(d)' + Depth
      OBVIOUS
    <2>1. FullAt(b, s) < Loaded(d) + Depth
      BY <1>3 DEF FullInv
    <2>2. d \in CTAs
      BY SharingIs DEF PipeInv
    <2>3. Loaded(d) \in Nat
      BY <2>2, Places
    <2> QED BY <1>3, <2>1, <2>3
  <1> QED BY <1>1, <1>2, <1>3, <1>4 DEF FullInv

LEMMA EmptyKept ==
    ASSUME PipeInv, launch' = launch, NEW b \in CTAs, NEW s \in Stages,
           empty'[b][s] = empty[b][s],
           \A d \in Sharing(b), w \in WarpGroups :
              /\ OnItsWay(<<d, w>>, b, s)' <=>
                   \/ OnItsWay(<<d, w>>, b, s)
                   \/ LetGo(d, w) = EmptyAt(b, s) /\ EmptyAt(b, s) < LetGo(d, w)'
                      /\ Reads(w, EmptyAt(b, s))
              /\ \A i \in Nat : /\ Reads(w, i) /\ i < LetGo(d, w) => i < LetGo(d, w)'
                                /\ Reads(w, i) /\ i < LetGo(d, w)' =>
                                     \/ i < LetGo(d, w)
                                     \/ i # EmptyAt(b, s)
                                     \/ LetGo(d, w) = i
    PROVE  EmptyInv(b, s)'
  <1>1. Depth' = Depth /\ Sharing(b)' = Sharing(b) /\ Consumers' = Consumers
        /\ (\A w, i : Reads(w, i)' <=> Reads(w, i))
        /\ (\A i : Everybody(b, i)' = Everybody(b, i))
    BY SameLaunch
  <1>2. EmptyAt(b, s)' = EmptyAt(b, s) /\ empty'[b][s].phases = empty[b][s].phases
    BY <1>1 DEF EmptyAt
  <1>3. PICK x \in Nat : x = EmptyAt(b, s) /\ x = EmptyAt(b, s)'
    BY <1>2, Places
  <1>4. EmptyInv(b, s)
    BY DEF PipeInv
  <1>5. ASSUME NEW d \in Sharing(b), NEW w \in WarpGroups, Reads(w, x)
        PROVE  (x < LetGo(d, w) /\ ~OnItsWay(<<d, w>>, b, s)) <=>
               (x < LetGo(d, w)' /\ ~OnItsWay(<<d, w>>, b, s)')
    <2>1. d \in CTAs
      BY SharingIs DEF PipeInv
    <2>2. LetGo(d, w) \in Nat
      BY <2>1, Places
    <2>3. LetGo(d, w) = x => ~(x < LetGo(d, w))
      BY <2>2
    <2> QED BY <1>3, <1>5, <2>3
  <1>6. Freed(b, s)' = Freed(b, s)
    <2>1. Freed(b, s) = {c \in Everybody(b, x) : x < LetGo(c[1], c[2]) /\ ~OnItsWay(c, b, s)}
      BY <1>3 DEF Freed
    <2>2. Freed(b, s)' = {c \in Everybody(b, x) : x < LetGo(c[1], c[2])' /\ ~OnItsWay(c, b, s)'}
      BY <1>1, <1>3 DEF Freed, Everybody
    <2>3. ASSUME NEW c \in Everybody(b, x)
          PROVE  (x < LetGo(c[1], c[2]) /\ ~OnItsWay(c, b, s)) <=>
                 (x < LetGo(c[1], c[2])' /\ ~OnItsWay(c, b, s)')
      <3>1. c = <<c[1], c[2]>> /\ c[1] \in Sharing(b) /\ c[2] \in WarpGroups /\ Reads(c[2], x)
        BY DEF Everybody
      <3>2. (x < LetGo(c[1], c[2]) /\ ~OnItsWay(<<c[1], c[2]>>, b, s)) <=>
            (x < LetGo(c[1], c[2])' /\ ~OnItsWay(<<c[1], c[2]>>, b, s)')
        BY <1>5, <3>1
      <3> QED BY <3>1, <3>2 DEF OnItsWay
    <2> QED BY <2>1, <2>2, <2>3
  <1>7. Everybody(b, EmptyAt(b, s))' = Everybody(b, EmptyAt(b, s))
    BY <1>1, <1>2 DEF Everybody
  <1>8. \A d \in Sharing(b), w \in WarpGroups, i \in 0 .. x - 1 :
             i % Depth = s /\ Reads(w, i) => i < LetGo(d, w)'
    <2> SUFFICES ASSUME NEW d \in Sharing(b), NEW w \in WarpGroups, NEW i \in 0 .. x - 1,
                        i % Depth = s, Reads(w, i)
                 PROVE  i < LetGo(d, w)'
      OBVIOUS
    <2>1. i < LetGo(d, w)
      BY <1>3, <1>4 DEF EmptyInv
    <2>2. i \in Nat
      BY <1>3
    <2> QED BY <2>1, <2>2
  <1> QED BY <1>1, <1>2, <1>3, <1>4, <1>6, <1>7, <1>8 DEF EmptyInv

LEMMA ProducerKept ==
    ASSUME PipeInv, launch' = launch, NEW b \in CTAs, producer'[b] = producer[b],
           \A s \in Stages : EmptyAt(b, s)' \in Nat /\ EmptyAt(b, s) <= EmptyAt(b, s)'
    PROVE  ProducerInv(b)' /\ Loaded(b)' = Loaded(b)
  <1>1. Depth' = Depth /\ K' = K /\ Stages' = Stages /\ Depth \in Nat
    BY SameLaunch, LaunchIs DEF PipeInv
  <1>2. Loaded(b)' = Loaded(b) /\ Awaited(b)' = Awaited(b)
    BY <1>1 DEF Loaded, Awaited
  <1>3. ProducerInv(b)
    BY DEF PipeInv
  <1>4. \A s \in Stages : Awaited(b) <= EmptyAt(b, s)' + Depth
    <2> SUFFICES ASSUME NEW s \in Stages PROVE Awaited(b) <= EmptyAt(b, s)' + Depth
      OBVIOUS
    <2>1. Awaited(b) <= EmptyAt(b, s) + Depth
      BY <1>3 DEF ProducerInv
    <2>2. EmptyAt(b, s) \in Nat /\ Awaited(b) \in Nat
      BY Places
    <2> QED BY <1>1, <2>1, <2>2
  <1> QED BY <1>1, <1>2, <1>3, <1>4 DEF ProducerInv, At

LEMMA MathKept ==
    ASSUME PipeInv, launch' = launch, NEW b \in CTAs, NEW w \in WarpGroups,
           math'[b][w] = math[b][w],
           \A s \in Stages : FullAt(b, s)' \in Nat /\ FullAt(b, s) <= FullAt(b, s)'
    PROVE  MathInv(b, w)' /\ LetGo(b, w)' = LetGo(b, w) /\ Taken(b, w)' = Taken(b, w)
  <1>1. /\ Depth' = Depth /\ K' = K /\ Stages' = Stages /\ TilesPerTurn' = TilesPerTurn
        /\ (Pingpong' <=> Pingpong) /\ (\A i : Reads(w, i)' <=> Reads(w, i))
    BY SameLaunch
  <1>2. Depth \in Nat \ {0} /\ Stages = 0 .. Depth - 1
    BY LaunchIs DEF PipeInv
  <1>3. Taken(b, w)' = Taken(b, w) /\ LetGo(b, w)' = LetGo(b, w)
    BY <1>1 DEF Taken, LetGo
  <1>4. MathInv(b, w) /\ Taken(b, w) \in Nat
    BY Places DEF PipeInv
  <1>5. ASSUME NEW i \in Nat, i < Taken(b, w), Reads(w, i)
        PROVE  i < FullAt(b, i % Depth)'
    <2>1. PICK s \in Stages : s = i % Depth /\ s = i % Depth'
      BY <1>1, <1>2, Quotient
    <2>2. i < FullAt(b, s) /\ FullAt(b, s) \in Nat
      BY <1>4, <1>5, <2>1, Places DEF MathInv, MathReads
    <2>3. i < FullAt(b, s)'
      BY <2>2
    <2> QED BY <2>1, <2>3
  <1>6. MathReads(b, w)'
    BY <1>1, <1>3, <1>5 DEF MathReads
  <1>7. MathShape(b, w)'
    BY <1>1, <1>4 DEF MathInv, MathShape
  <1>8. MathHolds(b, w)'
    <2>1. MathHolds(b, w)
      BY <1>4 DEF MathInv
    <2>2. Depth' = Depth /\ K' = K /\ Taken(b, w)' = Taken(b, w)
      BY <1>1, <1>3
    <2> QED BY <2>1, <2>2 DEF MathHolds, HasRead, Entry
  <1>9. MathPipes(b, w)'
    BY <1>1, <1>3, <1>4 DEF MathInv, MathPipes, HasRead, At
  <1> QED BY <1>3, <1>6, <1>7, <1>8, <1>9 DEF MathInv

LEMMA CopyKept ==
    ASSUME PipeInv, launch' = launch, NEW m \in copies,
           FullAt(m.to, m.stage)' = FullAt(m.to, m.stage),
           Loaded(m.from)' \in Nat, Loaded(m.from) <= Loaded(m.from)'
    PROVE  CopyInv(m)'
  <1>1. CopyInv(m)
    BY DEF PipeInv
  <1>2. CTAs' = CTAs /\ Stages' = Stages /\ Sharing(m.from)' = Sharing(m.from)
    BY SameLaunch
  <1>3. m.from \in CTAs /\ m.to \in CTAs /\ m.stage \in Stages
    BY <1>1, SharingIs DEF CopyInv, PipeInv
  <1>4. m.k \in Nat /\ Loaded(m.from) \in Nat
    BY <1>1, <1>3, Places DEF CopyInv
  <1>5. m.k < Loaded(m.from)'
    BY <1>1, <1>4 DEF CopyInv
  <1> QED BY <1>1, <1>2, <1>5 DEF CopyInv

LEMMA ArrivalKept ==
    ASSUME PipeInv, launch' = launch, NEW m \in arrivals,
           EmptyAt(m.to, m.stage)' = EmptyAt(m.to, m.stage),
           m.k < LetGo(m.from, m.group)'
    PROVE  ArrivalInv(m)'
  <1>1. ArrivalInv(m)
    BY DEF PipeInv
  <1>2. /\ CTAs' = CTAs /\ Stages' = Stages /\ Sharing(m.from)' = Sharing(m.from)
        /\ (Reads(m.group, m.k)' <=> Reads(m.group, m.k))
    BY SameLaunch
  <1> QED BY <1>1, <1>2 DEF ArrivalInv

-----------------------------------------------------------------------------
(* The steps of the producers and of the copies.                           *)

IsTable(f, A, S) == f = [a \in A |-> [s \in S |-> f[a][s]]]
Put(f, b, t, v)  == [f EXCEPT ![b][t] = v]

\* A table of tables, and an entry of it replaced.
LEMMA NestedUpdate ==
    ASSUME NEW A, NEW S, NEW f, IsTable(f, A, S), NEW b \in A, NEW t \in S, NEW v
    PROVE  /\ IsTable(Put(f, b, t, v), A, S)
           /\ Put(f, b, t, v)[b][t] = v
           /\ \A a \in A, s \in S : a # b \/ s # t => Put(f, b, t, v)[a][s] = f[a][s]
  <1>g. PICK g : g = [f EXCEPT ![b][t] = v]
    OBVIOUS
  <1>0. f = [a \in A |-> [s \in S |-> f[a][s]]]
    BY Zenon DEF IsTable
  <1>1. DOMAIN f = A /\ \A a \in A : f[a] = [s \in S |-> f[a][s]]
    BY <1>0, Zenon
  <1>2. \A a \in A : DOMAIN f[a] = S
    BY <1>1, Zenon
  <1>3. g[b][t] = v
    BY <1>g, <1>1, <1>2
  <1>4. \A a \in A, s \in S : a # b \/ s # t => g[a][s] = f[a][s]
    BY <1>g, <1>1, <1>2
  <1>5. DOMAIN g = A /\ (\A a \in A : DOMAIN g[a] = S) /\ g = [a \in A |-> g[a]]
    BY <1>g, <1>1, <1>2
  <1>6. \A a \in A : g[a] = [s \in S |-> g[a][s]]
    <2> SUFFICES ASSUME NEW a \in A PROVE g[a] = [s \in S |-> g[a][s]]
      OBVIOUS
    <2>1. CASE a = b
      <3>1. g[b] = [f[b] EXCEPT ![t] = v]
        BY <1>g, <1>1
      <3>2. [f[b] EXCEPT ![t] = v] = [s \in S |-> [f[b] EXCEPT ![t] = v][s]]
        BY <1>2
      <3> QED BY <2>1, <3>1, <3>2
    <2>2. CASE a # b
      <3>1. g[a] = f[a]
        BY <1>g, <1>1, <2>2
      <3> QED BY <1>1, <3>1
    <2> QED BY <2>1, <2>2
  <1>7. g = [a \in A |-> [s \in S |-> g[a][s]]]
    BY <1>5, <1>6
  <1>8. IsTable(g, A, S)
    BY <1>7, Zenon DEF IsTable
  <1>9. Put(f, b, t, v) = g
    BY <1>g, Zenon DEF Put
  <1> QED BY <1>3, <1>4, <1>8, <1>9

\* Who lets go of nothing and lands no arrival leaves the empty barriers alone.
LEMMA FreeingKept ==
    ASSUME PipeInv, launch' = launch, empty' = empty, arrivals' = arrivals,
           \A b \in CTAs, w \in WarpGroups, i \in Nat :
              Reads(w, i) => (i < LetGo(b, w)' <=> i < LetGo(b, w))
    PROVE  /\ \A b \in CTAs, s \in Stages : EmptyInv(b, s)' /\ EmptyAt(b, s)' = EmptyAt(b, s)
           /\ \A m \in arrivals : ArrivalInv(m)'
  <1>1. Depth' = Depth
    BY SameLaunch
  <1>2. \A b, s : EmptyAt(b, s)' = EmptyAt(b, s)
    BY <1>1 DEF EmptyAt
  <1>3. ASSUME NEW b \in CTAs, NEW s \in Stages PROVE EmptyInv(b, s)'
    <2>1. \A d, w : OnItsWay(<<d, w>>, b, s)' <=> OnItsWay(<<d, w>>, b, s)
      BY DEF OnItsWay
    <2>2. ASSUME NEW d \in Sharing(b), NEW w \in WarpGroups
          PROVE /\ OnItsWay(<<d, w>>, b, s)' <=>
                   \/ OnItsWay(<<d, w>>, b, s)
                   \/ LetGo(d, w) = EmptyAt(b, s) /\ EmptyAt(b, s) < LetGo(d, w)'
                      /\ Reads(w, EmptyAt(b, s))
                /\ \A i \in Nat : /\ Reads(w, i) /\ i < LetGo(d, w) => i < LetGo(d, w)'
                                  /\ Reads(w, i) /\ i < LetGo(d, w)' =>
                                       \/ i < LetGo(d, w)
                                       \/ i # EmptyAt(b, s)
                                       \/ LetGo(d, w) = i
      <3>1. d \in CTAs
        BY SharingIs DEF PipeInv
      <3>2. LetGo(d, w) \in Nat /\ EmptyAt(b, s) \in Nat
        BY <3>1, Places
      <3>3. ~(LetGo(d, w) = EmptyAt(b, s) /\ EmptyAt(b, s) < LetGo(d, w)'
              /\ Reads(w, EmptyAt(b, s)))
        BY <3>1, <3>2
      <3> QED BY <2>1, <3>1, <3>3
    <2> QED BY <2>2, EmptyKept
  <1>4. ASSUME NEW m \in arrivals PROVE ArrivalInv(m)'
    <2>1. ArrivalInv(m)
      BY DEF PipeInv
    <2>2. m.from \in CTAs /\ m.group \in WarpGroups /\ m.to \in CTAs /\ m.stage \in Stages
      BY <2>1, SharingIs DEF PipeInv, ArrivalInv
    <2>3. m.k \in Nat /\ Reads(m.group, m.k) /\ m.k < LetGo(m.from, m.group)
      BY <2>1, <2>2, Places DEF ArrivalInv
    <2> QED BY <1>2, <2>2, <2>3, ArrivalKept
  <1> QED BY <1>2, <1>3, <1>4

\* Who loads nothing and lands no copy leaves the full barriers alone.
LEMMA FillingKept ==
    ASSUME PipeInv, launch' = launch, full' = full, smem' = smem, copies' = copies,
           \A b \in CTAs : Loaded(b)' = Loaded(b)
    PROVE  /\ \A b \in CTAs, s \in Stages : FullInv(b, s)' /\ FullAt(b, s)' = FullAt(b, s)
           /\ \A m \in copies : CopyInv(m)'
  <1>1. Depth' = Depth /\ \A b : Sharing(b)' = Sharing(b)
    BY SameLaunch
  <1>2. \A b, s : FullAt(b, s)' = FullAt(b, s)
    BY <1>1 DEF FullAt
  <1>3. \A b \in CTAs : Loaded(b) \in Nat
    BY Places
  <1>4. ASSUME NEW b \in CTAs, NEW s \in Stages PROVE FullInv(b, s)'
    <2>1. \A d \in Sharing(b) : d \in CTAs
      BY SharingIs DEF PipeInv
    <2>2. Landed(b, s)' = Landed(b, s)
      BY <1>1, <1>2, <2>1 DEF Landed
    <2> QED BY <1>3, <2>1, <2>2, FullKept
  <1>5. ASSUME NEW m \in copies PROVE CopyInv(m)'
    <2>1. m.from \in CTAs
      BY DEF PipeInv, CopyInv
    <2> QED BY <1>2, <1>3, <2>1, CopyKept
  <1> QED BY <1>2, <1>4, <1>5

\* The math warp groups do not move.
LEMMA MathsKept ==
    ASSUME PipeInv, launch' = launch, math' = math,
           \A b \in CTAs, s \in Stages : FullAt(b, s)' \in Nat /\ FullAt(b, s) <= FullAt(b, s)'
    PROVE  /\ \A b \in CTAs, w \in WarpGroups : MathInv(b, w)' /\ LetGo(b, w)' = LetGo(b, w)
           /\ \A b \in CTAs, w \in WarpGroups, i \in Nat :
                Reads(w, i) => (i < LetGo(b, w)' <=> i < LetGo(b, w))
  BY MathKept

\* What an arrival and landing bytes do to a barrier.
LEMMA PhaseSteps ==
    ASSUME NEW c, NEW n, NEW p, NEW t
    PROVE  /\ BarrierOf(c, n, p, t).phases = n
           /\ p = 0 /\ t = 0 => PhaseEnds(BarrierOf(c, n, p, t)) = BarrierOf(c, n + 1, c, t)
           /\ p # 0 \/ t # 0 => PhaseEnds(BarrierOf(c, n, p, t)) = BarrierOf(c, n, p, t)
           /\ arrive(BarrierOf(c, n, p, t)) = PhaseEnds(BarrierOf(c, n, p - 1, t))
  <1>0. PICK r : r = BarrierOf(c, n, p, t)
    OBVIOUS
  <1>1. r.phases = n /\ r.count = c /\ r.pending = p /\ r.tx = t
    BY <1>0 DEF BarrierOf
  <1>2. [r EXCEPT !.pending = r.count, !.phases = @ + 1] = BarrierOf(c, n + 1, c, t)
    <2>1. PICK g : g = [r EXCEPT !.pending = r.count, !.phases = @ + 1]
      OBVIOUS
    <2>2. g = BarrierOf(c, n + 1, c, t)
      BY <1>0, <2>1 DEF BarrierOf
    <2> QED BY <2>1, <2>2
  <1>3. [r EXCEPT !.pending = @ - 1] = BarrierOf(c, n, p - 1, t)
    BY <1>0 DEF BarrierOf
  <1>4. /\ p = 0 /\ t = 0 => PhaseEnds(r) = BarrierOf(c, n + 1, c, t)
        /\ p # 0 \/ t # 0 => PhaseEnds(r) = r
    BY <1>1, <1>2 DEF PhaseEnds
  <1>5. arrive(r) = PhaseEnds(BarrierOf(c, n, p - 1, t))
    BY <1>3 DEF arrive
  <1> QED BY <1>0, <1>1, <1>4, <1>5

\* Bytes that are expected, and bytes that land.
LEMMA BytesSteps ==
    ASSUME NEW c, NEW n, NEW p, NEW t, NEW x
    PROVE  /\ arrive_and_expect_tx(BarrierOf(c, n, p, t), x) =
                PhaseEnds(BarrierOf(c, n, p - 1, t + x))
           /\ complete_transaction(BarrierOf(c, n, p, t), x) =
                PhaseEnds(BarrierOf(c, n, p, t - x))
  <1>0. PICK r : r = BarrierOf(c, n, p, t)
    OBVIOUS
  <1>1. [r EXCEPT !.pending = @ - 1, !.tx = @ + x] = BarrierOf(c, n, p - 1, t + x)
    <2>1. PICK g : g = [r EXCEPT !.pending = @ - 1, !.tx = @ + x]
      OBVIOUS
    <2>2. g = BarrierOf(c, n, p - 1, t + x)
      BY <1>0, <2>1 DEF BarrierOf
    <2> QED BY <2>1, <2>2
  <1>2. [r EXCEPT !.tx = @ - x] = BarrierOf(c, n, p, t - x)
    BY <1>0 DEF BarrierOf
  <1>3. arrive_and_expect_tx(r, x) = PhaseEnds(BarrierOf(c, n, p - 1, t + x))
    BY <1>1, Zenon DEF arrive_and_expect_tx
  <1>4. complete_transaction(r, x) = PhaseEnds(BarrierOf(c, n, p, t - x))
    BY <1>2, Zenon DEF complete_transaction
  <1> QED BY <1>0, <1>3, <1>4

\* load: the arrival at the producer's own barrier.
LEMMA LoadArrives ==
    ASSUME PipeInv, NEW b \in CTAs, NEW s \in Stages, FullAt(b, s) = Loaded(b)
    PROVE  /\ arrive_and_expect_tx(full[b][s], TmaTransaction) =
                BarrierOf(1, full[b][s].phases, 0, TmaTransaction - Weight(b, Landed(b, s)))
           /\ b \notin Landed(b, s)
  <1> DEFINE L == Landed(b, s)
             r == full[b][s]
             n == full[b][s].phases
             W == Weight(b, L)
  <1>1. LaunchOK /\ FullInv(b, s) /\ Loaded(b) \in Nat
    BY Places DEF PipeInv
  <1>2. r = BarrierOf(1, n, 1, 0 - W) /\ L # Sharing(b)
    BY <1>1 DEF FullInv
  <1>3. L \in SUBSET Sharing(b) /\ b \notin L
    BY <1>1 DEF Landed
  <1>4. W \in Nat /\ W < TmaTransaction /\ TmaTransaction \in Nat
    <2>1. W \in Nat /\ W < TmaTransaction
      BY <1>1, <1>2, <1>3, WeightIs
    <2>2. TmaTransaction \in Nat
      BY <1>1, LaunchIs DEF TmaTransaction
    <2> QED BY <2>1, <2>2
  <1> HIDE DEF n, W, L
  <1>5. arrive_and_expect_tx(r, TmaTransaction) =
          PhaseEnds(BarrierOf(1, n, 1 - 1, (0 - W) + TmaTransaction))
    BY <1>2, BytesSteps
  <1>6. (0 - W) + TmaTransaction = TmaTransaction - W /\ TmaTransaction - W # 0 /\ 1 - 1 = 0
    BY <1>4
  <1>7. PhaseEnds(BarrierOf(1, n, 0, TmaTransaction - W)) = BarrierOf(1, n, 0, TmaTransaction - W)
    BY <1>6, PhaseSteps
  <1> QED BY <1>3, <1>5, <1>6, <1>7 DEF n, W, L

\* load: the producer and its pipeline states.
LEMMA LoadProducer ==
    ASSUME PipeInv, NEW b \in CTAs, Load(b)
    PROVE  /\ Loaded(b)' = Loaded(b) + 1
           /\ producer' = [c \in CTAs |-> producer'[c]]
           /\ \A c \in CTAs \ {b} : producer'[c] = producer[c]
           /\ producer[b].write = At(Loaded(b), 1) /\ Awaited(b) = Loaded(b)
           /\ EmptyAt(b, Loaded(b) % Depth) = Loaded(b)
           /\ ProducerInv(b)'
  <1> DEFINE p == producer[b]
             x == Loaded(b)
             s == Loaded(b) % Depth
  <1>1. /\ LaunchOK /\ K \in Nat \ {0} /\ Depth \in Nat \ {0, 1} /\ launch.tiles \in Nat
        /\ Stages = 0 .. Depth - 1
    BY LaunchIs DEF PipeInv
  <1>2. launch' = launch
    BY Zenon DEF Load
  <1>3. Depth' = Depth /\ K' = K /\ Stages' = Stages /\ \A i, parity : At(i, parity)' = At(i, parity)
    BY <1>2, SameLaunch
  <1>4. ProducerInv(b) /\ p.pc = "load"
    BY Zenon DEF PipeInv, Load
  <1>5. /\ p = [pc |-> "load", tile |-> p.tile, k |-> p.k, waited |-> 0,
                pipe |-> At(p.tile * K + 0, 1), write |-> At(x, 1)]
        /\ p.tile \in 0 .. launch.tiles - 1 /\ p.k \in 0 .. K - 1 /\ p.waited = 0
    BY <1>4 DEF ProducerInv
  <1>6. PICK a \in Nat, k \in Nat :
           a = p.tile * K /\ (p.tile + 1) * K = a + K /\ k = p.k /\ k < K
    <2>1. PICK tile \in Nat, k \in Nat : tile = p.tile /\ k = p.k /\ k < K
      BY <1>1, <1>5
    <2>2. tile * K \in Nat /\ (tile + 1) * K = tile * K + K
      BY <1>1, TimesTypes
    <2> QED BY <2>1, <2>2
  <1>7. x = a + k /\ x \in Nat /\ Awaited(b) = x
    <2>1. x = a + k
      BY <1>6 DEF Loaded
    <2>2. Awaited(b) = a + k + 0
      BY <1>5, <2>1 DEF Awaited
    <2> QED BY <2>1, <2>2
  <1>8. s \in Stages
    BY <1>1, <1>7, Quotient
  <1>9. EmptyAt(b, s) = x
    <2>1. p.write.index = s /\ p.write.phase = At(x, 1).phase
      BY <1>5 DEF At, PipelineState
    <2>2. wait(empty[b][p.write.index], p.write.phase)
      BY Zenon DEF Load
    <2> QED BY <1>7, <1>8, <2>1, <2>2, ProducerWaits
  <1>10. PICK r : /\ producer' = [producer EXCEPT ![b] = r]
                  /\ r = IF p.k = K - 1
                         THEN [p EXCEPT !.pc = LoadOrTail(p.tile + 1),
                                        !.tile = @ + 1, !.k = 0,
                                        !.pipe = after(@, K), !.write = after(p.pipe, K)]
                         ELSE [p EXCEPT !.k = @ + 1, !.write = next(@)]
    BY Zenon DEF Load
  <1>11. producer = [c \in CTAs |-> producer[c]]
    BY DEF PipeInv, PipeShape
  <1>12. producer'[b] = r /\ \A c \in CTAs \ {b} : producer'[c] = producer[c]
    BY <1>10, <1>11
  <1>13. producer' = [c \in CTAs |-> producer'[c]]
    BY <1>10, <1>11
  <1>14. \A t \in Stages : x + 1 <= EmptyAt(b, t) + Depth
    <2> SUFFICES ASSUME NEW t \in Stages PROVE x + 1 <= EmptyAt(b, t) + Depth
      OBVIOUS
    <2>1. PICK y \in Nat : y = EmptyAt(b, t) /\ y % Depth = t
      BY Places
    <2>2. x <= y + Depth
      BY <1>4, <1>7, <2>1 DEF ProducerInv
    <2>3. CASE t = s
      BY <1>1, <1>7, <1>9, <2>3
    <2>4. CASE t # s
      <3>1. (y + Depth) % Depth = t
        BY <1>1, <2>1, ModStep
      <3>2. x # y + Depth
        BY <2>4, <3>1
      <3> QED BY <1>1, <1>7, <2>1, <2>2, <3>2
    <2> QED BY <2>3, <2>4
  <1>15. \A t \in Stages : EmptyAt(b, t)' = EmptyAt(b, t)
    <2>1. empty' = empty
      BY Zenon DEF Load
    <2> QED BY <1>3, <2>1 DEF EmptyAt
  <1> HIDE DEF p
  <1>16. CASE p.k = K - 1
    <2> DEFINE tile == p.tile + 1
    <2>1. /\ after(At(p.tile * K + 0, 1), K) = At(tile * K, 1)
          /\ x + 1 = tile * K /\ tile * K \in Nat
      <3>1. x + 1 = a + K /\ a + K \in Nat /\ a + 0 = a
        <4>1. k = K - 1
          BY <1>6, <1>16
        <4> QED BY <1>1, <1>7, <4>1
      <3>2. after(At(a, 1), K) = At(a + K, 1)
        BY <1>1, <1>6, Advance
      <3> QED BY <1>6, <3>1, <3>2
    <2>2. r = [pc |-> LoadOrTail(tile), tile |-> tile, k |-> 0, waited |-> 0,
               pipe |-> At(tile * K, 1), write |-> At(tile * K, 1)]
      <3>1. r = [p EXCEPT !.pc = LoadOrTail(tile), !.tile = tile, !.k = 0,
                          !.pipe = after(p.pipe, K), !.write = after(p.pipe, K)]
        BY <1>10, <1>16
      <3>2. after(p.pipe, K) = At(tile * K, 1)
        BY <1>5, <2>1
      <3> HIDE DEF tile
      <3> QED BY <1>5, <3>1, <3>2
    <2>3. tile \in 0 .. launch.tiles /\ (tile < launch.tiles => tile \in 0 .. launch.tiles - 1)
          /\ (~(tile < launch.tiles) => tile = launch.tiles)
      <3>1. PICK h \in Nat, n \in Nat : h = p.tile /\ n = launch.tiles /\ h \in 0 .. n - 1
        BY <1>1, <1>5
      <3>2. h + 1 \in 0 .. n /\ (h + 1 < n => h + 1 \in 0 .. n - 1) /\ (~(h + 1 < n) => h + 1 = n)
        BY <3>1
      <3> QED BY <3>1, <3>2, Zenon
    <2> HIDE DEF tile
    <2>4. Loaded(b)' = x + 1 /\ Awaited(b)' = x + 1
      <3>1. tile * K + 0 = tile * K /\ tile * K + 0 + 0 = tile * K
        BY <2>1
      <3> QED BY <1>3, <1>12, <2>1, <2>2, <3>1 DEF Loaded, Awaited
    <2>5. producer'[b] = [pc |-> producer'[b].pc, tile |-> producer'[b].tile, k |-> producer'[b].k,
              waited |-> producer'[b].waited,
              pipe |-> At(producer'[b].tile * K + producer'[b].waited, 1),
              write |-> At(x + 1, 1)]
      <3>1. tile * K + 0 = tile * K
        BY <2>1
      <3> QED BY <1>12, <2>1, <2>2, <3>1
    <2>6. \/ /\ producer'[b].pc = "load" /\ producer'[b].tile \in 0 .. launch.tiles - 1
             /\ producer'[b].k \in 0 .. K - 1 /\ producer'[b].waited = 0
          \/ /\ producer'[b].pc = "tail" /\ producer'[b].tile = launch.tiles
             /\ producer'[b].k = 0 /\ producer'[b].waited \in 0 .. Depth - 1
      BY <1>1, <1>12, <2>2, <2>3 DEF LoadOrTail
    <2>7. ProducerInv(b)'
      BY <1>2, <1>3, <1>14, <1>15, <2>4, <2>5, <2>6 DEF ProducerInv, At
    <2> QED BY <1>5, <1>7, <1>9, <1>12, <1>13, <2>4, <2>7 DEF p
  <1>17. CASE p.k # K - 1
    <2>1. next(At(x, 1)) = At(x + 1, 1)
      BY <1>1, <1>7, Increment
    <2>2. r = [pc |-> "load", tile |-> p.tile, k |-> p.k + 1, waited |-> 0,
               pipe |-> At(p.tile * K + 0, 1), write |-> At(x + 1, 1)]
      <3>1. r = [p EXCEPT !.k = p.k + 1, !.write = next(p.write)]
        BY <1>10, <1>17
      <3>2. next(p.write) = At(x + 1, 1)
        BY <1>5, <2>1
      <3>3. PICK tile, c, pipe, write :
               /\ p = [pc |-> "load", tile |-> tile, k |-> c, waited |-> 0,
                       pipe |-> pipe, write |-> write]
               /\ tile = p.tile /\ pipe = At(p.tile * K + 0, 1)
        BY <1>5
      <3>4. PICK d, e : d = p.k + 1 /\ e = next(p.write)
        OBVIOUS
      <3>5. r = [pc |-> "load", tile |-> tile, k |-> d, waited |-> 0, pipe |-> pipe, write |-> e]
        BY <3>1, <3>3, <3>4
      <3> QED BY <3>2, <3>3, <3>4, <3>5
    <2>3. p.k + 1 \in 0 .. K - 1
      BY <1>1, <1>5, <1>17
    <2>4. Loaded(b)' = x + 1 /\ Awaited(b)' = x + 1
      <3>1. p.tile * K + (p.k + 1) = x + 1 /\ p.tile * K + (p.k + 1) + 0 = x + 1
        <4>1. a + (k + 1) = x + 1 /\ a + (k + 1) + 0 = x + 1
          BY <1>7
        <4> QED BY <1>6, <4>1
      <3> QED BY <1>3, <1>12, <2>2, <3>1 DEF Loaded, Awaited
    <2>5. producer'[b] = [pc |-> producer'[b].pc, tile |-> producer'[b].tile, k |-> producer'[b].k,
              waited |-> producer'[b].waited,
              pipe |-> At(producer'[b].tile * K + producer'[b].waited, 1),
              write |-> At(x + 1, 1)]
      BY <1>12, <2>2
    <2>6. /\ producer'[b].pc = "load" /\ producer'[b].tile \in 0 .. launch.tiles - 1
          /\ producer'[b].k \in 0 .. K - 1 /\ producer'[b].waited = 0
      BY <1>5, <1>12, <2>2, <2>3
    <2>7. ProducerInv(b)'
      BY <1>2, <1>3, <1>14, <1>15, <2>4, <2>5, <2>6 DEF ProducerInv, At
    <2> QED BY <1>5, <1>7, <1>9, <1>12, <1>13, <2>4, <2>7 DEF p
  <1> QED BY <1>16, <1>17

\* The invariant, from its parts.
LEMMA PipeInvOf ==
    ASSUME PipeInv, launch' = launch, PipeShape',
           \A b \in CTAs : ProducerInv(b)',
           \A b \in CTAs, w \in WarpGroups : MathInv(b, w)',
           \A b \in CTAs, s \in Stages : FullInv(b, s)' /\ EmptyInv(b, s)',
           \A m \in copies' : CopyInv(m)',
           \A m \in arrivals' : ArrivalInv(m)'
    PROVE  PipeInv'
  <1>1. CTAs' = CTAs /\ Stages' = Stages /\ LaunchOK'
    BY SameLaunch DEF PipeInv
  <1> QED BY <1>1 DEF PipeInv

\* load: the next k tile is on its way to the row and the column of the block.
LEMMA LoadKeepsPipe ==
    ASSUME PipeInv, NEW b \in CTAs, Load(b)
    PROVE  PipeInv'
  <1>1. LaunchOK /\ Depth \in Nat \ {0} /\ Stages = 0 .. Depth - 1
    BY LaunchIs DEF PipeInv
  <1>x. PICK x \in Nat : x = Loaded(b)
    BY Places
  <1>s. PICK s \in Stages : s = x % Depth
    BY <1>1, Quotient
  <1>2. /\ launch' = launch /\ empty' = empty /\ math' = math /\ smem' = smem
        /\ arrivals' = arrivals
    BY Zenon DEF Load
  <1>3. /\ Depth' = Depth /\ CTAs' = CTAs /\ Stages' = Stages /\ TmaTransaction' = TmaTransaction
        /\ \A c : Sharing(c)' = Sharing(c)
    BY <1>2, SameLaunch
  <1>4. /\ Loaded(b)' = x + 1
        /\ producer' = [c \in CTAs |-> producer'[c]]
        /\ \A c \in CTAs \ {b} : producer'[c] = producer[c]
        /\ producer[b].write = At(x, 1)
        /\ EmptyAt(b, s) = x
        /\ ProducerInv(b)'
    BY <1>x, <1>s, LoadProducer
  <1>5. x \in Nat /\ s \in Stages /\ x = Loaded(b)
    BY <1>x
  <1>6. \A d \in Sharing(b) : FullAt(d, s) = x
    BY <1>4, <1>5, FreeStage
  <1>7. b \in Sharing(b) /\ (\A d \in Sharing(b) : d \in CTAs /\ b \in Sharing(d))
        /\ \A c \in CTAs : Sharing(c) \subseteq CTAs
    BY <1>1, SharingIs
  <1>8. producer[b].write.index = s
    BY <1>4, <1>s DEF At, PipelineState
  <1>9. PICK v : /\ full' = [full EXCEPT ![b][s] = v]
                 /\ v = BarrierOf(1, full[b][s].phases, 0,
                                  TmaTransaction - Weight(b, Landed(b, s)))
    <2>1. full' = [full EXCEPT ![b][s] = arrive_and_expect_tx(full[b][s], TmaTransaction)]
      BY <1>8 DEF Load
    <2>2. FullAt(b, s) = x
      BY <1>6, <1>7
    <2> QED BY <1>5, <2>1, <2>2, LoadArrives
  <1>10. b \notin Landed(b, s)
    BY <1>5, <1>6, <1>7, LoadArrives
  <1>11. /\ full' = [c \in CTAs |-> [t \in Stages |-> full'[c][t]]]
         /\ full'[b][s] = v
         /\ \A c \in CTAs, t \in Stages : c # b \/ t # s => full'[c][t] = full[c][t]
    <2>1. full = [c \in CTAs |-> [t \in Stages |-> full[c][t]]]
      BY DEF PipeInv, PipeShape
    <2>2. IsTable(full, CTAs, Stages)
      BY <2>1, Zenon DEF IsTable
    <2>3. full' = Put(full, b, s, v)
      BY <1>9, Zenon DEF Put
    <2>4. IsTable(full', CTAs, Stages) /\ full'[b][s] = v
      BY <1>5, <2>2, <2>3, NestedUpdate
    <2>5. \A c \in CTAs, t \in Stages : c # b \/ t # s => full'[c][t] = full[c][t]
      BY <1>5, <2>2, <2>3, NestedUpdate
    <2> QED BY <2>4, <2>5, Zenon DEF IsTable
  <1>12. \A c \in CTAs, t \in Stages : FullAt(c, t)' = FullAt(c, t)
    <2>1. v.phases = full[b][s].phases
      BY <1>9, PhaseSteps
    <2>2. \A c \in CTAs, t \in Stages : full'[c][t].phases = full[c][t].phases
      BY <1>11, <2>1
    <2> QED BY <1>3, <2>2 DEF FullAt
  <1>13. copies' = copies \cup {[from |-> b, to |-> d, stage |-> s, k |-> x] : d \in Sharing(b)}
    BY <1>8, <1>x DEF Load, Loaded
  <1>14. \A c \in CTAs \ {b} : Loaded(c)' = Loaded(c)
    BY <1>2, <1>4, SameLaunch DEF Loaded
  <1>15. \A c \in CTAs : Loaded(c) \in Nat /\ Loaded(c)' \in Nat /\ Loaded(c) <= Loaded(c)'
    <2> SUFFICES ASSUME NEW c \in CTAs
                 PROVE Loaded(c) \in Nat /\ Loaded(c)' \in Nat /\ Loaded(c) <= Loaded(c)'
      OBVIOUS
    <2>1. Loaded(c) \in Nat
      BY Places
    <2>2. CASE c = b
      BY <1>4, <1>5, <2>1, <2>2
    <2>3. CASE c # b
      BY <1>14, <2>1, <2>3
    <2> QED BY <2>2, <2>3
  <1>16. ASSUME NEW d \in CTAs, NEW t \in Stages, t # s
         PROVE  FullAt(d, t) # x /\ (FullAt(d, t) < Loaded(b)' <=> FullAt(d, t) < Loaded(b))
    <2>1. FullAt(d, t) \in Nat /\ FullAt(d, t) % Depth = t
      BY Places
    <2>2. FullAt(d, t) # x
      BY <1>16, <2>1, <1>s
    <2> QED BY <1>4, <1>5, <2>1, <2>2
  <1>17. ASSUME NEW d \in CTAs, NEW t \in Stages PROVE Landed(d, t)' = Landed(d, t)
    <2> DEFINE F == FullAt(d, t)
               rec(e) == [from |-> e, to |-> d, stage |-> t, k |-> F]
    <2>1. Landed(d, t) = {e \in Sharing(d) : F < Loaded(e) /\ rec(e) \notin copies}
      BY DEF Landed
    <2>2. Landed(d, t)' = {e \in Sharing(d) : F < Loaded(e)' /\ rec(e) \notin copies'}
      BY <1>3, <1>12 DEF Landed
    <2>3. ASSUME NEW e \in Sharing(d)
          PROVE  (F < Loaded(e) /\ rec(e) \notin copies) <=> (F < Loaded(e)' /\ rec(e) \notin copies')
      <3>1. CASE e # b
        <4>1. rec(e) \in copies' <=> rec(e) \in copies
          BY <1>13, <3>1
        <4>2. Loaded(e)' = Loaded(e)
          BY <1>7, <1>14, <3>1
        <4> QED BY <4>1, <4>2
      <3>2. CASE e = b /\ t = s
        <4>1. d \in Sharing(b)
          BY <1>1, <3>2, SharingIs
        <4>2. F = x
          BY <1>6, <3>2, <4>1
        <4>3. rec(e) \in copies'
          BY <1>13, <3>2, <4>1, <4>2
        <4>4. ~(F < Loaded(e))
          BY <1>5, <3>2, <4>2
        <4> QED BY <4>3, <4>4
      <3>3. CASE e = b /\ t # s
        <4>1. rec(e) \in copies' <=> rec(e) \in copies
          BY <1>13, <3>3
        <4> QED BY <1>16, <3>3, <4>1
      <3> QED BY <3>1, <3>2, <3>3
    <2> HIDE DEF F, rec
    <2> QED BY <2>1, <2>2, <2>3
  <1>18. ASSUME NEW d \in CTAs, NEW t \in Stages PROVE FullInv(d, t)'
    <2>1. CASE d = b /\ t = s
      <3>n. PICK n \in Nat : n = full[b][s].phases
        BY <1>5, Places
      <3>1. FullInv(b, s) /\ FullAt(b, s) = x
        BY <1>5, <1>6, <1>7 DEF PipeInv
      <3>2. n \in Nat /\ full'[b][s].phases = n
        BY <3>n, <1>9, <1>11, PhaseSteps
      <3>3. full'[b][s] = BarrierOf(1, n, 0, TmaTransaction - Weight(b, Landed(b, s)))
        BY <3>n, <1>9, <1>11
      <3>4. x < Loaded(b)' /\ FullAt(b, s)' = x /\ Landed(b, s)' = Landed(b, s)
        BY <1>4, <1>5, <1>12, <1>17, <3>1
      <3>5. Landed(b, s) # Sharing(b)
        BY <3>1 DEF FullInv
      <3>6. ASSUME NEW e \in Sharing(b)
            PROVE  /\ x < Loaded(e)' + Depth
                   /\ smem'[b][s][e] = IF e \in Landed(b, s) THEN x
                                       ELSE IF n = 0 THEN NoData ELSE x - Depth
        <4>1. /\ x < Loaded(e) + Depth
              /\ smem[b][s][e] = IF e \in Landed(b, s) THEN x
                                 ELSE IF n = 0 THEN NoData ELSE x - Depth
          BY <3>1, <3>n DEF FullInv
        <4>2. Loaded(e) \in Nat /\ Loaded(e)' \in Nat /\ Loaded(e) <= Loaded(e)'
          BY <1>7, <1>15
        <4> QED BY <1>1, <1>2, <1>5, <4>1, <4>2
      <3> QED BY <1>3, <2>1, <3>2, <3>3, <3>4, <3>5, <3>6, Zenon DEF FullInv
    <2>2. CASE ~(d = b /\ t = s)
      <3>1. full'[d][t] = full[d][t] /\ smem'[d][t] = smem[d][t]
        BY <1>2, <1>11, <2>2
      <3>2. FullAt(d, t) < Loaded(d)' <=> FullAt(d, t) < Loaded(d)
        BY <1>14, <1>16, <2>2
      <3> QED BY <1>2, <1>7, <1>15, <1>17, <3>1, <3>2, FullKept
    <2> QED BY <2>1, <2>2
  <1>19. ASSUME NEW m \in copies' PROVE CopyInv(m)'
    <2>1. CASE m \in copies
      <3>1. m.from \in CTAs /\ m.to \in CTAs /\ m.stage \in Stages
        BY <1>7, <2>1 DEF PipeInv, CopyInv
      <3> QED BY <1>2, <1>12, <1>15, <2>1, <3>1, CopyKept
    <2>2. CASE m \notin copies
      <3>1. PICK d \in Sharing(b) : m = [from |-> b, to |-> d, stage |-> s, k |-> x]
        BY <1>13, <2>2
      <3>2. /\ m.from = b /\ m.to = d /\ m.stage = s /\ m.k = x
            /\ m = [from |-> m.from, to |-> m.to, stage |-> m.stage, k |-> m.k]
        BY <3>1
      <3>3. FullAt(d, s)' = x /\ x < Loaded(b)'
        BY <1>4, <1>5, <1>6, <1>7, <1>12
      <3>4. d \in Sharing(b)' /\ b \in CTAs' /\ s \in Stages'
        BY <1>3, <1>5
      <3>5. /\ m = [from |-> m.from, to |-> m.to, stage |-> m.stage, k |-> m.k]
            /\ m.from \in CTAs' /\ m.to \in Sharing(m.from)' /\ m.stage \in Stages'
            /\ m.k = FullAt(m.to, m.stage)' /\ m.k < Loaded(m.from)'
        BY <3>2, <3>3, <3>4
      <3> QED BY <3>5, Zenon DEF CopyInv
    <2> QED BY <2>1, <2>2
  <1>20. \A c \in CTAs, t \in Stages : FullAt(c, t)' \in Nat /\ FullAt(c, t) <= FullAt(c, t)'
    <2>1. \A c \in CTAs, t \in Stages : FullAt(c, t) \in Nat
      BY Places
    <2>2. \A y \in Nat : y <= y
      OBVIOUS
    <2> QED BY <1>12, <2>1, <2>2
  <1>21. /\ \A c \in CTAs, w \in WarpGroups : MathInv(c, w)'
         /\ \A c \in CTAs, w \in WarpGroups, i \in Nat :
              Reads(w, i) => (i < LetGo(c, w)' <=> i < LetGo(c, w))
    BY <1>2, <1>20, MathsKept
  <1>22. /\ \A c \in CTAs, t \in Stages : EmptyInv(c, t)' /\ EmptyAt(c, t)' = EmptyAt(c, t)
         /\ \A m \in arrivals : ArrivalInv(m)'
    BY <1>2, <1>21, FreeingKept
  <1>23. ASSUME NEW c \in CTAs PROVE ProducerInv(c)'
    <2>1. CASE c = b
      BY <1>4, <2>1
    <2>2. CASE c # b
      <3>1. \A t \in Stages : EmptyAt(c, t)' \in Nat /\ EmptyAt(c, t) <= EmptyAt(c, t)'
        <4>1. \A t \in Stages : EmptyAt(c, t) \in Nat
          BY Places
        <4>2. \A y \in Nat : y <= y
          OBVIOUS
        <4> QED BY <1>22, <4>1, <4>2
      <3> QED BY <1>2, <1>4, <2>2, <3>1, ProducerKept
    <2> QED BY <2>1, <2>2
  <1>24. PipeShape'
    BY <1>2, <1>3, <1>4, <1>11, SameLaunch DEF PipeInv, PipeShape
  <1> QED BY <1>2, <1>18, <1>19, <1>21, <1>22, <1>23, <1>24, PipeInvOf

\* load_tail moves the producer past one more freed stage.
LEMMA LoadTailProducer ==
    ASSUME PipeInv, NEW b \in CTAs, LoadTail(b)
    PROVE  /\ Loaded(b)' = Loaded(b)
           /\ producer' = [c \in CTAs |-> producer'[c]]
           /\ \A c \in CTAs \ {b} : producer'[c] = producer[c]
           /\ ProducerInv(b)'
  <1> DEFINE p == producer[b]
  <1>1. /\ LaunchOK /\ K \in Nat \ {0} /\ Depth \in Nat \ {0, 1} /\ launch.tiles \in Nat
        /\ Stages = 0 .. Depth - 1
    BY LaunchIs DEF PipeInv
  <1>2. launch' = launch /\ empty' = empty
    BY Zenon DEF LoadTail
  <1>3. Depth' = Depth /\ K' = K /\ Stages' = Stages /\ \A i, parity : At(i, parity)' = At(i, parity)
    BY <1>2, SameLaunch
  <1>4. ProducerInv(b) /\ p.pc = "tail"
    BY Zenon DEF PipeInv, LoadTail
  <1> DEFINE Is(tile, j, pipe, write) ==
                /\ p = [pc |-> "tail", tile |-> tile, k |-> 0, waited |-> j,
                        pipe |-> pipe, write |-> write]
                /\ tile = launch.tiles
                /\ pipe = At(tile * K + j, 1) /\ write = At(tile * K + 0, 1)
  <1>a. \E tile \in Nat, j \in 0 .. Depth - 1 : \E pipe, write : Is(tile, j, pipe, write)
    <2>1. /\ p = [pc |-> p.pc, tile |-> p.tile, k |-> p.k, waited |-> p.waited,
                  pipe |-> At(p.tile * K + p.waited, 1), write |-> At(p.tile * K + p.k, 1)]
          /\ p.tile = launch.tiles /\ p.k = 0 /\ p.waited \in 0 .. Depth - 1
      BY <1>4 DEF ProducerInv, Loaded
    <2>2. PICK pipe, write : pipe = At(p.tile * K + p.waited, 1) /\ write = At(p.tile * K + 0, 1)
      OBVIOUS
    <2>3. p = [pc |-> "tail", tile |-> p.tile, k |-> 0, waited |-> p.waited,
               pipe |-> pipe, write |-> write]
      BY <1>4, <2>1, <2>2
    <2>4. Is(p.tile, p.waited, pipe, write)
      BY <2>1, <2>2, <2>3
    <2>5. p.tile \in Nat
      BY <1>1, <2>1
    <2> HIDE DEF p, Is
    <2> QED BY <2>1, <2>4, <2>5
  <1>b. PICK tile \in Nat, j \in 0 .. Depth - 1 : \E pipe, write : Is(tile, j, pipe, write)
    BY <1>a
  <1>5. PICK pipe, write : Is(tile, j, pipe, write)
    BY <1>b
  <1>6. PICK a \in Nat : a = tile * K
    BY <1>1, TimesTypes
  <1>7. Loaded(b) = a /\ Awaited(b) = a + j
    <2>1. a + 0 = a /\ a + 0 + j = a + j
      BY <1>1, <1>5, <1>6
    <2> QED BY <1>5, <1>6, <2>1 DEF Loaded, Awaited
  <1>8. PICK x \in Nat : x = a + j
    BY <1>1, <1>5, <1>6
  <1>9. PICK s \in Stages : s = x % Depth
    BY <1>1, Quotient
  <1>10. EmptyAt(b, s) = x
    <2>1. p.pipe.index = s /\ p.pipe.phase = At(x, 1).phase
      BY <1>5, <1>6, <1>8, <1>9 DEF At, PipelineState
    <2>2. wait(empty[b][p.pipe.index], p.pipe.phase)
      BY Zenon DEF LoadTail
    <2> QED BY <1>7, <1>8, <1>9, <2>1, <2>2, ProducerWaits
  <1>11. next(pipe) = At(x + 1, 1)
    BY <1>1, <1>5, <1>6, <1>8, Increment
  <1>12. PICK pc : pc = IF j + 1 = Depth THEN "exit" ELSE "tail"
    OBVIOUS
  <1>13. PICK e : e = next(pipe)
    OBVIOUS
  <1>14. PICK r : /\ producer' = [producer EXCEPT ![b] = r]
                  /\ r = [p EXCEPT !.pipe = e, !.waited = j + 1, !.pc = pc]
    <2>1. producer' = [producer EXCEPT ![b].pipe = next(@), ![b].waited = @ + 1,
                          ![b].pc = IF p.waited + 1 = launch.stages THEN "exit" ELSE @]
      BY Zenon DEF LoadTail
    <2>2. producer = [c \in CTAs |-> producer[c]]
      BY DEF PipeInv, PipeShape
    <2>3. PICK r : r = [p EXCEPT !.pipe = next(@), !.waited = @ + 1,
                               !.pc = IF p.waited + 1 = launch.stages THEN "exit" ELSE @]
      OBVIOUS
    <2>4. producer' = [producer EXCEPT ![b] = r]
      BY <2>1, <2>2, <2>3
    <2>5. next(p.pipe) = e /\ p.waited + 1 = j + 1
          /\ (IF p.waited + 1 = launch.stages THEN "exit" ELSE p.pc) = pc
      BY <1>5, <1>12, <1>13 DEF Depth
    <2>6. r = [p EXCEPT !.pipe = e, !.waited = j + 1, !.pc = pc]
      BY <2>3, <2>5
    <2> QED BY <2>4, <2>6
  <1>15. producer = [c \in CTAs |-> producer[c]]
    BY DEF PipeInv, PipeShape
  <1>16. /\ producer' = [c \in CTAs |-> producer'[c]]
         /\ \A c \in CTAs \ {b} : producer'[c] = producer[c]
    BY <1>14, <1>15
  <1>17. producer'[b] = [pc |-> pc, tile |-> tile, k |-> 0, waited |-> j + 1,
                         pipe |-> e, write |-> write]
    <2>1. producer'[b] = r
      BY <1>14, <1>15
    <2>2. PICK h : h = j + 1
      OBVIOUS
    <2>3. PICK q : q = [pc |-> "tail", tile |-> tile, k |-> 0, waited |-> j,
                        pipe |-> pipe, write |-> write]
      OBVIOUS
    <2>4. r = [q EXCEPT !.pipe = e, !.waited = h, !.pc = pc]
      BY <1>5, <1>14, <2>2, <2>3
    <2>5. r = [pc |-> pc, tile |-> tile, k |-> 0, waited |-> h, pipe |-> e, write |-> write]
      BY <2>3, <2>4
    <2> QED BY <2>1, <2>2, <2>5
  <1>18. \A t \in Stages : x + 1 <= EmptyAt(b, t) + Depth
    <2> SUFFICES ASSUME NEW t \in Stages PROVE x + 1 <= EmptyAt(b, t) + Depth
      OBVIOUS
    <2>1. PICK y \in Nat : y = EmptyAt(b, t) /\ y % Depth = t
      BY Places
    <2>2. x <= y + Depth
      BY <1>4, <1>7, <1>8, <2>1 DEF ProducerInv
    <2>3. CASE t = s
      BY <1>1, <1>8, <1>10, <2>3
    <2>4. CASE t # s
      <3>1. (y + Depth) % Depth = t
        BY <1>1, <2>1, ModStep
      <3>2. x # y + Depth
        BY <1>9, <2>4, <3>1
      <3> QED BY <1>1, <2>1, <2>2, <3>2
    <2> QED BY <2>3, <2>4
  <1>19. \A t \in Stages : EmptyAt(b, t)' = EmptyAt(b, t)
    BY <1>2, <1>3 DEF EmptyAt
  <1>20. a + 0 = a /\ a + 0 + (j + 1) = x + 1 /\ a + (j + 1) = x + 1
    BY <1>1, <1>5, <1>6, <1>8
  <1>21. Loaded(b)' = a /\ Awaited(b)' = x + 1
    BY <1>3, <1>6, <1>17, <1>20 DEF Loaded, Awaited
  <1>22. producer'[b] = [pc |-> producer'[b].pc, tile |-> producer'[b].tile, k |-> producer'[b].k,
            waited |-> producer'[b].waited,
            pipe |-> At(producer'[b].tile * K + producer'[b].waited, 1),
            write |-> At(a, 1)]
    <2>1. e = At(tile * K + (j + 1), 1) /\ write = At(a, 1)
      BY <1>5, <1>6, <1>11, <1>13, <1>20
    <2> QED BY <1>17, <2>1
  <1>23. \/ /\ producer'[b].pc = "tail" /\ producer'[b].tile = launch.tiles
            /\ producer'[b].k = 0 /\ producer'[b].waited \in 0 .. Depth - 1
         \/ /\ producer'[b].pc = "exit" /\ producer'[b].tile = launch.tiles
            /\ producer'[b].k = 0 /\ producer'[b].waited = Depth
    <2>1. \/ pc = "exit" /\ j + 1 = Depth
          \/ pc = "tail" /\ j + 1 \in 0 .. Depth - 1
      BY <1>1, <1>5, <1>12
    <2> QED BY <1>5, <1>17, <2>1
  <1>24. ProducerInv(b)'
    BY <1>2, <1>3, <1>18, <1>19, <1>21, <1>22, <1>23 DEF ProducerInv, At
  <1> QED BY <1>7, <1>16, <1>21, <1>24

\* load_tail: one more stage is free.
LEMMA LoadTailKeepsPipe ==
    ASSUME PipeInv, NEW b \in CTAs, LoadTail(b)
    PROVE  PipeInv'
  <1>1. LaunchOK
    BY DEF PipeInv
  <1>2. /\ launch' = launch /\ full' = full /\ empty' = empty /\ math' = math /\ smem' = smem
        /\ copies' = copies /\ arrivals' = arrivals
    BY Zenon DEF LoadTail
  <1>3. /\ producer' = [c \in CTAs |-> producer'[c]]
        /\ \A c \in CTAs \ {b} : producer'[c] = producer[c]
        /\ ProducerInv(b)' /\ Loaded(b)' = Loaded(b)
    BY LoadTailProducer
  <1>4. /\ Depth' = Depth /\ K' = K /\ CTAs' = CTAs /\ Stages' = Stages
        /\ \A c : Sharing(c)' = Sharing(c)
    BY <1>2, SameLaunch
  <1>5. \A c \in CTAs : Loaded(c)' = Loaded(c)
    BY <1>3, <1>4 DEF Loaded
  <1>6. /\ \A c \in CTAs, t \in Stages : FullInv(c, t)' /\ FullAt(c, t)' = FullAt(c, t)
        /\ \A m \in copies : CopyInv(m)'
    BY <1>2, <1>5, FillingKept
  <1>7. \A y \in Nat : y <= y
    OBVIOUS
  <1>8. \A c \in CTAs, t \in Stages : FullAt(c, t)' \in Nat /\ FullAt(c, t) <= FullAt(c, t)'
    BY <1>6, <1>7, Places
  <1>9. /\ \A c \in CTAs, w \in WarpGroups : MathInv(c, w)'
        /\ \A c \in CTAs, w \in WarpGroups, i \in Nat :
             Reads(w, i) => (i < LetGo(c, w)' <=> i < LetGo(c, w))
    BY <1>2, <1>8, MathsKept
  <1>10. /\ \A c \in CTAs, t \in Stages : EmptyInv(c, t)' /\ EmptyAt(c, t)' = EmptyAt(c, t)
         /\ \A m \in arrivals : ArrivalInv(m)'
    BY <1>2, <1>9, FreeingKept
  <1>11. \A c \in CTAs, t \in Stages : EmptyAt(c, t)' \in Nat /\ EmptyAt(c, t) <= EmptyAt(c, t)'
    BY <1>7, <1>10, Places
  <1>12. \A c \in CTAs : ProducerInv(c)'
    BY <1>2, <1>3, <1>11, ProducerKept
  <1>13. PipeShape'
    BY <1>2, <1>3, <1>4 DEF PipeInv, PipeShape
  <1> QED BY <1>2, <1>6, <1>9, <1>10, <1>12, <1>13, PipeInvOf

\* complete_transaction: the bytes of one more slice.
LEMMA SliceCounts ==
    ASSUME PipeInv, NEW b \in CTAs, NEW s \in Stages, NEW d \in Sharing(b),
           d \notin Landed(b, s), FullAt(b, s) < Loaded(d)
    PROVE  LET L == Landed(b, s) \cup {d}
               n == full[b][s].phases
               z == complete_transaction(full[b][s], Slices(d, b))
           IN  /\ L = Sharing(b) => z = BarrierOf(1, n + 1, 1, 0)
               /\ L # Sharing(b) =>
                    z = BarrierOf(1, n, IF FullAt(b, s) < Loaded(b) THEN 0 ELSE 1,
                                  (IF FullAt(b, s) < Loaded(b) THEN TmaTransaction ELSE 0)
                                    - Weight(b, L))
  <1> DEFINE L == Landed(b, s)
             M == L \cup {d}
             r == full[b][s]
             n == full[b][s].phases
             W == Weight(b, L)
             V == Weight(b, M)
             S == Slices(d, b)
             p == IF FullAt(b, s) < Loaded(b) THEN 0 ELSE 1
             t == IF FullAt(b, s) < Loaded(b) THEN TmaTransaction ELSE 0
  <1>1. LaunchOK /\ FullInv(b, s)
    BY DEF PipeInv
  <1>2. r = BarrierOf(1, n, p, t - W)
    BY <1>1 DEF FullInv
  <1>3. L \in SUBSET Sharing(b) /\ M \in SUBSET Sharing(b) /\ b \in Sharing(b)
    BY <1>1, SharingIs DEF Landed
  <1>4. TmaTransaction \in Nat
    BY <1>1, LaunchIs DEF TmaTransaction
  <1>5. W \in Nat /\ V \in Nat /\ V = W + S
    BY <1>1, <1>3, WeightIs
  <1>6. S \in Nat
    BY DEF Slices
  <1>7. /\ M = Sharing(b) => V = TmaTransaction
        /\ M # Sharing(b) => V < TmaTransaction
    BY <1>1, <1>3, WeightIs
  <1>8. M = Sharing(b) => FullAt(b, s) < Loaded(b)
    <2> SUFFICES ASSUME b \in M PROVE FullAt(b, s) < Loaded(b)
      BY <1>3
    <2>1. CASE b = d
      BY <2>1
    <2>2. CASE b \in L
      BY <2>2 DEF Landed
    <2> QED BY <2>1, <2>2
  <1>9. t \in Nat /\ (p = 0 => t = TmaTransaction) /\ p \in {0, 1}
    BY <1>4
  <1>10. M = Sharing(b) => p = 0
    BY <1>8
  <1> HIDE DEF L, M, n, W, V, S, p, t
  <1>11. complete_transaction(r, S) = PhaseEnds(BarrierOf(1, n, p, (t - W) - S))
    BY <1>2, BytesSteps
  <1>12. (t - W) - S = t - V
    BY <1>5, <1>6, <1>9
  <1>13. CASE M = Sharing(b)
    <2>1. p = 0 /\ t - V = 0
      BY <1>4, <1>7, <1>9, <1>10, <1>13
    <2>2. PhaseEnds(BarrierOf(1, n, 0, 0)) = BarrierOf(1, n + 1, 1, 0)
      BY PhaseSteps
    <2> QED BY <1>11, <1>12, <1>13, <2>1, <2>2 DEF M, L, n, S
  <1>14. CASE M # Sharing(b)
    <2>1. p # 0 \/ t - V # 0
      BY <1>4, <1>5, <1>7, <1>9, <1>14
    <2>2. PhaseEnds(BarrierOf(1, n, p, t - V)) = BarrierOf(1, n, p, t - V)
      BY <2>1, PhaseSteps
    <2>3. complete_transaction(r, S) = BarrierOf(1, n, p, t - V)
      BY <1>11, <1>12, <2>2
    <2> QED BY <1>14, <2>3 DEF M, L, n, S, p, t, V
  <1> QED BY <1>13, <1>14 DEF M

\* Every block keeps in every stage a slice of every block that loads into it.
IsSmem(f) == f = [c \in CTAs |-> [t \in Stages |-> [e \in Sharing(c) |-> f[c][t][e]]]]
PutSlice(f, b, s, d, k) == [f EXCEPT ![b][s][d] = k]

\* One slice of one stage is overwritten.
LEMMA SmemUpdate ==
    ASSUME PipeInv, NEW b \in CTAs, NEW s \in Stages, NEW d \in Sharing(b), NEW k,
           smem' = PutSlice(smem, b, s, d, k)
    PROVE  /\ IsSmem(smem')
           /\ \A e \in Sharing(b) : smem'[b][s][e] = IF e = d THEN k ELSE smem[b][s][e]
           /\ \A c \in CTAs, t \in Stages : c # b \/ t # s => smem'[c][t] = smem[c][t]
  <1>1. smem = [c \in CTAs |-> [t \in Stages |-> [e \in Sharing(c) |-> smem[c][t][e]]]]
    BY DEF PipeInv, PipeShape
  <1>2. /\ DOMAIN smem = CTAs
        /\ \A c \in CTAs : smem[c] = [t \in Stages |-> [e \in Sharing(c) |-> smem[c][t][e]]]
    BY <1>1, Zenon
  <1>3. \A c \in CTAs, t \in Stages : smem[c][t] = [e \in Sharing(c) |-> smem[c][t][e]]
    BY <1>2, Zenon
  <1>4. \A c \in CTAs : smem[c] = [t \in Stages |-> smem[c][t]]
    <2> SUFFICES ASSUME NEW c \in CTAs PROVE smem[c] = [t \in Stages |-> smem[c][t]]
      OBVIOUS
    <2>1. smem[c] = [t \in Stages |-> [e \in Sharing(c) |-> smem[c][t][e]]]
      BY <1>2, Zenon
    <2>2. [t \in Stages |-> [e \in Sharing(c) |-> smem[c][t][e]]] = [t \in Stages |-> smem[c][t]]
      BY <1>3
    <2> QED BY <2>1, <2>2
  <1>5. smem = [c \in CTAs |-> [t \in Stages |-> smem[c][t]]]
    <2>1. [c \in CTAs |-> smem[c]] = [c \in CTAs |-> [t \in Stages |-> smem[c][t]]]
      BY <1>4
    <2>2. smem = [c \in CTAs |-> smem[c]]
      BY <1>2, <1>1
    <2> QED BY <2>1, <2>2
  <1>6. PICK v : v = [smem[b][s] EXCEPT ![d] = k]
    OBVIOUS
  <1>7. smem' = [smem EXCEPT ![b][s] = v]
    <2>1. smem' = [smem EXCEPT ![b][s][d] = k]
      BY Zenon DEF PutSlice
    <2> QED BY <1>2, <1>4, <1>6, <2>1
  <1>8. IsTable(smem, CTAs, Stages)
    BY <1>5, Zenon DEF IsTable
  <1>9. smem' = Put(smem, b, s, v)
    BY <1>7, Zenon DEF Put
  <1>10. IsTable(smem', CTAs, Stages) /\ smem'[b][s] = v
    <2>1. IsTable(Put(smem, b, s, v), CTAs, Stages) /\ Put(smem, b, s, v)[b][s] = v
      BY <1>8, NestedUpdate
    <2> QED BY <1>9, <2>1, Zenon
  <1>11. \A c \in CTAs, t \in Stages : c # b \/ t # s => smem'[c][t] = smem[c][t]
    BY <1>8, <1>9, NestedUpdate
  <1>12. /\ v = [e \in Sharing(b) |-> v[e]]
         /\ \A e \in Sharing(b) : v[e] = IF e = d THEN k ELSE smem[b][s][e]
    <2>1. PICK g : g = smem[b][s]
      OBVIOUS
    <2>2. g = [e \in Sharing(b) |-> g[e]]
      BY <1>3, <2>1
    <2>3. v = [g EXCEPT ![d] = k]
      BY <1>6, <2>1
    <2>4. /\ v = [e \in Sharing(b) |-> v[e]]
          /\ \A e \in Sharing(b) : v[e] = IF e = d THEN k ELSE g[e]
      BY <2>2, <2>3
    <2> QED BY <2>1, <2>4
  <1>13. \A c \in CTAs, t \in Stages : smem'[c][t] = [e \in Sharing(c) |-> smem'[c][t][e]]
    <2> SUFFICES ASSUME NEW c \in CTAs, NEW t \in Stages
                 PROVE  smem'[c][t] = [e \in Sharing(c) |-> smem'[c][t][e]]
      OBVIOUS
    <2>1. CASE c = b /\ t = s
      BY <1>10, <1>12, <2>1
    <2>2. CASE c # b \/ t # s
      <3>1. smem'[c][t] = smem[c][t]
        BY <1>11, <2>2
      <3>2. smem[c][t] = [e \in Sharing(c) |-> smem[c][t][e]]
        BY <1>3
      <3> QED BY <3>1, <3>2
    <2> QED BY <2>1, <2>2
  <1>14. smem' = [c \in CTAs |-> [t \in Stages |-> smem'[c][t]]]
    BY <1>10, Zenon DEF IsTable
  <1>15. IsSmem(smem')
    <2>1. PICK g : g = smem'
      OBVIOUS
    <2>2. \A c \in CTAs : [t \in Stages |-> g[c][t]] = [t \in Stages |-> [e \in Sharing(c) |-> g[c][t][e]]]
      <3> SUFFICES ASSUME NEW c \in CTAs
                   PROVE  [t \in Stages |-> g[c][t]] = [t \in Stages |-> [e \in Sharing(c) |-> g[c][t][e]]]
        OBVIOUS
      <3>1. \A t \in Stages : g[c][t] = [e \in Sharing(c) |-> g[c][t][e]]
        BY <1>13, <2>1
      <3> QED BY <3>1
    <2>3. [c \in CTAs |-> [t \in Stages |-> g[c][t]]]
            = [c \in CTAs |-> [t \in Stages |-> [e \in Sharing(c) |-> g[c][t][e]]]]
      BY <2>2
    <2>4. g = [c \in CTAs |-> [t \in Stages |-> g[c][t]]]
      BY <1>14, <2>1, Zenon
    <2>5. g = [c \in CTAs |-> [t \in Stages |-> [e \in Sharing(c) |-> g[c][t][e]]]]
      BY <2>3, <2>4, Zenon
    <2>6. IsSmem(g)
      BY <2>5, Zenon DEF IsSmem
    <2> QED BY <2>1, <2>6
  <1> QED BY <1>10, <1>11, <1>12, <1>15

\* A copy that lands: its own barrier.
LEMMA CopyBarrier ==
    ASSUME PipeInv, NEW m \in copies, CopyLands(m)
    PROVE  /\ PipeShape'
           /\ \A c \in CTAs, t \in Stages : FullInv(c, t)'
           /\ \A c \in CTAs, t \in Stages : FullAt(c, t)' \in Nat /\ FullAt(c, t) <= FullAt(c, t)'
           /\ \A l \in copies' : FullAt(l.to, l.stage)' = FullAt(l.to, l.stage)
  <1>1. LaunchOK /\ Depth \in Nat \ {0} /\ TmaTransaction \in Nat
    <2>1. LaunchOK
      BY DEF PipeInv
    <2> QED BY <2>1, LaunchIs DEF TmaTransaction
  <1>2. /\ launch' = launch /\ empty' = empty /\ math' = math /\ producer' = producer
        /\ copies' = copies \ {m}
    BY Zenon DEF CopyLands
  <1>3. /\ Depth' = Depth /\ K' = K /\ CTAs' = CTAs /\ Stages' = Stages
        /\ TmaTransaction' = TmaTransaction /\ \A c : Sharing(c)' = Sharing(c)
    BY <1>2, SameLaunch
  <1>4. \A c : Loaded(c)' = Loaded(c)
    BY <1>2, <1>3 DEF Loaded
  <1>5. PICK d \in CTAs, b \in CTAs, s \in Stages, x \in Nat :
           /\ m = [from |-> d, to |-> b, stage |-> s, k |-> x]
           /\ b \in Sharing(d) /\ d \in Sharing(b) /\ x = FullAt(b, s) /\ x < Loaded(d)
    <2>1. CopyInv(m)
      BY DEF PipeInv
    <2>2. /\ m = [from |-> m.from, to |-> m.to, stage |-> m.stage, k |-> m.k]
          /\ m.from \in CTAs /\ m.to \in Sharing(m.from) /\ m.stage \in Stages
          /\ m.k = FullAt(m.to, m.stage) /\ m.k < Loaded(m.from)
      BY <2>1 DEF CopyInv
    <2>3. m.to \in CTAs /\ m.from \in Sharing(m.to)
      BY <1>1, <2>2, SharingIs
    <2>4. m.k \in Nat
      BY <2>2, <2>3, Places
    <2> QED BY <2>2, <2>3, <2>4
  <1>6. m.from = d /\ m.to = b /\ m.stage = s /\ m.k = x
    BY <1>5
  <1>7. PICK n \in Nat : n = full[b][s].phases
    BY Places
  <1>8. PICK L : L = Landed(b, s) \cup {d}
    OBVIOUS
  <1>9. PICK v : /\ full' = [full EXCEPT ![b][s] = v]
                 /\ v = complete_transaction(full[b][s], Slices(d, b))
    BY <1>6, Zenon DEF CopyLands
  <1>10. d \notin Landed(b, s)
    BY <1>5 DEF Landed
  <1>11. /\ L = Sharing(b) => v = BarrierOf(1, n + 1, 1, 0)
         /\ L # Sharing(b) => v = BarrierOf(1, n, IF x < Loaded(b) THEN 0 ELSE 1,
                                 (IF x < Loaded(b) THEN TmaTransaction ELSE 0) - Weight(b, L))
    BY <1>5, <1>7, <1>8, <1>9, <1>10, SliceCounts
  <1>12. /\ full' = [c \in CTAs |-> [t \in Stages |-> full'[c][t]]]
         /\ full'[b][s] = v
         /\ \A c \in CTAs, t \in Stages : c # b \/ t # s => full'[c][t] = full[c][t]
    <2>1. full = [c \in CTAs |-> [t \in Stages |-> full[c][t]]]
      BY DEF PipeInv, PipeShape
    <2>2. IsTable(full, CTAs, Stages)
      BY <2>1, Zenon DEF IsTable
    <2>3. full' = Put(full, b, s, v)
      BY <1>9, Zenon DEF Put
    <2>4. IsTable(full', CTAs, Stages) /\ full'[b][s] = v
      BY <2>2, <2>3, NestedUpdate
    <2>5. \A c \in CTAs, t \in Stages : c # b \/ t # s => full'[c][t] = full[c][t]
      BY <2>2, <2>3, NestedUpdate
    <2> QED BY <2>4, <2>5, Zenon DEF IsTable
  <1>13. /\ IsSmem(smem')
         /\ \A e \in Sharing(b) : smem'[b][s][e] = IF e = d THEN x ELSE smem[b][s][e]
         /\ \A c \in CTAs, t \in Stages : c # b \/ t # s => smem'[c][t] = smem[c][t]
    <2>1. smem' = PutSlice(smem, b, s, d, x)
      BY <1>6, Zenon DEF CopyLands, PutSlice
    <2>2. /\ IsSmem(smem')
          /\ \A e \in Sharing(b) : smem'[b][s][e] = IF e = d THEN x ELSE smem[b][s][e]
          /\ \A c \in CTAs, t \in Stages : c # b \/ t # s => smem'[c][t] = smem[c][t]
      BY <1>5, <2>1, SmemUpdate
    <2> QED BY <2>2
  <1>14. PipeShape'
    <2>1. PipeShape
      BY DEF PipeInv
    <2>2. smem' = [c \in CTAs |-> [t \in Stages |-> [e \in Sharing(c) |-> smem'[c][t][e]]]]
      BY <1>13, Zenon DEF IsSmem
    <2> QED BY <1>2, <1>3, <1>12, <2>1, <2>2 DEF PipeShape
  <1>15. \A c \in CTAs, t \in Stages : c # b \/ t # s => FullAt(c, t)' = FullAt(c, t)
    BY <1>3, <1>12 DEF FullAt
  <1>16. PICK y \in Nat : y = FullAt(b, s)'
    <2>1. full'[b][s].phases \in Nat
      BY <1>7, <1>11, <1>12, PhaseSteps
    <2>2. PICK p \in Nat, h \in Nat : p = full'[b][s].phases /\ h = Depth
      BY <1>1, <2>1
    <2>3. p * h + s \in Nat
      <3>1. s \in Nat
        BY <1>1, LaunchIs
      <3>2. p * h \in Nat
        BY TimesTypes
      <3> QED BY <3>1, <3>2
    <2> QED BY <1>3, <2>2, <2>3, Zenon DEF FullAt
  <1>17. /\ L = Sharing(b) => full'[b][s].phases = n + 1 /\ y = x + Depth
         /\ L # Sharing(b) => full'[b][s].phases = n /\ y = x
    <2>1. CASE L = Sharing(b)
      <3>1. full'[b][s].phases = n + 1
        BY <1>11, <1>12, <2>1, PhaseSteps
      <3>2. y = (n + 1) * Depth + s /\ x = n * Depth + s
        BY <1>3, <1>5, <1>7, <1>16, <3>1 DEF FullAt
      <3>3. (n + 1) * Depth + s = n * Depth + s + Depth
        BY <1>1, LaunchIs, Apart
      <3> QED BY <2>1, <3>1, <3>2, <3>3
    <2>2. CASE L # Sharing(b)
      <3>1. full'[b][s].phases = n
        BY <1>11, <1>12, <2>2, PhaseSteps
      <3>2. FullAt(b, s)' = FullAt(b, s)
        BY <1>3, <1>7, <3>1 DEF FullAt
      <3> QED BY <1>5, <1>16, <2>2, <3>1, <3>2
    <2> QED BY <2>1, <2>2
  <1>18. \A e \in Sharing(b) : e \in CTAs /\ Loaded(e) \in Nat /\ ~(x + Depth < Loaded(e))
    <2>1. \A e \in Sharing(b) : e \in CTAs /\ ~(x + Depth < Loaded(e))
      BY <1>1, <1>5, SharingIs, NotLoadedPast
    <2> QED BY <2>1, Places
  <1>19. FullInv(b, s)
    BY DEF PipeInv
  <1>20. \A e \in Sharing(b) :
           /\ smem[b][s][e] = IF e \in Landed(b, s) THEN x ELSE IF n = 0 THEN NoData ELSE x - Depth
           /\ x < Loaded(e) + Depth
    BY <1>5, <1>7, <1>19 DEF FullInv
  <1>21. L \subseteq Sharing(b) /\ \A e \in L : x < Loaded(e)
    BY <1>5, <1>8 DEF Landed
  <1>22. ASSUME L = Sharing(b) PROVE FullInv(b, s)'
    <2>1. Landed(b, s)' = {}
      <3>1. Landed(b, s)' \subseteq {e \in Sharing(b) : y < Loaded(e)}
        BY <1>3, <1>4, <1>16 DEF Landed
      <3> QED BY <1>17, <1>18, <1>22, <3>1
    <2>2. Weight(b, {}) = 0
      BY <1>1, WeightIs
    <2>3. full'[b][s] = BarrierOf(1, n + 1, 1, 0 - Weight(b, {}))
      BY <1>11, <1>12, <1>22, <2>2
    <2>4. ~(y < Loaded(b)) /\ n + 1 \in Nat /\ Sharing(b) # {}
      BY <1>1, <1>17, <1>18, <1>22, SharingIs
    <2>5. ASSUME NEW e \in Sharing(b) PROVE y < Loaded(e) + Depth /\ smem'[b][s][e] = y - Depth
      <3>1. x < Loaded(e) /\ y = x + Depth /\ Loaded(e) \in Nat
        BY <1>17, <1>18, <1>21, <1>22
      <3>2. smem'[b][s][e] = x
        BY <1>8, <1>13, <1>20, <1>22
      <3> QED BY <1>1, <3>1, <3>2
    <2>6. n + 1 # 0
      OBVIOUS
    <2>7. {} # Sharing(b) /\ full'[b][s].phases = n + 1 /\ ~(y < Loaded(b)')
      BY <1>4, <1>17, <1>22, <2>4
    <2>8. full'[b][s] = BarrierOf(1, n + 1, IF y < Loaded(b)' THEN 0 ELSE 1,
                            (IF y < Loaded(b)' THEN TmaTransaction' ELSE 0) - Weight(b, Landed(b, s))')
      <3>1. Weight(b, Landed(b, s))' = Weight(b, {})
        BY <2>1 DEF Weight
      <3> QED BY <2>3, <2>7, <3>1
    <2>9. \A e \in Sharing(b)' :
            /\ y < Loaded(e)' + Depth'
            /\ smem'[b][s][e] = IF e \in Landed(b, s)' THEN y ELSE IF n + 1 = 0 THEN NoData ELSE y - Depth'
      BY <1>3, <1>4, <2>1, <2>5, <2>6
    <2>10. FullAt(b, s)' = y /\ full'[b][s].phases = n + 1 /\ n + 1 \in Nat
           /\ Landed(b, s)' # Sharing(b)'
      BY <1>3, <1>16, <2>1, <2>7
    <2> QED BY <2>8, <2>9, <2>10, Zenon DEF FullInv
  <1>23. ASSUME L # Sharing(b) PROVE FullInv(b, s)'
    <2>1. Landed(b, s)' = L
      <3>1. Landed(b, s)' = {e \in Sharing(b) :
               x < Loaded(e) /\ [from |-> e, to |-> b, stage |-> s, k |-> x] \notin copies \ {m}}
        BY <1>2, <1>3, <1>4, <1>16, <1>17, <1>23 DEF Landed
      <3>2. Landed(b, s) = {e \in Sharing(b) :
               x < Loaded(e) /\ [from |-> e, to |-> b, stage |-> s, k |-> x] \notin copies}
        BY <1>5 DEF Landed
      <3>3. \A e \in Sharing(b) : [from |-> e, to |-> b, stage |-> s, k |-> x] = m <=> e = d
        BY <1>5
      <3> QED BY <1>5, <1>8, <3>1, <3>2, <3>3
    <2>2. \A e \in Sharing(b) : smem'[b][s][e] = IF e \in L THEN x ELSE IF n = 0 THEN NoData ELSE x - Depth
      BY <1>8, <1>13, <1>20
    <2>3. full'[b][s] = BarrierOf(1, n, IF x < Loaded(b) THEN 0 ELSE 1,
                                 (IF x < Loaded(b) THEN TmaTransaction ELSE 0) - Weight(b, L))
      BY <1>11, <1>12, <1>23
    <2>5. FullAt(b, s)' = x /\ full'[b][s].phases = n
      BY <1>16, <1>17, <1>23
    <2>6. full'[b][s] = BarrierOf(1, n, IF x < Loaded(b)' THEN 0 ELSE 1,
                            (IF x < Loaded(b)' THEN TmaTransaction' ELSE 0) - Weight(b, Landed(b, s))')
      <3>1. Weight(b, Landed(b, s))' = Weight(b, L)
        BY <2>1 DEF Weight
      <3> QED BY <1>3, <1>4, <2>3, <3>1
    <2>7. \A e \in Sharing(b)' :
            /\ x < Loaded(e)' + Depth'
            /\ smem'[b][s][e] = IF e \in Landed(b, s)' THEN x ELSE IF n = 0 THEN NoData ELSE x - Depth'
      BY <1>3, <1>4, <1>20, <2>1, <2>2
    <2>8. Landed(b, s)' # Sharing(b)'
      BY <1>3, <1>23, <2>1
    <2> QED BY <2>5, <2>6, <2>7, <2>8, Zenon DEF FullInv
  <1>24. ASSUME NEW c \in CTAs, NEW t \in Stages PROVE FullInv(c, t)'
    <2>1. CASE c = b /\ t = s
      BY <1>22, <1>23, <2>1
    <2>2. CASE c # b \/ t # s
      <3>1. FullAt(c, t)' = FullAt(c, t) /\ full'[c][t] = full[c][t] /\ smem'[c][t] = smem[c][t]
        BY <1>12, <1>13, <1>15, <2>2
      <3>2. Landed(c, t)' = Landed(c, t)
        <4>1. \A e : [from |-> e, to |-> c, stage |-> t, k |-> FullAt(c, t)] # m
          BY <1>5, <2>2
        <4> QED BY <1>2, <1>3, <1>4, <3>1, <4>1 DEF Landed
      <3>3. \A e \in Sharing(c) : Loaded(e)' \in Nat /\ Loaded(e) <= Loaded(e)'
        <4>1. \A e \in Sharing(c) : Loaded(e) \in Nat
          BY <1>1, SharingIs, Places
        <4>2. \A z \in Nat : z <= z
          OBVIOUS
        <4> QED BY <1>4, <4>1, <4>2
      <3> QED BY <1>2, <1>4, <3>1, <3>2, <3>3, FullKept
    <2> QED BY <2>1, <2>2
  <1>25. ASSUME NEW c \in CTAs, NEW t \in Stages
         PROVE  FullAt(c, t)' \in Nat /\ FullAt(c, t) <= FullAt(c, t)'
    <2>1. CASE c = b /\ t = s
      <3>1. y \in Nat /\ x <= y
        BY <1>1, <1>17
      <3> QED BY <1>5, <1>16, <2>1, <3>1
    <2>2. CASE c # b \/ t # s
      <3>1. FullAt(c, t)' = FullAt(c, t)
        BY <1>15, <2>2
      <3>2. FullAt(c, t) \in Nat
        BY Places
      <3> QED BY <3>1, <3>2
    <2> QED BY <2>1, <2>2
  <1>26. ASSUME NEW l \in copies' PROVE FullAt(l.to, l.stage)' = FullAt(l.to, l.stage)
    <2>1. PICK e \in CTAs, c \in CTAs, t \in Stages, z \in Nat :
             /\ l = [from |-> e, to |-> c, stage |-> t, k |-> z]
             /\ c \in Sharing(e) /\ e \in Sharing(c) /\ z = FullAt(c, t)
      <3>1. l \in copies
        BY <1>2
      <3>2. /\ l = [from |-> l.from, to |-> l.to, stage |-> l.stage, k |-> l.k]
            /\ l.from \in CTAs /\ l.to \in Sharing(l.from) /\ l.stage \in Stages
            /\ l.k = FullAt(l.to, l.stage)
        BY <3>1 DEF PipeInv, CopyInv
      <3>3. l.to \in CTAs /\ l.from \in Sharing(l.to)
        BY <1>1, <3>2, SharingIs
      <3>4. l.k \in Nat
        BY <3>2, <3>3, Places
      <3> QED BY <3>2, <3>3, <3>4
    <2>2. FullAt(c, t)' = FullAt(c, t)
      <3>1. CASE c # b \/ t # s
        BY <1>15, <3>1
      <3>2. CASE c = b /\ t = s
        <4>1. e # d /\ l \in copies
          BY <1>2, <1>5, <2>1, <3>2
        <4>2. e \notin Landed(b, s)
          BY <2>1, <3>2, <4>1 DEF Landed
        <4>3. L # Sharing(b)
          BY <1>8, <2>1, <3>2, <4>1, <4>2
        <4> QED BY <1>5, <1>16, <1>17, <3>2, <4>3
      <3> QED BY <3>1, <3>2
    <2> QED BY <2>1, <2>2
  <1> QED BY <1>14, <1>24, <1>25, <1>26

\* A slice lands, perhaps the last its barrier waits for.
LEMMA CopyLandsKeepsPipe ==
    ASSUME PipeInv, NEW m \in copies, CopyLands(m)
    PROVE  PipeInv'
  <1>1. LaunchOK
    BY DEF PipeInv
  <1>2. /\ launch' = launch /\ empty' = empty /\ math' = math /\ producer' = producer
        /\ arrivals' = arrivals /\ copies' = copies \ {m}
    BY Zenon DEF CopyLands
  <1>3. /\ PipeShape'
        /\ \A c \in CTAs, t \in Stages : FullInv(c, t)'
        /\ \A c \in CTAs, t \in Stages : FullAt(c, t)' \in Nat /\ FullAt(c, t) <= FullAt(c, t)'
        /\ \A l \in copies' : FullAt(l.to, l.stage)' = FullAt(l.to, l.stage)
    BY CopyBarrier
  <1>4. /\ \A c \in CTAs, w \in WarpGroups : MathInv(c, w)'
        /\ \A c \in CTAs, w \in WarpGroups, i \in Nat :
             Reads(w, i) => (i < LetGo(c, w)' <=> i < LetGo(c, w))
    BY <1>2, <1>3, MathsKept
  <1>5. /\ \A c \in CTAs, t \in Stages : EmptyInv(c, t)' /\ EmptyAt(c, t)' = EmptyAt(c, t)
        /\ \A l \in arrivals : ArrivalInv(l)'
    BY <1>2, <1>4, FreeingKept
  <1>6. \A z \in Nat : z <= z
    OBVIOUS
  <1>7. \A c \in CTAs, t \in Stages : EmptyAt(c, t)' \in Nat /\ EmptyAt(c, t) <= EmptyAt(c, t)'
    BY <1>5, <1>6, Places
  <1>8. \A c \in CTAs : ProducerInv(c)' /\ Loaded(c)' = Loaded(c)
    BY <1>2, <1>7, ProducerKept
  <1>9. ASSUME NEW l \in copies' PROVE CopyInv(l)'
    <2>1. l \in copies
      BY <1>2
    <2>2. l.from \in CTAs
      BY <2>1 DEF PipeInv, CopyInv
    <2>3. Loaded(l.from)' \in Nat /\ Loaded(l.from) <= Loaded(l.from)'
      <3>1. PICK c \in CTAs : c = l.from
        BY <2>2
      <3>2. Loaded(c)' \in Nat /\ Loaded(c) <= Loaded(c)'
        BY <1>6, <1>8, Places
      <3> QED BY <3>1, <3>2
    <2>4. FullAt(l.to, l.stage)' = FullAt(l.to, l.stage)
      BY <1>3
    <2> QED BY <1>2, <2>1, <2>3, <2>4, CopyKept
  <1> QED BY <1>2, <1>3, <1>4, <1>5, <1>8, <1>9, PipeInvOf

-----------------------------------------------------------------------------
(* The steps of the arrivals.                                              *)

\* arrive: one more reader has let go.
LEMMA ArrivalCounts ==
    ASSUME PipeInv, NEW d \in CTAs, NEW s \in Stages,
           NEW c \in Everybody(d, EmptyAt(d, s)), c \notin Freed(d, s)
    PROVE  LET F == Freed(d, s) \cup {c}
               n == empty[d][s].phases
               z == arrive(empty[d][s])
           IN  /\ F = Everybody(d, EmptyAt(d, s)) => z = BarrierOf(Consumers, n + 1, Consumers, 0)
               /\ F # Everybody(d, EmptyAt(d, s)) =>
                    z = BarrierOf(Consumers, n, Consumers - Cardinality(F), 0)
  <1> DEFINE n == empty[d][s].phases
             r == empty[d][s]
  <1>1. LaunchOK /\ EmptyInv(d, s)
    BY DEF PipeInv
  <1>2. PICK E, G, F : E = Everybody(d, EmptyAt(d, s)) /\ G = Freed(d, s) /\ F = G \cup {c}
    OBVIOUS
  <1>3. r = BarrierOf(Consumers, n, Consumers - Cardinality(G), 0)
    BY <1>1, <1>2 DEF EmptyInv
  <1>4. /\ IsFiniteSet(E) /\ Cardinality(E) = Consumers /\ Consumers \in Nat \ {0}
    BY <1>1, <1>2, EverybodyIs, Places
  <1>5. G \subseteq E /\ F \subseteq E /\ c \notin G
    BY <1>2 DEF Freed
  <1>6. IsFiniteSet(G) /\ IsFiniteSet(F)
    BY <1>4, <1>5, FS_Subset
  <1>7. Cardinality(F) = Cardinality(G) + 1
    BY <1>2, <1>5, <1>6, FS_AddElement
  <1>8. Cardinality(F) \in Nat /\ Cardinality(G) \in Nat /\ Cardinality(F) <= Consumers
    BY <1>4, <1>5, <1>6, FS_Subset, FS_CardinalityType
  <1>9. F = E <=> Cardinality(F) = Consumers
    BY <1>4, <1>5, FS_Subset
  <1>10. PICK f \in Nat, g \in Nat : f = Cardinality(F) /\ g = Cardinality(G)
    BY <1>8
  <1>11. PICK N \in Nat : N = Consumers
    BY <1>4
  <1> HIDE DEF n, r
  <1>12. arrive(r) = PhaseEnds(BarrierOf(N, n, (N - g) - 1, 0))
    BY <1>3, <1>10, <1>11, PhaseSteps
  <1>13. (N - g) - 1 = N - f /\ (N - f = 0 <=> f = N)
    BY <1>7, <1>10
  <1>14. CASE F = E
    <2>1. N - f = 0
      BY <1>9, <1>10, <1>11, <1>13, <1>14
    <2>2. PhaseEnds(BarrierOf(N, n, 0, 0)) = BarrierOf(N, n + 1, N, 0)
      BY PhaseSteps
    <2> QED BY <1>2, <1>11, <1>12, <1>13, <1>14, <2>1, <2>2 DEF n, r
  <1>15. CASE F # E
    <2>1. N - f # 0
      BY <1>9, <1>10, <1>11, <1>13, <1>15
    <2>2. PhaseEnds(BarrierOf(N, n, N - f, 0)) = BarrierOf(N, n, N - f, 0)
      BY <2>1, PhaseSteps
    <2> QED BY <1>2, <1>10, <1>11, <1>12, <1>13, <1>15, <2>2 DEF n, r
  <1> QED BY <1>2, <1>14, <1>15

\* An arrival at its empty barrier.
LEMMA Counted ==
    ASSUME PipeInv, launch' = launch, NEW d \in CTAs, NEW s \in Stages, NEW x \in Nat,
           x = EmptyAt(d, s), empty'[d][s] = arrive(empty[d][s]),
           NEW e \in Sharing(d), NEW v \in WarpGroups, Reads(v, x), <<e, v>> \notin Freed(d, s),
           x < LetGo(e, v)', ~OnItsWay(<<e, v>>, d, s)',
           \A f \in Sharing(d), w \in WarpGroups :
              /\ <<f, w>> # <<e, v>> => /\ OnItsWay(<<f, w>>, d, s)' <=> OnItsWay(<<f, w>>, d, s)
                                        /\ x < LetGo(f, w)' <=> x < LetGo(f, w)
              /\ \A i \in Nat : /\ Reads(w, i) /\ i < LetGo(f, w) => i < LetGo(f, w)'
                                /\ Reads(w, i) /\ i < LetGo(f, w)' => i < LetGo(f, w) \/ i = x
    PROVE  /\ EmptyInv(d, s)'
           /\ EmptyAt(d, s)' \in Nat /\ x <= EmptyAt(d, s)'
           /\ \A f \in Sharing(d), w \in WarpGroups :
                Reads(w, x) /\ OnItsWay(<<f, w>>, d, s)' => EmptyAt(d, s)' = x
  <1>1. LaunchOK /\ Depth \in Nat \ {0} /\ Stages = 0 .. Depth - 1
    BY LaunchIs DEF PipeInv
  <1>2. Depth' = Depth /\ Sharing(d)' = Sharing(d) /\ Consumers' = Consumers
        /\ (\A w, i : Reads(w, i)' <=> Reads(w, i))
        /\ (\A i : Everybody(d, i)' = Everybody(d, i))
    BY SameLaunch
  <1>3. PICK n \in Nat : n = empty[d][s].phases
    BY Places
  <1>4. PICK E, F, c : E = Everybody(d, x) /\ F = Freed(d, s) \cup {c} /\ c = <<e, v>>
    OBVIOUS
  <1>5. c \in E /\ F \subseteq E
    BY <1>4 DEF Everybody, Freed
  <1>6. /\ F = E => empty'[d][s] = BarrierOf(Consumers, n + 1, Consumers, 0)
        /\ F # E => empty'[d][s] = BarrierOf(Consumers, n, Consumers - Cardinality(F), 0)
    BY <1>3, <1>4, <1>5, ArrivalCounts
  <1>7. x = n * Depth + s
    BY <1>3 DEF EmptyAt
  <1>8. PICK y : y = EmptyAt(d, s)'
    OBVIOUS
  <1>9. /\ F = E => empty'[d][s].phases = n + 1 /\ y = x + Depth
        /\ F # E => empty'[d][s].phases = n /\ y = x
    <2>1. CASE F = E
      <3>1. empty'[d][s].phases = n + 1
        BY <1>6, <2>1, PhaseSteps
      <3>2. y = (n + 1) * Depth + s
        BY <1>2, <1>8, <3>1 DEF EmptyAt
      <3>3. (n + 1) * Depth + s = n * Depth + s + Depth
        BY <1>1, Apart
      <3> QED BY <1>7, <2>1, <3>1, <3>2, <3>3
    <2>2. CASE F # E
      <3>1. empty'[d][s].phases = n
        BY <1>6, <2>2, PhaseSteps
      <3>2. y = n * Depth + s
        BY <1>2, <1>8, <3>1 DEF EmptyAt
      <3> QED BY <1>7, <2>2, <3>1, <3>2
    <2> QED BY <2>1, <2>2
  <1>10. y \in Nat /\ x <= y
    BY <1>1, <1>9
  <1>11. EmptyInv(d, s)
    BY DEF PipeInv
  <1>12. ASSUME NEW k \in E
         PROVE  /\ k[1] \in Sharing(d) /\ k[2] \in WarpGroups /\ Reads(k[2], x)
                /\ k = <<k[1], k[2]>> /\ (OnItsWay(k, d, s)' <=> OnItsWay(<<k[1], k[2]>>, d, s)')
    BY <1>4 DEF Everybody, OnItsWay
  <1>13. {k \in E : x < LetGo(k[1], k[2])' /\ ~OnItsWay(k, d, s)'} = F
    <2>1. Freed(d, s) = {k \in E : x < LetGo(k[1], k[2]) /\ ~OnItsWay(k, d, s)}
      BY <1>4 DEF Freed
    <2>2. ASSUME NEW k \in E, k # c
          PROVE  (x < LetGo(k[1], k[2])' /\ ~OnItsWay(k, d, s)') <=>
                 (x < LetGo(k[1], k[2]) /\ ~OnItsWay(k, d, s))
      <3>1. /\ k[1] \in Sharing(d) /\ k[2] \in WarpGroups /\ k = <<k[1], k[2]>>
        BY <1>12
      <3>2. <<k[1], k[2]>> # <<e, v>>
        BY <1>4, <2>2, <3>1
      <3>3. /\ OnItsWay(<<k[1], k[2]>>, d, s)' <=> OnItsWay(<<k[1], k[2]>>, d, s)
            /\ x < LetGo(k[1], k[2])' <=> x < LetGo(k[1], k[2])
        BY <3>1, <3>2
      <3>4. OnItsWay(k, d, s) <=> OnItsWay(<<k[1], k[2]>>, d, s)
        BY <3>1
      <3> QED BY <1>12, <3>3, <3>4
    <2>3. x < LetGo(c[1], c[2])' /\ ~OnItsWay(c, d, s)'
      <3>1. c[1] = e /\ c[2] = v
        BY <1>4
      <3>2. OnItsWay(c, d, s)' <=> OnItsWay(<<e, v>>, d, s)'
        BY <1>5, <1>12, <3>1
      <3> QED BY <3>1, <3>2
    <2> QED BY <1>4, <1>5, <2>1, <2>2, <2>3
  <1>14. \A f \in Sharing(d), w \in WarpGroups, i \in 0 .. x - 1 :
             i % Depth = s /\ Reads(w, i) => i < LetGo(f, w)'
    <2> SUFFICES ASSUME NEW f \in Sharing(d), NEW w \in WarpGroups, NEW i \in 0 .. x - 1,
                        i % Depth = s, Reads(w, i)
                 PROVE  i < LetGo(f, w)'
      OBVIOUS
    <2>1. i < LetGo(f, w)
      BY <1>11 DEF EmptyInv
    <2>2. i \in Nat
      OBVIOUS
    <2> QED BY <2>1, <2>2
  <1>15. ASSUME F = E PROVE EmptyInv(d, s)'
    <2>1. Freed(d, s)' = {}
      <3>1. Freed(d, s)' \subseteq {k \in Everybody(d, y) : y < LetGo(k[1], k[2])'}
        BY <1>2, <1>8 DEF Freed, Everybody
      <3>2. ASSUME NEW k \in Everybody(d, y), y < LetGo(k[1], k[2])' PROVE FALSE
        <4>1. k[1] \in Sharing(d) /\ k[2] \in WarpGroups /\ Reads(k[2], y)
          BY DEF Everybody
        <4>2. y # x /\ y = x + Depth
          BY <1>1, <1>9, <1>15
        <4>3. y < LetGo(k[1], k[2])
          BY <1>10, <3>2, <4>1, <4>2
        <4> QED BY <4>1, <4>2, <4>3, NotLetGoPast
      <3> QED BY <3>1, <3>2
    <2>2. Everybody(d, EmptyAt(d, s))' = Everybody(d, y)
      BY <1>2, <1>8 DEF Everybody
    <2>3. {} # Everybody(d, y)
      <3>1. PICK w \in WarpGroups : Reads(w, y)
        BY <1>1, <1>10, EverybodyIs
      <3>2. d \in Sharing(d)
        BY <1>1, SharingIs
      <3>3. <<d, w>> \in Everybody(d, y)
        BY <3>1, <3>2 DEF Everybody
      <3> QED BY <3>3
    <2>4. Cardinality(Freed(d, s))' = 0
      BY <2>1, FS_EmptySet
    <2>5. empty'[d][s] = BarrierOf(Consumers, n + 1, Consumers - 0, 0)
      <3>1. Consumers \in Nat
        BY <1>1, EverybodyIs
      <3>2. Consumers - 0 = Consumers
        BY <3>1
      <3> QED BY <1>6, <1>15, <3>2
    <2>6. \A f \in Sharing(d), w \in WarpGroups, i \in 0 .. y - 1 :
             i % Depth = s /\ Reads(w, i) => i < LetGo(f, w)'
      <3> SUFFICES ASSUME NEW f \in Sharing(d), NEW w \in WarpGroups, NEW i \in 0 .. y - 1,
                          i % Depth = s, Reads(w, i)
                   PROVE  i < LetGo(f, w)'
        OBVIOUS
      <3>1. i \in Nat /\ x % Depth = s
        BY <1>10, Places
      <3>2. i <= x
        <4>1. i < x + Depth
          BY <1>9, <1>10, <1>15
        <4> QED BY <1>1, <3>1, <4>1, SameStage
      <3>3. CASE i < x
        BY <1>14, <3>1, <3>3
      <3>4. CASE i = x
        <4>1. <<f, w>> \in F
          BY <1>4, <1>15, <3>4 DEF Everybody
        <4>2. <<f, w>> \in {k \in E : x < LetGo(k[1], k[2])' /\ ~OnItsWay(k, d, s)'}
          BY <1>13, <4>1
        <4> QED BY <3>4, <4>2
      <3> QED BY <3>1, <3>2, <3>3, <3>4
    <2>7. empty'[d][s].phases = n + 1 /\ n + 1 \in Nat
      BY <1>9, <1>15
    <2>8. Freed(d, s)' # Everybody(d, EmptyAt(d, s))'
      BY <2>1, <2>2, <2>3
    <2> QED BY <1>2, <1>8, <2>4, <2>5, <2>6, <2>7, <2>8 DEF EmptyInv
  <1>16. ASSUME F # E PROVE EmptyInv(d, s)'
    <2>1. y = x /\ empty'[d][s].phases = n
      BY <1>9, <1>16
    <2>2. Freed(d, s)' = F
      <3>1. Freed(d, s)' = {k \in E : x < LetGo(k[1], k[2])' /\ ~OnItsWay(k, d, s)'}
        BY <1>2, <1>4, <1>8, <2>1 DEF Freed, Everybody
      <3> QED BY <1>13, <3>1
    <2>3. Everybody(d, EmptyAt(d, s))' = E
      BY <1>2, <1>4, <1>8, <2>1 DEF Everybody
    <2>4. empty'[d][s] = BarrierOf(Consumers, n, Consumers - Cardinality(F), 0)
      BY <1>6, <1>16
    <2>5. Cardinality(Freed(d, s))' = Cardinality(F)
      BY <2>2
    <2> QED BY <1>2, <1>8, <1>14, <1>16, <2>1, <2>2, <2>3, <2>4, <2>5 DEF EmptyInv
  <1>17. ASSUME NEW f \in Sharing(d), NEW w \in WarpGroups, Reads(w, x), OnItsWay(<<f, w>>, d, s)'
         PROVE  y = x
    <2>1. <<f, w>> \in E
      BY <1>4, <1>17 DEF Everybody
    <2>2. <<f, w>> \notin F
      BY <1>13, <1>17
    <2> QED BY <1>9, <2>1, <2>2
  <1> QED BY <1>8, <1>10, <1>15, <1>16, <1>17

\* The other empty barriers.
LEMMA OthersKept ==
    ASSUME PipeInv, launch' = launch, NEW d \in CTAs, NEW s \in Stages,
           empty'[d][s] = empty[d][s]
    PROVE  EmptyAt(d, s)' = EmptyAt(d, s) /\ EmptyAt(d, s)' \in Nat /\ EmptyAt(d, s) <= EmptyAt(d, s)'
  <1>1. Depth' = Depth
    BY SameLaunch
  <1>2. EmptyAt(d, s)' = EmptyAt(d, s)
    BY <1>1 DEF EmptyAt
  <1>3. PICK x \in Nat : x = EmptyAt(d, s)
    BY Places
  <1>4. x <= x
    OBVIOUS
  <1> QED BY <1>2, <1>3, <1>4

\* What an arrival on its way is.
LEMMA ArrivalIs ==
    ASSUME PipeInv, NEW m \in arrivals
    PROVE  /\ m = [from |-> m.from, group |-> m.group, thread |-> m.thread, to |-> m.to,
                   stage |-> m.stage, k |-> m.k]
           /\ m.from \in CTAs /\ m.to \in CTAs /\ m.from # m.to
           /\ m.from \in Sharing(m.to) /\ m.to \in Sharing(m.from)
           /\ m.group \in WarpGroups /\ m.stage \in Stages
           /\ m.k \in Nat /\ m.k = EmptyAt(m.to, m.stage) /\ m.k % Depth = m.stage
           /\ Reads(m.group, m.k) /\ m.k < LetGo(m.from, m.group)
           /\ OnItsWay(<<m.from, m.group>>, m.to, m.stage)
           /\ m.thread \in Signals(m.from, launch.cluster_m, launch.cluster_n)
           /\ dst_blockid(m.thread) = m.to
  <1>1. LaunchOK /\ ArrivalInv(m)
    BY DEF PipeInv
  <1>2. /\ m = [from |-> m.from, group |-> m.group, thread |-> m.thread, to |-> m.to,
                stage |-> m.stage, k |-> m.k]
        /\ m.from \in CTAs /\ m.to \in Sharing(m.from) /\ m.to # m.from
        /\ m.group \in WarpGroups /\ m.stage \in Stages
        /\ m.thread \in Signals(m.from, launch.cluster_m, launch.cluster_n)
        /\ m.to = dst_blockid(m.thread)
        /\ m.k = EmptyAt(m.to, m.stage) /\ Reads(m.group, m.k) /\ m.k < LetGo(m.from, m.group)
    BY <1>1 DEF ArrivalInv
  <1>3. m.to \in CTAs /\ m.from \in Sharing(m.to)
    BY <1>1, <1>2, SharingIs
  <1>4. m.k \in Nat /\ m.k % Depth = m.stage
    BY <1>2, <1>3, Places
  <1>5. OnItsWay(<<m.from, m.group>>, m.to, m.stage)
    BY DEF OnItsWay
  <1> QED BY <1>2, <1>3, <1>4, <1>5

\* Two arrivals of one reader at one barrier are one.
LEMMA OneArrival ==
    ASSUME PipeInv, NEW m \in arrivals, NEW l \in arrivals, l.from = m.from, l.group = m.group,
           l.to = m.to, l.stage = m.stage
    PROVE  l = m
  <1>1. LaunchOK
    BY DEF PipeInv
  <1>2. l.k = m.k
    BY ArrivalIs
  <1>3. l.thread = m.thread
    <2>1. /\ m.from \in CTAs /\ dst_blockid(m.thread) = m.to
          /\ m.thread \in Signals(m.from, launch.cluster_m, launch.cluster_n)
      BY ArrivalIs
    <2>2. /\ dst_blockid(l.thread) = m.to
          /\ l.thread \in Signals(m.from, launch.cluster_m, launch.cluster_n)
      BY ArrivalIs
    <2> QED BY <1>1, <2>1, <2>2, OneThread
  <1>4. /\ m = [from |-> m.from, group |-> m.group, thread |-> m.thread, to |-> m.to,
                stage |-> m.stage, k |-> m.k]
        /\ l = [from |-> l.from, group |-> l.group, thread |-> l.thread, to |-> l.to,
                stage |-> l.stage, k |-> l.k]
    BY ArrivalIs
  <1> QED BY <1>2, <1>3, <1>4

\* An arrival lands, perhaps the last its barrier waits for.
LEMMA ArrivalLandsKeepsPipe ==
    ASSUME PipeInv, NEW m \in arrivals, ArrivalLands(m)
    PROVE  PipeInv'
  <1>1. LaunchOK
    BY DEF PipeInv
  <1>2. /\ launch' = launch /\ full' = full /\ math' = math /\ producer' = producer
        /\ smem' = smem /\ copies' = copies /\ arrivals' = arrivals \ {m}
    BY Zenon DEF ArrivalLands
  <1>3. /\ CTAs' = CTAs /\ Stages' = Stages /\ K' = K /\ Depth' = Depth
        /\ \A c : Sharing(c)' = Sharing(c)
    BY <1>2, SameLaunch
  <1>4. \A c : Loaded(c)' = Loaded(c)
    BY <1>2, <1>3 DEF Loaded
  <1>5. \A c, w : LetGo(c, w)' = LetGo(c, w)
    BY <1>2, <1>3 DEF LetGo, Taken
  <1>6. /\ \A c \in CTAs, t \in Stages : FullInv(c, t)' /\ FullAt(c, t)' = FullAt(c, t)
        /\ \A l \in copies : CopyInv(l)'
    BY <1>2, <1>4, FillingKept
  <1>7. \A z \in Nat : z <= z
    OBVIOUS
  <1>8. \A c \in CTAs, t \in Stages : FullAt(c, t)' \in Nat /\ FullAt(c, t) <= FullAt(c, t)'
    BY <1>6, <1>7, Places
  <1>9. \A c \in CTAs, w \in WarpGroups : MathInv(c, w)'
    BY <1>2, <1>8, MathsKept
  <1>10. PICK e \in CTAs, d \in CTAs, v \in WarpGroups, s \in Stages, x \in Nat :
            /\ e = m.from /\ v = m.group /\ d = m.to /\ s = m.stage /\ x = m.k
            /\ x = EmptyAt(d, s) /\ e \in Sharing(d) /\ e # d
            /\ Reads(v, x) /\ x < LetGo(e, v) /\ OnItsWay(<<e, v>>, d, s)
    BY ArrivalIs
  <1>11. <<e, v>> \notin Freed(d, s)
    BY <1>10 DEF Freed
  <1>12. PICK z : empty' = Put(empty, d, s, z) /\ z = arrive(empty[d][s])
    BY <1>10, Zenon DEF ArrivalLands, Put
  <1>13. /\ IsTable(empty', CTAs, Stages)
         /\ empty'[d][s] = arrive(empty[d][s])
         /\ \A c \in CTAs, t \in Stages : c # d \/ t # s => empty'[c][t] = empty[c][t]
    <2>1. empty = [c \in CTAs |-> [t \in Stages |-> empty[c][t]]]
      BY DEF PipeInv, PipeShape
    <2>2. IsTable(empty, CTAs, Stages)
      BY <2>1, Zenon DEF IsTable
    <2>3. /\ IsTable(Put(empty, d, s, z), CTAs, Stages)
          /\ Put(empty, d, s, z)[d][s] = z
      BY <2>2, NestedUpdate
    <2>4. \A c \in CTAs, t \in Stages : c # d \/ t # s => Put(empty, d, s, z)[c][t] = empty[c][t]
      BY <2>2, NestedUpdate
    <2> QED BY <1>12, <2>3, <2>4
  <1>14. ~OnItsWay(<<e, v>>, d, s)'
    <2> SUFFICES ASSUME NEW l \in arrivals', l.from = e, l.group = v, l.to = d, l.stage = s
                 PROVE  FALSE
      BY DEF OnItsWay
    <2>1. l \in arrivals /\ l # m
      BY <1>2
    <2> QED BY <1>10, <2>1, OneArrival
  <1>15. \A f, w, c, t : <<f, w>> # <<e, v>> \/ c # d \/ t # s =>
           (OnItsWay(<<f, w>>, c, t)' <=> OnItsWay(<<f, w>>, c, t))
    BY <1>2, <1>10 DEF OnItsWay
  <1>16. /\ EmptyInv(d, s)'
         /\ EmptyAt(d, s)' \in Nat /\ x <= EmptyAt(d, s)'
         /\ \A f \in Sharing(d), w \in WarpGroups :
              Reads(w, x) /\ OnItsWay(<<f, w>>, d, s)' => EmptyAt(d, s)' = x
    <2>1. \A f \in Sharing(d), w \in WarpGroups :
              /\ <<f, w>> # <<e, v>> => /\ OnItsWay(<<f, w>>, d, s)' <=> OnItsWay(<<f, w>>, d, s)
                                        /\ x < LetGo(f, w)' <=> x < LetGo(f, w)
              /\ \A i \in Nat : /\ Reads(w, i) /\ i < LetGo(f, w) => i < LetGo(f, w)'
                                /\ Reads(w, i) /\ i < LetGo(f, w)' => i < LetGo(f, w) \/ i = x
      BY <1>5, <1>15
    <2>2. x < LetGo(e, v)'
      BY <1>5, <1>10
    <2> QED BY <1>2, <1>10, <1>11, <1>13, <1>14, <2>1, <2>2, Counted
  <1>17. ASSUME NEW c \in CTAs, NEW t \in Stages, c # d \/ t # s
         PROVE  /\ EmptyInv(c, t)' /\ EmptyAt(c, t)' = EmptyAt(c, t)
                /\ EmptyAt(c, t)' \in Nat /\ EmptyAt(c, t) <= EmptyAt(c, t)'
    <2>1. empty'[c][t] = empty[c][t]
      BY <1>13, <1>17
    <2>2. ASSUME NEW f \in Sharing(c), NEW w \in WarpGroups
          PROVE  ~(LetGo(f, w) = EmptyAt(c, t) /\ EmptyAt(c, t) < LetGo(f, w)')
      <3>1. f \in CTAs
        BY <1>1, SharingIs
      <3>2. LetGo(f, w) \in Nat
        BY <3>1, Places
      <3> QED BY <1>5, <3>2
    <2>3. \A f \in Sharing(c), w \in WarpGroups :
              /\ OnItsWay(<<f, w>>, c, t)' <=>
                   \/ OnItsWay(<<f, w>>, c, t)
                   \/ LetGo(f, w) = EmptyAt(c, t) /\ EmptyAt(c, t) < LetGo(f, w)'
                      /\ Reads(w, EmptyAt(c, t))
              /\ \A i \in Nat : /\ Reads(w, i) /\ i < LetGo(f, w) => i < LetGo(f, w)'
                                /\ Reads(w, i) /\ i < LetGo(f, w)' =>
                                     \/ i < LetGo(f, w)
                                     \/ i # EmptyAt(c, t)
                                     \/ LetGo(f, w) = i
      BY <1>5, <1>15, <1>17, <2>2
    <2> QED BY <1>2, <2>1, <2>3, EmptyKept, OthersKept
  <1>18. ASSUME NEW c \in CTAs, NEW t \in Stages
         PROVE  /\ EmptyInv(c, t)'
                /\ EmptyAt(c, t)' \in Nat /\ EmptyAt(c, t) <= EmptyAt(c, t)'
    <2>1. CASE c = d /\ t = s
      BY <1>10, <1>16, <2>1
    <2>2. CASE c # d \/ t # s
      BY <1>17, <2>2
    <2> QED BY <2>1, <2>2
  <1>19. ASSUME NEW l \in arrivals' PROVE ArrivalInv(l)'
    <2>1. l \in arrivals
      BY <1>2
    <2>2. PICK f \in CTAs, c \in CTAs, w \in WarpGroups, t \in Stages :
             /\ f = l.from /\ c = l.to /\ w = l.group /\ t = l.stage /\ f \in Sharing(c)
             /\ l.k = EmptyAt(c, t) /\ Reads(w, l.k) /\ l.k < LetGo(f, w)
      BY <2>1, ArrivalIs
    <2>3. EmptyAt(c, t)' = EmptyAt(c, t)
      <3>1. CASE c = d /\ t = s
        <4>1. OnItsWay(<<f, w>>, d, s)'
          BY <2>2, <3>1 DEF OnItsWay
        <4> QED BY <1>10, <1>16, <2>2, <3>1, <4>1
      <3>2. CASE c # d \/ t # s
        BY <1>17, <3>2
      <3> QED BY <3>1, <3>2
    <2>4. EmptyAt(l.to, l.stage)' = EmptyAt(l.to, l.stage)
      BY <2>2, <2>3
    <2>5. l.k < LetGo(l.from, l.group)'
      BY <1>5, <2>2
    <2> QED BY <1>2, <2>1, <2>4, <2>5, ArrivalKept
  <1>20. \A c \in CTAs : ProducerInv(c)'
    BY <1>2, <1>18, ProducerKept
  <1>21. PipeShape'
    <2>1. PipeShape
      BY DEF PipeInv
    <2>2. empty' = [c \in CTAs |-> [t \in Stages |-> empty'[c][t]]]
      BY <1>13, Zenon DEF IsTable
    <2> QED BY <1>2, <1>3, <2>1, <2>2 DEF PipeShape
  <1> QED BY <1>2, <1>6, <1>9, <1>18, <1>19, <1>20, <1>21, PipeInvOf

-----------------------------------------------------------------------------
(* The steps of the math warp groups.                                      *)

\* What a math warp group holds, by where it is.
Holding(pc, k, t, reading) ==
    \/ pc \in {"order_mma", "mma", "exit"} /\ k = 0 /\ reading = <<>>
    \/ pc = "mma" /\ k \in 1 .. K /\ reading = <<Entry(t - 1)>>
    \/ pc = "mma" /\ k \in 2 .. K /\ reading = <<Entry(t - 2), Entry(t - 1)>>
    \/ pc = "mma_tail" /\ k = K /\ reading = <<Entry(t - 1)>>
    \/ pc \in {"order_store", "store"} /\ k = K /\ reading = <<>>

\* Its record, and its parts.
MathOf(pc, tile, pipe, read, release, k, reading, ord) ==
    [pc |-> pc, tile |-> tile, pipe |-> pipe, read |-> read, release |-> release, k |-> k,
     reading |-> reading, order |-> ord]

MathHas(b, w, tile, k, t, pc, pipe, read, release, reading, ord) ==
    /\ math[b][w] = MathOf(pc, tile, pipe, read, release, k, reading, ord)
    /\ t = tile * K + k /\ t = Taken(b, w) /\ LetGo(b, w) = t - Len(reading)
    /\ k \in 0 .. K
    /\ Pingpong => tile % 2 = w
    /\ pc = "exit" <=> launch.tiles <= tile
    /\ pc \in {"order_mma", "order_store"} => Pingpong
    /\ Holding(pc, k, t, reading)
    /\ IF pc \in {"order_store", "store"}
       THEN pipe = At((tile + TilesPerTurn) * K, 0) /\ read = pipe /\ release = pipe
       ELSE /\ pipe = At(tile * K, 0) /\ read = At(t, 0)
            /\ pc # "mma_tail" => release = At(t - Len(reading), 0)
    /\ \A i \in Nat : i < t /\ Reads(w, i) => i < FullAt(b, i % Depth)

\* The record of a math warp group, taken apart and put together again.
LEMMA MathIs ==
    ASSUME PipeInv, NEW b \in CTAs, NEW w \in WarpGroups
    PROVE  \E tile \in Nat, k \in Nat, t \in Nat : \E pc, pipe, read, release, reading, ord :
             MathHas(b, w, tile, k, t, pc, pipe, read, release, reading, ord)
  <1> DEFINE m == math[b][w]
             t == Taken(b, w)
  <1>1. /\ MathShape(b, w) /\ MathHolds(b, w) /\ MathPipes(b, w) /\ MathReads(b, w)
    BY DEF PipeInv, MathInv
  <1>2. m.tile \in Nat /\ m.k \in 0 .. K /\ t \in Nat /\ K \in Nat
    BY ReadingIs, Places, LaunchIs DEF PipeInv
  <1>3. m.k \in Nat
    BY <1>2
  <1>4. /\ m = MathOf(m.pc, m.tile, m.pipe, m.read, m.release, m.k, m.reading, m.order)
        /\ Pingpong => m.tile % 2 = w
        /\ m.pc = "exit" <=> launch.tiles <= m.tile
        /\ m.pc \in {"order_mma", "order_store"} => Pingpong
    BY <1>1 DEF MathShape, MathOf
  <1>5. t = m.tile * K + m.k /\ LetGo(b, w) = t - Len(m.reading)
    BY DEF Taken, LetGo
  <1>6. Holding(m.pc, m.k, t, m.reading)
    BY <1>1 DEF MathHolds, HasRead, Holding
  <1>7. IF m.pc \in {"order_store", "store"}
        THEN m.pipe = At((m.tile + TilesPerTurn) * K, 0) /\ m.read = m.pipe /\ m.release = m.pipe
        ELSE /\ m.pipe = At(m.tile * K, 0) /\ m.read = At(t, 0)
             /\ m.pc # "mma_tail" => m.release = At(t - Len(m.reading), 0)
    BY <1>1, <1>5 DEF MathPipes, HasRead
  <1>8. \A i \in Nat : i < t /\ Reads(w, i) => i < FullAt(b, i % Depth)
    BY <1>1 DEF MathReads
  <1>9. MathHas(b, w, m.tile, m.k, t, m.pc, m.pipe, m.read, m.release, m.reading, m.order)
    BY <1>2, <1>4, <1>5, <1>6, <1>7, <1>8 DEF MathHas
  <1> QED BY <1>2, <1>3, <1>9

LEMMA MathInvOf ==
    ASSUME PipeInv, launch' = launch, full' = full, NEW b \in CTAs, NEW w \in WarpGroups,
           NEW tile \in Nat, NEW k \in Nat, NEW t \in Nat,
           NEW pc, NEW pipe, NEW read, NEW release, NEW reading, NEW ord,
           math'[b][w] = MathOf(pc, tile, pipe, read, release, k, reading, ord),
           t = tile * K + k,
           Pingpong => tile % 2 = w,
           pc = "exit" <=> launch.tiles <= tile,
           pc \in {"order_mma", "order_store"} => Pingpong,
           Holding(pc, k, t, reading),
           IF pc \in {"order_store", "store"}
           THEN pipe = At((tile + TilesPerTurn) * K, 0) /\ read = pipe /\ release = pipe
           ELSE /\ pipe = At(tile * K, 0) /\ read = At(t, 0)
                /\ pc # "mma_tail" => release = At(t - Len(reading), 0),
           \A i \in Nat : i < t /\ Reads(w, i) => i < FullAt(b, i % Depth)
    PROVE  MathInv(b, w)' /\ Taken(b, w)' = t /\ LetGo(b, w)' = t - Len(reading)
  <1>1. /\ Depth' = Depth /\ K' = K /\ TilesPerTurn' = TilesPerTurn
        /\ (Pingpong' <=> Pingpong) /\ (\A i : Reads(w, i)' <=> Reads(w, i))
        /\ (\A i, parity : At(i, parity)' = At(i, parity))
    BY SameLaunch
  <1>2. PICK m : m = math'[b][w]
    OBVIOUS
  <1>3. /\ m.pc = pc /\ m.tile = tile /\ m.pipe = pipe /\ m.read = read /\ m.release = release
        /\ m.k = k /\ m.reading = reading /\ m.order = ord
        /\ m = [pc |-> m.pc, tile |-> m.tile, pipe |-> m.pipe, read |-> m.read,
                release |-> m.release, k |-> m.k, reading |-> m.reading, order |-> m.order]
    BY <1>2 DEF MathOf
  <1>4. Taken(b, w)' = t /\ LetGo(b, w)' = t - Len(reading)
    BY <1>1, <1>2, <1>3 DEF Taken, LetGo
  <1>5. MathShape(b, w)'
    BY <1>1, <1>2, <1>3 DEF MathShape
  <1>6. MathHolds(b, w)'
    BY <1>1, <1>2, <1>3, <1>4 DEF MathHolds, HasRead, Holding, Entry
  <1>7. MathPipes(b, w)'
    BY <1>1, <1>2, <1>3, <1>4 DEF MathPipes, HasRead
  <1>8. \A c, s : FullAt(c, s)' = FullAt(c, s)
    BY <1>1 DEF FullAt
  <1>9. MathReads(b, w)'
    BY <1>1, <1>4, <1>8 DEF MathReads, FullAt
  <1> QED BY <1>4, <1>5, <1>6, <1>7, <1>9 DEF MathInv

\* A step of one math warp group leaves the others alone.
LEMMA MathUpdate ==
    ASSUME PipeInv, NEW b \in CTAs, NEW w \in WarpGroups, NEW r, math' = Put(math, b, w, r)
    PROVE  /\ math'[b][w] = r
           /\ math' = [c \in CTAs |-> [v \in WarpGroups |-> math'[c][v]]]
           /\ \A c \in CTAs, v \in WarpGroups : c # b \/ v # w => math'[c][v] = math[c][v]
  <1>1. math = [c \in CTAs |-> [v \in WarpGroups |-> math[c][v]]]
    BY DEF PipeInv, PipeShape
  <1>2. IsTable(math, CTAs, WarpGroups)
    BY <1>1, Zenon DEF IsTable
  <1>3. IsTable(math', CTAs, WarpGroups) /\ math'[b][w] = r
    BY <1>2, NestedUpdate
  <1>4. \A c \in CTAs, v \in WarpGroups : c # b \/ v # w => math'[c][v] = math[c][v]
    BY <1>2, NestedUpdate
  <1> QED BY <1>3, <1>4, Zenon DEF IsTable

\* A step of a math warp group that lets go of nothing.
LEMMA QuietMathKeeps ==
    ASSUME PipeInv, launch' = launch, full' = full, empty' = empty, producer' = producer,
           smem' = smem, copies' = copies, arrivals' = arrivals,
           NEW b \in CTAs, NEW w \in WarpGroups, NEW r, math' = Put(math, b, w, r),
           MathInv(b, w)',
           \A i \in Nat : Reads(w, i) => (i < LetGo(b, w)' <=> i < LetGo(b, w))
    PROVE  PipeInv'
  <1>1. /\ CTAs' = CTAs /\ Stages' = Stages /\ K' = K /\ \A c : Sharing(c)' = Sharing(c)
    BY SameLaunch
  <1>2. \A c : Loaded(c)' = Loaded(c)
    BY <1>1 DEF Loaded
  <1>3. /\ math' = [c \in CTAs |-> [v \in WarpGroups |-> math'[c][v]]]
        /\ \A c \in CTAs, v \in WarpGroups : c # b \/ v # w => math'[c][v] = math[c][v]
    BY MathUpdate
  <1>4. /\ \A c \in CTAs, t \in Stages : FullInv(c, t)' /\ FullAt(c, t)' = FullAt(c, t)
        /\ \A l \in copies : CopyInv(l)'
    BY <1>2, FillingKept
  <1>5. \A z \in Nat : z <= z
    OBVIOUS
  <1>6. \A c \in CTAs, t \in Stages : FullAt(c, t)' \in Nat /\ FullAt(c, t) <= FullAt(c, t)'
    BY <1>4, <1>5, Places
  <1>7. ASSUME NEW c \in CTAs, NEW v \in WarpGroups
        PROVE  /\ MathInv(c, v)'
               /\ \A i \in Nat : Reads(v, i) => (i < LetGo(c, v)' <=> i < LetGo(c, v))
    <2>1. CASE c = b /\ v = w
      BY <2>1
    <2>2. CASE c # b \/ v # w
      <3>1. math'[c][v] = math[c][v]
        BY <1>3, <2>2
      <3>2. MathInv(c, v)' /\ LetGo(c, v)' = LetGo(c, v)
        BY <1>6, <3>1, MathKept
      <3> QED BY <3>2
    <2> QED BY <2>1, <2>2
  <1>8. /\ \A c \in CTAs, t \in Stages : EmptyInv(c, t)' /\ EmptyAt(c, t)' = EmptyAt(c, t)
        /\ \A l \in arrivals : ArrivalInv(l)'
    BY <1>7, FreeingKept
  <1>9. \A c \in CTAs, t \in Stages : EmptyAt(c, t)' \in Nat /\ EmptyAt(c, t) <= EmptyAt(c, t)'
    BY <1>5, <1>8, Places
  <1>10. \A c \in CTAs : ProducerInv(c)'
    BY <1>9, ProducerKept
  <1>11. PipeShape'
    <2>1. PipeShape
      BY DEF PipeInv
    <2> QED BY <1>1, <1>3, <2>1 DEF PipeShape
  <1> QED BY <1>4, <1>7, <1>8, <1>10, <1>11, PipeInvOf

\* The wait for its turn: the pipeline is not touched.
LEMMA OrderWaitKeepsPipe ==
    ASSUME PipeInv, NEW b \in CTAs, NEW w \in WarpGroups, OrderWait(b, w)
    PROVE  PipeInv'
  <1>1. /\ launch' = launch /\ full' = full /\ empty' = empty /\ producer' = producer
        /\ smem' = smem /\ copies' = copies /\ arrivals' = arrivals
    BY Zenon DEF OrderWait
  <1>2. PICK tile \in Nat, k \in Nat, t \in Nat : \E pc, pipe, read, release, reading, ord :
             MathHas(b, w, tile, k, t, pc, pipe, read, release, reading, ord)
    BY MathIs
  <1>3. PICK pc, pipe, read, release, reading, ord :
             MathHas(b, w, tile, k, t, pc, pipe, read, release, reading, ord)
    BY <1>2
  <1>4. math[b][w] = MathOf(pc, tile, pipe, read, release, k, reading, ord)
    BY <1>3 DEF MathHas
  <1>5. PICK q : q = IF pc = "order_mma" THEN "mma" ELSE "store"
    OBVIOUS
  <1>6. pc \in {"order_mma", "order_store"}
    BY <1>4 DEF OrderWait, MathOf
  <1>7. math' = Put(math, b, w, MathOf(q, tile, pipe, read, release, k, reading, ord))
    <2>1. math' = [math EXCEPT ![b][w].pc = q]
      BY <1>4, <1>5 DEF OrderWait, MathOf
    <2>2. math = [c \in CTAs |-> [v \in WarpGroups |-> math[c][v]]]
      BY DEF PipeInv, PipeShape
    <2>3. PICK r : r = [math[b][w] EXCEPT !.pc = q]
      OBVIOUS
    <2>4. math' = [math EXCEPT ![b][w] = r]
      BY <2>1, <2>2, <2>3
    <2>5. r = MathOf(q, tile, pipe, read, release, k, reading, ord)
      BY <1>4, <2>3 DEF MathOf
    <2> QED BY <2>4, <2>5, Zenon DEF Put
  <1>8. math'[b][w] = MathOf(q, tile, pipe, read, release, k, reading, ord)
    BY <1>7, MathUpdate
  <1>9. Holding(q, k, t, reading)
    BY <1>3, <1>5, <1>6 DEF MathHas, Holding
  <1>10. (q = "exit" <=> launch.tiles <= tile) /\ ~(q \in {"order_mma", "order_store"})
    BY <1>3, <1>5, <1>6 DEF MathHas
  <1>11. IF q \in {"order_store", "store"}
         THEN pipe = At((tile + TilesPerTurn) * K, 0) /\ read = pipe /\ release = pipe
         ELSE /\ pipe = At(tile * K, 0) /\ read = At(t, 0)
              /\ q # "mma_tail" => release = At(t - Len(reading), 0)
    BY <1>3, <1>5, <1>6 DEF MathHas
  <1>12. MathInv(b, w)' /\ LetGo(b, w)' = LetGo(b, w)
    BY <1>1, <1>3, <1>8, <1>9, <1>10, <1>11, MathInvOf DEF MathHas
  <1> QED BY <1>1, <1>7, <1>12, QuietMathKeeps

\* Sequences of one and of two.
LEMMA AppendsTo ==
    ASSUME NEW f, NEW g, NEW s, s = <<f>>, NEW r, r = Append(s, g)
    PROVE  r = <<f, g>>
  <1>1. PICK S : S = {f, g}
    OBVIOUS
  <1>2. s \in Seq(S) /\ g \in S /\ Len(s) = 1 /\ s[1] = f
    BY <1>1
  <1>3. r \in Seq(S) /\ Len(r) = 2 /\ r[1] = f /\ r[2] = g
    BY <1>2
  <1>4. PICK q : q = <<f, g>>
    OBVIOUS
  <1>5. q \in Seq(S) /\ Len(q) = 2 /\ q[1] = f /\ q[2] = g
    BY <1>1, <1>4
  <1>6. r = q
    BY <1>3, <1>5
  <1> QED BY <1>4, <1>6

\* What is held is one or two.
LEMMA HoldsTwo ==
    ASSUME NEW t \in Nat, NEW s, s = <<Entry(t - 2), Entry(t - 1)>>
    PROVE  /\ Len(s) = 2 /\ s[1] = Entry(t - 2)
           /\ Tail(s) = <<Entry(t - 1)>> /\ Len(Tail(s)) = 1
  <1>1. PICK f, g : f = Entry(t - 2) /\ g = Entry(t - 1)
    OBVIOUS
  <1>2. s = <<f, g>>
    BY <1>1
  <1>3. Len(s) = 2 /\ s[1] = f /\ Tail(s) = <<g>> /\ Len(Tail(s)) = 1
    BY <1>2
  <1> QED BY <1>1, <1>3

LEMMA HoldsOne ==
    ASSUME NEW t \in Nat, NEW s, s = <<Entry(t - 1)>>
    PROVE  Len(s) = 1 /\ s[1] = Entry(t - 1)
  <1>1. PICK f : f = Entry(t - 1)
    OBVIOUS
  <1>2. s = <<f>>
    BY <1>1
  <1>3. Len(s) = 1 /\ s[1] = f
    BY <1>2
  <1> QED BY <1>1, <1>3

\* The end of the mainloop: the last k tile is still held.
LEMMA MmaEndsKeepsPipe ==
    ASSUME PipeInv, NEW b \in CTAs, NEW w \in WarpGroups, MmaEnds(b, w)
    PROVE  PipeInv'
  <1>1. /\ launch' = launch /\ full' = full /\ empty' = empty /\ producer' = producer
        /\ smem' = smem /\ copies' = copies /\ arrivals' = arrivals
    BY Zenon DEF MmaEnds
  <1>2. PICK tile \in Nat, k \in Nat, t \in Nat : \E pc, pipe, read, release, reading, ord :
             MathHas(b, w, tile, k, t, pc, pipe, read, release, reading, ord)
    BY MathIs
  <1>3. PICK pc, pipe, read, release, reading, ord :
             MathHas(b, w, tile, k, t, pc, pipe, read, release, reading, ord)
    BY <1>2
  <1>4. math[b][w] = MathOf(pc, tile, pipe, read, release, k, reading, ord)
    BY <1>3 DEF MathHas
  <1>5. PICK q : q = NextOrder(ord)
    OBVIOUS
  <1>6. pc = "mma" /\ k = K /\ Len(reading) = 1
    BY <1>4 DEF MmaEnds, MathOf
  <1>7. math' = Put(math, b, w, MathOf("mma_tail", tile, pipe, read, release, k, reading, q))
    <2>1. math' = [math EXCEPT ![b][w].pc = "mma_tail", ![b][w].order = NextOrder(@)]
      BY Zenon DEF MmaEnds
    <2>2. math = [c \in CTAs |-> [v \in WarpGroups |-> math[c][v]]]
      BY DEF PipeInv, PipeShape
    <2>3. PICK r : r = [math[b][w] EXCEPT !.pc = "mma_tail", !.order = NextOrder(@)]
      OBVIOUS
    <2>4. math' = [math EXCEPT ![b][w] = r]
      BY <2>1, <2>2, <2>3
    <2>5. math[b][w].order = ord
      BY <1>4 DEF MathOf
    <2>6. r = [math[b][w] EXCEPT !.pc = "mma_tail", !.order = q]
      BY <1>5, <2>3, <2>5
    <2>7. r = MathOf("mma_tail", tile, pipe, read, release, k, reading, q)
      <3>1. PICK g : g = [pc |-> pc, tile |-> tile, pipe |-> pipe, read |-> read,
                          release |-> release, k |-> k, reading |-> reading, order |-> ord]
        OBVIOUS
      <3>2. PICK p : p = "mma_tail"
        OBVIOUS
      <3>3. r = [g EXCEPT !.pc = p, !.order = q]
        BY <1>4, <2>6, <3>1, <3>2 DEF MathOf
      <3>4. r = [pc |-> p, tile |-> tile, pipe |-> pipe, read |-> read,
                 release |-> release, k |-> k, reading |-> reading, order |-> q]
        BY <3>1, <3>3
      <3> QED BY <3>2, <3>4 DEF MathOf
    <2> QED BY <2>4, <2>7, Zenon DEF Put
  <1>8. math'[b][w] = MathOf("mma_tail", tile, pipe, read, release, k, reading, q)
    BY <1>7, MathUpdate
  <1>9. Holding("mma_tail", k, t, reading)
    <2>1. Holding("mma", K, t, reading)
      BY <1>3, <1>6 DEF MathHas
    <2>2. reading # <<>> /\ reading # <<Entry(t - 2), Entry(t - 1)>>
      <3>1. reading # <<>>
        BY <1>6
      <3>2. reading # <<Entry(t - 2), Entry(t - 1)>>
        BY <1>6, HoldsTwo
      <3> QED BY <3>1, <3>2
    <2>3. reading = <<Entry(t - 1)>>
      BY <2>1, <2>2 DEF Holding
    <2> QED BY <1>6, <2>3 DEF Holding
  <1>10. "mma_tail" = "exit" <=> launch.tiles <= tile
    BY <1>3, <1>6 DEF MathHas
  <1>11. IF "mma_tail" \in {"order_store", "store"}
         THEN pipe = At((tile + TilesPerTurn) * K, 0) /\ read = pipe /\ release = pipe
         ELSE /\ pipe = At(tile * K, 0) /\ read = At(t, 0)
              /\ "mma_tail" # "mma_tail" => release = At(t - Len(reading), 0)
    BY <1>3, <1>6 DEF MathHas
  <1>12. MathInv(b, w)' /\ LetGo(b, w)' = LetGo(b, w)
    BY <1>1, <1>3, <1>8, <1>9, <1>10, <1>11, MathInvOf DEF MathHas
  <1> QED BY <1>1, <1>7, <1>12, QuietMathKeeps

\* The epilogue: the next tile of the group, past those of the other.
LEMMA StoreKeepsPipe ==
    ASSUME PipeInv, NEW b \in CTAs, NEW w \in WarpGroups, Store(b, w)
    PROVE  PipeInv'
  <1>1. /\ launch' = launch /\ full' = full /\ empty' = empty /\ producer' = producer
        /\ smem' = smem /\ copies' = copies /\ arrivals' = arrivals
    BY Zenon DEF Store
  <1>0. LaunchOK /\ K \in Nat \ {0} /\ TilesPerTurn \in {1, 2} /\ launch.tiles \in Nat
    BY LaunchIs DEF PipeInv
  <1>2. PICK tile \in Nat, k \in Nat, t \in Nat : \E pc, pipe, read, release, reading, ord :
             MathHas(b, w, tile, k, t, pc, pipe, read, release, reading, ord)
    BY MathIs
  <1>3. PICK pc, pipe, read, release, reading, ord :
             MathHas(b, w, tile, k, t, pc, pipe, read, release, reading, ord)
    BY <1>2
  <1>4. math[b][w] = MathOf(pc, tile, pipe, read, release, k, reading, ord)
    BY <1>3 DEF MathHas
  <1>5. PICK q, u : q = NextOrder(ord) /\ u = FirstPc(tile + TilesPerTurn)
    OBVIOUS
  <1>6. pc = "store" /\ k = K /\ reading = <<>>
    <2>1. pc = "store"
      BY <1>4 DEF Store, MathOf
    <2> QED BY <1>3, <2>1 DEF MathHas, Holding
  <1>7. PICK n \in Nat : n = tile + TilesPerTurn
    BY <1>0
  <1>8. math' = Put(math, b, w, MathOf(u, n, pipe, read, release, 0, reading, q))
    <2>1. PICK r : r = [math[b][w] EXCEPT !.tile = n, !.k = 0, !.order = q, !.pc = u]
      OBVIOUS
    <2>2. math' = [math EXCEPT ![b][w] = r]
      <3>1. math[b][w].tile = tile /\ math[b][w].order = ord
        BY <1>4 DEF MathOf
      <3> QED BY <1>5, <1>7, <2>1, <3>1 DEF Store
    <2>3. r = MathOf(u, n, pipe, read, release, 0, reading, q)
      <3>1. PICK g : g = [pc |-> pc, tile |-> tile, pipe |-> pipe, read |-> read,
                          release |-> release, k |-> k, reading |-> reading, order |-> ord]
        OBVIOUS
      <3>2. PICK z : z = 0
        OBVIOUS
      <3>3. r = [g EXCEPT !.tile = n, !.k = z, !.order = q, !.pc = u]
        BY <1>4, <2>1, <3>1, <3>2 DEF MathOf
      <3>4. r = [pc |-> u, tile |-> n, pipe |-> pipe, read |-> read,
                 release |-> release, k |-> z, reading |-> reading, order |-> q]
        BY <3>1, <3>3
      <3> QED BY <3>2, <3>4 DEF MathOf
    <2> QED BY <2>2, <2>3, Zenon DEF Put
  <1>9. math'[b][w] = MathOf(u, n, pipe, read, release, 0, reading, q)
    BY <1>8, MathUpdate
  <1>10. PICK a \in Nat : /\ a = n * K /\ a = n * K + 0
                          /\ t = tile * K + K /\ t <= a
                          /\ TilesPerTurn = 1 => a = t
                          /\ TilesPerTurn = 2 => a = t + K
    <2>1. PICK c \in Nat : c = tile * K
      BY <1>0, TimesTypes
    <2>2. (tile + 1) * K = c + K
      BY <1>0, <2>1, TimesTypes
    <2>3. ((tile + 1) + 1) * K = (c + K) + K
      BY <1>0, <2>2, TimesTypes
    <2>4. t = c + K
      BY <1>3, <1>6, <2>1 DEF MathHas
    <2>5. CASE TilesPerTurn = 1
      <3>1. n * K = c + K
        BY <1>7, <2>2, <2>5
      <3> QED BY <1>0, <2>1, <2>4, <2>5, <3>1
    <2>6. CASE TilesPerTurn = 2
      <3>1. n = (tile + 1) + 1
        BY <1>7, <2>6
      <3>2. n * K = (c + K) + K
        BY <2>3, <3>1
      <3> QED BY <1>0, <2>1, <2>4, <2>6, <3>2
    <2> QED BY <1>0, <2>5, <2>6
  <1>11. \A i \in Nat : Reads(w, i) => (i < a <=> i < t)
    <2> SUFFICES ASSUME NEW i \in Nat, Reads(w, i), i < a, ~(i < t) PROVE FALSE
      BY <1>10
    <2>1. Pingpong /\ TilesPerTurn = 2
      BY <1>0, <1>10 DEF TilesPerTurn
    <2>2. tile % 2 = w /\ (i \div K) % 2 = w
      BY <1>3, <2>1 DEF MathHas, Reads
    <2>3. PICK j \in Nat : j = i - t /\ j < K
      BY <1>0, <1>10, <2>1
    <2>4. i = (tile + 1) * K + j /\ j \in 0 .. K - 1
      <3>1. PICK c \in Nat : c = tile * K
        BY <1>0, TimesTypes
      <3>2. (tile + 1) * K = c + K
        BY <1>0, <3>1, TimesTypes
      <3> QED BY <1>0, <1>10, <2>3, <3>1, <3>2
    <2>5. i \div K = tile + 1
      <3>1. PICK p \in Nat : p = tile + 1
        OBVIOUS
      <3>2. i = p * K + j
        BY <2>4, <3>1
      <3>3. (p * K + j) \div K = p
        BY <1>0, <2>4, QuotientIs
      <3> QED BY <3>1, <3>2, <3>3
    <2> QED BY <2>2, <2>5
  <1>12. Holding(u, 0, a, reading)
    BY <1>5, <1>6 DEF Holding, FirstPc
  <1>13. /\ u = "exit" <=> launch.tiles <= n
         /\ u \in {"order_mma", "order_store"} => Pingpong
    BY <1>0, <1>5, <1>7 DEF FirstPc
  <1>14. Pingpong => n % 2 = w
    <2>1. Pingpong => tile % 2 = w /\ n = tile + 2
      BY <1>3, <1>7 DEF MathHas, TilesPerTurn
    <2> QED BY <2>1
  <1>15. Len(reading) = 0 /\ a - 0 = a /\ t - 0 = t
    BY <1>6
  <1>16. IF u \in {"order_store", "store"}
         THEN pipe = At((n + TilesPerTurn) * K, 0) /\ read = pipe /\ release = pipe
         ELSE /\ pipe = At(n * K, 0) /\ read = At(a, 0)
              /\ u # "mma_tail" => release = At(a - Len(reading), 0)
    <2>1. ~(u \in {"order_store", "store"})
      BY <1>5 DEF FirstPc
    <2>2. pipe = At(n * K, 0) /\ read = pipe /\ release = pipe
      BY <1>3, <1>6, <1>7 DEF MathHas
    <2> QED BY <1>10, <1>15, <2>1, <2>2
  <1>17. \A i \in Nat : i < a /\ Reads(w, i) => i < FullAt(b, i % Depth)
    BY <1>3, <1>11 DEF MathHas
  <1>18. MathInv(b, w)' /\ LetGo(b, w)' = a - Len(reading)
    BY <1>1, <1>9, <1>10, <1>12, <1>13, <1>14, <1>16, <1>17, MathInvOf
  <1>19. \A i \in Nat : Reads(w, i) => (i < LetGo(b, w)' <=> i < LetGo(b, w))
    <2>1. LetGo(b, w) = t - Len(reading)
      BY <1>3 DEF MathHas
    <2>2. LetGo(b, w)' = a /\ LetGo(b, w) = t
      BY <1>15, <1>18, <2>1
    <2> QED BY <1>11, <2>2
  <1> QED BY <1>1, <1>8, <1>18, <1>19, QuietMathKeeps

\* The next k tile has arrived: it is the one to read.
LEMMA MmaKeepsPipe ==
    ASSUME PipeInv, IInv, NEW b \in CTAs, NEW w \in WarpGroups, Mma(b, w)
    PROVE  PipeInv'
  <1>1. /\ launch' = launch /\ full' = full /\ empty' = empty /\ producer' = producer
        /\ smem' = smem /\ copies' = copies /\ arrivals' = arrivals
    BY Zenon DEF Mma
  <1>0. LaunchOK /\ K \in Nat \ {0} /\ Depth \in Nat \ {0} /\ Stages = 0 .. Depth - 1
    BY LaunchIs DEF PipeInv
  <1>2. PICK tile \in Nat, k \in Nat, t \in Nat : \E pc, pipe, read, release, reading, ord :
             MathHas(b, w, tile, k, t, pc, pipe, read, release, reading, ord)
    BY MathIs
  <1>3. PICK pc, pipe, read, release, reading, ord :
             MathHas(b, w, tile, k, t, pc, pipe, read, release, reading, ord)
    BY <1>2
  <1>4. math[b][w] = MathOf(pc, tile, pipe, read, release, k, reading, ord)
    BY <1>3 DEF MathHas
  <1>5. pc = "mma" /\ k < K /\ Len(reading) < 2 /\ wait(full[b][read.index], read.phase)
    BY <1>4 DEF Mma, MathOf
  <1>6. read = At(t, 0) /\ t = tile * K + k /\ t = Taken(b, w)
    BY <1>3, <1>5 DEF MathHas
  <1>7. PICK s \in Stages : s = t % Depth
    BY <1>0, Quotient
  <1>8. read.index = s
    BY <1>6, <1>7 DEF At, PipelineState
  <1>9. FullAt(b, s) = t + Depth
    <2>1. math[b][w].pc = "mma" /\ math[b][w].k < K
      BY <1>4, <1>5 DEF MathOf
    <2>2. wait(full[b][s], At(Taken(b, w), 0).phase)
      BY <1>5, <1>6, <1>8
    <2> QED BY <1>6, <1>7, <2>1, <2>2, ConsumerWaits
  <1>10. PICK e : e = Entry(t)
    OBVIOUS
  <1>a. PICK c \in Nat, u \in Nat : c = k + 1 /\ u = t + 1
    OBVIOUS
  <1>b. PICK n, rs : n = next(read) /\ rs = Append(reading, e)
    OBVIOUS
  <1>11. c = k + 1 /\ u = t + 1 /\ n = next(read) /\ rs = Append(reading, e)
    BY <1>a, <1>b
  <1>12. math' = Put(math, b, w, MathOf(pc, tile, pipe, n, release, c, rs, ord))
    <2>1. math' = [math EXCEPT ![b][w].k = @ + 1, ![b][w].read = next(@),
                      ![b][w].reading = Append(@, [stage |-> math[b][w].read.index,
                                                   k |-> math[b][w].tile * K + math[b][w].k])]
      BY Zenon DEF Mma
    <2>2. /\ math[b][w].k = k /\ math[b][w].read = read /\ math[b][w].reading = reading
          /\ math[b][w].tile = tile
      BY <1>4 DEF MathOf
    <2>3. [stage |-> math[b][w].read.index, k |-> math[b][w].tile * K + math[b][w].k] = e
      BY <1>6, <1>7, <1>8, <1>10, <2>2 DEF Entry
    <2>4. math = [d \in CTAs |-> [v \in WarpGroups |-> math[d][v]]]
      BY DEF PipeInv, PipeShape
    <2>5. PICK r : r = [math[b][w] EXCEPT !.k = @ + 1, !.read = next(@), !.reading = Append(@, e)]
      OBVIOUS
    <2>6. math' = [math EXCEPT ![b][w].k = @ + 1, ![b][w].read = next(@), ![b][w].reading = Append(@, e)]
      BY <2>1, <2>3
    <2>7. math' = [math EXCEPT ![b][w] = r]
      BY <2>4, <2>5, <2>6
    <2>8. r = [math[b][w] EXCEPT !.k = c, !.read = n, !.reading = rs]
      BY <1>11, <2>2, <2>5
    <2>9. r = MathOf(pc, tile, pipe, n, release, c, rs, ord)
      <3>1. PICK g : g = [pc |-> pc, tile |-> tile, pipe |-> pipe, read |-> read,
                          release |-> release, k |-> k, reading |-> reading, order |-> ord]
        OBVIOUS
      <3>2. r = [g EXCEPT !.k = c, !.read = n, !.reading = rs]
        BY <1>4, <2>8, <3>1 DEF MathOf
      <3>3. r = [pc |-> pc, tile |-> tile, pipe |-> pipe, read |-> n,
                 release |-> release, k |-> c, reading |-> rs, order |-> ord]
        BY <3>1, <3>2
      <3> QED BY <3>3 DEF MathOf
    <2> QED BY <2>7, <2>9, Zenon DEF Put
  <1>13. math'[b][w] = MathOf(pc, tile, pipe, n, release, c, rs, ord)
    BY <1>12, MathUpdate
  <1>14. /\ Holding(pc, c, u, rs)
         /\ Len(rs) = Len(reading) + 1 /\ Len(reading) \in Nat
    <2>1. \/ k = 0 /\ reading = <<>>
          \/ k \in 1 .. K /\ reading = <<Entry(t - 1)>>
      <3>1. reading # <<Entry(t - 2), Entry(t - 1)>>
        <4>1. reading = <<Entry(t - 2), Entry(t - 1)>> => Len(reading) = 2
          BY HoldsTwo
        <4>2. ~(2 < 2)
          OBVIOUS
        <4> QED BY <1>5, <4>1, <4>2
      <3>2. Holding("mma", k, t, reading)
        BY <1>3, <1>5 DEF MathHas
      <3> QED BY <3>1, <3>2 DEF Holding
    <2>2. u - 1 = t /\ c = k + 1 /\ c <= K
      BY <1>0, <1>5, <1>11
    <2>3. CASE k = 0 /\ reading = <<>>
      <3>1. rs = <<Entry(u - 1)>> /\ Len(rs) = 1 /\ Len(reading) = 0
        <4>1. rs = <<e>>
          BY <1>11, <2>3
        <4>2. Len(rs) = 1
          BY <4>1
        <4> QED BY <1>10, <2>2, <2>3, <4>1, <4>2
      <3>2. c \in 1 .. K
        BY <1>0, <2>2
      <3> QED BY <1>5, <3>1, <3>2 DEF Holding
    <2>4. CASE k \in 1 .. K /\ reading = <<Entry(t - 1)>>
      <3>1. u - 2 = t - 1
        BY <1>11
      <3>2. PICK f : f = Entry(t - 1)
        OBVIOUS
      <3>3. rs = <<f, e>> /\ Len(rs) = 2 /\ Len(reading) = 1
        <4>1. reading = <<f>>
          BY <2>4, <3>2
        <4>2. rs = <<f, e>>
          BY <1>11, <4>1, AppendsTo
        <4> QED BY <4>1, <4>2
      <3>4. rs = <<Entry(u - 2), Entry(u - 1)>>
        BY <1>10, <2>2, <3>1, <3>2, <3>3
      <3>5. c \in 2 .. K
        BY <1>0, <2>2, <2>4
      <3> QED BY <1>5, <3>3, <3>4, <3>5 DEF Holding
    <2> QED BY <2>1, <2>3, <2>4
  <1>15. n = At(u, 0)
    BY <1>0, <1>6, <1>11, Increment
  <1>16. u - Len(rs) = t - Len(reading)
    BY <1>11, <1>14
  <1>17. IF pc \in {"order_store", "store"}
         THEN pipe = At((tile + TilesPerTurn) * K, 0) /\ n = pipe /\ release = pipe
         ELSE /\ pipe = At(tile * K, 0) /\ n = At(u, 0)
              /\ pc # "mma_tail" => release = At(u - Len(rs), 0)
    BY <1>3, <1>5, <1>15, <1>16 DEF MathHas
  <1>18. ASSUME NEW i \in Nat, i < u, Reads(w, i) PROVE i < FullAt(b, i % Depth)
    <2>1. CASE i = t
      <3>1. t < t + Depth
        BY <1>0
      <3> QED BY <1>7, <1>9, <2>1, <3>1
    <2>2. CASE i < t
      BY <1>3, <1>18, <2>2 DEF MathHas
    <2> QED BY <1>11, <1>18, <2>1, <2>2
  <1>19. u = tile * K + c
    <2>1. PICK a \in Nat : a = tile * K
      BY <1>0, TimesTypes
    <2> QED BY <1>6, <1>11, <2>1
  <1>20. MathInv(b, w)' /\ LetGo(b, w)' = u - Len(rs)
    <2>1. /\ Pingpong => tile % 2 = w
          /\ pc = "exit" <=> launch.tiles <= tile
          /\ pc \in {"order_mma", "order_store"} => Pingpong
      BY <1>3 DEF MathHas
    <2>2. Holding(pc, c, u, rs) /\ \A i \in Nat : i < u /\ Reads(w, i) => i < FullAt(b, i % Depth)
      BY <1>14, <1>18
    <2> QED BY <1>1, <1>13, <1>17, <1>19, <2>1, <2>2, MathInvOf
  <1>21. LetGo(b, w)' = LetGo(b, w)
    BY <1>3, <1>16, <1>20 DEF MathHas
  <1> QED BY <1>1, <1>12, <1>20, <1>21, QuietMathKeeps

\* A math warp group lets go of a k tile: arrivals set out for the blocks it
\* shares, its own lands.
SetsOut(l, b, w, s, y) ==
    /\ l = [from |-> b, group |-> w, thread |-> l.thread, to |-> l.to, stage |-> s, k |-> y]
    /\ l.to \in Sharing(b) /\ l.to # b /\ l.to = dst_blockid(l.thread)
    /\ l.thread \in Signals(b, launch.cluster_m, launch.cluster_n)

\* consumer_release tells every block of the row and the column, its own at once.
LEMMA ReleaseArrives ==
    ASSUME PipeInv, NEW b \in CTAs, NEW w \in WarpGroups, NEW s \in Stages, NEW y \in Nat,
           consumer_release(b, w, s, y)
    PROVE  /\ empty' = Put(empty, b, s, arrive(empty[b][s]))
           /\ \A l \in arrivals : l \in arrivals'
           /\ \A l \in arrivals' : l \in arrivals \/ SetsOut(l, b, w, s, y)
           /\ \A d \in Sharing(b) \ {b} : OnItsWay(<<b, w>>, d, s)'
  <1> DEFINE threads == Signals(b, launch.cluster_m, launch.cluster_n)
             rec(u) == [from |-> b, group |-> w, thread |-> u, to |-> dst_blockid(u),
                        stage |-> s, k |-> y]
  <1>1. LaunchOK
    BY DEF PipeInv
  <1>2. arrivals' = arrivals \cup {rec(u) : u \in {u \in threads : dst_blockid(u) # b}}
    BY Zenon DEF consumer_release
  <1>3. empty' = Put(empty, b, s, arrive(empty[b][s]))
    <2>1. PICK u \in threads : dst_blockid(u) = b
      BY <1>1, SharingIs, OneThread
    <2>2. empty' = [empty EXCEPT ![b][s] = arrive(@)]
      BY <2>1, Zenon DEF consumer_release
    <2> QED BY <2>2, Zenon DEF Put
  <1>4. ASSUME NEW l \in arrivals', l \notin arrivals
        PROVE  SetsOut(l, b, w, s, y)
    <2>1. PICK u \in threads : dst_blockid(u) # b /\ l = rec(u)
      BY <1>2, <1>4
    <2>2. dst_blockid(u) \in Sharing(b)
      BY <1>1, OneThread
    <2> QED BY <2>1, <2>2 DEF SetsOut
  <1>5. ASSUME NEW d \in Sharing(b) \ {b} PROVE OnItsWay(<<b, w>>, d, s)'
    <2>1. PICK u \in threads : dst_blockid(u) = d
      BY <1>1, OneThread
    <2>2. rec(u) \in arrivals'
      BY <1>2, <2>1
    <2>3. PICK l \in arrivals' : l.from = b /\ l.group = w /\ l.to = d /\ l.stage = s
      BY <2>1, <2>2
    <2> QED BY <2>3 DEF OnItsWay
  <1>6. \A l \in arrivals : l \in arrivals'
    BY <1>2
  <1> QED BY <1>3, <1>4, <1>5, <1>6

\* The arrival at the block's own barrier.
LEMMA OwnArrival ==
    ASSUME PipeInv, launch' = launch, NEW d \in CTAs, NEW s \in Stages, NEW x \in Nat,
           x = EmptyAt(d, s), empty'[d][s] = arrive(empty[d][s]),
           NEW v \in WarpGroups, Reads(v, x), <<d, v>> \notin Freed(d, s),
           x < LetGo(d, v)', ~OnItsWay(<<d, v>>, d, s)',
           \A f \in Sharing(d), w \in WarpGroups :
              /\ <<f, w>> # <<d, v>> => /\ OnItsWay(<<f, w>>, d, s)' <=> OnItsWay(<<f, w>>, d, s)
                                        /\ x < LetGo(f, w)' <=> x < LetGo(f, w)
              /\ \A i \in Nat : /\ Reads(w, i) /\ i < LetGo(f, w) => i < LetGo(f, w)'
                                /\ Reads(w, i) /\ i < LetGo(f, w)' => i < LetGo(f, w) \/ i = x
    PROVE  /\ EmptyInv(d, s)'
           /\ EmptyAt(d, s)' \in Nat /\ x <= EmptyAt(d, s)'
           /\ \A f \in Sharing(d), w \in WarpGroups :
                Reads(w, x) /\ OnItsWay(<<f, w>>, d, s)' => EmptyAt(d, s)' = x
  <1>1. d \in Sharing(d)
    BY SharingIs DEF PipeInv
  <1>2. launch' = launch /\ x = EmptyAt(d, s) /\ empty'[d][s] = arrive(empty[d][s])
    OBVIOUS
  <1>3. /\ Reads(v, x) /\ <<d, v>> \notin Freed(d, s)
        /\ x < LetGo(d, v)' /\ ~OnItsWay(<<d, v>>, d, s)'
    OBVIOUS
  <1>4. \A f \in Sharing(d), w \in WarpGroups :
           /\ <<f, w>> # <<d, v>> => /\ OnItsWay(<<f, w>>, d, s)' <=> OnItsWay(<<f, w>>, d, s)
                                     /\ x < LetGo(f, w)' <=> x < LetGo(f, w)
           /\ \A i \in Nat : /\ Reads(w, i) /\ i < LetGo(f, w) => i < LetGo(f, w)'
                             /\ Reads(w, i) /\ i < LetGo(f, w)' => i < LetGo(f, w) \/ i = x
    OBVIOUS
  <1> QED BY <1>1, <1>2, <1>3, <1>4, Counted

\* consumer_release of the oldest k tile that is held.
LEMMA ReleaseKeeps ==
    ASSUME PipeInv, launch' = launch, full' = full, producer' = producer,
           smem' = smem, copies' = copies,
           NEW b \in CTAs, NEW w \in WarpGroups, NEW r, math' = Put(math, b, w, r),
           MathInv(b, w)',
           NEW y \in Nat, NEW s \in Stages, y = LetGo(b, w), y < Taken(b, w), s = y % Depth,
           LetGo(b, w)' = y + 1, consumer_release(b, w, s, y)
    PROVE  PipeInv'
  <1>0. LaunchOK /\ Depth \in Nat \ {0}
    BY LaunchIs DEF PipeInv
  <1>1. /\ CTAs' = CTAs /\ Stages' = Stages /\ K' = K /\ Depth' = Depth
        /\ (\A c : Sharing(c)' = Sharing(c)) /\ (\A v, i : Reads(v, i)' <=> Reads(v, i))
    BY SameLaunch
  <1>2. \A c : Loaded(c)' = Loaded(c)
    BY <1>1 DEF Loaded
  <1>3. /\ math' = [c \in CTAs |-> [v \in WarpGroups |-> math'[c][v]]]
        /\ \A c \in CTAs, v \in WarpGroups : c # b \/ v # w => math'[c][v] = math[c][v]
    BY MathUpdate
  <1>4. /\ \A c \in CTAs, t \in Stages : FullInv(c, t)' /\ FullAt(c, t)' = FullAt(c, t)
        /\ \A l \in copies : CopyInv(l)'
    BY <1>2, FillingKept
  <1>5. \A z \in Nat : z <= z
    OBVIOUS
  <1>6. \A c \in CTAs, t \in Stages : FullAt(c, t)' \in Nat /\ FullAt(c, t) <= FullAt(c, t)'
    BY <1>4, <1>5, Places
  <1>7. ASSUME NEW c \in CTAs, NEW v \in WarpGroups, c # b \/ v # w
        PROVE  MathInv(c, v)' /\ LetGo(c, v)' = LetGo(c, v)
    <2>1. math'[c][v] = math[c][v]
      BY <1>3, <1>7
    <2> QED BY <1>6, <2>1, MathKept
  <1>8. ASSUME NEW c \in CTAs, NEW v \in WarpGroups PROVE MathInv(c, v)'
    BY <1>7
  <1>9. Reads(w, y) /\ \A d \in Sharing(b) : EmptyAt(d, s) = y
    <2>1. y <= y
      OBVIOUS
    <2>2. Reads(w, y)
      BY <2>1, HeldReads
    <2> QED BY <2>1, <2>2, HeldStage
  <1>10. b \in Sharing(b) /\ \A c \in CTAs : \A d \in Sharing(c) : d \in CTAs /\ c \in Sharing(d)
    BY <1>0, SharingIs
  <1>11. /\ empty' = Put(empty, b, s, arrive(empty[b][s]))
         /\ \A l \in arrivals : l \in arrivals'
         /\ \A d \in Sharing(b) \ {b} : OnItsWay(<<b, w>>, d, s)'
    BY ReleaseArrives
  <1>12. ASSUME NEW l \in arrivals', l \notin arrivals
         PROVE  /\ l = [from |-> b, group |-> w, thread |-> l.thread, to |-> l.to,
                        stage |-> s, k |-> y]
                /\ l.to \in Sharing(b) /\ l.to # b /\ l.to = dst_blockid(l.thread)
                /\ l.thread \in Signals(b, launch.cluster_m, launch.cluster_n)
    <2>1. SetsOut(l, b, w, s, y)
      BY <1>12, ReleaseArrives
    <2> QED BY <2>1 DEF SetsOut
  <1>13. /\ IsTable(empty', CTAs, Stages)
         /\ empty'[b][s] = arrive(empty[b][s])
         /\ \A c \in CTAs, t \in Stages : c # b \/ t # s => empty'[c][t] = empty[c][t]
    <2>1. empty = [c \in CTAs |-> [t \in Stages |-> empty[c][t]]]
      BY DEF PipeInv, PipeShape
    <2>2. IsTable(empty, CTAs, Stages)
      BY <2>1, Zenon DEF IsTable
    <2>3. PICK z : z = arrive(empty[b][s])
      OBVIOUS
    <2>4. /\ IsTable(Put(empty, b, s, z), CTAs, Stages)
          /\ Put(empty, b, s, z)[b][s] = z
      BY <2>2, NestedUpdate
    <2>5. \A c \in CTAs, t \in Stages : c # b \/ t # s => Put(empty, b, s, z)[c][t] = empty[c][t]
      BY <2>2, NestedUpdate
    <2> QED BY <1>11, <2>3, <2>4, <2>5
  <1>14. ASSUME NEW f \in CTAs, NEW v \in WarpGroups, NEW c, NEW t,
                <<f, v>> # <<b, w>> \/ t # s \/ c = b
         PROVE  OnItsWay(<<f, v>>, c, t)' <=> OnItsWay(<<f, v>>, c, t)
    <2>1. ASSUME NEW l \in arrivals', l \notin arrivals
          PROVE  ~(l.from = f /\ l.group = v /\ l.to = c /\ l.stage = t)
      <3>1. l.from = b /\ l.group = w /\ l.stage = s /\ l.to # b
        BY <1>12, <2>1
      <3> QED BY <1>14, <3>1
    <2> QED BY <1>11, <2>1 DEF OnItsWay
  <1>15. ~OnItsWay(<<b, w>>, b, s)
    <2> SUFFICES ASSUME NEW l \in arrivals, l.from = b, l.to = b PROVE FALSE
      BY DEF OnItsWay
    <2> QED BY ArrivalIs
  <1>16. ASSUME NEW f \in CTAs, NEW v \in WarpGroups, NEW i \in Nat
         PROVE  /\ i < LetGo(f, v) => i < LetGo(f, v)'
                /\ i < LetGo(f, v)' => i < LetGo(f, v) \/ (i = y /\ f = b /\ v = w)
    <2>1. CASE f = b /\ v = w
      <3>1. LetGo(f, v)' = y + 1 /\ LetGo(f, v) = y
        BY <2>1
      <3>2. (i < y => i < y + 1) /\ (i < y + 1 => i < y \/ i = y)
        OBVIOUS
      <3> QED BY <2>1, <3>1, <3>2
    <2>2. CASE f # b \/ v # w
      BY <1>7, <2>2
    <2> QED BY <2>1, <2>2
  <1>17. /\ EmptyInv(b, s)'
         /\ EmptyAt(b, s)' \in Nat /\ y <= EmptyAt(b, s)'
         /\ \A f \in Sharing(b), v \in WarpGroups :
              Reads(v, y) /\ OnItsWay(<<f, v>>, b, s)' => EmptyAt(b, s)' = y
    <2>1. ~(y < y) /\ y < y + 1
      OBVIOUS
    <2>2. <<b, w>> \notin Freed(b, s)
      <3>1. EmptyAt(b, s) = y
        BY <1>9, <1>10
      <3> QED BY <2>1, <3>1 DEF Freed
    <2>3. y < LetGo(b, w)' /\ ~OnItsWay(<<b, w>>, b, s)'
      BY <1>14, <1>15, <2>1
    <2>4. ASSUME NEW f \in Sharing(b), NEW v \in WarpGroups
          PROVE  /\ <<f, v>> # <<b, w>> => /\ OnItsWay(<<f, v>>, b, s)' <=> OnItsWay(<<f, v>>, b, s)
                                           /\ y < LetGo(f, v)' <=> y < LetGo(f, v)
                 /\ \A i \in Nat : /\ Reads(v, i) /\ i < LetGo(f, v) => i < LetGo(f, v)'
                                   /\ Reads(v, i) /\ i < LetGo(f, v)' => i < LetGo(f, v) \/ i = y
      <3>1. f \in CTAs
        BY <1>10
      <3>2. OnItsWay(<<f, v>>, b, s)' <=> OnItsWay(<<f, v>>, b, s)
        BY <1>14, <3>1
      <3>3. <<f, v>> # <<b, w>> => (y < LetGo(f, v)' <=> y < LetGo(f, v))
        BY <1>7, <3>1
      <3> QED BY <1>16, <3>1, <3>2, <3>3
    <2>5. y = EmptyAt(b, s)
      BY <1>9, <1>10
    <2>6. \A f \in Sharing(b), v \in WarpGroups :
              /\ <<f, v>> # <<b, w>> => /\ OnItsWay(<<f, v>>, b, s)' <=> OnItsWay(<<f, v>>, b, s)
                                        /\ y < LetGo(f, v)' <=> y < LetGo(f, v)
              /\ \A i \in Nat : /\ Reads(v, i) /\ i < LetGo(f, v) => i < LetGo(f, v)'
                                /\ Reads(v, i) /\ i < LetGo(f, v)' => i < LetGo(f, v) \/ i = y
      BY <2>4
    <2>7. Reads(w, y) /\ b \in Sharing(b) /\ empty'[b][s] = arrive(empty[b][s])
      BY <1>9, <1>10, <1>13
    <2> QED BY <2>2, <2>3, <2>5, <2>6, <2>7, OwnArrival
  <1>18. ASSUME NEW c \in CTAs, NEW t \in Stages, c # b \/ t # s
         PROVE  /\ EmptyInv(c, t)' /\ EmptyAt(c, t)' = EmptyAt(c, t)
                /\ EmptyAt(c, t)' \in Nat /\ EmptyAt(c, t) <= EmptyAt(c, t)'
    <2>1. empty'[c][t] = empty[c][t]
      BY <1>13, <1>18
    <2>2. PICK x \in Nat : x = EmptyAt(c, t) /\ x % Depth = t
      BY Places
    <2>3. ASSUME NEW f \in Sharing(c), NEW v \in WarpGroups
          PROVE  OnItsWay(<<f, v>>, c, t)' <=>
                   \/ OnItsWay(<<f, v>>, c, t)
                   \/ LetGo(f, v) = x /\ x < LetGo(f, v)' /\ Reads(v, x)
      <3>1. f \in CTAs /\ LetGo(f, v) \in Nat
        BY <1>10, Places
      <3>2. CASE <<f, v>> # <<b, w>>
        <4>1. OnItsWay(<<f, v>>, c, t)' <=> OnItsWay(<<f, v>>, c, t)
          BY <1>14, <3>1, <3>2
        <4>2. LetGo(f, v)' = LetGo(f, v)
          BY <1>7, <3>1, <3>2
        <4> QED BY <3>1, <4>1, <4>2
      <3>3. CASE f = b /\ v = w /\ t # s
        <4>1. OnItsWay(<<f, v>>, c, t)' <=> OnItsWay(<<f, v>>, c, t)
          BY <1>14, <3>1, <3>3
        <4>2. LetGo(f, v) # x
          BY <2>2, <3>3
        <4> QED BY <4>1, <4>2
      <3>4. CASE f = b /\ v = w /\ t = s
        <4>1. c \in Sharing(b) \ {b}
          BY <1>10, <1>18, <3>4
        <4>2. OnItsWay(<<b, w>>, c, s)'
          BY <1>11, <4>1
        <4>3. x = y /\ y < y + 1
          BY <1>9, <2>2, <3>4, <4>1
        <4> QED BY <1>9, <3>4, <4>2, <4>3
      <3> QED BY <3>2, <3>3, <3>4
    <2>4. ASSUME NEW f \in Sharing(c), NEW v \in WarpGroups, NEW i \in Nat
          PROVE  /\ Reads(v, i) /\ i < LetGo(f, v) => i < LetGo(f, v)'
                 /\ Reads(v, i) /\ i < LetGo(f, v)' =>
                      \/ i < LetGo(f, v)
                      \/ i # EmptyAt(c, t)
                      \/ LetGo(f, v) = i
      <3>1. f \in CTAs
        BY <1>10
      <3> QED BY <1>16, <3>1
    <2>5. EmptyInv(c, t)'
      <3>1. \A f \in Sharing(c), v \in WarpGroups :
              /\ OnItsWay(<<f, v>>, c, t)' <=>
                   \/ OnItsWay(<<f, v>>, c, t)
                   \/ LetGo(f, v) = EmptyAt(c, t) /\ EmptyAt(c, t) < LetGo(f, v)'
                      /\ Reads(v, EmptyAt(c, t))
              /\ \A i \in Nat : /\ Reads(v, i) /\ i < LetGo(f, v) => i < LetGo(f, v)'
                                /\ Reads(v, i) /\ i < LetGo(f, v)' =>
                                     \/ i < LetGo(f, v)
                                     \/ i # EmptyAt(c, t)
                                     \/ LetGo(f, v) = i
        BY <2>2, <2>3, <2>4
      <3> QED BY <2>1, <3>1, EmptyKept
    <2> QED BY <2>1, <2>5, OthersKept
  <1>19. ASSUME NEW c \in CTAs, NEW t \in Stages
         PROVE  /\ EmptyInv(c, t)'
                /\ EmptyAt(c, t)' \in Nat /\ EmptyAt(c, t) <= EmptyAt(c, t)'
    <2>1. CASE c = b /\ t = s
      <3>1. EmptyAt(b, s) = y
        BY <1>9, <1>10
      <3> QED BY <1>17, <2>1, <3>1
    <2>2. CASE c # b \/ t # s
      BY <1>18, <2>2
    <2> QED BY <2>1, <2>2
  <1>20. \A c \in CTAs : ProducerInv(c)'
    BY <1>19, ProducerKept
  <1>21. ASSUME NEW l \in arrivals' PROVE ArrivalInv(l)'
    <2>1. CASE l \in arrivals
      <3>1. PICK f \in CTAs, c \in CTAs, v \in WarpGroups, t \in Stages :
               /\ f = l.from /\ c = l.to /\ v = l.group /\ t = l.stage /\ f \in Sharing(c)
               /\ l.k = EmptyAt(c, t) /\ l.k \in Nat /\ Reads(v, l.k) /\ l.k < LetGo(f, v)
        BY <2>1, ArrivalIs
      <3>2. EmptyAt(c, t)' = EmptyAt(c, t)
        <4>1. CASE c = b /\ t = s
          <5>1. OnItsWay(<<f, v>>, b, s)'
            BY <1>11, <2>1, <3>1, <4>1 DEF OnItsWay
          <5>2. EmptyAt(b, s) = y
            BY <1>9, <1>10
          <5> QED BY <1>17, <3>1, <4>1, <5>1, <5>2
        <4>2. CASE c # b \/ t # s
          BY <1>18, <4>2
        <4> QED BY <4>1, <4>2
      <3>3. l.k < LetGo(f, v)'
        BY <1>16, <3>1
      <3>4. EmptyAt(l.to, l.stage)' = EmptyAt(l.to, l.stage) /\ l.k < LetGo(l.from, l.group)'
        BY <3>1, <3>2, <3>3
      <3> QED BY <2>1, <3>4, ArrivalKept
    <2>2. CASE l \notin arrivals
      <3>1. PICK c \in CTAs, u \in Signals(b, launch.cluster_m, launch.cluster_n) :
               /\ c = l.to /\ u = l.thread
               /\ l = [from |-> b, group |-> w, thread |-> u, to |-> c, stage |-> s, k |-> y]
               /\ c \in Sharing(b) /\ c # b /\ c = dst_blockid(u)
        BY <1>10, <1>12, <2>2
      <3>2. EmptyAt(c, s)' = y
        BY <1>9, <1>18, <3>1
      <3>3. y < LetGo(b, w)'
        OBVIOUS
      <3>4. l.from = b /\ l.group = w /\ l.thread = u /\ l.to = c /\ l.stage = s /\ l.k = y
        BY <3>1
      <3>5. EmptyAt(l.to, l.stage)' = y /\ l.k < LetGo(l.from, l.group)'
        BY <3>2, <3>3, <3>4
      <3> QED BY <1>1, <1>9, <3>1, <3>4, <3>5 DEF ArrivalInv
    <2> QED BY <2>1, <2>2
  <1>22. PipeShape'
    <2>1. PipeShape
      BY DEF PipeInv
    <2>2. empty' = [c \in CTAs |-> [t \in Stages |-> empty'[c][t]]]
      BY <1>13, Zenon DEF IsTable
    <2> QED BY <1>1, <1>3, <2>1, <2>2 DEF PipeShape
  <1> QED BY <1>4, <1>8, <1>19, <1>20, <1>21, <1>22, PipeInvOf

\* With two k tiles held the older is let go.
LEMMA MmaReleaseKeepsPipe ==
    ASSUME PipeInv, NEW b \in CTAs, NEW w \in WarpGroups, MmaRelease(b, w)
    PROVE  PipeInv'
  <1>1. /\ launch' = launch /\ full' = full /\ producer' = producer
        /\ smem' = smem /\ copies' = copies
    BY Zenon DEF MmaRelease
  <1>0. LaunchOK /\ K \in Nat \ {0} /\ Depth \in Nat \ {0} /\ Stages = 0 .. Depth - 1
    BY LaunchIs DEF PipeInv
  <1>2. PICK tile \in Nat, k \in Nat, t \in Nat : \E pc, pipe, read, release, reading, ord :
             MathHas(b, w, tile, k, t, pc, pipe, read, release, reading, ord)
    BY MathIs
  <1>3. PICK pc, pipe, read, release, reading, ord :
             MathHas(b, w, tile, k, t, pc, pipe, read, release, reading, ord)
    BY <1>2
  <1>4. math[b][w] = MathOf(pc, tile, pipe, read, release, k, reading, ord)
    BY <1>3 DEF MathHas
  <1>5. /\ pc = "mma" /\ Len(reading) = 2
        /\ consumer_release(b, w, release.index, reading[1].k)
    BY <1>4 DEF MmaRelease, MathOf
  <1>6. k \in 2 .. K /\ reading = <<Entry(t - 2), Entry(t - 1)>>
    <2>1. Holding("mma", k, t, reading)
      BY <1>3, <1>5 DEF MathHas
    <2>2. reading # <<>>
      BY <1>5
    <2>3. reading # <<Entry(t - 1)>>
      BY <1>5, HoldsOne
    <2> QED BY <2>1, <2>2, <2>3 DEF Holding
  <1>7. PICK y \in Nat : y = t - 2 /\ t = y + 2
    <2>1. PICK a \in Nat : a = tile * K
      BY <1>0, TimesTypes
    <2>2. t = a + k
      BY <1>3, <2>1 DEF MathHas
    <2> QED BY <1>0, <1>6, <2>2
  <1>8. PICK rs : rs = Tail(reading)
    OBVIOUS
  <1>9. reading[1] = Entry(y) /\ rs = <<Entry(t - 1)>> /\ Len(rs) = 1
    BY <1>6, <1>7, <1>8, HoldsTwo
  <1>10. release = At(y, 0)
    BY <1>3, <1>5, <1>7 DEF MathHas
  <1>11. PICK s \in Stages : s = y % Depth
    BY <1>0, Quotient
  <1>12. consumer_release(b, w, s, y)
    BY <1>5, <1>9, <1>10, <1>11 DEF At, PipelineState, Entry
  <1>13. PICK n : n = next(release)
    OBVIOUS
  <1>14. math' = Put(math, b, w, MathOf(pc, tile, pipe, read, n, k, rs, ord))
    <2>1. math' = [math EXCEPT ![b][w].release = next(@), ![b][w].reading = Tail(@)]
      BY Zenon DEF MmaRelease
    <2>2. math[b][w].release = release /\ math[b][w].reading = reading
      BY <1>4 DEF MathOf
    <2>3. math = [c \in CTAs |-> [v \in WarpGroups |-> math[c][v]]]
      BY DEF PipeInv, PipeShape
    <2>4. PICK r : r = [math[b][w] EXCEPT !.release = next(@), !.reading = Tail(@)]
      OBVIOUS
    <2>5. math' = [math EXCEPT ![b][w] = r]
      BY <2>1, <2>3, <2>4
    <2>6. r = [math[b][w] EXCEPT !.release = n, !.reading = rs]
      BY <1>8, <1>13, <2>2, <2>4
    <2>7. r = MathOf(pc, tile, pipe, read, n, k, rs, ord)
      <3>1. PICK g : g = [pc |-> pc, tile |-> tile, pipe |-> pipe, read |-> read,
                          release |-> release, k |-> k, reading |-> reading, order |-> ord]
        OBVIOUS
      <3>2. r = [g EXCEPT !.release = n, !.reading = rs]
        BY <1>4, <2>6, <3>1 DEF MathOf
      <3>3. r = [pc |-> pc, tile |-> tile, pipe |-> pipe, read |-> read,
                 release |-> n, k |-> k, reading |-> rs, order |-> ord]
        BY <3>1, <3>2
      <3> QED BY <3>3 DEF MathOf
    <2> QED BY <2>5, <2>7, Zenon DEF Put
  <1>15. math'[b][w] = MathOf(pc, tile, pipe, read, n, k, rs, ord)
    BY <1>14, MathUpdate
  <1>16. n = At(y + 1, 0) /\ t - Len(rs) = y + 1 /\ LetGo(b, w) = y /\ Taken(b, w) = t
    <2>1. n = At(y + 1, 0)
      BY <1>0, <1>10, <1>13, Increment
    <2>2. LetGo(b, w) = t - Len(reading) /\ Taken(b, w) = t
      BY <1>3 DEF MathHas
    <2> QED BY <1>5, <1>7, <1>9, <2>1, <2>2
  <1>17. Holding(pc, k, t, rs)
    <2>1. k \in 1 .. K
      BY <1>0, <1>6
    <2> QED BY <1>5, <1>9, <2>1 DEF Holding
  <1>18. IF pc \in {"order_store", "store"}
         THEN pipe = At((tile + TilesPerTurn) * K, 0) /\ read = pipe /\ n = pipe
         ELSE /\ pipe = At(tile * K, 0) /\ read = At(t, 0)
              /\ pc # "mma_tail" => n = At(t - Len(rs), 0)
    BY <1>3, <1>5, <1>16 DEF MathHas
  <1>19. MathInv(b, w)' /\ LetGo(b, w)' = t - Len(rs)
    BY <1>1, <1>3, <1>15, <1>17, <1>18, MathInvOf DEF MathHas
  <1>20. y < t /\ LetGo(b, w)' = y + 1
    BY <1>7, <1>16, <1>19
  <1> QED BY <1>1, <1>11, <1>12, <1>14, <1>16, <1>19, <1>20, ReleaseKeeps

\* mma_tail: the last k tile is let go, the state moves to the next tile of the group.
LEMMA MmaTailKeepsPipe ==
    ASSUME PipeInv, NEW b \in CTAs, NEW w \in WarpGroups, MmaTail(b, w)
    PROVE  PipeInv'
  <1>1. /\ launch' = launch /\ full' = full /\ producer' = producer
        /\ smem' = smem /\ copies' = copies
    BY Zenon DEF MmaTail
  <1>0. /\ LaunchOK /\ K \in Nat \ {0} /\ Depth \in Nat \ {0} /\ Stages = 0 .. Depth - 1
        /\ TilesPerTurn \in {1, 2}
    BY LaunchIs DEF PipeInv
  <1>2. PICK tile \in Nat, k \in Nat, t \in Nat : \E pc, pipe, read, release, reading, ord :
             MathHas(b, w, tile, k, t, pc, pipe, read, release, reading, ord)
    BY MathIs
  <1>3. PICK pc, pipe, read, release, reading, ord :
             MathHas(b, w, tile, k, t, pc, pipe, read, release, reading, ord)
    BY <1>2
  <1>4. math[b][w] = MathOf(pc, tile, pipe, read, release, k, reading, ord)
    BY <1>3 DEF MathHas
  <1>5. /\ pc = "mma_tail"
        /\ consumer_release(b, w, after(pipe, K - 1).index, reading[1].k)
    BY <1>4 DEF MmaTail, MathOf
  <1>6. k = K /\ reading = <<Entry(t - 1)>> /\ Len(reading) = 1 /\ reading[1] = Entry(t - 1)
    <2>1. Holding("mma_tail", k, t, reading)
      BY <1>3, <1>5 DEF MathHas
    <2>2. k = K /\ reading = <<Entry(t - 1)>>
      BY <2>1 DEF Holding
    <2> QED BY <2>2, HoldsOne
  <1>7. PICK a \in Nat : a = tile * K /\ t = a + K
    <2>1. tile * K \in Nat
      BY <1>0, TimesTypes
    <2> QED BY <1>3, <1>6, <2>1 DEF MathHas
  <1>8. PICK y \in Nat : y = t - 1 /\ t = y + 1 /\ y = a + (K - 1)
    BY <1>0, <1>7
  <1>9. pipe = At(a, 0)
    BY <1>3, <1>5, <1>7 DEF MathHas
  <1>10. PICK s \in Stages : s = y % Depth
    BY <1>0, Quotient
  <1>11. consumer_release(b, w, s, y)
    <2>1. PICK m \in Nat : m = K - 1
      BY <1>0
    <2>2. after(At(a, 0), m) = At(a + m, 0)
      BY <1>0, Advance
    <2>3. after(pipe, K - 1) = At(y, 0)
      BY <1>8, <1>9, <2>1, <2>2
    <2> QED BY <1>5, <1>6, <1>8, <1>10, <2>3 DEF At, PipelineState, Entry
  <1>12. PICK q : q = IF Pingpong THEN "order_store" ELSE "store"
    OBVIOUS
  <1>13. PICK n : n = after(pipe, K * TilesPerTurn)
    OBVIOUS
  <1>14. PICK rs : rs = <<>> /\ Len(rs) = 0
    OBVIOUS
  <1>15. math' = Put(math, b, w, MathOf(q, tile, n, n, n, k, rs, ord))
    <2>1. PICK r : r = [math[b][w] EXCEPT !.pc = q, !.reading = rs, !.pipe = n,
                                          !.read = n, !.release = n]
      OBVIOUS
    <2>2. math' = [math EXCEPT ![b][w] = r]
      <3>1. math[b][w].pipe = pipe
        BY <1>4 DEF MathOf
      <3> QED BY <1>12, <1>13, <1>14, <2>1, <3>1 DEF MmaTail
    <2>3. r = MathOf(q, tile, n, n, n, k, rs, ord)
      <3>1. PICK g : g = [pc |-> pc, tile |-> tile, pipe |-> pipe, read |-> read,
                          release |-> release, k |-> k, reading |-> reading, order |-> ord]
        OBVIOUS
      <3>2. r = [g EXCEPT !.pc = q, !.reading = rs, !.pipe = n, !.read = n, !.release = n]
        BY <1>4, <2>1, <3>1 DEF MathOf
      <3>3. r = [pc |-> q, tile |-> tile, pipe |-> n, read |-> n,
                 release |-> n, k |-> k, reading |-> rs, order |-> ord]
        BY <3>1, <3>2
      <3> QED BY <3>3 DEF MathOf
    <2> QED BY <2>2, <2>3, Zenon DEF Put
  <1>16. math'[b][w] = MathOf(q, tile, n, n, n, k, rs, ord)
    BY <1>15, MathUpdate
  <1>17. n = At((tile + TilesPerTurn) * K, 0)
    <2>1. PICK m \in Nat : m = K * TilesPerTurn /\ (tile + TilesPerTurn) * K = a + m
      <3>1. (tile + 1) * K = a + K
        BY <1>0, <1>7, TimesTypes
      <3>2. ((tile + 1) + 1) * K = (a + K) + K
        BY <1>0, <3>1, TimesTypes
      <3>3. CASE TilesPerTurn = 1
        <4>1. K * TilesPerTurn = K /\ K \in Nat
          BY <1>0, <3>3
        <4> QED BY <3>1, <3>3, <4>1
      <3>4. CASE TilesPerTurn = 2
        <4>1. K * TilesPerTurn = K + K /\ K + K \in Nat
          BY <1>0, <3>4
        <4>2. tile + TilesPerTurn = (tile + 1) + 1
          BY <3>4
        <4>3. (tile + TilesPerTurn) * K = a + (K + K)
          BY <1>0, <3>2, <4>2
        <4> QED BY <4>1, <4>3
      <3> QED BY <1>0, <3>3, <3>4
    <2>2. after(At(a, 0), m) = At(a + m, 0)
      BY <1>0, Advance
    <2> QED BY <1>9, <1>13, <2>1, <2>2
  <1>18. Holding(q, k, t, rs)
    BY <1>6, <1>12, <1>14 DEF Holding
  <1>19. IF q \in {"order_store", "store"}
         THEN n = At((tile + TilesPerTurn) * K, 0) /\ n = n /\ n = n
         ELSE /\ n = At(tile * K, 0) /\ n = At(t, 0)
              /\ q # "mma_tail" => n = At(t - Len(rs), 0)
    BY <1>12, <1>17
  <1>20. /\ q = "exit" <=> launch.tiles <= tile
         /\ q \in {"order_mma", "order_store"} => Pingpong
    BY <1>3, <1>5, <1>12 DEF MathHas
  <1>21. MathInv(b, w)' /\ LetGo(b, w)' = t - Len(rs)
    BY <1>1, <1>3, <1>16, <1>18, <1>19, <1>20, MathInvOf DEF MathHas
  <1>22. /\ y < t /\ LetGo(b, w)' = y + 1 /\ LetGo(b, w) = y /\ Taken(b, w) = t
    <2>1. LetGo(b, w) = t - Len(reading) /\ Taken(b, w) = t
      BY <1>3 DEF MathHas
    <2>2. t - Len(rs) = t
      BY <1>14
    <2> QED BY <1>6, <1>8, <1>21, <2>1, <2>2
  <1> QED BY <1>1, <1>10, <1>11, <1>15, <1>21, <1>22, ReleaseKeeps

-----------------------------------------------------------------------------
(* The invariant holds initially and after every step.                     *)

\* Nobody has anything to read before it starts.
LEMMA NothingTaken ==
    ASSUME NEW w \in WarpGroups, NEW k \in Nat \ {0}, NEW tile \in Nat, NEW i \in Nat, k = K,
           tile = IF Pingpong THEN w ELSE 0, Reads(w, i), i < tile * k
    PROVE  FALSE
  <1>1. CASE tile = 0
    BY <1>1
  <1>2. CASE tile = 1 /\ Pingpong /\ w = 1
    <2>1. i < k
      BY <1>2
    <2>2. i \div k = 0
      <3>1. PICK z \in Nat : z = 0 /\ i = z * k + i
        OBVIOUS
      <3>2. (z * k + i) \div k = z
        BY <2>1, QuotientIs
      <3> QED BY <3>1, <3>2
    <2> QED BY <1>2, <2>2 DEF Reads
  <1> QED BY <1>1, <1>2 DEF WarpGroups

\* Where a math warp group starts.
LEMMA FirstMathIs ==
    ASSUME Init, LaunchOK, NEW b \in CTAs, NEW w \in WarpGroups
    PROVE  \E tile \in Nat, t \in Nat : \E pipe :
             /\ tile = IF Pingpong THEN w ELSE 0
             /\ t = tile * K /\ pipe = At(t, 0)
             /\ math[b][w] = [pc |-> FirstPc(tile), tile |-> tile, pipe |-> pipe,
                              read |-> pipe, release |-> pipe, k |-> 0, reading |-> <<>>,
                              order |-> PipelineState(0, IF w = 0 THEN 1 ELSE 0)]
             /\ Taken(b, w) = t /\ LetGo(b, w) = t
  <1>1. Depth \in Nat \ {0} /\ K \in Nat \ {0}
    BY LaunchIs
  <1>2. PICK tile \in Nat : tile = IF Pingpong THEN w ELSE 0
    BY DEF WarpGroups
  <1>3. PICK t \in Nat : t = tile * K
    BY <1>1, TimesTypes
  <1>4. PICK pipe : pipe = after(PipelineState(0, 0), t)
    OBVIOUS
  <1>5. pipe = At(t, 0)
    <2>1. PICK z \in Nat : z = 0
      OBVIOUS
    <2>2. At(z, 0) = PipelineState(0, 0)
      <3>1. z % Depth = 0 /\ z \div Depth = 0
        <4>1. z * Depth + 0 = z /\ 0 \in 0 .. Depth - 1 /\ 0 * Depth = 0
          BY <1>1, <2>1
        <4>2. (z * Depth + 0) \div Depth = z /\ (z * Depth + 0) % Depth = 0
          BY <1>1, <4>1, QuotientIs
        <4> QED BY <2>1, <4>1, <4>2
      <3>2. (0 + 0) % 2 = 0
        OBVIOUS
      <3> QED BY <3>1, <3>2 DEF At
    <2>3. after(At(z, 0), t) = At(z + t, 0)
      BY Advance
    <2>4. z + t = t
      BY <2>1
    <2> QED BY <1>4, <2>2, <2>3, <2>4
  <1>6. PICK p, o : p = FirstPc(tile) /\ o = PipelineState(0, IF w = 0 THEN 1 ELSE 0)
    OBVIOUS
  <1>7. math[b][w] = [pc |-> p, tile |-> tile, pipe |-> pipe, read |-> pipe, release |-> pipe,
                      k |-> 0, reading |-> <<>>, order |-> o]
    <2>1. math[b][w] = FirstMath(w)
      BY DEF Init
    <2> QED BY <1>2, <1>3, <1>4, <1>6, <2>1 DEF FirstMath
  <1>8. PICK m : m = math[b][w]
    OBVIOUS
  <1>9. m.tile = tile /\ m.k = 0 /\ m.reading = <<>>
    BY <1>7, <1>8
  <1>10. Taken(b, w) = t /\ LetGo(b, w) = t
    BY <1>3, <1>8, <1>9 DEF Taken, LetGo
  <1> QED BY <1>2, <1>3, <1>5, <1>6, <1>7, <1>10

\* The invariant holds initially.
LEMMA InitPipeInv == Init => PipeInv /\ OrderRests
  <1> SUFFICES ASSUME Init PROVE PipeInv /\ OrderRests
    OBVIOUS
  <1>1. LaunchOK
    BY DEF Init, LaunchOK
  <1>2. /\ K \in Nat \ {0} /\ Depth \in Nat \ {0, 1} /\ Stages = 0 .. Depth - 1
        /\ launch.tiles \in Nat /\ TilesPerTurn \in {1, 2}
    BY <1>1, LaunchIs
  <1>3. /\ full = [b \in CTAs |-> [s \in Stages |-> Barrier(1)]]
        /\ empty = [b \in CTAs |-> [s \in Stages |->
                  Barrier(multicast_consumer_arrival_count(launch.cluster_m,
                            launch.cluster_n, NumConsumerWarpGroups))]]
        /\ order = [b \in CTAs |-> [o \in (0 .. OrderDepth - 1) \X WarpGroups |-> Barrier(1)]]
        /\ producer = [b \in CTAs |-> FirstProducer]
        /\ math = [b \in CTAs |-> [w \in WarpGroups |-> FirstMath(w)]]
        /\ smem = [b \in CTAs |-> [s \in Stages |-> [from \in Sharing(b) |-> NoData]]]
        /\ copies = {} /\ arrivals = {}
    BY Zenon DEF Init
  <1>4. PipeShape
    BY <1>3 DEF PipeShape
  <1>5. ASSUME NEW b \in CTAs, NEW s \in Stages
        PROVE  /\ full[b][s] = Barrier(1) /\ FullAt(b, s) = s
               /\ empty[b][s] = Barrier(Consumers) /\ EmptyAt(b, s) = s
               /\ s \in Nat /\ s < Depth
    <2>1. 0 * Depth + s = s /\ s \in Nat /\ s < Depth
      BY <1>2
    <2>2. full[b][s] = Barrier(1) /\ empty[b][s] = Barrier(Consumers)
      BY <1>3 DEF Consumers, multicast_consumer_arrival_count
    <2>3. full[b][s].phases = 0 /\ empty[b][s].phases = 0
      BY <2>2 DEF Barrier
    <2> QED BY <2>1, <2>2, <2>3 DEF FullAt, EmptyAt
  <1>6. ASSUME NEW b \in CTAs
        PROVE  /\ producer[b] = FirstProducer /\ Loaded(b) = 0 /\ Awaited(b) = 0
    <2>1. producer[b] = FirstProducer
      BY <1>3
    <2>2. producer[b].tile = 0 /\ producer[b].k = 0 /\ producer[b].waited = 0
      BY <2>1 DEF FirstProducer
    <2>3. 0 * K + 0 = 0
      BY <1>2
    <2> QED BY <2>1, <2>2, <2>3 DEF Loaded, Awaited
  <1>7. ASSUME NEW b \in CTAs PROVE ProducerInv(b)
    <2>1. PICK p, start : /\ p = LoadOrTail(0) /\ start = make_producer_start_state
      OBVIOUS
    <2>2. producer[b] = [pc |-> p, tile |-> 0, k |-> 0, waited |-> 0,
                         pipe |-> start, write |-> start]
      BY <1>6, <2>1 DEF FirstProducer
    <2>3. start = At(0, 1)
      <3>1. 0 % Depth = 0 /\ 0 \div Depth = 0
        BY <1>2
      <3>2. (0 + 1) % 2 = 1
        OBVIOUS
      <3> QED BY <2>1, <3>1, <3>2 DEF At, make_producer_start_state
    <2>4. 0 * K + 0 = 0
      BY <1>2
    <2>5. PICK q : q = producer[b]
      OBVIOUS
    <2>6. /\ q.pc = p /\ q.tile = 0 /\ q.k = 0 /\ q.waited = 0 /\ q.pipe = start /\ q.write = start
          /\ q = [pc |-> q.pc, tile |-> q.tile, k |-> q.k, waited |-> q.waited,
                  pipe |-> q.pipe, write |-> q.write]
      BY <2>2, <2>5
    <2>7. \/ p = "load" /\ 0 \in 0 .. launch.tiles - 1 /\ 0 \in 0 .. K - 1
          \/ p = "tail" /\ 0 = launch.tiles /\ 0 \in 0 .. Depth - 1
      BY <1>2, <2>1 DEF LoadOrTail
    <2>8. q.tile * K + q.waited = 0
      BY <2>4, <2>6
    <2>9. q = [pc |-> q.pc, tile |-> q.tile, k |-> q.k, waited |-> q.waited,
               pipe |-> At(q.tile * K + q.waited, 1), write |-> At(Loaded(b), 1)]
      BY <1>6, <2>3, <2>6, <2>8
    <2>10. \A s \in Stages : Awaited(b) <= EmptyAt(b, s) + Depth
      BY <1>2, <1>5, <1>6
    <2> QED BY <2>5, <2>6, <2>7, <2>9, <2>10 DEF ProducerInv
  <1>8. ASSUME NEW b \in CTAs, NEW w \in WarpGroups, NEW i \in Nat, Reads(w, i)
        PROVE  ~(i < Taken(b, w)) /\ ~(i < LetGo(b, w))
    <2>1. PICK tile \in Nat, t \in Nat : \E pipe :
             /\ tile = IF Pingpong THEN w ELSE 0
             /\ t = tile * K /\ pipe = At(t, 0)
             /\ math[b][w] = [pc |-> FirstPc(tile), tile |-> tile, pipe |-> pipe,
                              read |-> pipe, release |-> pipe, k |-> 0, reading |-> <<>>,
                              order |-> PipelineState(0, IF w = 0 THEN 1 ELSE 0)]
             /\ Taken(b, w) = t /\ LetGo(b, w) = t
      BY <1>1, FirstMathIs
    <2>2. PICK k \in Nat \ {0} : k = K
      BY <1>2
    <2>3. i < tile * k => FALSE
      BY <1>8, <2>1, <2>2, NothingTaken
    <2> QED BY <2>1, <2>2, <2>3
  <1>9. ASSUME NEW b \in CTAs, NEW w \in WarpGroups
        PROVE  MathInv(b, w) /\ math[b][w].order = PipelineState(0, IF w = 0 THEN 1 ELSE 0)
    <2>1. PICK tile \in Nat, t \in Nat : \E pipe :
             /\ tile = IF Pingpong THEN w ELSE 0
             /\ t = tile * K /\ pipe = At(t, 0)
             /\ math[b][w] = [pc |-> FirstPc(tile), tile |-> tile, pipe |-> pipe,
                              read |-> pipe, release |-> pipe, k |-> 0, reading |-> <<>>,
                              order |-> PipelineState(0, IF w = 0 THEN 1 ELSE 0)]
             /\ Taken(b, w) = t /\ LetGo(b, w) = t
      BY <1>1, FirstMathIs
    <2>2. PICK pipe :
             /\ tile = IF Pingpong THEN w ELSE 0
             /\ t = tile * K /\ pipe = At(t, 0)
             /\ math[b][w] = [pc |-> FirstPc(tile), tile |-> tile, pipe |-> pipe,
                              read |-> pipe, release |-> pipe, k |-> 0, reading |-> <<>>,
                              order |-> PipelineState(0, IF w = 0 THEN 1 ELSE 0)]
             /\ Taken(b, w) = t /\ LetGo(b, w) = t
      BY <2>1
    <2>3. PICK p, o, m : /\ p = FirstPc(tile) /\ o = PipelineState(0, IF w = 0 THEN 1 ELSE 0)
                         /\ m = math[b][w]
      OBVIOUS
    <2>4. m = [pc |-> p, tile |-> tile, pipe |-> pipe, read |-> pipe, release |-> pipe,
               k |-> 0, reading |-> <<>>, order |-> o]
      BY <2>2, <2>3
    <2>5. /\ m.pc = p /\ m.tile = tile /\ m.pipe = pipe /\ m.read = pipe /\ m.release = pipe
          /\ m.k = 0 /\ m.reading = <<>> /\ m.order = o
          /\ m = [pc |-> m.pc, tile |-> m.tile, pipe |-> m.pipe, read |-> m.read,
                  release |-> m.release, k |-> m.k, reading |-> m.reading, order |-> m.order]
      BY <2>4
    <2>6. /\ p \in {"order_mma", "mma", "exit"}
          /\ p = "exit" <=> launch.tiles <= tile
          /\ p = "order_mma" => Pingpong
          /\ Pingpong => tile % 2 = w
      <3>1. Pingpong => tile % 2 = w
        BY <2>2 DEF WarpGroups
      <3> QED BY <1>2, <2>3, <3>1 DEF FirstPc
    <2>7. MathShape(b, w)
      BY <2>3, <2>5, <2>6 DEF MathShape
    <2>8. MathHolds(b, w)
      BY <2>3, <2>5, <2>6 DEF MathHolds
    <2>9. MathPipes(b, w)
      BY <2>2, <2>3, <2>5, <2>6 DEF MathPipes, HasRead
    <2>10. MathReads(b, w)
      BY <1>8 DEF MathReads
    <2> QED BY <2>3, <2>5, <2>7, <2>8, <2>9, <2>10 DEF MathInv
  <1>10. ASSUME NEW b \in CTAs, NEW s \in Stages PROVE FullInv(b, s)
    <2>1. b \in Sharing(b) /\ Sharing(b) \subseteq CTAs
      BY <1>1, SharingIs
    <2>2. ~(s < 0)
      BY <1>5
    <2>3. Landed(b, s) = {}
      BY <1>5, <1>6, <2>1, <2>2 DEF Landed
    <2>4. Weight(b, Landed(b, s)) = 0 /\ 0 - 0 = 0
      BY <1>1, <2>3, WeightIs
    <2>5. full[b][s] = BarrierOf(1, 0, 1, 0)
      BY <1>5 DEF Barrier, BarrierOf
    <2>6. full[b][s].phases = 0
      BY <2>5 DEF BarrierOf
    <2>7. \A d \in Sharing(b) : s < Loaded(d) + Depth /\ smem[b][s][d] = NoData
      <3>1. \A d \in Sharing(b) : smem[b][s][d] = NoData
        BY <1>3
      <3>2. s < 0 + Depth
        BY <1>2, <1>5
      <3> QED BY <1>6, <2>1, <3>1, <3>2
    <2>8. ~(s < Loaded(b)) /\ FullAt(b, s) = s
      BY <1>5, <1>6, <2>2
    <2> QED BY <2>1, <2>3, <2>4, <2>5, <2>6, <2>7, <2>8 DEF FullInv
  <1>11. ASSUME NEW b \in CTAs, NEW s \in Stages PROVE EmptyInv(b, s)
    <2>1. Sharing(b) \subseteq CTAs
      BY <1>1, SharingIs
    <2>2. EmptyAt(b, s) = s /\ s \in Nat /\ s < Depth
      BY <1>5
    <2>3. Freed(b, s) = {}
      <3> SUFFICES ASSUME NEW c \in Freed(b, s) PROVE FALSE
        OBVIOUS
      <3>1. PICK d \in CTAs, w \in WarpGroups : d = c[1] /\ w = c[2] /\ Reads(w, s) /\ s < LetGo(d, w)
        BY <2>1, <2>2 DEF Freed, Everybody
      <3> QED BY <1>8, <2>2, <3>1
    <2>4. Everybody(b, s) # {} /\ Consumers - Cardinality({}) = Consumers
      <3>1. Cardinality(Everybody(b, s)) = Consumers /\ Consumers \in Nat \ {0}
        BY <1>1, <2>2, EverybodyIs
      <3>2. Cardinality({}) = 0
        BY FS_EmptySet
      <3> QED BY <3>1, <3>2
    <2>5. empty[b][s] = BarrierOf(Consumers, 0, Consumers, 0)
      BY <1>5 DEF Barrier, BarrierOf
    <2>6. empty[b][s].phases = 0
      BY <2>5 DEF BarrierOf
    <2>7. \A i \in 0 .. s - 1 : i % Depth # s
      <3> SUFFICES ASSUME NEW i \in 0 .. s - 1 PROVE i % Depth # s
        OBVIOUS
      <3>1. i \in Nat /\ i < Depth /\ i # s
        BY <1>2, <2>2
      <3>2. i % Depth = i
        BY <1>2, <3>1, ModOfSmall
      <3> QED BY <3>1, <3>2
    <2> QED BY <2>2, <2>3, <2>4, <2>5, <2>6, <2>7 DEF EmptyInv
  <1>12. PipeInv
    BY <1>1, <1>3, <1>4, <1>7, <1>9, <1>10, <1>11 DEF PipeInv
  <1>13. OrderRests
    <2>1. \A b \in CTAs : order[b] = [o \in (0 .. OrderDepth - 1) \X WarpGroups |-> Barrier(1)]
      BY <1>3
    <2> QED BY <1>9, <2>1 DEF OrderRests
  <1> QED BY <1>12, <1>13

\* No step changes the launch.
LEMMA LaunchStays == [Next]_vars => launch' = launch
  <1>1. ASSUME NEW b, NEW w, WarpGroup(b, w)
        PROVE  launch' = launch
    BY <1>1, Zenon DEF WarpGroup, OrderWait, Mma, MmaRelease, MmaEnds, MmaTail, Store
  <1>2. ASSUME NEW b, Producer(b)
        PROVE  launch' = launch
    BY <1>2, Zenon DEF Producer, Load, LoadTail
  <1>3. ASSUME NEW m, CopyLands(m) \/ ArrivalLands(m)
        PROVE  launch' = launch
    BY <1>3, Zenon DEF CopyLands, ArrivalLands
  <1>4. Done \/ UNCHANGED vars => launch' = launch
    BY Zenon DEF Done, vars
  <1> QED BY <1>1, <1>2, <1>3, <1>4, Zenon DEF Next

\* Every step keeps the pipeline's invariant.
LEMMA NextPipeInv == PipeInv /\ IInv /\ [Next]_vars => PipeInv'
  <1> SUFFICES ASSUME PipeInv, IInv, [Next]_vars PROVE PipeInv'
    OBVIOUS
  <1>1. ASSUME NEW b \in CTAs, Producer(b) PROVE PipeInv'
    BY <1>1, LoadKeepsPipe, LoadTailKeepsPipe, Zenon DEF Producer
  <1>2. ASSUME NEW b \in CTAs, NEW w \in WarpGroups, WarpGroup(b, w) PROVE PipeInv'
    BY <1>2, OrderWaitKeepsPipe, MmaKeepsPipe, MmaReleaseKeepsPipe, MmaEndsKeepsPipe,
       MmaTailKeepsPipe, StoreKeepsPipe, Zenon DEF WarpGroup
  <1>3. ASSUME NEW m \in copies, CopyLands(m) PROVE PipeInv'
    BY <1>3, CopyLandsKeepsPipe
  <1>4. ASSUME NEW m \in arrivals, ArrivalLands(m) PROVE PipeInv'
    BY <1>4, ArrivalLandsKeepsPipe
  <1>5. CASE UNCHANGED vars
    <2>1. /\ launch' = launch /\ full' = full /\ empty' = empty /\ producer' = producer
          /\ math' = math /\ smem' = smem /\ copies' = copies /\ arrivals' = arrivals
      BY <1>5, Zenon DEF vars
    <2>2. /\ Depth' = Depth /\ K' = K /\ CTAs' = CTAs /\ Stages' = Stages
          /\ \A b : Sharing(b)' = Sharing(b)
      BY <2>1, SameLaunch
    <2>3. /\ \A b, s : FullAt(b, s)' = FullAt(b, s) /\ EmptyAt(b, s)' = EmptyAt(b, s)
          /\ \A b : Loaded(b)' = Loaded(b)
          /\ \A b, w : LetGo(b, w)' = LetGo(b, w)
      BY <2>1, <2>2 DEF FullAt, EmptyAt, Loaded, Taken, LetGo
    <2>4. \A z \in Nat : z <= z
      OBVIOUS
    <2>5. \A b \in CTAs, s \in Stages :
            /\ FullAt(b, s)' \in Nat /\ FullAt(b, s) <= FullAt(b, s)'
            /\ EmptyAt(b, s)' \in Nat /\ EmptyAt(b, s) <= EmptyAt(b, s)'
      BY <2>3, <2>4, Places
    <2>6. \A b \in CTAs : ProducerInv(b)'
      BY <2>1, <2>5, ProducerKept
    <2>7. \A b \in CTAs, w \in WarpGroups : MathInv(b, w)'
      BY <2>1, <2>5, MathsKept
    <2>8. /\ \A b \in CTAs, s \in Stages : FullInv(b, s)'
          /\ \A m \in copies : CopyInv(m)'
      BY <2>1, <2>3, FillingKept
    <2>9. /\ \A b \in CTAs, s \in Stages : EmptyInv(b, s)'
          /\ \A m \in arrivals : ArrivalInv(m)'
      BY <2>1, <2>3, FreeingKept
    <2>10. PipeShape'
      BY <2>1, <2>2 DEF PipeInv, PipeShape
    <2> QED BY <2>1, <2>6, <2>7, <2>8, <2>9, <2>10, PipeInvOf
  <1>6. Done => UNCHANGED vars
    BY Zenon DEF Done
  <1> QED BY <1>1, <1>2, <1>3, <1>4, <1>5, <1>6, Zenon DEF Next

\* In Cooperative no step touches the order barriers.
LEMMA OrderUntouched ==
    ASSUME PipeInv, ~Pingpong, [Next]_vars
    PROVE  /\ order' = order
           /\ \A b \in CTAs, w \in WarpGroups : math'[b][w].order = math[b][w].order
  <1>1. /\ DOMAIN math = CTAs
        /\ \A b \in CTAs : /\ DOMAIN math[b] = WarpGroups
                           /\ \A w \in WarpGroups : DOMAIN math[b][w] = MathFields
    <2>1. math = [b \in CTAs |-> [w \in WarpGroups |-> math[b][w]]]
      BY DEF PipeInv, PipeShape
    <2>2. ASSUME NEW b \in CTAs, NEW w \in WarpGroups PROVE DOMAIN math[b][w] = MathFields
      <3>1. PICK m : m = math[b][w]
        OBVIOUS
      <3>2. m = [pc |-> m.pc, tile |-> m.tile, pipe |-> m.pipe, read |-> m.read,
                 release |-> m.release, k |-> m.k, reading |-> m.reading, order |-> m.order]
        BY <3>1 DEF PipeInv, MathInv, MathShape
      <3>3. DOMAIN m = MathFields
        BY <3>2 DEF MathFields
      <3> QED BY <3>1, <3>3
    <2> QED BY <2>1, <2>2
  <1>2. ASSUME NEW b \in CTAs, NEW w \in WarpGroups, NEW r, math' = Put(math, b, w, r),
               r.order = math[b][w].order
        PROVE  \A c \in CTAs, v \in WarpGroups : math'[c][v].order = math[c][v].order
    BY <1>2, MathUpdate
  <1>3. \A b, w : OrderArrive(b, w) => order' = order
    BY DEF OrderArrive
  <1>4. \A st : NextOrder(st) = st
    BY DEF NextOrder
  <1>9. math = [c \in CTAs |-> [v \in WarpGroups |-> math[c][v]]]
    BY DEF PipeInv, PipeShape
  <1>5. ASSUME NEW b \in CTAs, NEW w \in WarpGroups, WarpGroup(b, w)
        PROVE  /\ order' = order
               /\ \A c \in CTAs, v \in WarpGroups : math'[c][v].order = math[c][v].order
    <2>1. CASE OrderWait(b, w)
      <3>1. order' = order
        BY <2>1, Zenon DEF OrderWait
      <3>2. PICK pc : math' = [math EXCEPT ![b][w].pc = pc]
        BY <2>1, Zenon DEF OrderWait
      <3>3. PICK r : r = [math[b][w] EXCEPT !.pc = pc]
        OBVIOUS
      <3>4. r.order = math[b][w].order
        BY <1>1, <3>3, Zenon DEF MathFields
      <3>5. math' = [math EXCEPT ![b][w] = r]
        BY <1>9, <3>2, <3>3
      <3> QED BY <1>2, <3>1, <3>4, <3>5, Zenon DEF Put
    <2>2. CASE Mma(b, w)
      <3>1. order' = order
        BY <2>2, Zenon DEF Mma
      <3>2. PICK k, read, reading : math' = [math EXCEPT ![b][w].k = k, ![b][w].read = read,
                                          ![b][w].reading = reading]
        BY <2>2, Zenon DEF Mma
      <3>3. PICK r : r = [math[b][w] EXCEPT !.k = k, !.read = read, !.reading = reading]
        OBVIOUS
      <3>4. r.order = math[b][w].order
        BY <1>1, <3>3, Zenon DEF MathFields
      <3>5. math' = [math EXCEPT ![b][w] = r]
        BY <1>9, <3>2, <3>3
      <3> QED BY <1>2, <3>1, <3>4, <3>5, Zenon DEF Put
    <2>3. CASE MmaRelease(b, w)
      <3>1. order' = order
        BY <2>3, Zenon DEF MmaRelease
      <3>2. PICK release, reading : math' = [math EXCEPT ![b][w].release = release,
                                          ![b][w].reading = reading]
        BY <2>3, Zenon DEF MmaRelease
      <3>3. PICK r : r = [math[b][w] EXCEPT !.release = release, !.reading = reading]
        OBVIOUS
      <3>4. r.order = math[b][w].order
        BY <1>1, <3>3, Zenon DEF MathFields
      <3>5. math' = [math EXCEPT ![b][w] = r]
        BY <1>9, <3>2, <3>3
      <3> QED BY <1>2, <3>1, <3>4, <3>5, Zenon DEF Put
    <2>4. CASE MmaEnds(b, w)
      <3>1. order' = order
        BY <1>3, <1>4, <2>4, Zenon DEF MmaEnds
      <3>2. PICK pc, ord : ord = math[b][w].order /\ math' = [math EXCEPT ![b][w].pc = pc, ![b][w].order = ord]
        BY <1>3, <1>4, <2>4, Zenon DEF MmaEnds
      <3>3. PICK r : r = [math[b][w] EXCEPT !.pc = pc, !.order = ord]
        OBVIOUS
      <3>4. r.order = math[b][w].order
        BY <1>1, <3>2, <3>3, Zenon DEF MathFields
      <3>5. math' = [math EXCEPT ![b][w] = r]
        BY <1>9, <3>2, <3>3
      <3> QED BY <1>2, <3>1, <3>4, <3>5, Zenon DEF Put
    <2>5. CASE MmaTail(b, w)
      <3>1. order' = order
        BY <2>5, Zenon DEF MmaTail
      <3>2. PICK pc, reading, pipe :
              math' = [math EXCEPT ![b][w] =
                [math[b][w] EXCEPT !.pc = pc, !.reading = reading, !.pipe = pipe,
                                   !.read = pipe, !.release = pipe]]
        BY <2>5, Zenon DEF MmaTail
      <3>3. PICK r : r = [math[b][w] EXCEPT !.pc = pc, !.reading = reading, !.pipe = pipe,
                                            !.read = pipe, !.release = pipe]
        OBVIOUS
      <3>4. r.order = math[b][w].order
        BY <1>1, <3>3, Zenon DEF MathFields
      <3> QED BY <1>2, <3>1, <3>2, <3>3, <3>4, Zenon DEF Put
    <2>6. CASE Store(b, w)
      <3>1. order' = order
        BY <1>3, <2>6, Zenon DEF Store
      <3>2. PICK tile, k, ord, pc :
              /\ math' = [math EXCEPT ![b][w] =
                   [math[b][w] EXCEPT !.tile = tile, !.k = k, !.order = ord, !.pc = pc]]
              /\ ord = math[b][w].order
        BY <1>4, <2>6, Zenon DEF Store
      <3>3. PICK r : r = [math[b][w] EXCEPT !.tile = tile, !.k = k, !.order = ord, !.pc = pc]
        OBVIOUS
      <3>4. r.order = math[b][w].order
        BY <1>1, <3>2, <3>3, Zenon DEF MathFields
      <3> QED BY <1>2, <3>1, <3>2, <3>3, <3>4, Zenon DEF Put
    <2> QED BY <1>5, <2>1, <2>2, <2>3, <2>4, <2>5, <2>6 DEF WarpGroup
  <1>6. ASSUME NEW b, Producer(b) PROVE math' = math /\ order' = order
    BY <1>6, Zenon DEF Producer, Load, LoadTail
  <1>7. ASSUME NEW m, CopyLands(m) \/ ArrivalLands(m) PROVE math' = math /\ order' = order
    BY <1>7, Zenon DEF CopyLands, ArrivalLands
  <1>8. Done \/ UNCHANGED vars => math' = math /\ order' = order
    BY Zenon DEF Done, vars
  <1> QED BY <1>5, <1>6, <1>7, <1>8, Zenon DEF Next

\* Every step of a Cooperative kernel leaves the order barriers at rest.
LEMMA NextOrderRests == PipeInv /\ OrderRests /\ [Next]_vars => OrderRests'
  <1> SUFFICES ASSUME PipeInv, OrderRests, [Next]_vars, ~Pingpong' PROVE
        \A b \in CTAs' :
          /\ order'[b] = [o \in (0 .. OrderDepth - 1) \X WarpGroups |-> Barrier(1)]
          /\ \A w \in WarpGroups : math'[b][w].order = PipelineState(0, IF w = 0 THEN 1 ELSE 0)
    BY DEF OrderRests
  <1>1. CTAs' = CTAs /\ ~Pingpong
    BY LaunchStays, SameLaunch
  <1>2. /\ order' = order
        /\ \A b \in CTAs, w \in WarpGroups : math'[b][w].order = math[b][w].order
    BY <1>1, OrderUntouched
  <1> QED BY <1>1, <1>2 DEF OrderRests

\* Everything together.
WarpInv == IInv /\ PipeInv /\ OrderRests

\* The inductive invariant of the whole kernel.
LEMMA AlwaysWarpInv == Spec => []WarpInv
  <1>1. Init => WarpInv
    BY InitIInv, InitPipeInv DEF WarpInv
  <1>2. WarpInv /\ [Next]_vars => WarpInv'
    BY NextIInv, NextPipeInv, NextOrderRests DEF WarpInv
  <1> QED BY <1>1, <1>2, PTL DEF Spec

-----------------------------------------------------------------------------
(* What the invariant says.                                                *)

\* A pipeline state has a stage of the pipeline and one phase bit.
LEMMA PlacesInRange ==
    ASSUME LaunchOK, NEW i \in Nat, NEW parity \in {0, 1}
    PROVE  StateOK(At(i, parity), launch.stages)
  <1>1. Depth \in Nat \ {0}
    BY LaunchIs
  <1>2. i % Depth \in 0 .. Depth - 1 /\ i \div Depth \in Nat
    BY <1>1, Quotient
  <1>3. \A n \in Nat : n % 2 \in {0, 1}
    OBVIOUS
  <1>4. PICK h : h = (i \div Depth + parity) % 2
    OBVIOUS
  <1>5. h \in {0, 1}
    BY <1>2, <1>3, <1>4
  <1>6. At(i, parity) = PipelineState(i % Depth, h)
    BY <1>4 DEF At
  <1> QED BY <1>2, <1>5, <1>6 DEF StateOK, PipelineState, Depth

\* A producer loads the k tiles of the tiles of its block and no other.
LEMMA LoadedWithin ==
    ASSUME PipeInv, NEW b \in CTAs
    PROVE  /\ Loaded(b) <= launch.tiles * K /\ launch.tiles * K \in Nat
           /\ producer[b].pc = "exit" => \A s \in Stages : launch.tiles * K <= EmptyAt(b, s)
  <1>1. /\ K \in Nat \ {0} /\ Depth \in Nat /\ launch.tiles \in Nat
    BY LaunchIs DEF PipeInv
  <1>2. PICK p : p = producer[b]
    OBVIOUS
  <1>3. /\ \/ p.pc = "load" /\ p.tile \in 0 .. launch.tiles - 1 /\ p.k \in 0 .. K - 1
           \/ p.pc = "tail" /\ p.tile = launch.tiles /\ p.k = 0
           \/ p.pc = "exit" /\ p.tile = launch.tiles /\ p.k = 0 /\ p.waited = Depth
        /\ \A s \in Stages : Awaited(b) <= EmptyAt(b, s) + Depth
    BY <1>2 DEF PipeInv, ProducerInv
  <1>4. launch.tiles * K \in Nat
    BY <1>1, TimesTypes
  <1>5. Loaded(b) = p.tile * K + p.k /\ Awaited(b) = Loaded(b) + p.waited
    BY <1>2 DEF Loaded, Awaited
  <1>6. ASSUME p.tile \in 0 .. launch.tiles - 1, p.k \in 0 .. K - 1
        PROVE  Loaded(b) <= launch.tiles * K
    <2>1. PICK t \in Nat, k \in Nat : t = p.tile /\ k = p.k /\ t + 1 <= launch.tiles /\ k < K
      BY <1>1, <1>6
    <2>2. (t + 1) * K <= launch.tiles * K /\ (t + 1) * K = t * K + K /\ t * K \in Nat
      BY <1>1, <2>1, TimesMonotone, TimesTypes
    <2> QED BY <1>1, <1>4, <1>5, <2>1, <2>2
  <1>7. ASSUME p.tile = launch.tiles, p.k = 0 PROVE Loaded(b) = launch.tiles * K
    BY <1>4, <1>5, <1>7
  <1>8. ASSUME p.pc = "exit", NEW s \in Stages PROVE launch.tiles * K <= EmptyAt(b, s)
    <2>1. Loaded(b) = launch.tiles * K /\ Awaited(b) = Loaded(b) + Depth
      BY <1>3, <1>5, <1>7, <1>8
    <2>2. EmptyAt(b, s) \in Nat /\ Awaited(b) <= EmptyAt(b, s) + Depth
      BY <1>3, Places
    <2> QED BY <1>1, <1>4, <2>1, <2>2
  <1>9. Loaded(b) <= launch.tiles * K
    BY <1>3, <1>4, <1>6, <1>7
  <1> QED BY <1>2, <1>4, <1>8, <1>9

\* What a math warp group holds has arrived whole, and nothing was loaded over it.
LEMMA WarpInvReadsItsTile == WarpInv => ReadsItsTile
  <1> SUFFICES ASSUME WarpInv, NEW b \in CTAs, NEW w \in WarpGroups,
                      NEW i \in DOMAIN math[b][w].reading, NEW from \in Sharing(b)
               PROVE  smem[b][math[b][w].reading[i].stage][from] = math[b][w].reading[i].k
    BY DEF ReadsItsTile
  <1>1. PipeInv
    BY DEF WarpInv
  <1>2. LaunchOK /\ Depth \in Nat \ {0} /\ Stages = 0 .. Depth - 1
    BY <1>1, LaunchIs DEF PipeInv
  <1>3. PICK y \in Nat : /\ math[b][w].reading[i] = Entry(y)
                         /\ LetGo(b, w) <= y /\ y < Taken(b, w)
    <2>1. LetGo(b, w) \in Nat
      BY <1>1, Places
    <2>2. /\ Len(math[b][w].reading) \in 0 .. 2
          /\ DOMAIN math[b][w].reading = 1 .. Len(math[b][w].reading)
          /\ math[b][w].reading[i] = Entry(LetGo(b, w) + i - 1) /\ LetGo(b, w) + i - 1 < Taken(b, w)
      BY <1>1, ReadingIs
    <2>3. i \in Nat \ {0}
      BY <2>2
    <2>4. PICK y \in Nat : y = LetGo(b, w) + i - 1 /\ LetGo(b, w) <= y
      BY <2>1, <2>3
    <2> QED BY <2>2, <2>4
  <1>4. PICK s \in Stages : s = y % Depth
    BY <1>2, Quotient
  <1>5. FullAt(b, s) = y + Depth /\ \A d \in Sharing(b) : ~(y + Depth < Loaded(d))
    BY <1>1, <1>3, <1>4, HeldReads, HeldStage
  <1>6. Landed(b, s) = {}
    BY <1>5 DEF Landed
  <1>7. smem[b][s][from] = IF full[b][s].phases = 0 THEN NoData ELSE FullAt(b, s) - Depth
    BY <1>1, <1>6 DEF PipeInv, FullInv
  <1>8. full[b][s].phases # 0
    <2> SUFFICES ASSUME full[b][s].phases = 0 PROVE FALSE
      OBVIOUS
    <2>1. FullAt(b, s) = s
      BY <1>2 DEF FullAt
    <2> QED BY <1>2, <1>5, <2>1
  <1>9. smem[b][s][from] = y
    BY <1>2, <1>5, <1>7, <1>8
  <1>10. Entry(y).stage = s /\ Entry(y).k = y
    BY <1>4 DEF Entry
  <1> QED BY <1>3, <1>9, <1>10

\* A math warp group that waits for its turn is at most one phase behind.
LEMMA OrderNear ==
    ASSUME IInv, Pingpong, NEW b \in CTAs, NEW w \in WarpGroups, NEW turn, turn = Turn(b, w)
    PROVE  /\ math[b][w].pc = "order_mma" =>
                order[b][<<0, w>>].phases \in {turn + w - 1, turn + w}
           /\ math[b][w].pc = "order_store" =>
                order[b][<<1, w>>].phases \in {turn + w - 1, turn + w}
  <1> DEFINE v == 1 - w
  <1>1. PlaceInv(b) /\ BarrierInv(b) /\ TurnInv(b)
    BY DEF IInv, BlockInv
  <1>2. v \in WarpGroups /\ 1 - v = w /\ w \in {0, 1}
    BY Groups DEF WarpGroups
  <1>3. order[b][<<0, w>>].phases = MmaEnded(b, v) /\ order[b][<<1, w>>].phases = Turn(b, v)
    BY <1>1, PhasesOf DEF BarrierInv
  <1> HIDE DEF v
  <1>4. PICK t \in Nat, mb \in Nat, me \in Nat, sb \in Nat :
          /\ t = Turn(b, w) /\ mb = MmaBegun(b, w) /\ me = MmaEnded(b, w) /\ sb = StoreBegun(b, w)
    BY <1>1, Counts
  <1>5. PICK u \in Nat, nb \in Nat, ne \in Nat, ub \in Nat :
          /\ u = Turn(b, v) /\ nb = MmaBegun(b, v) /\ ne = MmaEnded(b, v) /\ ub = StoreBegun(b, v)
          /\ u <= ub /\ ne <= nb
    BY <1>1, <1>2, Counts
  <1>6. /\ mb <= ne + 1 - w /\ sb <= u + 1 - w
    BY <1>1, <1>4, <1>5, TurnInvOf DEF v
  <1>7. /\ nb <= me + 1 - v /\ ub <= t + 1 - v
    BY <1>1, <1>2, <1>4, <1>5, TurnInvOf
  <1>8. 1 - v = w
    BY <1>2
  <1>9. ASSUME math[b][w].pc = "order_mma" PROVE ne \in {t + w - 1, t + w}
    <2>1. mb = t /\ me = t
      BY <1>4, <1>9 DEF MmaBegun, MmaEnded, Past
    <2>2. t <= ne + 1 - w /\ ne <= t + w
      BY <1>2, <1>5, <1>6, <1>7, <2>1 DEF v
    <2> QED BY <1>2, <2>2
  <1>10. ASSUME math[b][w].pc = "order_store" PROVE u \in {t + w - 1, t + w}
    <2>1. sb = t
      BY <1>4, <1>10 DEF StoreBegun, Past
    <2>2. t <= u + 1 - w /\ u <= t + w
      BY <1>2, <1>5, <1>6, <1>7, <2>1 DEF v
    <2> QED BY <1>2, <2>2
  <1> QED BY <1>3, <1>4, <1>5, <1>9, <1>10

\* Every waiter is one phase behind its barrier at most.
LEMMA WarpInvParityTellsPhases == WarpInv => ParityTellsPhases
  <1> SUFFICES ASSUME WarpInv, NEW b \in CTAs
        PROVE
        /\ producer[b].pc \in {"load", "tail"} =>
             LET p == producer[b]
                 i == p.tile * K + p.k + p.waited
                 n == i \div launch.stages
             IN  empty[b][i % launch.stages].phases \in {n - 1, n}
        /\ \A w \in WarpGroups :
             LET m == math[b][w]
                 i == m.tile * K + m.k
                 n == i \div launch.stages
                 turn == m.tile \div 2
             IN  /\ m.pc = "mma" /\ m.k < K =>
                       full[b][i % launch.stages].phases \in {n, n + 1}
                 /\ m.pc \in {"order_mma", "order_store"} =>
                       order[b][<<IF m.pc = "order_mma" THEN 0 ELSE 1, w>>].phases
                           \in {turn + w - 1, turn + w}
    BY DEF ParityTellsPhases
  <1>1. PipeInv /\ IInv
    BY DEF WarpInv
  <1>2. LaunchOK /\ Depth \in Nat \ {0} /\ Stages = 0 .. Depth - 1 /\ Depth = launch.stages
    BY <1>1, LaunchIs DEF PipeInv, Depth
  <1>3. LET p == producer[b]
            i == p.tile * K + p.k + p.waited
            n == i \div launch.stages
        IN  empty[b][i % launch.stages].phases \in {n - 1, n}
    <2>1. PICK i \in Nat : i = Awaited(b)
      BY <1>1, Places
    <2>2. i = producer[b].tile * K + producer[b].k + producer[b].waited
      BY <2>1 DEF Awaited, Loaded
    <2>3. PICK s \in Stages : s = i % Depth
      BY <1>2, Quotient
    <2>4. empty[b][s].phases \in {i \div Depth - 1, i \div Depth}
      BY <1>1, <2>1, <2>3, ProducerNear
    <2> QED BY <1>2, <2>2, <2>3, <2>4
  <1>4. ASSUME NEW w \in WarpGroups, math[b][w].pc = "mma", math[b][w].k < K
        PROVE  LET m == math[b][w]
                   i == m.tile * K + m.k
                   n == i \div launch.stages
               IN  full[b][i % launch.stages].phases \in {n, n + 1}
    <2>1. PICK i \in Nat : i = Taken(b, w)
      BY <1>1, Places
    <2>2. i = math[b][w].tile * K + math[b][w].k
      BY <2>1 DEF Taken
    <2>3. PICK s \in Stages : s = i % Depth
      BY <1>2, Quotient
    <2>4. full[b][s].phases \in {i \div Depth, i \div Depth + 1}
      BY <1>1, <1>4, <2>1, <2>3, ConsumerNear
    <2> QED BY <1>2, <2>2, <2>3, <2>4
  <1>5. ASSUME NEW w \in WarpGroups, math[b][w].pc \in {"order_mma", "order_store"}
        PROVE  LET m == math[b][w]
                   turn == m.tile \div 2
               IN  order[b][<<IF m.pc = "order_mma" THEN 0 ELSE 1, w>>].phases
                       \in {turn + w - 1, turn + w}
    <2>1. Pingpong
      BY <1>1, <1>5 DEF PipeInv, MathInv, MathShape
    <2>2. PICK turn : turn = Turn(b, w) /\ turn = math[b][w].tile \div 2
      BY DEF Turn
    <2>3. CASE math[b][w].pc = "order_mma"
      <3>1. order[b][<<0, w>>].phases \in {turn + w - 1, turn + w}
        BY <1>1, <2>1, <2>2, <2>3, OrderNear
      <3> QED BY <2>2, <2>3, <3>1
    <2>4. CASE math[b][w].pc = "order_store"
      <3>1. order[b][<<1, w>>].phases \in {turn + w - 1, turn + w}
        BY <1>1, <2>1, <2>2, <2>4, OrderNear
      <3> QED BY <2>2, <2>4, <3>1
    <2> QED BY <1>5, <2>3, <2>4
  <1> QED BY <1>3, <1>4, <1>5

\* All readers of a block that exited have read all it was sent, and its
\* producer has seen all its stages freed.
LEMMA WarpInvNothingReaches == WarpInv => NothingReachesAnExitedBlock
  <1> SUFFICES ASSUME WarpInv, NEW m \in copies \cup arrivals, Exited(m.to) PROVE FALSE
    BY DEF NothingReachesAnExitedBlock
  <1>1. PipeInv
    BY DEF WarpInv
  <1>2. LaunchOK /\ K \in Nat \ {0} /\ Depth \in Nat \ {0} /\ launch.tiles \in Nat
    BY <1>1, LaunchIs DEF PipeInv
  <1>3. CASE m \in copies
    <2>1. /\ m.from \in CTAs /\ m.to \in Sharing(m.from) /\ m.stage \in Stages
          /\ m.k = FullAt(m.to, m.stage) /\ m.k < Loaded(m.from)
      BY <1>1, <1>3 DEF PipeInv, CopyInv
    <2>2. m.to \in CTAs
      BY <1>2, <2>1, SharingIs
    <2>3. PICK x \in Nat : x = m.k /\ x % Depth = m.stage
      BY <1>1, <2>1, <2>2, Places
    <2>4. PICK w \in WarpGroups : Reads(w, x)
      BY <1>2, <2>2, EverybodyIs
    <2>5. launch.tiles <= math[m.to][w].tile /\ math[m.to][w].tile \in Nat
          /\ math[m.to][w].k \in 0 .. K
      <3>1. math[m.to][w].pc = "exit"
        BY DEF Exited
      <3>2. MathShape(m.to, w)
        BY <1>1, <2>2 DEF PipeInv, MathInv
      <3> QED BY <1>1, <2>2, <3>1, <3>2, ReadingIs DEF MathShape
    <2>6. launch.tiles * K <= Taken(m.to, w)
      <3>1. PICK t \in Nat, k \in Nat : t = math[m.to][w].tile /\ k = math[m.to][w].k
        BY <1>2, <2>5
      <3>2. launch.tiles * K <= t * K /\ t * K \in Nat /\ launch.tiles * K \in Nat
        BY <1>2, <2>5, <3>1, TimesMonotone, TimesTypes
      <3>3. Taken(m.to, w) = t * K + k
        BY <3>1 DEF Taken
      <3> QED BY <3>2, <3>3
    <2>7. x < Taken(m.to, w)
      <3>1. Loaded(m.from) <= launch.tiles * K /\ launch.tiles * K \in Nat
        BY <1>1, <2>1, LoadedWithin
      <3>2. Loaded(m.from) \in Nat /\ Taken(m.to, w) \in Nat
        BY <1>1, <2>1, <2>2, Places
      <3> QED BY <2>1, <2>3, <2>6, <3>1, <3>2
    <2>8. x < FullAt(m.to, m.stage)
      <3>1. MathReads(m.to, w)
        BY <1>1, <2>2 DEF PipeInv, MathInv
      <3> QED BY <2>3, <2>4, <2>7, <3>1 DEF MathReads
    <2>9. ~(x < x)
      OBVIOUS
    <2> QED BY <2>1, <2>3, <2>8, <2>9
  <1>4. CASE m \in arrivals
    <2>1. PICK f \in CTAs, c \in CTAs, v \in WarpGroups, s \in Stages :
               /\ f = m.from /\ c = m.to /\ v = m.group /\ s = m.stage /\ f \in Sharing(c)
               /\ m.k = EmptyAt(c, s) /\ m.k \in Nat /\ Reads(v, m.k) /\ m.k < LetGo(f, v)
      BY <1>1, <1>4, ArrivalIs
    <2>2. PICK x \in Nat : x = m.k /\ x % Depth = s
      BY <1>1, <2>1, Places
    <2>3. launch.tiles * K <= x
      <3>1. producer[c].pc = "exit"
        BY <2>1 DEF Exited
      <3> QED BY <1>1, <2>1, <2>2, <3>1, LoadedWithin
    <2>4. x < FullAt(f, s)
      <3>1. LetGo(f, v) \in Nat /\ Taken(f, v) \in Nat /\ LetGo(f, v) <= Taken(f, v)
        BY <1>1, Places
      <3>2. x < Taken(f, v)
        BY <2>1, <2>2, <3>1
      <3>3. MathReads(f, v)
        BY <1>1 DEF PipeInv, MathInv
      <3> QED BY <2>1, <2>2, <3>2, <3>3 DEF MathReads
    <2>5. x < Loaded(f)
      <3>1. FullAt(f, s) < Loaded(f) + Depth
        <4>1. FullInv(f, s) /\ f \in Sharing(f)
          BY <1>1, <1>2, SharingIs DEF PipeInv
        <4> QED BY <4>1 DEF FullInv
      <3>2. PICK n \in Nat \ {0}, p \in Nat, q \in Nat :
               /\ n = Depth /\ s \in 0 .. n - 1
               /\ q = full[f][s].phases /\ FullAt(f, s) = q * n + s
               /\ x = p * n + s
        <4>1. Stages = 0 .. Depth - 1 /\ full[f][s].phases \in Nat
          BY <1>1, <1>2, LaunchIs, Places
        <4>2. x \div Depth \in Nat /\ x = (x \div Depth) * Depth + s
          BY <1>2, <2>2, Quotient
        <4> QED BY <1>2, <4>1, <4>2 DEF FullAt
      <3>3. x + Depth <= FullAt(f, s)
        <4>1. p * n + s < q * n + s => p * n + s + n <= q * n + s
          <5>1. s \in 0 .. n - 1
            BY <3>2
          <5> QED BY <5>1, Apart, Zenon
        <4>2. p * n + s < q * n + s
          BY <2>4, <3>2
        <4>3. (p * n + s) + n = x + Depth /\ p * n + s + n = (p * n + s) + n
          BY <3>2
        <4> QED BY <3>2, <4>1, <4>2, <4>3
      <3>4. Loaded(f) \in Nat /\ FullAt(f, s) \in Nat
        BY <1>1, Places
      <3> QED BY <1>2, <3>1, <3>3, <3>4
    <2>6. Loaded(f) <= launch.tiles * K /\ launch.tiles * K \in Nat /\ Loaded(f) \in Nat
      BY <1>1, LoadedWithin, Places
    <2> QED BY <2>3, <2>5, <2>6
  <1> QED BY <1>3, <1>4

\* The ranges follow from what the barriers count.
LEMMA WarpInvTypeOK == WarpInv => TypeOK
  <1> SUFFICES ASSUME WarpInv PROVE TypeOK
    OBVIOUS
  <1>1. PipeInv /\ IInv /\ OrderRests
    BY DEF WarpInv
  <1>2. /\ LaunchOK /\ K \in Nat \ {0} /\ Depth \in Nat \ {0} /\ launch.tiles \in Nat
        /\ launch.cluster_m \in Nat \ {0} /\ launch.cluster_n \in Nat \ {0}
        /\ Depth = launch.stages
    BY <1>1, LaunchIs DEF PipeInv, Depth
  <1>3. ASSUME NEW b \in CTAs, NEW s \in Stages
        PROVE  BarrierOK(full[b][s], launch.cluster_m + launch.cluster_n - 2,
                         launch.cluster_m + launch.cluster_n)
    <2>1. PICK n \in Nat, x \in Nat, l \in Nat, W \in Nat, T \in Nat :
             /\ n = full[b][s].phases /\ x = FullAt(b, s) /\ l = Loaded(b)
             /\ W = Weight(b, Landed(b, s)) /\ T = TmaTransaction
             /\ T = launch.cluster_m + launch.cluster_n
             /\ W < T /\ (~(x < l) => W <= T - 2)
      <3>1. Landed(b, s) # Sharing(b) /\ Landed(b, s) \in SUBSET Sharing(b)
        BY <1>1 DEF PipeInv, FullInv, Landed
      <3>2. /\ Weight(b, Landed(b, s)) \in Nat
            /\ Weight(b, Landed(b, s)) < TmaTransaction
            /\ b \notin Landed(b, s) => Weight(b, Landed(b, s)) <= TmaTransaction - 2
            /\ TmaTransaction = launch.cluster_m + launch.cluster_n
        BY <1>2, <3>1, WeightIs
      <3>3. ~(FullAt(b, s) < Loaded(b)) => b \notin Landed(b, s)
        BY DEF Landed
      <3>4. full[b][s].phases \in Nat /\ FullAt(b, s) \in Nat /\ Loaded(b) \in Nat
        BY <1>1, Places
      <3>5. TmaTransaction \in Nat
        BY <1>2, <3>2
      <3> QED BY <3>2, <3>3, <3>4, <3>5
    <2>2. full[b][s] = BarrierOf(1, n, IF x < l THEN 0 ELSE 1, (IF x < l THEN T ELSE 0) - W)
      BY <1>1, <2>1 DEF PipeInv, FullInv
    <2>3. PICK p \in Int, t \in Int : /\ p = IF x < l THEN 0 ELSE 1
                                      /\ t = (IF x < l THEN T ELSE 0) - W
      <3>1. (IF x < l THEN T ELSE 0) - W \in Int
        BY <2>1
      <3> QED BY <3>1
    <2>4. PICK bar : bar = full[b][s]
      OBVIOUS
    <2>5. bar.count = 1 /\ bar.pending = p /\ bar.tx = t /\ bar.phases = n
      BY <2>2, <2>3, <2>4 DEF BarrierOf
    <2>6. p \in 1 .. 1 \/ (p = 0 /\ t > 0)
      BY <2>1, <2>3
    <2>7. t \in -(T - 2) .. T
      BY <2>1, <2>3, <1>2
    <2>8. BarrierOK(bar, T - 2, T)
      BY <2>1, <2>5, <2>6, <2>7 DEF BarrierOK
    <2>9. launch.cluster_m + launch.cluster_n - 2 = T - 2 /\ launch.cluster_m + launch.cluster_n = T
      <3>1. PICK cm \in Nat, cn \in Nat : cm = launch.cluster_m /\ cn = launch.cluster_n
        BY <1>2
      <3>2. cm + cn = T
        BY <2>1, <3>1
      <3>3. cm + cn - 2 = T - 2
        BY <3>2
      <3> QED BY <3>1, <3>2, <3>3
    <2> QED BY <2>4, <2>8, <2>9, Zenon
  <1>4. ASSUME NEW b \in CTAs, NEW s \in Stages
        PROVE  BarrierOK(empty[b][s], 0, 0)
    <2>1. PICK n \in Nat, f \in Nat, c \in Nat :
             /\ n = empty[b][s].phases /\ f = Cardinality(Freed(b, s)) /\ c = Consumers /\ f < c
      <3>1. EmptyAt(b, s) \in Nat /\ empty[b][s].phases \in Nat
        BY <1>1, Places
      <3>2. /\ IsFiniteSet(Everybody(b, EmptyAt(b, s)))
            /\ Cardinality(Everybody(b, EmptyAt(b, s))) = Consumers
        BY <1>2, <3>1, EverybodyIs
      <3>3. /\ Freed(b, s) \in SUBSET Everybody(b, EmptyAt(b, s))
            /\ Freed(b, s) # Everybody(b, EmptyAt(b, s))
        BY <1>1 DEF PipeInv, EmptyInv, Freed
      <3>4. Cardinality(Freed(b, s)) < Cardinality(Everybody(b, EmptyAt(b, s)))
            /\ Cardinality(Freed(b, s)) \in Nat /\ Cardinality(Everybody(b, EmptyAt(b, s))) \in Nat
        BY <3>2, <3>3, FS_Subset, FS_CardinalityType
      <3> QED BY <3>1, <3>2, <3>4
    <2>2. empty[b][s] = BarrierOf(c, n, c - f, 0)
      BY <1>1, <2>1 DEF PipeInv, EmptyInv
    <2>3. PICK p \in Int : p = c - f
      BY <2>1
    <2>6. PICK bar : bar = empty[b][s]
      OBVIOUS
    <2>4. bar.count = c /\ bar.pending = p /\ bar.tx = 0 /\ bar.phases = n
      BY <2>2, <2>3, <2>6 DEF BarrierOf
    <2>5. p \in 1 .. c /\ 0 \in -0 .. 0
      BY <2>1, <2>3
    <2> QED BY <2>1, <2>4, <2>5, <2>6 DEF BarrierOK
  <1>5. ASSUME NEW b \in CTAs, NEW o \in DOMAIN order[b] PROVE BarrierOK(order[b][o], 0, 0)
    <2>1. PICK n \in Nat : order[b][o] = OrderBarrier(n)
      <3>1. CASE Pingpong
        <4>1. PICK i \in {0, 1}, w \in WarpGroups : o = <<i, w>>
          <5>1. o \in (0 .. OrderDepth - 1) \X WarpGroups
            BY <1>1, <3>1 DEF IInv, ShapeInv
          <5>2. 0 .. OrderDepth - 1 = {0, 1}
            BY DEF OrderDepth
          <5> QED BY <5>1, <5>2
        <4>2. /\ order[b][<<0, w>>] = OrderBarrier(MmaEnded(b, 1 - w))
              /\ order[b][<<1, w>>] = OrderBarrier(Turn(b, 1 - w))
          BY <1>1, <3>1 DEF IInv, BlockInv, BarrierInv
        <4>3. MmaEnded(b, 1 - w) \in Nat /\ Turn(b, 1 - w) \in Nat
          BY <1>1, <3>1, Groups, Counts DEF IInv, BlockInv
        <4> QED BY <4>1, <4>2, <4>3
      <3>2. CASE ~Pingpong
        <4>1. order[b] = [p \in (0 .. OrderDepth - 1) \X WarpGroups |-> Barrier(1)]
          BY <1>1, <3>2 DEF OrderRests
        <4>2. order[b][o] = Barrier(1)
          BY <4>1
        <4> QED BY <4>2 DEF Barrier, OrderBarrier
      <3> QED BY <3>1, <3>2
    <2>2. PICK bar : bar = order[b][o]
      OBVIOUS
    <2>3. bar.count = 1 /\ bar.pending = 1 /\ bar.tx = 0 /\ bar.phases = n
      BY <2>1, <2>2 DEF OrderBarrier
    <2> QED BY <2>2, <2>3 DEF BarrierOK
  <1>6. ASSUME NEW b \in CTAs
        PROVE  /\ producer[b].pc \in {"load", "tail", "exit"}
               /\ producer[b].tile \in 0 .. launch.tiles
               /\ StateOK(producer[b].pipe, launch.stages)
               /\ StateOK(producer[b].write, launch.stages)
    <2>1. PICK p : p = producer[b]
      OBVIOUS
    <2>2. /\ p = [pc |-> p.pc, tile |-> p.tile, k |-> p.k, waited |-> p.waited,
                  pipe |-> At(p.tile * K + p.waited, 1), write |-> At(Loaded(b), 1)]
          /\ \/ p.pc = "load" /\ p.tile \in 0 .. launch.tiles - 1 /\ p.k \in 0 .. K - 1 /\ p.waited = 0
             \/ p.pc = "tail" /\ p.tile = launch.tiles /\ p.k = 0 /\ p.waited \in 0 .. Depth - 1
             \/ p.pc = "exit" /\ p.tile = launch.tiles /\ p.k = 0 /\ p.waited = Depth
      BY <1>1, <2>1 DEF PipeInv, ProducerInv
    <2>3. p.pc \in {"load", "tail", "exit"} /\ p.tile \in 0 .. launch.tiles /\ p.waited \in Nat
      BY <1>2, <2>2
    <2>4. PICK i \in Nat, j \in Nat : i = p.tile * K + p.waited /\ j = Loaded(b)
      <3>1. p.tile * K \in Nat
        BY <1>2, <2>3, TimesTypes
      <3> QED BY <1>1, <2>3, <3>1, Places
    <2>5. p.pipe = At(i, 1) /\ p.write = At(j, 1)
      BY <2>2, <2>4
    <2>6. StateOK(At(i, 1), launch.stages) /\ StateOK(At(j, 1), launch.stages)
      BY <1>2, PlacesInRange
    <2> QED BY <2>1, <2>3, <2>5, <2>6
  <1>7. ASSUME NEW b \in CTAs, NEW w \in WarpGroups
        PROVE  /\ math[b][w].pc \in {"order_mma", "mma", "mma_tail", "order_store", "store", "exit"}
               /\ math[b][w].k \in 0 .. K
               /\ StateOK(math[b][w].read, launch.stages)
               /\ StateOK(math[b][w].order, OrderDepth)
    <2>1. PICK m : m = math[b][w]
      OBVIOUS
    <2>2. m.pc \in {"order_mma", "mma", "mma_tail", "order_store", "store", "exit"}
      BY <1>1, <2>1 DEF PipeInv, MathInv, MathHolds, HasRead
    <2>3. m.k \in 0 .. K /\ m.tile \in Nat
      BY <1>1, <2>1, ReadingIs
    <2>4. StateOK(m.read, launch.stages)
      <3>1. PICK i \in Nat, j \in Nat : i = Taken(b, w) /\ j = (m.tile + TilesPerTurn) * K
        <4>1. m.tile + TilesPerTurn \in Nat
          BY <2>3 DEF TilesPerTurn
        <4>2. (m.tile + TilesPerTurn) * K \in Nat
          BY <1>2, <4>1, TimesTypes
        <4> QED BY <1>1, <4>2, Places
      <3>2. m.read = At(i, 0) \/ m.read = At(j, 0)
        BY <1>1, <2>1, <3>1 DEF PipeInv, MathInv, MathPipes
      <3>3. StateOK(At(i, 0), launch.stages) /\ StateOK(At(j, 0), launch.stages)
        BY <1>2, PlacesInRange
      <3> QED BY <3>2, <3>3
    <2>5. StateOK(m.order, OrderDepth)
      <3>1. PICK i \in {0, 1}, h \in {0, 1} : m.order = PipelineState(i, h)
        <4>1. CASE Pingpong
          <5>1. PlaceInv(b)
            BY <1>1, <4>1 DEF IInv, BlockInv
          <5>2. m.order = PipelineState(
                  IF m.pc \in {"mma_tail", "order_store", "store"} THEN 1 ELSE 0,
                  (Turn(b, w) + 1 - w) % 2)
            BY <2>1, <5>1 DEF PlaceInv
          <5>3. (Turn(b, w) + 1 - w) % 2 \in {0, 1}
            <6>1. Turn(b, w) \in Nat
              BY <5>1, Counts
            <6> QED BY <6>1 DEF WarpGroups
          <5> QED BY <5>2, <5>3
        <4>2. CASE ~Pingpong
          BY <1>1, <2>1, <4>2 DEF OrderRests
        <4> QED BY <4>1, <4>2
      <3> QED BY <3>1 DEF StateOK, PipelineState, OrderDepth
    <2> QED BY <2>1, <2>2, <2>3, <2>4, <2>5
  <1>8. \A m \in copies : m.to \in Sharing(m.from) /\ m.stage \in Stages
    BY <1>1 DEF PipeInv, CopyInv
  <1>9. \A m \in arrivals : m.to \in Sharing(m.from) /\ m.stage \in Stages
    BY <1>1 DEF PipeInv, ArrivalInv
  <1> QED BY <1>2, <1>3, <1>4, <1>5, <1>6, <1>7, <1>8, <1>9 DEF TypeOK, LaunchOK

\* Every launch, every interleaving of the warps, copies and arrivals landing
\* in any order: the mbarriers stay within their ranges (no more arrivals than a
\* phase counts, no bytes of a later phase on top of those of the current one),
\* and the warps keep to their places (PipelineTmaAsync).
THEOREM Typed == Spec => []TypeOK
  BY AlwaysWarpInv, WarpInvTypeOK, PTL

\* While MMAs read a stage, every slice in it, whichever block of the cluster
\* loaded it, is of the k tile the math warp group came for (consumer_wait and
\* producer_acquire with their phase bits, consumer_release to the whole row
\* and column of the cluster).
THEOREM ReadsTheTileItCameFor == Spec => []ReadsItsTile
  BY AlwaysWarpInv, WarpInvReadsItsTile, PTL

\* The parity of a phase is enough to tell it: the barrier a warp waits at is
\* one phase away from the one it waits for at most (wait of arch/barrier.h).
THEOREM ParityIsEnough == Spec => []ParityTellsPhases
  BY AlwaysWarpInv, WarpInvParityTellsPhases, PTL

\* When all warps of a block have exited, no copy and no arrival of another
\* block is on its way to it (load_tail, which waits for every stage to be
\* freed).
THEOREM NothingOnItsWayToAnExitedBlock == Spec => []NothingReachesAnExitedBlock
  BY AlwaysWarpInv, WarpInvNothingReaches, PTL
=============================================================================
