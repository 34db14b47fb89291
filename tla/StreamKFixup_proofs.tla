-------------------------- MODULE StreamKFixup_proofs --------------------------
(***************************************************************************)
(* Proofs about the fixup protocol for every number of k tiles, every      *)
(* partition of them into splits and every stale content of the slot.      *)
(* The safety theorems assume WaitSuffices: without it the protocol is     *)
(* wrong, as the run of nondeterministic mode with a middle split shows.   *)
(***************************************************************************)
EXTENDS StreamKFixup, TLAPS

\* Splits are ordered like their k extents: nothing lies inside a split, and
\* there is one final split, with every other before it.
LEMMA SplitOrder ==
    ASSUME NEW p \in Splits
    PROVE  /\ p \in Nat /\ k_tile_count[p] \in Nat /\ p + k_tile_count[p] > p
           /\ is_final_split(p) => \A q \in Splits : q <= p
           /\ ~is_final_split(p) => p + k_tile_count[p] \in Splits
           /\ \A q \in Splits : q < p + k_tile_count[p] <=> q <= p
           /\ ~requires_fixup(p) => p = 0 /\ is_final_split(p)
           /\ is_final_split(p) /\ requires_fixup(p) => p # 0
  BY SplitsAssumption DEF is_final_split, requires_fixup

USE SplitsAssumption, ModeAssumption

\* Type correctness.
THEOREM TypeCorrect == Spec => []TypeOK
  <1>1. Init => TypeOK
    BY DEF Init, TypeOK, Locations, Sums, Unwritten
  <1>2. TypeOK /\ [Next]_vars => TypeOK'
    <2> SUFFICES ASSUME TypeOK, [Next]_vars PROVE TypeOK'
      OBVIOUS
    <2> USE DEF TypeOK, Locations, Sums
    <2>1. ASSUME NEW p \in Splits, Step(p) PROVE TypeOK'
      <3> p \in Nat /\ k_tile_count[p] \in Nat
        BY SplitOrder
      <3>1. CASE Mainloop(p)  BY <3>1 DEF Mainloop, Only
      <3>2. CASE Store(p)  BY <3>2 DEF Store
      <3>3. CASE WaitTurn(p)  BY <3>3 DEF WaitTurn
      <3>4. CASE Reduce(p)  BY <3>4 DEF Reduce, Add
      <3>5. CASE Arrive(p)  BY <3>5 DEF Arrive
      <3>6. CASE WaitPartials(p)  BY <3>6 DEF WaitPartials
      <3>7. CASE LoadAdd(p)  BY <3>7 DEF LoadAdd, Add
      <3>8. CASE Epilogue(p)  BY <3>8 DEF Epilogue
      <3> QED BY <2>1, <3>1, <3>2, <3>3, <3>4, <3>5, <3>6, <3>7, <3>8 DEF Step
    <2>2. CASE UNCHANGED vars  BY <2>2 DEF vars
    <2> QED BY <2>1, <2>2 DEF Next
  <1> QED BY <1>1, <1>2, PTL DEF Spec

LEMMA InitIInv == Init => IInv
  <1> SUFFICES ASSUME Init PROVE IInv
    OBVIOUS
  <1>1. TypeOK
    BY DEF Init, TypeOK, Locations, Sums, Unwritten
  <1>2. FlagInv /\ LocationInv /\ AccumulatorInv /\ OutputInv
    BY SplitOrder DEF Init, FlagInv, LocationInv, HoldsTurn, AccumulatorInv, OutputInv
  <1>3. WorkspaceInOrder
    BY DEF Init, WorkspaceInOrder
  <1> QED BY <1>1, <1>2, <1>3 DEF IInv

\* A step of the work-group of one split preserves the inductive invariant.
LEMMA StepIInv ==
    ASSUME WaitSuffices, IInv, TypeOK', NEW p \in Splits, Step(p)
    PROVE  IInv'
  <1> USE DEF IInv
  <1>a. \A q \in Splits : q \in Nat
    BY SplitOrder
  <1>1. CASE Mainloop(p)
    <2> USE <1>1 DEF Mainloop
    <2>1. FlagInv'
      BY <1>a DEF TypeOK, FlagInv
    <2>2. LocationInv'
      BY SplitOrder DEF TypeOK, LocationInv, HoldsTurn
    <2>3. AccumulatorInv'
      <3>1. ~requires_fixup(p) => Only(p) = Complete
        BY SplitOrder DEF Only, Complete
      <3> QED BY <3>1 DEF TypeOK, AccumulatorInv
    <2>4. WorkspaceInOrder'
      BY <1>a DEF TypeOK, FlagInv, WorkspaceInOrder, InTurn
    <2>5. OutputInv'
      BY DEF TypeOK, OutputInv
    <2> QED BY <2>1, <2>2, <2>3, <2>4, <2>5
  <1>2. CASE Store(p)
    <2> USE <1>2 DEF Store
    <2>1. FlagInv'
      BY <1>a DEF TypeOK, FlagInv
    <2>2. flag = 0
      BY <1>a DEF TypeOK, FlagInv
    <2>3. LocationInv'
      BY <2>2 DEF TypeOK, LocationInv, HoldsTurn
    <2>4. AccumulatorInv'
      BY DEF TypeOK, AccumulatorInv
    <2>5. WorkspaceInOrder'
      BY <1>a, <2>2 DEF TypeOK, AccumulatorInv, WorkspaceInOrder, InTurn, Only
    <2>6. OutputInv'
      BY DEF TypeOK, OutputInv
    <2> QED BY <2>1, <2>3, <2>4, <2>5, <2>6
  <1>3. CASE WaitTurn(p)
    <2> USE <1>3 DEF WaitTurn
    <2>1. FlagInv'
      BY <1>a DEF TypeOK, FlagInv
    <2>2. LocationInv'
      BY DEF TypeOK, LocationInv, HoldsTurn
    <2>3. AccumulatorInv'
      BY DEF TypeOK, AccumulatorInv
    <2>4. WorkspaceInOrder'
      BY <1>a DEF TypeOK, WorkspaceInOrder, InTurn
    <2>5. OutputInv'
      BY DEF TypeOK, OutputInv
    <2> QED BY <2>1, <2>2, <2>3, <2>4, <2>5
  <1>4. CASE Reduce(p)
    <2> USE <1>4 DEF Reduce
    <2>1. flag = p /\ p # 0
      BY DEF LocationInv, HoldsTurn
    <2>2. FlagInv'
      BY <1>a DEF TypeOK, FlagInv
    <2>3. LocationInv'
      BY DEF TypeOK, LocationInv, HoldsTurn
    <2>4. AccumulatorInv'
      BY DEF TypeOK, AccumulatorInv
    <2>5. WorkspaceInOrder'
      <3>1. workspace = [q \in Splits |-> IF q < p THEN 1 ELSE 0]
        BY <1>a, <2>1 DEF TypeOK, WorkspaceInOrder, InTurn
      <3>2. accumulators[p] = Only(p)
        BY DEF AccumulatorInv
      <3>3. workspace' = [q \in Splits |-> IF q < p \/ q = p THEN 1 ELSE 0]
        BY <1>a, <3>1, <3>2 DEF Add, Only
      <3> QED BY <1>a, <2>1, <3>3 DEF TypeOK, WorkspaceInOrder, InTurn
    <2>6. OutputInv'
      BY DEF TypeOK, OutputInv
    <2> QED BY <2>2, <2>3, <2>4, <2>5, <2>6
  <1>5. CASE Arrive(p)
    <2> USE <1>5 DEF Arrive
    <2>1. flag = p /\ ~is_final_split(p)
      BY DEF LocationInv, HoldsTurn
    <2>2. flag' \in Splits /\ \A q \in Splits : q < flag' <=> q <= p
      BY <2>1, SplitOrder
    <2>3. FlagInv'
      BY <1>a, <2>1, <2>2 DEF TypeOK, FlagInv
    <2>4. \A q \in Splits : HoldsTurn(q) => q = p
      BY <2>1 DEF LocationInv
    <2>5. LocationInv'
      BY <2>4 DEF TypeOK, LocationInv, HoldsTurn
    <2>6. AccumulatorInv'
      BY DEF TypeOK, AccumulatorInv
    <2>7. WorkspaceInOrder'
      <3>1. workspace = [q \in Splits |-> IF q <= p THEN 1 ELSE 0]
        BY <1>a, <2>1 DEF TypeOK, WorkspaceInOrder, InTurn
      <3>2. \A q \in Splits : pc'[q] # "arrive"
        BY <2>4 DEF TypeOK, HoldsTurn
      <3>3. \A q \in Splits : InTurn(q)' <=> q <= p
        BY <2>2, <3>2 DEF InTurn
      <3> QED BY <3>1, <3>3 DEF WorkspaceInOrder
    <2>8. OutputInv'
      BY DEF TypeOK, OutputInv, LocationInv
    <2> QED BY <2>3, <2>5, <2>6, <2>7, <2>8
  <1>6. CASE WaitPartials(p)
    <2> USE <1>6 DEF WaitPartials
    <2>1. p # 0
      BY SplitOrder DEF LocationInv
    <2>2. flag = p
      BY <2>1, <1>a DEF WaitSuffices, FlagInv
    <2>3. FlagInv'
      BY <1>a DEF TypeOK, FlagInv
    <2>4. LocationInv'
      BY <2>2 DEF TypeOK, LocationInv, HoldsTurn
    <2>5. AccumulatorInv'
      BY DEF TypeOK, AccumulatorInv
    <2>6. WorkspaceInOrder'
      BY <1>a DEF TypeOK, WorkspaceInOrder, InTurn
    <2>7. OutputInv'
      BY DEF TypeOK, OutputInv
    <2> QED BY <2>3, <2>4, <2>5, <2>6, <2>7
  <1>7. CASE LoadAdd(p)
    <2> USE <1>7 DEF LoadAdd
    <2>1. flag = p /\ is_final_split(p) /\ requires_fixup(p)
      BY DEF LocationInv, HoldsTurn
    <2>2. FlagInv'
      BY <1>a DEF TypeOK, FlagInv
    <2>3. LocationInv'
      BY DEF TypeOK, LocationInv, HoldsTurn
    <2>4. AccumulatorInv'
      <3>1. p # 0 /\ \A q \in Splits : q <= p
        BY <2>1, SplitOrder
      <3>2. workspace = [q \in Splits |-> IF q < p THEN 1 ELSE 0]
        BY <1>a, <2>1, <3>1 DEF TypeOK, WorkspaceInOrder, InTurn
      <3>3. Add(Only(p), workspace) = Complete
        BY <1>a, <3>1, <3>2 DEF Add, Only, Complete
      <3>4. accumulators[p] = Only(p)
        BY DEF AccumulatorInv
      <3> QED BY <3>3, <3>4 DEF TypeOK, AccumulatorInv
    <2>5. WorkspaceInOrder'
      BY <1>a DEF TypeOK, WorkspaceInOrder, InTurn
    <2>6. OutputInv'
      BY DEF TypeOK, OutputInv
    <2> QED BY <2>2, <2>3, <2>4, <2>5, <2>6
  <1>8. CASE Epilogue(p)
    <2> USE <1>8 DEF Epilogue
    <2>1. is_final_split(p) /\ accumulators[p] = Complete
      BY DEF LocationInv, AccumulatorInv
    <2>2. FlagInv'
      BY <1>a, <2>1 DEF TypeOK, FlagInv
    <2>3. LocationInv'
      BY DEF TypeOK, LocationInv, HoldsTurn
    <2>4. AccumulatorInv'
      BY DEF TypeOK, AccumulatorInv
    <2>5. WorkspaceInOrder'
      BY <1>a DEF TypeOK, WorkspaceInOrder, InTurn
    <2>6. OutputInv'
      <3>1. \A q \in Splits : is_final_split(q) => q = p
        BY <1>a, <2>1, SplitOrder
      <3> QED BY <2>1, <3>1 DEF TypeOK, OutputInv
    <2> QED BY <2>2, <2>3, <2>4, <2>5, <2>6
  <1> QED
    BY <1>1, <1>2, <1>3, <1>4, <1>5, <1>6, <1>7, <1>8 DEF Step

\* The inductive invariant holds throughout.
THEOREM Invariance ==
    ASSUME WaitSuffices
    PROVE  Spec => []IInv
  <1>1. IInv /\ TypeOK' /\ [Next]_vars => IInv'
    <2> SUFFICES ASSUME IInv, TypeOK', [Next]_vars PROVE IInv'
      OBVIOUS
    <2>1. CASE Next
      BY <2>1, StepIInv DEF Next
    <2>2. CASE UNCHANGED vars
      BY <2>2 DEF vars, IInv, TypeOK, FlagInv, LocationInv, HoldsTurn, WorkspaceInOrder,
                  InTurn, AccumulatorInv, OutputInv
    <2> QED BY <2>1, <2>2
  <1> QED BY <1>1, InitIInv, TypeCorrect, PTL DEF Spec

\* Only one work-group at a time is between its wait and its arrival.
THEOREM MutualExclusion ==
    ASSUME WaitSuffices
    PROVE  Spec => []TurnstileExclusive
  <1>1. IInv => TurnstileExclusive
    BY DEF IInv, LocationInv, TurnstileExclusive
  <1> QED BY <1>1, Invariance, PTL

\* The slot always holds exactly the splits that had their turn.
THEOREM WorkspaceCorrect ==
    ASSUME WaitSuffices
    PROVE  Spec => []WorkspaceInOrder
  <1>1. IInv => WorkspaceInOrder
    BY DEF IInv
  <1> QED BY <1>1, Invariance, PTL

\* The tile is only ever written complete.
THEOREM OutputCorrect ==
    ASSUME WaitSuffices
    PROVE  Spec => []OutputComplete
  <1>1. IInv => OutputComplete
    BY DEF IInv, OutputInv, OutputComplete
  <1> QED BY <1>1, Invariance, PTL

\* The protocol implements the safety part of the promise about one tile: the
\* epilogue of the final split is the one write, every other step a stutter.
THEOREM Implements ==
    ASSUME WaitSuffices
    PROVE  Spec => Promise!Spec
  <1> USE DEF Unwritten, Complete, Promise!Unwritten, Promise!Complete
  <1> DEFINE out == [part \in {"tile"} |-> D]
  <1>1. Init => Promise!Init
    BY DEF Init, Promise!Init
  <1>2. IInv /\ [Next]_vars => [Promise!Next]_out
    <2> SUFFICES ASSUME IInv, [Next]_vars PROVE Promise!Next \/ UNCHANGED out
      OBVIOUS
    <2>1. ASSUME NEW p \in Splits, Epilogue(p) PROVE Promise!Write("tile")
      <3>1. is_final_split(p) /\ pc[p] # "done" /\ accumulators[p] = Complete
        BY <2>1 DEF IInv, LocationInv, AccumulatorInv, Epilogue
      <3> QED BY <2>1, <3>1 DEF IInv, OutputInv, Epilogue, Promise!Write
    <2>2. ASSUME NEW p \in Splits, Step(p) PROVE Epilogue(p) \/ UNCHANGED D
      BY <2>2 DEF Step, Mainloop, Store, WaitTurn, Reduce, Arrive, WaitPartials, LoadAdd
    <2>3. CASE UNCHANGED vars
      BY <2>3 DEF vars
    <2> QED BY <2>1, <2>2, <2>3 DEF Next, Promise!Next
  <1> QED BY <1>1, <1>2, Invariance, PTL DEF Spec, Promise!Spec
=============================================================================
