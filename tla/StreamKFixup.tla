----------------------------- MODULE StreamKFixup -----------------------------
(***************************************************************************)
(* The reduction of one output tile whose k extent is split over several   *)
(* work-groups (fixup_helper of PersistentTileSchedulerXeStreamK, called   *)
(* from the loop of the Xe cooperative kernel).                            *)
(*                                                                         *)
(* The first split stores its accumulators in the tile's slot of the       *)
(* reduction workspace, the middle ones add theirs when their turn comes,  *)
(* and the final one adds the slot to its own accumulators and runs the    *)
(* epilogue.                                                               *)
(* One flag per tile counts the k tiles accumulated so far: it is both the *)
(* turnstile and the completion count.  The slot is never cleared, so it   *)
(* starts with whatever an earlier use left there; the flag starts at zero.*)
(*                                                                         *)
(* Steps are those of a whole work-group: StreamKFixupThreads shows that   *)
(* its threads can be treated as one.                                      *)
(***************************************************************************)
EXTENDS StreamKSplits, Integers

CONSTANTS reduction_mode, \* "Deterministic" or "Nondeterministic"
          MaxStale        \* bound on what the uncleared slot may hold

ASSUME ModeAssumption ==
    /\ reduction_mode \in {"Deterministic", "Nondeterministic"}
    /\ MaxStale \in Nat

VARIABLES pc,            \* where the work-group of each split is
          accumulators,  \* its registers
          workspace,     \* the tile's slot of the reduction workspace
          flag,          \* the tile's lock
          D              \* the tile in the output

vars == <<pc, accumulators, workspace, flag, D>>

Init ==
    /\ pc = [p \in Splits |-> "mainloop"]
    /\ accumulators = [p \in Splits |-> Unwritten]
    /\ workspace \in [Splits -> 0 .. MaxStale]
    /\ flag = 0
    /\ D = Unwritten

-----------------------------------------------------------------------------
\* collective_mma over the k tiles of the split; a tile computed by one
\* work-group alone goes straight to the epilogue.
Mainloop(p) ==
    /\ pc[p] = "mainloop"
    /\ accumulators' = [accumulators EXCEPT ![p] = Only(p)]
    /\ pc' = [pc EXCEPT ![p] = IF requires_fixup(p) THEN "fixup" ELSE "epilogue"]
    /\ UNCHANGED <<workspace, flag, D>>

\* BlockStripedReduce::store by the first split.
Store(p) ==
    /\ pc[p] = "fixup"
    /\ ~is_final_split(p)
    /\ p = 0
    /\ workspace' = accumulators[p]
    /\ pc' = [pc EXCEPT ![p] = "arrive"]
    /\ UNCHANGED <<accumulators, flag, D>>

\* Mutant: the wait is satisfied as soon as the first split has stored.
WaitTurn_AfterFirst(p) ==
    /\ pc[p] = "fixup"
    /\ ~is_final_split(p)
    /\ p # 0
    /\ flag >= 1
    /\ pc' = [pc EXCEPT ![p] = "reduce"]
    /\ UNCHANGED <<accumulators, workspace, flag, D>>

\* wait_eq(K_idx) by a middle split: all the splits before it have arrived.
WaitTurn(p) ==
    /\ pc[p] = "fixup"
    /\ ~is_final_split(p)
    /\ p # 0
    /\ flag = p
    /\ pc' = [pc EXCEPT ![p] = "reduce"]
    /\ UNCHANGED <<accumulators, workspace, flag, D>>

\* BlockStripedReduce::reduce, an atomic add per element.
Reduce(p) ==
    /\ pc[p] = "reduce"
    /\ workspace' = Add(workspace, accumulators[p])
    /\ pc' = [pc EXCEPT ![p] = "arrive"]
    /\ UNCHANGED <<accumulators, flag, D>>

\* Mutant: a split reports one arrival instead of its k tiles.
Arrive_ByOne(p) ==
    /\ pc[p] = "arrive"
    /\ flag' = flag + 1
    /\ pc' = [pc EXCEPT ![p] = "done"]
    /\ UNCHANGED <<accumulators, workspace, D>>

\* Mutant: the flag counts the k tiles down.
Arrive_Down(p) ==
    /\ pc[p] = "arrive"
    /\ flag' = flag - k_tile_count[p]
    /\ pc' = [pc EXCEPT ![p] = "done"]
    /\ UNCHANGED <<accumulators, workspace, D>>

\* arrive_inc(k_tile_count).
Arrive(p) ==
    /\ pc[p] = "arrive"
    /\ flag' = flag + k_tile_count[p]
    /\ pc' = [pc EXCEPT ![p] = "done"]
    /\ UNCHANGED <<accumulators, workspace, D>>

\* Mutant: the final split waits for the first one in either mode.
WaitPartials_FirstOnly(p) ==
    /\ pc[p] = "fixup"
    /\ is_final_split(p)
    /\ flag >= 1
    /\ pc' = [pc EXCEPT ![p] = "load"]
    /\ UNCHANGED <<accumulators, workspace, flag, D>>

\* The final split waits for all splits (wait_eq) or, in nondeterministic
\* mode, only for the first one to have stored (wait_lt).
WaitPartials(p) ==
    /\ pc[p] = "fixup"
    /\ is_final_split(p)
    /\ IF reduction_mode = "Deterministic" THEN flag = p ELSE flag >= 1
    /\ pc' = [pc EXCEPT ![p] = "load"]
    /\ UNCHANGED <<accumulators, workspace, flag, D>>

\* BlockStripedReduce::load_add into the final split's accumulators.
LoadAdd(p) ==
    /\ pc[p] = "load"
    /\ accumulators' = [accumulators EXCEPT ![p] = Add(@, workspace)]
    /\ pc' = [pc EXCEPT ![p] = "epilogue"]
    /\ UNCHANGED <<workspace, flag, D>>

\* The epilogue writes the tile.
Epilogue(p) ==
    /\ pc[p] = "epilogue"
    /\ D' = accumulators[p]
    /\ pc' = [pc EXCEPT ![p] = "done"]
    /\ UNCHANGED <<accumulators, workspace, flag>>

Step(p) ==
    \/ Mainloop(p) \/ Store(p) \/ WaitTurn(p) \/ Reduce(p) \/ Arrive(p)
    \/ WaitPartials(p) \/ LoadAdd(p) \/ Epilogue(p)

Next == \E p \in Splits : Step(p)

\* Work-groups that are resident make progress independently of each other;
\* the grid never has more of them than the device runs at once.
Spec     == Init /\ [][Next]_vars
FairSpec == Spec /\ \A p \in Splits : WF_vars(Step(p))

-----------------------------------------------------------------------------
Locations == {"mainloop", "fixup", "reduce", "arrive", "load", "epilogue", "done"}

\* Every variable stays in its range.
TypeOK ==
    /\ pc \in [Splits -> Locations]
    /\ accumulators \in [Splits -> Sums]
    /\ workspace \in Sums
    /\ flag \in Nat
    /\ D \in Sums

\* The slot holds exactly the splits that have had their turn, each once,
\* from the first store on: no partial sum is lost, doubled or left over from
\* an earlier use of the workspace (store, reduce and the flag together).
InTurn(q) == q < flag \/ (q = flag /\ pc[q] = "arrive")
WorkspaceInOrder ==
    flag > 0 \/ pc[0] = "arrive" =>
        workspace = [q \in Splits |-> IF InTurn(q) THEN 1 ELSE 0]

\* Whoever is between its wait and its arrival is alone with the slot
\* (ReductionMode::Deterministic promises a lock that is held exclusively by
\* the work-group that is accumulating): neither a second accumulator nor an early reader.
HoldsTurn(p) == pc[p] \in {"reduce", "arrive", "load"}
TurnstileExclusive ==
    \A p, q \in Splits : HoldsTurn(p) /\ HoldsTurn(q) => p = q

\* The tile is written only with every split accumulated exactly once.
OutputComplete == D # Unwritten => D = Complete

\* Every work-group gets past its waits and the tile is written.
EventuallyWritten == <>(D = Complete /\ \A p \in Splits : pc[p] = "done")

\* When what the final split waits for is all there is to wait for: always in
\* deterministic mode, else only if no split lies between first and final.
WaitSuffices ==
    \/ reduction_mode = "Deterministic"
    \/ \A p, q \in Splits \ {0} : p = q

\* The inductive invariant: the flag names the split whose turn it is.
FlagInv ==
    /\ flag \in Splits
    /\ \A p \in Splits : p < flag => pc[p] = "done"
    /\ \A p \in Splits : pc[p] = "done" => is_final_split(p) \/ p < flag

LocationInv ==
    \A p \in Splits :
        /\ pc[p] \in {"fixup", "reduce", "arrive", "load"} => requires_fixup(p)
        /\ pc[p] \in {"reduce", "arrive"} => ~is_final_split(p)
        /\ pc[p] \in {"load", "epilogue"} => is_final_split(p)
        /\ pc[p] = "reduce" => p # 0
        /\ HoldsTurn(p) => flag = p

AccumulatorInv ==
    \A p \in Splits :
        /\ pc[p] \in {"fixup", "reduce", "arrive", "load"} => accumulators[p] = Only(p)
        /\ pc[p] = "epilogue" => accumulators[p] = Complete

OutputInv ==
    /\ D \in {Unwritten, Complete}
    /\ \A p \in Splits : is_final_split(p) /\ pc[p] # "done" => D = Unwritten

IInv == /\ TypeOK /\ FlagInv /\ LocationInv
        /\ WorkspaceInOrder /\ AccumulatorInv /\ OutputInv

\* The protocol implements the promise about one tile.
Promise == INSTANCE GemmOutput WITH
    Parts <- {"tile"}, Terms <- Splits, out <- [part \in {"tile"} |-> D]
ImplementsPromise == Promise!FairSpec
=============================================================================
