-------------------------- MODULE StreamKFixupThreads --------------------------
(***************************************************************************)
(* StreamKFixup one level down: the threads of each work-group,            *)
(* GenericBarrier's wait_eq and arrive_inc between them, and writes that   *)
(* reach the other work-groups later than they are issued.                 *)
(*                                                                         *)
(* BlockStriped gives thread t of every work-group the same stripe t of    *)
(* the slot, so stripes never mix; what can go wrong is when a stripe is   *)
(* visible.  A write is pending until it lands.  It may land by itself at  *)
(* any time; the release of red_release lands the writes ordered before it *)
(* -- thread 0's own, and the other threads' only if the work-group        *)
(* barrier before it orders memory (SyncFence):                            *)
(*   TRUE   syncthreads (SyncthreadsSync), bar.sync,                       *)
(*   FALSE  NamedBarrier on an Intel target, whose split barrier is issued *)
(*          with memory semantics 0.                                       *)
(* overtaken, a history variable that no step reads, has the stripes whose *)
(* write was still pending when the flag was raised for it.                *)
(* Deterministic mode; the tile has at least two splits.                   *)
(***************************************************************************)
EXTENDS StreamKSplits, Integers

CONSTANTS N,         \* threads per work-group
          SyncFence  \* does the work-group barrier order memory?

ASSUME ThreadsAssumption ==
    /\ N \in Nat \ {0}
    /\ SyncFence \in BOOLEAN
    /\ Splits # {0}

Threads == 0 .. N - 1

VARIABLES pc,       \* where each thread of each work-group is
          pending,  \* <<split, thread>> of the writes issued but not landed
          slot,     \* the slot of the reduction workspace, per stripe
          flag,     \* the tile's lock
          sum,      \* registers of the final split, per thread
          D,        \* the output tile, per stripe
          overtaken \* history: the stripes with a write that came too late

vars == <<pc, pending, slot, flag, sum, D, overtaken>>

Init ==
    /\ pc = [p \in Splits |-> [t \in Threads |-> "mainloop"]]
    /\ pending = {}
    /\ slot = [t \in Threads |-> Complete]     \* left by an earlier launch
    /\ flag = 0
    /\ sum = [t \in Threads |-> Unwritten]
    /\ D = [t \in Threads |-> Unwritten]
    /\ overtaken = {}

Goto(p, t, place) == pc' = [pc EXCEPT ![p][t] = place]

\* No thread of the work-group is still at one of these places.
NoneAt(p, places) == \A t \in Threads : pc[p][t] \notin places

-----------------------------------------------------------------------------
\* A thread is through its mainloop.  The first split does not wait; for the
\* others thread 0 spins and the rest go to the work-group barrier at once.
Mainloop(p, t) ==
    /\ pc[p][t] = "mainloop"
    /\ Goto(p, t, IF p = 0 THEN "access" ELSE IF t = 0 THEN "spin" ELSE "wait_sync")
    /\ UNCHANGED <<pending, slot, flag, sum, D, overtaken>>

\* Mutant: the spin ends as soon as anything has arrived.
Spin_AnyArrival(p) ==
    /\ pc[p][0] = "spin"
    /\ flag # 0
    /\ Goto(p, 0, "wait_sync")
    /\ UNCHANGED <<pending, slot, flag, sum, D, overtaken>>

\* wait_eq: thread 0 has read the flag it waits for.
Spin(p) ==
    /\ pc[p][0] = "spin"
    /\ flag = p
    /\ Goto(p, 0, "wait_sync")
    /\ UNCHANGED <<pending, slot, flag, sum, D, overtaken>>

\* Mutant: wait_eq without its Sync::sync().
WaitSync_NoBarrier(p, t) ==
    /\ pc[p][t] = "wait_sync"
    /\ Goto(p, t, "access")
    /\ UNCHANGED <<pending, slot, flag, sum, D, overtaken>>

\* wait_eq: Sync::sync() holds everybody until thread 0 has seen the flag.
WaitSync(p, t) ==
    /\ pc[p][t] = "wait_sync"
    /\ NoneAt(p, {"mainloop", "spin"})
    /\ Goto(p, t, "access")
    /\ UNCHANGED <<pending, slot, flag, sum, D, overtaken>>

\* store or reduce of the thread's stripe: issued, not yet visible.
Write(p, t) ==
    /\ pc[p][t] = "access"
    /\ ~is_final_split(p)
    /\ pending' = pending \cup {<<p, t>>}
    /\ Goto(p, t, "arrive_sync")
    /\ UNCHANGED <<slot, flag, sum, D, overtaken>>

\* What the stripe t holds once the write of split p has landed.
Landed(p, t) == IF p = 0 THEN Only(0) ELSE Add(slot[t], Only(p))

\* A write lands by itself.
Land(p, t) ==
    /\ <<p, t>> \in pending
    /\ slot' = [slot EXCEPT ![t] = Landed(p, t)]
    /\ pending' = pending \ {<<p, t>>}
    /\ UNCHANGED <<pc, flag, sum, D, overtaken>>

\* Mutant: arrive_inc without its Sync::sync().
ArriveSync_NoBarrier(p, t) ==
    /\ pc[p][t] = "arrive_sync"
    /\ Goto(p, t, IF t = 0 THEN "signal" ELSE "done")
    /\ UNCHANGED <<pending, slot, flag, sum, D, overtaken>>

\* arrive_inc: Sync::sync() after everybody has issued its writes.
ArriveSync(p, t) ==
    /\ pc[p][t] = "arrive_sync"
    /\ NoneAt(p, {"mainloop", "spin", "wait_sync", "access"})
    /\ Goto(p, t, IF t = 0 THEN "signal" ELSE "done")
    /\ UNCHANGED <<pending, slot, flag, sum, D, overtaken>>

\* Threads whose earlier writes thread 0's release makes visible.
Released == IF SyncFence THEN Threads ELSE {0}

\* Stripes the split's threads have written, but not visibly for everybody.
Late(p) == {t \in Threads \ Released : <<p, t>> \in pending}

\* Mutant: the flag counts the k tiles down.
Signal_Down(p) ==
    /\ pc[p][0] = "signal"
    /\ slot' = [t \in Threads |-> IF t \in Released /\ <<p, t>> \in pending
                                  THEN Landed(p, t) ELSE slot[t]]
    /\ pending' = pending \ ({p} \X Released)
    /\ flag' = flag - k_tile_count[p]
    /\ overtaken' = overtaken \cup Late(p)
    /\ Goto(p, 0, "done")
    /\ UNCHANGED <<sum, D>>

\* arrive_inc: thread 0 fences and adds to the flag.
Signal(p) ==
    /\ pc[p][0] = "signal"
    /\ slot' = [t \in Threads |-> IF t \in Released /\ <<p, t>> \in pending
                                  THEN Landed(p, t) ELSE slot[t]]
    /\ pending' = pending \ ({p} \X Released)
    /\ flag' = flag + k_tile_count[p]
    /\ overtaken' = overtaken \cup Late(p)
    /\ Goto(p, 0, "done")
    /\ UNCHANGED <<sum, D>>

\* load_add of the thread's stripe by the final split.
Load(p, t) ==
    /\ pc[p][t] = "access"
    /\ is_final_split(p)
    /\ sum' = [sum EXCEPT ![t] = Add(Only(p), slot[t])]
    /\ Goto(p, t, "epilogue")
    /\ UNCHANGED <<pending, slot, flag, D, overtaken>>

Epilogue(p, t) ==
    /\ pc[p][t] = "epilogue"
    /\ D' = [D EXCEPT ![t] = sum[t]]
    /\ Goto(p, t, "done")
    /\ UNCHANGED <<pending, slot, flag, sum, overtaken>>

ThreadStep(p, t) ==
    \/ Mainloop(p, t) \/ WaitSync(p, t) \/ Write(p, t) \/ ArriveSync(p, t)
    \/ Load(p, t) \/ Epilogue(p, t)
    \/ t = 0 /\ (Spin(p) \/ Signal(p))

Next == \E p \in Splits, t \in Threads : ThreadStep(p, t) \/ Land(p, t)

\* Threads of resident work-groups run independently; no fairness for Land.
Spec     == Init /\ [][Next]_vars
FairSpec == Spec /\ \A p \in Splits, t \in Threads : WF_vars(ThreadStep(p, t))

-----------------------------------------------------------------------------
\* Every variable stays in its range.
TypeOK ==
    /\ pc \in [Splits -> [Threads ->
                 {"mainloop", "spin", "wait_sync", "access", "arrive_sync",
                  "signal", "epilogue", "done"}]]
    /\ pending \subseteq Splits \X Threads
    /\ slot \in [Threads -> Sums]
    /\ flag \in 0 .. T
    /\ sum \in [Threads -> Sums]
    /\ D \in [Threads -> Sums]

\* A counted arrival stands for the whole work-group: once the flag has moved
\* past a split every one of its threads has written, and what barrier and release
\* order is visible; a write that is not was pending when the flag was raised.
ArrivalPublishesAll ==
    \A p \in Splits : p < flag =>
        /\ NoneAt(p, {"mainloop", "spin", "wait_sync", "access"})
        /\ \A t \in Threads : <<p, t>> \in pending => t \notin Released /\ t \in overtaken

\* Nobody touches the slot before its turn: a thread that got through wait_eq
\* finds the flag at its own split.
AccessInTurn ==
    \A p \in Splits, t \in Threads :
        pc[p][t] = "access" /\ p # 0 => flag = p

\* Every stripe of the tile goes from unwritten to complete, exactly once, and
\* eventually does: the threads together keep the promise about the tile.  A
\* stripe with an overtaken write is written too, but may hold anything; nothing
\* else spoils a stripe.
Output == [t \in Threads |-> IF t \in overtaken /\ D[t] # Unwritten THEN Complete ELSE D[t]]
Promise == INSTANCE GemmOutput WITH Parts <- Threads, Terms <- Splits, out <- Output
ImplementsPromise == Promise!FairSpec
=============================================================================
