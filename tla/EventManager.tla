----------------------------- MODULE EventManager -----------------------------
(***************************************************************************)
(* EventManager, the process-wide buffer of kernel events, and the         *)
(* SYCLTimer objects that mark places in it (CUTLASS_SYCL_PROFILING_ENABLED). *)
(* Every launch appends its event; a timer's start and stop note how many  *)
(* events there are, and its reading is over the events in between.  The   *)
(* buffer is emptied when the marks of all timers are given back.          *)
(*                                                                         *)
(* An event is the number of its launch.  A reading changes nothing, so it *)
(* is an operator (milliseconds) and the properties ask it in every state. *)
(***************************************************************************)
EXTENDS Integers, Sequences, FiniteSets

CONSTANTS Timers,       \* the timer objects of the program
          Capacities,   \* the values of maxCapacity it may set
          MaxLaunches,  \* bound: kernel launches
          Careful       \* TRUE: as GPU_Clock's users in the repository do, a
                        \* timer is stopped only when started, and destroyed
                        \* only when stopped

ASSUME EventManagerAssumption ==
    /\ IsFiniteSet(Timers)
    /\ Capacities \subseteq Nat
    /\ MaxLaunches \in Nat
    /\ Careful \in BOOLEAN

Unset       == -1
OutOfBounds == <<-1>>   \* what a reading that throws is worth

VARIABLES events,       \* the events kept
          recorders,    \* how many marks are out
          maxCapacity,
          timers,       \* the timers alive: start_ and stop_ of each
          launched,     \* launches so far
          measured,     \* history: what each timer alive was started and stopped around
          dropped       \* history: the timers alive whose events a full buffer dropped

vars == <<events, recorders, maxCapacity, timers, launched, measured, dropped>>

Alive == DOMAIN timers

Init ==
    /\ events = <<>>
    /\ recorders = 0
    /\ maxCapacity \in Capacities
    /\ timers = [t \in {} |-> 0]
    /\ launched = 0
    /\ measured = [t \in {} |-> <<>>]
    /\ dropped = {}

SetMaxCapacity(c) ==
    /\ maxCapacity' = c
    /\ UNCHANGED <<events, recorders, timers, launched, measured, dropped>>

NewTimer(t) ==
    /\ t \notin Alive
    /\ timers'   = [u \in Alive \cup {t} |-> IF u = t THEN [start |-> Unset, stop |-> Unset] ELSE timers[u]]
    /\ measured' = [u \in Alive \cup {t} |-> IF u = t THEN <<>> ELSE measured[u]]
    /\ UNCHANGED <<events, recorders, maxCapacity, launched, dropped>>

\* Mutant: a stop is not counted.
Record_StartOnly(t, mark) ==
    /\ t \in Alive
    /\ timers[t][mark] = Unset
    /\ recorders' = IF mark = "start" THEN recorders + 1 ELSE recorders
    /\ timers' = [timers EXCEPT ![t][mark] = Len(events)]
    /\ UNCHANGED <<events, maxCapacity, launched, measured, dropped>>

\* start() and stop(): a timer marks each once; a second time throws and changes
\* nothing.
Record(t, mark) ==
    /\ t \in Alive
    /\ Careful /\ mark = "stop" => timers[t].start # Unset
    /\ timers[t][mark] = Unset
    /\ recorders' = recorders + 1
    /\ timers' = [timers EXCEPT ![t][mark] = Len(events)]
    /\ UNCHANGED <<events, maxCapacity, launched, measured, dropped>>

Measuring(t) == timers[t].start # Unset /\ timers[t].stop = Unset

\* A full buffer is dropped, and an exception thrown: the marks taken in it stay
\* out.  The program may catch it and go on.
Overflow ==
    /\ events' = <<>>
    /\ dropped' = dropped \cup {t \in Alive : timers[t].start # Unset}
    /\ UNCHANGED <<recorders, maxCapacity, timers, measured>>

\* A kernel is launched and its event added.
AddEvent ==
    /\ launched < MaxLaunches
    /\ launched' = launched + 1
    /\ \/ /\ Len(events) + 1 < maxCapacity
          /\ events' = Append(events, launched')
          /\ measured' = [t \in Alive |-> IF Measuring(t) THEN Append(measured[t], launched')
                                                          ELSE measured[t]]
          /\ UNCHANGED <<recorders, maxCapacity, timers, dropped>>
       \/ /\ Len(events) + 1 >= maxCapacity
          /\ Overflow

Without(f, t) == [u \in DOMAIN f \ {t} |-> f[u]]

\* Mutant: one mark is given back.
Destroy_Once(t) ==
    /\ t \in Alive
    /\ timers[t].start # Unset /\ timers[t].stop # Unset
    /\ recorders' = recorders - 1
    /\ events' = IF recorders' = 0 THEN <<>> ELSE events
    /\ timers' = Without(timers, t)
    /\ measured' = Without(measured, t)
    /\ dropped' = dropped \ {t}
    /\ UNCHANGED <<maxCapacity, launched>>

\* Mutant: the buffer is emptied whenever a timer goes.
Destroy_AlwaysClear(t) ==
    /\ t \in Alive
    /\ timers[t].start # Unset /\ timers[t].stop # Unset
    /\ recorders' = recorders - 2
    /\ events' = <<>>
    /\ timers' = Without(timers, t)
    /\ measured' = Without(measured, t)
    /\ dropped' = dropped \ {t}
    /\ UNCHANGED <<maxCapacity, launched>>

\* ~SYCLTimer gives two marks back, one after the other.
Destroy(t) ==
    /\ t \in Alive
    /\ Careful => timers[t].start # Unset /\ timers[t].stop # Unset
    /\ recorders' = recorders - 2
    /\ events' = IF recorders \in {1, 2} THEN <<>> ELSE events
    /\ timers' = Without(timers, t)
    /\ measured' = Without(measured, t)
    /\ dropped' = dropped \ {t}
    /\ UNCHANGED <<maxCapacity, launched>>

Next ==
    \/ \E c \in Capacities : SetMaxCapacity(c)
    \/ \E t \in Timers : NewTimer(t) \/ Destroy(t)
    \/ \E t \in Timers, mark \in {"start", "stop"} : Record(t, mark)
    \/ AddEvent

Spec == Init /\ [][Next]_vars

--------------------------------------------------------------------------------

\* milliseconds(): wait and getEventElapsedTimeMs refuse marks out of order
\* and marks beyond the events there are.
milliseconds(t) ==
    LET begin == timers[t].start
        end   == timers[t].stop
    IN  IF begin < 0 \/ begin > end \/ end > Len(events)
        THEN OutOfBounds
        ELSE SubSeq(events, begin + 1, end)

TypeOK ==
    /\ Len(events) <= launched
    /\ \A i \in 1 .. Len(events) : events[i] \in 1 .. launched
    /\ recorders \in 0 .. 2 * Cardinality(Timers)
    /\ maxCapacity \in Capacities
    /\ Alive \subseteq Timers
    /\ \A t \in Alive : {timers[t].start, timers[t].stop} \subseteq {Unset} \cup 0 .. launched
    /\ launched \in 0 .. MaxLaunches
    /\ DOMAIN measured = Alive
    /\ dropped \subseteq Alive

\* A timer that was started and stopped reads, at any later time and whatever
\* other timers did meanwhile, exactly the launches between the two -- never
\* other events, and it never throws (sycl_event_manager.hpp, the index checks).
\* The exceptions are the timers whose own events a full buffer dropped; timers
\* started after that read right again.
ReadingIsExact ==
    \A t \in Alive \ dropped :
        timers[t].start # Unset /\ timers[t].stop # Unset => milliseconds(t) = measured[t]

\* eventDestroy empties the buffer with the last mark that is given back: once the
\* last timer is gone nothing is kept.
ReclaimedAtLast ==
    [][Alive # {} /\ timers' = [t \in {} |-> 0] => events' = <<>>]_vars
=============================================================================
