-------------------------- MODULE EventManager_proofs --------------------------
(***************************************************************************)
(* Proofs about the event buffer and its timers, for any finite number of  *)
(* timers, any capacities and any number of launches, as long as timers    *)
(* are used as the repository's code uses them (Careful).  Otherwise they  *)
(* do not hold: a timer destroyed before it was stopped gives back a mark  *)
(* it never took.                                                          *)
(***************************************************************************)
EXTENDS EventManager, FiniteSetTheorems, SequenceTheorems, TLAPS

\* The timers that have taken their first and their second mark.
Started == {t \in Alive : timers[t].start # Unset}
Stopped == {t \in Alive : timers[t].stop # Unset}

EventsInv ==
    /\ launched \in Nat /\ launched <= MaxLaunches
    /\ events \in Seq(Nat)
    /\ Len(events) <= launched
    /\ \A i \in 1 .. Len(events) : events[i] \in 1 .. launched

TimersInv ==
    /\ Alive \subseteq Timers
    /\ timers \in [Alive -> [start : Int, stop : Int]]
    /\ \A t \in Alive : /\ timers[t].start = Unset \/ timers[t].start \in 0 .. launched
                        /\ timers[t].stop = Unset \/ timers[t].stop \in 0 .. launched
    /\ measured \in [Alive -> Seq(Nat)]

RestInv ==
    /\ maxCapacity \in Capacities
    /\ dropped \subseteq Alive

\* recorders counts the marks that are out.
CountInv == recorders = Cardinality(Started) + Cardinality(Stopped)

\* The marks are in order and inside the buffer, and what a timer measured is
\* what the buffer holds between its marks, or from its start on while it runs.
Measured(t) ==
    LET begin == timers[t].start
        end   == IF timers[t].stop = Unset THEN Len(events) ELSE timers[t].stop
    IN  IF begin = Unset THEN timers[t].stop = Unset /\ measured[t] = <<>>
        ELSE /\ begin <= end /\ end <= Len(events)
             /\ Len(measured[t]) = end - begin
             /\ \A i \in 1 .. end - begin : measured[t][i] = events[begin + i]

BufferInv == \A t \in Alive \ dropped : Measured(t)

\* The inductive invariant.
IInv == EventsInv /\ TimersInv /\ RestInv /\ CountInv /\ BufferInv

-----------------------------------------------------------------------------
\* There are at most as many marks of a kind as timers.
LEMMA MarksFinite ==
    ASSUME Alive \subseteq Timers
    PROVE  /\ IsFiniteSet(Started) /\ Cardinality(Started) \in 0 .. Cardinality(Timers)
           /\ IsFiniteSet(Stopped) /\ Cardinality(Stopped) \in 0 .. Cardinality(Timers)
           /\ Cardinality(Timers) \in Nat
  <1>1. Started \in SUBSET Timers /\ Stopped \in SUBSET Timers
    BY DEF Started, Stopped
  <1>2. IsFiniteSet(Timers)
    BY EventManagerAssumption
  <1>3. IsFiniteSet(Started) /\ Cardinality(Started) <= Cardinality(Timers)
    BY <1>1, <1>2, FS_Subset
  <1>4. IsFiniteSet(Stopped) /\ Cardinality(Stopped) <= Cardinality(Timers)
    BY <1>1, <1>2, FS_Subset
  <1>5. Cardinality(Timers) \in Nat /\ Cardinality(Started) \in Nat /\ Cardinality(Stopped) \in Nat
    BY <1>2, <1>3, <1>4, FS_CardinalityType
  <1> QED BY <1>3, <1>4, <1>5

\* Marks are counted one by one.
LEMMA CountsUp ==
    ASSUME NEW S, IsFiniteSet(S), NEW x, x \notin S
    PROVE  Cardinality(S \cup {x}) = Cardinality(S) + 1
  BY FS_AddElement

LEMMA CountsDown ==
    ASSUME NEW S, IsFiniteSet(S), NEW x \in S
    PROVE  Cardinality(S \ {x}) = Cardinality(S) - 1
  BY FS_RemoveElement

LEMMA Widens ==
    ASSUME NEW m \in Nat, NEW n \in Nat, m <= n
    PROVE  \A i \in 0 .. m : i \in 0 .. n
  OBVIOUS

\* A sequence of the same length and elements as a part of another is that part.
LEMMA PartOf ==
    ASSUME NEW s \in Seq(Nat), NEW lo \in Nat \ {0}, NEW e \in Nat, lo <= e + 1, e <= Len(s),
           NEW m \in Seq(Nat), Len(m) = e - lo + 1,
           \A i \in 1 .. e - lo + 1 : m[i] = s[lo + i - 1]
    PROVE  SubSeq(s, lo, e) = m
  <1>1. SubSeq(s, lo, e) \in Seq(Nat)
    BY SMTT(30)
  <1>2. Len(SubSeq(s, lo, e)) = Len(m)
    OBVIOUS
  <1>3. \A i \in 1 .. Len(SubSeq(s, lo, e)) : SubSeq(s, lo, e)[i] = m[i]
    <2>1. \A i \in 1 .. e - lo + 1 : SubSeq(s, lo, e)[i] = s[lo + i - 1]
      OBVIOUS
    <2> QED BY <1>2, <2>1
  <1> QED BY <1>1, <1>2, <1>3, SeqEqual

-----------------------------------------------------------------------------
LEMMA Counts ==
    ASSUME EventsInv, TimersInv
    PROVE  /\ Len(events) \in Nat
           /\ \A t \in Alive : Len(measured[t]) \in Nat
           /\ Cardinality(Started) \in Nat /\ Cardinality(Stopped) \in Nat
  <1>1. Len(events) \in Nat
    BY LenProperties DEF EventsInv
  <1>2. \A t \in Alive : Len(measured[t]) \in Nat
    BY LenProperties DEF TimersInv
  <1>3. Cardinality(Started) \in Nat /\ Cardinality(Stopped) \in Nat
    BY MarksFinite DEF TimersInv
  <1> QED BY <1>1, <1>2, <1>3

LEMMA InitIInv == Init => IInv
  <1> SUFFICES ASSUME Init PROVE IInv
    OBVIOUS
  <1> USE DEF Init, Alive
  <1>1. EventsInv /\ TimersInv /\ RestInv
    BY EventManagerAssumption DEF EventsInv, TimersInv, RestInv
  <1>2. CountInv
    <2>1. Started = {} /\ Stopped = {}
      BY DEF Started, Stopped
    <2>2. Cardinality(Started) = 0 /\ Cardinality(Stopped) = 0
      BY <2>1, FS_EmptySet
    <2> QED BY <2>2 DEF CountInv
  <1>3. BufferInv
    BY DEF BufferInv
  <1> QED BY <1>1, <1>2, <1>3 DEF IInv

LEMMA SetMaxCapacityIInv ==
    ASSUME IInv, NEW c \in Capacities, SetMaxCapacity(c)
    PROVE  IInv'
  <1> USE DEF IInv, SetMaxCapacity, Alive
  <1>1. EventsInv' /\ TimersInv' /\ RestInv'
    BY DEF EventsInv, TimersInv, RestInv
  <1>2. CountInv'
    BY DEF CountInv, Started, Stopped
  <1>3. BufferInv'
    BY DEF BufferInv, Measured
  <1> QED BY <1>1, <1>2, <1>3

\* A new timer has no mark out.
LEMMA NewTimerIInv ==
    ASSUME IInv, NEW t \in Timers, NewTimer(t)
    PROVE  IInv'
  <1> USE DEF IInv, NewTimer
  <1>1. Alive' = Alive \cup {t} /\ t \notin Alive
    BY DEF Alive
  <1>2. \A u \in Alive : timers'[u] = timers[u] /\ measured'[u] = measured[u]
    BY DEF Alive
  <1>3. timers'[t] = [start |-> Unset, stop |-> Unset] /\ measured'[t] = <<>>
    BY DEF Alive
  <1>4. EventsInv' /\ RestInv'
    BY <1>1 DEF EventsInv, RestInv
  <1>5. TimersInv'
    <2>1. timers' \in [Alive' -> [start : Int, stop : Int]]
      BY <1>1 DEF TimersInv, Unset
    <2>2. measured' \in [Alive' -> Seq(Nat)]
      <3>1. <<>> \in Seq(Nat)
        OBVIOUS
      <3> QED BY <1>1, <3>1 DEF TimersInv
    <2> QED BY <1>1, <1>2, <1>3, <2>1, <2>2 DEF TimersInv
  <1>6. CountInv'
    <2>1. Started' = Started /\ Stopped' = Stopped
      BY <1>1, <1>2, <1>3 DEF Started, Stopped
    <2> QED BY <2>1 DEF CountInv
  <1>7. BufferInv'
    BY <1>1, <1>2, <1>3 DEF BufferInv, Measured
  <1> QED BY <1>4, <1>5, <1>6, <1>7

\* A mark is one more in one of the two sets; a start is the end of the
\* buffer, and a stop makes that end final.
LEMMA RecordIInv ==
    ASSUME Careful, IInv, NEW t \in Timers, NEW mark \in {"start", "stop"}, Record(t, mark)
    PROVE  IInv'
  <1> USE DEF IInv
  <1>1. /\ t \in Alive
        /\ mark = "stop" => timers[t].start # Unset
        /\ timers[t][mark] = Unset
        /\ recorders' = recorders + 1
        /\ timers' = [timers EXCEPT ![t][mark] = Len(events)]
        /\ UNCHANGED <<events, maxCapacity, launched, measured, dropped>>
    BY DEF Record
  <1>2. Alive' = Alive /\ \A u \in Alive : u # t => timers'[u] = timers[u]
    BY <1>1 DEF TimersInv, Alive
  <1>3. /\ timers'[t].start = IF mark = "start" THEN Len(events) ELSE timers[t].start
        /\ timers'[t].stop  = IF mark = "stop" THEN Len(events) ELSE timers[t].stop
    BY <1>1 DEF TimersInv
  <1>4. Len(events) \in Nat /\ Len(events) \in 0 .. launched
    BY Counts DEF EventsInv
  <1>5. EventsInv' /\ RestInv'
    BY <1>1, <1>2 DEF EventsInv, RestInv
  <1>6. TimersInv'
    <2>1. timers' \in [Alive -> [start : Int, stop : Int]]
      BY <1>1, <1>4 DEF TimersInv
    <2> QED BY <1>1, <1>2, <1>3, <1>4, <2>1 DEF TimersInv
  <1>7. CountInv'
    <2>1. CASE mark = "start"
      <3>1. Started' = Started \cup {t} /\ t \notin Started /\ Stopped' = Stopped
        BY <1>1, <1>2, <1>3, <1>4, <2>1 DEF Started, Stopped, Unset
      <3>2. Cardinality(Started') = Cardinality(Started) + 1
        BY <3>1, MarksFinite, CountsUp DEF TimersInv
      <3> QED BY <1>1, <3>1, <3>2, Counts DEF CountInv
    <2>2. CASE mark = "stop"
      <3>1. Stopped' = Stopped \cup {t} /\ t \notin Stopped /\ Started' = Started
        BY <1>1, <1>2, <1>3, <1>4, <2>2 DEF Started, Stopped, Unset
      <3>2. Cardinality(Stopped') = Cardinality(Stopped) + 1
        BY <3>1, MarksFinite, CountsUp DEF TimersInv
      <3> QED BY <1>1, <3>1, <3>2, Counts DEF CountInv
    <2> QED BY <2>1, <2>2
  <1>8. BufferInv'
    <2> SUFFICES ASSUME NEW u \in Alive \ dropped PROVE Measured(u)'
      BY <1>1, <1>2 DEF BufferInv
    <2>1. Measured(u)
      BY <1>1 DEF BufferInv
    <2>2. CASE u # t
      BY <1>1, <1>2, <2>1, <2>2 DEF Measured
    <2>3. CASE u = t /\ mark = "start"
      BY <1>1, <1>3, <1>4, <2>1, <2>3 DEF Measured, Unset
    <2>4. CASE u = t /\ mark = "stop"
      BY <1>1, <1>3, <1>4, <2>1, <2>4 DEF Measured, Unset
    <2> QED BY <2>2, <2>3, <2>4
  <1> QED BY <1>5, <1>6, <1>7, <1>8

\* A full buffer takes the events of the timers that have a mark in it, and leaves
\* the marks as they are; who has none loses nothing.
LEMMA OverflowIInv ==
    ASSUME IInv, Overflow, EventsInv', launched <= launched'
    PROVE  IInv'
  <1> USE DEF IInv
  <1>1. /\ dropped' = dropped \cup {t \in Alive : timers[t].start # Unset}
        /\ UNCHANGED <<recorders, maxCapacity, timers, measured>>
    BY DEF Overflow
  <1>2. TimersInv'
    <2>1. Alive' = Alive
      BY <1>1 DEF Alive
    <2>2. launched \in Nat /\ launched' \in Nat /\ launched <= launched'
      BY DEF EventsInv
    <2>3. \A t \in Alive : /\ timers[t].start = Unset \/ timers[t].start \in 0 .. launched'
                           /\ timers[t].stop = Unset \/ timers[t].stop \in 0 .. launched'
      <3> SUFFICES ASSUME NEW t \in Alive
                   PROVE  /\ timers[t].start = Unset \/ timers[t].start \in 0 .. launched'
                          /\ timers[t].stop = Unset \/ timers[t].stop \in 0 .. launched'
        OBVIOUS
      <3>1. \A i \in 0 .. launched : i \in 0 .. launched'
        BY <2>2, Widens
      <3>2. /\ timers[t].start = Unset \/ timers[t].start \in 0 .. launched
            /\ timers[t].stop = Unset \/ timers[t].stop \in 0 .. launched
        BY DEF TimersInv
      <3>3. timers[t].start \in Int /\ timers[t].stop \in Int
        BY DEF TimersInv
      <3> QED BY <3>1, <3>2, <3>3
    <2> QED BY <1>1, <2>1, <2>3 DEF TimersInv
  <1>3. RestInv'
    BY <1>1 DEF RestInv, Alive
  <1>4. CountInv'
    BY <1>1 DEF CountInv, Started, Stopped, Alive
  <1>5. BufferInv'
    <2> SUFFICES ASSUME NEW t \in Alive \ dropped' PROVE Measured(t)'
      BY <1>1 DEF BufferInv, Alive
    <2>1. timers[t].start = Unset /\ Measured(t)
      BY <1>1 DEF BufferInv
    <2> QED BY <1>1, <2>1 DEF Measured
  <1> QED BY <1>2, <1>3, <1>4, <1>5

\* An event extends what the running timers measure, or overflows the buffer.
LEMMA AddEventIInv ==
    ASSUME IInv, AddEvent
    PROVE  IInv'
  <1> USE DEF IInv
  <1>1. launched' = launched + 1 /\ launched' \in Nat /\ launched' <= MaxLaunches
    BY EventManagerAssumption DEF AddEvent, EventsInv
  <1>2. Len(events) \in Nat /\ launched \in Nat /\ Len(events) <= launched
    BY Counts DEF EventsInv
  <1> DEFINE Extended == [t \in Alive |-> IF Measuring(t) THEN Append(measured[t], launched')
                                                           ELSE measured[t]]
             Kept == /\ events' = Append(events, launched')
                     /\ measured' = Extended
                     /\ UNCHANGED <<recorders, maxCapacity, timers, dropped>>
  <1>3. Kept \/ Overflow
    BY Zenon DEF AddEvent
  <1>4. CASE Overflow
    <2>1. EventsInv'
      <3>1. events' \in Seq(Nat) /\ Len(events') = 0
        BY <1>4 DEF Overflow
      <3> QED BY <1>1, <3>1 DEF EventsInv
    <2>2. launched <= launched'
      BY <1>1, <1>2
    <2> QED BY <1>4, <2>1, <2>2, OverflowIInv
  <1>5. CASE Kept
    <2>1. measured' = Extended /\ UNCHANGED <<recorders, maxCapacity, timers, dropped>>
      BY <1>5
    <2>2. Alive' = Alive
      BY <2>1 DEF Alive
    <2>3. /\ events' \in Seq(Nat) /\ Len(events') = Len(events) + 1
          /\ \A i \in 1 .. Len(events) : events'[i] = events[i]
          /\ events'[Len(events) + 1] = launched'
      BY <1>1, <1>5, AppendProperties DEF EventsInv
    <2>4. EventsInv'
      <3>1. \A i \in 1 .. Len(events') : events'[i] \in 1 .. launched'
        <4> SUFFICES ASSUME NEW i \in 1 .. Len(events') PROVE events'[i] \in 1 .. launched'
          OBVIOUS
        <4>1. CASE i = Len(events) + 1
          BY <1>1, <1>2, <2>3, <4>1
        <4>2. CASE i # Len(events) + 1
          <5>1. i \in 1 .. Len(events)
            BY <1>2, <2>3, <4>2
          <5>2. events'[i] \in 1 .. launched
            BY <2>3, <5>1 DEF EventsInv
          <5> QED BY <1>1, <1>2, <5>2
        <4> QED BY <4>1, <4>2
      <3> QED BY <1>1, <1>2, <2>3, <3>1 DEF EventsInv
    <2>5. TimersInv'
      <3>1. \A t \in Alive : measured'[t] \in Seq(Nat)
        BY <1>1, <2>1 DEF TimersInv
      <3>2. measured' \in [Alive -> Seq(Nat)]
        BY <2>1, <3>1
      <3>3. \A t \in Alive : /\ timers[t].start = Unset \/ timers[t].start \in 0 .. launched'
                             /\ timers[t].stop = Unset \/ timers[t].stop \in 0 .. launched'
        BY <1>1, <1>2 DEF TimersInv
      <3> QED BY <2>1, <2>2, <3>2, <3>3 DEF TimersInv
    <2>6. RestInv'
      BY <2>1, <2>2 DEF RestInv
    <2>7. CountInv'
      BY <2>1, <2>2 DEF CountInv, Started, Stopped
    <2>8. BufferInv'
      <3> SUFFICES ASSUME NEW t \in Alive \ dropped PROVE Measured(t)'
        BY <2>1, <2>2 DEF BufferInv
      <3>1. Measured(t)
        BY <1>1 DEF BufferInv
      <3>2. timers[t].start \in Int /\ timers[t].stop \in Int
        BY DEF TimersInv
      <3>3. CASE Measuring(t)
        <4>1. measured'[t] = Append(measured[t], launched')
          BY <2>1, <3>3
        <4>2. measured[t] \in Seq(Nat)
          BY DEF TimersInv
        <4>3. /\ Len(measured'[t]) = Len(measured[t]) + 1
              /\ \A i \in 1 .. Len(measured[t]) : measured'[t][i] = measured[t][i]
              /\ measured'[t][Len(measured[t]) + 1] = launched'
          BY <1>1, <4>1, <4>2, AppendProperties
        <4>4. /\ Len(measured[t]) = Len(events) - timers[t].start
              /\ timers[t].start <= Len(events)
              /\ \A i \in 1 .. Len(events) - timers[t].start :
                    measured[t][i] = events[timers[t].start + i]
          BY <3>1, <3>3 DEF Measured, Measuring
        <4>5. timers[t].start \in 0 .. launched
          BY <3>3 DEF TimersInv, Measuring
        <4> DEFINE begin == timers[t].start
        <4>b. begin \in Int /\ Len(events') = Len(events) + 1 /\ Len(measured[t]) = Len(events) - begin
              /\ Len(measured'[t]) = Len(measured[t]) + 1 /\ begin <= Len(events)
          BY <2>3, <3>2, <4>3, <4>4
        <4>6. \A i \in 1 .. Len(events') - timers[t].start :
                  measured'[t][i] = events'[timers[t].start + i]
          <5> SUFFICES ASSUME NEW i \in 1 .. Len(events') - timers[t].start
                       PROVE  measured'[t][i] = events'[timers[t].start + i]
            OBVIOUS
          <5>1. CASE i = Len(events') - timers[t].start
            <6>1. i = Len(measured[t]) + 1 /\ timers[t].start + i = Len(events) + 1
              <7> HIDE DEF begin
              <7>1. i = Len(events') - begin
                BY <5>1 DEF begin
              <7>2. i = Len(measured[t]) + 1 /\ begin + i = Len(events) + 1
                BY <1>2, <4>b, <7>1
              <7> QED BY <7>2 DEF begin
            <6> QED BY <2>3, <4>3, <6>1
          <5>2. CASE i # Len(events') - timers[t].start
            <6>1. i \in 1 .. Len(events) - timers[t].start
              BY <1>2, <2>3, <3>2, <5>2
            <6>2. timers[t].start + i \in 1 .. Len(events)
              BY <1>2, <4>5, <6>1, SMTT(30)
            <6> QED BY <2>3, <4>3, <4>4, <6>1, <6>2
          <5> QED BY <5>1, <5>2
        <4>7. /\ timers[t].start <= Len(events')
              /\ Len(measured'[t]) = Len(events') - timers[t].start
          <5> HIDE DEF begin
          <5>1. begin <= Len(events') /\ Len(measured'[t]) = Len(events') - begin
            BY <1>2, <4>b
          <5> QED BY <5>1 DEF begin
        <4>8. timers'[t].start # Unset /\ timers'[t].stop = Unset
          BY <2>1, <3>3 DEF Measuring
        <4> QED BY <2>1, <4>6, <4>7, <4>8 DEF Measured
      <3>4. CASE ~Measuring(t)
        <4>1. measured'[t] = measured[t]
          BY <2>1, <3>4
        <4>2. CASE timers[t].start = Unset
          BY <2>1, <3>1, <4>1, <4>2 DEF Measured
        <4>3. CASE timers[t].start # Unset
          <5>1. /\ timers[t].start \in 0 .. launched /\ timers[t].stop # Unset
                /\ timers[t].stop <= Len(events)
            BY <3>1, <3>4, <4>3 DEF TimersInv, Measured, Measuring
          <5>2. \A i \in 1 .. timers[t].stop - timers[t].start :
                    timers[t].start + i \in 1 .. Len(events)
            BY <1>2, <3>2, <5>1
          <5>3. /\ timers[t].start <= timers[t].stop
                /\ Len(measured[t]) = timers[t].stop - timers[t].start
                /\ \A i \in 1 .. timers[t].stop - timers[t].start :
                      measured[t][i] = events'[timers[t].start + i]
            BY <2>3, <3>1, <4>3, <5>1, <5>2 DEF Measured
          <5>4. timers[t].stop <= Len(events')
            BY <1>2, <2>3, <3>2, <5>1
          <5> QED BY <2>1, <4>1, <4>3, <5>1, <5>3, <5>4 DEF Measured
        <4> QED BY <4>2, <4>3
      <3> QED BY <3>3, <3>4
    <2> QED BY <2>4, <2>5, <2>6, <2>7, <2>8
  <1> QED BY <1>3, <1>4, <1>5

\* A timer gives its marks back; the buffer is emptied only when they were the
\* last ones out, so that nobody measures what goes.
LEMMA DestroyIInv ==
    ASSUME Careful, IInv, NEW t \in Timers, Destroy(t)
    PROVE  IInv'
  <1> USE DEF IInv
  <1>1. /\ t \in Alive
        /\ timers[t].start # Unset /\ timers[t].stop # Unset
        /\ recorders' = recorders - 2
        /\ timers' = Without(timers, t) /\ measured' = Without(measured, t)
        /\ dropped' = dropped \ {t}
        /\ UNCHANGED <<maxCapacity, launched>>
    BY DEF Destroy
  <1>2. events' = IF recorders \in {1, 2} THEN <<>> ELSE events
    BY DEF Destroy
  <1>3. Alive' = Alive \ {t} /\ \A u \in Alive \ {t} : timers'[u] = timers[u]
    BY <1>1 DEF Without, Alive
  <1>4. DOMAIN measured = Alive /\ \A u \in Alive \ {t} : measured'[u] = measured[u]
    BY <1>1 DEF Without, TimersInv
  <1>5. t \in Started /\ t \in Stopped
    BY <1>1 DEF Started, Stopped
  <1>6. Started' = Started \ {t} /\ Stopped' = Stopped \ {t}
    BY <1>3 DEF Started, Stopped
  <1>7. /\ Cardinality(Started') = Cardinality(Started) - 1 /\ Cardinality(Started') \in Nat
        /\ Cardinality(Stopped') = Cardinality(Stopped) - 1 /\ Cardinality(Stopped') \in Nat
    <2>1. IsFiniteSet(Started) /\ IsFiniteSet(Stopped)
      BY MarksFinite DEF TimersInv
    <2>2. IsFiniteSet(Started \ {t}) /\ IsFiniteSet(Stopped \ {t})
      BY <2>1, FS_RemoveElement
    <2>3. Cardinality(Started \ {t}) \in Nat /\ Cardinality(Stopped \ {t}) \in Nat
      BY <2>2, FS_CardinalityType
    <2> QED BY <1>5, <1>6, <2>1, <2>3, CountsDown
  <1>8. ASSUME recorders \in {1, 2} PROVE Started' = {} /\ Stopped' = {}
    <2>1. Cardinality(Started') = 0 /\ Cardinality(Stopped') = 0
      BY <1>7, <1>8, Counts DEF CountInv
    <2>2. IsFiniteSet(Started') /\ IsFiniteSet(Stopped')
      BY <1>6, MarksFinite, FS_RemoveElement DEF TimersInv
    <2> QED BY <2>1, <2>2, FS_EmptySet
  <1>9. EventsInv'
    <2>1. CASE recorders \in {1, 2}
      <3>1. events' \in Seq(Nat) /\ Len(events') = 0
        BY <1>2, <2>1
      <3> QED BY <1>1, <3>1 DEF EventsInv
    <2>2. CASE recorders \notin {1, 2}
      BY <1>1, <1>2, <2>2 DEF EventsInv
    <2> QED BY <2>1, <2>2
  <1>10. TimersInv' /\ RestInv'
    <2>1. timers' \in [Alive' -> [start : Int, stop : Int]]
      BY <1>1, <1>3 DEF TimersInv, Without, Alive
    <2>2. measured' \in [Alive' -> Seq(Nat)]
      BY <1>1, <1>3, <1>4 DEF TimersInv, Without
    <2> QED BY <1>1, <1>3, <2>1, <2>2 DEF TimersInv, RestInv
  <1>11. CountInv'
    BY <1>1, <1>7, Counts DEF CountInv
  <1>12. BufferInv'
    <2> SUFFICES ASSUME NEW u \in Alive \ {t}, u \notin dropped PROVE Measured(u)'
      BY <1>1, <1>3 DEF BufferInv
    <2>1. Measured(u)
      BY <1>1 DEF BufferInv
    <2>2. timers'[u] = timers[u] /\ measured'[u] = measured[u]
      BY <1>3, <1>4
    <2>3. CASE recorders \in {1, 2}
      <3>1. timers'[u].start = Unset
        BY <1>3, <1>8, <2>3 DEF Started
      <3> QED BY <2>1, <2>2, <3>1 DEF Measured
    <2>4. CASE recorders \notin {1, 2}
      BY <1>2, <2>1, <2>2, <2>4 DEF Measured
    <2> QED BY <2>3, <2>4
  <1> QED BY <1>9, <1>10, <1>11, <1>12

-----------------------------------------------------------------------------
\* Every step preserves the inductive invariant.
LEMMA NextIInv ==
    ASSUME Careful, IInv, [Next]_vars
    PROVE  IInv'
  <1>1. CASE UNCHANGED vars
    <2> USE <1>1 DEF vars, Alive
    <2>1. EventsInv /\ TimersInv /\ RestInv => EventsInv' /\ TimersInv' /\ RestInv'
      BY DEF EventsInv, TimersInv, RestInv
    <2>2. CountInv => CountInv'
      BY DEF CountInv, Started, Stopped
    <2>3. BufferInv => BufferInv'
      BY DEF BufferInv, Measured
    <2> QED BY <2>1, <2>2, <2>3 DEF IInv
  <1> QED
    BY <1>1, SetMaxCapacityIInv, NewTimerIInv, RecordIInv, DestroyIInv, AddEventIInv DEF Next

\* The inductive invariant holds throughout.
THEOREM Invariance ==
    ASSUME Careful
    PROVE  Spec => []IInv
  <1>1. IInv /\ [Next]_vars => IInv'
    BY NextIInv
  <1> QED BY <1>1, InitIInv, PTL DEF Spec

\* Type correctness: recorders in particular never goes below zero nor above
\* two marks for each timer.
THEOREM TypeCorrect ==
    ASSUME Careful
    PROVE  Spec => []TypeOK
  <1>1. IInv => TypeOK
    <2> SUFFICES ASSUME IInv PROVE TypeOK
      OBVIOUS
    <2> USE DEF IInv
    <2>1. recorders \in 0 .. 2 * Cardinality(Timers)
      BY MarksFinite DEF CountInv, TimersInv
    <2>2. \A t \in Alive : {timers[t].start, timers[t].stop} \subseteq {Unset} \cup 0 .. launched
      BY DEF TimersInv
    <2>3. launched \in 0 .. MaxLaunches
      BY EventManagerAssumption DEF EventsInv
    <2>4. Alive \subseteq Timers /\ DOMAIN measured = Alive
      BY DEF TimersInv
    <2> QED BY <2>1, <2>2, <2>3, <2>4 DEF TypeOK, EventsInv, RestInv
  <1> QED BY <1>1, Invariance, PTL

\* A timer that was started and stopped reads exactly the launches between.
THEOREM ReadingsExact ==
    ASSUME Careful
    PROVE  Spec => []ReadingIsExact
  <1>1. IInv => ReadingIsExact
    <2> SUFFICES ASSUME IInv, NEW t \in Alive \ dropped,
                        timers[t].start # Unset, timers[t].stop # Unset
                 PROVE  milliseconds(t) = measured[t]
      BY DEF ReadingIsExact
    <2> DEFINE begin == timers[t].start
               end == timers[t].stop
    <2>1. begin \in Nat /\ end \in Nat
      BY DEF IInv, TimersInv, EventsInv
    <2>2. /\ begin <= end /\ end <= Len(events)
          /\ Len(measured[t]) = end - begin
          /\ \A i \in 1 .. end - begin : measured[t][i] = events[begin + i]
      BY DEF IInv, BufferInv, Measured
    <2>3. milliseconds(t) = SubSeq(events, begin + 1, end)
      <3>1. ~(begin < 0 \/ begin > end \/ end > Len(events))
        BY <2>1, <2>2, LenProperties DEF IInv, EventsInv
      <3> QED BY <3>1, Zenon DEF milliseconds
    <2>4. events \in Seq(Nat) /\ measured[t] \in Seq(Nat)
      BY DEF IInv, EventsInv, TimersInv
    <2> HIDE DEF begin, end
    <2>5. SubSeq(events, begin + 1, end) = measured[t]
      BY <2>1, <2>2, <2>4, PartOf
    <2> QED BY <2>3, <2>5
  <1> QED BY <1>1, Invariance, PTL

\* The buffer is empty once the last timer is gone: both its marks were the
\* last ones out.
THEOREM Reclaimed ==
    ASSUME Careful
    PROVE  Spec => ReclaimedAtLast
  <1>1. IInv /\ [Next]_vars =>
            [Alive # {} /\ timers' = [t \in {} |-> 0] => events' = <<>>]_vars
    <2> SUFFICES ASSUME IInv, Next, Alive # {}, timers' = [t \in {} |-> 0]
                 PROVE  events' = <<>>
      OBVIOUS
    <2>1. Alive' = {}
      BY DEF Alive
    <2>2. PICK t \in Timers : Destroy(t)
      <3>1. ASSUME NEW t \in Timers, NEW mark \in {"start", "stop"}, Record(t, mark)
            PROVE  FALSE
        <4>1. Alive' = Alive
          BY <3>1 DEF Record, Alive, IInv, TimersInv
        <4> QED BY <2>1, <4>1
      <3>2. ASSUME NEW t \in Timers, NewTimer(t) PROVE FALSE
        BY <2>1, <3>2 DEF NewTimer, Alive
      <3>3. ~AddEvent
        <4>1. AddEvent => UNCHANGED timers
          BY DEF AddEvent, Overflow
        <4> QED BY <2>1, <4>1 DEF Alive
      <3>4. ASSUME NEW c \in Capacities PROVE ~SetMaxCapacity(c)
        BY <2>1 DEF SetMaxCapacity, Alive
      <3> QED BY <3>1, <3>2, <3>3, <3>4 DEF Next
    <2>3. Alive = {t}
      <3>1. Alive' = Alive \ {t}
        BY <2>2 DEF Destroy, Without, Alive
      <3> QED BY <2>1, <2>2, <3>1 DEF Destroy
    <2>4. Started = {t} /\ Stopped = {t}
      BY <2>2, <2>3 DEF Destroy, Started, Stopped
    <2>5. recorders = 2
      <3>1. Cardinality({t}) = 1
        BY FS_Singleton
      <3> QED BY <2>4, <3>1 DEF IInv, CountInv
    <2> QED BY <2>2, <2>5 DEF Destroy
  <1> QED BY <1>1, Invariance, PTL DEF Spec, ReclaimedAtLast
=============================================================================
