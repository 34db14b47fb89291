SPECIFICATION Spec
CONSTANTS
  t1 = t1
  t2 = t2
  t3 = t3
  Timers <- MCTimers
  Capacities = {3, 5}
  MaxLaunches = 5
  Careful = TRUE
INVARIANTS
  TypeOK
  ReadingIsExact
PROPERTY ReclaimedAtLast
CHECK_DEADLOCK FALSE
