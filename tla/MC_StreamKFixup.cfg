SPECIFICATION FairSpec
CONSTANTS
  T = 8
  Splits <- FourSplits
  k_tile_count <- FourCounts
  reduction_mode = "Deterministic"
  MaxStale = 1
INVARIANTS
  TypeOK
  WorkspaceInOrder
  TurnstileExclusive
  OutputComplete
PROPERTIES
  EventuallyWritten
  ImplementsPromise
CHECK_DEADLOCK FALSE
