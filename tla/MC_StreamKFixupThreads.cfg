SPECIFICATION FairSpec
CONSTANTS
  T = 8
  Splits <- ThreeSplits
  k_tile_count <- ThreeCounts
  N = 3
  SyncFence = FALSE
INVARIANTS
  TypeOK
  ArrivalPublishesAll
  AccessInTurn
PROPERTIES
  ImplementsPromise
CHECK_DEADLOCK FALSE
