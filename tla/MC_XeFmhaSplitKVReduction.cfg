SPECIFICATION FairSpec
CONSTANTS
  max_num_partitions = 3
  Problems <- MCProblems
  CountOrders = FALSE
INVARIANTS
  TypeOK
  CombinesEachBlockOnce
PROPERTY EveryHeadWritten
