SPECIFICATION FairSpec
CONSTANTS
  max_num_partitions = 2
  Problems <- OneProblem
  CountOrders = TRUE
INVARIANT CombinesAllPartials
