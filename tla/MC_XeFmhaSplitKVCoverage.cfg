SPECIFICATION WalkSpec
CONSTANTS
  max_num_partitions = 4
  Problems <- MCProblems
INVARIANTS
  WalkTypeOK
  EachBlockOnce
  IdsAreWhatTheLeaderReads
  HeadsExist
  SlotsSuffice
CHECK_DEADLOCK FALSE
