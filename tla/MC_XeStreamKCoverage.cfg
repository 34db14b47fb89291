SPECIFICATION WalkSpec
CONSTANTS
  min_iters_per_sk_unit = 8
  Problems <- MCProblems
INVARIANTS
  WalkTypeOK
  ExactCover
  FixupInsideWorkspace
  NoTinySplits
  AtMostTwoPeers
  WaitsPointBackwards
CHECK_DEADLOCK FALSE
