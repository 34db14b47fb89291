SPECIFICATION FairSpec
CONSTANTS
  min_iters_per_sk_unit = 8
  Problems <- MCProblems
  Relaunched <- MCRelaunched
  MaxLaunches = 2
  Resident = 3
INVARIANTS
  TypeOK
  OutputComplete
  NothingLeftBehind
  WrittenOnce
PROPERTIES
  EveryLaunchEnds
