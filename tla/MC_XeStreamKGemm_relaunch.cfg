SPECIFICATION Spec
CONSTANTS
  min_iters_per_sk_unit = 8
  Problems <- SharedTiles
  Relaunched <- SharedTiles
  MaxLaunches = 2
  Resident = 3
INVARIANTS
  OutputComplete
