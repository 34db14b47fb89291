SPECIFICATION Spec
CONSTANTS
  min_iters_per_sk_unit = 8
  Problems <- NondeterministicThree
  Relaunched <- NoProblem
  MaxLaunches = 1
  Resident = 3
INVARIANTS
  OutputComplete
