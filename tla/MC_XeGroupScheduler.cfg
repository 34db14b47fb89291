SPECIFICATION Spec
CONSTANTS
  Problems <- MCProblems
  Cta = 2
INVARIANTS
  EachTileOnce
  OwnGroupsParameters
