SPECIFICATION FairSpec
CONSTANT Launches <- MCLaunches
INVARIANTS
  TypeOK
  ReadsItsTile
  ParityTellsPhases
  TakesTurns
  NothingReachesAnExitedBlock
PROPERTY AllTilesStored
