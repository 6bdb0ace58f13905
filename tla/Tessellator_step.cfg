SPECIFICATION FairSpec
CONSTANTS
  Format = "STEP"
  Directories <- OwnDirectory
  MaxRuns = 2
INVARIANTS
  TypeOK
  StatisticsOwn
  HealedByThisRun
  StatisticsRead
PROPERTIES
  WaitEnds
