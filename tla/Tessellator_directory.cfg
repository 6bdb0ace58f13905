SPECIFICATION Spec
CONSTANTS
  Format = "STL"
  Directories <- OtherDirectory
  MaxRuns = 2
INVARIANTS
  StatisticsRead
