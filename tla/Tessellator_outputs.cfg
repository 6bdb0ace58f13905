SPECIFICATION Spec
CONSTANTS
  Format = "STEP"
  Directories <- OwnDirectory
  MaxRuns = 2
INVARIANTS
  OutputsOfInput
