SPECIFICATION Spec
CONSTANTS
  CommandLines <- MCCommandLines
  InputFiles <- MCInputFiles
  Number <- MCNumber
INVARIANTS
  ParametersHonoured
  NoNegativeDeflection
  UsageAccepted
