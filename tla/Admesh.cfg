SPECIFICATION Spec
CONSTANTS
  Vertex <- MCVertex
  MaxFacets <- MCMaxFacets
  CommandLines <- MCCommandLines
  Files <- MCFiles
  Unwritable <- MCUnwritable
  Garbage <- MCGarbage
INVARIANTS
  TypeOK
  BoundsExact
  TranslatedToPlace
  SolidKept
  OutputsWhole
  OrderIrrelevantElsewhere
