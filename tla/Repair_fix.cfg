SPECIFICATION FairSpec
CONSTANTS
  Vertex <- MCVertex
  MaxFacets <- MCMaxFacets
  Inputs <- FixInputs
  Options <- FixOptions
INVARIANTS
  TypeOK
  DirectionsAgree
  NormalsRight
  VolumeEnclosed
PROPERTIES
  LinksKept
  Termination
