SPECIFICATION Spec
CONSTANTS
  Vertex <- MCVertex
  MaxFacets <- MCMaxFacets
  Inputs <- PassInputs
  Options <- PassOptions
INVARIANTS
  LinksMutual
  EdgesMatchUnlessWarned
  CountersExact
  HolesFilled
  NoDegenerateLeft
  PartsCounted
  DirectionsFollowNormals
  SharedVerticesExact
PROPERTIES
  CornersKeepCells
