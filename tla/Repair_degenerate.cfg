SPECIFICATION Spec
CONSTANTS
  Vertex <- MCVertex
  MaxFacets <- MCMaxFacets
  Inputs <- FoldInputs
  Options <- DefaultOptions
INVARIANT
  NoDegenerateLeft
