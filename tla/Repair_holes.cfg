SPECIFICATION Spec
CONSTANTS
  Vertex <- MCVertex
  MaxFacets <- MCMaxFacets
  Inputs <- HoleInputs
  Options <- DefaultOptions
INVARIANTS
  HolesFilled
