SPECIFICATION Spec
CONSTANTS
  Vertex <- MCVertex
  MaxFacets <- MCMaxFacets
  Inputs <- UncheckedInputs
  Options <- UncheckedOptions
INVARIANT
  ExactCheckDone
