SPECIFICATION FairSpec
CONSTANTS
  Vertex <- MCVertex
  MaxFacets <- MCMaxFacets
  Inputs <- MCInputs
INVARIANTS
  TypeOK
  NeighborsMutual
  EdgesMatch
  NoMatchMissed
  CountersExact
  OnlyDegenerateRemoved
  ShortestEdgeExact
PROPERTIES
  EdgesMatched
  Termination
