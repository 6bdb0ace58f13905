------------------------------- MODULE StlFile -------------------------------
(****************************************************************************)
(* The data structure every ADMesh pass works on (stl.h, struct stl_file)   *)
(* and the operations the passes share: loading an edge, recording a match, *)
(* removing a facet, adding one, turning around a vertex.                   *)
(*                                                                          *)
(* A C function f(stl, x) that updates *stl is the operator F(stl, x), whose *)
(* value is the updated structure.  The loops of the passes are not here:   *)
(* they are the steps of the pass modules.                                  *)
(*                                                                          *)
(* Abstractions: a vertex is a triple of integers (the floats scaled); a    *)
(* facet is its three vertices, its attribute bytes are left out and its    *)
(* normal is kept beside it, as any vector of the same direction (or zero,  *)
(* for none); the hash table is the set of edges it holds.  Arrays have     *)
(* MaxFacets rows; the rows at and beyond number_of_facets keep their last  *)
(* contents, as the C arrays do after a facet is removed.                   *)
(****************************************************************************)
EXTENDS Integers, Sequences

CONSTANTS
  Vertex,     \* the points a facet can have as corners
  MaxFacets   \* bound: the number of rows of facet_start and neighbors_start

Point == Int \X Int \X Int

ASSUME VertexAssumption == Vertex \subseteq Point /\ Vertex # {}
ASSUME MaxFacetsAssumption == MaxFacets \in Nat \ {0}

Zero == <<0, 0, 0>>                 \* the vector without a direction

None   == -1                        \* neighbor[] of an unconnected edge
Slot   == 0 .. MaxFacets - 1        \* rows of the two arrays
Corner == 0 .. 2                    \* vertices of a facet; edge e runs from e to e+1
Facet  == [Corner -> Vertex]

(****************************************************************************)
(* An entry of the hash table.  which_edge is the edge, plus 3 when it was  *)
(* loaded backwards; key is the pair of end points (or of their cells).     *)
(****************************************************************************)
Edge == [facet_number : Slot, which_edge : 0 .. 5, key : Point \X Point]

StlFiles ==
  [number_of_facets  : 0 .. MaxFacets,
   facet_start       : [Slot -> Facet],
   normal            : [Slot -> Point],  \* facet_start[].normal
   neighbor          : [Slot -> [Corner -> Slot \cup {None}]],
   which_vertex_not  : [Slot -> [Corner -> 0 .. 5]],
   heads             : SUBSET Edge,
   shortest_edge     : Int,
   connected_edges   : Int,
   connected_facets  : [1 .. 3 -> Int],  \* connected_facets_{1,2,3}_edge
   degenerate_facets : Int,
   facets_removed    : Int,
   facets_added      : Int,
   edges_fixed       : Int]

Facets(stl) == 0 .. stl.number_of_facets - 1

Next3(k) == (k + 1) % 3
(* Mutation of Prev3: the remainder is forgotten.                           *)
Prev3Unreduced(k) == k + 2
Prev3(k) == (k + 2) % 3

IsDegenerate(facet) ==
  facet[0] = facet[1] \/ facet[1] = facet[2] \/ facet[0] = facet[2]

-----------------------------------------------------------------------------
(****************************************************************************)
(* Edges.  The end point that is larger along the axis of greatest extent   *)
(* comes first in the key, so both facets at an edge load the same key.     *)
(****************************************************************************)
Diff(a, b, axis) ==
  IF a[axis] < b[axis] THEN b[axis] - a[axis] ELSE a[axis] - b[axis]

DominantAxis(a, b) ==
  CASE Diff(a, b, 1) >= Diff(a, b, 2) /\ Diff(a, b, 1) >= Diff(a, b, 3) -> 1
    [] Diff(a, b, 2) > Diff(a, b, 1) /\ Diff(a, b, 2) >= Diff(a, b, 3) -> 2
    [] OTHER -> 3

MaxDiff(a, b) == Diff(a, b, DominantAxis(a, b))

(* Mutation of Forward: the first axis decides, also when it is not the     *)
(* dominant one.                                                            *)
ForwardOnFirstAxis(a, b) == a[1] > b[1]

Forward(a, b) == a[DominantAxis(a, b)] > b[DominantAxis(a, b)]

(* Mutation of LoadEdge: an edge loaded backwards is not marked.            *)
LoadEdgeUnmarked(f, e, a, b, ka, kb) ==
  [facet_number |-> f,
   which_edge   |-> e,
   key          |-> IF Forward(a, b) THEN <<ka, kb>> ELSE <<kb, ka>>]

(* The edge e of facet f from a to b whose end points hash as ka and kb.    *)
LoadEdge(f, e, a, b, ka, kb) ==
  [facet_number |-> f,
   which_edge   |-> IF Forward(a, b) THEN e ELSE e + 3,
   key          |-> IF Forward(a, b) THEN <<ka, kb>> ELSE <<kb, ka>>]

LoadEdgeExact(f, e, a, b) == LoadEdge(f, e, a, b, a, b)

(* Mutation of ShortestEdge: along one axis, not the dominant one.          *)
ShortestEdgeOneAxis(stl, a, b) ==
  [stl EXCEPT !.shortest_edge = IF Diff(a, b, 1) < @ THEN Diff(a, b, 1) ELSE @]

(* The least extent seen so far, along the axis where the edge is longest:  *)
(* not its length, which shortest_edge is named for.                        *)
ShortestEdge(stl, a, b) ==
  [stl EXCEPT !.shortest_edge = IF MaxDiff(a, b) < @ THEN MaxDiff(a, b) ELSE @]

-----------------------------------------------------------------------------
(****************************************************************************)
(* Connections.                                                             *)
(****************************************************************************)
(* The number of edges of facet f without a neighbour.                      *)
Unconnected(stl, f) ==
  LET missing(e) == IF stl.neighbor[f][e] = None THEN 1 ELSE 0
  IN  missing(0) + missing(1) + missing(2)

(* Mutation of CountConnect: the third connection is not told apart.        *)
CountConnectTwo(stl, f) ==
  LET k == IF Unconnected(stl, f) = 2 THEN 1 ELSE 2
  IN  [stl EXCEPT !.connected_facets[k] = @ + 1]

(* One more edge of facet f has just been connected.                        *)
CountConnect(stl, f) ==
  LET k == IF Unconnected(stl, f) \in {1, 2} THEN 3 - Unconnected(stl, f) ELSE 3
  IN  [stl EXCEPT !.connected_facets[k] = @ + 1]

(* Facets a and b become neighbours across the edge both have.  The 3 added *)
(* to which_vertex_not says they are oriented oppositely.                   *)
Link(stl, a, b) ==
  LET ea == a.which_edge % 3
      eb == b.which_edge % 3
      flip == IF (a.which_edge < 3) = (b.which_edge < 3) THEN 3 ELSE 0
  IN  [stl EXCEPT
        !.neighbor[a.facet_number][ea] = b.facet_number,
        !.which_vertex_not[a.facet_number][ea] = Prev3(b.which_edge) + flip,
        !.neighbor[b.facet_number][eb] = a.facet_number,
        !.which_vertex_not[b.facet_number][eb] = Prev3(a.which_edge) + flip,
        !.connected_edges = @ + 2]

(* Mutation of RecordNeighbors: only the first facet is counted.            *)
RecordNeighborsOneCount(stl, a, b) == CountConnect(Link(stl, a, b), a.facet_number)

RecordNeighbors(stl, a, b) ==
  CountConnect(CountConnect(Link(stl, a, b), a.facet_number), b.facet_number)

(* The pending edges that match `edge`: same key, another facet.            *)
Matches(stl, edge) ==
  {p \in stl.heads : p.key = edge.key /\ p.facet_number # edge.facet_number}

(* A chain is searched from its oldest entry, and edges are loaded in the   *)
(* order of their facets and corners.                                       *)
Oldest(S) ==
  LET age(p) == 3 * p.facet_number + (p.which_edge % 3)
  IN  CHOOSE p \in S : \A q \in S : age(p) <= age(q)

(* Mutation of InsertHashEdge: the matched edge stays in the table.         *)
InsertHashEdgeKeeping(stl, edge) ==
  IF Matches(stl, edge) = {}
  THEN [stl EXCEPT !.heads = @ \cup {edge}]
  ELSE RecordNeighbors(stl, edge, Oldest(Matches(stl, edge)))

(* insert_hash_edge with stl_match_neighbors_exact.                         *)
InsertHashEdge(stl, edge) ==
  IF Matches(stl, edge) = {}
  THEN [stl EXCEPT !.heads = @ \cup {edge}]
  ELSE LET link == Oldest(Matches(stl, edge))
       IN  RecordNeighbors([stl EXCEPT !.heads = @ \ {link}], edge, link)

(* Load edge e of facet f, whose corners are those of `facet`, and insert.  *)
InsertEdgeExact(stl, f, e, facet) ==
  LET a == facet[e]
      b == facet[Next3(e)]
  IN  InsertHashEdge(ShortestEdge(stl, a, b), LoadEdgeExact(f, e, a, b))

-----------------------------------------------------------------------------
(****************************************************************************)
(* Removing and adding facets.                                              *)
(****************************************************************************)
(* Mutation of MoveLast: the links of the last facet are moved, and its     *)
(* corners are not.                                                         *)
MoveLastLinks(stl, f) ==
  LET last == stl.number_of_facets - 1
  IN  [stl EXCEPT
        !.facets_removed   = @ + 1,
        !.connected_facets = [k \in 1 .. 3 |->
           IF k <= 3 - Unconnected(stl, f) THEN @[k] - 1 ELSE @[k]],
        !.neighbor[f]         = stl.neighbor[last],
        !.which_vertex_not[f] = stl.which_vertex_not[last],
        !.number_of_facets    = last]

(* Facet f is no longer counted and the last facet is moved to its row.     *)
MoveLast(stl, f) ==
  LET last == stl.number_of_facets - 1
  IN  [stl EXCEPT
        !.facets_removed   = @ + 1,
        !.connected_facets = [k \in 1 .. 3 |->
           IF k <= 3 - Unconnected(stl, f) THEN @[k] - 1 ELSE @[k]],
        !.facet_start[f]      = stl.facet_start[last],
        !.normal[f]           = stl.normal[last],
        !.neighbor[f]         = stl.neighbor[last],
        !.which_vertex_not[f] = stl.which_vertex_not[last],
        !.number_of_facets    = last]

(* A neighbour g of the moved facet is told its new row f, provided the     *)
(* link across edge e of g still names the old one.                         *)
Misdirected(stl, g, e, last) == g # None /\ stl.neighbor[g][e] # last

Tell(stl, g, e, f) ==
  IF g = None THEN stl ELSE [stl EXCEPT !.neighbor[g][e] = f]

(* The neighbours of the moved facet are told in turn, until one is found   *)
(* misdirected ("this is wrong"): then the remaining ones are not told.     *)
RemoveFacet(stl, f) ==
  LET last  == stl.number_of_facets - 1
      g(e)  == stl.neighbor[last][e]
      back(e) == Next3(stl.which_vertex_not[last][e])
      moved == MoveLast(stl, f)
      told0 == Tell(moved, g(0), back(0), f)
      told1 == Tell(told0, g(1), back(1), f)
  IN  IF Misdirected(moved, g(0), back(0), last) THEN moved
      ELSE IF Misdirected(told0, g(1), back(1), last) THEN told0
      ELSE IF Misdirected(told1, g(2), back(2), last) THEN told1
      ELSE Tell(told1, g(2), back(2), f)

(* Guard of the callers: a row is free.  (The C arrays grow by 256 rows.)   *)
HasRoom(stl) == stl.number_of_facets < MaxFacets

AddFacet(stl, facet) ==
  LET f == stl.number_of_facets
  IN  [stl EXCEPT
        !.facets_added     = @ + 1,
        !.facet_start[f]   = facet,
        !.normal[f]        = Zero,
        !.neighbor[f]      = [e \in Corner |-> None],
        !.number_of_facets = f + 1]

-----------------------------------------------------------------------------
(****************************************************************************)
(* Walking around a vertex.  A walk stands in a facet, opposite vnot, and   *)
(* keeps a direction; a facet entered across an edge whose sides disagree   *)
(* on the orientation (vnot > 2) reverses it.                               *)
(****************************************************************************)
(* Mutation of Turn: a facet oriented oppositely does not reverse the walk. *)
TurnOneWay(vnot, direction) ==
  LET ahead == (direction = 0) = (vnot > 2)
  IN  [pivot_vertex |-> IF ahead THEN Prev3(vnot) ELSE Next3(vnot),
       next_edge    |-> IF ahead THEN Prev3(vnot) ELSE vnot % 3,
       direction    |-> direction]

Turn(vnot, direction) ==
  LET ahead == (direction = 0) = (vnot > 2)
  IN  [pivot_vertex |-> IF ahead THEN Prev3(vnot) ELSE Next3(vnot),
       next_edge    |-> IF ahead THEN Prev3(vnot) ELSE vnot % 3,
       direction    |-> IF vnot > 2 THEN 1 - direction ELSE direction]

-----------------------------------------------------------------------------
(****************************************************************************)
(* The structure after stl_open has read the sequence of facets `file`,     *)
(* facet f with normals[f] for its normal.                                  *)
(* calloc leaves every neighbor 0; shortest_edge starts from the first edge *)
(* of the first facet, whether or not that facet is degenerate.             *)
(****************************************************************************)
StlOpen(file, normals) ==
  [number_of_facets  |-> Len(file),
   facet_start       |-> [f \in Slot |-> IF f < Len(file) THEN file[f + 1]
                                         ELSE CHOOSE t \in Facet : TRUE],
   normal            |-> normals,
   neighbor          |-> [f \in Slot |-> [e \in Corner |-> 0]],
   which_vertex_not  |-> [f \in Slot |-> [e \in Corner |-> 0]],
   heads             |-> {},
   shortest_edge     |-> IF file = <<>> THEN 0 ELSE MaxDiff(file[1][0], file[1][1]),
   connected_edges   |-> 0,
   connected_facets  |-> [k \in 1 .. 3 |-> 0],
   degenerate_facets |-> 0,
   facets_removed    |-> 0,
   facets_added      |-> 0,
   edges_fixed       |-> 0]

=============================================================================
