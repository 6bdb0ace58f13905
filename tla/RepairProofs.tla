---------------------------- MODULE RepairProofs ----------------------------
(****************************************************************************)
(* Proofs about Repair: the passes of stl_repair one after another.         *)
(*                                                                          *)
(* The first part says that the operators each pass module has from StlFile *)
(* are those of this module; then come lemmas on the operations of the      *)
(* passes, one lemma for the steps of each pass, and the theorems on types, *)
(* normals and kept links.                                                  *)
(*                                                                          *)
(* The second part is about the neighbour list: how the passes after the    *)
(* exact check keep it symmetric and counted.  The exact check is the one   *)
(* of FacetCheckExact, with what is proved there.  Then comes what each     *)
(* operation on the structure does to the links: a match, a facet added, a  *)
(* facet removed (the last one gets its row), a facet turned; then the      *)
(* invariant of stl_repair and the theorems on its links.                   *)
(****************************************************************************)
EXTENDS Repair, StlFileProofs

-----------------------------------------------------------------------------
(****************************************************************************)
(* The structure and its operations are the same in every pass.             *)
(****************************************************************************)
(* The exact check works on the structure as the other passes have it.      *)
LEMMA ExactOperators ==
  /\ Exact!Corner = Corner /\ Exact!Slot = Slot /\ Exact!None = None
  /\ \A k : Exact!Next3(k) = Next3(k)
  /\ \A s : Exact!Facets(s) = Facets(s)
  /\ \A t : Exact!IsDegenerate(t) = IsDegenerate(t)
  /\ \A s, f : Exact!RemoveFacet(s, f) = RemoveFacet(s, f)
  /\ \A s, f, e, t : Exact!InsertEdgeExact(s, f, e, t) = InsertEdgeExact(s, f, e, t)
<1>1. Exact!Corner = Corner /\ Exact!Slot = Slot /\ Exact!None = None
  BY DEF Corner, Slot, None, Exact!Corner, Exact!Slot, Exact!None
<1>2. \A k : Exact!Next3(k) = Next3(k)
  BY DEF Next3, Exact!Next3
<1>3. \A s : Exact!Facets(s) = Facets(s)
  BY DEF Facets, Exact!Facets
<1>4. \A t : Exact!IsDegenerate(t) = IsDegenerate(t)
  BY DEF IsDegenerate, Exact!IsDegenerate
<1>5. ASSUME NEW s, NEW f PROVE Exact!RemoveFacet(s, f) = RemoveFacet(s, f)
  BY DEF RemoveFacet, MoveLast, Unconnected, Misdirected, Tell, Next3, None,
         Exact!RemoveFacet, Exact!MoveLast, Exact!Unconnected, Exact!Misdirected, Exact!Tell,
         Exact!Next3, Exact!None
<1>6. ASSUME NEW s, NEW a, NEW b PROVE Exact!RecordNeighbors(s, a, b) = RecordNeighbors(s, a, b)
  <2>1. Exact!Link(s, a, b) = Link(s, a, b)
    BY DEF Link, Prev3, Exact!Link, Exact!Prev3
  <2>2. \A t, f : Exact!CountConnect(t, f) = CountConnect(t, f)
    BY DEF CountConnect, Unconnected, None, Exact!CountConnect, Exact!Unconnected, Exact!None
  <2>3. QED
    BY <2>1, <2>2 DEF RecordNeighbors, Exact!RecordNeighbors
<1>7. \A s, edge : Exact!Matches(s, edge) = Matches(s, edge)
  BY DEF Matches, Exact!Matches
<1>8. \A S : Exact!Oldest(S) = Oldest(S)
  BY DEF Oldest, Exact!Oldest
<1>9. ASSUME NEW s, NEW f, NEW e, NEW t
      PROVE  Exact!InsertEdgeExact(s, f, e, t) = InsertEdgeExact(s, f, e, t)
  <2>1. ASSUME NEW a, NEW b
        PROVE  /\ Exact!ShortestEdge(s, a, b) = ShortestEdge(s, a, b)
               /\ Exact!LoadEdgeExact(f, e, a, b) = LoadEdgeExact(f, e, a, b)
    BY DEF ShortestEdge, MaxDiff, DominantAxis, Diff, LoadEdgeExact, LoadEdge, Forward,
           Exact!ShortestEdge, Exact!MaxDiff, Exact!DominantAxis, Exact!Diff,
           Exact!LoadEdgeExact, Exact!LoadEdge, Exact!Forward
  <2>2. \A u, edge : Exact!InsertHashEdge(u, edge) = InsertHashEdge(u, edge)
    BY <1>6, <1>7, <1>8 DEF InsertHashEdge, Exact!InsertHashEdge
  <2>3. QED
    BY <1>2, <2>1, <2>2 DEF InsertEdgeExact, Exact!InsertEdgeExact
<1>10. QED
  BY <1>1, <1>2, <1>3, <1>4, <1>5, <1>9

(* The nearby check works on the structure as the other passes have it.     *)
LEMMA NearbyOperators ==
  /\ Nearby!Corner = Corner /\ Nearby!Slot = Slot /\ Nearby!None = None
  /\ \A k : Nearby!Next3(k) = Next3(k)
  /\ \A k : Nearby!Prev3(k) = Prev3(k)
  /\ \A s : Nearby!Facets(s) = Facets(s)
  /\ \A s, edge : Nearby!Matches(s, edge) = Matches(s, edge)
  /\ \A S : Nearby!Oldest(S) = Oldest(S)
  /\ \A s, a, b : Nearby!RecordNeighbors(s, a, b) = RecordNeighbors(s, a, b)
  /\ \A v, d : Nearby!Turn(v, d) = Turn(v, d)
  /\ \A f, e, a, b, ka, kb : Nearby!LoadEdge(f, e, a, b, ka, kb) = LoadEdge(f, e, a, b, ka, kb)
<1>1. Nearby!Corner = Corner /\ Nearby!Slot = Slot /\ Nearby!None = None
  BY DEF Corner, Slot, None, Nearby!Corner, Nearby!Slot, Nearby!None
<1>2. \A k : Nearby!Next3(k) = Next3(k)
  BY DEF Next3, Nearby!Next3
<1>3. \A k : Nearby!Prev3(k) = Prev3(k)
  BY DEF Prev3, Nearby!Prev3
<1>4. \A s : Nearby!Facets(s) = Facets(s)
  BY DEF Facets, Nearby!Facets
<1>5. ASSUME NEW s, NEW a, NEW b PROVE Nearby!RecordNeighbors(s, a, b) = RecordNeighbors(s, a, b)
  <2>1. Nearby!Link(s, a, b) = Link(s, a, b)
    BY DEF Link, Prev3, Nearby!Link, Nearby!Prev3
  <2>2. \A t, f : Nearby!CountConnect(t, f) = CountConnect(t, f)
    BY DEF CountConnect, Unconnected, None, Nearby!CountConnect, Nearby!Unconnected, Nearby!None
  <2>3. QED
    BY <2>1, <2>2 DEF RecordNeighbors, Nearby!RecordNeighbors
<1>6. \A s, edge : Nearby!Matches(s, edge) = Matches(s, edge)
  BY DEF Matches, Nearby!Matches
<1>7. \A S : Nearby!Oldest(S) = Oldest(S)
  BY DEF Oldest, Nearby!Oldest
<1>8. \A v, d : Nearby!Turn(v, d) = Turn(v, d)
  BY DEF Turn, Next3, Prev3, Nearby!Turn, Nearby!Next3, Nearby!Prev3
<1>9. \A f, e, a, b, ka, kb : Nearby!LoadEdge(f, e, a, b, ka, kb) = LoadEdge(f, e, a, b, ka, kb)
  BY DEF LoadEdge, Forward, DominantAxis, Diff,
         Nearby!LoadEdge, Nearby!Forward, Nearby!DominantAxis, Nearby!Diff
<1>10. QED
  BY <1>1, <1>2, <1>3, <1>4, <1>5, <1>6, <1>7, <1>8, <1>9

(* So does the removal of unconnected facets.                               *)
LEMMA RemoveOperators ==
  /\ Remove!Corner = Corner /\ Remove!Slot = Slot /\ Remove!None = None
  /\ \A k : Remove!Next3(k) = Next3(k)
  /\ \A s : Remove!Facets(s) = Facets(s)
  /\ \A t : Remove!IsDegenerate(t) = IsDegenerate(t)
  /\ \A s, f : Remove!Unconnected(s, f) = Unconnected(s, f)
  /\ \A s, f : Remove!RemoveFacet(s, f) = RemoveFacet(s, f)
<1>1. Remove!Corner = Corner /\ Remove!Slot = Slot /\ Remove!None = None
  BY DEF Corner, Slot, None, Remove!Corner, Remove!Slot, Remove!None
<1>2. \A k : Remove!Next3(k) = Next3(k)
  BY DEF Next3, Remove!Next3
<1>3. \A s : Remove!Facets(s) = Facets(s)
  BY DEF Facets, Remove!Facets
<1>4. \A t : Remove!IsDegenerate(t) = IsDegenerate(t)
  BY DEF IsDegenerate, Remove!IsDegenerate
<1>5. \A s, f : Remove!Unconnected(s, f) = Unconnected(s, f)
  BY DEF Unconnected, None, Remove!Unconnected, Remove!None
<1>6. ASSUME NEW s, NEW f PROVE Remove!RemoveFacet(s, f) = RemoveFacet(s, f)
  BY DEF RemoveFacet, MoveLast, Unconnected, Misdirected, Tell, Next3, None,
         Remove!RemoveFacet, Remove!MoveLast, Remove!Unconnected, Remove!Misdirected, Remove!Tell,
         Remove!Next3, Remove!None
<1>7. QED
  BY <1>1, <1>2, <1>3, <1>4, <1>5, <1>6

(* So does the filling of holes.                                            *)
LEMMA FillOperators ==
  /\ Fill!Corner = Corner /\ Fill!Slot = Slot /\ Fill!None = None
  /\ \A k : Fill!Next3(k) = Next3(k)
  /\ \A k : Fill!Prev3(k) = Prev3(k)
  /\ \A s : Fill!Facets(s) = Facets(s)
  /\ \A s, f, e, t : Fill!InsertEdgeExact(s, f, e, t) = InsertEdgeExact(s, f, e, t)
  /\ \A v, d : Fill!Turn(v, d) = Turn(v, d)
  /\ \A s : Fill!HasRoom(s) <=> HasRoom(s)
  /\ \A s, t : Fill!AddFacet(s, t) = AddFacet(s, t)
<1>1. Fill!Corner = Corner /\ Fill!Slot = Slot /\ Fill!None = None
  BY DEF Corner, Slot, None, Fill!Corner, Fill!Slot, Fill!None
<1>2. \A k : Fill!Next3(k) = Next3(k)
  BY DEF Next3, Fill!Next3
<1>3. \A k : Fill!Prev3(k) = Prev3(k)
  BY DEF Prev3, Fill!Prev3
<1>4. \A s : Fill!Facets(s) = Facets(s)
  BY DEF Facets, Fill!Facets
<1>5. ASSUME NEW s, NEW a, NEW b PROVE Fill!RecordNeighbors(s, a, b) = RecordNeighbors(s, a, b)
  <2>1. Fill!Link(s, a, b) = Link(s, a, b)
    BY DEF Link, Prev3, Fill!Link, Fill!Prev3
  <2>2. \A t, f : Fill!CountConnect(t, f) = CountConnect(t, f)
    BY DEF CountConnect, Unconnected, None, Fill!CountConnect, Fill!Unconnected, Fill!None
  <2>3. QED
    BY <2>1, <2>2 DEF RecordNeighbors, Fill!RecordNeighbors
<1>6. \A s, edge : Fill!Matches(s, edge) = Matches(s, edge)
  BY DEF Matches, Fill!Matches
<1>7. \A S : Fill!Oldest(S) = Oldest(S)
  BY DEF Oldest, Fill!Oldest
<1>8. ASSUME NEW s, NEW f, NEW e, NEW t
      PROVE  Fill!InsertEdgeExact(s, f, e, t) = InsertEdgeExact(s, f, e, t)
  <2>1. ASSUME NEW a, NEW b
        PROVE  /\ Fill!ShortestEdge(s, a, b) = ShortestEdge(s, a, b)
               /\ Fill!LoadEdgeExact(f, e, a, b) = LoadEdgeExact(f, e, a, b)
    BY DEF ShortestEdge, MaxDiff, DominantAxis, Diff, LoadEdgeExact, LoadEdge, Forward,
           Fill!ShortestEdge, Fill!MaxDiff, Fill!DominantAxis, Fill!Diff,
           Fill!LoadEdgeExact, Fill!LoadEdge, Fill!Forward
  <2>2. \A u, edge : Fill!InsertHashEdge(u, edge) = InsertHashEdge(u, edge)
    BY <1>5, <1>6, <1>7 DEF InsertHashEdge, Fill!InsertHashEdge
  <2>3. QED
    BY <1>2, <2>1, <2>2 DEF InsertEdgeExact, Fill!InsertEdgeExact
<1>9. \A v, d : Fill!Turn(v, d) = Turn(v, d)
  BY DEF Turn, Next3, Prev3, Fill!Turn, Fill!Next3, Fill!Prev3
<1>10. \A s : Fill!HasRoom(s) <=> HasRoom(s)
  BY DEF HasRoom, Fill!HasRoom
<1>11. \A s, t : Fill!AddFacet(s, t) = AddFacet(s, t)
  BY DEF AddFacet, Zero, None, Corner, Fill!AddFacet, Fill!Zero, Fill!None, Fill!Corner
<1>12. QED
  BY <1>1, <1>2, <1>3, <1>4, <1>8, <1>9, <1>10, <1>11

(* So do the passes that turn facets.                                       *)
LEMMA DirectionsOperators ==
  /\ Directions!Corner = Corner /\ Directions!Slot = Slot /\ Directions!None = None
  /\ \A k : Directions!Next3(k) = Next3(k)
  /\ \A s : Directions!Facets(s) = Facets(s)
  /\ \A s, f : Directions!BackwardsNormal(s, f) <=> BackwardsNormal(s, f)
  /\ \A s, f : Directions!ReverseFacet(s, f) = ReverseFacet(s, f)
  /\ \A s, f : Directions!ReverseWithNormal(s, f) = ReverseWithNormal(s, f)
<1>1. Directions!Corner = Corner /\ Directions!Slot = Slot /\ Directions!None = None
  BY DEF Corner, Slot, None, Directions!Corner, Directions!Slot, Directions!None
<1>2. \A k : Directions!Next3(k) = Next3(k)
  BY DEF Next3, Directions!Next3
<1>3. \A s : Directions!Facets(s) = Facets(s)
  BY DEF Facets, Directions!Facets
<1>4. \A a, b : Directions!SameDirection(a, b) = SameDirection(a, b)
  BY DEF SameDirection, Cross, Dot, Zero,
         Directions!SameDirection, Directions!Cross, Directions!Dot, Directions!Zero
<1>5. \A t : Directions!FacetNormal(t) = FacetNormal(t)
  BY DEF FacetNormal, Cross, Minus, Directions!FacetNormal, Directions!Cross, Directions!Minus
<1>6. \A a : Directions!Negated(a) = Negated(a)
  BY DEF Negated, Minus, Zero, Directions!Negated, Directions!Minus, Directions!Zero
<1>7. \A s, f : Directions!BackwardsNormal(s, f) <=> BackwardsNormal(s, f)
  BY <1>4, <1>5, <1>6 DEF BackwardsNormal, RightNormal, Directions!BackwardsNormal, Directions!RightNormal
<1>8. ASSUME NEW s, NEW f PROVE Directions!ReverseFacet(s, f) = ReverseFacet(s, f)
  <2>1. \A vnot, shift : Directions!Rotate(vnot, shift) = Rotate(vnot, shift)
    BY DEF Rotate, Directions!Rotate
  <2>2. \A e : Directions!Shift(e) = Shift(e)
    BY DEF Shift, Directions!Shift
  <2>4. \A t, g, vnot, e : Directions!Adjust(t, g, vnot, e) = Adjust(t, g, vnot, e)
    BY <1>1, <1>2, <2>1, <2>2 DEF Adjust, Directions!Adjust
  <2>5. \A t, g, n, vnot : Directions!SwapEdges(t, g, n, vnot) = SwapEdges(t, g, n, vnot)
    BY DEF SwapEdges, Rotate, SwapCorners, Directions!SwapEdges, Directions!Rotate, Directions!SwapCorners
  <2>6. QED
    BY <2>4, <2>5 DEF ReverseFacet, Directions!ReverseFacet
<1>9. \A s, f : Directions!ReverseWithNormal(s, f) = ReverseWithNormal(s, f)
  BY <1>5, <1>8 DEF ReverseWithNormal, SetNormal, Directions!ReverseWithNormal, Directions!SetNormal
<1>10. QED
  BY <1>1, <1>2, <1>3, <1>7, <1>8, <1>9

(* So do the passes over the normals.                                       *)
LEMMA ValuesOperators ==
  /\ Values!Slot = Slot
  /\ \A s : Values!Facets(s) = Facets(s)
  /\ \A t : Values!FacetNormal(t) = FacetNormal(t)
<1>1. Values!Slot = Slot
  BY DEF Slot, Values!Slot
<1>2. \A s : Values!Facets(s) = Facets(s)
  BY DEF Facets, Values!Facets
<1>3. \A t : Values!FacetNormal(t) = FacetNormal(t)
  BY DEF FacetNormal, Cross, Minus, Values!FacetNormal, Values!Cross, Values!Minus
<1>4. QED
  BY <1>1, <1>2, <1>3

(* So does the generation of the shared vertices.                           *)
LEMMA SharedOperators ==
  /\ Shared!Corner = Corner /\ Shared!Slot = Slot /\ Shared!None = None
  /\ \A k : Shared!Next3(k) = Next3(k)
  /\ \A k : Shared!Prev3(k) = Prev3(k)
  /\ \A s : Shared!Facets(s) = Facets(s)
  /\ \A v, d : Shared!Turn(v, d) = Turn(v, d)
<1>1. Shared!Corner = Corner /\ Shared!Slot = Slot /\ Shared!None = None
  BY DEF Corner, Slot, None, Shared!Corner, Shared!Slot, Shared!None
<1>2. \A k : Shared!Next3(k) = Next3(k)
  BY DEF Next3, Shared!Next3
<1>3. \A k : Shared!Prev3(k) = Prev3(k)
  BY DEF Prev3, Shared!Prev3
<1>4. \A s : Shared!Facets(s) = Facets(s)
  BY DEF Facets, Shared!Facets
<1>5. \A v, d : Shared!Turn(v, d) = Turn(v, d)
  BY DEF Turn, Next3, Prev3, Shared!Turn, Shared!Next3, Shared!Prev3
<1>6. QED
  BY <1>1, <1>2, <1>3, <1>4, <1>5

-----------------------------------------------------------------------------
(****************************************************************************)
(* What the operations of the passes do to the structure.                   *)
(****************************************************************************)
(* A facet turned is a facet.                                               *)
LEMMA SwapCornersType ==
  ASSUME NEW t \in Facet
  PROVE  SwapCorners(t) \in Facet
  BY DEF SwapCorners, Facet, Corner

(* The vector stl_calculate_normal computes.                                *)
LEMMA FacetNormalType ==
  ASSUME NEW t \in Facet
  PROVE  FacetNormal(t) \in Point
<1>1. t[0] \in Point /\ t[1] \in Point /\ t[2] \in Point
  BY VertexAssumption DEF Facet, Corner
<1>2. \A a, b \in Point : Minus(a, b) \in Point
  BY DEF Minus, Point
<1>3. \A a, b \in Point : Cross(a, b) \in Point
  BY DEF Cross, Point
<1>4. QED
  BY <1>1, <1>2, <1>3 DEF FacetNormal

(* The structure with w for its which_vertex_not.                           *)
WithVertexNot(s, w) == [s EXCEPT !.which_vertex_not = w]

(* A neighbour of a facet that is reversed (stl_reverse_facet) adjusts      *)
(* which_vertex_not and nothing else.                                       *)
LEMMA AdjustFields ==
  ASSUME NEW s \in StlFiles, NEW g \in Slot \cup {None}, NEW vnot \in 0 .. 5, NEW e \in Corner
  PROVE  \E w \in [Slot -> [Corner -> 0 .. 5]] :
           Adjust(s, g, vnot, e) = WithVertexNot(s, w)
<1>1. CASE g = None
  <2>1. Adjust(s, g, vnot, e) = s
    BY <1>1 DEF Adjust
  <2>a. s = WithVertexNot(s, s.which_vertex_not)
    BY DEF WithVertexNot, StlFiles
  <2>2. s.which_vertex_not \in [Slot -> [Corner -> 0 .. 5]]
    BY DEF StlFiles
  <2>3. QED
    BY <2>1, <2>a, <2>2
<1>2. CASE g # None
  <2> DEFINE v == s.which_vertex_not
             k == Next3(vnot)
             w == [v EXCEPT ![g][k] = Rotate(v[g][k], Shift(e))]
  <2>1. g \in Slot /\ k \in Corner /\ v \in [Slot -> [Corner -> 0 .. 5]]
    BY <1>2, CornerArithmetic DEF StlFiles
  <2>2. Adjust(s, g, vnot, e) = WithVertexNot(s, w)
    BY <1>2 DEF Adjust, WithVertexNot
  <2> HIDE DEF v, k
  <2>3. Rotate(v[g][k], Shift(e)) \in 0 .. 5
    <3>1. Shift(e) \in 2 .. 4
      BY DEF Shift, Corner
    <3>2. v[g][k] \in 0 .. 5
      BY <2>1
    <3>3. \A x \in 0 .. 5, y \in 2 .. 4 : Rotate(x, y) \in 0 .. 5
      BY DEF Rotate
    <3>4. QED
      BY <3>1, <3>2, <3>3
  <2>4. ASSUME NEW x \in 0 .. 5
        PROVE  [v EXCEPT ![g][k] = x] \in [Slot -> [Corner -> 0 .. 5]]
    BY <2>1
  <2>5. w \in [Slot -> [Corner -> 0 .. 5]]
    BY <2>3, <2>4
  <2>6. QED
    BY <2>2, <2>5
<1>3. QED
  BY <1>1, <1>2

(* stl_reverse_facet swaps two corners of the facet and writes the          *)
(* neighbour list, and nothing else.                                        *)
LEMMA ReverseFacetFields ==
  ASSUME NEW s \in StlFiles, NEW f \in Slot
  PROVE  LET t == ReverseFacet(s, f)
         IN  /\ t \in StlFiles
             /\ t.number_of_facets = s.number_of_facets
             /\ t.facet_start = [s.facet_start EXCEPT ![f] = SwapCorners(s.facet_start[f])]
             /\ t.normal = s.normal
             /\ t.shortest_edge = s.shortest_edge
             /\ t.heads = s.heads
             /\ t.neighbor = [s.neighbor EXCEPT ![f] = [s.neighbor[f] EXCEPT
                                ![1] = s.neighbor[f][2], ![2] = s.neighbor[f][1]]]
             /\ t.connected_facets = s.connected_facets
<1> DEFINE n == s.neighbor[f]
           vnot == s.which_vertex_not[f]
           V == [Slot -> [Corner -> 0 .. 5]]
           t0 == Adjust(s, n[0], vnot[0], 0)
           t1 == Adjust(t0, n[1], vnot[1], 1)
           t2 == Adjust(t1, n[2], vnot[2], 2)
           t == ReverseFacet(s, f)
<1>1. 0 \in Corner /\ 1 \in Corner /\ 2 \in Corner
  BY DEF Corner
<1>2. \A e \in Corner : n[e] \in Slot \cup {None} /\ vnot[e] \in 0 .. 5
  BY DEF StlFiles
<1>3. \A w \in V : WithVertexNot(s, w) \in StlFiles
  BY DEF WithVertexNot, StlFiles
<1>4. t = SwapEdges(t2, f, n, vnot)
  BY DEF ReverseFacet
<1> HIDE DEF n, vnot, V, t
<1>4a. ASSUME NEW u \in StlFiles, NEW e \in Corner
       PROVE  \E w \in V : Adjust(u, n[e], vnot[e], e) = WithVertexNot(u, w)
  BY <1>2, AdjustFields DEF V
<1>5. PICK w2 \in V : t2 = WithVertexNot(s, w2)
  <2>1. PICK w0 \in V : t0 = WithVertexNot(s, w0)
    BY <1>1, <1>4a
  <2>2. t0 \in StlFiles
    BY <1>3, <2>1
  <2> HIDE DEF t0
  <2>3. PICK w1 \in V : t1 = WithVertexNot(t0, w1)
    BY <1>1, <1>4a, <2>2
  <2>4. t1 = WithVertexNot(s, w1)
    BY <2>1, <2>3 DEF WithVertexNot
  <2>5. t1 \in StlFiles
    BY <1>3, <2>4
  <2> HIDE DEF t1
  <2>6. PICK w2 \in V : t2 = WithVertexNot(t1, w2)
    BY <1>1, <1>4a, <2>5
  <2>7. t2 = WithVertexNot(s, w2)
    BY <2>4, <2>6 DEF WithVertexNot
  <2>8. QED
    BY <2>7
<1> HIDE DEF t2
<1>6. /\ t2 \in StlFiles /\ t2.which_vertex_not = w2
      /\ t2.number_of_facets = s.number_of_facets /\ t2.facet_start = s.facet_start
      /\ t2.normal = s.normal /\ t2.shortest_edge = s.shortest_edge
      /\ t2.heads = s.heads /\ t2.neighbor = s.neighbor
      /\ t2.connected_facets = s.connected_facets
  BY <1>3, <1>5 DEF WithVertexNot, StlFiles
<1> DEFINE c == SwapCorners(t2.facet_start[f])
           l == [n EXCEPT ![1] = n[2], ![2] = n[1]]
           v == [t2.which_vertex_not[f] EXCEPT ![0] = Rotate(t2.which_vertex_not[f][0], 3),
                              ![1] = Rotate(vnot[2], 3), ![2] = Rotate(vnot[1], 3)]
<1>7. c \in Facet
  <2>1. t2.facet_start[f] \in Facet
    BY <1>6 DEF StlFiles
  <2>2. QED
    BY <2>1, SwapCornersType
<1>8. l \in [Corner -> Slot \cup {None}]
  <2>1. n \in [Corner -> Slot \cup {None}]
    BY DEF StlFiles, n
  <2>2. QED
    BY <1>1, <1>2, <2>1
<1>9. v \in [Corner -> 0 .. 5]
  <2>1. w2[f] \in [Corner -> 0 .. 5] /\ t2.which_vertex_not[f] = w2[f]
    BY <1>6 DEF V
  <2>2. \A x \in 0 .. 5 : Rotate(x, 3) \in 0 .. 5
    BY DEF Rotate
  <2>3. w2[f][0] \in 0 .. 5
    BY <1>1, <2>1
  <2>4. QED
    BY <1>1, <1>2, <2>1, <2>2, <2>3
<1>10. t = [t2 EXCEPT !.facet_start[f] = c, !.neighbor[f] = l, !.which_vertex_not[f] = v]
  BY <1>4 DEF SwapEdges
<1>11. c = SwapCorners(s.facet_start[f])
       /\ l = [s.neighbor[f] EXCEPT ![1] = s.neighbor[f][2], ![2] = s.neighbor[f][1]]
  BY <1>6 DEF n
<1> HIDE DEF c, l, v
<1>12. t \in StlFiles
  BY <1>6, <1>7, <1>8, <1>9, <1>10 DEF StlFiles
<1>13. /\ t.number_of_facets = t2.number_of_facets
       /\ t.facet_start = [t2.facet_start EXCEPT ![f] = c]
       /\ t.normal = t2.normal /\ t.shortest_edge = t2.shortest_edge
       /\ t.heads = t2.heads /\ t.neighbor = [t2.neighbor EXCEPT ![f] = l]
       /\ t.connected_facets = t2.connected_facets
  BY <1>6, <1>10 DEF StlFiles
<1>14. QED
  BY <1>6, <1>11, <1>12, <1>13 DEF t

(* What stl_reverse_all_facets does to a facet changes in addition its      *)
(* normal, to that of the facet turned.                                     *)
LEMMA ReverseWithNormalFields ==
  ASSUME NEW s \in StlFiles, NEW f \in Slot
  PROVE  LET t == ReverseWithNormal(s, f)
             r == ReverseFacet(s, f)
         IN  /\ t \in StlFiles
             /\ t = [r EXCEPT !.normal = [s.normal EXCEPT
                                            ![f] = FacetNormal(r.facet_start[f])]]
<1> DEFINE r == ReverseFacet(s, f)
           n == FacetNormal(r.facet_start[f])
           t == ReverseWithNormal(s, f)
<1>1. r \in StlFiles /\ r.normal = s.normal
  BY ReverseFacetFields
<1>2. t = [r EXCEPT !.normal[f] = n]
  BY DEF ReverseWithNormal, SetNormal
<1> HIDE DEF r
<1>3. n \in Point
  <2>1. r.facet_start[f] \in Facet
    BY <1>1 DEF StlFiles
  <2>2. QED
    BY <2>1, FacetNormalType
<1> HIDE DEF n, t
<1>4. t \in StlFiles /\ t = [r EXCEPT !.normal = [s.normal EXCEPT ![f] = n]]
  BY <1>1, <1>2, <1>3 DEF StlFiles
<1>5. QED
  BY <1>4 DEF t, r, n

(* The structure s with other links and counters.                           *)
SameFacets(s, t) ==
  /\ t \in StlFiles
  /\ t.number_of_facets = s.number_of_facets
  /\ t.shortest_edge = s.shortest_edge
  /\ t.facet_start = s.facet_start
  /\ t.normal = s.normal

(* Telling a neighbour where the moved facet is writes the neighbour list   *)
(* and nothing else.                                                        *)
LEMMA TellKeeps ==
  ASSUME NEW s \in StlFiles, NEW g \in Slot \cup {None}, NEW e \in Corner, NEW f \in Slot
  PROVE  LET t == Tell(s, g, e, f)
         IN  /\ t.number_of_facets = s.number_of_facets
             /\ t.shortest_edge = s.shortest_edge
             /\ t.facet_start = s.facet_start
             /\ t.normal = s.normal
  BY DEF Tell, StlFiles

(* The structure s without its facet f, the last one, with its corners and  *)
(* its normal, in its row, and with other links and counters.               *)
FacetRemoved(s, f, t) ==
  LET last == s.number_of_facets - 1
  IN  /\ t \in StlFiles
      /\ t.number_of_facets = last
      /\ t.shortest_edge = s.shortest_edge
      /\ t.facet_start = [s.facet_start EXCEPT ![f] = s.facet_start[last]]
      /\ t.normal = [s.normal EXCEPT ![f] = s.normal[last]]

(* stl_remove_facet takes one facet away and moves the last one, corners    *)
(* and normal, to its row.                                                  *)
LEMMA RemoveFacetKeeps ==
  ASSUME NEW s \in StlFiles, NEW f \in Facets(s)
  PROVE  FacetRemoved(s, f, RemoveFacet(s, f))
<1> DEFINE last  == s.number_of_facets - 1
           g(e)  == s.neighbor[last][e]
           back(e) == Next3(s.which_vertex_not[last][e])
           moved == MoveLast(s, f)
           told0 == Tell(moved, g(0), back(0), f)
           told1 == Tell(told0, g(1), back(1), f)
           told2 == Tell(told1, g(2), back(2), f)
           t == RemoveFacet(s, f)
           Kept(u) == /\ u.number_of_facets = last
                      /\ u.shortest_edge = s.shortest_edge
                      /\ u.facet_start = [s.facet_start EXCEPT ![f] = s.facet_start[last]]
                      /\ u.normal = [s.normal EXCEPT ![f] = s.normal[last]]
<1>1. last \in Slot /\ f \in Slot
  BY MaxFacetsAssumption DEF StlFiles, Facets, Slot
<1>2. \A e \in Corner : g(e) \in Slot \cup {None} /\ back(e) \in Corner
  <2>1. /\ s.neighbor[last] \in [Corner -> Slot \cup {None}]
        /\ s.which_vertex_not[last] \in [Corner -> 0 .. 5]
    BY <1>1 DEF StlFiles
  <2>2. QED
    BY <2>1, CornerArithmetic
<1>3. 0 \in Corner /\ 1 \in Corner /\ 2 \in Corner
  BY DEF Corner
<1>4. t \in {moved, told0, told1, told2}
  BY DEF RemoveFacet
<1>5. moved \in StlFiles /\ Kept(moved)
  <2>1. moved \in StlFiles
    BY MoveLastType
  <2>2. Kept(moved)
    BY <1>1 DEF MoveLast, StlFiles
  <2>3. QED
    BY <2>1, <2>2
<1> HIDE DEF moved, g, back, t
<1>6. ASSUME NEW u \in StlFiles, Kept(u), NEW e \in Corner
      PROVE  Tell(u, g(e), back(e), f) \in StlFiles /\ Kept(Tell(u, g(e), back(e), f))
  <2>1. PICK h \in Slot \cup {None}, k \in Corner : h = g(e) /\ k = back(e)
    BY <1>2
  <2> DEFINE tu == Tell(u, h, k, f)
  <2>2. tu \in StlFiles
    BY <1>1, TellType
  <2>3. /\ tu.number_of_facets = u.number_of_facets
        /\ tu.shortest_edge = u.shortest_edge
        /\ tu.facet_start = u.facet_start
        /\ tu.normal = u.normal
    BY <1>1, TellKeeps
  <2> HIDE DEF tu
  <2>4. tu \in StlFiles /\ Kept(tu)
    BY <1>6, <2>2, <2>3
  <2>5. QED
    BY <2>1, <2>4 DEF tu
<1> HIDE DEF Kept
<1>7. told0 \in StlFiles /\ Kept(told0)
  BY <1>3, <1>5, <1>6
<1> HIDE DEF told0
<1>8. told1 \in StlFiles /\ Kept(told1)
  BY <1>3, <1>6, <1>7
<1> HIDE DEF told1
<1>9. Kept(told2)
  BY <1>3, <1>6, <1>8
<1>10. Kept(t)
  BY <1>4, <1>5, <1>7, <1>8, <1>9
<1>11. QED
  BY <1>10, RemoveFacetType DEF Kept, t, FacetRemoved

(* stl_update_connects_remove_1 writes the counters and nothing else.       *)
LEMMA UpdateConnectsRemove1Keeps ==
  ASSUME NEW s \in StlFiles, NEW f
  PROVE  LET t == Remove!UpdateConnectsRemove1(s, f)
         IN  /\ SameFacets(s, t)
             /\ t.neighbor = s.neighbor
             /\ t.which_vertex_not = s.which_vertex_not
<1> DEFINE k == 3 - Remove!Unconnected(s, f)
           t == Remove!UpdateConnectsRemove1(s, f)
<1>1. k \in 0 .. 3
  BY UnconnectedType, RemoveOperators
<1> HIDE DEF k
<1>2. CASE t = s
  BY <1>2 DEF SameFacets
<1>3. CASE t # s
  <2>1. k # 0 /\ t = [s EXCEPT !.connected_facets[k] = @ - 1]
    BY <1>3 DEF Remove!UpdateConnectsRemove1, k
  <2>2. k \in 1 .. 3
    BY <1>1, <2>1
  <2>3. s.connected_facets[k] - 1 \in Int
    BY <2>2 DEF StlFiles
  <2> HIDE DEF t
  <2>4. t \in StlFiles
    BY <2>1, <2>2, <2>3 DEF StlFiles
  <2>5. /\ t.number_of_facets = s.number_of_facets
        /\ t.shortest_edge = s.shortest_edge
        /\ t.facet_start = s.facet_start
        /\ t.normal = s.normal
        /\ t.neighbor = s.neighbor
        /\ t.which_vertex_not = s.which_vertex_not
    BY <2>1 DEF StlFiles
  <2>6. QED
    BY <2>4, <2>5 DEF t, SameFacets
<1>4. QED
  BY <1>2, <1>3

(* Joining a facet to another one (stl_remove_degenerate) writes the        *)
(* neighbour list and nothing else.                                         *)
LEMMA RelinkKeeps ==
  ASSUME NEW s \in StlFiles, NEW g \in Slot \cup {None}, NEW e \in Corner,
         NEW h \in Slot \cup {None}, NEW vnot \in 0 .. 5
  PROVE  SameFacets(s, Remove!Relink(s, g, e, h, vnot))
<1>1. Remove!None = None
  BY RemoveOperators
<1>2. CASE g = None
  BY <1>1, <1>2 DEF Remove!Relink, SameFacets
<1>3. CASE g # None
  <2> DEFINE t == Remove!Relink(s, g, e, h, vnot)
  <2>1. g \in Slot
    BY <1>3
  <2>2. t = [s EXCEPT !.neighbor[g][e] = h, !.which_vertex_not[g][e] = vnot]
    BY <1>1, <1>3 DEF Remove!Relink
  <2> HIDE DEF t
  <2>3. t \in StlFiles
    BY <2>1, <2>2 DEF StlFiles
  <2>4. /\ t.number_of_facets = s.number_of_facets
        /\ t.shortest_edge = s.shortest_edge
        /\ t.facet_start = s.facet_start
        /\ t.normal = s.normal
    BY <2>2 DEF StlFiles
  <2>5. QED
    BY <2>3, <2>4 DEF t, SameFacets
<1>4. QED
  BY <1>2, <1>3

(* Joining the neighbours of a facet writes the neighbour list and the      *)
(* counters and nothing else.                                               *)
LEMMA JoinNeighborsKeeps ==
  ASSUME NEW s \in StlFiles, NEW f \in Slot, NEW e1 \in Corner, NEW e2 \in Corner
  PROVE  SameFacets(s, Remove!JoinNeighbors(s, f, e1, e2))
<1>1. PICK n1 \in Slot \cup {None}, n2 \in Slot \cup {None}, v1 \in 0 .. 5, v2 \in 0 .. 5 :
        /\ n1 = s.neighbor[f][e1] /\ n2 = s.neighbor[f][e2]
        /\ v1 = s.which_vertex_not[f][e1] /\ v2 = s.which_vertex_not[f][e2]
  <2>1. \A e \in Corner : /\ s.neighbor[f][e] \in Slot \cup {None}
                          /\ s.which_vertex_not[f][e] \in 0 .. 5
    BY DEF StlFiles
  <2>2. QED
    BY <2>1
<1>2. PICK k1 \in Corner, k2 \in Corner : k1 = Next3(v1) /\ k2 = Next3(v2)
  BY CornerArithmetic
<1> DEFINE counted == IF n1 = None THEN Remove!UpdateConnectsRemove1(s, n2)
                      ELSE IF n2 = None THEN Remove!UpdateConnectsRemove1(s, n1)
                      ELSE s
           joined1 == Remove!Relink(counted, n1, k1, n2, v2)
           joined2 == Remove!Relink(joined1, n2, k2, n1, v1)
<1>3. Remove!JoinNeighbors(s, f, e1, e2) = joined2
  <2>1. Remove!None = None /\ \A k : Remove!Next3(k) = Next3(k)
    BY RemoveOperators
  <2>2. QED
    BY <1>1, <1>2, <2>1 DEF Remove!JoinNeighbors
<1>4. SameFacets(s, counted)
  <2>1. ASSUME NEW n PROVE SameFacets(s, Remove!UpdateConnectsRemove1(s, n))
    BY UpdateConnectsRemove1Keeps
  <2>2. SameFacets(s, s)
    BY DEF SameFacets
  <2>3. QED
    BY <2>1, <2>2
<1> HIDE DEF counted
<1>5. SameFacets(counted, joined1)
  <2>1. counted \in StlFiles
    BY <1>4 DEF SameFacets
  <2>2. QED
    BY <2>1, RelinkKeeps
<1> HIDE DEF joined1
<1>6. SameFacets(joined1, joined2)
  <2>1. joined1 \in StlFiles
    BY <1>5 DEF SameFacets
  <2>2. QED
    BY <2>1, RelinkKeeps
<1> HIDE DEF joined2
<1>7. SameFacets(s, joined2)
  BY <1>4, <1>5, <1>6 DEF SameFacets
<1>8. QED
  BY <1>3, <1>7

(* Cutting a link writes the neighbour list and the counters and nothing    *)
(* else.                                                                    *)
LEMMA CutKeeps ==
  ASSUME NEW s \in StlFiles, NEW g \in Slot \cup {None}, NEW e \in Corner
  PROVE  SameFacets(s, Remove!Cut(s, g, e))
<1>1. Remove!None = None
  BY RemoveOperators
<1>2. CASE g = None
  BY <1>1, <1>2 DEF Remove!Cut, SameFacets
<1>3. CASE g # None
  <2> DEFINE t == Remove!Cut(s, g, e)
             r == Remove!UpdateConnectsRemove1(s, g)
  <2>1. g \in Slot
    BY <1>3
  <2>2. t = [r EXCEPT !.neighbor[g][e] = None]
    BY <1>1, <1>3 DEF Remove!Cut
  <2>3. /\ r \in StlFiles
        /\ r.number_of_facets = s.number_of_facets
        /\ r.shortest_edge = s.shortest_edge
        /\ r.facet_start = s.facet_start
        /\ r.normal = s.normal
    BY UpdateConnectsRemove1Keeps DEF SameFacets
  <2> HIDE DEF t, r
  <2>4. t \in StlFiles
    BY <2>1, <2>2, <2>3 DEF StlFiles
  <2>5. /\ t.number_of_facets = r.number_of_facets
        /\ t.shortest_edge = r.shortest_edge
        /\ t.facet_start = r.facet_start
        /\ t.normal = r.normal
    BY <2>2, <2>3 DEF StlFiles
  <2>6. QED
    BY <2>3, <2>4, <2>5 DEF t, SameFacets
<1>4. QED
  BY <1>2, <1>3

(* stl_remove_degenerate takes one facet away and moves the last one,       *)
(* corners and normal, to its row, whatever it does to the links.           *)
LEMMA RemoveDegenerateKeeps ==
  ASSUME NEW s \in StlFiles, NEW f \in Facets(s)
  PROVE  FacetRemoved(s, f, Remove!RemoveDegenerate(s, f))
<1> DEFINE v  == s.facet_start[f]
           e3 == Remove!ZeroEdge(v)
           e1 == IF e3 = 0 THEN 1 ELSE 0
           e2 == IF e3 = 2 THEN 1 ELSE 2
           joined == Remove!JoinNeighbors(s, f, e1, e2)
           removed == RemoveFacet(joined, f)
           g == s.neighbor[f][e3]
           k == Next3(s.which_vertex_not[f][e3])
           t == Remove!RemoveDegenerate(s, f)
<1>1. t = IF v[0] = v[1] /\ v[1] = v[2] THEN RemoveFacet(s, f) ELSE Remove!Cut(removed, g, k)
  <2>1. \A l : Remove!Next3(l) = Next3(l)
    BY RemoveOperators
  <2>2. \A u : Remove!RemoveFacet(u, f) = RemoveFacet(u, f)
    BY RemoveOperators
  <2>3. QED
    BY <2>1, <2>2 DEF Remove!RemoveDegenerate
<1>2. f \in Slot
  BY FacetsAreSlots
<1>3. e1 \in Corner /\ e2 \in Corner /\ e3 \in Corner
  BY DEF Remove!ZeroEdge, Corner
<1> HIDE DEF e1, e2, e3, t
<1>4. g \in Slot \cup {None} /\ k \in Corner
  <2>1. s.which_vertex_not[f][e3] \in 0 .. 5 /\ g \in Slot \cup {None}
    BY <1>2, <1>3 DEF StlFiles
  <2>2. QED
    BY <2>1, CornerArithmetic
<1> HIDE DEF g, k
<1>5. SameFacets(s, joined)
  BY <1>2, <1>3, JoinNeighborsKeeps
<1> HIDE DEF joined
<1>6. FacetRemoved(s, f, RemoveFacet(s, f))
  BY RemoveFacetKeeps
<1>7. FacetRemoved(s, f, removed)
  <2>1. joined \in StlFiles /\ f \in Facets(joined)
    BY <1>5 DEF Facets, SameFacets
  <2>2. FacetRemoved(joined, f, removed)
    BY <2>1, RemoveFacetKeeps
  <2>3. QED
    BY <1>5, <2>2 DEF FacetRemoved, SameFacets
<1> HIDE DEF removed
<1>8. FacetRemoved(s, f, Remove!Cut(removed, g, k))
  <2>1. removed \in StlFiles
    BY <1>7 DEF FacetRemoved
  <2>2. SameFacets(removed, Remove!Cut(removed, g, k))
    BY <1>4, <2>1, CutKeeps
  <2>3. QED
    BY <1>7, <2>2 DEF FacetRemoved, SameFacets
<1>9. QED
  BY <1>1, <1>6, <1>8 DEF t

(* The grid of the nearby check starts at coordinates of the file.          *)
LEMMA LeastCoordinateType ==
  ASSUME file \in Seq(Facet), file # <<>>, NEW axis \in 1 .. 3
  PROVE  Nearby!LeastCoordinate(axis) \in Int
<1> DEFINE rows == DOMAIN file
           D == rows \X Corner
           at(k, c) == file[k][c][axis]
           values == {at(k, c) : k \in rows, c \in Corner}
           g == [p \in D |-> at(p[1], p[2])]
<1>1. /\ \A k \in DOMAIN file, c \in Corner : file[k][c] \in Point
      /\ DOMAIN file = 1 .. Len(file) /\ Len(file) \in Nat /\ 1 \in DOMAIN file
  BY VertexAssumption DEF Facet
<1>a. Nearby!LeastCoordinate(axis) = CHOOSE x \in values : \A y \in values : x <= y
  BY DEF Nearby!LeastCoordinate, Nearby!Corner, Corner
<1>b. \A k, c : at(k, c) = file[k][c][axis]
  OBVIOUS
<1>c. rows = DOMAIN file
  OBVIOUS
<1> HIDE DEF rows, at
<1>2. /\ \A k \in rows, c \in Corner : at(k, c) \in values
      /\ \A v \in values : \E k \in rows, c \in Corner : v = at(k, c)
  OBVIOUS
<1>3. \A p \in D : p[1] \in rows /\ p[2] \in Corner
  OBVIOUS
<1>4. \A k \in rows, c \in Corner : <<k, c>> \in D /\ g[<<k, c>>] = at(k, c)
  OBVIOUS
<1>5. DOMAIN g = D /\ \A p \in D : g[p] = at(p[1], p[2])
  OBVIOUS
<1>6. g = [p \in D |-> g[p]]
  OBVIOUS
<1>7. IsFiniteSet(rows) /\ IsFiniteSet(Corner)
  <2>1. \A a, b \in Int : IsFiniteSet(a .. b)
    BY FS_Interval
  <2>2. Len(file) \in Int /\ rows = 1 .. Len(file)
    BY <1>1, <1>c
  <2>3. IsFiniteSet(rows)
    BY <2>1, <2>2
  <2>4. 0 \in Int /\ 2 \in Int
    OBVIOUS
  <2>5. IsFiniteSet(Corner)
    BY <2>1, <2>4, Zenon DEF Corner
  <2>6. QED
    BY <2>3, <2>5
<1>8. IsFiniteSet(D)
  BY <1>7, FS_Product
<1> HIDE DEF D, values, g
<1>10. values \subseteq Int /\ values # {}
  <2>1. \A k \in rows, c \in Corner : at(k, c) \in Int
    BY <1>1, <1>b, <1>c DEF Point
  <2>2. 0 \in Corner /\ 1 \in rows
    BY <1>1, <1>c DEF Corner
  <2>3. QED
    BY <1>2, <2>1, <2>2
<1>11. g \in [D -> values]
  <2>1. \A p \in D : g[p] \in values
    BY <1>2, <1>3, <1>5
  <2>2. QED
    BY <1>6, <2>1
<1>12. g \in Surjection(D, values)
  <2>1. ASSUME NEW v \in values PROVE \E p \in D : g[p] = v
    <3>1. PICK k \in rows, c \in Corner : v = at(k, c)
      BY <1>2
    <3>2. QED
      BY <1>4, <3>1
  <2>2. QED
    BY <1>11, <2>1 DEF Surjection
<1>13. IsFiniteSet(values)
  BY <1>8, <1>12, FS_Surjection
<1>14. \E x \in values : \A y \in values : x <= y
  BY <1>10, <1>13, LeastInteger
<1>15. QED
  BY <1>a, <1>10, <1>14

(* The cell of a point is a triple of integers.                             *)
LEMMA CellType ==
  ASSUME file \in Seq(Facet), file # <<>>, tolerance \in Nat, NEW p \in Point
  PROVE  Nearby!Cell(p) \in Point
<1>1. \A axis \in 1 .. 3 : Nearby!LeastCoordinate(axis) \in Int
  BY LeastCoordinateType
<1>2. p[1] \in Int /\ p[2] \in Int /\ p[3] \in Int
  BY DEF Point
<1>3. ASSUME NEW x \in Int, NEW y \in Int
      PROVE  (IF tolerance = 0 THEN 0 ELSE (x - y) \div tolerance) \in Int
  OBVIOUS
<1>4. QED
  BY <1>1, <1>2, <1>3 DEF Nearby!Cell, Point

(* stl_add_facet writes a new last row, without neighbours and normal, and  *)
(* leaves the others alone.                                                 *)
LEMMA AddFacetFields ==
  ASSUME NEW s \in StlFiles, NEW t \in Facet, HasRoom(s)
  PROVE  LET u == AddFacet(s, t)
             f == s.number_of_facets
         IN  /\ u \in StlFiles
             /\ f \in Slot
             /\ u.number_of_facets = f + 1
             /\ u.facet_start = [s.facet_start EXCEPT ![f] = t]
             /\ u.normal = [s.normal EXCEPT ![f] = Zero]
             /\ u.neighbor = [s.neighbor EXCEPT ![f] = [e \in Corner |-> None]]
             /\ u.which_vertex_not = s.which_vertex_not
             /\ u.heads = s.heads
             /\ u.shortest_edge = s.shortest_edge
             /\ u.connected_edges = s.connected_edges
             /\ u.connected_facets = s.connected_facets
<1>1. s.number_of_facets \in Slot
  BY MaxFacetsAssumption DEF HasRoom, StlFiles, Slot
<1>2. AddFacet(s, t) \in StlFiles
  BY AddFacetType
<1>3. QED
  BY <1>1, <1>2 DEF AddFacet, StlFiles

(* The edges of the new facet are inserted in turn.                         *)
LEMMA InsertFacetEdgesKeeps ==
  ASSUME NEW s \in StlFiles, s.shortest_edge \in Nat, NEW f \in Slot, NEW t \in Facet
  PROVE  LET u == Fill!InsertFacetEdges(s, f, t)
         IN  /\ u \in StlFiles /\ u.shortest_edge \in Nat
             /\ u.number_of_facets = s.number_of_facets
             /\ u.facet_start = s.facet_start
             /\ u.normal = s.normal
<1> DEFINE s0 == InsertEdgeExact(s, f, 0, t)
           s1 == InsertEdgeExact(s0, f, 1, t)
           s2 == InsertEdgeExact(s1, f, 2, t)
<1>1. 0 \in Corner /\ 1 \in Corner /\ 2 \in Corner
  BY DEF Corner
<1>2. Fill!InsertFacetEdges(s, f, t) = s2
  BY FillOperators DEF Fill!InsertFacetEdges
<1>3. /\ s0 \in StlFiles /\ s0.shortest_edge \in Nat
      /\ s0.number_of_facets = s.number_of_facets
      /\ s0.facet_start = s.facet_start /\ s0.normal = s.normal
  BY <1>1, InsertEdgeExactKeeps
<1> HIDE DEF s0
<1>4. /\ s1 \in StlFiles /\ s1.shortest_edge \in Nat
      /\ s1.number_of_facets = s0.number_of_facets
      /\ s1.facet_start = s0.facet_start /\ s1.normal = s0.normal
  BY <1>1, <1>3, InsertEdgeExactKeeps
<1> HIDE DEF s1
<1>5. /\ s2 \in StlFiles /\ s2.shortest_edge \in Nat
      /\ s2.number_of_facets = s1.number_of_facets
      /\ s2.facet_start = s1.facet_start /\ s2.normal = s1.normal
  BY <1>1, <1>4, InsertEdgeExactKeeps
<1> HIDE DEF s2
<1>6. QED
  BY <1>2, <1>3, <1>4, <1>5

(* The pyramid over a facet has an integral volume.                         *)
LEMMA PyramidType ==
  ASSUME NEW s \in StlFiles, NEW f \in Facets(s)
  PROVE  Values!Pyramid(s, f) \in Int
<1>1. f \in Slot /\ 0 \in Slot
  BY MaxFacetsAssumption, FacetsAreSlots DEF Slot
<1>2. s.facet_start[f] \in Facet /\ s.facet_start[0] \in Facet
  BY <1>1 DEF StlFiles
<1>3. s.facet_start[f][0] \in Point /\ s.facet_start[0][0] \in Point
  BY <1>2, VertexAssumption DEF Facet, Corner
<1>4. Values!FacetNormal(s.facet_start[f]) \in Point
  BY <1>2, FacetNormalType, ValuesOperators
<1>5. \A a, b \in Point : Values!Minus(a, b) \in Point
  BY DEF Values!Minus, Point
<1>6. \A a, b \in Point : Values!Dot(a, b) \in Int
  BY DEF Values!Dot, Point
<1> DEFINE height == Values!Dot(Values!FacetNormal(s.facet_start[f]),
                                Values!Minus(s.facet_start[f][0], s.facet_start[0][0]))
<1>7. height \in Int
  BY <1>3, <1>4, <1>5, <1>6
<1>8. Values!Pyramid(s, f) \in {0, - height, height}
  BY DEF Values!Pyramid
<1> HIDE DEF height
<1>9. QED
  BY <1>7, <1>8

(* get_volume adds up the pyramids, facet after facet.                      *)
LEMMA PyramidsType ==
  ASSUME NEW s \in StlFiles
  PROVE  Values!Pyramids(s) \in [0 .. s.number_of_facets -> Int]
<1> DEFINE N == s.number_of_facets
           P(n) == Values!Pyramid(s, n)
           Sum(g, m) == [n \in 0 .. m |-> IF n = 0 THEN 0 ELSE g[n - 1] + P(n - 1)]
           Solves(g, m) == g \in [0 .. m -> Int] /\ g = Sum(g, m)
           Unsolved == {m \in Nat : m <= N /\ ~ \E g : Solves(g, m)}
           sum == CHOOSE g : g = Sum(g, N)
<1>1. N \in Nat /\ \A n \in 0 .. N - 1 : P(n) \in Int
  <2>1. N \in Nat
    BY MaxFacetsAssumption DEF StlFiles
  <2>2. QED
    BY <2>1, PyramidType DEF Facets
<1>2. Values!Pyramids(s) = sum
  BY DEF Values!Pyramids
<1> HIDE DEF N, P
<1>3. Unsolved = {}
  <2> SUFFICES ASSUME Unsolved # {} PROVE FALSE
    OBVIOUS
  <2>1. PICK m \in Unsolved : \A k \in Unsolved : m <= k
    <3>1. Unsolved \subseteq Nat
      OBVIOUS
    <3> HIDE DEF Unsolved
    <3>2. QED
      BY <3>1, LeastNatural
  <2>2. m \in Nat /\ m <= N /\ ~ \E g : Solves(g, m)
    OBVIOUS
  <2>3. m # 0
    <3>1. Solves([n \in 0 .. 0 |-> 0], 0)
      OBVIOUS
    <3>2. QED
      BY <2>2, <3>1
  <2>4. PICK g : Solves(g, m - 1)
    <3> HIDE DEF Solves
    <3>1. m - 1 \in Nat /\ m - 1 <= N /\ ~ (m <= m - 1)
      BY <1>1, <2>2, <2>3
    <3>2. m - 1 \notin Unsolved
      <4> HIDE DEF Unsolved
      <4>1. QED
        BY <2>1, <3>1
    <3>3. QED
      BY <3>1, <3>2
  <2> DEFINE h == [n \in 0 .. m |-> IF n = m THEN g[m - 1] + P(m - 1) ELSE g[n]]
  <2>5. g[m - 1] \in Int /\ P(m - 1) \in Int
    <3>1. m - 1 \in 0 .. m - 1 /\ m - 1 \in 0 .. N - 1
      BY <1>1, <2>2, <2>3
    <3>2. g \in [0 .. m - 1 -> Int]
      BY <2>4
    <3>3. QED
      BY <1>1, <3>1, <3>2
  <2>6. h \in [0 .. m -> Int]
    BY <2>2, <2>3, <2>4, <2>5
  <2>7. \A n \in 0 .. m : h[n] = IF n = 0 THEN 0 ELSE h[n - 1] + P(n - 1)
    <3>1. ASSUME NEW n \in 0 .. m, n # m
          PROVE  h[n] = IF n = 0 THEN 0 ELSE h[n - 1] + P(n - 1)
      <4>1. n \in 0 .. m - 1 /\ (n # 0 => n - 1 \in 0 .. m /\ n - 1 # m)
        BY <2>2, <3>1
      <4>2. g[n] = IF n = 0 THEN 0 ELSE g[n - 1] + P(n - 1)
        BY <2>4, <4>1
      <4>3. QED
        BY <3>1, <4>1, <4>2
    <3>2. h[m] = h[m - 1] + P(m - 1)
      BY <2>2, <2>3
    <3>3. QED
      BY <2>2, <2>3, <3>1, <3>2
  <2>8. h = Sum(h, m)
    BY <2>6, <2>7
  <2>9. QED
    BY <2>2, <2>6, <2>8
<1>4. sum = Sum(sum, N)
  <2>1. \E g : Solves(g, N)
    <3> HIDE DEF Solves
    <3>1. N \in Nat /\ N <= N
      BY <1>1
    <3>2. QED
      BY <1>3, <3>1
  <2>2. \E g : g = Sum(g, N)
    BY <2>1
  <2>3. QED
    BY <2>2
<1>5. DOMAIN sum = 0 .. N /\ \A n \in 0 .. N : sum[n] = IF n = 0 THEN 0 ELSE sum[n - 1] + P(n - 1)
  BY <1>4
<1>6. sum = [n \in 0 .. N |-> sum[n]]
  BY <1>4
<1> HIDE DEF sum
<1>7. \A n \in 0 .. N : sum[n] \in Int
  <2> DEFINE T == {n \in 0 .. N : sum[n] \notin Int}
  <2> SUFFICES ASSUME T # {} PROVE FALSE
    OBVIOUS
  <2>1. PICK m \in T : \A k \in T : m <= k
    <3>1. T \subseteq Nat
      BY <1>1
    <3> HIDE DEF T
    <3>2. QED
      BY <3>1, LeastNatural
  <2>2. m \in 0 .. N /\ sum[m] \notin Int
    OBVIOUS
  <2>3. m # 0
    BY <1>1, <1>5, <2>2
  <2>4. m - 1 \in 0 .. N - 1 /\ m - 1 \in 0 .. N /\ ~ (m <= m - 1)
    BY <1>1, <2>2, <2>3
  <2>5. sum[m - 1] \in Int
    BY <2>1, <2>4
  <2>6. QED
    BY <1>1, <1>5, <2>2, <2>3, <2>4, <2>5
<1>8. QED
  BY <1>2, <1>6, <1>7 DEF N

(* The volume is one integer, or none.                                      *)
LEMMA VolumeType ==
  ASSUME NEW s \in StlFiles
  PROVE  Values!Volume(s) \in Seq(Int) /\ Len(Values!Volume(s)) <= 1
<1>1. s.number_of_facets \in 0 .. s.number_of_facets
  BY MaxFacetsAssumption DEF StlFiles
<1>2. Values!Pyramids(s)[s.number_of_facets] \in Int
  BY <1>1, PyramidsType
<1>3. QED
  BY <1>2 DEF Values!Volume

(* The order of the passes, one by one.                                     *)
LEMMA FollowingPhases ==
  /\ Following("exact") = "nearby"
  /\ Following("nearby") = "remove_unconnected"
  /\ Following("remove_unconnected") = "fill_holes"
  /\ Following("fill_holes") = "reverse_all"
  /\ Following("reverse_all") = "normal_directions"
  /\ Following("normal_directions") = "normal_values"
  /\ Following("normal_values") = "volume"
  /\ Following("volume") = "reverse_negative"
  /\ Following("reverse_negative") = "shared_vertices"
  /\ Following("shared_vertices") = "done"
<1>1. Len(Phases) = 11 /\ DOMAIN Phases = 1 .. 11
  BY DEF Phases
<1>2. /\ \A k \in 1 .. 11 : k \in {1, 2, 3, 4, 5, 6, 7, 8, 9, 10, 11}
      /\ \A k \in 2 .. 11 : k \in {2, 3, 4, 5, 6, 7, 8, 9, 10, 11}
  OBVIOUS
<1>3. ASSUME NEW k \in 1 .. 10 PROVE Following(Phases[k]) = Phases[k + 1]
  <2>1. \A l \in 1 .. 10 : Phases[l] = Phases[k] => l = k
    BY DEF Phases
  <2>2. Phases[k + 1] \in {Phases[l] : l \in 2 .. Len(Phases)}
    BY <1>1
  <2>3. \A q : (\E l \in 1 .. Len(Phases) - 1 : Phases[l] = Phases[k] /\ Phases[l + 1] = q)
                 <=> q = Phases[k + 1]
    BY <1>1, <2>1
  <2>4. QED
    BY <2>2, <2>3 DEF Following
<1>4. \A k \in 1 .. 10 : Following(Phases[k]) = Phases[k + 1]
  BY <1>3
<1>5. QED
  BY <1>4 DEF Phases

(* Which passes come before which.                                          *)
Named == {"exact", "nearby", "remove_unconnected", "fill_holes", "reverse_all",
          "normal_directions", "normal_values", "volume", "reverse_negative",
          "shared_vertices", "done"}

(* The passes stl_repair goes through, by name.                             *)
LEMMA PhaseNames == {Phases[k] : k \in DOMAIN Phases} = Named
<1>1. DOMAIN Phases = 1 .. 11
  BY DEF Phases
<1>2. \A k \in 1 .. 11 : k \in {1, 2, 3, 4, 5, 6, 7, 8, 9, 10, 11}
  OBVIOUS
<1>3. QED
  BY <1>1, <1>2 DEF Phases, Named

(****************************************************************************)
(* The typed invariant: TypeOK, and what its proof needs besides.           *)
(****************************************************************************)
(* The structure, and the loops over its facets and edges: the facet under  *)
(* test exists while its edges are tested or walked from.                   *)
MeshTyped ==
  /\ stl \in StlFiles
  /\ stl.shortest_edge \in Nat
  /\ i \in 0 .. MaxFacets
  /\ j \in Corner
  /\ pc \in {"edge", "change", "walk", "tour"} => i \in Facets(stl)

(* What stl_repair keeps between its calls.                                 *)
CallTyped ==
  /\ options \in Options
  /\ phase \in {Phases[k] : k \in DOMAIN Phases}
  /\ file \in Seq(Facet)
  /\ file = <<>> => stl.number_of_facets = 0
  /\ iteration \in 0 .. options.iterations
  /\ tolerance \in Nat
  /\ warned \in BOOLEAN

(* A call of stl_change_vertices.                                           *)
VertexWalk ==
  [first : Slot, facet_num : Slot, vnot : 0 .. 5, direction : {0, 1}, vertex : Vertex]

(* The variables of the single passes.                                      *)
PassTyped ==
  /\ facet \in Facet
  /\ walks \in Seq(VertexWalk)
  /\ initial \in [Corner -> Slot \cup {None}]
  /\ walk \in [facet_num : Slot, vnot : 0 .. 5, direction : {0, 1}]
  /\ facet_num \in Slot /\ list \in Seq(Slot) /\ norm_sw \subseteq Slot
  /\ checked \in Nat /\ number_of_parts \in Nat
  /\ v_indices \in [Slot -> [Corner -> Nat \cup {None}]]
  /\ v_shared \in Seq(Vertex)
  /\ tour \in [facet_num : Slot, vnot : 0 .. 5, direction : {0, 1}, reversed : BOOLEAN]

(* The volume is there when the facets are reversed because it is negative. *)
VolumeTyped ==
  /\ volume \in Seq(Int) /\ Len(volume) <= 1
  /\ phase = "reverse_negative" /\ pc # "test" => volume # <<>>

(* The typed invariant.                                                     *)
TypeInv == MeshTyped /\ CallTyped /\ PassTyped /\ VolumeTyped

(* The typed invariant implies TypeOK.                                      *)
LEMMA TypeInvImpliesTypeOK == TypeInv => TypeOK
<1> SUFFICES ASSUME TypeInv PROVE TypeOK
  OBVIOUS
<1> USE DEF TypeInv
<1>1. /\ options \in Options
      /\ phase \in {Phases[k] : k \in DOMAIN Phases}
      /\ file \in Seq(Facet)
      /\ iteration \in 0 .. options.iterations
      /\ tolerance \in Nat
      /\ warned \in BOOLEAN
  BY DEF CallTyped
<1>2. stl \in StlFiles /\ i \in 0 .. MaxFacets /\ j \in Corner
  BY DEF MeshTyped
<1>3. \A k \in DOMAIN walks : /\ {walks[k].first, walks[k].facet_num} \subseteq Slot
                            /\ walks[k].vnot \in 0 .. 5
                            /\ walks[k].direction \in {0, 1}
                            /\ walks[k].vertex \in Vertex
  <2>1. \A k \in DOMAIN walks : walks[k] \in VertexWalk
    BY DEF PassTyped
  <2>2. QED
    BY <2>1 DEF VertexWalk
<1>4. volume \in Seq(Int) /\ Len(volume) <= 1
  BY DEF VolumeTyped
<1>5. QED
  BY <1>1, <1>2, <1>3, <1>4 DEF TypeOK, PassTyped

(* Each step of the exact check.                                            *)
LEMMA CheckExactTyped ==
  ASSUME TypeInv, CheckExact
  PROVE  TypeInv'
<1> USE DEF TypeInv
<1>1. /\ UNCHANGED <<nearbyVars, fillVars, directionVars, volume, sharedVars,
                     options, phase, iteration, tolerance, warned>>
      /\ phase = "exact"
      /\ Exact!Initialize \/ Exact!RemoveDegenerateFacet \/ Exact!InsertEdge \/ Exact!FreeEdges
  BY DEF CheckExact
<1>2. stl \in StlFiles /\ stl.shortest_edge \in Nat /\ i \in 0 .. MaxFacets /\ j \in Corner
  BY DEF MeshTyped
<1>a. stl.number_of_facets \in Nat
  BY <1>2, MaxFacetsAssumption DEF StlFiles
<1> DEFINE Result ==
             /\ stl' \in StlFiles /\ stl'.shortest_edge \in Nat
             /\ stl'.number_of_facets <= stl.number_of_facets
             /\ i' \in 0 .. MaxFacets /\ j' \in Corner
             /\ pc' \in {"facet", "done"}
             /\ file' = file
<1>3. ASSUME Exact!Initialize PROVE Result
  <2> DEFINE n == [f \in Slot |-> IF f \in Facets(stl) THEN [e \in Corner |-> None]
                                  ELSE stl.neighbor[f]]
             c == [k \in 1 .. 3 |-> 0]
  <2>1. /\ stl' = [stl EXCEPT !.connected_edges = 0, !.connected_facets = c,
                             !.neighbor = n, !.heads = {}]
        /\ pc' = "facet" /\ i' = i /\ j' = j /\ file' = file
    BY <1>3, ExactOperators DEF Exact!Initialize
  <2>2. n \in [Slot -> [Corner -> Slot \cup {None}]]
    BY <1>2 DEF StlFiles
  <2>3. c \in [1 .. 3 -> Int]
    OBVIOUS
  <2> HIDE DEF n, c
  <2>4. stl' \in StlFiles
    <3>1. ASSUME NEW m \in [Slot -> [Corner -> Slot \cup {None}]], NEW d \in [1 .. 3 -> Int],
                 NEW z \in Int, NEW h \in SUBSET Edge
          PROVE  [stl EXCEPT !.connected_edges = z, !.connected_facets = d,
                             !.neighbor = m, !.heads = h] \in StlFiles
      BY <1>2 DEF StlFiles
    <3>2. 0 \in Int /\ {} \in SUBSET Edge
      OBVIOUS
    <3>3. QED
      BY <2>1, <2>2, <2>3, <3>1, <3>2
  <2>4a. stl'.shortest_edge = stl.shortest_edge /\ stl'.number_of_facets = stl.number_of_facets
    BY <1>2, <2>1 DEF StlFiles
  <2>5. Result
    BY <1>2, <2>1, <2>4, <2>4a, <1>a
  <2>6. QED
    BY <2>5
<1>4. ASSUME Exact!RemoveDegenerateFacet PROVE Result
  <2> DEFINE s == [stl EXCEPT !.degenerate_facets = stl.degenerate_facets + 1]
  <2>1. /\ i \in Facets(stl) /\ stl' = RemoveFacet(s, i)
        /\ pc = "facet" /\ pc' = pc /\ i' = i /\ j' = j /\ file' = file
    BY <1>4, ExactOperators DEF Exact!RemoveDegenerateFacet
  <2>2. stl.degenerate_facets + 1 \in Int
    BY <1>2 DEF StlFiles
  <2>3. s \in StlFiles /\ s.number_of_facets = stl.number_of_facets
        /\ s.shortest_edge = stl.shortest_edge
    BY <1>2, <2>2 DEF StlFiles
  <2> HIDE DEF s
  <2>4. i \in Facets(s)
    BY <2>1, <2>3 DEF Facets
  <2>5. FacetRemoved(s, i, stl')
    BY <2>1, <2>3, <2>4, RemoveFacetKeeps
  <2>6. stl' \in StlFiles /\ stl'.shortest_edge = stl.shortest_edge
        /\ stl'.number_of_facets = stl.number_of_facets - 1
    BY <2>3, <2>5 DEF FacetRemoved
  <2>7. QED
    BY <1>2, <2>1, <2>6, <1>a
<1>5. ASSUME Exact!InsertEdge PROVE Result
  <2>1. /\ i \in Facets(stl)
        /\ stl' = InsertEdgeExact(stl, i, j, stl.facet_start[i])
        /\ pc = "facet" /\ pc' = pc /\ file' = file
        /\ j' = Next3(j) /\ i' = IF j = 2 THEN i + 1 ELSE i
    BY <1>5, ExactOperators DEF Exact!InsertEdge
  <2>2. i \in Slot
    BY <1>2, <2>1, FacetsAreSlots
  <2>3. stl.facet_start[i] \in Facet
    BY <1>2, <2>2 DEF StlFiles
  <2>4. /\ stl' \in StlFiles /\ stl'.shortest_edge \in Nat
        /\ stl'.number_of_facets = stl.number_of_facets
    BY <1>2, <2>1, <2>2, <2>3, InsertEdgeExactKeeps
  <2>5. i' \in 0 .. MaxFacets
    BY <2>1, <2>2, MaxFacetsAssumption DEF Slot
  <2>6. j' \in Corner
    BY <1>2, <2>1, CornerArithmetic
  <2>7. QED
    BY <1>2, <2>1, <2>4, <2>5, <2>6, <1>a
<1>6. ASSUME Exact!FreeEdges PROVE Result
  <2>1. /\ stl' = [stl EXCEPT !.heads = {}]
        /\ pc' = "done" /\ i' = i /\ j' = j /\ file' = file
    BY <1>6 DEF Exact!FreeEdges
  <2>2. stl' \in StlFiles /\ stl'.shortest_edge = stl.shortest_edge
        /\ stl'.number_of_facets = stl.number_of_facets
    BY <1>2, <2>1 DEF StlFiles
  <2>3. QED
    BY <1>2, <2>1, <2>2, <1>a
<1>7. Result
  BY <1>1, <1>3, <1>4, <1>5, <1>6
<1> HIDE DEF Result
<1>8. MeshTyped'
  BY <1>7 DEF MeshTyped, Result
<1>9. CallTyped'
  <2>1. stl'.number_of_facets \in Nat
    BY <1>7, MaxFacetsAssumption DEF StlFiles, Result
  <2>2. stl.number_of_facets = 0 => stl'.number_of_facets = 0
    BY <1>7, <2>1 DEF Result
  <2>3. QED
    BY <1>1, <1>7, <2>2 DEF CallTyped, Result
<1>10. PassTyped' /\ VolumeTyped'
  BY <1>1 DEF PassTyped, VolumeTyped, nearbyVars, fillVars, directionVars, sharedVars
<1>11. QED
  BY <1>8, <1>9, <1>10

(* Each step of the removal of unconnected facets.                          *)
LEMMA RemoveUnconnectedTyped ==
  ASSUME TypeInv, RemoveUnconnected
  PROVE  TypeInv'
<1> USE DEF TypeInv
<1>1. /\ UNCHANGED <<j, nearbyVars, fillVars, directionVars, volume, sharedVars, callVars, warned>>
      /\ phase = "remove_unconnected"
      /\ Remove!Next
  BY DEF RemoveUnconnected
<1>2. stl \in StlFiles /\ stl.shortest_edge \in Nat /\ i \in 0 .. MaxFacets /\ j \in Corner
  BY DEF MeshTyped
<1> DEFINE Result ==
             /\ stl' \in StlFiles /\ stl'.shortest_edge \in Nat
             /\ stl'.number_of_facets <= stl.number_of_facets
             /\ i' \in 0 .. MaxFacets
             /\ pc' \in {"degenerate", "unconnected", "done"}
<1>3. stl.number_of_facets \in Nat /\ 0 \in 0 .. MaxFacets
  BY <1>2, MaxFacetsAssumption DEF StlFiles
<1>4. ASSUME FacetRemoved(stl, i, stl') PROVE stl' \in StlFiles /\ stl'.shortest_edge \in Nat
               /\ stl'.number_of_facets <= stl.number_of_facets
  BY <1>2, <1>3, <1>4 DEF FacetRemoved
<1>5. ASSUME Remove!Begin PROVE Result
  BY <1>2, <1>3, <1>5 DEF Remove!Begin
<1>6. ASSUME Remove!RemoveDegenerateFacet PROVE Result
  <2>1. /\ i \in Facets(stl) /\ stl' = Remove!RemoveDegenerate(stl, i)
        /\ pc = "degenerate" /\ pc' = pc /\ i' = i
    BY <1>6, RemoveOperators DEF Remove!RemoveDegenerateFacet
  <2>2. FacetRemoved(stl, i, stl')
    BY <1>2, <2>1, RemoveDegenerateKeeps
  <2>3. QED
    BY <1>2, <1>4, <2>1, <2>2
<1>7. ASSUME Remove!KeepFacet PROVE Result
  <2>1. /\ i \in Facets(stl) /\ stl' = stl /\ i' = i + 1
        /\ pc \in {"degenerate", "unconnected"} /\ pc' = pc
    BY <1>7, RemoveOperators DEF Remove!KeepFacet
  <2>2. i' \in 0 .. MaxFacets
    BY <1>2, <2>1, FacetsAreSlots, MaxFacetsAssumption DEF Slot
  <2>3. QED
    BY <1>2, <1>3, <2>1, <2>2
<1>8. ASSUME Remove!EndDegenerate PROVE Result
  BY <1>2, <1>3, <1>8 DEF Remove!EndDegenerate
<1>9. ASSUME Remove!RemoveUnconnectedFacet PROVE Result
  <2>1. /\ i \in Facets(stl) /\ stl' = RemoveFacet(stl, i)
        /\ pc = "unconnected" /\ pc' = pc /\ i' = i
    BY <1>9, RemoveOperators DEF Remove!RemoveUnconnectedFacet
  <2>2. FacetRemoved(stl, i, stl')
    BY <1>2, <2>1, RemoveFacetKeeps
  <2>3. QED
    BY <1>2, <1>4, <2>1, <2>2
<1>10. ASSUME Remove!EndUnconnected PROVE Result
  BY <1>2, <1>3, <1>10 DEF Remove!EndUnconnected
<1>11. Result
  BY <1>1, <1>5, <1>6, <1>7, <1>8, <1>9, <1>10 DEF Remove!Next
<1> HIDE DEF Result
<1>12. MeshTyped'
  BY <1>1, <1>2, <1>11 DEF MeshTyped, Result
<1>13. CallTyped'
  <2>1. stl'.number_of_facets \in Nat
    BY <1>11, MaxFacetsAssumption DEF StlFiles, Result
  <2>2. stl.number_of_facets = 0 => stl'.number_of_facets = 0
    BY <1>11, <2>1 DEF Result
  <2>3. QED
    BY <1>1, <2>2 DEF CallTyped, callVars
<1>14. PassTyped' /\ VolumeTyped'
  BY <1>1 DEF PassTyped, VolumeTyped, nearbyVars, fillVars, directionVars, sharedVars, callVars
<1>15. QED
  BY <1>12, <1>13, <1>14

(* Each step of a pass that reverses all facets.                            *)
LEMMA ReverseAllTyped ==
  ASSUME TypeInv, ReverseAll
  PROVE  TypeInv'
<1> USE DEF TypeInv
<1>1. /\ UNCHANGED <<nearbyVars, fillVars, volume, sharedVars, callVars, warned>>
      /\ phase \in {"reverse_all", "reverse_negative"}
      /\ Directions!ReverseAll
  BY DEF ReverseAll
<1>2. stl \in StlFiles /\ stl.shortest_edge \in Nat /\ i \in 0 .. MaxFacets /\ j \in Corner
  BY DEF MeshTyped
<1> DEFINE Result ==
             /\ stl' \in StlFiles /\ stl'.shortest_edge \in Nat
             /\ stl'.number_of_facets = stl.number_of_facets
             /\ i' \in 0 .. MaxFacets
             /\ pc # "test" /\ pc' \in {"reverse", "done"}
             /\ UNCHANGED <<j, directionVars>>
<1>3. 0 \in 0 .. MaxFacets
  BY MaxFacetsAssumption
<1>4. ASSUME Directions!BeginReverseAll PROVE Result
  BY <1>2, <1>3, <1>4 DEF Directions!BeginReverseAll, directionVars
<1>5. ASSUME Directions!ReverseNext PROVE Result
  <2>1. /\ i \in Facets(stl) /\ stl' = ReverseWithNormal(stl, i)
        /\ pc = "reverse" /\ pc' = pc /\ i' = i + 1 /\ UNCHANGED <<j, directionVars>>
    BY <1>5, DirectionsOperators DEF Directions!ReverseNext, directionVars
  <2>2. i \in Slot
    BY <1>2, <2>1, FacetsAreSlots
  <2>3. i' \in 0 .. MaxFacets
    BY <2>1, <2>2, MaxFacetsAssumption DEF Slot
  <2> DEFINE r == ReverseFacet(stl, i)
             n == [stl.normal EXCEPT ![i] = FacetNormal(r.facet_start[i])]
  <2>4. stl' \in StlFiles /\ stl' = [r EXCEPT !.normal = n]
    BY <1>2, <2>1, <2>2, ReverseWithNormalFields
  <2>5. /\ r \in StlFiles /\ r.shortest_edge = stl.shortest_edge
        /\ r.number_of_facets = stl.number_of_facets
    BY <1>2, <2>2, ReverseFacetFields
  <2> HIDE DEF r, n
  <2>6. stl'.shortest_edge = r.shortest_edge /\ stl'.number_of_facets = r.number_of_facets
    BY <2>4, <2>5 DEF StlFiles
  <2>7. QED
    BY <1>2, <2>1, <2>3, <2>4, <2>5, <2>6
<1>6. ASSUME Directions!EndReverseAll PROVE Result
  BY <1>2, <1>6 DEF Directions!EndReverseAll, directionVars
<1>7. Result
  BY <1>1, <1>4, <1>5, <1>6 DEF Directions!ReverseAll
<1> HIDE DEF Result
<1>8. MeshTyped'
  BY <1>2, <1>7 DEF MeshTyped, Result
<1>9. CallTyped'
  BY <1>1, <1>7 DEF CallTyped, callVars, Result
<1>10. PassTyped' /\ VolumeTyped'
  BY <1>1, <1>7 DEF PassTyped, VolumeTyped, nearbyVars, fillVars, directionVars, sharedVars, callVars,
     Result
<1>11. QED
  BY <1>8, <1>9, <1>10

(* The step that sets the normals, and the one that calculates the volume.  *)
LEMMA ValuesTyped ==
  ASSUME TypeInv, FixNormalValues \/ CalculateVolume
  PROVE  TypeInv'
<1> USE DEF TypeInv
<1>1. stl \in StlFiles /\ stl.shortest_edge \in Nat /\ i \in 0 .. MaxFacets /\ j \in Corner
  BY DEF MeshTyped
<1>2. /\ UNCHANGED <<i, j, nearbyVars, fillVars, directionVars, sharedVars, callVars, warned>>
      /\ phase \in {"normal_values", "volume"} /\ pc' = "done"
  BY DEF FixNormalValues, CalculateVolume, Values!FixNormalValues, Values!CalculateVolume
<1> DEFINE Result ==
             /\ stl' \in StlFiles /\ stl'.shortest_edge \in Nat
             /\ stl'.number_of_facets = stl.number_of_facets
             /\ volume' \in Seq(Int) /\ Len(volume') <= 1
<1>3. ASSUME FixNormalValues PROVE Result
  <2> DEFINE n == [f \in Slot |-> IF f \in Facets(stl) THEN FacetNormal(stl.facet_start[f])
                                  ELSE stl.normal[f]]
  <2>1. stl' = [stl EXCEPT !.normal = n] /\ volume' = volume
    BY <1>3, ValuesOperators DEF FixNormalValues, Values!FixNormalValues
  <2>2. n \in [Slot -> Point]
    <3>1. \A f \in Slot : stl.facet_start[f] \in Facet /\ stl.normal[f] \in Point
      BY <1>1 DEF StlFiles
    <3>2. QED
      BY <3>1, FacetNormalType
  <2> HIDE DEF n
  <2>3. /\ stl' \in StlFiles /\ stl'.shortest_edge = stl.shortest_edge
        /\ stl'.number_of_facets = stl.number_of_facets
    BY <1>1, <2>1, <2>2 DEF StlFiles
  <2>4. QED
    BY <1>1, <2>1, <2>3 DEF VolumeTyped
<1>4. ASSUME CalculateVolume PROVE Result
  BY <1>1, <1>4, VolumeType DEF CalculateVolume, Values!CalculateVolume
<1>5. Result
  BY <1>3, <1>4
<1> HIDE DEF Result
<1>6. MeshTyped'
  BY <1>1, <1>2, <1>5 DEF MeshTyped, Result
<1>7. CallTyped'
  BY <1>2, <1>5 DEF CallTyped, callVars, Result
<1>8. PassTyped' /\ VolumeTyped'
  BY <1>2, <1>5 DEF PassTyped, VolumeTyped, nearbyVars, fillVars, directionVars, sharedVars, callVars,
     Result
<1>9. QED
  BY <1>6, <1>7, <1>8

(* A part goes on from a facet, reversed or not.                            *)
LEMMA StartPartTyped ==
  ASSUME stl \in StlFiles, stl.shortest_edge \in Nat, NEW f \in Slot, Directions!StartPart(f)
  PROVE  /\ stl' \in StlFiles /\ stl'.shortest_edge \in Nat
         /\ stl'.number_of_facets = stl.number_of_facets
         /\ facet_num' = f /\ pc' = "spread"
<1>1. stl' = stl \/ stl' = ReverseFacet(stl, f)
  BY DirectionsOperators DEF Directions!StartPart
<1>2. /\ ReverseFacet(stl, f) \in StlFiles
      /\ ReverseFacet(stl, f).shortest_edge = stl.shortest_edge
      /\ ReverseFacet(stl, f).number_of_facets = stl.number_of_facets
  BY ReverseFacetFields
<1>3. facet_num' = f /\ pc' = "spread"
  BY DEF Directions!StartPart
<1>4. QED
  BY <1>1, <1>2, <1>3

(* Each step of the fixing of the directions.                               *)
LEMMA FixDirectionsTyped ==
  ASSUME TypeInv, FixDirections
  PROVE  TypeInv'
<1>1. /\ UNCHANGED <<nearbyVars, fillVars, volume, sharedVars, callVars, warned>>
      /\ phase = "normal_directions"
      /\ Directions!FixDirections
  BY DEF FixDirections
<1>2. /\ stl \in StlFiles /\ stl.shortest_edge \in Nat /\ i \in 0 .. MaxFacets /\ j \in Corner
      /\ facet_num \in Slot /\ list \in Seq(Slot) /\ norm_sw \subseteq Slot
      /\ checked \in Nat /\ number_of_parts \in Nat
  BY DEF TypeInv, MeshTyped, PassTyped
<1> DEFINE Result ==
             /\ stl' \in StlFiles /\ stl'.shortest_edge \in Nat
             /\ stl'.number_of_facets = stl.number_of_facets
             /\ i' = i /\ j' \in Corner
             /\ pc' \in {"spread", "next", "done"}
             /\ facet_num' \in Slot /\ list' \in Seq(Slot) /\ norm_sw' \subseteq Slot
             /\ checked' \in Nat /\ number_of_parts' \in Nat
<1>3. 0 \in Slot /\ 0 \in Corner
  BY MaxFacetsAssumption DEF Slot, Corner
<1>4. ASSUME Directions!Begin PROVE Result
  <2>1. /\ Directions!StartPart(0) /\ j' = 0 /\ list' = <<>> /\ norm_sw' = {0} /\ checked' = 1
        /\ i' = i /\ number_of_parts' = number_of_parts
    BY <1>4 DEF Directions!Begin
  <2>2. /\ stl' \in StlFiles /\ stl'.shortest_edge \in Nat
        /\ stl'.number_of_facets = stl.number_of_facets
        /\ facet_num' = 0 /\ pc' = "spread"
    BY <1>2, <1>3, <2>1, StartPartTyped
  <2>3. QED
    BY <1>2, <1>3, <2>1, <2>2
<1>5. ASSUME Directions!SpreadAcrossEdge PROVE Result
  <2> DEFINE n == stl.neighbor[facet_num][j]
             turned == IF Directions!IsBackwards(facet_num, j) THEN ReverseFacet(stl, n) ELSE stl
             m == turned.neighbor[facet_num][j]
  <2>1. /\ stl' = turned
        /\ list' = IF m # None /\ m \notin norm_sw THEN <<m>> \o list ELSE list
        /\ j' = Next3(j) /\ pc' \in {"next", "spread"}
        /\ UNCHANGED <<i, facet_num, norm_sw, checked, number_of_parts>>
    BY <1>5, DirectionsOperators DEF Directions!SpreadAcrossEdge
  <2>2. n \in Slot \cup {None}
    BY <1>2 DEF StlFiles
  <2>3. Directions!IsBackwards(facet_num, j) => n \in Slot
    BY <2>2, DirectionsOperators DEF Directions!IsBackwards
  <2> HIDE DEF n
  <2>4. /\ turned \in StlFiles /\ turned.shortest_edge = stl.shortest_edge
        /\ turned.number_of_facets = stl.number_of_facets
    <3>1. ASSUME n \in Slot
          PROVE  /\ ReverseFacet(stl, n) \in StlFiles
                 /\ ReverseFacet(stl, n).shortest_edge = stl.shortest_edge
                 /\ ReverseFacet(stl, n).number_of_facets = stl.number_of_facets
      BY <1>2, <3>1, ReverseFacetFields
    <3>2. QED
      BY <1>2, <2>3, <3>1
  <2> HIDE DEF turned
  <2>5. m \in Slot \cup {None}
    BY <1>2, <2>4 DEF StlFiles
  <2> HIDE DEF m
  <2>6. list' \in Seq(Slot)
    <3>1. m \in Slot => <<m>> \o list \in Seq(Slot)
      BY <1>2
    <3>2. QED
      BY <1>2, <2>1, <2>5, <3>1
  <2>7. j' \in Corner
    BY <1>2, <2>1, CornerArithmetic
  <2>8. QED
    BY SMTT(20), <1>2, <2>1, <2>4, <2>6, <2>7
<1>6. ASSUME Directions!NextOfList PROVE Result
  <2>1. /\ list # <<>> /\ facet_num' = Head(list) /\ list' = Tail(list)
        /\ norm_sw' = norm_sw \cup {Head(list)}
        /\ checked' \in {checked, checked + 1}
        /\ pc' = "spread" /\ UNCHANGED <<stl, i, j, number_of_parts>>
    BY <1>6 DEF Directions!NextOfList
  <2>2. Head(list) \in Slot /\ Tail(list) \in Seq(Slot)
    BY <1>2, <2>1
  <2>3. QED
    BY <1>2, <2>1, <2>2
<1>7. ASSUME Directions!NextPart PROVE Result
  <2>1. PICK f \in Facets(stl) : Directions!StartPart(f) /\ norm_sw' = norm_sw \cup {f}
    BY <1>7, DirectionsOperators DEF Directions!NextPart
  <2>2. /\ number_of_parts' = number_of_parts + 1 /\ checked' = checked + 1
        /\ UNCHANGED <<i, j, list>>
    BY <1>7 DEF Directions!NextPart
  <2>3. f \in Slot
    BY <1>2, FacetsAreSlots
  <2>4. /\ stl' \in StlFiles /\ stl'.shortest_edge \in Nat
        /\ stl'.number_of_facets = stl.number_of_facets
        /\ facet_num' = f /\ pc' = "spread"
    BY <1>2, <2>1, <2>3, StartPartTyped
  <2>5. QED
    BY <1>2, <2>1, <2>2, <2>3, <2>4
<1>8. ASSUME Directions!LastPart PROVE Result
  BY <1>2, <1>8 DEF Directions!LastPart
<1>9. Result
  BY <1>1, <1>4, <1>5, <1>6, <1>7, <1>8 DEF Directions!FixDirections
<1> HIDE DEF Result
<1>10. MeshTyped'
  BY <1>2, <1>9 DEF MeshTyped, Result
<1>11. CallTyped'
  BY <1>1, <1>9 DEF TypeInv, CallTyped, callVars, Result
<1>12. PassTyped'
  BY <1>1, <1>9 DEF TypeInv, PassTyped, nearbyVars, fillVars, sharedVars, Result
<1>13. VolumeTyped'
  BY <1>1 DEF TypeInv, VolumeTyped, callVars
<1>14. QED
  BY <1>10, <1>11, <1>12, <1>13 DEF TypeInv

(* The corners of the facet that closes a hole are corners of the mesh.     *)
LEMMA ClosingFacetType ==
  ASSUME TypeInv, pc = "walk"
  PROVE  [c \in Corner |-> <<stl.facet_start[i][j], stl.facet_start[i][Next3(j)],
                             Fill!FarCorner>>[c + 1]] \in Facet
<1>1. /\ stl \in StlFiles /\ i \in Facets(stl) /\ j \in Corner
      /\ walk \in [facet_num : Slot, vnot : 0 .. 5, direction : {0, 1}]
  BY DEF TypeInv, MeshTyped, PassTyped
<1>2. i \in Slot /\ Next3(j) \in Corner /\ walk.vnot % 3 \in Corner
  BY <1>1, FacetsAreSlots, CornerArithmetic
<1>3. stl.facet_start[i] \in Facet /\ stl.facet_start[walk.facet_num] \in Facet
  BY <1>1, <1>2 DEF StlFiles
<1> DEFINE corners == <<stl.facet_start[i][j], stl.facet_start[i][Next3(j)], Fill!FarCorner>>
<1>4. corners[1] \in Vertex /\ corners[2] \in Vertex /\ corners[3] \in Vertex
  BY <1>1, <1>2, <1>3 DEF Fill!FarCorner, Facet
<1> HIDE DEF corners
<1>5. \A c \in Corner : corners[c + 1] \in Vertex
  BY <1>4 DEF Corner
<1>6. QED
  BY <1>5 DEF Facet, corners

(* Each step of the filling of holes.                                       *)
LEMMA FillHolesTyped ==
  ASSUME TypeInv, FillHoles
  PROVE  TypeInv'
<1>1. /\ UNCHANGED <<nearbyVars, directionVars, volume, sharedVars, callVars>>
      /\ phase = "fill_holes"
      /\ Fill!Next
  BY DEF FillHoles
<1>2. /\ stl \in StlFiles /\ stl.shortest_edge \in Nat /\ i \in 0 .. MaxFacets /\ j \in Corner
      /\ pc \in {"edge", "change", "walk", "tour"} => i \in Facets(stl)
      /\ initial \in [Corner -> Slot \cup {None}] /\ warned \in BOOLEAN
      /\ walk \in [facet_num : Slot, vnot : 0 .. 5, direction : {0, 1}]
  BY DEF TypeInv, MeshTyped, PassTyped, CallTyped
<1>3. 0 \in 0 .. MaxFacets /\ 0 \in Corner /\ stl.number_of_facets \in Nat
  BY <1>2, MaxFacetsAssumption DEF Corner, StlFiles
<1> DEFINE Mesh ==
             /\ stl' \in StlFiles /\ stl'.shortest_edge \in Nat
             /\ i \in Facets(stl) => i \in Facets(stl')
             /\ stl.number_of_facets = 0 => stl'.number_of_facets = 0
           Place ==
             /\ i' \in 0 .. MaxFacets /\ j' \in Corner
             /\ pc' \in {"load", "facet", "edge", "walk", "done"}
             /\ pc' \in {"edge", "walk"} => i \in Facets(stl) /\ i' = i
           Result ==
             /\ Mesh /\ Place
             /\ initial' \in [Corner -> Slot \cup {None}] /\ warned' \in BOOLEAN
             /\ walk' \in [facet_num : Slot, vnot : 0 .. 5, direction : {0, 1}]
<1>4. stl' = stl => Mesh
  BY <1>2
<1>5. stl' = [stl EXCEPT !.heads = {}] => Mesh
  <2> SUFFICES ASSUME stl' = [stl EXCEPT !.heads = {}] PROVE Mesh
    OBVIOUS
  <2>1. stl' \in StlFiles
    BY <1>2 DEF StlFiles
  <2>2. stl'.shortest_edge = stl.shortest_edge /\ stl'.number_of_facets = stl.number_of_facets
    BY <1>2 DEF StlFiles
  <2>3. QED
    BY <1>2, <2>1, <2>2 DEF Facets
<1>6. i \in Facets(stl) => i \in Slot /\ i + 1 \in 0 .. MaxFacets
  BY <1>2, FacetsAreSlots, MaxFacetsAssumption DEF Slot
<1>7. Next3(j) \in Corner /\ Prev3(j) \in Corner /\ Prev3(j) \in 0 .. 5
  BY <1>2, CornerArithmetic
<1>8. \A t, n : Fill!Advance(t, n) => /\ j' = Next3(j)
                                      /\ i' = IF j = 2 THEN i + 1 ELSE i
                                      /\ pc' = IF j = 2 THEN n ELSE t
  BY FillOperators DEF Fill!Advance
<1>9. ASSUME Fill!Begin PROVE Result
  <2>1. /\ stl' = [stl EXCEPT !.heads = {}] /\ i' = 0 /\ j' = 0 /\ pc' = "load"
        /\ UNCHANGED <<initial, walk, warned>>
    BY <1>9 DEF Fill!Begin
  <2> HIDE DEF Mesh
  <2>2. QED
    BY <1>2, <1>3, <1>5, <2>1
<1>10. ASSUME Fill!LoadUnconnected PROVE Result
  <2>1. /\ i \in Facets(stl)
        /\ stl' = stl \/ stl' = InsertEdgeExact(stl, i, j, stl.facet_start[i])
        /\ Fill!Advance("load", "load")
        /\ UNCHANGED <<initial, walk, warned>>
    BY <1>10, FillOperators DEF Fill!LoadUnconnected
  <2>2. stl.facet_start[i] \in Facet
    BY <1>2, <1>6, <2>1 DEF StlFiles
  <2>3. /\ InsertEdgeExact(stl, i, j, stl.facet_start[i]) \in StlFiles
        /\ InsertEdgeExact(stl, i, j, stl.facet_start[i]).shortest_edge \in Nat
        /\ InsertEdgeExact(stl, i, j, stl.facet_start[i]).number_of_facets = stl.number_of_facets
    BY <1>2, <1>6, <2>1, <2>2, InsertEdgeExactKeeps
  <2>4. Mesh
    BY <1>2, <2>1, <2>3 DEF Facets
  <2> HIDE DEF Mesh
  <2>5. QED
    BY <1>2, <1>6, <1>7, <1>8, <2>1, <2>4
<1>11. ASSUME Fill!EndLoad PROVE Result
  <2>1. i' = 0 /\ pc' = "facet" /\ UNCHANGED <<stl, j, initial, walk, warned>>
    BY <1>11 DEF Fill!EndLoad
  <2> HIDE DEF Mesh
  <2>2. QED
    BY <1>2, <1>3, <1>4, <2>1
<1>12. ASSUME Fill!ScanFacet PROVE Result
  <2>1. /\ i \in Facets(stl) /\ initial' = stl.neighbor[i] /\ pc' = "edge"
        /\ UNCHANGED <<stl, i, j, walk, warned>>
    BY <1>12, FillOperators DEF Fill!ScanFacet
  <2>2. stl.neighbor[i] \in [Corner -> Slot \cup {None}]
    BY <1>2, <1>6, <2>1 DEF StlFiles
  <2> HIDE DEF Mesh
  <2>3. QED
    BY <1>2, <1>4, <2>1, <2>2
<1>13. ASSUME Fill!SkipEdge PROVE Result
  <2>1. pc = "edge" /\ Fill!Advance("edge", "facet") /\ UNCHANGED <<stl, initial, walk, warned>>
    BY <1>13 DEF Fill!SkipEdge
  <2> HIDE DEF Mesh
  <2>2. QED
    BY <1>2, <1>4, <1>6, <1>7, <1>8, <2>1
<1>14. ASSUME Fill!StartWalk PROVE Result
  <2>1. /\ pc = "edge" /\ pc' = "walk" /\ UNCHANGED <<stl, i, j, initial, warned>>
        /\ walk' = [facet_num |-> i, vnot |-> Prev3(j),
                    direction |-> IF initial[Prev3(j)] = None THEN 1 ELSE 0]
    BY <1>14, FillOperators DEF Fill!StartWalk
  <2>2. walk' \in [facet_num : Slot, vnot : 0 .. 5, direction : {0, 1}]
    BY <1>2, <1>6, <1>7, <2>1
  <2> HIDE DEF Mesh
  <2>3. QED
    BY <1>2, <1>4, <2>1, <2>2
<1>15. ASSUME pc = "walk"
       PROVE  /\ Fill!Turned.next_edge \in Corner /\ Fill!Turned.direction \in {0, 1}
              /\ Fill!Across \in Slot \cup {None}
              /\ stl.which_vertex_not[walk.facet_num][Fill!Turned.next_edge] \in 0 .. 5
  <2>1. walk.facet_num \in Slot /\ walk.vnot \in 0 .. 5 /\ walk.direction \in {0, 1}
    BY <1>2
  <2>2. Fill!Turned = Turn(walk.vnot, walk.direction)
    BY FillOperators DEF Fill!Turned
  <2>3. Fill!Turned.next_edge \in Corner /\ Fill!Turned.direction \in {0, 1}
    BY <2>1, <2>2, TurnType
  <2>4. /\ Fill!Across \in Slot \cup {None}
        /\ stl.which_vertex_not[walk.facet_num][Fill!Turned.next_edge] \in 0 .. 5
    BY <1>2, <2>1, <2>3 DEF Fill!Across, StlFiles
  <2>5. QED
    BY <2>3, <2>4
<1>16. ASSUME Fill!CrossEdge PROVE Result
  <2>1. /\ pc = "walk" /\ UNCHANGED <<stl, i, j, pc, initial, warned>>
        /\ Fill!Across # None
        /\ walk' = [facet_num |-> Fill!Across,
                    vnot |-> stl.which_vertex_not[walk.facet_num][Fill!Turned.next_edge],
                    direction |-> Fill!Turned.direction]
    BY <1>16, FillOperators DEF Fill!CrossEdge
  <2>2. walk' \in [facet_num : Slot, vnot : 0 .. 5, direction : {0, 1}]
    BY <1>15, <2>1
  <2> HIDE DEF Mesh
  <2>3. QED
    BY <1>2, <1>4, <2>1, <2>2
<1>17. ASSUME Fill!BackAtFirst PROVE Result
  <2>1. /\ pc = "walk" /\ pc' = "done" /\ warned' = TRUE
        /\ UNCHANGED <<stl, i, j, initial, walk>>
    BY <1>17 DEF Fill!BackAtFirst
  <2> HIDE DEF Mesh
  <2>2. QED
    BY <1>2, <1>4, <2>1
<1>18. ASSUME Fill!CloseHole PROVE Result
  <2> DEFINE corners == <<stl.facet_start[i][j], stl.facet_start[i][Next3(j)], Fill!FarCorner>>
             new     == [c \in Corner |-> corners[c + 1]]
             f       == stl.number_of_facets
             added   == AddFacet(stl, new)
  <2>1. /\ pc = "walk" /\ HasRoom(stl)
        /\ stl' = Fill!InsertFacetEdges(added, f, new)
        /\ Fill!Advance("edge", "facet")
        /\ UNCHANGED <<initial, walk, warned>>
    BY <1>18, FillOperators DEF Fill!CloseHole
  <2>2. i \in Facets(stl) /\ i \in Slot
    BY <1>2, <1>6, <2>1
  <2>3. new \in Facet
    BY <2>1, ClosingFacetType
  <2> HIDE DEF new
  <2>4. /\ added \in StlFiles /\ added.number_of_facets = f + 1
        /\ added.shortest_edge = stl.shortest_edge /\ f \in Slot
    BY <1>2, <2>1, <2>3, AddFacetFields
  <2> HIDE DEF added
  <2>5. /\ stl' \in StlFiles /\ stl'.shortest_edge \in Nat
        /\ stl'.number_of_facets = added.number_of_facets
    BY <1>2, <2>1, <2>3, <2>4, InsertFacetEdgesKeeps
  <2>6. i \in Facets(stl')
    BY <1>3, <2>2, <2>4, <2>5 DEF Facets
  <2>7. f # 0
    BY <1>3, <2>2 DEF Facets
  <2>8. Mesh
    BY <2>5, <2>6, <2>7
  <2> HIDE DEF Mesh, f
  <2>9. QED
    BY <1>2, <1>6, <1>7, <1>8, <2>1, <2>2, <2>8
<1>19. ASSUME Fill!FreeEdges PROVE Result
  <2>1. /\ stl' = [stl EXCEPT !.heads = {}] /\ pc' = "done"
        /\ UNCHANGED <<i, j, initial, walk, warned>>
    BY <1>19 DEF Fill!FreeEdges
  <2> HIDE DEF Mesh
  <2>2. QED
    BY <1>2, <1>5, <2>1
<1> HIDE DEF Result
<1>20. Result
  BY <1>1, <1>9, <1>10, <1>11, <1>12, <1>13, <1>14, <1>16, <1>17, <1>18, <1>19 DEF Fill!Next
<1>21. MeshTyped'
  BY <1>20 DEF MeshTyped, Result
<1>22. CallTyped'
  BY <1>1, <1>20 DEF TypeInv, CallTyped, callVars, Result
<1>23. PassTyped'
  BY <1>1, <1>20 DEF TypeInv, PassTyped, nearbyVars, directionVars, sharedVars, Result
<1>24. VolumeTyped'
  BY <1>1 DEF TypeInv, VolumeTyped, callVars
<1>25. QED
  BY <1>21, <1>22, <1>23, <1>24 DEF TypeInv

(* What stl_load_edge_nearby loads is an edge of the hash table, also with  *)
(* cells for the end points.                                                *)
LEMMA CandidateType ==
  ASSUME TypeInv, pc = "edge"
  PROVE  /\ Nearby!Candidate \in Edge
         /\ Nearby!Candidate.facet_number = i
         /\ Nearby!Candidate.which_edge % 3 = j
<1>1. /\ stl \in StlFiles /\ i \in Facets(stl) /\ j \in Corner
      /\ file \in Seq(Facet) /\ tolerance \in Nat /\ facet \in Facet
      /\ file = <<>> => stl.number_of_facets = 0
  BY DEF TypeInv, MeshTyped, CallTyped, PassTyped
<1>2. file # <<>> /\ i \in Slot
  <2>1. stl.number_of_facets # 0
    BY <1>1 DEF Facets
  <2>2. QED
    BY <1>1, <2>1, FacetsAreSlots
<1> DEFINE a == facet[j]
           b == facet[Next3(j)]
<1>3. a \in Point /\ b \in Point
  <2>1. Next3(j) \in Corner
    BY <1>1, CornerArithmetic
  <2>2. QED
    BY <1>1, <2>1, VertexAssumption DEF Facet
<1> DEFINE ka == Nearby!Cell(a)
           kb == Nearby!Cell(b)
<1>4. Nearby!Candidate = LoadEdge(i, j, a, b, ka, kb)
  BY NearbyOperators DEF Nearby!Candidate, Nearby!LoadEdgeNearby, Nearby!Start, Nearby!End
<1>5. ka \in Point /\ kb \in Point
  BY <1>1, <1>2, <1>3, CellType
<1> HIDE DEF a, b, ka, kb
<1>6. LoadEdge(i, j, a, b, ka, kb) \in Edge
  BY <1>1, <1>2, <1>5, CornerArithmetic DEF LoadEdge, Edge
<1>7. /\ LoadEdge(i, j, a, b, ka, kb).facet_number = i
      /\ LoadEdge(i, j, a, b, ka, kb).which_edge % 3 = j
  BY <1>1, CornerArithmetic DEF LoadEdge
<1>8. QED
  BY <1>4, <1>6, <1>7

(* stl_which_vertices_to_change sets out walks that begin in the mesh.      *)
LEMMA WhichVerticesToChangeType ==
  ASSUME NEW s \in StlFiles, NEW a \in Edge, NEW b \in Edge
  PROVE  Nearby!WhichVerticesToChange(s, a, b) \in Seq(VertexWalk)
<1> DEFINE at(edge, c) == s.facet_start[edge.facet_number][c]
           alone(edge, c) == /\ s.neighbor[edge.facet_number][c] = None
                             /\ s.neighbor[edge.facet_number][Prev3(c)] = None
           change(ca, cb) == IF at(a, ca) = at(b, cb) THEN <<>>
                             ELSE IF alone(a, ca) THEN <<Nearby!Walk(a, ca, at(b, cb))>>
                             ELSE <<Nearby!Walk(b, cb, at(a, ca))>>
<1>1. Nearby!WhichVerticesToChange(s, a, b) =
        change(Nearby!FirstCorner(a), Nearby!FirstCorner(b))
          \o change(Nearby!SecondCorner(a), Nearby!SecondCorner(b))
  BY NearbyOperators DEF Nearby!WhichVerticesToChange
<1>2. ASSUME NEW edge \in Edge
      PROVE  Nearby!FirstCorner(edge) \in Corner /\ Nearby!SecondCorner(edge) \in Corner
  <2>1. edge.which_edge \in 0 .. 5
    BY DEF Edge
  <2>2. /\ Next3(edge.which_edge) \in Corner /\ edge.which_edge % 3 \in Corner
        /\ edge.which_edge < 3 => edge.which_edge \in Corner
    BY <2>1, CornerArithmetic DEF Corner
  <2>3. QED
    BY <2>2, NearbyOperators DEF Nearby!FirstCorner, Nearby!SecondCorner
<1>3. ASSUME NEW edge \in Edge, NEW c \in Corner
      PROVE  at(edge, c) \in Vertex
  <2>1. edge.facet_number \in Slot
    BY DEF Edge
  <2>2. s.facet_start[edge.facet_number] \in Facet
    BY <2>1 DEF StlFiles
  <2>3. QED
    BY <2>2 DEF Facet
<1>4. ASSUME NEW edge \in Edge, NEW c, NEW v \in Vertex
      PROVE  Nearby!Walk(edge, c, v) \in VertexWalk
  <2>1. edge.which_edge \in 0 .. 5 /\ edge.facet_number \in Slot
    BY DEF Edge
  <2>2. Prev3(edge.which_edge) \in 0 .. 5 /\ Prev3(edge.which_edge) + 3 \in 0 .. 5
    BY <2>1, CornerArithmetic
  <2> DEFINE vnot == Prev3(edge.which_edge)
             w == IF Prev3(vnot) = c THEN vnot + 3 ELSE vnot
  <2>3. w \in 0 .. 5
    BY <2>2
  <2>4. Nearby!Walk(edge, c, v) = [first |-> edge.facet_number, facet_num |-> edge.facet_number,
                                   vnot |-> w, direction |-> 0, vertex |-> v]
    BY NearbyOperators DEF Nearby!Walk
  <2> HIDE DEF w
  <2>5. QED
    BY <2>1, <2>3, <2>4 DEF VertexWalk
<1> HIDE DEF at, alone
<1>5. ASSUME NEW ca \in Corner, NEW cb \in Corner
      PROVE  change(ca, cb) \in Seq(VertexWalk)
  <2>1. at(a, ca) \in Vertex /\ at(b, cb) \in Vertex
    BY <1>3
  <2>2. /\ Nearby!Walk(a, ca, at(b, cb)) \in VertexWalk
        /\ Nearby!Walk(b, cb, at(a, ca)) \in VertexWalk
    BY <1>4, <2>1
  <2>3. QED
    BY <2>2
<1> HIDE DEF change
<1>6. QED
  BY <1>1, <1>2, <1>5

(* Each step of the nearby check.                                           *)
LEMMA CheckNearbyTyped ==
  ASSUME TypeInv, CheckNearby
  PROVE  TypeInv'
<1>1. /\ UNCHANGED <<fillVars, directionVars, volume, sharedVars, options, phase, iteration>>
      /\ phase = "nearby"
      /\ Nearby!Next
  BY DEF CheckNearby
<1>2. /\ stl \in StlFiles /\ stl.shortest_edge \in Nat /\ i \in 0 .. MaxFacets /\ j \in Corner
      /\ pc \in {"edge", "change", "walk", "tour"} => i \in Facets(stl)
      /\ facet \in Facet /\ walks \in Seq(VertexWalk) /\ warned \in BOOLEAN
  BY DEF TypeInv, MeshTyped, PassTyped, CallTyped
<1>3. 0 \in 0 .. MaxFacets /\ 0 \in Corner
  BY MaxFacetsAssumption DEF Corner
<1> DEFINE Mesh ==
             /\ stl' \in StlFiles /\ stl'.shortest_edge \in Nat
             /\ stl'.number_of_facets = stl.number_of_facets
           Place ==
             /\ i' \in 0 .. MaxFacets /\ j' \in Corner
             /\ pc' \in {"facet", "edge", "change", "done"}
             /\ pc' \in {"edge", "change"} => i \in Facets(stl) /\ i' = i
           Result ==
             /\ Mesh /\ Place
             /\ file' = file /\ tolerance' = tolerance
             /\ facet' \in Facet /\ walks' \in Seq(VertexWalk) /\ warned' \in BOOLEAN
<1>4. stl' = stl => Mesh
  BY <1>2
<1>5. ASSUME NEW H \in SUBSET Edge, stl' = [stl EXCEPT !.heads = H] PROVE Mesh
  BY <1>2, <1>5 DEF StlFiles
<1>6. i \in Facets(stl) => i \in Slot /\ i + 1 \in 0 .. MaxFacets
  BY <1>2, FacetsAreSlots, MaxFacetsAssumption DEF Slot
<1>7. Next3(j) \in Corner
  BY <1>2, CornerArithmetic
<1>8. Nearby!Advance => /\ j' = Next3(j)
                        /\ i' = IF j = 2 THEN i + 1 ELSE i
                        /\ pc' = IF j = 2 THEN "facet" ELSE "edge"
  BY NearbyOperators DEF Nearby!Advance
<1>9. {} \in SUBSET Edge /\ stl.heads \in SUBSET Edge
  BY <1>2 DEF StlFiles
<1>10. ASSUME Nearby!Begin PROVE Result
  <2>1. /\ stl' = [stl EXCEPT !.heads = {}] /\ i' = 0 /\ j' = 0 /\ pc' \in {"done", "facet"}
        /\ UNCHANGED <<file, tolerance, facet, walks, warned>>
    BY <1>10 DEF Nearby!Begin
  <2>2. Mesh
    BY <1>5, <1>9, <2>1
  <2> HIDE DEF Mesh
  <2>3. QED
    BY <1>2, <1>3, <2>1, <2>2
<1>11. ASSUME Nearby!LoadFacet PROVE Result
  <2>1. /\ i \in Facets(stl) /\ facet' = stl.facet_start[i] /\ pc' = "edge"
        /\ UNCHANGED <<stl, i, j, file, tolerance, walks, warned>>
    BY <1>11, NearbyOperators DEF Nearby!LoadFacet
  <2>2. stl.facet_start[i] \in Facet
    BY <1>2, <1>6, <2>1 DEF StlFiles
  <2> HIDE DEF Mesh
  <2>3. QED
    BY <1>2, <1>4, <2>1, <2>2
<1>12. ASSUME Nearby!SkipEdge PROVE Result
  <2>1. /\ pc = "edge" /\ Nearby!Advance
        /\ UNCHANGED <<stl, file, tolerance, facet, walks, warned>>
    BY <1>12 DEF Nearby!SkipEdge
  <2> HIDE DEF Mesh
  <2>2. QED
    BY <1>2, <1>4, <1>6, <1>7, <1>8, <2>1
<1>13. ASSUME Nearby!PendEdge PROVE Result
  <2>1. /\ pc = "edge" /\ Nearby!Advance
        /\ stl' = [stl EXCEPT !.heads = stl.heads \cup {Nearby!Candidate}]
        /\ UNCHANGED <<file, tolerance, facet, walks, warned>>
    BY <1>13 DEF Nearby!PendEdge, Nearby!Loadable
  <2>2. stl.heads \cup {Nearby!Candidate} \in SUBSET Edge
    BY <1>9, <2>1, CandidateType
  <2>3. Mesh
    BY <1>5, <2>1, <2>2
  <2> HIDE DEF Mesh
  <2>4. QED
    BY <1>2, <1>6, <1>7, <1>8, <2>1, <2>3
<1>14. ASSUME Nearby!MatchEdge PROVE Result
  <2> DEFINE link == Oldest(Matches(stl, Nearby!Candidate))
             s == [stl EXCEPT !.heads = stl.heads \ {link}]
             recorded == RecordNeighbors(s, Nearby!Candidate, link)
  <2>1. /\ pc = "edge" /\ pc' = "change" /\ Matches(stl, Nearby!Candidate) # {}
        /\ stl' = recorded
        /\ walks' = Nearby!WhichVerticesToChange(recorded, Nearby!Candidate, link)
        /\ UNCHANGED <<i, j, file, tolerance, facet, warned>>
    BY <1>14, NearbyOperators DEF Nearby!MatchEdge, Nearby!Loadable
  <2>2. Nearby!Candidate \in Edge
    BY <2>1, CandidateType
  <2>3. link \in Edge /\ Nearby!Candidate.facet_number # link.facet_number
    <3>1. Matches(stl, Nearby!Candidate) \subseteq Edge
      BY <1>9 DEF Matches
    <3>2. link \in Matches(stl, Nearby!Candidate)
      BY <2>1, <3>1, OldestMember
    <3>3. QED
      BY <3>1, <3>2 DEF Matches
  <2> HIDE DEF link
  <2>4. /\ s \in StlFiles /\ s.shortest_edge = stl.shortest_edge
        /\ s.number_of_facets = stl.number_of_facets
    <3>1. stl.heads \ {link} \in SUBSET Edge
      BY <1>9
    <3>2. QED
      BY <1>2, <3>1 DEF StlFiles
  <2> HIDE DEF s
  <2>5. recorded \in StlFiles /\ recorded.number_of_facets = s.number_of_facets
    BY <2>2, <2>3, <2>4, RecordNeighborsFields
  <2>6. recorded.shortest_edge = s.shortest_edge
    BY <2>2, <2>3, <2>4, RecordNeighborsRest
  <2> HIDE DEF recorded
  <2>7. walks' \in Seq(VertexWalk)
    BY <2>1, <2>2, <2>3, <2>5, WhichVerticesToChangeType
  <2>8. Mesh
    BY <1>2, <2>1, <2>4, <2>5, <2>6
  <2> HIDE DEF Mesh
  <2>9. QED
    BY <1>2, <2>1, <2>7, <2>8
<1>15. ASSUME Nearby!ChangeVertex PROVE Result
  <2> DEFINE w == Head(walks)
             turn == Turn(w.vnot, w.direction)
             next == stl.neighbor[w.facet_num][turn.next_edge]
             v == stl.which_vertex_not[w.facet_num][turn.next_edge]
             on == [w EXCEPT !.facet_num = next, !.vnot = v, !.direction = turn.direction]
  <2>1. /\ pc = "change" /\ walks # <<>>
        /\ stl' = [stl EXCEPT !.facet_start[w.facet_num][turn.pivot_vertex] = w.vertex]
        /\ walks' = IF Nearby!Ends(w, next) THEN Tail(walks) ELSE <<on>> \o Tail(walks)
        /\ warned' = (warned \/ next = w.first)
        /\ UNCHANGED <<i, j, pc, file, tolerance, facet>>
    BY <1>15, NearbyOperators DEF Nearby!ChangeVertex
  <2>2. w \in VertexWalk /\ Tail(walks) \in Seq(VertexWalk)
    <3>1. walks \in Seq(VertexWalk) /\ walks # <<>>
      BY <1>2, <2>1
    <3>2. QED
      BY <3>1
  <2>3. /\ w.facet_num \in Slot /\ w.vnot \in 0 .. 5 /\ w.direction \in {0, 1}
        /\ w.vertex \in Vertex
    BY <2>2 DEF VertexWalk
  <2> HIDE DEF w
  <2>4. turn.pivot_vertex \in Corner /\ turn.next_edge \in Corner /\ turn.direction \in {0, 1}
    BY <2>3, TurnType
  <2> HIDE DEF turn
  <2>5. next \in Slot \cup {None} /\ v \in 0 .. 5
    BY <1>2, <2>3, <2>4 DEF StlFiles
  <2>6. ~ Nearby!Ends(w, next) => next # None
    BY NearbyOperators DEF Nearby!Ends
  <2> HIDE DEF next, v
  <2>7. ~ Nearby!Ends(w, next) => on \in VertexWalk
    BY <2>2, <2>4, <2>5, <2>6 DEF VertexWalk
  <2> HIDE DEF on
  <2>8. walks' \in Seq(VertexWalk)
    BY <2>1, <2>2, <2>7
  <2>9. Mesh
    <3> DEFINE fs == [stl.facet_start EXCEPT ![w.facet_num][turn.pivot_vertex] = w.vertex]
    <3>1. stl' = [stl EXCEPT !.facet_start = fs]
      BY <2>1
    <3>2. fs \in [Slot -> Facet]
      BY <1>2, <2>3, <2>4 DEF StlFiles, Facet
    <3> HIDE DEF fs
    <3>3. QED
      BY <1>2, <3>1, <3>2 DEF StlFiles
  <2> HIDE DEF Mesh
  <2>10. QED
    BY <1>2, <2>1, <2>8, <2>9
<1>16. ASSUME Nearby!FinishMatch PROVE Result
  <2>1. /\ pc = "change" /\ Nearby!Advance
        /\ stl' = [stl EXCEPT !.edges_fixed = stl.edges_fixed + 2]
        /\ UNCHANGED <<file, tolerance, facet, walks, warned>>
    BY <1>16 DEF Nearby!FinishMatch
  <2>2. stl.edges_fixed + 2 \in Int
    BY <1>2 DEF StlFiles
  <2>3. Mesh
    BY <1>2, <2>1, <2>2 DEF StlFiles
  <2> HIDE DEF Mesh
  <2>4. QED
    BY <1>2, <1>6, <1>7, <1>8, <2>1, <2>3
<1>17. ASSUME Nearby!FreeEdges PROVE Result
  <2>1. /\ stl' = [stl EXCEPT !.heads = {}] /\ pc' = "done"
        /\ UNCHANGED <<i, j, file, tolerance, facet, walks, warned>>
    BY <1>17 DEF Nearby!FreeEdges
  <2>2. Mesh
    BY <1>5, <1>9, <2>1
  <2> HIDE DEF Mesh
  <2>3. QED
    BY <1>2, <2>1, <2>2
<1> HIDE DEF Result
<1>18. Result
  BY <1>1, <1>10, <1>11, <1>12, <1>13, <1>14, <1>15, <1>16, <1>17 DEF Nearby!Next
<1>19. MeshTyped'
  BY <1>18 DEF MeshTyped, Result, Facets
<1>20. CallTyped'
  BY <1>1, <1>18 DEF TypeInv, CallTyped, Result
<1>21. PassTyped'
  BY <1>1, <1>18 DEF TypeInv, PassTyped, fillVars, directionVars, sharedVars, Result
<1>22. VolumeTyped'
  BY <1>1 DEF TypeInv, VolumeTyped
<1>23. QED
  BY <1>19, <1>20, <1>21, <1>22 DEF TypeInv

(* Each step of the generation of the shared vertices.                      *)
LEMMA GenerateSharedVerticesTyped ==
  ASSUME TypeInv, GenerateSharedVertices
  PROVE  TypeInv'
<1>1. /\ UNCHANGED <<nearbyVars, fillVars, directionVars, volume, callVars, warned>>
      /\ phase = "shared_vertices"
      /\ Shared!Next
  BY DEF GenerateSharedVertices
<1> DEFINE Tour == [facet_num : Slot, vnot : 0 .. 5, direction : {0, 1}, reversed : BOOLEAN]
           Indices == [Slot -> [Corner -> Nat \cup {None}]]
<1>2. /\ stl \in StlFiles /\ stl.shortest_edge \in Nat /\ i \in 0 .. MaxFacets /\ j \in Corner
      /\ pc \in {"edge", "change", "walk", "tour"} => i \in Facets(stl)
      /\ v_indices \in Indices /\ v_shared \in Seq(Vertex) /\ tour \in Tour
  BY DEF TypeInv, MeshTyped, PassTyped
<1> DEFINE Result ==
             /\ stl' = stl
             /\ i' \in 0 .. MaxFacets /\ j' \in Corner
             /\ pc' \in {"corner", "tour", "done"}
             /\ pc' = "tour" => i \in Facets(stl) /\ i' = i
             /\ v_indices' \in Indices /\ v_shared' \in Seq(Vertex) /\ tour' \in Tour
<1>3. 0 \in 0 .. MaxFacets /\ 0 \in Corner
  BY MaxFacetsAssumption DEF Corner
<1>4. i \in Facets(stl) => i \in Slot /\ i + 1 \in 0 .. MaxFacets
  BY <1>2, FacetsAreSlots, MaxFacetsAssumption DEF Slot
<1>5. /\ Next3(j) \in Corner /\ Next3(j) \in 0 .. 5
      /\ Prev3(j) \in Corner /\ Prev3(j) \in 0 .. 5
  BY <1>2, CornerArithmetic
<1>6. Shared!NextCorner => /\ j' = Next3(j)
                           /\ i' = IF j = 2 THEN i + 1 ELSE i
                           /\ pc' = "corner"
  BY SharedOperators DEF Shared!NextCorner
<1>7. ASSUME Shared!Begin PROVE Result
  <2>1. /\ v_indices' = [f \in Slot |-> [c \in Corner |-> None]]
        /\ v_shared' = <<>> /\ i' = 0 /\ j' = 0 /\ pc' = "corner" /\ UNCHANGED <<stl, tour>>
    BY <1>7, SharedOperators DEF Shared!Begin
  <2>2. v_indices' \in Indices
    BY <2>1
  <2>3. QED
    BY <1>2, <1>3, <2>1, <2>2
<1>8. ASSUME Shared!SkipCorner PROVE Result
  <2>1. i \in Facets(stl) /\ Shared!NextCorner /\ UNCHANGED <<stl, v_indices, v_shared, tour>>
    BY <1>8, SharedOperators DEF Shared!SkipCorner
  <2>2. QED
    BY <1>2, <1>4, <1>5, <1>6, <2>1
<1>9. ASSUME Shared!StartTour PROVE Result
  <2>1. /\ i \in Facets(stl) /\ v_shared' = Append(v_shared, stl.facet_start[i][j])
        /\ tour' = [facet_num |-> i, vnot |-> Prev3(j), direction |-> 0, reversed |-> FALSE]
        /\ pc' = "tour" /\ UNCHANGED <<stl, i, j, v_indices>>
    BY <1>9, SharedOperators DEF Shared!StartTour
  <2>2. stl.facet_start[i][j] \in Vertex
    BY <1>2, <1>4, <2>1 DEF StlFiles, Facet
  <2>3. tour' \in Tour
    BY <1>4, <1>5, <2>1
  <2> HIDE DEF Tour, Indices
  <2>4. QED
    BY <1>2, <2>1, <2>2, <2>3
<1>10. /\ Shared!Turned.next_edge \in Corner /\ Shared!Turned.pivot_vertex \in Corner
       /\ Shared!Turned.direction \in {0, 1}
       /\ Shared!Across \in Slot \cup {None}
       /\ stl.which_vertex_not[tour.facet_num][Shared!Turned.next_edge] \in 0 .. 5
       /\ tour.facet_num \in Slot
  <2>1. tour.facet_num \in Slot /\ tour.vnot \in 0 .. 5 /\ tour.direction \in {0, 1}
    BY <1>2
  <2>2. Shared!Turned = Turn(tour.vnot, tour.direction)
    BY SharedOperators DEF Shared!Turned
  <2>3. /\ Shared!Turned.next_edge \in Corner /\ Shared!Turned.pivot_vertex \in Corner
        /\ Shared!Turned.direction \in {0, 1}
    BY <2>1, <2>2, TurnType
  <2>4. QED
    BY <1>2, <2>1, <2>3 DEF Shared!Across, StlFiles
<1>11. Shared!IndexPivot => v_indices' \in Indices
  <2> SUFFICES ASSUME Shared!IndexPivot PROVE v_indices' \in Indices
    OBVIOUS
  <2>1. v_indices' = [v_indices EXCEPT
                        ![tour.facet_num][Shared!Turned.pivot_vertex] = Len(v_shared) - 1]
    BY DEF Shared!IndexPivot
  <2>2. Len(v_shared) - 1 \in Nat \cup {None}
    <3>1. Len(v_shared) \in Nat
      BY <1>2
    <3>2. QED
      BY <3>1 DEF None
  <2>3. QED
    BY <1>2, <1>10, <2>1, <2>2
<1>12. ASSUME Shared!CrossEdge PROVE Result
  <2> DEFINE v == stl.which_vertex_not[tour.facet_num][Shared!Turned.next_edge]
  <2>1. /\ pc = "tour" /\ Shared!Across # None /\ Shared!IndexPivot
        /\ tour' = [tour EXCEPT !.facet_num = Shared!Across, !.vnot = v,
                                !.direction = Shared!Turned.direction]
        /\ UNCHANGED <<stl, i, j, pc, v_shared>>
    BY <1>12, SharedOperators DEF Shared!CrossEdge
  <2>2. Shared!Across \in Slot /\ v \in 0 .. 5
    BY <1>10, <2>1
  <2> HIDE DEF v
  <2>3. tour' \in Tour
    BY <1>2, <1>10, <2>1, <2>2
  <2> HIDE DEF Tour, Indices
  <2>4. QED
    BY <1>2, <1>11, <2>1, <2>3
<1>13. ASSUME Shared!TurnBack PROVE Result
  <2>1. /\ pc = "tour" /\ Shared!IndexPivot
        /\ tour' = [facet_num |-> i, vnot |-> Next3(j), direction |-> 1, reversed |-> TRUE]
        /\ UNCHANGED <<stl, i, j, pc, v_shared>>
    BY <1>13, SharedOperators DEF Shared!TurnBack
  <2>2. tour' \in Tour
    BY <1>2, <1>4, <1>5, <2>1
  <2> HIDE DEF Tour, Indices
  <2>3. QED
    BY <1>2, <1>11, <2>1, <2>2
<1>14. ASSUME Shared!EndTour PROVE Result
  <2>1. /\ pc = "tour" /\ Shared!IndexPivot /\ Shared!NextCorner
        /\ UNCHANGED <<stl, v_shared, tour>>
    BY <1>14 DEF Shared!EndTour
  <2> HIDE DEF Tour, Indices
  <2>2. QED
    BY <1>2, <1>4, <1>5, <1>6, <1>11, <2>1
<1>15. ASSUME Shared!Finish PROVE Result
  BY <1>2, <1>15 DEF Shared!Finish
<1> HIDE DEF Result
<1>16. Result
  BY <1>1, <1>7, <1>8, <1>9, <1>12, <1>13, <1>14, <1>15 DEF Shared!Next
<1>17. MeshTyped'
  BY <1>2, <1>16 DEF MeshTyped, Result, Facets
<1>18. CallTyped'
  BY <1>1, <1>16 DEF TypeInv, CallTyped, callVars, Result
<1>19. PassTyped'
  BY <1>1, <1>16 DEF TypeInv, PassTyped, nearbyVars, fillVars, directionVars, Result
<1>20. VolumeTyped'
  BY <1>1 DEF TypeInv, VolumeTyped, callVars
<1>21. QED
  BY <1>17, <1>18, <1>19, <1>20 DEF TypeInv

(* stl_open leaves a well-formed structure.                                 *)
LEMMA InitTyped == Init => TypeInv
<1> SUFFICES ASSUME Init PROVE TypeInv
  OBVIOUS
<1>1. PICK input \in Inputs : file = input.facets /\ stl = StlOpen(input.facets, input.normals)
  BY DEF Init
<1>2. /\ file \in Seq(Facet) /\ Len(file) <= MaxFacets /\ input.normals \in [Slot -> Point]
      /\ stl = StlOpen(file, input.normals)
  BY <1>1, InputsAssumption
<1>3. stl \in StlFiles
  BY <1>2, StlOpenType
<1>4. stl.number_of_facets = Len(file)
  BY <1>2 DEF StlOpen
<1>5. stl.shortest_edge \in Nat
  <2>1. stl.shortest_edge = IF file = <<>> THEN 0 ELSE MaxDiff(file[1][0], file[1][1])
    BY <1>2 DEF StlOpen
  <2>2. CASE file = <<>>
    BY <2>1, <2>2
  <2>3. CASE file # <<>>
    <3>1. file[1] \in Facet
      BY <1>2, <2>3
    <3>2. file[1][0] \in Point /\ file[1][1] \in Point
      BY <3>1, VertexAssumption DEF Facet, Corner
    <3>3. QED
      BY <2>1, <2>3, <3>2, MaxDiffNatural
  <2>4. QED
    BY <2>2, <2>3
<1>6. MeshTyped
  BY <1>3, <1>5, MaxFacetsAssumption DEF MeshTyped, Init, Corner
<1>7. CallTyped
  <2>1. options \in Options /\ options.iterations \in Nat
    BY OptionsAssumption DEF Init
  <2>2. 0 \in 0 .. options.iterations
    BY <2>1
  <2>3. phase = "exact" /\ iteration = 0 /\ tolerance = 0 /\ warned = FALSE
    BY DEF Init
  <2>4. phase \in {Phases[k] : k \in DOMAIN Phases}
    BY <2>3, PhaseNames DEF Named
  <2>5. file = <<>> => stl.number_of_facets = 0
    BY <1>4
  <2>6. QED
    BY <1>2, <2>1, <2>2, <2>3, <2>4, <2>5 DEF CallTyped
<1>8. PassTyped
  <2>1. (CHOOSE v \in Vertex : TRUE) \in Vertex
    BY VertexAssumption
  <2>2. facet = [c \in Corner |-> CHOOSE v \in Vertex : TRUE]
    BY DEF Init
  <2>3. facet \in Facet
    BY <2>1, <2>2 DEF Facet
  <2>4. 0 \in Slot /\ 0 \in 0 .. 5 /\ 0 \in {0, 1} /\ FALSE \in BOOLEAN
    BY MaxFacetsAssumption DEF Slot
  <2>5. /\ walk \in [facet_num : Slot, vnot : 0 .. 5, direction : {0, 1}]
        /\ tour \in [facet_num : Slot, vnot : 0 .. 5, direction : {0, 1}, reversed : BOOLEAN]
    BY <2>4 DEF Init
  <2>6. /\ initial \in [Corner -> Slot \cup {None}]
        /\ v_indices \in [Slot -> [Corner -> Nat \cup {None}]]
    BY DEF Init
  <2>7. /\ facet_num \in Slot /\ list \in Seq(Slot) /\ norm_sw \subseteq Slot
        /\ checked \in Nat /\ number_of_parts \in Nat
        /\ walks \in Seq(VertexWalk) /\ v_shared \in Seq(Vertex)
    BY <2>4 DEF Init
  <2>8. QED
    BY <2>3, <2>5, <2>6, <2>7 DEF PassTyped
<1>9. VolumeTyped
  BY DEF VolumeTyped, Init
<1>10. QED
  BY <1>6, <1>7, <1>8, <1>9 DEF TypeInv

(* The steps between the passes.                                            *)
LEMMA CallTypedInv ==
  ASSUME TypeInv, Call
  PROVE  TypeInv'
<1>1. /\ pc = "test" /\ Called(phase) /\ pc' = "start"
      /\ UNCHANGED <<options, phase, file, stl, i, j, nearbyVars, fillVars, directionVars, volume,
                     sharedVars, warned>>
      /\ IF phase = "nearby"
         THEN /\ iteration' = iteration + 1
              /\ tolerance' = IF iteration > 0 THEN tolerance + options.increment
                              ELSE IF options.tolerance = None THEN stl.shortest_edge
                              ELSE options.tolerance
         ELSE UNCHANGED <<iteration, tolerance>>
  BY DEF Call
<1>2. MeshTyped'
  BY <1>1 DEF TypeInv, MeshTyped
<1>3. CallTyped'
  <2>1. /\ options \in Options /\ iteration \in 0 .. options.iterations /\ tolerance \in Nat
        /\ stl.shortest_edge \in Nat
    BY DEF TypeInv, CallTyped, MeshTyped
  <2>2. /\ options.tolerance \in Nat \cup {None} /\ options.increment \in Nat
        /\ options.iterations \in Nat
    BY <2>1, OptionsAssumption
  <2>3. phase = "nearby" => iteration < options.iterations
    BY <1>1 DEF Called
  <2>4. iteration' \in 0 .. options.iterations
    BY <1>1, <2>1, <2>2, <2>3
  <2>5. tolerance' \in Nat
    BY <1>1, <2>1, <2>2
  <2>6. QED
    BY <1>1, <2>4, <2>5 DEF TypeInv, CallTyped
<1>4. PassTyped'
  BY <1>1 DEF TypeInv, PassTyped, nearbyVars, fillVars, directionVars, sharedVars
<1>5. VolumeTyped'
  <2>1. phase = "reverse_negative" => volume # <<>>
    BY <1>1 DEF Called
  <2>2. QED
    BY <1>1, <2>1 DEF TypeInv, VolumeTyped
<1>6. QED
  BY <1>2, <1>3, <1>4, <1>5 DEF TypeInv

(* The pass that follows one that is not the last.                          *)
LEMMA FollowingType ==
  ASSUME NEW p \in Named \ {"done"}
  PROVE  Following(p) \in Named \ {"exact"}
  BY FollowingPhases DEF Named

(* A pass that is not called leaves everything well-formed.                 *)
LEMMA SkipTyped ==
  ASSUME TypeInv, Skip
  PROVE  TypeInv'
<1>1. /\ pc = "test" /\ phase # "done" /\ phase' = Following(phase)
      /\ UNCHANGED <<meshVars, nearbyVars, fillVars, directionVars, volume, sharedVars,
                     options, iteration, file, tolerance, warned>>
  BY DEF Skip
<1>2. MeshTyped' /\ PassTyped'
  BY <1>1 DEF TypeInv, MeshTyped, PassTyped, meshVars, nearbyVars, fillVars, directionVars, sharedVars
<1>3. CallTyped'
  <2>1. phase \in Named
    BY PhaseNames DEF TypeInv, CallTyped
  <2>2. phase' \in {Phases[k] : k \in DOMAIN Phases}
    BY <1>1, <2>1, FollowingType, PhaseNames
  <2>3. QED
    BY <1>1, <2>2 DEF TypeInv, CallTyped, meshVars
<1>4. VolumeTyped'
  BY <1>1 DEF TypeInv, VolumeTyped, meshVars
<1>5. QED
  BY <1>2, <1>3, <1>4 DEF TypeInv

(* No pass is under way when the repair is done.                            *)
Idle == phase = "done" => pc = "test"

(* So does the return from a pass, where a volume there is may be negated.  *)
LEMMA ReturnTyped ==
  ASSUME TypeInv, Idle, Return
  PROVE  TypeInv'
<1>1. /\ pc = "done" /\ pc' = "test"
      /\ phase' = IF phase = "nearby" THEN phase ELSE Following(phase)
      /\ volume' = IF phase = "reverse_negative" THEN <<- volume[1]>> ELSE volume
      /\ UNCHANGED <<stl, i, j, nearbyVars, fillVars, directionVars, sharedVars,
                     options, iteration, file, tolerance, warned>>
  BY DEF Return
<1>2. MeshTyped' /\ PassTyped'
  BY <1>1 DEF TypeInv, MeshTyped, PassTyped, nearbyVars, fillVars, directionVars, sharedVars
<1>3. CallTyped'
  <2>1. phase \in Named \ {"done"}
    BY <1>1, PhaseNames DEF TypeInv, CallTyped, Idle
  <2>2. phase' \in {Phases[k] : k \in DOMAIN Phases}
    BY <1>1, <2>1, FollowingType, PhaseNames
  <2>3. QED
    BY <1>1, <2>2 DEF TypeInv, CallTyped
<1>4. VolumeTyped'
  <2>1. volume \in Seq(Int) /\ Len(volume) <= 1
    BY DEF TypeInv, VolumeTyped
  <2>2. ASSUME phase = "reverse_negative" PROVE - volume[1] \in Int
    <3>1. volume # <<>>
      BY <1>1, <2>2 DEF TypeInv, VolumeTyped
    <3>2. volume[1] \in Int
      BY <2>1, <3>1
    <3>3. QED
      BY <3>2
  <2>3. volume' \in Seq(Int) /\ Len(volume') <= 1
    BY <1>1, <2>1, <2>2
  <2>4. QED
    BY <1>1, <2>3 DEF VolumeTyped
<1>5. QED
  BY <1>2, <1>3, <1>4 DEF TypeInv

(* No step starts a pass when the repair is done.                           *)
LEMMA IdleStep ==
  ASSUME TypeInv, Idle, [Next]_vars
  PROVE  Idle'
<1>1. phase \in Named
  BY PhaseNames DEF TypeInv, CallTyped
<1>2. CASE Call
  BY <1>2 DEF Idle, Call, Called
<1>3. CASE Pass
  <2>1. phase' = phase /\ phase # "done"
    BY <1>3 DEF Pass, CheckExact, CheckNearby, RemoveUnconnected, FillHoles, FixDirections,
       ReverseAll, FixNormalValues, CalculateVolume, GenerateSharedVertices, callVars
  <2>2. QED
    BY <2>1 DEF Idle
<1>4. CASE Skip \/ Return
  BY <1>4 DEF Idle, Skip, Return, meshVars
<1>5. CASE Repaired \/ UNCHANGED vars
  BY <1>5 DEF Repaired, vars, meshVars, callVars, Idle
<1>6. QED
  BY <1>2, <1>3, <1>4, <1>5 DEF Next

(* The typed invariant is inductive.                                        *)
LEMMA TypeInvStep ==
  ASSUME TypeInv, Idle, [Next]_vars
  PROVE  TypeInv'
<1>1. CASE Call
  BY <1>1, CallTypedInv
<1>2. CASE Pass
  BY <1>2, CheckExactTyped, CheckNearbyTyped, RemoveUnconnectedTyped, FillHolesTyped,
     FixDirectionsTyped, ReverseAllTyped, ValuesTyped, GenerateSharedVerticesTyped DEF Pass
<1>3. CASE Skip
  BY <1>3, SkipTyped
<1>4. CASE Return
  BY <1>4, ReturnTyped
<1>5. CASE Repaired \/ UNCHANGED vars
  BY <1>5 DEF Repaired, vars, meshVars, callVars, nearbyVars, fillVars, directionVars, sharedVars,
     TypeInv, MeshTyped, CallTyped, PassTyped, VolumeTyped
<1>6. QED
  BY <1>1, <1>2, <1>3, <1>4, <1>5 DEF Next

(* stl_repair keeps the typed invariant, whichever passes it calls.         *)
LEMMA TypedInvariant == Spec => [](TypeInv /\ Idle)
<1>1. Init => TypeInv /\ Idle
  BY InitTyped DEF Init, Idle
<1>2. TypeInv /\ Idle /\ [Next]_vars => TypeInv' /\ Idle'
  BY TypeInvStep, IdleStep
<1>3. QED
  BY <1>1, <1>2, PTL DEF Spec

(* Every pass keeps the structure and its own variables well-formed: the    *)
(* rows the loops and the walks index, the corners, the links and the edges *)
(* pending exist, and there is a volume when it is negated.                 *)
THEOREM TypeCorrect == Spec => []TypeOK
<1>1. TypeInv => TypeOK
  BY TypeInvImpliesTypeOK
<1>2. QED
  BY <1>1, TypedInvariant, PTL

(* A vector has the same direction as itself.                               *)
LEMMA SameDirectionReflexive ==
  ASSUME NEW n \in Point
  PROVE  SameDirection(n, n)
<1>1. PICK x \in Int, y \in Int, z \in Int : n = <<x, y, z>>
  BY DEF Point
<1>2. CASE n = Zero
  BY <1>2 DEF SameDirection
<1>3. CASE n # Zero
  <2>1. \A k \in Int : k * k >= 0 /\ (k # 0 => k * k > 0)
    OBVIOUS
  <2>2. x # 0 \/ y # 0 \/ z # 0
    BY <1>1, <1>3 DEF Zero
  <2>3. x * x >= 0 /\ y * y >= 0 /\ z * z >= 0
    BY <2>1
  <2>4. x * x > 0 \/ y * y > 0 \/ z * z > 0
    BY <2>1, <2>2
  <2>5. x * x \in Int /\ y * y \in Int /\ z * z \in Int
    OBVIOUS
  <2>6. Dot(n, n) = x * x + y * y + z * z
    BY <1>1 DEF Dot
  <2>7. Dot(n, n) > 0
    BY <2>3, <2>4, <2>5, <2>6
  <2>8. Cross(n, n) = Zero
    <3>1. \A k, l \in Int : k * l - l * k = 0
      OBVIOUS
    <3>2. Cross(n, n) = <<y * z - z * y, z * x - x * z, x * y - y * x>>
      BY <1>1 DEF Cross
    <3>3. QED
      BY <3>1, <3>2 DEF Zero
  <2>9. QED
    BY <1>3, <2>7, <2>8 DEF SameDirection
<1>4. QED
  BY <1>2, <1>3

(* Which passes come after the normal values are fixed.                     *)
AfterValues == {"volume", "reverse_negative", "shared_vertices", "done"}

(* These are the passes Past("normal_values") speaks of.                    *)
LEMMA PastValues ==
  ASSUME phase \in Named
  PROVE  Past("normal_values") <=> phase \in AfterValues
<1>1. DOMAIN Phases = 1 .. 11
  BY DEF Phases
<1>2. \A k \in 1 .. 11 : Phases[k] = "normal_values" <=> k = 7
  BY DEF Phases
<1>3. PICK l \in 1 .. 11 : Phases[l] = phase /\ \A k \in 1 .. 11 : Phases[k] = phase => k = l
  BY DEF Named, Phases
<1>4. Past("normal_values") <=> 7 < l
  BY <1>1, <1>2, <1>3 DEF Past
<1>5. 7 < l <=> phase \in AfterValues
  BY <1>3 DEF Phases, AfterValues
<1>6. QED
  BY <1>4, <1>5

(* The normals are right from when stl_fix_normal_values returns.           *)
NormalsInv ==
  /\ Given({"normal_values", "fixall"})
  /\ phase \in AfterValues \/ (phase = "normal_values" /\ pc = "done")
  => \A f \in Facets(stl) : RightNormal(stl, f)

(* stl_fix_normal_values makes all normals right.                           *)
LEMMA FixNormalValuesRight ==
  ASSUME TypeInv, FixNormalValues
  PROVE  \A f \in Facets(stl') : RightNormal(stl', f)
<1> DEFINE n == [f \in Slot |-> IF f \in Facets(stl) THEN FacetNormal(stl.facet_start[f])
                                ELSE stl.normal[f]]
<1>1. stl \in StlFiles
  BY DEF TypeInv, MeshTyped
<1>2. stl' = [stl EXCEPT !.normal = n]
  BY ValuesOperators DEF FixNormalValues, Values!FixNormalValues
<1>3. ASSUME NEW f \in Facets(stl)
      PROVE  n[f] = FacetNormal(stl.facet_start[f]) /\ n[f] \in Point
  <2>1. f \in Slot
    BY <1>1, FacetsAreSlots
  <2>2. stl.facet_start[f] \in Facet
    BY <1>1, <2>1 DEF StlFiles
  <2>3. n[f] = FacetNormal(stl.facet_start[f])
    BY <2>1
  <2>4. QED
    BY <2>2, <2>3, FacetNormalType
<1> HIDE DEF n
<1>4. /\ Facets(stl') = Facets(stl) /\ stl'.normal = n
      /\ stl'.facet_start = stl.facet_start
  BY <1>1, <1>2 DEF StlFiles, Facets
<1>5. QED
  BY <1>3, <1>4, SameDirectionReflexive DEF RightNormal

(* Reversing a facet makes its normal right and keeps the other facets.     *)
LEMMA ReverseWithNormalRight ==
  ASSUME NEW s \in StlFiles, NEW f \in Slot
  PROVE  LET t == ReverseWithNormal(s, f)
         IN  /\ Facets(t) = Facets(s)
             /\ RightNormal(t, f)
             /\ \A g \in Slot \ {f} : RightNormal(s, g) => RightNormal(t, g)
<1> DEFINE r == ReverseFacet(s, f)
           n == FacetNormal(r.facet_start[f])
           t == ReverseWithNormal(s, f)
<1>1. t \in StlFiles /\ t = [r EXCEPT !.normal = [s.normal EXCEPT ![f] = n]]
  BY ReverseWithNormalFields
<1>2. /\ r \in StlFiles /\ r.number_of_facets = s.number_of_facets
      /\ r.facet_start = [s.facet_start EXCEPT ![f] = SwapCorners(s.facet_start[f])]
  BY ReverseFacetFields
<1>3. n \in Point
  <2>1. r.facet_start[f] \in Facet
    BY <1>2 DEF StlFiles
  <2>2. QED
    BY <2>1, FacetNormalType
<1> HIDE DEF n, r, t
<1>4. /\ t.number_of_facets = s.number_of_facets
      /\ t.facet_start = r.facet_start
      /\ t.normal = [s.normal EXCEPT ![f] = n]
  BY <1>1, <1>2 DEF StlFiles
<1>5. DOMAIN s.normal = Slot /\ DOMAIN s.facet_start = Slot
  BY DEF StlFiles
<1>6. t.normal[f] = n /\ n = FacetNormal(t.facet_start[f])
  BY <1>4, <1>5 DEF n
<1>7. RightNormal(t, f)
  BY <1>3, <1>6, SameDirectionReflexive DEF RightNormal
<1>8. ASSUME NEW g \in Slot \ {f}, RightNormal(s, g) PROVE RightNormal(t, g)
  <2>1. t.normal[g] = s.normal[g] /\ t.facet_start[g] = s.facet_start[g]
    BY <1>2, <1>4, <1>5
  <2>2. QED
    BY <1>8, <2>1 DEF RightNormal
<1>9. Facets(t) = Facets(s)
  BY <1>4 DEF Facets
<1>10. QED
  BY <1>7, <1>8, <1>9 DEF t

(* The invariant is kept by every step.                                     *)
LEMMA NormalsInvStep ==
  ASSUME TypeInv, Idle, NormalsInv, [Next]_vars
  PROVE  NormalsInv'
<1>1. stl \in StlFiles
  BY DEF TypeInv, MeshTyped
<1>2. CASE Call
  BY <1>2 DEF Call, NormalsInv, Given
<1>3. CASE CheckExact \/ CheckNearby \/ RemoveUnconnected \/ FillHoles \/ FixDirections
  <2>1. phase' = phase /\ phase \notin AfterValues \cup {"normal_values"}
    BY <1>3 DEF CheckExact, CheckNearby, RemoveUnconnected, FillHoles, FixDirections, callVars,
       AfterValues
  <2>2. QED
    BY <2>1 DEF NormalsInv
<1>4. CASE ReverseAll
  <2>1. /\ phase \in {"reverse_all", "reverse_negative"} /\ phase' = phase /\ options' = options
        /\ Directions!ReverseAll
    BY <1>4 DEF ReverseAll, callVars
  <2>2. CASE stl' = stl
    BY <2>1, <2>2 DEF NormalsInv, AfterValues, Given
  <2>3. CASE Directions!ReverseNext
    <3>1. i \in Facets(stl) /\ stl' = ReverseWithNormal(stl, i)
      BY <2>3, DirectionsOperators DEF Directions!ReverseNext
    <3>2. Facets(stl) \subseteq Slot
      BY <1>1, FacetsAreSlots
    <3> DEFINE t == ReverseWithNormal(stl, i)
    <3>3. /\ Facets(t) = Facets(stl)
          /\ RightNormal(t, i)
          /\ \A g \in Slot \ {i} : RightNormal(stl, g) => RightNormal(t, g)
      BY <1>1, <3>1, <3>2, ReverseWithNormalRight
    <3>4. stl' = t
      BY <3>1
    <3> HIDE DEF t
    <3>5. ASSUME \A f \in Facets(stl) : RightNormal(stl, f)
          PROVE  \A f \in Facets(stl') : RightNormal(stl', f)
      BY <3>1, <3>2, <3>3, <3>4, <3>5
    <3>6. QED
      BY <2>1, <3>5 DEF NormalsInv, AfterValues, Given
  <2>4. QED
    BY <2>1, <2>2, <2>3 DEF Directions!ReverseAll, Directions!BeginReverseAll, Directions!EndReverseAll
<1>5. CASE FixNormalValues
  BY <1>5, FixNormalValuesRight DEF NormalsInv
<1>6. CASE CalculateVolume
  BY <1>6 DEF CalculateVolume, Values!CalculateVolume, callVars, NormalsInv, AfterValues, Given
<1>7. CASE GenerateSharedVertices
  <2>1. stl' = stl
    BY <1>7 DEF GenerateSharedVertices, Shared!Next, Shared!Begin, Shared!SkipCorner,
       Shared!StartTour, Shared!CrossEdge, Shared!TurnBack, Shared!EndTour, Shared!Finish
  <2>2. phase' = phase /\ phase = "shared_vertices" /\ options' = options
    BY <1>7 DEF GenerateSharedVertices, callVars
  <2>3. QED
    BY <2>1, <2>2 DEF NormalsInv, AfterValues, Given
<1>8. phase \in Named
  BY PhaseNames DEF TypeInv, CallTyped
<1>9. CASE Skip
  <2>1. /\ pc = "test" /\ pc' = pc /\ phase # "done" /\ ~ Called(phase)
        /\ phase' = Following(phase) /\ stl' = stl /\ options' = options
    BY <1>9 DEF Skip, meshVars
  <2>2. phase' \in AfterValues => phase \in AfterValues \cup {"normal_values"}
    BY <1>8, <2>1, FollowingPhases DEF Named, AfterValues
  <2>3. phase = "normal_values" => ~ Given({"normal_values", "fixall"})
    BY <2>1 DEF Called
  <2>4. QED
    BY <2>1, <2>2, <2>3 DEF NormalsInv, Given
<1>10. CASE Return
  <2>1. /\ pc = "done" /\ pc' = "test" /\ phase # "done"
        /\ phase' = IF phase = "nearby" THEN phase ELSE Following(phase)
        /\ stl' = stl /\ options' = options
    BY <1>10 DEF Return, Idle
  <2>2. phase' \in AfterValues => phase \in AfterValues \cup {"normal_values"}
    BY <1>8, <2>1, FollowingPhases DEF Named, AfterValues
  <2>3. QED
    BY <2>1, <2>2 DEF NormalsInv, Given
<1>11. CASE Repaired \/ UNCHANGED vars
  BY <1>11 DEF Repaired, vars, meshVars, callVars, NormalsInv, Given
<1>12. QED
  BY <1>2, <1>3, <1>4, <1>5, <1>6, <1>7, <1>9, <1>10, <1>11 DEF Next, Pass

(* When the normal values have been checked every stored normal is right,   *)
(* also after stl_reverse_all_facets has turned the facets because the      *)
(* volume is negative.                                                      *)
THEOREM NormalsAreRight == Spec => []NormalsRight
<1>1. Init => NormalsInv
  BY DEF Init, NormalsInv, AfterValues
<1>2. TypeInv /\ NormalsInv => NormalsRight
  <2> SUFFICES ASSUME TypeInv, NormalsInv PROVE NormalsRight
    OBVIOUS
  <2>1. phase \in Named
    BY PhaseNames DEF TypeInv, CallTyped
  <2>2. QED
    BY <2>1, PastValues DEF NormalsInv, NormalsRight
<1>3. TypeInv /\ Idle /\ NormalsInv /\ [Next]_vars => NormalsInv'
  BY NormalsInvStep
<1>4. QED
  BY <1>1, <1>2, <1>3, TypedInvariant, PTL DEF Spec

-----------------------------------------------------------------------------
(****************************************************************************)
(* Links are only added while edges are pending.                            *)
(****************************************************************************)
(* The pending edge p is edge e of facet f.                                 *)
IsPending(p, f, e) == p.facet_number = f /\ p.which_edge % 3 = e

(* The pending edges are unconnected edges of the mesh, each pending once.  *)
Pending(s) ==
  /\ \A p \in s.heads : /\ p.facet_number \in Facets(s)
                        /\ s.neighbor[p.facet_number][p.which_edge % 3] = None
  /\ \A p, q \in s.heads : IsPending(p, q.facet_number, q.which_edge % 3) => p = q

(* Edge e of facet f is neither connected nor pending.                      *)
FreeEdge(s, f, e) == s.neighbor[f][e] = None /\ \A p \in s.heads : ~ IsPending(p, f, e)

(* From s to t facets and links are added, and none is lost.                *)
LinksAdded(s, t) ==
  /\ Facets(s) \subseteq Facets(t)
  /\ \A f \in Facets(s), e \in Corner :
       s.neighbor[f][e] # None =>
         /\ t.neighbor[f][e] = s.neighbor[f][e]
         /\ t.which_vertex_not[f][e] = s.which_vertex_not[f][e]

(* What an insertion of edge e of facet f makes of s.                       *)
Inserted(s, f, e, t) ==
  /\ t \in StlFiles
  /\ t.number_of_facets = s.number_of_facets
  /\ Pending(t)
  /\ LinksAdded(s, t)
  /\ \A p \in t.heads : p \in s.heads \/ IsPending(p, f, e)
  /\ \A d \in Corner : d # e => t.neighbor[f][d] = s.neighbor[f][d]

(* An edge is left pending.                                                 *)
LEMMA PendInserted ==
  ASSUME NEW s \in StlFiles, NEW edge \in Edge, Pending(s),
         edge.facet_number \in Facets(s),
         FreeEdge(s, edge.facet_number, edge.which_edge % 3),
         NEW t \in StlFiles, SameButTable(s, t), t.heads = s.heads \cup {edge}
  PROVE  Inserted(s, edge.facet_number, edge.which_edge % 3, t)
<1>1. /\ t.number_of_facets = s.number_of_facets /\ t.neighbor = s.neighbor
      /\ t.which_vertex_not = s.which_vertex_not
  BY DEF SameButTable
<1>2. Facets(t) = Facets(s)
  BY <1>1 DEF Facets
<1>3. Pending(t)
  BY <1>1, <1>2 DEF Pending, FreeEdge, IsPending
<1>4. LinksAdded(s, t)
  BY <1>1, <1>2 DEF LinksAdded
<1>5. QED
  BY <1>1, <1>3, <1>4 DEF Inserted, IsPending

(* An edge is matched with a pending one.                                   *)
LEMMA MatchInserted ==
  ASSUME NEW s \in StlFiles, NEW edge \in Edge, Pending(s),
         edge.facet_number \in Facets(s),
         FreeEdge(s, edge.facet_number, edge.which_edge % 3),
         NEW link \in Edge, link \in s.heads, link.facet_number # edge.facet_number,
         NEW r \in StlFiles, SameButTable(s, r), r.heads = s.heads \ {link}
  PROVE  Inserted(s, edge.facet_number, edge.which_edge % 3, RecordNeighbors(r, edge, link))
<1> DEFINE t  == RecordNeighbors(r, edge, link)
           fa == edge.facet_number
           fb == link.facet_number
           ea == edge.which_edge % 3
           eb == link.which_edge % 3
<1>1. /\ t \in StlFiles
      /\ t.number_of_facets = s.number_of_facets
      /\ t.heads = s.heads \ {link}
      /\ \A f \in Slot, e \in Corner :
           ~ (f = fa /\ e = ea) /\ ~ (f = fb /\ e = eb) =>
             /\ t.neighbor[f][e] = s.neighbor[f][e]
             /\ t.which_vertex_not[f][e] = s.which_vertex_not[f][e]
  <2>1. /\ t \in StlFiles /\ t.number_of_facets = r.number_of_facets /\ t.heads = r.heads
        /\ \A f \in Slot, e \in Corner :
             ~ (f = fa /\ e = ea) /\ ~ (f = fb /\ e = eb) =>
               /\ t.neighbor[f][e] = r.neighbor[f][e]
               /\ t.which_vertex_not[f][e] = r.which_vertex_not[f][e]
    BY SMTT(20), RecordNeighborsFields
  <2> HIDE DEF t, fa, fb, ea, eb
  <2>2. QED
    BY <2>1 DEF SameButTable
<1> HIDE DEF t
<1>2. Facets(t) = Facets(s) /\ Facets(s) \subseteq Slot
  BY <1>1, FacetsAreSlots DEF Facets
<1>3. /\ fa \in Facets(s) /\ ea \in Corner /\ s.neighbor[fa][ea] = None
      /\ fb \in Facets(s) /\ eb \in Corner /\ s.neighbor[fb][eb] = None
      /\ fa # fb
  BY CornerArithmetic DEF Pending, FreeEdge, Edge
<1>4. Pending(t)
  <2>1. ASSUME NEW p \in t.heads
        PROVE  /\ p.facet_number \in Facets(t)
               /\ t.neighbor[p.facet_number][p.which_edge % 3] = None
    <3>1. p \in s.heads /\ p # link /\ p \in Edge
      BY <1>1, <2>1 DEF StlFiles
    <3>2. /\ p.facet_number \in Facets(s)
          /\ s.neighbor[p.facet_number][p.which_edge % 3] = None
          /\ ~ IsPending(p, fa, ea) /\ ~ IsPending(p, fb, eb)
      BY <3>1 DEF Pending, FreeEdge
    <3>3. p.which_edge % 3 \in Corner
      BY <3>1, CornerArithmetic DEF Edge
    <3>4. QED
      BY <1>1, <1>2, <3>2, <3>3 DEF IsPending
  <2>2. QED
    BY <1>1, <2>1 DEF Pending
<1>5. LinksAdded(s, t)
  BY <1>1, <1>2, <1>3 DEF LinksAdded
<1>6. \A d \in Corner : d # ea => t.neighbor[fa][d] = s.neighbor[fa][d]
  BY <1>1, <1>2, <1>3
<1>7. QED
  BY <1>1, <1>4, <1>5, <1>6 DEF Inserted, t

(* insert_hash_edge with an edge that is neither connected nor pending      *)
(* loses no link and leaves only unconnected edges pending.                 *)
LEMMA InsertEdgeExactInserted ==
  ASSUME NEW s \in StlFiles, s.shortest_edge \in Nat, Pending(s),
         NEW f \in Facets(s), NEW e \in Corner, NEW t \in Facet, FreeEdge(s, f, e)
  PROVE  Inserted(s, f, e, InsertEdgeExact(s, f, e, t))
<1> DEFINE edge == LoadEdgeExact(f, e, t[e], t[Next3(e)])
           u    == InsertEdgeExact(s, f, e, t)
<1>1. f \in Slot
  BY FacetsAreSlots
<1>2. /\ edge \in Edge /\ edge.facet_number = f /\ edge.which_edge % 3 = e
      /\ \E r \in StlFiles :
           /\ SameButTable(s, r) /\ r.shortest_edge \in Nat
           /\ \/ /\ u = r
                 /\ r.heads = s.heads \cup {edge}
                 /\ Matches(s, edge) = {}
              \/ \E link \in s.heads :
                   /\ u = RecordNeighbors(r, edge, link)
                   /\ r.heads = s.heads \ {link}
                   /\ link \in Edge /\ link.key = edge.key /\ link.facet_number # f
  BY SMTT(20), <1>1, InsertEdgeExactResult
<1> HIDE DEF edge, u
<1>3. PICK r \in StlFiles :
           /\ SameButTable(s, r)
           /\ \/ u = r /\ r.heads = s.heads \cup {edge}
              \/ \E link \in s.heads :
                   /\ u = RecordNeighbors(r, edge, link)
                   /\ r.heads = s.heads \ {link}
                   /\ link \in Edge /\ link.facet_number # f
  BY <1>2
<1>4. CASE u = r /\ r.heads = s.heads \cup {edge}
  <2>1. Inserted(s, f, e, r)
    BY <1>2, <1>3, <1>4, PendInserted
  <2>2. QED
    BY <1>4, <2>1 DEF u
<1>5. CASE \E link \in s.heads :
                   /\ u = RecordNeighbors(r, edge, link)
                   /\ r.heads = s.heads \ {link}
                   /\ link \in Edge /\ link.facet_number # f
  <2>1. PICK link \in s.heads :
                   /\ u = RecordNeighbors(r, edge, link)
                   /\ r.heads = s.heads \ {link}
                   /\ link \in Edge /\ link.facet_number # f
    BY <1>5
  <2>2. Inserted(s, f, e, RecordNeighbors(r, edge, link))
    BY <1>2, <1>3, <2>1, MatchInserted
  <2>3. QED
    BY <2>1, <2>2 DEF u
<1>6. QED
  BY <1>3, <1>4, <1>5

(* Nothing is lost over several insertions.                                 *)
LEMMA LinksAddedTransitive ==
  ASSUME NEW s, NEW t, NEW u, LinksAdded(s, t), LinksAdded(t, u)
  PROVE  LinksAdded(s, u)
  BY DEF LinksAdded

(* The facet that closes a hole is connected by its own unconnected edges.  *)
LEMMA CloseHoleInserted ==
  ASSUME NEW s \in StlFiles, s.shortest_edge \in Nat, Pending(s), HasRoom(s), NEW t \in Facet
  PROVE  LET u == Fill!InsertFacetEdges(AddFacet(s, t), s.number_of_facets, t)
         IN  Pending(u) /\ LinksAdded(s, u)
<1> DEFINE f  == s.number_of_facets
           a  == AddFacet(s, t)
           s0 == InsertEdgeExact(a, f, 0, t)
           s1 == InsertEdgeExact(s0, f, 1, t)
           s2 == InsertEdgeExact(s1, f, 2, t)
<1>1. 0 \in Corner /\ 1 \in Corner /\ 2 \in Corner
  BY DEF Corner
<1>2. Fill!InsertFacetEdges(a, f, t) = s2
  BY FillOperators DEF Fill!InsertFacetEdges
<1>3. /\ a \in StlFiles /\ a.shortest_edge \in Nat /\ a.number_of_facets = f + 1
      /\ a.neighbor = [s.neighbor EXCEPT ![f] = [e \in Corner |-> None]]
      /\ a.which_vertex_not = s.which_vertex_not /\ a.heads = s.heads
      /\ f \in Slot
  BY AddFacetFields
<1>4. /\ f \in Facets(a) /\ f \notin Facets(s) /\ Facets(s) \subseteq Facets(a)
      /\ Facets(s) \subseteq Slot
  <2>1. f \in Nat
    BY <1>3, MaxFacetsAssumption DEF Slot
  <2>2. Facets(s) = 0 .. f - 1 /\ Facets(a) = 0 .. f
    BY <1>3, <2>1 DEF Facets
  <2> HIDE DEF a, f
  <2>3. QED
    BY <2>1, <2>2, FacetsAreSlots
<1> HIDE DEF a
<1>5. \A g \in Facets(s) : a.neighbor[g] = s.neighbor[g]
  BY <1>3, <1>4 DEF StlFiles
<1>6. Pending(a) /\ LinksAdded(s, a)
  BY <1>3, <1>4, <1>5 DEF Pending, LinksAdded
<1>7. \A e \in Corner : FreeEdge(a, f, e)
  <2>1. \A e \in Corner : a.neighbor[f][e] = None
    BY <1>3 DEF StlFiles
  <2>2. \A p \in a.heads : p.facet_number # f
    BY <1>3, <1>4 DEF Pending
  <2>3. QED
    BY <2>1, <2>2 DEF FreeEdge, IsPending
<1> HIDE DEF f
<1>8. Inserted(a, f, 0, s0) /\ s0.shortest_edge \in Nat
  BY <1>1, <1>3, <1>4, <1>6, <1>7, InsertEdgeExactInserted, InsertEdgeExactKeeps
<1> HIDE DEF s0
<1>9. f \in Facets(s0) /\ FreeEdge(s0, f, 1) /\ FreeEdge(s0, f, 2)
  BY <1>1, <1>4, <1>7, <1>8 DEF Inserted, FreeEdge, IsPending, Facets
<1>10. s0 \in StlFiles /\ Pending(s0) /\ LinksAdded(a, s0)
  BY <1>8 DEF Inserted
<1>11. Inserted(s0, f, 1, s1) /\ s1.shortest_edge \in Nat
  BY <1>1, <1>3, <1>8, <1>9, <1>10, InsertEdgeExactInserted, InsertEdgeExactKeeps
<1> HIDE DEF s1
<1>12. f \in Facets(s1) /\ FreeEdge(s1, f, 2)
  BY <1>1, <1>9, <1>11 DEF Inserted, FreeEdge, IsPending, Facets
<1>13. s1 \in StlFiles /\ Pending(s1) /\ LinksAdded(s0, s1)
  BY <1>11 DEF Inserted
<1>14. Inserted(s1, f, 2, s2)
  BY <1>1, <1>11, <1>12, <1>13, InsertEdgeExactInserted
<1> HIDE DEF s2
<1>15. Pending(s2) /\ LinksAdded(s1, s2)
  BY <1>14 DEF Inserted
<1>16. LinksAdded(s, s2)
  BY <1>6, <1>10, <1>13, <1>15, LinksAddedTransitive
<1>17. QED
  BY <1>2, <1>15, <1>16 DEF a, f

(* The loop over the facets has passed the edge of p.                       *)
Before(p) ==
  p.facet_number < i \/ (p.facet_number = i /\ p.which_edge % 3 < j)

(* While the nearby check and the filling of holes run the table holds      *)
(* unconnected edges only, each once; while the loops load edges, only      *)
(* those behind them.                                                       *)
PendingInv ==
  phase \in {"nearby", "fill_holes"} /\ pc \notin {"test", "start"} =>
    /\ Pending(stl)
    /\ phase = "nearby" \/ pc = "load" => \A p \in stl.heads : Before(p)

(* The table is emptied.                                                    *)
LEMMA Emptied ==
  ASSUME TypeInv, stl' = [stl EXCEPT !.heads = {}]
  PROVE  Pending(stl') /\ LinksAdded(stl, stl') /\ stl'.heads = {}
<1>1. /\ stl'.heads = {} /\ stl'.neighbor = stl.neighbor
      /\ stl'.which_vertex_not = stl.which_vertex_not
      /\ stl'.number_of_facets = stl.number_of_facets
  BY DEF TypeInv, MeshTyped, StlFiles
<1>2. QED
  BY <1>1 DEF Pending, LinksAdded, Facets

(* The edge under test is free when all pending edges are behind it, and is *)
(* behind the loop when it has advanced.                                    *)
LEMMA LoopAdvances ==
  ASSUME TypeInv, i \in Facets(stl), \A p \in stl.heads : Before(p),
         j' = Next3(j), i' = IF j = 2 THEN i + 1 ELSE i
  PROVE  /\ stl.neighbor[i][j] = None => FreeEdge(stl, i, j)
         /\ \A p \in Edge : Before(p) \/ IsPending(p, i, j) => Before(p)'
<1>1. i \in Nat /\ j \in Corner /\ stl.heads \subseteq Edge
  BY MaxFacetsAssumption DEF TypeInv, MeshTyped, StlFiles
<1>2. \A p \in Edge : p.facet_number \in Nat /\ p.which_edge % 3 \in Corner
  BY CornerArithmetic, MaxFacetsAssumption DEF Edge, Slot
<1>3. \A p \in stl.heads : ~ IsPending(p, i, j)
  BY <1>1, <1>2 DEF Before, IsPending, Corner
<1>4. i' \in Nat /\ (j # 2 => j' = j + 1 /\ i' = i) /\ (j = 2 => i' = i + 1)
  BY <1>1 DEF Corner, Next3
<1>5. \A p \in Edge : Before(p) \/ IsPending(p, i, j) => Before(p)'
  BY <1>1, <1>2, <1>4 DEF Before, IsPending, Corner
<1>6. QED
  BY <1>3, <1>5 DEF FreeEdge

(* Each step of the nearby check.                                           *)
LEMMA CheckNearbyPending ==
  ASSUME TypeInv, PendingInv, CheckNearby
  PROVE  PendingInv' /\ LinksAdded(stl, stl')
<1>1. phase = "nearby" /\ phase' = "nearby" /\ Nearby!Next
  BY DEF CheckNearby
<1>2. pc # "start" /\ pc # "test" => Pending(stl) /\ \A p \in stl.heads : Before(p)
  BY <1>1 DEF PendingInv
<1>3. /\ stl \in StlFiles /\ j \in Corner /\ stl.heads \subseteq Edge
      /\ pc = "edge" => i \in Facets(stl)
      /\ pc = "change" => i \in Facets(stl)
  BY DEF TypeInv, MeshTyped, StlFiles
<1> DEFINE Behind == \A p \in stl'.heads : Before(p)'
           Result == Pending(stl') /\ Behind /\ LinksAdded(stl, stl')
<1>4. LinksAdded(stl, stl)
  BY DEF LinksAdded
<1>5. Nearby!Advance => j' = Next3(j) /\ i' = IF j = 2 THEN i + 1 ELSE i
  BY NearbyOperators DEF Nearby!Advance
<1>6. ASSUME Nearby!Begin \/ Nearby!FreeEdges PROVE Result
  <2>1. stl' = [stl EXCEPT !.heads = {}]
    BY <1>6 DEF Nearby!Begin, Nearby!FreeEdges
  <2>2. QED
    BY <2>1, Emptied
<1>7. ASSUME Nearby!LoadFacet PROVE Result
  BY <1>2, <1>4, <1>7 DEF Nearby!LoadFacet, Before
<1>8. ASSUME Nearby!SkipEdge PROVE Result
  <2>1. pc = "edge" /\ Nearby!Advance /\ stl' = stl
    BY <1>8 DEF Nearby!SkipEdge
  <2>2. \A p \in Edge : Before(p) => Before(p)'
    BY <1>2, <1>3, <1>5, <2>1, LoopAdvances
  <2>3. QED
    BY <1>2, <1>3, <1>4, <2>1, <2>2
<1>9. ASSUME Nearby!PendEdge PROVE Result
  <2> DEFINE edge == Nearby!Candidate
  <2>1. /\ pc = "edge" /\ Nearby!Advance /\ stl.neighbor[i][j] = None
        /\ stl' = [stl EXCEPT !.heads = stl.heads \cup {edge}]
    BY <1>9, NearbyOperators DEF Nearby!PendEdge, Nearby!Loadable
  <2>2. edge \in Edge /\ edge.facet_number = i /\ edge.which_edge % 3 = j
    BY <2>1, CandidateType
  <2> HIDE DEF edge
  <2>3. stl' \in StlFiles /\ SameButTable(stl, stl') /\ stl'.heads = stl.heads \cup {edge}
    BY <1>3, <2>1, <2>2 DEF StlFiles, SameButTable
  <2>4. FreeEdge(stl, i, j) /\ \A p \in Edge : Before(p) \/ IsPending(p, i, j) => Before(p)'
    BY <1>2, <1>3, <1>5, <2>1, LoopAdvances
  <2>5. Inserted(stl, i, j, stl')
    BY <1>2, <1>3, <2>1, <2>2, <2>3, <2>4, PendInserted
  <2>6. Behind
    BY <1>2, <1>3, <2>1, <2>2, <2>3, <2>4 DEF IsPending
  <2>7. QED
    BY <2>5, <2>6 DEF Inserted
<1>10. ASSUME Nearby!MatchEdge PROVE Result
  <2> DEFINE edge == Nearby!Candidate
             link == Oldest(Matches(stl, edge))
             r == [stl EXCEPT !.heads = stl.heads \ {link}]
  <2>1. /\ pc = "edge" /\ stl.neighbor[i][j] = None /\ i' = i /\ j' = j
        /\ Matches(stl, edge) # {}
        /\ stl' = RecordNeighbors(r, edge, link)
    BY <1>10, NearbyOperators DEF Nearby!MatchEdge, Nearby!Loadable
  <2>2. edge \in Edge /\ edge.facet_number = i /\ edge.which_edge % 3 = j
    BY <2>1, CandidateType
  <2> HIDE DEF edge
  <2>3. link \in stl.heads /\ link \in Edge /\ link.facet_number # edge.facet_number
    <3>1. Matches(stl, edge) \subseteq Edge
      BY <1>3 DEF Matches
    <3>2. link \in Matches(stl, edge)
      BY <2>1, <3>1, OldestMember
    <3>3. QED
      BY <3>1, <3>2 DEF Matches
  <2> HIDE DEF link
  <2>4. r \in StlFiles /\ SameButTable(stl, r) /\ r.heads = stl.heads \ {link}
    BY <1>3 DEF StlFiles, SameButTable
  <2> HIDE DEF r
  <2>5. FreeEdge(stl, i, j)
    <3>1. i \in Nat
      BY MaxFacetsAssumption DEF TypeInv, MeshTyped
    <3>2. \A p \in stl.heads : ~ IsPending(p, i, j)
      BY <1>2, <1>3, <2>1, <3>1 DEF Before, IsPending, Corner
    <3>3. QED
      BY <2>1, <3>2 DEF FreeEdge
  <2>6. Inserted(stl, i, j, stl')
    BY <1>2, <1>3, <2>1, <2>2, <2>3, <2>4, <2>5, MatchInserted
  <2>7. stl'.heads = r.heads
    BY <2>1, <2>2, <2>3, <2>4, RecordNeighborsFields
  <2>8. Behind
    BY <1>2, <2>1, <2>4, <2>7 DEF Before
  <2>9. QED
    BY <2>6, <2>8 DEF Inserted
<1>11. ASSUME Nearby!ChangeVertex \/ Nearby!FinishMatch PROVE Result
  <2>1. /\ pc = "change"
        /\ stl'.heads = stl.heads /\ stl'.neighbor = stl.neighbor
        /\ stl'.which_vertex_not = stl.which_vertex_not
        /\ stl'.number_of_facets = stl.number_of_facets
    BY <1>3, <1>11 DEF Nearby!ChangeVertex, Nearby!FinishMatch, StlFiles
  <2>2. Pending(stl') /\ LinksAdded(stl, stl')
    BY <1>2, <2>1 DEF Pending, LinksAdded, Facets
  <2>3. CASE Nearby!ChangeVertex
    <3>1. i' = i /\ j' = j
      BY <2>3 DEF Nearby!ChangeVertex
    <3>2. QED
      BY <1>2, <2>1, <2>2, <3>1 DEF Before
  <2>4. CASE Nearby!FinishMatch
    <3>1. j' = Next3(j) /\ i' = IF j = 2 THEN i + 1 ELSE i
      BY <1>5, <2>4 DEF Nearby!FinishMatch
    <3>2. \A p \in Edge : Before(p) => Before(p)'
      BY <1>2, <1>3, <2>1, <3>1, LoopAdvances
    <3>3. QED
      BY <1>2, <1>3, <2>1, <2>2, <3>2
  <2>5. QED
    BY <1>11, <2>3, <2>4
<1> HIDE DEF Result
<1>12. Result
  BY <1>1, <1>6, <1>7, <1>8, <1>9, <1>10, <1>11 DEF Nearby!Next
<1>13. QED
  BY <1>12 DEF PendingInv, Result

(* Each step of the filling of holes.                                       *)
LEMMA FillHolesPending ==
  ASSUME TypeInv, PendingInv, FillHoles
  PROVE  PendingInv' /\ LinksAdded(stl, stl')
<1>1. phase = "fill_holes" /\ phase' = "fill_holes" /\ Fill!Next
  BY DEF FillHoles, callVars
<1>2. /\ pc # "start" /\ pc # "test" => Pending(stl)
      /\ pc = "load" => \A p \in stl.heads : Before(p)
  BY <1>1 DEF PendingInv
<1>3. /\ stl \in StlFiles /\ j \in Corner /\ stl.heads \subseteq Edge
      /\ stl.shortest_edge \in Nat
  BY DEF TypeInv, MeshTyped, StlFiles
<1> DEFINE Behind == \A p \in stl'.heads : Before(p)'
           Result == /\ Pending(stl') /\ (pc' = "load" => Behind)
                     /\ LinksAdded(stl, stl')
<1>4. LinksAdded(stl, stl)
  BY DEF LinksAdded
<1>5. \A t, n : Fill!Advance(t, n) =>
                  /\ j' = Next3(j) /\ i' = IF j = 2 THEN i + 1 ELSE i
                  /\ pc' = IF j = 2 THEN n ELSE t
  BY FillOperators DEF Fill!Advance
<1>6. ASSUME Fill!Begin \/ Fill!FreeEdges PROVE Result
  <2>1. stl' = [stl EXCEPT !.heads = {}]
    BY <1>6 DEF Fill!Begin, Fill!FreeEdges
  <2>2. QED
    BY <2>1, Emptied
<1>7. ASSUME Fill!LoadUnconnected PROVE Result
  <2>1. /\ pc = "load" /\ i \in Facets(stl)
        /\ stl' = IF stl.neighbor[i][j] = None
                  THEN InsertEdgeExact(stl, i, j, stl.facet_start[i]) ELSE stl
        /\ j' = Next3(j) /\ i' = IF j = 2 THEN i + 1 ELSE i
    BY <1>5, <1>7, FillOperators DEF Fill!LoadUnconnected, Fill!Unlinked
  <2>2. /\ stl.neighbor[i][j] = None => FreeEdge(stl, i, j)
        /\ \A p \in Edge : Before(p) \/ IsPending(p, i, j) => Before(p)'
    BY <1>2, <2>1, LoopAdvances
  <2>3. stl.facet_start[i] \in Facet
    BY <1>3, <2>1, FacetsAreSlots DEF StlFiles
  <2>4. CASE stl.neighbor[i][j] = None
    <3>1. Inserted(stl, i, j, stl')
      BY <1>2, <1>3, <2>1, <2>2, <2>3, <2>4, InsertEdgeExactInserted
    <3>2. stl'.heads \subseteq Edge /\ \A p \in stl'.heads : p \in stl.heads \/ IsPending(p, i, j)
      BY <3>1 DEF Inserted, StlFiles
    <3>3. Behind
      BY <1>2, <1>3, <2>1, <2>2, <3>2
    <3>4. QED
      BY <3>1, <3>3 DEF Inserted
  <2>5. CASE stl.neighbor[i][j] # None
    BY <1>2, <1>3, <1>4, <2>1, <2>2, <2>5
  <2>6. QED
    BY <2>4, <2>5
<1>8. ASSUME Fill!EndLoad \/ Fill!ScanFacet \/ Fill!SkipEdge \/ Fill!StartWalk
             \/ Fill!CrossEdge \/ Fill!BackAtFirst
      PROVE  Result
  <2>1. stl' = stl /\ pc \in {"load", "facet", "edge", "walk"} /\ pc' # "load"
    BY <1>5, <1>8 DEF Fill!EndLoad, Fill!ScanFacet, Fill!SkipEdge, Fill!StartWalk,
       Fill!CrossEdge, Fill!BackAtFirst
  <2>2. QED
    BY <1>2, <1>4, <2>1
<1>9. ASSUME Fill!CloseHole PROVE Result
  <2> DEFINE new == [c \in Corner |-> <<stl.facet_start[i][j], stl.facet_start[i][Next3(j)],
                                        Fill!FarCorner>>[c + 1]]
  <2>1. /\ pc = "walk" /\ HasRoom(stl)
        /\ stl' = Fill!InsertFacetEdges(AddFacet(stl, new), stl.number_of_facets, new)
        /\ pc' # "load"
    BY <1>5, <1>9, FillOperators DEF Fill!CloseHole
  <2>2. new \in Facet
    BY <2>1, ClosingFacetType
  <2> HIDE DEF new
  <2>3. QED
    BY <1>2, <1>3, <2>1, <2>2, CloseHoleInserted
<1> HIDE DEF Result
<1>10. Result
  BY <1>1, <1>6, <1>7, <1>8, <1>9 DEF Fill!Next
<1>11. QED
  BY <1>1, <1>10 DEF PendingInv, Result

(* No step of stl_repair leaves a connected edge pending, and the two       *)
(* passes that work with pending edges lose no link.                        *)
LEMMA PendingInvStep ==
  ASSUME TypeInv, PendingInv, [Next]_vars
  PROVE  /\ PendingInv'
         /\ phase \in {"nearby", "fill_holes"} => LinksAdded(stl, stl')
<1>1. LinksAdded(stl, stl)
  BY DEF LinksAdded
<1>2. CASE Call \/ Skip \/ Return
  <2>1. stl' = stl /\ pc' \in {"test", "start"}
    BY <1>2 DEF Call, Skip, Return, meshVars
  <2>2. QED
    BY <1>1, <2>1 DEF PendingInv
<1>3. CASE Repaired \/ UNCHANGED vars
  <2>1. stl' = stl /\ i' = i /\ j' = j /\ phase' = phase /\ pc' = pc
    BY <1>3 DEF Repaired, vars, meshVars, callVars
  <2>2. QED
    BY <1>1, <2>1 DEF PendingInv, Before
<1>4. CASE Pass
  <2>1. CASE CheckNearby
    BY <2>1, CheckNearbyPending
  <2>2. CASE FillHoles
    BY <2>2, FillHolesPending
  <2>3. CASE ~ CheckNearby /\ ~ FillHoles
    <3>1. phase' = phase /\ phase \notin {"nearby", "fill_holes"}
      BY <1>4, <2>3 DEF Pass, CheckExact, RemoveUnconnected, FixDirections, ReverseAll,
         FixNormalValues, CalculateVolume, GenerateSharedVertices, callVars
    <3>2. QED
      BY <3>1 DEF PendingInv
  <2>4. QED
    BY <2>1, <2>2, <2>3
<1>5. QED
  BY <1>2, <1>3, <1>4 DEF Next

(* The nearby check and the filling of holes never connect an edge a second *)
(* time: an edge keeps its neighbour, and which vertex of it is opposite,   *)
(* until another pass changes them.                                         *)
THEOREM LinksAreKept == Spec => LinksKept
<1>1. Init => PendingInv
  BY DEF Init, PendingInv
<1>2. TypeInv /\ PendingInv /\ [Next]_vars => PendingInv'
  BY PendingInvStep
<1>3. ASSUME TypeInv, PendingInv, [Next]_vars
      PROVE  [(phase \in {"nearby", "fill_holes"}) =>
                \A f \in Facets(stl), e \in Corner : KeepsLink(f, e)]_vars
  BY <1>3, PendingInvStep DEF LinksAdded, KeepsLink
<1>4. QED
  BY <1>1, <1>2, <1>3, TypedInvariant, PTL DEF Spec, LinksKept

-----------------------------------------------------------------------------
(****************************************************************************)
(* The links.                                                               *)
(****************************************************************************)
(* The exact check, with what is proved of it alone.                        *)
ExactCheck == INSTANCE FacetCheckExactProofs WITH Inputs <- Meshes

(* The meshes are what is assumed of the files the exact check is run on.   *)
LEMMA MeshesAssumption ==
  /\ Meshes \subseteq {s \in Seq(ExactCheck!Facet) : Len(s) <= MaxFacets}
  /\ MaxFacets \in Nat \ {0}
  /\ Vertex \subseteq ExactCheck!Point /\ Vertex # {}
<1>1. ExactCheck!Facet = Facet /\ ExactCheck!Point = Point
  BY DEF ExactCheck!Facet, ExactCheck!Corner, ExactCheck!Point, Facet, Corner, Point
<1>2. QED
  BY <1>1, InputsAssumption, MaxFacetsAssumption, VertexAssumption DEF Meshes

(* It works on the structure as the other passes have it.                   *)
LEMMA ExactCheckOperators ==
  /\ ExactCheck!StlFiles = StlFiles
  /\ ExactCheck!Corner = Corner /\ ExactCheck!Slot = Slot /\ ExactCheck!None = None
  /\ \A k : ExactCheck!Next3(k) = Next3(k)
  /\ \A s : ExactCheck!Facets(s) = Facets(s)
  /\ \A t : ExactCheck!IsDegenerate(t) = IsDegenerate(t)
  /\ \A s : ExactCheck!Mutual(s) <=> Mutual(s)
  /\ \A s : ExactCheck!CountersAgree(s) <=> CountersAgree(s)
  /\ \A s, f, e : ExactCheck!EdgeMatches(s, f, e) <=> EdgeMatches(s, f, e)
<1>1. /\ ExactCheck!Corner = Corner /\ ExactCheck!Slot = Slot /\ ExactCheck!None = None
      /\ ExactCheck!Facet = Facet /\ ExactCheck!Point = Point
  BY DEF Corner, Slot, None, Facet, Point, ExactCheck!Corner, ExactCheck!Slot, ExactCheck!None,
         ExactCheck!Facet, ExactCheck!Point
<1>2. ExactCheck!Edge = Edge
  BY <1>1 DEF Edge, ExactCheck!Edge
<1>3. ExactCheck!StlFiles = StlFiles
  BY <1>1, <1>2 DEF StlFiles, ExactCheck!StlFiles
<1>4. /\ \A k : ExactCheck!Next3(k) = Next3(k)
      /\ \A k : ExactCheck!Prev3(k) = Prev3(k)
      /\ \A s : ExactCheck!Facets(s) = Facets(s)
  BY DEF Next3, Prev3, Facets, ExactCheck!Next3, ExactCheck!Prev3, ExactCheck!Facets
<1>5. \A t : ExactCheck!IsDegenerate(t) = IsDegenerate(t)
  BY DEF IsDegenerate, ExactCheck!IsDegenerate
<1>6. \A s, f, e : ExactCheck!LinkedBack(s, f, e) <=> LinkedBack(s, f, e)
  BY <1>1, <1>4 DEF LinkedBack, ExactCheck!LinkedBack
<1>7. \A s : ExactCheck!Mutual(s) <=> Mutual(s)
  BY <1>1, <1>4, <1>6 DEF Mutual, ExactCheck!Mutual
<1>8. \A s, f : ExactCheck!Unconnected(s, f) = Unconnected(s, f)
  BY <1>1 DEF Unconnected, ExactCheck!Unconnected
<1>9. \A s : ExactCheck!CountersAgree(s) <=> CountersAgree(s)
  <2>1. \A S : ExactCheck!Cardinality(S) = Cardinality(S)
    BY DEF Cardinality, ExactCheck!Cardinality
  <2>2. QED
    BY <1>4, <1>8, <2>1 DEF CountersAgree, ExactCheck!CountersAgree
<1>10. \A s, f, e : ExactCheck!EdgeMatches(s, f, e) <=> EdgeMatches(s, f, e)
  <2> TAKE s, f, e
  <2>1. /\ \A k : ExactCheck!Next3(k) = Next3(k)
        /\ \A k : ExactCheck!Prev3(k) = Prev3(k)
        /\ ExactCheck!None = None
    BY <1>1, <1>4
  <2> DEFINE g == s.neighbor[f][e]
             vnot == s.which_vertex_not[f][e]
             this == <<s.facet_start[f][e], s.facet_start[f][Next3(e)]>>
             other == IF vnot < 3
                      THEN <<s.facet_start[g][Prev3(vnot)], s.facet_start[g][Next3(vnot)]>>
                      ELSE <<s.facet_start[g][Next3(vnot)], s.facet_start[g][Prev3(vnot)]>>
  <2>2. EdgeMatches(s, f, e) <=> (g # None => this = other)
    BY DEF EdgeMatches
  <2>3. ExactCheck!EdgeMatches(s, f, e) <=> (g # None => this = other)
    BY <2>1 DEF ExactCheck!EdgeMatches
  <2>4. QED
    BY <2>2, <2>3
<1>11. QED
  BY <1>1, <1>3, <1>4, <1>5, <1>7, <1>9, <1>10

(* The neighbours the exact check begins with.                              *)
NoNeighbors ==
  [f \in Slot |-> IF f \in Facets(stl) THEN [e \in Corner |-> None] ELSE stl.neighbor[f]]

(* Its steps are those stl_repair takes.                                    *)
LEMMA ExactSteps ==
  /\ Exact!Initialize <=> ExactCheck!Initialize
  /\ Exact!RemoveDegenerateFacet <=> ExactCheck!RemoveDegenerateFacet
  /\ Exact!InsertEdge <=> ExactCheck!InsertEdge
  /\ Exact!FreeEdges <=> ExactCheck!FreeEdges
<1>1. /\ Exact!Corner = ExactCheck!Corner /\ Exact!Slot = ExactCheck!Slot
      /\ Exact!None = ExactCheck!None
      /\ \A s : Exact!Facets(s) = ExactCheck!Facets(s)
      /\ \A t : Exact!IsDegenerate(t) = ExactCheck!IsDegenerate(t)
  BY ExactOperators, ExactCheckOperators
<1>2. \A k : Exact!Next3(k) = ExactCheck!Next3(k)
  BY ExactOperators, ExactCheckOperators
<1>3. ASSUME NEW s, NEW f PROVE Exact!RemoveFacet(s, f) = ExactCheck!RemoveFacet(s, f)
  BY DEF Exact!RemoveFacet, Exact!MoveLast, Exact!Unconnected, Exact!Misdirected, Exact!Tell,
         Exact!Next3, Exact!None,
         ExactCheck!RemoveFacet, ExactCheck!MoveLast, ExactCheck!Unconnected,
         ExactCheck!Misdirected, ExactCheck!Tell, ExactCheck!Next3, ExactCheck!None
<1>4. ASSUME NEW s, NEW a, NEW b
      PROVE  Exact!RecordNeighbors(s, a, b) = ExactCheck!RecordNeighbors(s, a, b)
  <2>1. Exact!Link(s, a, b) = ExactCheck!Link(s, a, b)
    BY DEF Exact!Link, Exact!Prev3, ExactCheck!Link, ExactCheck!Prev3
  <2>2. \A t, f : Exact!CountConnect(t, f) = ExactCheck!CountConnect(t, f)
    BY DEF Exact!CountConnect, Exact!Unconnected, Exact!None,
           ExactCheck!CountConnect, ExactCheck!Unconnected, ExactCheck!None
  <2>3. QED
    BY <2>1, <2>2 DEF Exact!RecordNeighbors, ExactCheck!RecordNeighbors
<1>5. ASSUME NEW s, NEW f, NEW e, NEW t
      PROVE  Exact!InsertEdgeExact(s, f, e, t) = ExactCheck!InsertEdgeExact(s, f, e, t)
  <2>1. ASSUME NEW a, NEW b
        PROVE  /\ Exact!ShortestEdge(s, a, b) = ExactCheck!ShortestEdge(s, a, b)
               /\ Exact!LoadEdgeExact(f, e, a, b) = ExactCheck!LoadEdgeExact(f, e, a, b)
    BY DEF ExactCheck!ShortestEdge, ExactCheck!MaxDiff, ExactCheck!DominantAxis, ExactCheck!Diff,
           ExactCheck!LoadEdgeExact, ExactCheck!LoadEdge, ExactCheck!Forward,
           Exact!ShortestEdge, Exact!MaxDiff, Exact!DominantAxis, Exact!Diff,
           Exact!LoadEdgeExact, Exact!LoadEdge, Exact!Forward
  <2>2. /\ \A u, edge : Exact!Matches(u, edge) = ExactCheck!Matches(u, edge)
        /\ \A S : Exact!Oldest(S) = ExactCheck!Oldest(S)
    BY DEF Exact!Matches, Exact!Oldest, ExactCheck!Matches, ExactCheck!Oldest
  <2>3. \A u, edge : Exact!InsertHashEdge(u, edge) = ExactCheck!InsertHashEdge(u, edge)
    BY <1>4, <2>2 DEF Exact!InsertHashEdge, ExactCheck!InsertHashEdge
  <2>4. QED
    BY <1>2, <2>1, <2>3 DEF Exact!InsertEdgeExact, ExactCheck!InsertEdgeExact
<1>6. Exact!Initialize <=> ExactCheck!Initialize
  <2>1. Exact!Initialize <=>
          /\ pc = "start"
          /\ stl' = [stl EXCEPT
               !.connected_edges  = 0,
               !.connected_facets = [k \in 1 .. 3 |-> 0],
               !.neighbor = NoNeighbors,
               !.heads = {}]
          /\ pc' = "facet"
          /\ UNCHANGED <<i, j, file>>
    <3>1. /\ Exact!Slot = Slot /\ Exact!Corner = Corner /\ Exact!None = None
          /\ Exact!Facets(stl) = Facets(stl)
      BY ExactOperators
    <3>2. NoNeighbors = [f \in Exact!Slot |->
            IF f \in Exact!Facets(stl) THEN [e \in Exact!Corner |-> Exact!None] ELSE stl.neighbor[f]]
      BY <3>1 DEF NoNeighbors
    <3>3. QED
      BY <3>2 DEF Exact!Initialize
  <2>2. ExactCheck!Initialize <=>
          /\ pc = "start"
          /\ stl' = [stl EXCEPT
               !.connected_edges  = 0,
               !.connected_facets = [k \in 1 .. 3 |-> 0],
               !.neighbor = NoNeighbors,
               !.heads = {}]
          /\ pc' = "facet"
          /\ UNCHANGED <<i, j, file>>
    <3>1. /\ ExactCheck!Slot = Slot /\ ExactCheck!Corner = Corner /\ ExactCheck!None = None
          /\ ExactCheck!Facets(stl) = Facets(stl)
      BY ExactCheckOperators
    <3>2. NoNeighbors = [f \in ExactCheck!Slot |->
            IF f \in ExactCheck!Facets(stl) THEN [e \in ExactCheck!Corner |-> ExactCheck!None] ELSE stl.neighbor[f]]
      BY <3>1 DEF NoNeighbors
    <3>3. QED
      BY <3>2 DEF ExactCheck!Initialize
  <2>3. QED
    BY <2>1, <2>2
<1>7. Exact!RemoveDegenerateFacet <=> ExactCheck!RemoveDegenerateFacet
  BY <1>1, <1>3 DEF Exact!RemoveDegenerateFacet, ExactCheck!RemoveDegenerateFacet
<1>8. Exact!InsertEdge <=> ExactCheck!InsertEdge
  BY <1>1, <1>2, <1>5 DEF Exact!InsertEdge, ExactCheck!InsertEdge
<1>9. Exact!FreeEdges <=> ExactCheck!FreeEdges
  BY <1>1 DEF Exact!FreeEdges, ExactCheck!FreeEdges
<1>10. QED
  BY <1>6, <1>7, <1>8, <1>9

(****************************************************************************)
(* What the passes after the exact check keep.                              *)
(****************************************************************************)
(* The neighbour list is symmetric and the counters count it.               *)
Sound(s) == Mutual(s) /\ CountersAgree(s)

(* Neighbours share their edges (stl_verify_neighbors).                     *)
EdgesRight(s) == \A f \in Facets(s), e \in Corner : EdgeMatches(s, f, e)

(* t has the same links and counters as s.                                  *)
SameLinks(s, t) ==
  /\ t.number_of_facets = s.number_of_facets
  /\ t.neighbor = s.neighbor
  /\ t.which_vertex_not = s.which_vertex_not
  /\ t.connected_facets = s.connected_facets

(* What only changes the table, the corners or the normals keeps them.      *)
LEMMA SameLinksSound ==
  ASSUME NEW s, NEW t, SameLinks(s, t)
  PROVE  /\ Sound(s) => Sound(t)
         /\ t.facet_start = s.facet_start => (EdgesRight(s) => EdgesRight(t))
<1>1. Facets(t) = Facets(s)
  BY DEF Facets, SameLinks
<1>2. \A f : Unconnected(t, f) = Unconnected(s, f)
  BY DEF Unconnected, SameLinks
<1>3. Mutual(s) => Mutual(t)
  BY <1>1 DEF Mutual, LinkedBack, SameLinks
<1>4. CountersAgree(s) => CountersAgree(t)
  BY <1>1, <1>2 DEF CountersAgree, SameLinks
<1>5. t.facet_start = s.facet_start => (EdgesRight(s) => EdgesRight(t))
  BY ZenonT(40), <1>1 DEF EdgesRight, EdgeMatches, SameLinks
<1>6. QED
  BY <1>3, <1>4, <1>5 DEF Sound

(* stl_add_facet adds a facet without neighbours, which no counter counts.  *)
LEMMA AddFacetSound ==
  ASSUME NEW s \in StlFiles, NEW t \in Facet, HasRoom(s), Sound(s)
  PROVE  LET u == AddFacet(s, t)
         IN  /\ Sound(u)
             /\ EdgesRight(s) => EdgesRight(u)
             /\ \A p \in s.heads : IsEdgeOf(s, p) => IsEdgeOf(u, p)
<1> DEFINE u == AddFacet(s, t)
           f == s.number_of_facets
<1>1. /\ u \in StlFiles /\ f \in Slot /\ u.number_of_facets = f + 1
      /\ u.facet_start = [s.facet_start EXCEPT ![f] = t]
      /\ u.neighbor = [s.neighbor EXCEPT ![f] = [e \in Corner |-> None]]
      /\ u.which_vertex_not = s.which_vertex_not
      /\ u.connected_facets = s.connected_facets
  BY AddFacetFields
<1> HIDE DEF u
<1>2. /\ f \notin Facets(s) /\ Facets(u) = Facets(s) \cup {f} /\ Facets(s) \subseteq Slot
  <2>1. f \in Nat
    BY <1>1, MaxFacetsAssumption DEF Slot
  <2>2. Facets(s) = 0 .. f - 1 /\ Facets(u) = 0 .. f
    BY <1>1, <2>1 DEF Facets
  <2> HIDE DEF f
  <2>3. QED
    BY <2>1, <2>2, FacetsAreSlots
<1>3. \A g \in Facets(s) : /\ u.neighbor[g] = s.neighbor[g]
                           /\ u.facet_start[g] = s.facet_start[g]
  BY <1>1, <1>2 DEF StlFiles
<1>4. \A e \in Corner : u.neighbor[f][e] = None
  BY <1>1 DEF StlFiles
<1> HIDE DEF f
<1>5. Mutual(u)
  <2>a. \A e \in Corner : LinkedBack(u, f, e)
    BY <1>4 DEF LinkedBack
  <2> SUFFICES ASSUME NEW g \in Facets(s), NEW e \in Corner, LinkedBack(s, g, e)
               PROVE  LinkedBack(u, g, e)
    BY <1>2, <2>a DEF Mutual, Sound
  <2>1. QED
    BY <1>1, <1>2, <1>3 DEF LinkedBack
<1>6. CountersAgree(u)
  <2> SUFFICES ASSUME NEW k \in 1 .. 3
               PROVE  u.connected_facets[k] =
                        Cardinality({g \in Facets(u) : 3 - Unconnected(u, g) >= k})
    BY Zenon DEF CountersAgree
  <2>1. Unconnected(u, f) = 3
    BY <1>4, UnconnectedType
  <2>2. \A g \in Facets(s) : Unconnected(u, g) = Unconnected(s, g)
    BY <1>3 DEF Unconnected
  <2>3. {g \in Facets(u) : 3 - Unconnected(u, g) >= k}
        = {g \in Facets(s) : 3 - Unconnected(s, g) >= k}
    BY <1>2, <2>1, <2>2
  <2>4. QED
    BY <1>1, <2>3 DEF Sound, CountersAgree
<1>7. ASSUME EdgesRight(s) PROVE EdgesRight(u)
  <2>a. \A e \in Corner : EdgeMatches(u, f, e)
    BY <1>4 DEF EdgeMatches
  <2> SUFFICES ASSUME NEW g \in Facets(s), NEW e \in Corner
               PROVE  EdgeMatches(u, g, e)
    BY <1>2, <2>a DEF EdgesRight
  <2>1. EdgeMatches(s, g, e) /\ LinkedBack(s, g, e)
    BY <1>7 DEF EdgesRight, Sound, Mutual
  <2>2. s.neighbor[g][e] # None => s.neighbor[g][e] \in Facets(s)
    BY <2>1 DEF LinkedBack
  <2>3. QED
    BY <1>1, <1>3, <2>1, <2>2 DEF EdgeMatches
<1>8. ASSUME NEW p \in s.heads, IsEdgeOf(s, p) PROVE IsEdgeOf(u, p)
  BY <1>2, <1>3, <1>8 DEF IsEdgeOf
<1>9. QED
  BY <1>5, <1>6, <1>7, <1>8 DEF Sound, u

(* A match of two free edges keeps the list symmetric and is counted.       *)
LEMMA MatchSound ==
  ASSUME NEW s \in StlFiles, NEW edge \in Edge, Pending(s),
         edge.facet_number \in Facets(s),
         FreeEdge(s, edge.facet_number, edge.which_edge % 3),
         NEW link \in Edge, link \in s.heads, link.facet_number # edge.facet_number,
         NEW r \in StlFiles, SameButTable(s, r), Sound(s)
  PROVE  LET t == RecordNeighbors(r, edge, link)
         IN  /\ Sound(t)
             /\ EdgesRight(s) /\ IsEdgeOf(s, edge) /\ IsEdgeOf(s, link) /\ link.key = edge.key
                => EdgesRight(t)
<1> DEFINE t == RecordNeighbors(r, edge, link)
<1>1. SameLinks(s, r) /\ r.facet_start = s.facet_start
  BY DEF SameButTable, SameLinks
<1>2. Sound(r) /\ (EdgesRight(s) => EdgesRight(r))
  BY <1>1, SameLinksSound
<1>3. Facets(r) = Facets(s) /\ r.neighbor = s.neighbor
  BY <1>1 DEF SameLinks, Facets
<1>4. /\ edge.facet_number \in Facets(r) /\ link.facet_number \in Facets(r)
      /\ r.neighbor[edge.facet_number][edge.which_edge % 3] = None
      /\ r.neighbor[link.facet_number][link.which_edge % 3] = None
  BY <1>3 DEF Pending, FreeEdge
<1>5. Mutual(t)
  BY <1>2, <1>4, RecordNeighborsMutual DEF Sound
<1>6. CountersAgree(t)
  BY <1>2, <1>4, RecordNeighborsCounts DEF Sound
<1>7. ASSUME EdgesRight(s), IsEdgeOf(s, edge), IsEdgeOf(s, link), link.key = edge.key
      PROVE  EdgesRight(t)
  <2>1. IsEdgeOf(r, edge) /\ IsEdgeOf(r, link)
    BY <1>1, <1>3, <1>7 DEF IsEdgeOf
  <2>2. QED
    BY <1>2, <1>7, <2>1, RecordNeighborsEdges DEF EdgesRight
<1>8. QED
  BY <1>5, <1>6, <1>7 DEF Sound

(****************************************************************************)
(* Removing a facet without neighbours.                                     *)
(****************************************************************************)
(* Row g holds, once facet f is removed, the facet that was in row Was, and *)
(* the facet that was in row h is in row Now.                               *)
Was(s, f, g) == IF g = f THEN s.number_of_facets - 1 ELSE g
Now(s, f, h) == IF h = s.number_of_facets - 1 THEN f ELSE h

(* u is s without facet f, the last facet in its row and every link to it   *)
(* renamed.                                                                 *)
Renamed(s, f, u) ==
  /\ u \in StlFiles
  /\ u.number_of_facets = s.number_of_facets - 1
  /\ u.connected_facets = s.connected_facets
  /\ \A g \in Facets(u) :
       /\ u.facet_start[g] = s.facet_start[Was(s, f, g)]
       /\ \A d \in Corner :
            /\ u.neighbor[g][d] = Now(s, f, s.neighbor[Was(s, f, g)][d])
            /\ u.which_vertex_not[g][d] = s.which_vertex_not[Was(s, f, g)][d]

(* stl_remove_facet first: the row of the last facet is copied.             *)
LEMMA MoveLastFields ==
  ASSUME NEW s \in StlFiles, NEW f \in Facets(s), \A e \in Corner : s.neighbor[f][e] = None
  PROVE  LET u == MoveLast(s, f)
             last == s.number_of_facets - 1
         IN  /\ u \in StlFiles
             /\ u.number_of_facets = last
             /\ u.connected_facets = s.connected_facets
             /\ u.facet_start = [s.facet_start EXCEPT ![f] = s.facet_start[last]]
             /\ u.neighbor = [s.neighbor EXCEPT ![f] = s.neighbor[last]]
             /\ u.which_vertex_not = [s.which_vertex_not EXCEPT ![f] = s.which_vertex_not[last]]
<1>1. Unconnected(s, f) = 3
  BY UnconnectedType
<1>2. [k \in 1 .. 3 |-> IF k <= 3 - Unconnected(s, f) THEN s.connected_facets[k] - 1
                        ELSE s.connected_facets[k]] = s.connected_facets
  BY <1>1 DEF StlFiles
<1>3. MoveLast(s, f) \in StlFiles
  BY MoveLastType
<1>4. QED
  BY <1>2, <1>3 DEF MoveLast, StlFiles

(* t is s with the link of facet g across edge e set to f, if there is g.   *)
Told(s, g, e, f, t) ==
  /\ t \in StlFiles
  /\ t.number_of_facets = s.number_of_facets
  /\ t.connected_facets = s.connected_facets
  /\ t.facet_start = s.facet_start
  /\ t.which_vertex_not = s.which_vertex_not
  /\ \A h \in Slot, d \in Corner :
       t.neighbor[h][d] = IF h = g /\ d = e THEN f ELSE s.neighbor[h][d]

(* A neighbour is told the new row of the facet that was moved.             *)
LEMMA TellFields ==
  ASSUME NEW s \in StlFiles, NEW g \in Slot \cup {None}, NEW e \in Corner, NEW f \in Slot
  PROVE  Told(s, g, e, f, Tell(s, g, e, f))
<1>1. CASE g = None
  BY <1>1, MaxFacetsAssumption DEF Tell, None, Slot, Told
<1>2. CASE g # None
  <2>1. Tell(s, g, e, f) \in StlFiles
    BY TellType
  <2>2. g \in Slot /\ s.neighbor \in [Slot -> [Corner -> Slot \cup {None}]]
    BY <1>2 DEF StlFiles
  <2>3. Tell(s, g, e, f).neighbor = [s.neighbor EXCEPT ![g][e] = f]
    BY <1>2 DEF Tell, StlFiles
  <2>4. \A h \in Slot, d \in Corner :
          Tell(s, g, e, f).neighbor[h][d] = IF h = g /\ d = e THEN f ELSE s.neighbor[h][d]
    BY <2>2, <2>3
  <2>5. QED
    BY <1>2, <2>1, <2>4 DEF Tell, StlFiles, Told
<1>3. QED
  BY <1>1, <1>2

(* The facet without neighbours goes, the last facet takes its row, and all *)
(* its neighbours are told: none of them is found misdirected.              *)
LEMMA RemoveFacetRenamed ==
  ASSUME NEW s \in StlFiles, NEW f \in Facets(s), Mutual(s),
         \A e \in Corner : s.neighbor[f][e] = None
  PROVE  Renamed(s, f, RemoveFacet(s, f))
<1> DEFINE last    == s.number_of_facets - 1
           g(e)    == s.neighbor[last][e]
           back(e) == Next3(s.which_vertex_not[last][e])
           moved   == MoveLast(s, f)
           told0   == Tell(moved, g(0), back(0), f)
           told1   == Tell(told0, g(1), back(1), f)
           told2   == Tell(told1, g(2), back(2), f)
<1>1. /\ last \in Slot /\ last \in Facets(s) /\ f \in Slot
      /\ Facets(s) \subseteq Slot /\ None \notin Slot
  <2>1. Facets(s) = 0 .. last /\ last \in Int
    BY DEF Facets, StlFiles
  <2>2. last \in Facets(s)
    BY <2>1
  <2>3. QED
    BY <2>1, <2>2, FacetsAreSlots, MaxFacetsAssumption DEF Slot, None
<1>2. \A e \in Corner : g(e) \in Slot \cup {None} /\ back(e) \in Corner
  <2>1. /\ s.neighbor[last] \in [Corner -> Slot \cup {None}]
        /\ s.which_vertex_not[last] \in [Corner -> 0 .. 5]
    BY <1>1 DEF StlFiles
  <2>2. QED
    BY <2>1, CornerArithmetic
<1>3. \A e \in Corner : g(e) # None =>
        /\ g(e) \in Facets(s) /\ g(e) # last
        /\ s.neighbor[g(e)][back(e)] = last
        /\ Next3(s.which_vertex_not[g(e)][back(e)]) = e
  BY <1>1 DEF Mutual, LinkedBack
<1>4. \A e \in Corner : g(e) # None => g(e) # f
  BY <1>1, <1>2, <1>3
<1>5. /\ moved \in StlFiles
      /\ moved.number_of_facets = last
      /\ moved.connected_facets = s.connected_facets
      /\ moved.facet_start = [s.facet_start EXCEPT ![f] = s.facet_start[last]]
      /\ moved.neighbor = [s.neighbor EXCEPT ![f] = s.neighbor[last]]
      /\ moved.which_vertex_not = [s.which_vertex_not EXCEPT ![f] = s.which_vertex_not[last]]
  BY MoveLastFields
<1>6. /\ 0 \in Corner /\ 1 \in Corner /\ 2 \in Corner
      /\ \A e \in Corner : e \in {0, 1, 2}
  BY DEF Corner
<1> HIDE DEF moved, g, back
<1>7. \A h \in Slot : h # f => moved.neighbor[h] = s.neighbor[h]
  BY <1>5 DEF StlFiles
<1>8. told0 \in StlFiles /\ Told(moved, g(0), back(0), f, told0)
  <2>1. Told(moved, g(0), back(0), f, told0)
    BY <1>1, <1>2, <1>5, <1>6, TellFields
  <2>2. QED
    BY <2>1 DEF Told
<1> HIDE DEF told0
<1>9. told1 \in StlFiles /\ Told(told0, g(1), back(1), f, told1)
  <2>1. Told(told0, g(1), back(1), f, told1)
    BY <1>1, <1>2, <1>6, <1>8, TellFields
  <2>2. QED
    BY <2>1 DEF Told
<1> HIDE DEF told1
<1>10. told2 \in StlFiles /\ Told(told1, g(2), back(2), f, told2)
  <2>1. Told(told1, g(2), back(2), f, told2)
    BY <1>1, <1>2, <1>6, <1>9, TellFields
  <2>2. QED
    BY <2>1 DEF Told
<1> HIDE DEF told2
<1>a. \A h \in Slot, d \in Corner :
        /\ told0.neighbor[h][d] = IF h = g(0) /\ d = back(0) THEN f ELSE moved.neighbor[h][d]
        /\ told1.neighbor[h][d] = IF h = g(1) /\ d = back(1) THEN f ELSE told0.neighbor[h][d]
        /\ told2.neighbor[h][d] = IF h = g(2) /\ d = back(2) THEN f ELSE told1.neighbor[h][d]
  BY <1>8, <1>9, <1>10 DEF Told
<1>b. /\ told2 \in StlFiles /\ told2.number_of_facets = last
      /\ told2.connected_facets = s.connected_facets
      /\ told2.facet_start = moved.facet_start
      /\ told2.which_vertex_not = moved.which_vertex_not
  BY <1>5, <1>8, <1>9, <1>10 DEF Told
<1>11. RemoveFacet(s, f) = told2
  <2>1. ~ Misdirected(moved, g(0), back(0), last)
    BY <1>1, <1>3, <1>4, <1>6, <1>7 DEF Misdirected
  <2>2. ~ Misdirected(told0, g(1), back(1), last)
    <3>1. SUFFICES ASSUME g(1) # None PROVE told0.neighbor[g(1)][back(1)] = last
      BY DEF Misdirected
    <3>2. g(1) \in Slot /\ back(1) \in Corner /\ g(1) # f
      BY <1>1, <1>2, <1>3, <1>4, <1>6, <3>1
    <3>3. s.neighbor[g(1)][back(1)] = last /\ Next3(s.which_vertex_not[g(1)][back(1)]) = 1
      BY <1>3, <1>6, <3>1
    <3>4. ~ (g(1) = g(0) /\ back(1) = back(0))
      BY <1>3, <1>6, <3>1, <3>3
    <3>5. QED
      BY <1>7, <1>a, <3>2, <3>3, <3>4
  <2>3. ~ Misdirected(told1, g(2), back(2), last)
    <3>1. SUFFICES ASSUME g(2) # None PROVE told1.neighbor[g(2)][back(2)] = last
      BY DEF Misdirected
    <3>2. g(2) \in Slot /\ back(2) \in Corner /\ g(2) # f
      BY <1>1, <1>2, <1>3, <1>4, <1>6, <3>1
    <3>3. s.neighbor[g(2)][back(2)] = last /\ Next3(s.which_vertex_not[g(2)][back(2)]) = 2
      BY <1>3, <1>6, <3>1
    <3>4. /\ ~ (g(2) = g(0) /\ back(2) = back(0))
          /\ ~ (g(2) = g(1) /\ back(2) = back(1))
      BY <1>3, <1>6, <3>1, <3>3
    <3>5. QED
      BY <1>7, <1>a, <3>2, <3>3, <3>4
  <2>4. QED
    BY <2>1, <2>2, <2>3 DEF RemoveFacet, moved, told0, told1, told2, g, back
<1>12. ASSUME NEW h \in Slot, NEW d \in Corner
       PROVE  told2.neighbor[h][d] = IF \E e \in Corner : h = g(e) /\ d = back(e) THEN f
                                     ELSE moved.neighbor[h][d]
  BY <1>6, <1>a
<1>13. ASSUME NEW h \in Facets(told2)
       PROVE  /\ told2.facet_start[h] = s.facet_start[Was(s, f, h)]
              /\ \A d \in Corner :
                   told2.which_vertex_not[h][d] = s.which_vertex_not[Was(s, f, h)][d]
  <2>1. h \in Slot
    BY <1>b, FacetsAreSlots
  <2>2. QED
    BY <1>1, <1>5, <1>b, <2>1 DEF Was, StlFiles
<1>14. ASSUME NEW h \in Facets(told2), NEW d \in Corner
       PROVE  told2.neighbor[h][d] = Now(s, f, s.neighbor[Was(s, f, h)][d])
  <2>1. h \in Slot /\ h \in Facets(s) /\ h # last
    <3>1. Facets(told2) = 0 .. last - 1 /\ Facets(s) = 0 .. last /\ last \in Int
      BY <1>b DEF Facets, StlFiles
    <3> HIDE DEF last
    <3>2. QED
      BY <1>1, <3>1
  <2>2. CASE h = f
    <3>1. \A e \in Corner : h # g(e)
      BY <1>1, <1>4, <2>1, <2>2
    <3>2. told2.neighbor[h][d] = s.neighbor[last][d]
      <4>1. moved.neighbor[h] = s.neighbor[last]
        BY <1>1, <1>5, <2>2 DEF StlFiles
      <4>2. told2.neighbor[h][d] = moved.neighbor[h][d]
        BY <1>12, <2>1, <3>1
      <4>3. QED
        BY <4>1, <4>2
    <3>3. s.neighbor[last][d] # last
      BY <1>1, <1>3 DEF g
    <3>4. QED
      BY <2>2, <3>2, <3>3 DEF Was, Now
  <2>3. CASE h # f
    <3>1. moved.neighbor[h][d] = s.neighbor[h][d]
      BY <1>7, <2>1, <2>3
    <3>2. CASE s.neighbor[h][d] = last
      <4> DEFINE b == Next3(s.which_vertex_not[h][d])
      <4>1. s.neighbor[last][b] = h /\ Next3(s.which_vertex_not[last][b]) = d
        BY <1>1, <2>1, <3>2 DEF Mutual, LinkedBack
      <4>2. b \in Corner
        BY <2>1, CornerArithmetic DEF StlFiles
      <4>3. QED
        BY <1>12, <2>1, <2>3, <3>2, <4>1, <4>2 DEF Was, Now, g, back
    <3>3. CASE s.neighbor[h][d] # last
      <4>1. ~ \E e \in Corner : h = g(e) /\ d = back(e)
        BY <1>1, <1>3, <2>1, <3>3
      <4>2. QED
        BY <1>12, <2>1, <2>3, <3>1, <3>3, <4>1 DEF Was, Now
    <3>4. QED
      BY <3>2, <3>3
  <2>4. QED
    BY <2>2, <2>3
<1>15. QED
  BY <1>b, <1>11, <1>13, <1>14 DEF Renamed

(* What a removal that renames the rows keeps.                              *)
LEMMA RenamedSound ==
  ASSUME NEW s \in StlFiles, NEW f \in Facets(s), NEW u, Renamed(s, f, u),
         \A e \in Corner : s.neighbor[f][e] = None, Sound(s)
  PROVE  /\ Sound(u)
         /\ EdgesRight(s) => EdgesRight(u)
         /\ (\A g \in Facets(s) : ~ IsDegenerate(s.facet_start[g]))
            => \A g \in Facets(u) : ~ IsDegenerate(u.facet_start[g])
<1> DEFINE last   == s.number_of_facets - 1
           was(g) == Was(s, f, g)
           now(h) == Now(s, f, h)
<1>1. /\ u \in StlFiles /\ u.connected_facets = s.connected_facets
      /\ \A g \in Facets(u) :
           /\ u.facet_start[g] = s.facet_start[was(g)]
           /\ \A d \in Corner :
                /\ u.neighbor[g][d] = now(s.neighbor[was(g)][d])
                /\ u.which_vertex_not[g][d] = s.which_vertex_not[was(g)][d]
  BY DEF Renamed
<1>2. /\ last \in Slot /\ last \in Nat /\ f \in 0 .. last
      /\ Facets(s) = 0 .. last /\ Facets(u) = 0 .. last - 1
      /\ Facets(s) \subseteq Slot /\ None \notin Slot
  <2>1. Facets(s) = 0 .. last /\ last \in Int /\ Facets(u) = 0 .. last - 1
    BY DEF Facets, StlFiles, Renamed
  <2>2. last \in Facets(s)
    BY <2>1
  <2>3. QED
    BY <2>1, <2>2, FacetsAreSlots, MaxFacetsAssumption DEF Slot, None
<1>3. /\ \A g \in Facets(u) : was(g) \in Facets(s) /\ was(g) # f /\ now(was(g)) = g
      /\ \A h \in Facets(s) : h # f => now(h) \in Facets(u) /\ was(now(h)) = h
      /\ now(None) = None
  BY <1>2 DEF Was, Now
<1> HIDE DEF last, was, now
<1>4. ASSUME NEW g \in Facets(u), NEW d \in Corner
      PROVE  LET h == s.neighbor[was(g)][d]
                 b == Next3(s.which_vertex_not[was(g)][d])
             IN  h # None => /\ h \in Facets(s) /\ h # f /\ h # was(g)
                             /\ b \in Corner
                             /\ s.neighbor[h][b] = was(g)
                             /\ Next3(s.which_vertex_not[h][b]) = d
                             /\ (s.which_vertex_not[h][b] < 3)
                                = (s.which_vertex_not[was(g)][d] < 3)
  <2>1. was(g) \in Facets(s) /\ was(g) \in Slot /\ was(g) # None
    BY <1>2, <1>3
  <2>2. LinkedBack(s, was(g), d)
    BY <2>1 DEF Sound, Mutual
  <2>3. Next3(s.which_vertex_not[was(g)][d]) \in Corner
    BY SMTT(20), <2>1, CornerArithmetic DEF StlFiles
  <2>4. QED
    BY <2>1, <2>2, <2>3 DEF LinkedBack
<1>5. Mutual(u)
  <2> SUFFICES ASSUME NEW g \in Facets(u), NEW d \in Corner, u.neighbor[g][d] # None
               PROVE  LinkedBack(u, g, d)
    BY DEF Mutual, LinkedBack
  <2> DEFINE h == s.neighbor[was(g)][d]
             b == Next3(s.which_vertex_not[was(g)][d])
  <2>1. h # None
    BY <1>1, <1>3
  <2>2. /\ h \in Facets(s) /\ h # f /\ h # was(g) /\ b \in Corner
        /\ s.neighbor[h][b] = was(g)
        /\ Next3(s.which_vertex_not[h][b]) = d
        /\ (s.which_vertex_not[h][b] < 3) = (s.which_vertex_not[was(g)][d] < 3)
    BY <1>4, <2>1
  <2>3. /\ u.neighbor[g][d] = now(h)
        /\ u.which_vertex_not[g][d] = s.which_vertex_not[was(g)][d]
    BY <1>1
  <2>4. now(h) \in Facets(u) /\ was(now(h)) = h /\ now(was(g)) = g
    BY <1>3, <2>2
  <2>5. u.neighbor[now(h)][b] = g
        /\ u.which_vertex_not[now(h)][b] = s.which_vertex_not[h][b]
    BY <1>1, <2>2, <2>4
  <2>6. now(h) # g
    BY <2>2, <2>4
  <2>7. QED
    BY <2>2, <2>3, <2>4, <2>5, <2>6 DEF LinkedBack
<1>6. \A g \in Facets(u) : Unconnected(u, g) = Unconnected(s, was(g))
  <2> SUFFICES ASSUME NEW g \in Facets(u) PROVE Unconnected(u, g) = Unconnected(s, was(g))
    OBVIOUS
  <2>1. \A d \in Corner : u.neighbor[g][d] = None <=> s.neighbor[was(g)][d] = None
    BY <1>1, <1>2, <1>3, <1>4
  <2>2. QED
    BY <2>1 DEF Unconnected, Corner
<1>7. CountersAgree(u)
  <2> SUFFICES ASSUME NEW k \in 1 .. 3
               PROVE  u.connected_facets[k] =
                        Cardinality({g \in Facets(u) : 3 - Unconnected(u, g) >= k})
    BY DEF CountersAgree
  <2> DEFINE S == {g \in Facets(s) : 3 - Unconnected(s, g) >= k}
             T == {g \in Facets(u) : 3 - Unconnected(u, g) >= k}
  <2>1. f \notin S
    <3>1. Unconnected(s, f) = 3
      BY UnconnectedType
    <3>2. QED
      BY <3>1
  <2>2. T = IF last \in S THEN (S \ {last}) \cup {f} ELSE S
    BY <1>2, <1>6, <2>1 DEF was, last, Was
  <2>3. IsFiniteSet(S)
    BY FacetsFinite
  <2> HIDE DEF S, T
  <2>4. Cardinality(T) = Cardinality(S)
    BY <2>1, <2>2, <2>3, ReplaceElement
  <2>5. s.connected_facets[k] = Cardinality(S)
    BY DEF S, Sound, CountersAgree
  <2>6. QED
    BY <1>1, <2>4, <2>5 DEF T
<1>8. ASSUME EdgesRight(s) PROVE EdgesRight(u)
  <2> SUFFICES ASSUME NEW g \in Facets(u), NEW d \in Corner
               PROVE  EdgeMatches(u, g, d)
    BY DEF EdgesRight
  <2> DEFINE h == s.neighbor[was(g)][d]
  <2>1. EdgeMatches(s, was(g), d)
    BY <1>3, <1>8 DEF EdgesRight
  <2>2. CASE h = None
    BY <1>1, <1>3, <2>2 DEF EdgeMatches
  <2>3. CASE h # None
    <3>1. now(h) \in Facets(u) /\ was(now(h)) = h
      BY <1>3, <1>4, <2>3
    <3>2. /\ u.neighbor[g][d] = now(h)
          /\ u.which_vertex_not[g][d] = s.which_vertex_not[was(g)][d]
          /\ u.facet_start[g] = s.facet_start[was(g)]
          /\ u.facet_start[now(h)] = s.facet_start[h]
      BY <1>1, <3>1
    <3>3. QED
      BY <2>1, <2>3, <3>2 DEF EdgeMatches
  <2>4. QED
    BY <2>2, <2>3
<1>9. QED
  BY <1>1, <1>3, <1>5, <1>7, <1>8 DEF Sound

(****************************************************************************)
(* Reversing a facet.                                                       *)
(****************************************************************************)
(* Edges 1 and 2 of a reversed facet change places, corners 0 and 1 do.     *)
SwapEdge(e) == IF e = 0 THEN 0 ELSE 3 - e
SwapCorner(c) == IF c = 2 THEN 2 ELSE 1 - c

(* A link to edge e of the reversed facet, opposite vnot, after the shift.  *)
Shifted(vnot) == Rotate(vnot, Shift(Next3(vnot)))

(* The arithmetic of stl_reverse_facet on which_vertex_not: a shift takes   *)
(* the link to the edge that now has the number of the old one's, between   *)
(* the same two corners, and turns its orientation; so does half a turn on  *)
(* the other side, which leaves the edge.                                   *)
LEMMA ReversalArithmetic ==
  /\ \A w \in 0 .. 5 :
       /\ Shifted(w) \in 0 .. 5
       /\ Next3(Shifted(w)) = SwapEdge(Next3(w))
       /\ (Shifted(w) < 3) <=> ~ (w < 3)
       /\ SwapCorner(Prev3(Shifted(w))) = Next3(w)
       /\ SwapCorner(Next3(Shifted(w))) = Prev3(w)
       /\ Rotate(w, 3) \in 0 .. 5
       /\ Next3(Rotate(w, 3)) = Next3(w)
       /\ Prev3(Rotate(w, 3)) = Prev3(w)
       /\ (Rotate(w, 3) < 3) <=> ~ (w < 3)
  /\ \A e \in Corner : /\ SwapEdge(e) \in Corner /\ SwapEdge(SwapEdge(e)) = e
                       /\ SwapCorner(e) = Next3(SwapEdge(e))
                       /\ SwapCorner(Next3(e)) = SwapEdge(e)
                       /\ SwapCorner(e) \in Corner
  /\ \A e, d \in Corner : SwapEdge(e) = SwapEdge(d) => e = d
<1>1. \A w \in 0 .. 5 :
        /\ w = 0 => Next3(w) = 1 /\ Prev3(w) = 2 /\ Rotate(w, 3) = 3 /\ Shifted(w) = 4
        /\ w = 1 => Next3(w) = 2 /\ Prev3(w) = 0 /\ Rotate(w, 3) = 4 /\ Shifted(w) = 3
        /\ w = 2 => Next3(w) = 0 /\ Prev3(w) = 1 /\ Rotate(w, 3) = 5 /\ Shifted(w) = 5
        /\ w = 3 => Next3(w) = 1 /\ Prev3(w) = 2 /\ Rotate(w, 3) = 0 /\ Shifted(w) = 1
        /\ w = 4 => Next3(w) = 2 /\ Prev3(w) = 0 /\ Rotate(w, 3) = 1 /\ Shifted(w) = 0
        /\ w = 5 => Next3(w) = 0 /\ Prev3(w) = 1 /\ Rotate(w, 3) = 2 /\ Shifted(w) = 2
  BY DEF Next3, Prev3, Rotate, Shifted, Shift
<1>2. \A w \in 0 .. 5 : w \in {0, 1, 2, 3, 4, 5}
  OBVIOUS
<1>3. /\ Next3(0) = 1 /\ Next3(1) = 2 /\ Next3(2) = 0
      /\ Next3(3) = 1 /\ Next3(4) = 2 /\ Next3(5) = 0
      /\ Prev3(0) = 2 /\ Prev3(1) = 0 /\ Prev3(2) = 1
      /\ Prev3(3) = 2 /\ Prev3(4) = 0 /\ Prev3(5) = 1
  BY DEF Next3, Prev3
<1>4. \A e \in Corner : e \in {0, 1, 2}
  BY DEF Corner
<1>5. ASSUME NEW w \in 0 .. 5
      PROVE  /\ Shifted(w) \in 0 .. 5
             /\ Next3(Shifted(w)) = SwapEdge(Next3(w))
             /\ (Shifted(w) < 3) <=> ~ (w < 3)
             /\ SwapCorner(Prev3(Shifted(w))) = Next3(w)
             /\ SwapCorner(Next3(Shifted(w))) = Prev3(w)
             /\ Rotate(w, 3) \in 0 .. 5
             /\ Next3(Rotate(w, 3)) = Next3(w)
             /\ Prev3(Rotate(w, 3)) = Prev3(w)
             /\ (Rotate(w, 3) < 3) <=> ~ (w < 3)
  BY <1>1, <1>2, <1>3 DEF SwapEdge, SwapCorner
<1>6. \A e \in Corner : /\ SwapEdge(e) \in Corner /\ SwapEdge(SwapEdge(e)) = e
                       /\ SwapCorner(e) = Next3(SwapEdge(e))
                       /\ SwapCorner(Next3(e)) = SwapEdge(e)
                       /\ SwapCorner(e) \in Corner
  BY <1>3, <1>4 DEF SwapEdge, SwapCorner, Corner
<1>7. \A e, d \in Corner : SwapEdge(e) = SwapEdge(d) => e = d
  BY <1>4 DEF SwapEdge
<1>8. QED
  BY <1>5, <1>6, <1>7

(* t is s with the link of facet g opposite vnot shifted, if there is g.    *)
Adjusted(s, g, vnot, e, t) ==
  /\ t \in StlFiles
  /\ t.number_of_facets = s.number_of_facets
  /\ t.connected_facets = s.connected_facets
  /\ t.facet_start = s.facet_start
  /\ t.neighbor = s.neighbor
  /\ \A h \in Slot, d \in Corner :
       t.which_vertex_not[h][d] =
         IF h = g /\ d = Next3(vnot) THEN Rotate(s.which_vertex_not[h][d], Shift(e))
         ELSE s.which_vertex_not[h][d]

(* A neighbour of the reversed facet adjusts its link and no other.         *)
LEMMA AdjustAdjusted ==
  ASSUME NEW s \in StlFiles, NEW g \in Slot \cup {None}, NEW vnot \in 0 .. 5, NEW e \in Corner
  PROVE  Adjusted(s, g, vnot, e, Adjust(s, g, vnot, e))
<1>1. CASE g = None
  BY <1>1, MaxFacetsAssumption DEF Adjust, Adjusted, None, Slot
<1>2. CASE g # None
  <2> DEFINE v == s.which_vertex_not
             k == Next3(vnot)
             t == Adjust(s, g, vnot, e)
  <2>1. g \in Slot /\ k \in Corner /\ v \in [Slot -> [Corner -> 0 .. 5]]
    BY <1>2, CornerArithmetic DEF StlFiles
  <2>2. PICK w \in [Slot -> [Corner -> 0 .. 5]] : t = WithVertexNot(s, w)
    BY AdjustFields
  <2>3. /\ t \in StlFiles
        /\ t.number_of_facets = s.number_of_facets /\ t.connected_facets = s.connected_facets
        /\ t.facet_start = s.facet_start /\ t.neighbor = s.neighbor
    BY <2>2 DEF WithVertexNot, StlFiles
  <2>4. t.which_vertex_not = [v EXCEPT ![g][k] = Rotate(v[g][k], Shift(e))]
    BY <1>2 DEF Adjust, StlFiles
  <2> HIDE DEF v, k, t
  <2>5. \A h \in Slot, d \in Corner :
          t.which_vertex_not[h][d] =
            IF h = g /\ d = k THEN Rotate(v[h][d], Shift(e)) ELSE v[h][d]
    BY <2>1, <2>4
  <2>6. QED
    BY <2>3, <2>5 DEF Adjusted, v, k, t
<1>3. QED
  BY <1>1, <1>2

(* t is s with facet f reversed.                                            *)
Reversed(s, f, t) ==
  /\ t \in StlFiles
  /\ t.number_of_facets = s.number_of_facets
  /\ t.connected_facets = s.connected_facets
  /\ \A c \in Corner : t.facet_start[f][c] = s.facet_start[f][SwapCorner(c)]
  /\ \A e \in Corner :
       /\ t.neighbor[f][e] = s.neighbor[f][SwapEdge(e)]
       /\ t.which_vertex_not[f][e] = Rotate(s.which_vertex_not[f][SwapEdge(e)], 3)
  /\ \A g \in Facets(s) \ {f} :
       /\ t.facet_start[g] = s.facet_start[g]
       /\ \A d \in Corner :
            /\ t.neighbor[g][d] = s.neighbor[g][d]
            /\ t.which_vertex_not[g][d] =
                 IF s.neighbor[g][d] = f THEN Shifted(s.which_vertex_not[g][d])
                 ELSE s.which_vertex_not[g][d]

(* stl_reverse_facet of a facet whose neighbours link back: the corners,    *)
(* the links and what its neighbours know of it.                            *)
LEMMA ReverseFacetReversed ==
  ASSUME NEW s \in StlFiles, NEW f \in Facets(s), Mutual(s)
  PROVE  Reversed(s, f, ReverseFacet(s, f))
<1> DEFINE n    == s.neighbor[f]
           v    == s.which_vertex_not[f]
           t0   == Adjust(s, n[0], v[0], 0)
           t1   == Adjust(t0, n[1], v[1], 1)
           t2   == Adjust(t1, n[2], v[2], 2)
           u    == SwapEdges(t2, f, n, v)
<1>1. ReverseFacet(s, f) = u
  BY DEF ReverseFacet
<1>2. /\ f \in Slot /\ Facets(s) \subseteq Slot
      /\ 0 \in Corner /\ 1 \in Corner /\ 2 \in Corner
      /\ \A e \in Corner : e \in {0, 1, 2}
  BY FacetsAreSlots DEF Corner
<1>3. \A e \in Corner : /\ n[e] \in Slot \cup {None} /\ v[e] \in 0 .. 5
                        /\ Next3(v[e]) \in Corner
  BY <1>2, CornerArithmetic DEF StlFiles
<1>4. \A e \in Corner : n[e] # None =>
        /\ n[e] \in Facets(s) /\ n[e] # f
        /\ s.neighbor[n[e]][Next3(v[e])] = f
        /\ Next3(s.which_vertex_not[n[e]][Next3(v[e])]) = e
  BY DEF Mutual, LinkedBack
<1>5. None \notin Slot
  BY MaxFacetsAssumption DEF Slot, None
<1> HIDE DEF n, v
<1>6. t0 \in StlFiles /\ Adjusted(s, n[0], v[0], 0, t0)
  <2>1. Adjusted(s, n[0], v[0], 0, t0)
    BY <1>2, <1>3, AdjustAdjusted
  <2>2. QED
    BY <2>1 DEF Adjusted
<1> HIDE DEF t0
<1>7. t1 \in StlFiles /\ Adjusted(t0, n[1], v[1], 1, t1)
  <2>1. Adjusted(t0, n[1], v[1], 1, t1)
    BY <1>2, <1>3, <1>6, AdjustAdjusted
  <2>2. QED
    BY <2>1 DEF Adjusted
<1> HIDE DEF t1
<1>8. t2 \in StlFiles /\ Adjusted(t1, n[2], v[2], 2, t2)
  <2>1. Adjusted(t1, n[2], v[2], 2, t2)
    BY <1>2, <1>3, <1>7, AdjustAdjusted
  <2>2. QED
    BY <2>1 DEF Adjusted
<1> HIDE DEF t2
<1>9. /\ t2.number_of_facets = s.number_of_facets
      /\ t2.connected_facets = s.connected_facets
      /\ t2.facet_start = s.facet_start
      /\ t2.neighbor = s.neighbor
  BY <1>6, <1>7, <1>8 DEF Adjusted
<1>10. \A h \in Slot, d \in Corner :
        /\ t0.which_vertex_not[h][d] =
             IF h = n[0] /\ d = Next3(v[0]) THEN Rotate(s.which_vertex_not[h][d], Shift(0))
             ELSE s.which_vertex_not[h][d]
        /\ t1.which_vertex_not[h][d] =
             IF h = n[1] /\ d = Next3(v[1]) THEN Rotate(t0.which_vertex_not[h][d], Shift(1))
             ELSE t0.which_vertex_not[h][d]
        /\ t2.which_vertex_not[h][d] =
             IF h = n[2] /\ d = Next3(v[2]) THEN Rotate(t1.which_vertex_not[h][d], Shift(2))
             ELSE t1.which_vertex_not[h][d]
  BY <1>6, <1>7, <1>8 DEF Adjusted
<1>11. ASSUME NEW h \in Slot, NEW d \in Corner, ~ \E e \in Corner : h = n[e] /\ d = Next3(v[e])
       PROVE  t2.which_vertex_not[h][d] = s.which_vertex_not[h][d]
  BY <1>2, <1>10, <1>11
<1>12. ASSUME NEW h \in Slot, NEW d \in Corner, NEW e \in Corner, h = n[e], d = Next3(v[e])
       PROVE  t2.which_vertex_not[h][d] = Rotate(s.which_vertex_not[h][d], Shift(e))
  <2>1. n[e] # None
    BY <1>5, <1>12
  <2>2. \A k \in Corner : k # e => ~ (h = n[k] /\ d = Next3(v[k]))
    BY <1>4, <1>12, <2>1
  <2>3. CASE e = 0
    BY <1>2, <1>10, <1>12, <2>2, <2>3
  <2>4. CASE e = 1
    BY <1>2, <1>10, <1>12, <2>2, <2>4
  <2>5. CASE e = 2
    BY <1>2, <1>10, <1>12, <2>2, <2>5
  <2>6. QED
    BY <1>2, <2>3, <2>4, <2>5
<1>13. /\ u \in StlFiles
       /\ u.number_of_facets = s.number_of_facets
       /\ u.connected_facets = s.connected_facets
       /\ u.facet_start = [s.facet_start EXCEPT ![f] = SwapCorners(s.facet_start[f])]
       /\ u.neighbor = [s.neighbor EXCEPT ![f] = [n EXCEPT ![1] = n[2], ![2] = n[1]]]
  BY <1>1, <1>2, ReverseFacetFields DEF n
<1>14. u.which_vertex_not = [t2.which_vertex_not EXCEPT
          ![f] = [t2.which_vertex_not[f] EXCEPT ![0] = Rotate(t2.which_vertex_not[f][0], 3),
                                                ![1] = Rotate(v[2], 3),
                                                ![2] = Rotate(v[1], 3)]]
  BY <1>8 DEF SwapEdges, StlFiles
<1> HIDE DEF u
<1>15. \A c \in Corner : u.facet_start[f][c] = s.facet_start[f][SwapCorner(c)]
  <2>1. u.facet_start[f] = [s.facet_start[f] EXCEPT ![0] = s.facet_start[f][1],
                                                     ![1] = s.facet_start[f][0]]
    BY <1>2, <1>13 DEF SwapCorners, StlFiles
  <2>2. DOMAIN s.facet_start[f] = Corner
    BY <1>2 DEF StlFiles, Facet
  <2>3. QED
    BY <1>2, <2>1, <2>2 DEF SwapCorner
<1>16. \A e \in Corner : u.neighbor[f][e] = n[SwapEdge(e)]
  <2>1. u.neighbor[f] = [n EXCEPT ![1] = n[2], ![2] = n[1]] /\ DOMAIN n = Corner
    BY <1>2, <1>13 DEF n, StlFiles
  <2>2. QED
    BY <1>2, <2>1 DEF SwapEdge
<1>17. \A e \in Corner : u.which_vertex_not[f][e] = Rotate(v[SwapEdge(e)], 3)
  <2>1. t2.which_vertex_not[f][0] = v[0]
    <3>1. ~ \E e \in Corner : f = n[e] /\ 0 = Next3(v[e])
      BY <1>2, <1>4, <1>5
    <3>2. QED
      BY <1>2, <1>11, <3>1 DEF v
  <2>2. /\ f \in DOMAIN t2.which_vertex_not
        /\ DOMAIN t2.which_vertex_not[f] = Corner
    BY <1>2, <1>8 DEF StlFiles
  <2>3. u.which_vertex_not[f] =
          [t2.which_vertex_not[f] EXCEPT ![0] = Rotate(v[0], 3),
                                         ![1] = Rotate(v[2], 3), ![2] = Rotate(v[1], 3)]
    BY <1>14, <2>1, <2>2
  <2>4. QED
    BY <1>2, <2>2, <2>3 DEF SwapEdge
<1>18. ASSUME NEW g \in Facets(s) \ {f}, NEW d \in Corner
       PROVE  /\ u.facet_start[g] = s.facet_start[g]
              /\ u.neighbor[g][d] = s.neighbor[g][d]
              /\ u.which_vertex_not[g][d] = t2.which_vertex_not[g][d]
  <2>1. g \in Slot /\ g # f
    BY <1>2
  <2>2. u.facet_start[g] = s.facet_start[g] /\ u.neighbor[g] = s.neighbor[g]
    BY <1>13, <2>1 DEF StlFiles
  <2>3. u.which_vertex_not[g] = t2.which_vertex_not[g]
    BY <1>8, <1>14, <2>1 DEF StlFiles
  <2>4. QED
    BY <2>2, <2>3
<1>19. ASSUME NEW g \in Facets(s) \ {f}, NEW d \in Corner
       PROVE  t2.which_vertex_not[g][d] =
                IF s.neighbor[g][d] = f THEN Shifted(s.which_vertex_not[g][d])
                ELSE s.which_vertex_not[g][d]
  <2> DEFINE e == Next3(s.which_vertex_not[g][d])
  <2>1. g \in Slot /\ e \in Corner
    BY SMTT(20), <1>2, CornerArithmetic DEF StlFiles
  <2>2. CASE s.neighbor[g][d] = f
    <3>1. n[e] = g /\ Next3(v[e]) = d
      BY <1>2, <1>5, <2>2 DEF Mutual, LinkedBack, n, v
    <3>2. t2.which_vertex_not[g][d] = Rotate(s.which_vertex_not[g][d], Shift(e))
      BY <1>12, <2>1, <3>1
    <3>3. QED
      BY <2>2, <3>2 DEF Shifted
  <2>3. CASE s.neighbor[g][d] # f
    <3>1. ~ \E k \in Corner : g = n[k] /\ d = Next3(v[k])
      BY <1>4, <1>5, <2>1, <2>3
    <3>2. QED
      BY <1>11, <2>1, <2>3, <3>1
  <2>4. QED
    BY <2>2, <2>3
<1>20. QED
  BY <1>1, <1>13, <1>15, <1>16, <1>17, <1>18, <1>19 DEF Reversed, n, v

(* A facet is reversed: its neighbours still link back, across the edges    *)
(* that have changed places, and no facet has more or fewer neighbours.     *)
LEMMA ReversedSound ==
  ASSUME NEW s \in StlFiles, NEW f \in Facets(s), NEW t, Reversed(s, f, t), Sound(s)
  PROVE  /\ Sound(t)
         /\ EdgesRight(s) => EdgesRight(t)
<1> DEFINE n == s.neighbor[f]
           v == s.which_vertex_not[f]
<1>1. /\ t.number_of_facets = s.number_of_facets /\ t.connected_facets = s.connected_facets
      /\ Facets(t) = Facets(s) /\ f \in Slot /\ Facets(s) \subseteq Slot
  BY FacetsAreSlots DEF Reversed, Facets
<1>2. /\ \A c \in Corner : t.facet_start[f][c] = s.facet_start[f][SwapCorner(c)]
      /\ \A e \in Corner :
           /\ t.neighbor[f][e] = n[SwapEdge(e)]
           /\ t.which_vertex_not[f][e] = Rotate(v[SwapEdge(e)], 3)
  BY DEF Reversed
<1>3. \A g \in Facets(s) \ {f} :
       /\ t.facet_start[g] = s.facet_start[g]
       /\ \A d \in Corner :
            /\ t.neighbor[g][d] = s.neighbor[g][d]
            /\ t.which_vertex_not[g][d] =
                 IF s.neighbor[g][d] = f THEN Shifted(s.which_vertex_not[g][d])
                 ELSE s.which_vertex_not[g][d]
  BY DEF Reversed
<1>4. \A g \in Facets(s), d \in Corner :
        /\ s.which_vertex_not[g][d] \in 0 .. 5
        /\ Next3(s.which_vertex_not[g][d]) \in Corner
        /\ Prev3(s.which_vertex_not[g][d]) \in Corner
  BY <1>1, CornerArithmetic DEF StlFiles
<1>5. \A g \in Facets(s), d \in Corner : LinkedBack(s, g, d)
  BY DEF Sound, Mutual
<1>6. f # None
  BY <1>1, MaxFacetsAssumption DEF Slot, None
<1>7. Mutual(t)
  <2>1. ASSUME NEW e \in Corner PROVE LinkedBack(t, f, e)
    <3> DEFINE k == SwapEdge(e)
               g == n[k]
               b == Next3(v[k])
    <3>1. k \in Corner /\ SwapEdge(k) = e
      BY ReversalArithmetic
    <3>2. /\ t.neighbor[f][e] = g /\ t.which_vertex_not[f][e] = Rotate(v[k], 3)
          /\ Next3(Rotate(v[k], 3)) = b /\ ((Rotate(v[k], 3) < 3) <=> ~ (v[k] < 3))
          /\ b \in Corner /\ v[k] \in 0 .. 5
      BY <1>2, <1>4, <3>1, ReversalArithmetic
    <3>3. CASE g = None
      BY <3>2, <3>3 DEF LinkedBack
    <3>4. CASE g # None
      <4> DEFINE w == s.which_vertex_not[g][b]
      <4>1. /\ g \in Facets(s) \ {f} /\ s.neighbor[g][b] = f
            /\ Next3(w) = k /\ ((w < 3) <=> (v[k] < 3))
        BY <1>5, <3>1, <3>4 DEF LinkedBack
      <4>2. w \in 0 .. 5
        BY <1>4, <3>2, <4>1
      <4>3. /\ t.neighbor[g][b] = f /\ t.which_vertex_not[g][b] = Shifted(w)
        BY <1>3, <3>2, <4>1
      <4>4. Next3(Shifted(w)) = e /\ ((Shifted(w) < 3) <=> ~ (w < 3))
        BY <3>1, <4>1, <4>2, ReversalArithmetic
      <4> HIDE DEF g, b, w, k, v
      <4>5. QED
        BY <1>1, <3>2, <3>4, <4>1, <4>3, <4>4 DEF LinkedBack
    <3>5. QED
      BY <3>3, <3>4
  <2>2. ASSUME NEW g \in Facets(s) \ {f}, NEW d \in Corner PROVE LinkedBack(t, g, d)
    <3> DEFINE h == s.neighbor[g][d]
               w == s.which_vertex_not[g][d]
               b == Next3(w)
    <3>1. LinkedBack(s, g, d) /\ w \in 0 .. 5 /\ b \in Corner
      BY <1>4, <1>5
    <3>2. t.neighbor[g][d] = h
      BY <1>3
    <3>3. CASE h = None
      BY <3>2, <3>3 DEF LinkedBack
    <3>4. CASE h = f
      <4> DEFINE k == SwapEdge(b)
      <4>1. /\ n[b] = g /\ Next3(v[b]) = d /\ ((v[b] < 3) <=> (w < 3))
        BY <1>6, <3>1, <3>4 DEF LinkedBack
      <4>2. /\ t.which_vertex_not[g][d] = Shifted(w)
            /\ Next3(Shifted(w)) = k /\ ((Shifted(w) < 3) <=> ~ (w < 3))
        BY <1>3, <3>1, <3>4, ReversalArithmetic
      <4>3. k \in Corner /\ SwapEdge(k) = b /\ v[b] \in 0 .. 5
        BY <1>4, <3>1, ReversalArithmetic
      <4>4. /\ t.neighbor[f][k] = g /\ t.which_vertex_not[f][k] = Rotate(v[b], 3)
        BY <1>2, <4>1, <4>3
      <4>5. Next3(Rotate(v[b], 3)) = d /\ ((Rotate(v[b], 3) < 3) <=> ~ (v[b] < 3))
        BY <4>1, <4>3, ReversalArithmetic
      <4> HIDE DEF h, w, b, k, n, v
      <4>6. QED
        BY <1>1, <3>2, <3>4, <4>1, <4>2, <4>4, <4>5 DEF LinkedBack
    <3>5. CASE h # None /\ h # f
      <4>1. /\ h \in Facets(s) \ {f} /\ h # g /\ s.neighbor[h][b] = g
            /\ Next3(s.which_vertex_not[h][b]) = d
            /\ ((s.which_vertex_not[h][b] < 3) <=> (w < 3))
        BY <3>1, <3>5 DEF LinkedBack
      <4>2. /\ t.which_vertex_not[g][d] = w
            /\ t.neighbor[h][b] = g /\ t.which_vertex_not[h][b] = s.which_vertex_not[h][b]
        BY <1>3, <3>1, <3>5, <4>1
      <4> HIDE DEF h, w
      <4>3. QED
        BY <1>1, <3>2, <3>5, <4>1, <4>2 DEF LinkedBack
    <3>6. QED
      BY <3>3, <3>4, <3>5
  <2>3. QED
    BY <1>1, <2>1, <2>2 DEF Mutual
<1>8. CountersAgree(t)
  <2>1. \A g \in Facets(s) : Unconnected(t, g) = Unconnected(s, g)
    <3> SUFFICES ASSUME NEW g \in Facets(s) PROVE Unconnected(t, g) = Unconnected(s, g)
      OBVIOUS
    <3>1. 0 \in Corner /\ 1 \in Corner /\ 2 \in Corner
      BY DEF Corner
    <3>2. CASE g = f
      <4>1. t.neighbor[f][0] = n[0] /\ t.neighbor[f][1] = n[2] /\ t.neighbor[f][2] = n[1]
        BY <1>2, <3>1 DEF SwapEdge
      <4>2. QED
        BY <3>2, <4>1 DEF Unconnected
    <3>3. CASE g # f
      <4>1. /\ t.neighbor[g][0] = s.neighbor[g][0] /\ t.neighbor[g][1] = s.neighbor[g][1]
            /\ t.neighbor[g][2] = s.neighbor[g][2]
        BY <1>3, <3>1, <3>3
      <4>2. QED
        BY <4>1 DEF Unconnected
    <3>4. QED
      BY <3>2, <3>3
  <2>2. \A k \in 1 .. 3 : {g \in Facets(t) : 3 - Unconnected(t, g) >= k}
                          = {g \in Facets(s) : 3 - Unconnected(s, g) >= k}
    BY <1>1, <2>1
  <2>3. QED
    BY <1>1, <2>2 DEF CountersAgree, Sound
<1>9. ASSUME EdgesRight(s) PROVE EdgesRight(t)
  <2>1. ASSUME NEW e \in Corner PROVE EdgeMatches(t, f, e)
    <3> DEFINE k == SwapEdge(e)
               g == n[k]
               w == v[k]
    <3>1. k \in Corner /\ SwapCorner(e) = Next3(k) /\ SwapCorner(Next3(e)) = k
          /\ Next3(e) \in Corner
      BY ReversalArithmetic, CornerArithmetic
    <3>2. /\ t.neighbor[f][e] = g /\ t.which_vertex_not[f][e] = Rotate(w, 3)
          /\ Next3(Rotate(w, 3)) = Next3(w) /\ Prev3(Rotate(w, 3)) = Prev3(w)
          /\ ((Rotate(w, 3) < 3) <=> ~ (w < 3))
          /\ t.facet_start[f][e] = s.facet_start[f][Next3(k)]
          /\ t.facet_start[f][Next3(e)] = s.facet_start[f][k]
      <4>1. w \in 0 .. 5
        BY <1>4, <3>1
      <4>2. t.neighbor[f][e] = g /\ t.which_vertex_not[f][e] = Rotate(w, 3)
        BY <1>2
      <4>3. /\ t.facet_start[f][e] = s.facet_start[f][Next3(k)]
            /\ t.facet_start[f][Next3(e)] = s.facet_start[f][k]
        BY <1>2, <3>1
      <4> HIDE DEF w
      <4>4. /\ Next3(Rotate(w, 3)) = Next3(w) /\ Prev3(Rotate(w, 3)) = Prev3(w)
            /\ ((Rotate(w, 3) < 3) <=> ~ (w < 3))
        BY <4>1, ReversalArithmetic
      <4>5. QED
        BY <4>2, <4>3, <4>4
    <3>3. EdgeMatches(s, f, k)
      BY <1>9, <3>1 DEF EdgesRight
    <3>4. CASE g = None
      BY <3>2, <3>4 DEF EdgeMatches
    <3>5. CASE g # None
      <4>1. g \in Facets(s) \ {f}
        BY <1>5, <3>1, <3>5 DEF LinkedBack
      <4>2. t.facet_start[g] = s.facet_start[g]
        BY <1>3, <4>1
      <4>3. <<s.facet_start[f][k], s.facet_start[f][Next3(k)]>> =
              IF w < 3 THEN <<s.facet_start[g][Prev3(w)], s.facet_start[g][Next3(w)]>>
              ELSE <<s.facet_start[g][Next3(w)], s.facet_start[g][Prev3(w)]>>
        BY <3>3, <3>5 DEF EdgeMatches
      <4> HIDE DEF g, w, k
      <4>4. QED
        BY <3>2, <4>2, <4>3 DEF EdgeMatches
    <3>6. QED
      BY <3>4, <3>5
  <2>2. ASSUME NEW g \in Facets(s) \ {f}, NEW d \in Corner PROVE EdgeMatches(t, g, d)
    <3> DEFINE h == s.neighbor[g][d]
               w == s.which_vertex_not[g][d]
    <3>1. EdgeMatches(s, g, d) /\ LinkedBack(s, g, d) /\ w \in 0 .. 5
      BY <1>4, <1>5, <1>9 DEF EdgesRight
    <3>2. t.neighbor[g][d] = h /\ t.facet_start[g] = s.facet_start[g]
      BY <1>3
    <3>3. CASE h = None
      BY <3>2, <3>3 DEF EdgeMatches
    <3>4. CASE h = f
      <4>1. /\ t.which_vertex_not[g][d] = Shifted(w)
            /\ ((Shifted(w) < 3) <=> ~ (w < 3))
            /\ SwapCorner(Prev3(Shifted(w))) = Next3(w)
            /\ SwapCorner(Next3(Shifted(w))) = Prev3(w)
            /\ Shifted(w) \in 0 .. 5
        BY <1>3, <3>1, <3>4, ReversalArithmetic
      <4>2. Prev3(Shifted(w)) \in Corner /\ Next3(Shifted(w)) \in Corner
        BY <4>1, CornerArithmetic
      <4>3. /\ t.facet_start[f][Prev3(Shifted(w))] = s.facet_start[f][Next3(w)]
            /\ t.facet_start[f][Next3(Shifted(w))] = s.facet_start[f][Prev3(w)]
        BY <1>2, <4>1, <4>2
      <4>4. <<s.facet_start[g][d], s.facet_start[g][Next3(d)]>> =
              IF w < 3 THEN <<s.facet_start[f][Prev3(w)], s.facet_start[f][Next3(w)]>>
              ELSE <<s.facet_start[f][Next3(w)], s.facet_start[f][Prev3(w)]>>
        BY <1>6, <3>1, <3>4 DEF EdgeMatches
      <4> HIDE DEF h, w
      <4>5. QED
        BY <3>2, <3>4, <4>1, <4>3, <4>4 DEF EdgeMatches
    <3>5. CASE h # None /\ h # f
      <4>1. h \in Facets(s) \ {f}
        BY <3>1, <3>5 DEF LinkedBack
      <4>2. t.facet_start[h] = s.facet_start[h] /\ t.which_vertex_not[g][d] = w
        BY <1>3, <3>5, <4>1
      <4>3. QED
        BY <3>1, <3>2, <4>2 DEF EdgeMatches
    <3>6. QED
      BY <3>3, <3>4, <3>5
  <2>3. QED
    BY <1>1, <2>1, <2>2 DEF EdgesRight
<1>10. QED
  BY <1>7, <1>8, <1>9 DEF Sound

(****************************************************************************)
(* Inserting edges.                                                         *)
(****************************************************************************)
(* The pending edges are as they are in the mesh.                           *)
KeysRight(s) == \A p \in s.heads : IsEdgeOf(s, p)

(* What insertions of edges of the mesh make of s.                          *)
SoundlyInserted(s, u) ==
  /\ u.facet_start = s.facet_start
  /\ Sound(u)
  /\ KeysRight(s) => KeysRight(u)
  /\ KeysRight(s) /\ EdgesRight(s) => EdgesRight(u)

(* stl_record_neighbors leaves the table of pending edges alone: the match  *)
(* was taken out of it before.                                              *)
LEMMA RecordNeighborsHeads ==
  ASSUME NEW s \in StlFiles, NEW a \in Edge, NEW b \in Edge,
         a.facet_number # b.facet_number
  PROVE  RecordNeighbors(s, a, b).heads = s.heads
<1> HIDE DEF RecordNeighbors, StlFiles, Edge
<1>1. QED
  BY RecordNeighborsFields

(* insert_hash_edge with an edge of the mesh that is neither connected nor  *)
(* pending keeps the mesh sound.                                            *)
LEMMA InsertEdgeExactSound ==
  ASSUME NEW s \in StlFiles, s.shortest_edge \in Nat, Pending(s),
         NEW f \in Facets(s), NEW e \in Corner, FreeEdge(s, f, e), Sound(s)
  PROVE  SoundlyInserted(s, InsertEdgeExact(s, f, e, s.facet_start[f]))
<1> DEFINE t    == s.facet_start[f]
           edge == LoadEdgeExact(f, e, t[e], t[Next3(e)])
           u    == InsertEdgeExact(s, f, e, t)
<1>1. f \in Slot /\ t \in Facet
  BY FacetsAreSlots DEF StlFiles
<1> HIDE DEF t
<1>2. /\ edge \in Edge /\ edge.facet_number = f /\ edge.which_edge % 3 = e
      /\ \E r \in StlFiles :
           /\ SameButTable(s, r) /\ r.shortest_edge \in Nat
           /\ \/ /\ u = r
                 /\ r.heads = s.heads \cup {edge}
                 /\ Matches(s, edge) = {}
              \/ \E link \in s.heads :
                   /\ u = RecordNeighbors(r, edge, link)
                   /\ r.heads = s.heads \ {link}
                   /\ link \in Edge /\ link.key = edge.key /\ link.facet_number # f
  BY SMTT(20), <1>1, InsertEdgeExactResult
<1>3. IsEdgeOf(s, edge)
  BY <1>2 DEF IsEdgeOf, t
<1>4. u.facet_start = s.facet_start /\ u.number_of_facets = s.number_of_facets
  BY <1>1, InsertEdgeExactKeeps
<1> HIDE DEF edge, u
<1>5. \A p : IsEdgeOf(u, p) <=> IsEdgeOf(s, p)
  BY <1>4 DEF IsEdgeOf, Facets
<1>6. PICK r \in StlFiles :
           /\ SameButTable(s, r)
           /\ \/ u = r /\ r.heads = s.heads \cup {edge}
              \/ \E link \in s.heads :
                   /\ u = RecordNeighbors(r, edge, link)
                   /\ r.heads = s.heads \ {link}
                   /\ link \in Edge /\ link.key = edge.key /\ link.facet_number # f
  BY <1>2
<1>7. CASE u = r /\ r.heads = s.heads \cup {edge}
  <2>1. SameLinks(s, u)
    BY <1>6, <1>7 DEF SameButTable, SameLinks
  <2>2. Sound(u) /\ (EdgesRight(s) => EdgesRight(u))
    BY <1>4, <2>1, SameLinksSound
  <2>3. KeysRight(s) => KeysRight(u)
    BY <1>3, <1>5, <1>7 DEF KeysRight
  <2>4. QED
    BY <1>4, <2>2, <2>3 DEF SoundlyInserted, u, t
<1>8. CASE \E link \in s.heads :
                   /\ u = RecordNeighbors(r, edge, link)
                   /\ r.heads = s.heads \ {link}
                   /\ link \in Edge /\ link.key = edge.key /\ link.facet_number # f
  <2>1. PICK link \in s.heads :
                   /\ u = RecordNeighbors(r, edge, link)
                   /\ r.heads = s.heads \ {link}
                   /\ link \in Edge /\ link.key = edge.key /\ link.facet_number # f
    BY <1>8
  <2>2. /\ Sound(u)
        /\ EdgesRight(s) /\ IsEdgeOf(s, edge) /\ IsEdgeOf(s, link) /\ link.key = edge.key
           => EdgesRight(u)
    BY <1>2, <1>6, <2>1, MatchSound
  <2>3. u.heads = s.heads \ {link}
    <3>1. edge \in Edge /\ link \in Edge /\ edge.facet_number # link.facet_number
      BY <1>2, <2>1
    <3>2. RecordNeighbors(r, edge, link).heads = r.heads
      BY <3>1, RecordNeighborsHeads
    <3>3. QED
      BY <2>1, <3>2
  <2>4. KeysRight(s) => KeysRight(u)
    BY <1>5, <2>3 DEF KeysRight
  <2>5. KeysRight(s) /\ EdgesRight(s) => EdgesRight(u)
    BY <1>3, <2>1, <2>2 DEF KeysRight
  <2>6. QED
    BY <1>4, <2>2, <2>4, <2>5 DEF SoundlyInserted, u, t
<1>9. QED
  BY <1>6, <1>7, <1>8

(* The facet that closes a hole, and the matches of its edges, keep the     *)
(* mesh sound.                                                              *)
LEMMA CloseHoleSound ==
  ASSUME NEW s \in StlFiles, s.shortest_edge \in Nat, Pending(s), HasRoom(s), Sound(s),
         NEW t \in Facet
  PROVE  LET u == Fill!InsertFacetEdges(AddFacet(s, t), s.number_of_facets, t)
         IN  /\ Sound(u)
             /\ KeysRight(s) => KeysRight(u)
             /\ KeysRight(s) /\ EdgesRight(s) => EdgesRight(u)
<1> DEFINE f  == s.number_of_facets
           a  == AddFacet(s, t)
           s0 == InsertEdgeExact(a, f, 0, t)
           s1 == InsertEdgeExact(s0, f, 1, t)
           s2 == InsertEdgeExact(s1, f, 2, t)
<1>1. 0 \in Corner /\ 1 \in Corner /\ 2 \in Corner
  BY DEF Corner
<1>2. Fill!InsertFacetEdges(a, f, t) = s2
  BY FillOperators DEF Fill!InsertFacetEdges
<1>3. /\ a \in StlFiles /\ a.shortest_edge \in Nat /\ a.number_of_facets = f + 1
      /\ a.facet_start = [s.facet_start EXCEPT ![f] = t]
      /\ a.neighbor = [s.neighbor EXCEPT ![f] = [e \in Corner |-> None]]
      /\ a.heads = s.heads
      /\ f \in Slot
  BY AddFacetFields
<1>4. /\ f \in Facets(a) /\ f \notin Facets(s) /\ Facets(s) \subseteq Facets(a)
      /\ Facets(s) \subseteq Slot
  <2>1. f \in Nat
    BY <1>3, MaxFacetsAssumption DEF Slot
  <2>2. Facets(s) = 0 .. f - 1 /\ Facets(a) = 0 .. f
    BY <1>3, <2>1 DEF Facets
  <2> HIDE DEF a, f
  <2>3. QED
    BY <2>1, <2>2, FacetsAreSlots
<1>5. /\ Sound(a) /\ (EdgesRight(s) => EdgesRight(a))
      /\ (KeysRight(s) => KeysRight(a))
  <2>1. /\ Sound(a)
        /\ EdgesRight(s) => EdgesRight(a)
        /\ \A p \in s.heads : IsEdgeOf(s, p) => IsEdgeOf(a, p)
    BY AddFacetSound
  <2>2. QED
    BY <1>3, <2>1 DEF KeysRight
<1> HIDE DEF a
<1>6. a.facet_start[f] = t
  BY <1>3 DEF StlFiles
<1>7. Pending(a)
  <2>1. \A g \in Facets(s) : a.neighbor[g] = s.neighbor[g]
    BY <1>3, <1>4 DEF StlFiles
  <2>2. QED
    BY <1>3, <1>4, <2>1 DEF Pending
<1>8. \A e \in Corner : FreeEdge(a, f, e)
  <2>1. \A e \in Corner : a.neighbor[f][e] = None
    BY <1>3 DEF StlFiles
  <2>2. \A p \in a.heads : p.facet_number # f
    BY <1>3, <1>4 DEF Pending
  <2>3. QED
    BY <2>1, <2>2 DEF FreeEdge, IsPending
<1> HIDE DEF f
<1>9. Inserted(a, f, 0, s0) /\ s0.shortest_edge \in Nat /\ SoundlyInserted(a, s0)
  <2>1. Inserted(a, f, 0, s0) /\ s0.shortest_edge \in Nat
    BY <1>1, <1>3, <1>4, <1>7, <1>8, InsertEdgeExactInserted, InsertEdgeExactKeeps
  <2>2. SoundlyInserted(a, s0)
    BY <1>1, <1>3, <1>4, <1>5, <1>6, <1>7, <1>8, InsertEdgeExactSound
  <2>3. QED
    BY <2>1, <2>2
<1> HIDE DEF s0
<1>10. /\ f \in Facets(s0) /\ FreeEdge(s0, f, 1) /\ FreeEdge(s0, f, 2)
       /\ s0 \in StlFiles /\ Pending(s0) /\ Sound(s0) /\ s0.facet_start[f] = t
  BY <1>1, <1>4, <1>6, <1>8, <1>9 DEF Inserted, FreeEdge, IsPending, Facets, SoundlyInserted
<1>11. Inserted(s0, f, 1, s1) /\ s1.shortest_edge \in Nat /\ SoundlyInserted(s0, s1)
  <2>1. Inserted(s0, f, 1, s1) /\ s1.shortest_edge \in Nat
    BY <1>1, <1>3, <1>9, <1>10, InsertEdgeExactInserted, InsertEdgeExactKeeps
  <2>2. SoundlyInserted(s0, s1)
    BY <1>1, <1>9, <1>10, InsertEdgeExactSound
  <2>3. QED
    BY <2>1, <2>2
<1> HIDE DEF s1
<1>12. /\ f \in Facets(s1) /\ FreeEdge(s1, f, 2)
       /\ s1 \in StlFiles /\ Pending(s1) /\ Sound(s1) /\ s1.facet_start[f] = t
  BY <1>1, <1>10, <1>11 DEF Inserted, FreeEdge, IsPending, Facets, SoundlyInserted
<1>13. SoundlyInserted(s1, s2)
  BY <1>1, <1>11, <1>12, InsertEdgeExactSound
<1> HIDE DEF s2
<1>14. /\ Sound(s2)
       /\ KeysRight(a) => KeysRight(s2)
       /\ KeysRight(a) /\ EdgesRight(a) => EdgesRight(s2)
  BY <1>9, <1>11, <1>13 DEF SoundlyInserted
<1>15. QED
  BY <1>2, <1>5, <1>14 DEF a, f

-----------------------------------------------------------------------------
(****************************************************************************)
(* The invariant of the links.                                              *)
(****************************************************************************)
(* The exact check runs on a mesh that was read, from its first edge on.    *)
ExactInv ==
  /\ file \in Meshes
  /\ phase = "exact" /\ pc = "test" => i = 0 /\ j = 0
  /\ phase = "exact" /\ pc # "test" =>
       ExactCheck!IInv /\ ExactCheck!CountersExact /\ ExactCheck!AllLoaded

(* No facet of the mesh s is degenerate.                                    *)
Proper(s) == \A f \in Facets(s) : ~ IsDegenerate(s.facet_start[f])

(* After the exact check the links are sound.  Until the nearby check is    *)
(* called they are right, and no facet is degenerate before the holes are   *)
(* filled.                                                                  *)
MeshInv ==
  /\ phase # "exact" => Sound(stl)
  /\ phase # "exact" /\ iteration = 0 => EdgesRight(stl)
  /\ phase \in {"nearby", "remove_unconnected"} /\ iteration = 0 => Proper(stl)
  /\ phase = "nearby" /\ pc # "test" => iteration # 0

(* While the holes are filled the pending edges are as in the mesh.         *)
KeysInv ==
  phase = "fill_holes" /\ pc \notin {"test", "start"} => KeysRight(stl)

(* Only facets of the mesh are turned, unless it has none.                  *)
DirInv ==
  phase = "normal_directions" /\ pc \notin {"test", "start"} /\ stl.number_of_facets > 0 =>
    facet_num \in Facets(stl) /\ list \in Seq(Facets(stl))

(* The conjunction is inductive.                                            *)
LinkInv == Called("exact") /\ ExactInv /\ MeshInv /\ KeysInv /\ DirInv

(* stl_remove_unconnected_facets joins the neighbours of a degenerate       *)
(* facet.                                                                   *)
DegenerateJoined == phase = "remove_unconnected" /\ Remove!RemoveDegenerateFacet

(* What a step of a pass leaves of the mesh.                                *)
StaysSound ==
  /\ Sound(stl')
  /\ EdgesRight(stl) => EdgesRight(stl')

(* The exact check is called if anything but reversing is asked for, which  *)
(* no step changes.                                                         *)
LEMMA CalledExact == Called("exact") /\ [Next]_vars => Called("exact")'
<1> SUFFICES ASSUME [Next]_vars, Called("exact") PROVE Called("exact")'
  OBVIOUS
<1>1. options' = options
  BY DEF Next, Call, Pass, Skip, Return, Repaired, CheckExact, CheckNearby, RemoveUnconnected,
         FillHoles, FixDirections, ReverseAll, FixNormalValues, CalculateVolume,
         GenerateSharedVertices, callVars, vars
<1>2. QED
  BY <1>1 DEF Called

-----------------------------------------------------------------------------
(****************************************************************************)
(* The steps of the passes.                                                 *)
(****************************************************************************)
(* What is known before the first step of the exact check.                  *)
LEMMA ExactStarts ==
  (/\ ExactCheck!TypeOK
   /\ pc = "start" /\ i = 0 /\ j = 0)
  => ExactCheck!IInv /\ ExactCheck!CountersExact /\ ExactCheck!AllLoaded
<1>1. ExactCheck!TypeOK /\ pc = "start" /\ i = 0 /\ j = 0 => ExactCheck!IInv
  BY MeshesAssumption, ExactCheck!StartIInv
<1>2. pc = "start" => ExactCheck!CountersExact /\ ExactCheck!AllLoaded
  BY DEF ExactCheck!CountersExact, ExactCheck!AllLoaded, ExactCheck!Checked
<1>3. QED
  BY <1>1, <1>2

(* Each step of the exact check, as of the check alone.                     *)
LEMMA CheckExactLinks ==
  ASSUME ExactInv, CheckExact
  PROVE  ExactInv'
<1>1. /\ phase = "exact" /\ phase' = "exact"
      /\ ExactCheck!Initialize \/ ExactCheck!RemoveDegenerateFacet
         \/ ExactCheck!InsertEdge \/ ExactCheck!FreeEdges
  BY ExactSteps DEF CheckExact
<1>2. pc # "test" /\ pc' # "test" /\ file' = file
  BY <1>1 DEF ExactCheck!Initialize, ExactCheck!RemoveDegenerateFacet,
              ExactCheck!InsertEdge, ExactCheck!FreeEdges
<1>3. ExactCheck!IInv /\ ExactCheck!CountersExact /\ ExactCheck!AllLoaded /\ file \in Meshes
  BY <1>1, <1>2 DEF ExactInv
<1>4. ExactCheck!Next
  BY <1>1 DEF ExactCheck!Next
<1>5. ExactCheck!IInv'
  BY <1>3, <1>4, MeshesAssumption, ExactCheck!IInvStep
<1>6. ExactCheck!CountersExact'
  BY <1>3, <1>4, MeshesAssumption, ExactCheck!CountersStep
<1>7. ExactCheck!AllLoaded'
  BY <1>3, <1>4, MeshesAssumption, ExactCheck!AllLoadedStep
<1>8. QED
  BY <1>1, <1>2, <1>3, <1>5, <1>6, <1>7 DEF ExactInv

(* What the exact check has established when it returns.                    *)
LEMMA ExactDone ==
  ASSUME ExactInv, phase = "exact", pc = "done"
  PROVE  Sound(stl) /\ EdgesRight(stl) /\ Proper(stl)
<1>1. ExactCheck!IInv /\ ExactCheck!CountersExact /\ ExactCheck!AllLoaded
  BY DEF ExactInv
<1>2. Mutual(stl)
  BY <1>1, ExactCheckOperators DEF ExactCheck!IInv, ExactCheck!NeighborsMutual, ExactCheck!Checked
<1>3. CountersAgree(stl)
  BY <1>1, ExactCheckOperators DEF ExactCheck!CountersExact, ExactCheck!Checked
<1>4. EdgesRight(stl)
  BY <1>1, ExactCheckOperators DEF ExactCheck!IInv, ExactCheck!EdgesMatch, ExactCheck!Checked,
     EdgesRight
<1>5. Proper(stl)
  <2>1. \A f \in Facets(stl), e \in Corner : ExactCheck!Loaded(f, e)
    BY <1>1, ExactCheckOperators DEF ExactCheck!AllLoaded
  <2>2. \A f \in Facets(stl), e \in Corner :
          ExactCheck!Loaded(f, e) => ~ IsDegenerate(stl.facet_start[f])
    BY <1>1, ExactCheckOperators DEF ExactCheck!IInv, ExactCheck!LoopProgress
  <2>3. 0 \in Corner
    BY DEF Corner
  <2>4. QED
    BY <2>1, <2>2, <2>3 DEF Proper
<1>6. QED
  BY <1>2, <1>3, <1>4, <1>5 DEF Sound

(* Each step of the removal of unconnected facets that joins no neighbours. *)
LEMMA RemoveUnconnectedLinks ==
  ASSUME TypeInv, Sound(stl), RemoveUnconnected, ~ Remove!RemoveDegenerateFacet
  PROVE  StaysSound /\ (Proper(stl) => Proper(stl'))
<1>1. Remove!Next
  BY DEF RemoveUnconnected
<1>2. CASE Remove!RemoveUnconnectedFacet
  <2>1. i \in Facets(stl) /\ Unconnected(stl, i) = 3 /\ stl' = RemoveFacet(stl, i)
    BY <1>2, RemoveOperators DEF Remove!RemoveUnconnectedFacet
  <2>2. stl \in StlFiles /\ Mutual(stl)
    BY DEF TypeInv, MeshTyped, Sound
  <2>3. \A e \in Corner : stl.neighbor[i][e] = None
    BY <2>1, UnconnectedType
  <2>4. Renamed(stl, i, stl')
    BY <2>1, <2>2, <2>3, RemoveFacetRenamed
  <2>5. QED
    BY <2>1, <2>2, <2>3, <2>4, RenamedSound DEF StaysSound, Proper
<1>3. CASE ~ Remove!RemoveUnconnectedFacet
  <2>1. stl' = stl
    BY <1>1, <1>3 DEF Remove!Next, Remove!Begin, Remove!KeepFacet, Remove!EndDegenerate,
       Remove!EndUnconnected
  <2>2. QED
    BY <2>1 DEF StaysSound
<1>4. QED
  BY <1>2, <1>3

(* A degenerate facet is found only if there is one.                        *)
LEMMA ProperNotJoined ==
  Proper(stl) => ~ Remove!RemoveDegenerateFacet
  BY RemoveOperators DEF Proper, Remove!RemoveDegenerateFacet

(* What writes neither links nor counters leaves the links sound.           *)
LEMMA SameLinksStep ==
  ASSUME SameLinks(stl, stl'), Sound(stl)
  PROVE  Sound(stl') /\ (stl'.facet_start = stl.facet_start => StaysSound)
  BY SameLinksSound DEF StaysSound

(* Each step of the nearby check: moving corners changes no link, and a     *)
(* match is recorded on both sides.                                         *)
LEMMA CheckNearbyLinks ==
  ASSUME TypeInv, PendingInv, Sound(stl), CheckNearby
  PROVE  Sound(stl')
<1>1. phase = "nearby" /\ Nearby!Next
  BY DEF CheckNearby
<1>2. stl \in StlFiles /\ j \in Corner /\ stl.heads \subseteq Edge
      /\ (pc = "edge" => i \in Facets(stl))
  BY DEF TypeInv, MeshTyped, StlFiles
<1>3. ASSUME Nearby!Begin \/ Nearby!PendEdge \/ Nearby!FreeEdges PROVE Sound(stl')
  <2>1. PICK h : stl' = [stl EXCEPT !.heads = h]
    BY <1>3 DEF Nearby!Begin, Nearby!PendEdge, Nearby!FreeEdges
  <2>2. SameLinks(stl, stl')
    BY <1>2, <2>1 DEF SameLinks, StlFiles
  <2>3. QED
    BY <2>2, SameLinksStep
<1>4. ASSUME Nearby!LoadFacet \/ Nearby!SkipEdge PROVE Sound(stl')
  <2>1. stl' = stl
    BY <1>4 DEF Nearby!LoadFacet, Nearby!SkipEdge
  <2>2. QED
    BY <2>1
<1>5. ASSUME Nearby!MatchEdge PROVE Sound(stl')
  <2> DEFINE edge == Nearby!Candidate
             link == Oldest(Matches(stl, edge))
             r == [stl EXCEPT !.heads = stl.heads \ {link}]
  <2>1. /\ pc = "edge" /\ stl.neighbor[i][j] = None
        /\ Matches(stl, edge) # {}
        /\ stl' = RecordNeighbors(r, edge, link)
    BY <1>5, NearbyOperators DEF Nearby!MatchEdge, Nearby!Loadable
  <2>2. edge \in Edge /\ edge.facet_number = i /\ edge.which_edge % 3 = j
    BY <2>1, CandidateType
  <2> HIDE DEF edge
  <2>3. link \in stl.heads /\ link \in Edge /\ link.facet_number # edge.facet_number
    <3>1. Matches(stl, edge) \subseteq Edge
      BY <1>2 DEF Matches
    <3>2. link \in Matches(stl, edge)
      BY <2>1, <3>1, OldestMember
    <3>3. QED
      BY <3>1, <3>2 DEF Matches
  <2> HIDE DEF link
  <2>4. r \in StlFiles /\ SameButTable(stl, r)
    BY <1>2 DEF StlFiles, SameButTable
  <2> HIDE DEF r
  <2>5. Pending(stl) /\ \A p \in stl.heads : Before(p)
    BY <1>1, <2>1 DEF PendingInv
  <2>6. FreeEdge(stl, i, j)
    <3>1. i \in Nat
      BY MaxFacetsAssumption DEF TypeInv, MeshTyped
    <3>2. \A p \in stl.heads : ~ IsPending(p, i, j)
      BY <1>2, <2>5, <3>1 DEF Before, IsPending, Corner
    <3>3. QED
      BY <2>1, <3>2 DEF FreeEdge
  <2>7. Sound(RecordNeighbors(r, edge, link))
    BY <1>2, <2>1, <2>2, <2>3, <2>4, <2>5, <2>6, MatchSound
  <2>8. QED
    BY <2>1, <2>7
<1>6. ASSUME Nearby!ChangeVertex \/ Nearby!FinishMatch PROVE Sound(stl')
  <2>1. SameLinks(stl, stl')
    BY <1>2, <1>6 DEF Nearby!ChangeVertex, Nearby!FinishMatch, StlFiles, SameLinks
  <2>2. QED
    BY <2>1, SameLinksStep
<1>7. QED
  BY <1>1, <1>3, <1>4, <1>5, <1>6 DEF Nearby!Next

(* Each step of the filling of holes: the edges it matches are those of the *)
(* mesh.                                                                    *)
LEMMA FillHolesLinks ==
  ASSUME TypeInv, PendingInv, KeysInv, Sound(stl), FillHoles
  PROVE  StaysSound /\ KeysInv'
<1>1. phase = "fill_holes" /\ phase' = "fill_holes" /\ Fill!Next
  BY DEF FillHoles, callVars
<1>2. pc \notin {"test", "start"} => Pending(stl) /\ KeysRight(stl)
  BY <1>1 DEF PendingInv, KeysInv
<1>3. stl \in StlFiles /\ stl.shortest_edge \in Nat /\ j \in Corner
  BY DEF TypeInv, MeshTyped
<1> DEFINE Result == StaysSound /\ KeysRight(stl')
<1>4. ASSUME Fill!Begin \/ Fill!FreeEdges PROVE Result
  <2>1. stl' = [stl EXCEPT !.heads = {}]
    BY <1>4 DEF Fill!Begin, Fill!FreeEdges
  <2>2. SameLinks(stl, stl') /\ stl'.facet_start = stl.facet_start /\ stl'.heads = {}
    BY <1>3, <2>1 DEF SameLinks, StlFiles
  <2>3. QED
    BY <2>2, SameLinksStep DEF KeysRight
<1>5. ASSUME Fill!EndLoad \/ Fill!ScanFacet \/ Fill!SkipEdge \/ Fill!StartWalk
             \/ Fill!CrossEdge \/ Fill!BackAtFirst
      PROVE  Result
  <2>1. stl' = stl /\ pc \notin {"test", "start"}
    BY <1>5 DEF Fill!EndLoad, Fill!ScanFacet, Fill!SkipEdge, Fill!StartWalk,
       Fill!CrossEdge, Fill!BackAtFirst
  <2>2. QED
    BY <1>2, <2>1 DEF StaysSound
<1>6. ASSUME Fill!LoadUnconnected PROVE Result
  <2>1. /\ pc = "load" /\ i \in Facets(stl)
        /\ stl' = IF stl.neighbor[i][j] = None
                  THEN InsertEdgeExact(stl, i, j, stl.facet_start[i]) ELSE stl
    BY <1>6, FillOperators DEF Fill!LoadUnconnected, Fill!Unlinked
  <2>2. \A p \in stl.heads : Before(p)
    BY <1>1, <2>1 DEF PendingInv
  <2>3. CASE stl.neighbor[i][j] # None
    BY <1>2, <2>1, <2>3 DEF StaysSound
  <2>4. CASE stl.neighbor[i][j] = None
    <3>1. i \in Nat /\ stl.heads \subseteq Edge
      BY <1>3, MaxFacetsAssumption DEF TypeInv, MeshTyped, StlFiles
    <3>2. \A p \in stl.heads : ~ IsPending(p, i, j)
      BY <1>3, <2>2, <3>1 DEF Before, IsPending, Corner
    <3>3. FreeEdge(stl, i, j)
      BY <2>4, <3>2 DEF FreeEdge
    <3>4. SoundlyInserted(stl, InsertEdgeExact(stl, i, j, stl.facet_start[i]))
      BY <1>2, <1>3, <2>1, <3>3, InsertEdgeExactSound
    <3>5. SoundlyInserted(stl, stl')
      BY <2>1, <2>4, <3>4
    <3>6. QED
      BY <1>2, <2>1, <3>5 DEF SoundlyInserted, StaysSound
  <2>5. QED
    BY <2>3, <2>4
<1>7. ASSUME Fill!CloseHole PROVE Result
  <2> DEFINE new == [c \in Corner |-> <<stl.facet_start[i][j], stl.facet_start[i][Next3(j)],
                                        Fill!FarCorner>>[c + 1]]
             closed == Fill!InsertFacetEdges(AddFacet(stl, new), stl.number_of_facets, new)
  <2>1. pc = "walk" /\ HasRoom(stl) /\ stl' = closed
    BY <1>7, FillOperators DEF Fill!CloseHole
  <2>2. new \in Facet
    BY <2>1, ClosingFacetType
  <2> HIDE DEF new
  <2>3. /\ Sound(closed)
        /\ KeysRight(stl) => KeysRight(closed)
        /\ KeysRight(stl) /\ EdgesRight(stl) => EdgesRight(closed)
    BY <1>2, <1>3, <2>1, <2>2, CloseHoleSound
  <2>4. QED
    BY <1>2, <2>1, <2>3 DEF StaysSound
<1> HIDE DEF Result
<1>8. Result
  BY <1>1, <1>4, <1>5, <1>6, <1>7 DEF Fill!Next
<1>9. QED
  BY <1>8 DEF KeysInv, Result

(* A facet of the mesh is turned.                                           *)
LEMMA ReverseLinks ==
  ASSUME NEW s \in StlFiles, NEW f \in Facets(s), Sound(s)
  PROVE  /\ Sound(ReverseFacet(s, f))
         /\ EdgesRight(s) => EdgesRight(ReverseFacet(s, f))
<1>1. Reversed(s, f, ReverseFacet(s, f))
  BY ReverseFacetReversed DEF Sound
<1>2. QED
  BY <1>1, ReversedSound

(* Row 0 of an empty mesh is turned.                                        *)
LEMMA ReverseEmpty ==
  ASSUME NEW s \in StlFiles, NEW f \in Slot, s.number_of_facets = 0, Sound(s)
  PROVE  /\ Sound(ReverseFacet(s, f))
         /\ EdgesRight(ReverseFacet(s, f))
<1> DEFINE t == ReverseFacet(s, f)
<1>1. t.number_of_facets = 0 /\ t.connected_facets = s.connected_facets
  BY ReverseFacetFields
<1> HIDE DEF t
<1>2. Facets(t) = {} /\ Facets(s) = {}
  BY <1>1 DEF Facets
<1>3. Mutual(t) /\ EdgesRight(t)
  BY <1>2 DEF Mutual, EdgesRight
<1>4. CountersAgree(t)
  <2>1. \A k \in 1 .. 3 : {g \in Facets(t) : 3 - Unconnected(t, g) >= k}
                          = {g \in Facets(s) : 3 - Unconnected(s, g) >= k}
    BY <1>2
  <2>2. QED
    BY <1>1, <2>1 DEF CountersAgree, Sound
<1>5. QED
  BY <1>3, <1>4 DEF Sound, t

(* The first facet of a part, turned or not.                                *)
LEMMA StartPartLinks ==
  ASSUME NEW f \in Slot, TypeInv, Sound(stl), Directions!StartPart(f),
         stl.number_of_facets > 0 => f \in Facets(stl)
  PROVE  /\ StaysSound
         /\ stl'.number_of_facets = stl.number_of_facets
         /\ facet_num' = f
<1>1. stl \in StlFiles
  BY DEF TypeInv, MeshTyped
<1>2. stl' \in {stl, ReverseFacet(stl, f)} /\ facet_num' = f
  BY DirectionsOperators DEF Directions!StartPart
<1>3. ReverseFacet(stl, f).number_of_facets = stl.number_of_facets
  BY <1>1, ReverseFacetFields
<1>4. /\ Sound(ReverseFacet(stl, f))
      /\ EdgesRight(stl) => EdgesRight(ReverseFacet(stl, f))
  <2>1. CASE f \in Facets(stl)
    BY <1>1, <2>1, ReverseLinks
  <2>2. CASE f \notin Facets(stl)
    <3>1. stl.number_of_facets = 0
      BY <1>1, <2>2, MaxFacetsAssumption DEF StlFiles
    <3>2. QED
      BY <1>1, <3>1, ReverseEmpty
  <2>3. QED
    BY <2>1, <2>2
<1>5. QED
  BY <1>2, <1>3, <1>4 DEF StaysSound

(* Each step of the fixing of the directions: a facet turned is one of the  *)
(* mesh, because links lead to facets of the mesh.                          *)
LEMMA FixDirectionsLinks ==
  ASSUME TypeInv, DirInv, Sound(stl), FixDirections
  PROVE  StaysSound /\ DirInv'
<1>1. phase = "normal_directions" /\ phase' = phase /\ Directions!FixDirections
  BY DEF FixDirections, callVars
<1>2. /\ stl \in StlFiles /\ j \in Corner /\ facet_num \in Slot /\ list \in Seq(Slot)
      /\ stl.number_of_facets \in Nat
  BY MaxFacetsAssumption DEF TypeInv, MeshTyped, PassTyped, StlFiles
<1>3. pc \notin {"test", "start"} /\ stl.number_of_facets > 0 =>
        facet_num \in Facets(stl) /\ list \in Seq(Facets(stl))
  BY <1>1 DEF DirInv
<1>a. 0 \in Slot /\ (stl.number_of_facets > 0 => 0 \in Facets(stl))
  BY <1>2, MaxFacetsAssumption DEF Slot, Facets
<1> DEFINE Result == /\ StaysSound
                     /\ stl'.number_of_facets = stl.number_of_facets
                     /\ stl.number_of_facets > 0 =>
                          facet_num' \in Facets(stl) /\ list' \in Seq(Facets(stl))
<1>4. ASSUME Directions!Begin PROVE Result
  <2>1. Directions!StartPart(0) /\ list' = <<>>
    BY <1>4 DEF Directions!Begin
  <2>2. StaysSound /\ stl'.number_of_facets = stl.number_of_facets /\ facet_num' = 0
    BY <1>a, <2>1, StartPartLinks
  <2>3. QED
    BY <1>a, <2>1, <2>2
<1>5. ASSUME Directions!NextPart PROVE Result
  <2>1. PICK f \in Facets(stl) : Directions!StartPart(f)
    BY <1>5, DirectionsOperators DEF Directions!NextPart
  <2>2. pc = "next" /\ list' = list
    BY <1>5 DEF Directions!NextPart
  <2>3. f \in Slot
    BY <1>2, FacetsAreSlots
  <2>4. StaysSound /\ stl'.number_of_facets = stl.number_of_facets /\ facet_num' = f
    BY <2>1, <2>3, StartPartLinks
  <2>5. QED
    BY <1>3, <2>1, <2>2, <2>4
<1>6. ASSUME Directions!NextOfList PROVE Result
  <2>1. /\ pc = "next" /\ list # <<>> /\ facet_num' = Head(list) /\ list' = Tail(list)
        /\ stl' = stl
    BY <1>6 DEF Directions!NextOfList
  <2>2. QED
    BY <1>3, <2>1 DEF StaysSound
<1>7. ASSUME Directions!LastPart PROVE Result
  <2>1. pc = "next" /\ facet_num' = facet_num /\ list' = list /\ stl' = stl
    BY <1>7 DEF Directions!LastPart
  <2>2. QED
    BY <1>3, <2>1 DEF StaysSound
<1>8. ASSUME Directions!SpreadAcrossEdge PROVE Result
  <2> DEFINE n == stl.neighbor[facet_num][j]
             turned == IF Directions!IsBackwards(facet_num, j) THEN ReverseFacet(stl, n) ELSE stl
             m == turned.neighbor[facet_num][j]
  <2>1. /\ pc = "spread" /\ facet_num' = facet_num
        /\ stl' = turned
        /\ list' = IF m # None /\ m \notin norm_sw THEN <<m>> \o list ELSE list
    BY <1>8, DirectionsOperators DEF Directions!SpreadAcrossEdge
  <2>2. Directions!IsBackwards(facet_num, j) => n \in Slot
    <3>1. n \in Slot \cup {None}
      BY <1>2 DEF StlFiles
    <3>2. Directions!IsBackwards(facet_num, j) => n # None
      BY DirectionsOperators DEF Directions!IsBackwards
    <3>3. QED
      BY <3>1, <3>2
  <2>3. stl.number_of_facets > 0 => n = None \/ n \in Facets(stl)
    BY <1>2, <1>3, <2>1 DEF Sound, Mutual, LinkedBack
  <2>4. /\ Sound(turned) /\ (EdgesRight(stl) => EdgesRight(turned))
        /\ turned.number_of_facets = stl.number_of_facets
    <3>1. CASE ~ Directions!IsBackwards(facet_num, j)
      BY <3>1
    <3>2. CASE Directions!IsBackwards(facet_num, j)
      <4>1. n \in Slot /\ turned = ReverseFacet(stl, n) /\ n # None
        BY <2>2, <3>2, DirectionsOperators DEF Directions!IsBackwards
      <4>2. ReverseFacet(stl, n).number_of_facets = stl.number_of_facets
        BY <1>2, <4>1, ReverseFacetFields
      <4> HIDE DEF n, turned
      <4>3. CASE stl.number_of_facets > 0
        BY <1>2, <2>3, <4>1, <4>2, <4>3, ReverseLinks
      <4>4. CASE stl.number_of_facets = 0
        BY <1>2, <4>1, <4>2, <4>4, ReverseEmpty
      <4>5. QED
        BY <1>2, <4>3, <4>4
    <3>3. QED
      BY <3>1, <3>2
  <2> HIDE DEF turned
  <2>5. StaysSound /\ stl'.number_of_facets = stl.number_of_facets
    BY <2>1, <2>4 DEF StaysSound
  <2>6. ASSUME stl.number_of_facets > 0 PROVE list' \in Seq(Facets(stl))
    <3>1. facet_num \in Facets(stl) /\ list \in Seq(Facets(stl)) /\ Facets(turned) = Facets(stl)
      BY <1>3, <2>1, <2>4, <2>6 DEF Facets
    <3>2. m # None => m \in Facets(stl)
      BY <1>2, <2>4, <3>1 DEF Sound, Mutual, LinkedBack
    <3> HIDE DEF m
    <3>3. m # None => <<m>> \o list \in Seq(Facets(stl))
      BY <3>1, <3>2
    <3>4. QED
      BY <2>1, <3>1, <3>3
  <2>7. QED
    BY <1>3, <2>1, <2>5, <2>6
<1> HIDE DEF Result
<1>9. Result
  BY <1>1, <1>4, <1>5, <1>6, <1>7, <1>8 DEF Directions!FixDirections
<1>10. Facets(stl') = Facets(stl) /\ stl'.number_of_facets = stl.number_of_facets
  BY <1>9 DEF Result, Facets
<1>11. QED
  BY <1>9, <1>10 DEF DirInv, Result

(* Each step of a pass that turns every facet.                              *)
LEMMA ReverseAllLinks ==
  ASSUME TypeInv, Sound(stl), ReverseAll
  PROVE  StaysSound
<1>1. Directions!ReverseAll /\ stl \in StlFiles
  BY DEF ReverseAll, TypeInv, MeshTyped
<1>2. CASE Directions!ReverseNext
  <2> DEFINE r == ReverseFacet(stl, i)
  <2>1. i \in Facets(stl) /\ stl' = ReverseWithNormal(stl, i)
    BY <1>2, DirectionsOperators DEF Directions!ReverseNext
  <2>2. i \in Slot
    BY <1>1, <2>1, FacetsAreSlots
  <2>3. r \in StlFiles
    BY <1>1, <2>2, ReverseFacetFields
  <2>4. PICK n : stl' = [r EXCEPT !.normal = n]
    BY <1>1, <2>1, <2>2, ReverseWithNormalFields
  <2>5. Sound(r) /\ (EdgesRight(stl) => EdgesRight(r))
    BY <1>1, <2>1, ReverseLinks
  <2> HIDE DEF r
  <2>6. SameLinks(r, stl') /\ stl'.facet_start = r.facet_start
    BY <2>3, <2>4 DEF SameLinks, StlFiles
  <2>7. QED
    BY <2>5, <2>6, SameLinksSound DEF StaysSound
<1>3. CASE ~ Directions!ReverseNext
  <2>1. stl' = stl
    BY <1>1, <1>3 DEF Directions!ReverseAll, Directions!BeginReverseAll, Directions!EndReverseAll
  <2>2. QED
    BY <2>1 DEF StaysSound
<1>4. QED
  BY <1>2, <1>3

(* The other passes write no links.                                         *)
LEMMA NoLinksWritten ==
  ASSUME TypeInv, Sound(stl), FixNormalValues \/ CalculateVolume \/ GenerateSharedVertices
  PROVE  StaysSound
<1>1. CASE FixNormalValues
  <2>1. PICK n : stl' = [stl EXCEPT !.normal = n]
    BY <1>1 DEF FixNormalValues, Values!FixNormalValues
  <2>2. SameLinks(stl, stl') /\ stl'.facet_start = stl.facet_start
    BY <2>1 DEF TypeInv, MeshTyped, SameLinks, StlFiles
  <2>3. QED
    BY <2>2, SameLinksStep
<1>2. CASE CalculateVolume
  <2>1. stl' = stl
    BY <1>2 DEF CalculateVolume, Values!CalculateVolume
  <2>2. QED
    BY <2>1 DEF StaysSound
<1>3. CASE GenerateSharedVertices
  <2>1. stl' = stl
    BY <1>3 DEF GenerateSharedVertices, Shared!Next, Shared!Begin, Shared!StartTour,
       Shared!SkipCorner, Shared!CrossEdge, Shared!TurnBack, Shared!EndTour, Shared!Finish
  <2>2. QED
    BY <2>1 DEF StaysSound
<1>4. QED
  BY <1>1, <1>2, <1>3

-----------------------------------------------------------------------------
(****************************************************************************)
(* The steps of stl_repair.                                                 *)
(****************************************************************************)
(* A call of the exact check finds what it assumes; one of the nearby check *)
(* is counted.                                                              *)
LEMMA CallLinks ==
  ASSUME TypeInv, ExactInv, MeshInv, Call
  PROVE  ExactInv' /\ MeshInv' /\ KeysInv' /\ DirInv'
<1>1. /\ pc = "test" /\ pc' = "start"
      /\ phase' = phase /\ file' = file /\ stl' = stl /\ i' = i /\ j' = j
      /\ IF phase = "nearby" THEN iteration' = iteration + 1 ELSE iteration' = iteration
  BY DEF Call
<1>2. iteration \in Nat
  BY OptionsAssumption DEF TypeInv, CallTyped
<1>3. ExactInv'
  <2>1. ASSUME phase = "exact"
        PROVE  (ExactCheck!IInv /\ ExactCheck!CountersExact /\ ExactCheck!AllLoaded)'
    <3>1. file' \in Meshes /\ i' = 0 /\ j' = 0
      BY <1>1, <2>1 DEF ExactInv
    <3>2. stl' \in ExactCheck!StlFiles /\ i' \in 0 .. MaxFacets /\ j' \in ExactCheck!Corner
      BY <1>1, ExactCheckOperators DEF TypeInv, MeshTyped
    <3>3. ExactCheck!TypeOK'
      BY <1>1, <3>1, <3>2 DEF ExactCheck!TypeOK
    <3>4. (/\ ExactCheck!TypeOK
           /\ pc = "start" /\ i = 0 /\ j = 0)'
      BY <1>1, <3>1, <3>3
    <3>5. QED
      BY <3>4, ExactStarts, PTL
  <2>2. QED
    BY <1>1, <2>1 DEF ExactInv
<1>4. MeshInv'
  BY <1>1, <1>2 DEF MeshInv
<1>5. QED
  BY <1>1, <1>3, <1>4 DEF KeysInv, DirInv

(* From one pass to the next: the exact check has been done when another    *)
(* pass begins.                                                             *)
LEMMA NextPassLinks ==
  ASSUME TypeInv, Idle, Called("exact"), ExactInv, MeshInv, Skip \/ Return
  PROVE  ExactInv' /\ MeshInv' /\ KeysInv' /\ DirInv'
<1>1. /\ pc' = "test" /\ pc \in {"test", "done"}
      /\ phase # "done" /\ phase \in Named
      /\ phase' \in {phase, Following(phase)}
      /\ file' = file /\ stl' = stl /\ iteration' = iteration
      /\ phase = "exact" => pc = "done" /\ phase' = Following(phase)
  BY PhaseNames DEF TypeInv, CallTyped, Idle, Skip, Return, meshVars
<1>2. /\ Following(phase) # "exact"
      /\ phase = "exact" => Following(phase) # "exact"
      /\ Following(phase) \in {"nearby", "remove_unconnected"} => phase \in {"exact", "nearby"}
  BY <1>1, FollowingPhases DEF Named
<1>3. ExactInv'
  BY <1>1, <1>2 DEF ExactInv
<1>4. phase = "exact" => Sound(stl) /\ EdgesRight(stl) /\ Proper(stl)
  BY <1>1, ExactDone
<1>5. MeshInv'
  BY <1>1, <1>2, <1>4 DEF MeshInv
<1>6. QED
  BY <1>1, <1>3, <1>5 DEF KeysInv, DirInv

(* Each step of a pass after the exact check.                               *)
LEMMA PassLinks ==
  ASSUME TypeInv, PendingInv, ExactInv, MeshInv, KeysInv, DirInv, Pass, ~ CheckExact,
         iteration # 0 => ~ DegenerateJoined
  PROVE  ExactInv' /\ MeshInv' /\ KeysInv' /\ DirInv'
<1>1. phase # "exact" /\ phase' = phase /\ iteration' = iteration /\ file' = file
  BY DEF Pass, CheckNearby, Nearby!Next, Nearby!Begin, Nearby!LoadFacet, Nearby!SkipEdge,
     Nearby!PendEdge, Nearby!MatchEdge, Nearby!ChangeVertex, Nearby!FinishMatch, Nearby!FreeEdges,
     RemoveUnconnected, FillHoles, FixDirections, ReverseAll, FixNormalValues, CalculateVolume,
     GenerateSharedVertices, callVars
<1>2. Sound(stl) /\ (iteration = 0 => EdgesRight(stl))
  BY <1>1 DEF MeshInv
<1>3. ExactInv'
  BY <1>1 DEF ExactInv
<1> DEFINE Result == MeshInv' /\ KeysInv' /\ DirInv'
<1>4. ASSUME CheckNearby PROVE Result
  <2>1. phase = "nearby" /\ pc # "test"
    BY <1>4 DEF CheckNearby, Nearby!Next, Nearby!Begin, Nearby!LoadFacet, Nearby!SkipEdge,
       Nearby!PendEdge, Nearby!MatchEdge, Nearby!ChangeVertex, Nearby!FinishMatch,
       Nearby!FreeEdges, Nearby!Loadable
  <2>2. Sound(stl')
    BY <1>2, <1>4, CheckNearbyLinks
  <2>3. iteration # 0
    BY <2>1 DEF MeshInv
  <2>4. QED
    BY <1>1, <2>1, <2>2, <2>3 DEF MeshInv, KeysInv, DirInv
<1>5. ASSUME RemoveUnconnected PROVE Result
  <2>1. phase = "remove_unconnected"
    BY <1>5 DEF RemoveUnconnected
  <2>2. ~ Remove!RemoveDegenerateFacet
    BY <2>1, ProperNotJoined DEF MeshInv, DegenerateJoined
  <2>3. StaysSound /\ (Proper(stl) => Proper(stl'))
    BY <1>2, <1>5, <2>2, RemoveUnconnectedLinks
  <2>4. QED
    BY <1>1, <1>2, <2>1, <2>3 DEF MeshInv, KeysInv, DirInv, StaysSound
<1>6. ASSUME FillHoles PROVE Result
  <2>1. phase = "fill_holes"
    BY <1>6 DEF FillHoles
  <2>2. StaysSound /\ KeysInv'
    BY <1>2, <1>6, FillHolesLinks
  <2>3. QED
    BY <1>1, <1>2, <2>1, <2>2 DEF MeshInv, DirInv, StaysSound
<1>7. ASSUME FixDirections PROVE Result
  <2>1. phase = "normal_directions"
    BY <1>7 DEF FixDirections
  <2>2. StaysSound /\ DirInv'
    BY <1>2, <1>7, FixDirectionsLinks
  <2>3. QED
    BY <1>1, <1>2, <2>1, <2>2 DEF MeshInv, KeysInv, StaysSound
<1>8. ASSUME ReverseAll \/ FixNormalValues \/ CalculateVolume \/ GenerateSharedVertices
      PROVE  Result
  <2>1. phase \notin {"nearby", "remove_unconnected", "fill_holes", "normal_directions"}
    BY <1>8 DEF ReverseAll, FixNormalValues, CalculateVolume, GenerateSharedVertices
  <2>2. StaysSound
    BY <1>2, <1>8, ReverseAllLinks, NoLinksWritten
  <2>3. QED
    BY <1>1, <1>2, <2>1, <2>2 DEF MeshInv, KeysInv, DirInv, StaysSound
<1> HIDE DEF Result
<1>9. Result
  BY <1>4, <1>5, <1>6, <1>7, <1>8 DEF Pass
<1>10. QED
  BY <1>3, <1>9 DEF Result

(* Each step keeps the invariant, but for the joining of the neighbours of  *)
(* a degenerate facet after the nearby check.                               *)
LEMMA LinkInvStep ==
  ASSUME TypeInv, Idle, PendingInv, LinkInv, [Next]_vars, iteration # 0 => ~ DegenerateJoined
  PROVE  LinkInv'
<1>1. Called("exact")' /\ Called("exact") /\ ExactInv /\ MeshInv /\ KeysInv /\ DirInv
  BY CalledExact DEF LinkInv
<1> DEFINE Result == ExactInv' /\ MeshInv' /\ KeysInv' /\ DirInv'
<1>2. ASSUME Call PROVE Result
  BY <1>1, <1>2, CallLinks
<1>3. ASSUME Skip \/ Return PROVE Result
  BY <1>1, <1>3, NextPassLinks
<1>4. ASSUME Pass PROVE Result
  <2>1. CASE CheckExact
    <3>1. ExactInv'
      BY <1>1, <2>1, CheckExactLinks
    <3>2. phase = "exact" /\ phase' = phase
      BY <2>1 DEF CheckExact
    <3>3. QED
      BY <3>1, <3>2 DEF MeshInv, KeysInv, DirInv
  <2>2. CASE ~ CheckExact
    BY <1>1, <1>4, <2>2, PassLinks
  <2>3. QED
    BY <2>1, <2>2
<1>5. ASSUME Repaired \/ UNCHANGED vars PROVE Result
  <2>1. /\ stl' = stl /\ i' = i /\ j' = j /\ pc' = pc /\ phase' = phase /\ file' = file
        /\ iteration' = iteration /\ facet_num' = facet_num /\ list' = list
    BY <1>5 DEF Repaired, vars, meshVars, callVars, directionVars
  <2>2. UNCHANGED ExactCheck!vars
    BY <2>1 DEF ExactCheck!vars
  <2>3. ASSUME ExactCheck!IInv, ExactCheck!CountersExact, ExactCheck!AllLoaded
        PROVE  ExactCheck!IInv' /\ ExactCheck!CountersExact' /\ ExactCheck!AllLoaded'
    BY <2>2, <2>3, MeshesAssumption, ExactCheck!IInvStep, ExactCheck!CountersStep,
       ExactCheck!AllLoadedStep
  <2>4. ExactInv'
    BY <1>1, <2>1, <2>3 DEF ExactInv
  <2>5. QED
    BY <1>1, <2>1, <2>4 DEF MeshInv, KeysInv, DirInv
<1> HIDE DEF Result
<1>6. Result
  BY <1>2, <1>3, <1>4, <1>5 DEF Next
<1>7. QED
  BY <1>1, <1>6 DEF LinkInv, Result

(* A file opened for the exact check.                                       *)
LEMMA LinkInvInit == Init /\ Called("exact") => LinkInv
<1> SUFFICES ASSUME Init, Called("exact") PROVE LinkInv
  OBVIOUS
<1>1. phase = "exact" /\ pc = "test" /\ i = 0 /\ j = 0
  BY DEF Init
<1>2. file \in Meshes
  BY DEF Init, Meshes
<1>3. QED
  BY <1>1, <1>2 DEF LinkInv, ExactInv, MeshInv, KeysInv, DirInv

(* The options do not let the nearby check be called.                       *)
WithoutNearby == Given({"nearby", "fixall"}) => options.iterations = 0

(* So it is never called.                                                   *)
LEMMA NoIteration ==
  ASSUME TypeInv, WithoutNearby, iteration = 0, [Next]_vars
  PROVE  WithoutNearby' /\ iteration' = 0
<1>1. options' = options
  BY DEF Next, Call, Pass, Skip, Return, Repaired, CheckExact, CheckNearby, RemoveUnconnected,
         FillHoles, FixDirections, ReverseAll, FixNormalValues, CalculateVolume,
         GenerateSharedVertices, callVars, vars
<1>2. ~ Called("nearby")
  BY DEF WithoutNearby, Called
<1>3. iteration' = iteration
  BY <1>2 DEF Next, Call, Pass, Skip, Return, Repaired, CheckExact, CheckNearby,
     RemoveUnconnected, FillHoles, FixDirections, ReverseAll, FixNormalValues, CalculateVolume,
     GenerateSharedVertices, callVars, vars
<1>4. QED
  BY <1>1, <1>3 DEF WithoutNearby, Given

-----------------------------------------------------------------------------
(****************************************************************************)
(* Theorems.                                                                *)
(****************************************************************************)
(* What the invariant says of the properties.                               *)
LEMMA LinkInvImplies ==
  /\ LinkInv => LinksMutual /\ CountersExact
  /\ LinkInv /\ iteration = 0 => EdgesMatchUnlessWarned
<1>1. LinkInv => LinksMutual /\ CountersExact
  BY DEF LinkInv, MeshInv, Sound, LinksMutual, CountersExact, Between
<1>2. LinkInv /\ iteration = 0 => EdgesMatchUnlessWarned
  BY DEF LinkInv, MeshInv, EdgesRight, EdgesMatchUnlessWarned, Between
<1>3. QED
  BY <1>1, <1>2

(* The invariant holds as long as no neighbours of a degenerate facet are   *)
(* joined.                                                                  *)
LEMMA LinkInvariant ==
  Spec /\ Called("exact") /\ [][~ DegenerateJoined]_vars => []LinkInv
<1>1. TypeInv /\ Idle /\ PendingInv /\ LinkInv /\ [Next]_vars /\ [~ DegenerateJoined]_vars
      => LinkInv'
  <2> SUFFICES ASSUME TypeInv, Idle, PendingInv, LinkInv, [Next]_vars, [~ DegenerateJoined]_vars
               PROVE  LinkInv'
    OBVIOUS
  <2>1. CASE UNCHANGED vars
    <3>1. ~ DegenerateJoined
      <4> SUFFICES ASSUME DegenerateJoined PROVE FALSE
        OBVIOUS
      <4>1. i \in Facets(stl) /\ FacetRemoved(stl, i, stl') /\ stl' = stl
        <5>1. i \in Facets(stl) /\ stl' = Remove!RemoveDegenerate(stl, i)
          BY RemoveOperators DEF DegenerateJoined, Remove!RemoveDegenerateFacet
        <5>2. QED
          BY <2>1, <5>1, RemoveDegenerateKeeps DEF TypeInv, MeshTyped, vars, meshVars
      <4>2. stl.number_of_facets \in Nat
        BY MaxFacetsAssumption DEF TypeInv, MeshTyped, StlFiles
      <4>3. QED
        BY <4>1, <4>2 DEF FacetRemoved
    <3>2. QED
      BY <3>1, LinkInvStep
  <2>2. CASE ~ DegenerateJoined
    BY <2>2, LinkInvStep
  <2>3. QED
    BY <2>1, <2>2
<1>2. Init => PendingInv
  BY DEF Init, PendingInv
<1>3. TypeInv /\ PendingInv /\ [Next]_vars => PendingInv'
  BY PendingInvStep
<1>4. QED
  BY <1>1, <1>2, <1>3, LinkInvInit, TypedInvariant, PTL DEF Spec

(* Once the exact check is done the neighbour list stays symmetric through  *)
(* all the passes, unless stl_remove_degenerate joins the neighbours of a   *)
(* facet the nearby check has made degenerate.                              *)
THEOREM LinksAreMutual ==
  Spec /\ Called("exact") /\ [][~ DegenerateJoined]_vars => []LinksMutual
  BY LinkInvImplies, LinkInvariant, PTL

(* Under the same condition the counters that decide which passes are       *)
(* called, and are printed, count the links.                                *)
THEOREM CountersAreExact ==
  Spec /\ Called("exact") /\ [][~ DegenerateJoined]_vars => []CountersExact
  BY LinkInvImplies, LinkInvariant, PTL

(* Without the nearby check no neighbours are joined, so no condition is    *)
(* needed: through the removal of facets, the filling of holes and the      *)
(* turning of facets the links stay symmetric, the counters exact, and      *)
(* neighbours share their edges.                                            *)
THEOREM SoundWithoutNearby ==
  Spec /\ Called("exact") /\ WithoutNearby =>
    [](LinksMutual /\ CountersExact /\ EdgesMatchUnlessWarned)
<1>1. Init => PendingInv /\ iteration = 0
  BY DEF Init, PendingInv
<1>2. TypeInv /\ PendingInv /\ [Next]_vars => PendingInv'
  BY PendingInvStep
<1>3. TypeInv /\ (WithoutNearby /\ iteration = 0) /\ [Next]_vars
      => (WithoutNearby /\ iteration = 0)'
  BY NoIteration
<1>4. TypeInv /\ Idle /\ PendingInv /\ iteration = 0 /\ LinkInv /\ [Next]_vars => LinkInv'
  BY LinkInvStep
<1>5. QED
  BY <1>1, <1>2, <1>3, <1>4, LinkInvInit, LinkInvImplies, TypedInvariant, PTL DEF Spec

=============================================================================
