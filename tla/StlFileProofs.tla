----------------------------- MODULE StlFileProofs -----------------------------
(****************************************************************************)
(* What the operations of StlFile return, for every mesh: they keep the     *)
(* structure well typed, and change the rows they are meant to change.      *)
(****************************************************************************)
EXTENDS MeshProperties, FiniteSetTheorems, TLAPS

(* Arithmetic of corners: Prev3 undoes Next3, and an edge loaded backwards  *)
(* or a reversed which_vertex_not names the same corner.                    *)
LEMMA CornerArithmetic ==
  /\ \A w \in 0 .. 5 : /\ w % 3 \in Corner
                       /\ Next3(w) \in Corner
                       /\ Prev3(w) \in Corner
                       /\ Prev3(w) + 3 \in 0 .. 5
                       /\ Next3(Prev3(w)) = w % 3
                       /\ Next3(Prev3(w) + 3) = w % 3
                       /\ Prev3(Prev3(w)) = Next3(w % 3)
                       /\ Prev3(Prev3(w) + 3) = Next3(w % 3)
  /\ \A e \in Corner : e \in 0 .. 5 /\ e + 3 \in 0 .. 5 /\ e % 3 = e /\ (e + 3) % 3 = e
  BY DEF Corner, Next3, Prev3

(* The facets of the mesh stand in rows of the arrays.                      *)
LEMMA FacetsAreSlots ==
  ASSUME NEW s \in StlFiles
  PROVE  Facets(s) \subseteq Slot
  BY MaxFacetsAssumption DEF Facets, Slot, StlFiles

(* The length stl_load_edge_exact gives an edge is an integer.              *)
LEMMA MaxDiffType ==
  ASSUME NEW a \in Point, NEW b \in Point
  PROVE  MaxDiff(a, b) \in Int
  BY DEF MaxDiff, DominantAxis, Diff, Point

(* Of the two facets at an edge that agree on its direction, one loads it   *)
(* forwards and the other backwards.                                        *)
LEMMA ForwardAntisymmetric ==
  ASSUME NEW a \in Point, NEW b \in Point, a # b
  PROVE  Forward(a, b) <=> ~ Forward(b, a)
  BY DEF Forward, DominantAxis, Diff, Point

(* What is loaded (stl_load_edge_exact) is an edge of the hash table.       *)
LEMMA LoadEdgeType ==
  ASSUME NEW f \in Slot, NEW e \in Corner, NEW a \in Vertex, NEW b \in Vertex
  PROVE  LoadEdgeExact(f, e, a, b) \in Edge
<1>1. a \in Point /\ b \in Point
  BY VertexAssumption
<1>2. QED
  BY <1>1, CornerArithmetic DEF LoadEdgeExact, LoadEdge, Edge

(* Two edges have the same key exactly when they have the same end points.  *)
LEMMA EqualKeys ==
  ASSUME NEW f, NEW e, NEW a \in Vertex, NEW b \in Vertex, a # b,
         NEW g, NEW d, NEW x \in Vertex, NEW y \in Vertex
  PROVE  LoadEdgeExact(f, e, a, b).key = LoadEdgeExact(g, d, x, y).key
           <=> (a = x /\ b = y) \/ (a = y /\ b = x)
<1>1. a \in Point /\ b \in Point
  BY VertexAssumption
<1>2. Forward(a, b) <=> ~ Forward(b, a)
  BY <1>1, ForwardAntisymmetric
<1>3. /\ LoadEdgeExact(f, e, a, b).key = IF Forward(a, b) THEN <<a, b>> ELSE <<b, a>>
      /\ LoadEdgeExact(g, d, x, y).key = IF Forward(x, y) THEN <<x, y>> ELSE <<y, x>>
  BY DEF LoadEdgeExact, LoadEdge
<1>4. QED
  BY <1>2, <1>3

(* Updating shortest_edge while an edge is loaded keeps the rest of the     *)
(* structure.                                                               *)
LEMMA ShortestEdgeFields ==
  ASSUME NEW s \in StlFiles, NEW a \in Vertex, NEW b \in Vertex
  PROVE  /\ ShortestEdge(s, a, b) \in StlFiles
         /\ \E c \in Int : ShortestEdge(s, a, b) = [s EXCEPT !.shortest_edge = c]
<1>1. a \in Point /\ b \in Point
  BY VertexAssumption
<1>2. MaxDiff(a, b) \in Int /\ s.shortest_edge \in Int
  BY <1>1, MaxDiffType DEF StlFiles
<1>3. PICK c \in Int : ShortestEdge(s, a, b) = [s EXCEPT !.shortest_edge = c]
  BY <1>2 DEF ShortestEdge
<1>4. QED
  BY <1>3 DEF StlFiles

-----------------------------------------------------------------------------
(* Connecting two edges.                                                    *)
LEMMA LinkType ==
  ASSUME NEW s \in StlFiles, NEW a \in Edge, NEW b \in Edge
  PROVE  Link(s, a, b) \in StlFiles
<1> DEFINE flip == IF (a.which_edge < 3) = (b.which_edge < 3) THEN 3 ELSE 0
<1>1. /\ a.facet_number \in Slot /\ b.facet_number \in Slot
      /\ a.which_edge % 3 \in Corner /\ b.which_edge % 3 \in Corner
      /\ Prev3(a.which_edge) + flip \in 0 .. 5
      /\ Prev3(b.which_edge) + flip \in 0 .. 5
  BY CornerArithmetic DEF Edge, Corner
<1>2. s.connected_edges + 2 \in Int
  BY DEF StlFiles
<1>3. ASSUME NEW f \in Slot, NEW e \in Corner, NEW g \in Slot, NEW d \in Corner,
             NEW v \in 0 .. 5, NEW w \in 0 .. 5, NEW c \in Int
      PROVE  [s EXCEPT !.neighbor[f][e] = g, !.which_vertex_not[f][e] = v,
                       !.neighbor[g][d] = f, !.which_vertex_not[g][d] = w,
                       !.connected_edges = c] \in StlFiles
  BY DEF StlFiles
<1>4. QED
  BY <1>1, <1>2, <1>3 DEF Link

(* Counting a connection (stl_record_neighbors) keeps the mesh and the      *)
(* table.                                                                   *)
LEMMA CountConnectFields ==
  ASSUME NEW s \in StlFiles, NEW f
  PROVE  /\ CountConnect(s, f) \in StlFiles
         /\ \E c \in [1 .. 3 -> Int] :
              CountConnect(s, f) = [s EXCEPT !.connected_facets = c]
<1>1. Unconnected(s, f) \in 0 .. 3
  BY DEF Unconnected
<1>2. \A k \in 1 .. 3 : [s.connected_facets EXCEPT ![k] = @ + 1] \in [1 .. 3 -> Int]
  BY DEF StlFiles
<1>3. \A k \in 1 .. 3 :
         [s EXCEPT !.connected_facets[k] = @ + 1]
           = [s EXCEPT !.connected_facets = [s.connected_facets EXCEPT ![k] = @ + 1]]
  OBVIOUS
<1>4. \E k \in 1 .. 3 : CountConnect(s, f) = [s EXCEPT !.connected_facets[k] = @ + 1]
  BY <1>1 DEF CountConnect
<1>5. PICK c \in [1 .. 3 -> Int] : CountConnect(s, f) = [s EXCEPT !.connected_facets = c]
  BY <1>2, <1>3, <1>4
<1>6. QED
  BY <1>5 DEF StlFiles

(* A recorded match writes the two rows of the edge and nothing else of the *)
(* mesh.                                                                    *)
LEMMA RecordNeighborsFields ==
  ASSUME NEW s \in StlFiles, NEW a \in Edge, NEW b \in Edge,
         a.facet_number # b.facet_number
  PROVE  LET t    == RecordNeighbors(s, a, b)
             ea   == a.which_edge % 3
             eb   == b.which_edge % 3
             flip == IF (a.which_edge < 3) = (b.which_edge < 3) THEN 3 ELSE 0
         IN  /\ t \in StlFiles
             /\ t.number_of_facets = s.number_of_facets
             /\ t.facet_start = s.facet_start
             /\ t.heads = s.heads
             /\ \A f \in Slot, e \in Corner :
                  t.neighbor[f][e] =
                    IF f = a.facet_number /\ e = ea THEN b.facet_number
                    ELSE IF f = b.facet_number /\ e = eb THEN a.facet_number
                    ELSE s.neighbor[f][e]
             /\ \A f \in Slot, e \in Corner :
                  t.which_vertex_not[f][e] =
                    IF f = a.facet_number /\ e = ea THEN Prev3(b.which_edge) + flip
                    ELSE IF f = b.facet_number /\ e = eb THEN Prev3(a.which_edge) + flip
                    ELSE s.which_vertex_not[f][e]
<1> DEFINE l == Link(s, a, b)
           m == CountConnect(l, a.facet_number)
           t == RecordNeighbors(s, a, b)
           ea == a.which_edge % 3
           eb == b.which_edge % 3
<1>1. l \in StlFiles
  BY LinkType
<1>2. m \in StlFiles /\ \E c : m = [l EXCEPT !.connected_facets = c]
  BY <1>1, CountConnectFields
<1>3. t \in StlFiles /\ \E c : t = [m EXCEPT !.connected_facets = c]
  BY <1>2, CountConnectFields DEF RecordNeighbors
<1>4. /\ t.number_of_facets = l.number_of_facets /\ t.facet_start = l.facet_start
      /\ t.heads = l.heads /\ t.neighbor = l.neighbor
      /\ t.which_vertex_not = l.which_vertex_not
  <2>1. /\ t.number_of_facets = m.number_of_facets /\ t.facet_start = m.facet_start
        /\ t.heads = m.heads /\ t.neighbor = m.neighbor
        /\ t.which_vertex_not = m.which_vertex_not
    BY <1>2, <1>3 DEF StlFiles
  <2>2. /\ m.number_of_facets = l.number_of_facets /\ m.facet_start = l.facet_start
        /\ m.heads = l.heads /\ m.neighbor = l.neighbor
        /\ m.which_vertex_not = l.which_vertex_not
    BY <1>1, <1>2 DEF StlFiles
  <2>3. QED
    BY <2>1, <2>2
<1>5. /\ a.facet_number \in Slot /\ b.facet_number \in Slot
      /\ ea \in Corner /\ eb \in Corner
  BY CornerArithmetic DEF Edge
<1>6. /\ l.number_of_facets = s.number_of_facets /\ l.facet_start = s.facet_start
      /\ l.heads = s.heads
  BY DEF Link, StlFiles
<1>7. \A f \in Slot, e \in Corner :
        l.neighbor[f][e] =
          IF f = a.facet_number /\ e = ea THEN b.facet_number
          ELSE IF f = b.facet_number /\ e = eb THEN a.facet_number
          ELSE s.neighbor[f][e]
  BY <1>5 DEF Link, StlFiles
<1>8. \A f \in Slot, e \in Corner :
        l.which_vertex_not[f][e] =
          IF f = a.facet_number /\ e = ea
          THEN Prev3(b.which_edge)
                 + (IF (a.which_edge < 3) = (b.which_edge < 3) THEN 3 ELSE 0)
          ELSE IF f = b.facet_number /\ e = eb
          THEN Prev3(a.which_edge)
                 + (IF (a.which_edge < 3) = (b.which_edge < 3) THEN 3 ELSE 0)
          ELSE s.which_vertex_not[f][e]
  BY <1>5 DEF Link, StlFiles
<1>9. QED
  BY <1>3, <1>4, <1>6, <1>7, <1>8

-----------------------------------------------------------------------------
(* Reading, removing and adding facets.                                     *)
LEMMA StlOpenType ==
  ASSUME NEW file \in Seq(Facet), Len(file) <= MaxFacets, NEW normals \in [Slot -> Point]
  PROVE  StlOpen(file, normals) \in StlFiles
<1>1. \E t : t \in Facet
  <2>1. PICK v \in Vertex : TRUE
    BY VertexAssumption
  <2>2. [c \in Corner |-> v] \in Facet
    BY <2>1 DEF Facet
  <2>3. QED
    BY <2>2
<1>2. (CHOOSE t \in Facet : TRUE) \in Facet
  BY <1>1
<1>3. /\ Len(file) \in 0 .. MaxFacets
      /\ [f \in Slot |-> IF f < Len(file) THEN file[f + 1] ELSE CHOOSE t \in Facet : TRUE]
           \in [Slot -> Facet]
  BY <1>2, MaxFacetsAssumption DEF Slot
<1>4. (IF file = <<>> THEN 0 ELSE MaxDiff(file[1][0], file[1][1])) \in Int
  <2>1. CASE file = <<>>
    BY <2>1
  <2>2. CASE file # <<>>
    <3>1. file[1] \in Facet
      BY <2>2
    <3>2. file[1][0] \in Point /\ file[1][1] \in Point
      BY <3>1, VertexAssumption DEF Facet, Corner
    <3>3. QED
      BY <2>2, <3>2, MaxDiffType
  <2>3. QED
    BY <2>1, <2>2
<1>5. [f \in Slot |-> [e \in Corner |-> 0]] \in [Slot -> [Corner -> Slot \cup {None}]]
  BY MaxFacetsAssumption DEF Slot
<1>6. QED
  BY <1>3, <1>4, <1>5 DEF StlOpen, StlFiles

(* Moving the last facet into a row (stl_remove_facet) keeps the structure  *)
(* well-typed.                                                              *)
LEMMA MoveLastType ==
  ASSUME NEW s \in StlFiles, NEW f \in Facets(s)
  PROVE  MoveLast(s, f) \in StlFiles
<1> DEFINE last == s.number_of_facets - 1
           c == [k \in 1 .. 3 |-> IF k <= 3 - Unconnected(s, f)
                                  THEN s.connected_facets[k] - 1
                                  ELSE s.connected_facets[k]]
<1>1. last \in Slot /\ last \in 0 .. MaxFacets /\ f \in Slot
  BY MaxFacetsAssumption DEF StlFiles, Facets, Slot
<1>2. c \in [1 .. 3 -> Int]
  BY DEF StlFiles
<1>3. s.facets_removed + 1 \in Int
  BY DEF StlFiles
<1>4. /\ s.facet_start[last] \in Facet
      /\ s.normal[last] \in Point
      /\ s.neighbor[last] \in [Corner -> Slot \cup {None}]
      /\ s.which_vertex_not[last] \in [Corner -> 0 .. 5]
  BY <1>1 DEF StlFiles
<1>5. ASSUME NEW t \in Facet, NEW w \in Point, NEW n \in [Corner -> Slot \cup {None}],
             NEW v \in [Corner -> 0 .. 5], NEW r \in Int, NEW d \in [1 .. 3 -> Int],
             NEW l \in 0 .. MaxFacets
      PROVE  [s EXCEPT !.facets_removed = r, !.connected_facets = d,
                       !.facet_start[f] = t, !.normal[f] = w, !.neighbor[f] = n,
                       !.which_vertex_not[f] = v, !.number_of_facets = l] \in StlFiles
  BY <1>1 DEF StlFiles
<1>6. QED
  BY <1>1, <1>2, <1>3, <1>4, <1>5 DEF MoveLast

(* Telling a neighbour the new row of the moved facet keeps the structure   *)
(* well-typed.                                                              *)
LEMMA TellType ==
  ASSUME NEW s \in StlFiles, NEW g \in Slot \cup {None}, NEW e \in Corner, NEW f \in Slot
  PROVE  Tell(s, g, e, f) \in StlFiles
  BY MaxFacetsAssumption DEF Tell, StlFiles, None, Slot

(* stl_remove_facet keeps the structure well-typed, also when it stops at a *)
(* misdirected link.                                                        *)
LEMMA RemoveFacetType ==
  ASSUME NEW s \in StlFiles, NEW f \in Facets(s)
  PROVE  RemoveFacet(s, f) \in StlFiles
<1> DEFINE last == s.number_of_facets - 1
<1>1. last \in Slot /\ f \in Slot
  BY SMTT(20), MaxFacetsAssumption DEF StlFiles, Facets, Slot
<1>2. \A e \in Corner : /\ s.neighbor[last][e] \in Slot \cup {None}
                        /\ Next3(s.which_vertex_not[last][e]) \in Corner
  <2>1. /\ s.neighbor[last] \in [Corner -> Slot \cup {None}]
        /\ s.which_vertex_not[last] \in [Corner -> 0 .. 5]
    BY <1>1 DEF StlFiles
  <2>2. QED
    BY <2>1, CornerArithmetic
<1>3. 0 \in Corner /\ 1 \in Corner /\ 2 \in Corner
  BY DEF Corner
<1>4. MoveLast(s, f) \in StlFiles
  BY SMTT(20), MoveLastType
<1>5. QED
  BY <1>1, <1>2, <1>3, <1>4, TellType DEF RemoveFacet

(* Removing a facet when the last one has no neighbours tells nobody.       *)
LEMMA RemoveFacetUnlinked ==
  ASSUME NEW s \in StlFiles, NEW f \in Facets(s),
         \A e \in Corner : s.neighbor[s.number_of_facets - 1][e] = None
  PROVE  RemoveFacet(s, f) = MoveLast(s, f)
<1>1. 0 \in Corner /\ 1 \in Corner /\ 2 \in Corner
  BY DEF Corner
<1>2. QED
  BY <1>1 DEF RemoveFacet, Tell, Misdirected

(* stl_add_facet keeps the structure well-typed while a row is free.        *)
LEMMA AddFacetType ==
  ASSUME NEW s \in StlFiles, NEW t \in Facet, HasRoom(s)
  PROVE  AddFacet(s, t) \in StlFiles
<1>1. s.number_of_facets \in Slot /\ s.number_of_facets + 1 \in 0 .. MaxFacets
  BY SMTT(20), MaxFacetsAssumption DEF HasRoom, StlFiles, Slot
<1>2. s.facets_added + 1 \in Int
  BY DEF StlFiles
<1>3. [e \in Corner |-> None] \in [Corner -> Slot \cup {None}] /\ Zero \in Point
  BY DEF Zero, Point
<1>4. ASSUME NEW f \in Slot, NEW c \in Int, NEW w \in Point, NEW n \in [Corner -> Slot \cup {None}],
             NEW l \in 0 .. MaxFacets
      PROVE  [s EXCEPT !.facets_added = c, !.facet_start[f] = t, !.normal[f] = w,
                       !.neighbor[f] = n,
                       !.number_of_facets = l] \in StlFiles
  BY DEF StlFiles
<1>5. QED
  BY <1>1, <1>2, <1>3, <1>4 DEF AddFacet

-----------------------------------------------------------------------------
(* Recording a match between unconnected edges of two facets keeps the      *)
(* neighbour list symmetric.                                                *)
LEMMA RecordNeighborsMutual ==
  ASSUME NEW s \in StlFiles, NEW a \in Edge, NEW b \in Edge,
         a.facet_number # b.facet_number,
         a.facet_number \in Facets(s), b.facet_number \in Facets(s),
         s.neighbor[a.facet_number][a.which_edge % 3] = None,
         s.neighbor[b.facet_number][b.which_edge % 3] = None,
         Mutual(s)
  PROVE  Mutual(RecordNeighbors(s, a, b))
<1> DEFINE t  == RecordNeighbors(s, a, b)
           fa == a.facet_number
           fb == b.facet_number
           ea == a.which_edge % 3
           eb == b.which_edge % 3
           flip == IF (a.which_edge < 3) = (b.which_edge < 3) THEN 3 ELSE 0
<1>1. /\ t \in StlFiles
      /\ t.number_of_facets = s.number_of_facets
      /\ \A f \in Slot, e \in Corner :
           t.neighbor[f][e] = IF f = fa /\ e = ea THEN fb
                              ELSE IF f = fb /\ e = eb THEN fa
                              ELSE s.neighbor[f][e]
      /\ \A f \in Slot, e \in Corner :
           t.which_vertex_not[f][e] = IF f = fa /\ e = ea THEN Prev3(b.which_edge) + flip
                                      ELSE IF f = fb /\ e = eb
                                      THEN Prev3(a.which_edge) + flip
                                      ELSE s.which_vertex_not[f][e]
  BY RecordNeighborsFields
<1>2. /\ Facets(t) = Facets(s) /\ Facets(s) \subseteq Slot
      /\ fa \in Slot /\ fb \in Slot /\ ea \in Corner /\ eb \in Corner
  <2>1. Facets(t) = Facets(s)
    BY <1>1 DEF Facets
  <2>2. QED
    BY <2>1, FacetsAreSlots, CornerArithmetic DEF Edge
<1>3. /\ Next3(Prev3(b.which_edge) + flip) = eb
      /\ Next3(Prev3(a.which_edge) + flip) = ea
      /\ (Prev3(a.which_edge) + flip < 3) = (Prev3(b.which_edge) + flip < 3)
  BY CornerArithmetic DEF Edge, Corner
<1>4. fa # None /\ fb # None
  BY <1>2, MaxFacetsAssumption DEF Slot, None
<1> HIDE DEF t, flip
<1>5. ASSUME NEW f \in Facets(t), NEW e \in Corner
      PROVE  LinkedBack(t, f, e)
  <2> DEFINE na == t.neighbor[fa][ea]
             nb == t.neighbor[fb][eb]
             wa == t.which_vertex_not[fa][ea]
             wb == t.which_vertex_not[fb][eb]
  <2>0. /\ na = fb /\ nb = fa
        /\ Next3(wa) = eb /\ Next3(wb) = ea
        /\ (wa < 3) = (wb < 3)
    <3>1. wa = Prev3(b.which_edge) + flip /\ wb = Prev3(a.which_edge) + flip
      BY <1>1, <1>2
    <3>2. na = fb /\ nb = fa
      BY SMTT(20), <1>1, <1>2
    <3>3. QED
      BY <3>1, <3>2, <1>3
  <2>1. CASE f = fa /\ e = ea
    BY <2>0, <2>1, <1>2 DEF LinkedBack
  <2>2. CASE f = fb /\ e = eb
    BY <2>0, <2>2, <1>2 DEF LinkedBack
  <2>3. CASE ~ (f = fa /\ e = ea) /\ ~ (f = fb /\ e = eb)
    <3>1. f \in Facets(s) /\ LinkedBack(s, f, e)
      BY <1>2 DEF Mutual
    <3>2. /\ t.neighbor[f][e] = s.neighbor[f][e]
          /\ t.which_vertex_not[f][e] = s.which_vertex_not[f][e]
      BY <2>3, <1>1, <1>2
    <3> DEFINE g == s.neighbor[f][e]
               d == Next3(s.which_vertex_not[f][e])
    <3>3. CASE g = None
      BY <3>2, <3>3 DEF LinkedBack
    <3>4. CASE g # None
      <4>1. g \in Facets(s) /\ d \in Corner /\ s.neighbor[g][d] = f /\ f # None
        <5>1. f \in Slot /\ s.which_vertex_not[f][e] \in 0 .. 5
          BY <3>1, <1>2 DEF StlFiles
        <5>2. d \in Corner /\ f # None
          BY <5>1, CornerArithmetic, MaxFacetsAssumption DEF Slot, None
        <5>3. QED
          BY <3>1, <3>4, <5>2 DEF LinkedBack
      <4>2. ~ (g = fa /\ d = ea) /\ ~ (g = fb /\ d = eb)
        BY <4>1
      <4>3. /\ t.neighbor[g][d] = s.neighbor[g][d]
            /\ t.which_vertex_not[g][d] = s.which_vertex_not[g][d]
        BY <4>1, <4>2, <1>1, <1>2
      <4>4. QED
        BY <3>1, <3>2, <3>4, <4>3, <1>2 DEF LinkedBack
    <3>5. QED
      BY <3>3, <3>4
  <2>4. QED
    BY <2>1, <2>2, <2>3
<1>6. QED
  BY <1>5 DEF Mutual, t

(* Recording a match between two edges loaded with the same key keeps every *)
(* connected edge equal to its counterpart.                                 *)
LEMMA RecordNeighborsEdges ==
  ASSUME NEW s \in StlFiles, NEW a \in Edge, NEW b \in Edge,
         a.facet_number # b.facet_number, a.key = b.key,
         IsEdgeOf(s, a), IsEdgeOf(s, b),
         \A f \in Facets(s), e \in Corner : EdgeMatches(s, f, e)
  PROVE  LET t == RecordNeighbors(s, a, b)
         IN  \A f \in Facets(t), e \in Corner : EdgeMatches(t, f, e)
<1> DEFINE t  == RecordNeighbors(s, a, b)
           fa == a.facet_number
           fb == b.facet_number
           ea == a.which_edge % 3
           eb == b.which_edge % 3
           flip == IF (a.which_edge < 3) = (b.which_edge < 3) THEN 3 ELSE 0
           va(c) == s.facet_start[fa][c]
           vb(c) == s.facet_start[fb][c]
<1>1. /\ t.number_of_facets = s.number_of_facets
      /\ t.facet_start = s.facet_start
      /\ \A f \in Slot, e \in Corner :
           t.neighbor[f][e] = IF f = fa /\ e = ea THEN fb
                              ELSE IF f = fb /\ e = eb THEN fa
                              ELSE s.neighbor[f][e]
      /\ \A f \in Slot, e \in Corner :
           t.which_vertex_not[f][e] = IF f = fa /\ e = ea THEN Prev3(b.which_edge) + flip
                                      ELSE IF f = fb /\ e = eb
                                      THEN Prev3(a.which_edge) + flip
                                      ELSE s.which_vertex_not[f][e]
  BY RecordNeighborsFields
<1>2. /\ Facets(t) = Facets(s) /\ Facets(s) \subseteq Slot
      /\ ea \in Corner /\ eb \in Corner
  <2>1. Facets(t) = Facets(s)
    BY <1>1 DEF Facets
  <2>2. QED
    BY <2>1, FacetsAreSlots, CornerArithmetic DEF Edge
<1>3. /\ Prev3(Prev3(b.which_edge) + flip) = Next3(eb)
      /\ Next3(Prev3(b.which_edge) + flip) = eb
      /\ Prev3(Prev3(a.which_edge) + flip) = Next3(ea)
      /\ Next3(Prev3(a.which_edge) + flip) = ea
      /\ (Prev3(b.which_edge) + flip < 3) <=> flip = 0
      /\ (Prev3(a.which_edge) + flip < 3) <=> flip = 0
  BY CornerArithmetic DEF Edge, Corner
<1> HIDE DEF t
<1>4. IF (a.which_edge < 3) <=> (b.which_edge < 3)
      THEN va(ea) = vb(eb) /\ va(Next3(ea)) = vb(Next3(eb))
      ELSE va(ea) = vb(Next3(eb)) /\ va(Next3(ea)) = vb(eb)
  <2>1. /\ a.key = IF a.which_edge < 3 THEN <<va(ea), va(Next3(ea))>>
                                       ELSE <<va(Next3(ea)), va(ea)>>
    BY <1>2, CornerArithmetic DEF IsEdgeOf, LoadEdgeExact, LoadEdge, Corner, Edge
  <2>2. /\ b.key = IF b.which_edge < 3 THEN <<vb(eb), vb(Next3(eb))>>
                                       ELSE <<vb(Next3(eb)), vb(eb)>>
    BY <1>2, CornerArithmetic DEF IsEdgeOf, LoadEdgeExact, LoadEdge, Corner, Edge
  <2> DEFINE a1 == va(ea)
             a2 == va(Next3(ea))
             b1 == vb(eb)
             b2 == vb(Next3(eb))
  <2> HIDE DEF a1, a2, b1, b2
  <2>3. /\ a.key = IF a.which_edge < 3 THEN <<a1, a2>> ELSE <<a2, a1>>
        /\ a.key = IF b.which_edge < 3 THEN <<b1, b2>> ELSE <<b2, b1>>
    BY <2>1, <2>2 DEF a1, a2, b1, b2
  <2>4. IF (a.which_edge < 3) <=> (b.which_edge < 3)
        THEN a1 = b1 /\ a2 = b2
        ELSE a1 = b2 /\ a2 = b1
    BY <2>3
  <2>5. QED
    BY <2>4 DEF a1, a2, b1, b2
<1>41. flip = 0 <=> ~ ((a.which_edge < 3) <=> (b.which_edge < 3))
  OBVIOUS
<1> HIDE DEF flip
<1>5. ASSUME NEW f \in Facets(t), NEW e \in Corner
      PROVE  EdgeMatches(t, f, e)
  <2>0. /\ t.neighbor[fa][ea] = fb /\ t.neighbor[fb][eb] = fa
        /\ t.which_vertex_not[fa][ea] = Prev3(b.which_edge) + flip
        /\ t.which_vertex_not[fb][eb] = Prev3(a.which_edge) + flip
    BY <1>1, <1>2, FacetsAreSlots DEF IsEdgeOf
  <2> DEFINE xa == Prev3(b.which_edge) + flip
             xb == Prev3(a.which_edge) + flip
  <2> HIDE DEF xa, xb
  <2>a. /\ Prev3(xa) = Next3(eb) /\ Next3(xa) = eb /\ (xa < 3 <=> flip = 0)
        /\ Prev3(xb) = Next3(ea) /\ Next3(xb) = ea /\ (xb < 3 <=> flip = 0)
    BY <1>3 DEF xa, xb
  <2>b. IF flip = 0
        THEN va(ea) = vb(Next3(eb)) /\ va(Next3(ea)) = vb(eb)
        ELSE va(ea) = vb(eb) /\ va(Next3(ea)) = vb(Next3(eb))
    BY <1>4, <1>41
  <2>c. t.facet_start = s.facet_start
    BY <1>1
  <2>1. CASE f = fa /\ e = ea
    <3>1. t.neighbor[f][e] = fb /\ t.which_vertex_not[f][e] = xa
      BY <2>0, <2>1 DEF xa
    <3>2. QED
      <4>1. CASE flip = 0
        BY <3>1, <2>1, <2>a, <2>b, <2>c, <4>1 DEF EdgeMatches
      <4>2. CASE flip # 0
        BY <3>1, <2>1, <2>a, <2>b, <2>c, <4>2 DEF EdgeMatches
      <4>3. QED
        BY SMTT(20), <4>1, <4>2
  <2>2. CASE f = fb /\ e = eb
    <3>1. t.neighbor[f][e] = fa /\ t.which_vertex_not[f][e] = xb
      BY <2>0, <2>2 DEF xb
    <3>2. QED
      <4>1. CASE flip = 0
        BY <3>1, <2>2, <2>a, <2>b, <2>c, <4>1 DEF EdgeMatches
      <4>2. CASE flip # 0
        BY <3>1, <2>2, <2>a, <2>b, <2>c, <4>2 DEF EdgeMatches
      <4>3. QED
        BY <4>1, <4>2
  <2>3. CASE ~ (f = fa /\ e = ea) /\ ~ (f = fb /\ e = eb)
    <3>1. f \in Slot /\ EdgeMatches(s, f, e)
      BY <1>2
    <3>2. QED
      BY <2>3, <3>1, <1>1 DEF EdgeMatches
  <2>4. QED
    BY <2>1, <2>2, <2>3
<1>6. QED
  BY <1>5 DEF t

-----------------------------------------------------------------------------
(* A facet has three edges at most without a neighbour, and none with three *)
(* connected.                                                               *)
LEMMA UnconnectedType ==
  \A s, f : /\ Unconnected(s, f) \in 0 .. 3
            /\ (Unconnected(s, f) = 3 <=> \A e \in Corner : s.neighbor[f][e] = None)
  BY DEF Unconnected, Corner

(* The sets the counters count are finite.                                  *)
LEMMA FacetsFinite ==
  ASSUME NEW s \in StlFiles
  PROVE  /\ IsFiniteSet(Facets(s))
         /\ IsFiniteSet(Facets(s) \X Corner)
         /\ IsFiniteSet(ConnectedEdges(s))
         /\ \A S \in SUBSET Facets(s) : IsFiniteSet(S)
<1> DEFINE last == s.number_of_facets - 1
<1>1. IsFiniteSet(Facets(s)) /\ IsFiniteSet(Corner)
  <2>1. last \in Int /\ 0 \in Int /\ 2 \in Int
    BY MaxFacetsAssumption DEF StlFiles
  <2>2. Facets(s) = 0 .. last
    BY DEF Facets
  <2> HIDE DEF last
  <2>3. QED
    BY <2>1, <2>2, FS_Interval DEF Corner
<1>2. IsFiniteSet(Facets(s) \X Corner)
  BY <1>1, FS_Product
<1>3. IsFiniteSet(ConnectedEdges(s))
  BY <1>2, FS_Subset DEF ConnectedEdges
<1>4. \A S \in SUBSET Facets(s) : IsFiniteSet(S)
  BY <1>1, FS_Subset
<1>5. QED
  BY <1>1, <1>2, <1>3, <1>4

(* What a recorded match does to the counters: both sides of the link have  *)
(* one neighbour more.                                                      *)
LEMMA RecordNeighborsCounters ==
  ASSUME NEW s \in StlFiles, NEW a \in Edge, NEW b \in Edge,
         a.facet_number # b.facet_number,
         s.neighbor[a.facet_number][a.which_edge % 3] = None,
         s.neighbor[b.facet_number][b.which_edge % 3] = None
  PROVE  LET t  == RecordNeighbors(s, a, b)
             fa == a.facet_number
             fb == b.facet_number
         IN  /\ t.connected_edges = s.connected_edges + 2
             /\ \A f \in Slot :
                  Unconnected(t, f) = IF f \in {fa, fb} THEN Unconnected(s, f) - 1
                                      ELSE Unconnected(s, f)
             /\ \A k \in 1 .. 3 :
                  t.connected_facets[k] =
                    s.connected_facets[k] + (IF k = 3 - Unconnected(t, fa) THEN 1 ELSE 0)
                                          + (IF k = 3 - Unconnected(t, fb) THEN 1 ELSE 0)
<1> DEFINE t  == RecordNeighbors(s, a, b)
           fa == a.facet_number
           fb == b.facet_number
           ea == a.which_edge % 3
           eb == b.which_edge % 3
           l  == Link(s, a, b)
           m  == CountConnect(l, fa)
<1>1. /\ fa \in Slot /\ fb \in Slot /\ ea \in Corner /\ eb \in Corner
      /\ fa # None /\ fb # None
  BY CornerArithmetic, MaxFacetsAssumption DEF Edge, Slot, None
<1>2. /\ t \in StlFiles
      /\ \A f \in Slot, e \in Corner :
           t.neighbor[f][e] = IF f = fa /\ e = ea THEN fb
                              ELSE IF f = fb /\ e = eb THEN fa
                              ELSE s.neighbor[f][e]
  BY RecordNeighborsFields
<1>3. /\ l \in StlFiles
      /\ m \in StlFiles /\ \E c : m = [l EXCEPT !.connected_facets = c]
      /\ t \in StlFiles /\ \E c : t = [m EXCEPT !.connected_facets = c]
  <2>1. l \in StlFiles
    BY LinkType
  <2>2. m \in StlFiles /\ \E c : m = [l EXCEPT !.connected_facets = c]
    BY <2>1, CountConnectFields
  <2>3. t \in StlFiles /\ \E c : t = [m EXCEPT !.connected_facets = c]
    BY <2>2, CountConnectFields DEF RecordNeighbors
  <2>4. QED
    BY <2>1, <2>2, <2>3
<1>4. /\ l.neighbor = t.neighbor /\ m.neighbor = t.neighbor
      /\ t.connected_edges = l.connected_edges
  <2>1. m.neighbor = l.neighbor /\ m.connected_edges = l.connected_edges
    BY <1>3 DEF StlFiles
  <2>2. t.neighbor = m.neighbor /\ t.connected_edges = m.connected_edges
    BY <1>3 DEF StlFiles
  <2>3. QED
    BY <2>1, <2>2
<1>5. /\ l.connected_facets = s.connected_facets
      /\ l.connected_edges = s.connected_edges + 2
  BY DEF Link, StlFiles
<1>7. \A f : Unconnected(l, f) = Unconnected(t, f) /\ Unconnected(m, f) = Unconnected(t, f)
  BY <1>4 DEF Unconnected
<1> HIDE DEF t, l, m
<1>8. \A f \in Slot :
        Unconnected(t, f) = IF f \in {fa, fb} THEN Unconnected(s, f) - 1
                            ELSE Unconnected(s, f)
  <2>1. 0 \in Corner /\ 1 \in Corner /\ 2 \in Corner
    BY DEF Corner
  <2>2. ea \in {0, 1, 2} /\ eb \in {0, 1, 2}
    BY <1>1 DEF Corner
  <2> HIDE DEF fa, fb, ea, eb
  <2>3. s.neighbor[fa][ea] = None /\ s.neighbor[fb][eb] = None /\ fa # fb
    BY DEF fa, fb, ea, eb
  <2>4. ASSUME NEW f \in Slot, f = fa
        PROVE  Unconnected(t, f) = Unconnected(s, f) - 1
    BY <2>1, <2>2, <2>3, <2>4, <1>1, <1>2 DEF Unconnected
  <2>5. ASSUME NEW f \in Slot, f = fb
        PROVE  Unconnected(t, f) = Unconnected(s, f) - 1
    BY <2>1, <2>2, <2>3, <2>5, <1>1, <1>2 DEF Unconnected
  <2>6. ASSUME NEW f \in Slot, f \notin {fa, fb}
        PROVE  Unconnected(t, f) = Unconnected(s, f)
    BY <2>1, <2>6, <1>2 DEF Unconnected
  <2>7. QED
    BY <2>4, <2>5, <2>6
<1>9. Unconnected(t, fa) \in 0 .. 2 /\ Unconnected(t, fb) \in 0 .. 2
  BY <1>1, <1>8, UnconnectedType
<1>10. \A k \in 1 .. 3 :
         /\ m.connected_facets[k] =
              l.connected_facets[k] + (IF k = 3 - Unconnected(t, fa) THEN 1 ELSE 0)
         /\ t.connected_facets[k] =
              m.connected_facets[k] + (IF k = 3 - Unconnected(t, fb) THEN 1 ELSE 0)
  <2>1. ASSUME NEW z \in StlFiles, NEW f, Unconnected(z, f) \in 0 .. 2, NEW k \in 1 .. 3
        PROVE  CountConnect(z, f).connected_facets[k] =
                 z.connected_facets[k] + (IF k = 3 - Unconnected(z, f) THEN 1 ELSE 0)
    <3> DEFINE n == IF Unconnected(z, f) \in {1, 2} THEN 3 - Unconnected(z, f) ELSE 3
    <3>1. n \in 1 .. 3 /\ n = 3 - Unconnected(z, f)
      BY <2>1
    <3>2. CountConnect(z, f) = [z EXCEPT !.connected_facets[n] = @ + 1]
      BY DEF CountConnect
    <3> HIDE DEF n
    <3>3. z.connected_facets \in [1 .. 3 -> Int]
      BY DEF StlFiles
    <3>4. CountConnect(z, f).connected_facets = [z.connected_facets EXCEPT ![n] = @ + 1]
      BY <3>2 DEF StlFiles
    <3>5. QED
      BY <3>1, <3>3, <3>4
  <2>a. l \in StlFiles /\ m \in StlFiles
    BY <1>3
  <2>b. Unconnected(l, fa) \in 0 .. 2 /\ Unconnected(m, fb) \in 0 .. 2
    BY <1>7, <1>9
  <2>2. \A k \in 1 .. 3 : m.connected_facets[k] =
          l.connected_facets[k] + (IF k = 3 - Unconnected(l, fa) THEN 1 ELSE 0)
    BY <2>1, <2>a, <2>b DEF m
  <2>3. t = CountConnect(m, fb)
    BY DEF t, m, l, RecordNeighbors
  <2>4. \A k \in 1 .. 3 : t.connected_facets[k] =
          m.connected_facets[k] + (IF k = 3 - Unconnected(m, fb) THEN 1 ELSE 0)
    BY <2>1, <2>3, <2>a, <2>b
  <2>5. QED
    BY <2>2, <2>4, <1>7
<1>11. QED
  BY <1>4, <1>5, <1>8, <1>10 DEF t

(* A set to which one element is added, or none.                            *)
LEMMA AddOneOrNone ==
  ASSUME NEW S, IsFiniteSet(S), NEW x, NEW P \in BOOLEAN, P => x \notin S
  PROVE  LET T == S \cup (IF P THEN {x} ELSE {})
         IN  /\ IsFiniteSet(T)
             /\ Cardinality(T) = Cardinality(S) + (IF P THEN 1 ELSE 0)
<1>1. Cardinality(S) \in Nat
  BY FS_CardinalityType
<1>2. CASE P
  BY <1>1, <1>2, FS_AddElement
<1>3. CASE ~ P
  BY <1>1, <1>3
<1>4. QED
  BY <1>2, <1>3

(* Recording a match between unconnected edges of two facets keeps the      *)
(* counters exact.                                                          *)
LEMMA RecordNeighborsCounts ==
  ASSUME NEW s \in StlFiles, NEW a \in Edge, NEW b \in Edge,
         a.facet_number # b.facet_number,
         a.facet_number \in Facets(s), b.facet_number \in Facets(s),
         s.neighbor[a.facet_number][a.which_edge % 3] = None,
         s.neighbor[b.facet_number][b.which_edge % 3] = None
  PROVE  LET t == RecordNeighbors(s, a, b)
         IN  /\ CountersAgree(s) => CountersAgree(t)
             /\ Cardinality(ConnectedEdges(t)) = Cardinality(ConnectedEdges(s)) + 2
<1> DEFINE t  == RecordNeighbors(s, a, b)
           fa == a.facet_number
           fb == b.facet_number
           ea == a.which_edge % 3
           eb == b.which_edge % 3
           Least(z, k) == {f \in Facets(s) : 3 - Unconnected(z, f) >= k}
<1>1. /\ t \in StlFiles
      /\ t.number_of_facets = s.number_of_facets
      /\ \A f \in Slot, e \in Corner :
           t.neighbor[f][e] = IF f = fa /\ e = ea THEN fb
                              ELSE IF f = fb /\ e = eb THEN fa
                              ELSE s.neighbor[f][e]
  BY RecordNeighborsFields
<1>2. /\ \A f \in Slot :
           Unconnected(t, f) = IF f \in {fa, fb} THEN Unconnected(s, f) - 1
                               ELSE Unconnected(s, f)
      /\ \A k \in 1 .. 3 :
           t.connected_facets[k] =
             s.connected_facets[k] + (IF k = 3 - Unconnected(t, fa) THEN 1 ELSE 0)
                                   + (IF k = 3 - Unconnected(t, fb) THEN 1 ELSE 0)
  BY RecordNeighborsCounters
<1>3. /\ Facets(t) = Facets(s) /\ Facets(s) \subseteq Slot
      /\ ea \in Corner /\ eb \in Corner /\ fa # None /\ fb # None
  <2>1. Facets(t) = Facets(s)
    BY <1>1 DEF Facets
  <2>2. fa \in Slot /\ fb \in Slot /\ ea \in Corner /\ eb \in Corner
    BY CornerArithmetic DEF Edge
  <2>3. QED
    BY <2>1, <2>2, FacetsAreSlots, MaxFacetsAssumption DEF Slot, None
<1> HIDE DEF t
<1>4. ASSUME CountersAgree(s) PROVE CountersAgree(t)
  <2> SUFFICES ASSUME NEW k \in 1 .. 3
               PROVE  t.connected_facets[k] = Cardinality(Least(t, k))
    BY <1>3 DEF CountersAgree
  <2> DEFINE P == k = 3 - Unconnected(t, fa)
             Q == k = 3 - Unconnected(t, fb)
             A == Least(s, k) \cup (IF P THEN {fa} ELSE {})
             B == A \cup (IF Q THEN {fb} ELSE {})
  <2>1. Least(t, k) = B
    BY <1>2, <1>3, UnconnectedType
  <2>2. P => fa \notin Least(s, k)
    BY <1>2, <1>3, UnconnectedType
  <2>3. Q => fb \notin A
    BY <1>2, <1>3, UnconnectedType
  <2>4. IsFiniteSet(Least(s, k)) /\ P \in BOOLEAN /\ Q \in BOOLEAN
    BY FacetsFinite
  <2>7. s.connected_facets[k] = Cardinality(Least(s, k))
    BY <1>4 DEF CountersAgree
  <2>9. t.connected_facets[k] =
          s.connected_facets[k] + (IF P THEN 1 ELSE 0) + (IF Q THEN 1 ELSE 0)
    BY <1>2
  <2> HIDE DEF Least, P, Q
  <2>5. IsFiniteSet(A) /\ Cardinality(A) = Cardinality(Least(s, k)) + (IF P THEN 1 ELSE 0)
    BY <2>2, <2>4, AddOneOrNone
  <2> HIDE DEF A
  <2>6. Cardinality(B) = Cardinality(A) + (IF Q THEN 1 ELSE 0)
    BY <2>3, <2>4, <2>5, AddOneOrNone
  <2>8. QED
    BY <2>1, <2>5, <2>6, <2>7, <2>9
<1>5. Cardinality(ConnectedEdges(t)) = Cardinality(ConnectedEdges(s)) + 2
  <2>1. ConnectedEdges(t) = (ConnectedEdges(s) \cup {<<fa, ea>>}) \cup {<<fb, eb>>}
    BY <1>1, <1>3 DEF ConnectedEdges
  <2>2. /\ <<fa, ea>> \notin ConnectedEdges(s)
        /\ <<fb, eb>> \notin ConnectedEdges(s) \cup {<<fa, ea>>}
    BY DEF ConnectedEdges
  <2>3. IsFiniteSet(ConnectedEdges(s))
    BY FacetsFinite
  <2> DEFINE C == ConnectedEdges(s)
             D == C \cup {<<fa, ea>>}
  <2> HIDE DEF C, fa, ea, fb, eb
  <2>4. Cardinality(C) \in Nat /\ IsFiniteSet(C)
    BY <2>3, FS_CardinalityType DEF C
  <2>5. IsFiniteSet(D) /\ Cardinality(D) = Cardinality(C) + 1
    BY <2>2, <2>4, FS_AddElement DEF C
  <2>6. Cardinality(D \cup {<<fb, eb>>}) = Cardinality(D) + 1
    BY <2>2, <2>5, FS_AddElement DEF C
  <2>7. QED
    BY <2>1, <2>4, <2>5, <2>6 DEF C
<1>6. QED
  BY <1>4, <1>5 DEF t

(* Sets whose elements correspond one to one have the same cardinality.     *)
LEMMA OneToOne ==
  ASSUME NEW S, IsFiniteSet(S), NEW T, NEW m \in [S -> T],
         \A x, y \in S : m[x] = m[y] => x = y,
         \A y \in T : \E x \in S : m[x] = y
  PROVE  IsFiniteSet(T) /\ Cardinality(T) = Cardinality(S)
<1>1. m \in Bijection(S, T)
  BY DEF Bijection, Injection, Surjection, IsInjective
<1>2. ExistsBijection(S, T)
  BY <1>1 DEF ExistsBijection
<1>3. QED
  BY <1>2, FS_Bijection

(* Putting one element of a finite set in the place of another one.         *)
LEMMA ReplaceElement ==
  ASSUME NEW S, IsFiniteSet(S), NEW x \in S, NEW y, y = x \/ y \notin S
  PROVE  Cardinality((S \ {x}) \cup {y}) = Cardinality(S)
<1>1. IsFiniteSet(S \ {x}) /\ Cardinality(S \ {x}) = Cardinality(S) - 1
  BY FS_RemoveElement
<1>2. Cardinality((S \ {x}) \cup {y}) = Cardinality(S \ {x}) + 1
  BY <1>1, FS_AddElement
<1>3. Cardinality(S) \in Nat
  BY FS_CardinalityType
<1>4. QED
  BY <1>1, <1>2, <1>3

-----------------------------------------------------------------------------
(* A set of naturals has a least element.                                   *)
LEMMA LeastNatural ==
  ASSUME NEW T, T \subseteq Nat, T # {}
  PROVE  \E x \in T : \A y \in T : x <= y
<1> DEFINE R == OpToRel(<, Nat)
<1>1. IsWellFoundedOn(R, Nat)
  BY NatLessThanWellFounded
<1>2. \A x, y \in Nat : <<y, x>> \in R <=> y < x
  BY DEF OpToRel
<1> HIDE DEF R
<1>3. PICK x \in T : \A y \in T : ~ (<<y, x>> \in R)
  BY <1>1, WFMin
<1>4. ASSUME NEW y \in T PROVE x <= y
  <2>1. x \in Nat /\ y \in Nat
    OBVIOUS
  <2>2. ~ (y < x)
    BY <1>2, <1>3, <2>1
  <2>3. QED
    BY <2>1, <2>2
<1>5. QED
  BY <1>4

(* A finite set of integers has a least element.                            *)
LEMMA LeastInteger ==
  ASSUME NEW S, IsFiniteSet(S), S \subseteq Int, S # {}
  PROVE  \E x \in S : \A y \in S : x <= y
<1> DEFINE n == Cardinality(S)
<1>1. n \in Nat /\ \E m : m \in Bijection(1 .. n, S)
  BY FS_CardinalityType DEF ExistsBijection
<1>2. PICK m : m \in Bijection(1 .. n, S)
  BY <1>1
<1>3. \A k \in 1 .. n : m[k] \in Int
  BY <1>2 DEF Bijection, Injection
<1>4. \A y \in S : \E k \in 1 .. n : m[k] = y
  BY <1>2 DEF Bijection, Surjection
<1> HIDE DEF n
<1> DEFINE Bounded(l) == \E b \in Int : \A k \in 1 .. n : k <= l => b <= m[k]
           Unbounded == {l \in Nat : l <= n /\ ~ Bounded(l)}
<1>5. Unbounded = {}
  <2> SUFFICES ASSUME Unbounded # {} PROVE FALSE
    OBVIOUS
  <2>1. PICK l \in Unbounded : \A k \in Unbounded : l <= k
    <3>1. Unbounded \subseteq Nat
      OBVIOUS
    <3> HIDE DEF Unbounded
    <3>2. QED
      BY <3>1, LeastNatural
  <2>2. l # 0
    <3>1. \A k \in 1 .. n : ~ (k <= 0)
      OBVIOUS
    <3>2. Bounded(0)
      BY <3>1
    <3>3. QED
      BY <3>2
  <2>3. l \in Nat /\ l <= n /\ ~ Bounded(l)
    OBVIOUS
  <2>4. PICK b \in Int : \A k \in 1 .. n : k <= l - 1 => b <= m[k]
    <3> HIDE DEF Bounded
    <3>1. l - 1 \in Nat /\ l - 1 <= n /\ ~ (l <= l - 1) /\ l \in 1 .. n
      BY <1>1, <2>2, <2>3
    <3>2. l - 1 \notin Unbounded
      <4> HIDE DEF Unbounded
      <4>1. QED
        BY <2>1, <3>1
    <3>3. Bounded(l - 1)
      BY <3>1, <3>2
    <3>4. QED
      BY <3>3 DEF Bounded
  <2>4a. l \in 1 .. n
    BY <1>1, <2>2, <2>3
  <2> DEFINE c == IF b <= m[l] THEN b ELSE m[l]
  <2>5. c \in Int /\ \A k \in 1 .. n : k <= l => c <= m[k]
    <3>1. c \in Int /\ c <= b /\ c <= m[l]
      BY <1>3, <2>4a
    <3> HIDE DEF c
    <3>2. ASSUME NEW k \in 1 .. n, k <= l PROVE c <= m[k]
      <4>1. CASE k = l
        BY <3>1, <4>1
      <4>2. CASE k # l
        <5>1. k <= l - 1
          BY <1>1, <2>4a, <3>2, <4>2
        <5>2. b <= m[k] /\ m[k] \in Int
          BY <1>3, <2>4, <5>1
        <5>3. QED
          BY <3>1, <5>2
      <4>3. QED
        BY <4>1, <4>2
    <3>3. QED
      BY <3>1, <3>2
  <2> HIDE DEF c
  <2>6. Bounded(l)
    BY <2>5
  <2> HIDE DEF Bounded
  <2>7. QED
    BY <2>3, <2>6
<1>6. PICK b \in Int : \A k \in 1 .. n : b <= m[k]
  <2>1. n \in Nat /\ n <= n
    BY <1>1
  <2>2. Bounded(n)
    <3> HIDE DEF Bounded
    <3>1. QED
      BY <1>5, <2>1
  <2>3. PICK b \in Int : \A k \in 1 .. n : k <= n => b <= m[k]
    BY <2>2
  <2>4. \A k \in 1 .. n : k <= n
    BY <2>1
  <2>5. QED
    BY <2>3, <2>4
<1>7. \A y \in S : y - b \in Nat
  <2>1. ASSUME NEW y \in S PROVE y - b \in Nat
    <3>1. PICK k \in 1 .. n : m[k] = y
      BY <1>4
    <3>2. y \in Int /\ b <= y
      BY <1>6, <3>1
    <3>3. QED
      BY <3>2
  <2>2. QED
    BY <2>1
<1> DEFINE T == {y - b : y \in S}
<1>8. T \subseteq Nat /\ T # {}
  BY <1>7
<1>9. PICK d \in T : \A e \in T : d <= e
  <2> HIDE DEF T
  <2>1. QED
    BY <1>8, LeastNatural
<1>10. PICK x \in S : d = x - b
  OBVIOUS
<1>11. ASSUME NEW y \in S PROVE x <= y
  <2>1. x - b <= y - b /\ x \in Int /\ y \in Int
    BY <1>9, <1>10
  <2>2. QED
    BY <2>1
<1>12. QED
  BY <1>11

(* The oldest of some pending edges is one of them.                         *)
LEMMA OldestMember ==
  ASSUME NEW S, S \subseteq Edge, S # {}
  PROVE  Oldest(S) \in S
<1> DEFINE age(p) == 3 * p.facet_number + (p.which_edge % 3)
           T == {age(p) : p \in S}
<1>1. \A p \in S : age(p) \in Nat
  <2>1. ASSUME NEW f \in Nat, NEW w \in 0 .. 5 PROVE 3 * f + (w % 3) \in Nat
    OBVIOUS
  <2>2. \A p \in S : p.facet_number \in Nat /\ p.which_edge \in 0 .. 5
    BY MaxFacetsAssumption DEF Edge, Slot
  <2>3. QED
    BY <2>1, <2>2
<1>2. \E n \in T : \A m \in T : n <= m
  <2>1. T \subseteq Nat /\ T # {}
    BY <1>1
  <2> HIDE DEF T
  <2>2. QED
    BY <2>1, LeastNatural
<1>3. \E p \in S : \A q \in S : age(p) <= age(q)
  BY <1>2
<1>4. QED
  BY <1>3 DEF Oldest

(* Lengths are not negative.                                                *)
LEMMA MaxDiffNatural ==
  ASSUME NEW a \in Point, NEW b \in Point
  PROVE  MaxDiff(a, b) \in Nat
  BY DEF MaxDiff, DominantAxis, Diff, Point

(* The fields that recording a match leaves alone.                          *)
LEMMA RecordNeighborsRest ==
  ASSUME NEW s \in StlFiles, NEW a \in Edge, NEW b \in Edge
  PROVE  LET t == RecordNeighbors(s, a, b)
         IN  /\ t.normal = s.normal
             /\ t.shortest_edge = s.shortest_edge
             /\ t.degenerate_facets = s.degenerate_facets
             /\ t.facets_removed = s.facets_removed
             /\ t.facets_added = s.facets_added
             /\ t.edges_fixed = s.edges_fixed
<1> DEFINE l == Link(s, a, b)
           m == CountConnect(l, a.facet_number)
<1>1. l \in StlFiles
  BY LinkType
<1>2. m \in StlFiles /\ \E c \in [1 .. 3 -> Int] : m = [l EXCEPT !.connected_facets = c]
  BY <1>1, CountConnectFields
<1>3. \E d \in [1 .. 3 -> Int] : RecordNeighbors(s, a, b) = [m EXCEPT !.connected_facets = d]
  BY <1>2, CountConnectFields DEF RecordNeighbors
<1>4. /\ l.normal = s.normal /\ l.shortest_edge = s.shortest_edge
      /\ l.degenerate_facets = s.degenerate_facets /\ l.facets_removed = s.facets_removed
      /\ l.facets_added = s.facets_added /\ l.edges_fixed = s.edges_fixed
  BY DEF Link, StlFiles
<1> HIDE DEF l
<1>5. /\ m.normal = l.normal /\ m.shortest_edge = l.shortest_edge
      /\ m.degenerate_facets = l.degenerate_facets /\ m.facets_removed = l.facets_removed
      /\ m.facets_added = l.facets_added /\ m.edges_fixed = l.edges_fixed
  BY <1>1, <1>2 DEF StlFiles
<1> HIDE DEF m
<1>6. QED
  BY <1>2, <1>3, <1>4, <1>5 DEF StlFiles

(* The fields of t that a pass over the edges of s does not touch before it *)
(* records a match.                                                         *)
SameButTable(s, t) ==
  /\ t.number_of_facets = s.number_of_facets
  /\ t.facet_start = s.facet_start
  /\ t.normal = s.normal
  /\ t.neighbor = s.neighbor
  /\ t.which_vertex_not = s.which_vertex_not
  /\ t.connected_edges = s.connected_edges
  /\ t.connected_facets = s.connected_facets
  /\ t.degenerate_facets = s.degenerate_facets
  /\ t.facets_removed = s.facets_removed
  /\ t.facets_added = s.facets_added
  /\ t.edges_fixed = s.edges_fixed

(* insert_hash_edge leaves the edge pending, or takes the oldest pending    *)
(* edge of another facet with the same key out of the table and records the *)
(* match.                                                                   *)
LEMMA InsertHashEdgeResult ==
  ASSUME NEW s \in StlFiles, NEW edge \in Edge
  PROVE  LET t == InsertHashEdge(s, edge)
         IN  \E r \in StlFiles :
               /\ SameButTable(s, r) /\ r.shortest_edge = s.shortest_edge
               /\ \/ /\ t = r
                     /\ r.heads = s.heads \cup {edge}
                     /\ Matches(s, edge) = {}
                  \/ \E link \in s.heads :
                       /\ t = RecordNeighbors(r, edge, link)
                       /\ r.heads = s.heads \ {link}
                       /\ link \in Edge /\ link.key = edge.key
                       /\ link.facet_number # edge.facet_number
<1>1. ASSUME NEW H \in SUBSET Edge
      PROVE  LET r == [s EXCEPT !.heads = H]
             IN  /\ r \in StlFiles /\ SameButTable(s, r) /\ r.shortest_edge = s.shortest_edge
                 /\ r.heads = H
  BY DEF StlFiles, SameButTable
<1>2. s.heads \subseteq Edge
  BY DEF StlFiles
<1>3. CASE Matches(s, edge) = {}
  <2> DEFINE r == [s EXCEPT !.heads = s.heads \cup {edge}]
  <2>1. InsertHashEdge(s, edge) = r
    BY <1>3 DEF InsertHashEdge
  <2>2. /\ r \in StlFiles /\ SameButTable(s, r) /\ r.shortest_edge = s.shortest_edge
        /\ r.heads = s.heads \cup {edge}
    BY <1>1, <1>2
  <2> HIDE DEF r
  <2>3. QED
    BY <1>3, <2>1, <2>2
<1>4. CASE Matches(s, edge) # {}
  <2> DEFINE link == Oldest(Matches(s, edge))
             r == [s EXCEPT !.heads = s.heads \ {link}]
  <2>1. link \in Matches(s, edge)
    BY <1>2, <1>4, OldestMember DEF Matches
  <2>2. InsertHashEdge(s, edge) = RecordNeighbors(r, edge, link)
    BY <1>4 DEF InsertHashEdge
  <2> HIDE DEF link
  <2>3. /\ r \in StlFiles /\ SameButTable(s, r) /\ r.shortest_edge = s.shortest_edge
        /\ r.heads = s.heads \ {link}
    BY <1>1, <1>2
  <2>4. /\ link \in s.heads /\ link \in Edge /\ link.key = edge.key
        /\ link.facet_number # edge.facet_number
    BY <1>2, <2>1 DEF Matches
  <2> HIDE DEF r
  <2>5. QED
    BY <2>2, <2>3, <2>4
<1>5. QED
  BY <1>3, <1>4

(* The same for an edge loaded from a facet, which also brings the shortest *)
(* edge up to date.                                                         *)
LEMMA InsertEdgeExactResult ==
  ASSUME NEW s \in StlFiles, s.shortest_edge \in Nat,
         NEW f \in Slot, NEW e \in Corner, NEW t \in Facet
  PROVE  LET edge == LoadEdgeExact(f, e, t[e], t[Next3(e)])
             u    == InsertEdgeExact(s, f, e, t)
         IN  /\ edge \in Edge /\ edge.facet_number = f /\ edge.which_edge % 3 = e
             /\ \E r \in StlFiles :
                  /\ SameButTable(s, r) /\ r.shortest_edge \in Nat
                  /\ \/ /\ u = r
                        /\ r.heads = s.heads \cup {edge}
                        /\ Matches(s, edge) = {}
                     \/ \E link \in s.heads :
                          /\ u = RecordNeighbors(r, edge, link)
                          /\ r.heads = s.heads \ {link}
                          /\ link \in Edge /\ link.key = edge.key /\ link.facet_number # f
<1> DEFINE a == t[e]
           b == t[Next3(e)]
           edge == LoadEdgeExact(f, e, a, b)
           z == ShortestEdge(s, a, b)
<1>1. a \in Vertex /\ b \in Vertex
  <2>1. e \in 0 .. 5
    BY CornerArithmetic
  <2>2. Next3(e) \in Corner
    BY <2>1, CornerArithmetic
  <2>3. QED
    BY <2>2 DEF Facet
<1>2. edge \in Edge /\ edge.facet_number = f /\ edge.which_edge % 3 = e
  <2>1. edge \in Edge
    BY <1>1, LoadEdgeType
  <2>2. edge.facet_number = f /\ edge.which_edge % 3 = e
    BY CornerArithmetic DEF LoadEdgeExact, LoadEdge
  <2>3. QED
    BY <2>1, <2>2
<1>3. z \in StlFiles /\ SameButTable(s, z) /\ z.heads = s.heads /\ z.shortest_edge \in Nat
  <2>1. MaxDiff(a, b) \in Nat
    BY <1>1, MaxDiffNatural, VertexAssumption
  <2> DEFINE c == IF MaxDiff(a, b) < s.shortest_edge THEN MaxDiff(a, b) ELSE s.shortest_edge
  <2>2. c \in Nat /\ c \in Int /\ z = [s EXCEPT !.shortest_edge = c]
    BY <2>1 DEF ShortestEdge
  <2> HIDE DEF c, z
  <2>3. z \in StlFiles
    BY <2>2 DEF StlFiles
  <2>4. SameButTable(s, z) /\ z.heads = s.heads /\ z.shortest_edge = c
    BY <2>2 DEF StlFiles, SameButTable
  <2>5. QED
    BY <2>2, <2>3, <2>4
<1>4. InsertEdgeExact(s, f, e, t) = InsertHashEdge(z, edge)
  BY DEF InsertEdgeExact
<1> HIDE DEF edge, z
<1>5. PICK r \in StlFiles :
        /\ SameButTable(z, r) /\ r.shortest_edge = z.shortest_edge
        /\ \/ /\ InsertHashEdge(z, edge) = r
              /\ r.heads = z.heads \cup {edge}
              /\ Matches(z, edge) = {}
           \/ \E link \in z.heads :
                /\ InsertHashEdge(z, edge) = RecordNeighbors(r, edge, link)
                /\ r.heads = z.heads \ {link}
                /\ link \in Edge /\ link.key = edge.key
                /\ link.facet_number # edge.facet_number
  BY <1>2, <1>3, InsertHashEdgeResult
<1>6. SameButTable(s, r) /\ Matches(z, edge) = Matches(s, edge)
  BY <1>3, <1>5 DEF SameButTable, Matches
<1>7. QED
  BY <1>2, <1>3, <1>4, <1>5, <1>6 DEF edge

(* What the insertion of an edge keeps, whether it matches or not.          *)
LEMMA InsertEdgeExactKeeps ==
  ASSUME NEW s \in StlFiles, s.shortest_edge \in Nat,
         NEW f \in Slot, NEW e \in Corner, NEW t \in Facet
  PROVE  LET u == InsertEdgeExact(s, f, e, t)
         IN  /\ u \in StlFiles /\ u.shortest_edge \in Nat
             /\ u.number_of_facets = s.number_of_facets
             /\ u.facet_start = s.facet_start
             /\ u.normal = s.normal
<1> DEFINE edge == LoadEdgeExact(f, e, t[e], t[Next3(e)])
           u == InsertEdgeExact(s, f, e, t)
<1>1. edge \in Edge /\ edge.facet_number = f
  BY InsertEdgeExactResult
<1>2. PICK r \in StlFiles :
        /\ SameButTable(s, r) /\ r.shortest_edge \in Nat
        /\ \/ u = r
           \/ \E link \in s.heads : /\ u = RecordNeighbors(r, edge, link)
                                    /\ link \in Edge /\ link.facet_number # f
  BY InsertEdgeExactResult
<1> HIDE DEF edge, u
<1>3. CASE u = r
  BY <1>2, <1>3 DEF SameButTable, u
<1>4. ASSUME NEW link \in s.heads, u = RecordNeighbors(r, edge, link),
             link \in Edge, link.facet_number # f
      PROVE  /\ u \in StlFiles /\ u.shortest_edge \in Nat
             /\ u.number_of_facets = s.number_of_facets
             /\ u.facet_start = s.facet_start
             /\ u.normal = s.normal
  <2>1. /\ u \in StlFiles
        /\ u.number_of_facets = r.number_of_facets
        /\ u.facet_start = r.facet_start
    BY <1>1, <1>4, RecordNeighborsFields
  <2>2. u.normal = r.normal /\ u.shortest_edge = r.shortest_edge
    BY <1>1, <1>4, RecordNeighborsRest
  <2>3. QED
    BY <2>1, <2>2, <1>2 DEF SameButTable
<1>5. QED
  BY <1>2, <1>3, <1>4 DEF u

(* A turn around a vertex names corners of the facet it stands in.          *)
LEMMA TurnType ==
  ASSUME NEW v \in 0 .. 5, NEW d \in {0, 1}
  PROVE  /\ Turn(v, d).pivot_vertex \in Corner
         /\ Turn(v, d).next_edge \in Corner
         /\ Turn(v, d).direction \in {0, 1}
  BY CornerArithmetic DEF Turn

=============================================================================
