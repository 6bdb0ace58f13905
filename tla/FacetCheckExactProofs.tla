------------------------- MODULE FacetCheckExactProofs -------------------------
(****************************************************************************)
(* The safety of stl_check_facets_exact, for every set of meshes.  The      *)
(* inductive invariant IInv of FacetCheckExact says that the facets ahead   *)
(* of the loop are unconnected and that the hash table holds exactly the    *)
(* unconnected edges behind it, with distinct keys.  What the check counts  *)
(* and measures (the counters, the shortest edge, the facets that are left) *)
(* follows from IInv, by counting what one step adds to a finite set or     *)
(* takes from it.                                                           *)
(*                                                                          *)
(* At the end, the refinement of EdgeMatching.                              *)
(****************************************************************************)
EXTENDS FacetCheckExact, StlFileProofs

(* s and t are the same mesh, with the same neighbour list.                 *)
SameMesh(s, t) ==
  /\ t.number_of_facets = s.number_of_facets
  /\ t.facet_start = s.facet_start
  /\ t.neighbor = s.neighbor
  /\ t.which_vertex_not = s.which_vertex_not

(* Two structures with the same mesh have the same facets, and the same     *)
(* predicates hold of their edges.                                          *)
LEMMA SameMeshFacts ==
  ASSUME NEW s, NEW t, SameMesh(s, t)
  PROVE  /\ Facets(t) = Facets(s)
         /\ Mutual(t) <=> Mutual(s)
         /\ \A f, e : EdgeMatches(t, f, e) <=> EdgeMatches(s, f, e)
         /\ \A p : IsEdgeOf(t, p) <=> IsEdgeOf(s, p)
<1>1. Facets(t) = Facets(s)
  BY DEF SameMesh, Facets
<1>2. \A f, e : LinkedBack(t, f, e) <=> LinkedBack(s, f, e)
  BY <1>1 DEF SameMesh, LinkedBack
<1>3. \A f, e : EdgeMatches(t, f, e) <=> EdgeMatches(s, f, e)
  BY DEF SameMesh, EdgeMatches
<1>4. \A p : IsEdgeOf(t, p) <=> IsEdgeOf(s, p)
  BY <1>1 DEF SameMesh, IsEdgeOf
<1>5. QED
  BY <1>1, <1>2, <1>3, <1>4 DEF Mutual

(* Changing only the table or the shortest edge changes no facet or link.   *)
LEMMA HeadsOnly ==
  ASSUME NEW s \in StlFiles, NEW H \in SUBSET Edge
  PROVE  LET t == [s EXCEPT !.heads = H]
         IN  t \in StlFiles /\ SameMesh(s, t) /\ t.heads = H
  BY DEF StlFiles, SameMesh

(* Updating shortest_edge leaves the mesh, the links and the table alone.   *)
LEMMA ShortestOnly ==
  ASSUME NEW s \in StlFiles, NEW a \in Vertex, NEW b \in Vertex
  PROVE  LET t == ShortestEdge(s, a, b)
         IN  t \in StlFiles /\ SameMesh(s, t) /\ t.heads = s.heads
<1>1. PICK c \in Int : ShortestEdge(s, a, b) = [s EXCEPT !.shortest_edge = c]
  BY ShortestEdgeFields
<1>2. QED
  BY <1>1, ShortestEdgeFields DEF StlFiles, SameMesh

(* When no two pending edges have the same key, there is one match at most. *)
LEMMA OnlyMatch ==
  ASSUME NEW s \in StlFiles, NEW edge,
         \A p, q \in s.heads : p.key = q.key => p = q,
         Matches(s, edge) # {}
  PROVE  Oldest(Matches(s, edge)) \in Matches(s, edge)
<1>1. PICK p \in Matches(s, edge) : TRUE
  OBVIOUS
<1>2. p \in Edge
  BY <1>1 DEF Matches, StlFiles
<1>3. \A q \in Matches(s, edge) : q = p
  BY <1>1 DEF Matches
<1>4. 3 * p.facet_number + (p.which_edge % 3) \in Int
  BY <1>2, CornerArithmetic, MaxFacetsAssumption DEF Edge, Slot, Corner
<1>5. \A q \in Matches(s, edge) :
        3 * p.facet_number + (p.which_edge % 3) <= 3 * q.facet_number + (q.which_edge % 3)
  BY <1>3, <1>4
<1>6. QED
  BY <1>1, <1>5 DEF Oldest

-----------------------------------------------------------------------------
(* The inductive invariant holds when stl_check_facets_exact is called,     *)
(* whatever the neighbours are then.                                        *)
LEMMA StartIInv == TypeOK /\ pc = "start" /\ i = 0 /\ j = 0 => IInv
<1> SUFFICES ASSUME TypeOK, pc = "start", i = 0, j = 0 PROVE IInv
  OBVIOUS
<1>1. LoopProgress
  BY DEF TypeOK, LoopProgress, Loaded, Checked, Facets, StlFiles, Corner
<1>2. QED
  BY <1>1 DEF IInv, PendingExact, NeighborsMutual, EdgesMatch, NoMatchMissed, Checked

(* So it holds of a file just opened.                                       *)
LEMMA InitIInv == Init => IInv
<1> SUFFICES ASSUME Init PROVE IInv
  OBVIOUS
<1>1. /\ file \in Seq(Facet) /\ Len(file) <= MaxFacets /\ file \in Inputs
  BY InputsAssumption DEF Init
<1>2. stl \in StlFiles
  <2>1. NoNormals \in [Slot -> Point]
    BY DEF NoNormals, Zero, Point
  <2>2. QED
    BY <1>1, <2>1, StlOpenType DEF Init
<1>3. TypeOK
  BY <1>1, <1>2, MaxFacetsAssumption DEF Init, TypeOK, Corner
<1>4. QED
  BY <1>3, StartIInv DEF Init

(* It holds once every edge has been marked unconnected.                    *)
LEMMA InitializeIInv == IInv /\ Initialize => IInv'
<1> SUFFICES ASSUME IInv, Initialize PROVE IInv'
  OBVIOUS
<1>1. /\ stl \in StlFiles /\ i = 0 /\ j = 0
  BY SMTT(20) DEF IInv, TypeOK, Initialize, PendingExact
<1>2. /\ stl' \in StlFiles
      /\ stl'.number_of_facets = stl.number_of_facets
      /\ stl'.heads = {}
      /\ \A f \in Facets(stl), e \in Corner : stl'.neighbor[f][e] = None
  <2>1. [f \in Slot |-> IF f \in Facets(stl) THEN [e \in Corner |-> None]
                        ELSE stl.neighbor[f]] \in [Slot -> [Corner -> Slot \cup {None}]]
    BY <1>1 DEF StlFiles
  <2>2. [k \in 1 .. 3 |-> 0] \in [1 .. 3 -> Int]
    OBVIOUS
  <2>3. stl' \in StlFiles
    <3>1. ASSUME NEW n \in [Slot -> [Corner -> Slot \cup {None}]], NEW c \in [1 .. 3 -> Int],
                 NEW z \in Int, NEW h \in SUBSET Edge
          PROVE  [stl EXCEPT !.connected_edges = z, !.connected_facets = c,
                             !.neighbor = n, !.heads = h] \in StlFiles
      BY <1>1 DEF StlFiles
    <3>2. QED
      <4>1. 0 \in Int /\ {} \in SUBSET Edge
        OBVIOUS
      <4>2. QED
        BY <2>1, <2>2, <3>1, <4>1 DEF Initialize
  <2>4. \A f \in Facets(stl) : f \in Slot
    BY <1>1, FacetsAreSlots
  <2>5. QED
    BY <1>1, <2>3, <2>4 DEF Initialize, StlFiles
<1>3. Facets(stl') = Facets(stl)
  BY <1>2 DEF Facets
<1>4. TypeOK'
  BY <1>2 DEF IInv, TypeOK, Initialize
<1>9. /\ i' = 0 /\ j' = 0 /\ pc' = "facet"
      /\ \A f \in Facets(stl'), e \in Corner : ~ Loaded(f, e)'
  BY <1>1 DEF Initialize, Loaded, Facets, Corner
<1>5. LoopProgress'
  BY <1>9, <1>2, <1>3 DEF LoopProgress
<1>6. PendingExact'
  BY SMTT(20), <1>9, <1>2, <1>3 DEF PendingExact
<1>7. NeighborsMutual' /\ EdgesMatch'
  BY <1>2, <1>3 DEF NeighborsMutual, EdgesMatch, Mutual, LinkedBack, EdgeMatches
<1>8. QED
  BY <1>4, <1>5, <1>6, <1>7 DEF IInv, NoMatchMissed, Initialize

(* The facet that is removed, and those that are moved, are not connected.  *)
LEMMA RemoveDegenerateFacetRows ==
  ASSUME IInv, RemoveDegenerateFacet
  PROVE  LET last == stl.number_of_facets - 1
         IN  /\ stl' \in StlFiles
             /\ i \in 0 .. last /\ last \in Slot /\ last \in Int
             /\ Facets(stl) = 0 .. last /\ Facets(stl') = 0 .. last - 1
             /\ j = 0
             /\ stl'.number_of_facets = last
             /\ stl'.facet_start = [stl.facet_start EXCEPT ![i] = stl.facet_start[last]]
             /\ stl'.neighbor = [stl.neighbor EXCEPT ![i] = stl.neighbor[last]]
             /\ stl'.which_vertex_not =
                  [stl.which_vertex_not EXCEPT ![i] = stl.which_vertex_not[last]]
             /\ stl'.heads = stl.heads
             /\ stl'.connected_edges = stl.connected_edges
             /\ stl'.connected_facets = stl.connected_facets
             /\ stl'.shortest_edge = stl.shortest_edge
             /\ stl'.degenerate_facets = stl.degenerate_facets + 1
             /\ stl'.facets_removed = stl.facets_removed + 1
             /\ \A f \in Facets(stl), e \in Corner : f >= i => stl.neighbor[f][e] = None
<1> DEFINE s == [stl EXCEPT !.degenerate_facets = @ + 1]
           last == stl.number_of_facets - 1
<1>1. /\ stl \in StlFiles /\ pc = "facet"
      /\ i \in Facets(stl) /\ IsDegenerate(stl.facet_start[i])
      /\ stl' = RemoveFacet(s, i)
  BY DEF IInv, TypeOK, RemoveDegenerateFacet
<1>2. s \in StlFiles /\ SameMesh(stl, s) /\ s.heads = stl.heads
  <2>1. stl.degenerate_facets + 1 \in Int
    BY <1>1 DEF StlFiles
  <2>2. ASSUME NEW c \in Int
        PROVE  [stl EXCEPT !.degenerate_facets = c] \in StlFiles
    BY <1>1 DEF StlFiles
  <2>3. SameMesh(stl, s) /\ s.heads = stl.heads
    BY <1>1 DEF StlFiles, SameMesh
  <2>4. QED
    BY <2>1, <2>2, <2>3
<1>3. /\ s.connected_edges = stl.connected_edges /\ s.connected_facets = stl.connected_facets
      /\ s.shortest_edge = stl.shortest_edge /\ s.facets_removed = stl.facets_removed
      /\ s.degenerate_facets = stl.degenerate_facets + 1
  BY <1>1 DEF StlFiles
<1> HIDE DEF s
<1>4. j = 0
  BY <1>1 DEF IInv, TypeOK, LoopProgress, Loaded, Corner, Facets
<1>5. /\ i \in 0 .. last /\ last \in Slot /\ last \in Int /\ Facets(stl) = 0 .. last
      /\ last \in Facets(stl) /\ i \in Slot
  BY SMTT(20), <1>1, MaxFacetsAssumption DEF Facets, StlFiles, Slot
<1>6. \A f \in Facets(stl), e \in Corner : f >= i => stl.neighbor[f][e] = None
  BY <1>1, <1>4, <1>5 DEF IInv, LoopProgress, Loaded, Checked, Facets, Corner
<1>7. stl' = MoveLast(s, i)
  <2>1. \A e \in Corner : s.neighbor[s.number_of_facets - 1][e] = None
    BY <1>2, <1>5, <1>6 DEF SameMesh
  <2>2. i \in Facets(s)
    BY <1>1, <1>2, SameMeshFacts
  <2>3. QED
    BY <1>1, <1>2, <2>1, <2>2, RemoveFacetUnlinked
<1>8. stl' \in StlFiles
  BY <1>1, <1>2, <1>7, MoveLastType, SameMeshFacts
<1>9. /\ stl'.number_of_facets = last
      /\ stl'.facet_start = [stl.facet_start EXCEPT ![i] = stl.facet_start[last]]
      /\ stl'.neighbor = [stl.neighbor EXCEPT ![i] = stl.neighbor[last]]
      /\ stl'.which_vertex_not = [stl.which_vertex_not EXCEPT ![i] = stl.which_vertex_not[last]]
      /\ stl'.heads = stl.heads
      /\ stl'.connected_edges = stl.connected_edges
      /\ stl'.shortest_edge = stl.shortest_edge
      /\ stl'.degenerate_facets = stl.degenerate_facets + 1
      /\ stl'.facets_removed = stl.facets_removed + 1
      /\ stl'.connected_facets = [k \in 1 .. 3 |-> IF k <= 3 - Unconnected(s, i)
                                                  THEN s.connected_facets[k] - 1
                                                  ELSE s.connected_facets[k]]
  BY <1>2, <1>3, <1>7 DEF MoveLast, SameMesh, StlFiles
<1>10. Unconnected(s, i) = 3
  BY <1>1, <1>2, <1>5, <1>6, UnconnectedType DEF SameMesh
<1>11. stl'.connected_facets = stl.connected_facets
  BY <1>1, <1>2, <1>3, <1>9, <1>10 DEF StlFiles
<1>12. Facets(stl') = 0 .. last - 1
  BY <1>9 DEF Facets
<1>13. QED
  BY <1>4, <1>5, <1>6, <1>7, <1>8, <1>9, <1>11, <1>12

(* It survives the removal of the facet under test: the facets at and       *)
(* behind it are not linked to anything.                                    *)
LEMMA RemoveDegenerateFacetIInv == IInv /\ RemoveDegenerateFacet => IInv'
<1> SUFFICES ASSUME IInv, RemoveDegenerateFacet PROVE IInv'
  OBVIOUS
<1> DEFINE last == stl.number_of_facets - 1
<1>1. /\ stl \in StlFiles /\ pc = "facet" /\ pc' = "facet" /\ i' = i /\ j' = j
      /\ i \in Facets(stl)
  BY DEF IInv, TypeOK, RemoveDegenerateFacet
<1>7. /\ stl' \in StlFiles /\ j = 0
      /\ i \in 0 .. last /\ last \in Slot /\ last \in Int
      /\ Facets(stl) = 0 .. last /\ Facets(stl') = 0 .. last - 1
      /\ stl'.number_of_facets = last
      /\ stl'.heads = stl.heads
      /\ stl'.neighbor = [stl.neighbor EXCEPT ![i] = stl.neighbor[last]]
      /\ stl'.which_vertex_not = [stl.which_vertex_not EXCEPT ![i] = stl.which_vertex_not[last]]
      /\ stl'.facet_start = [stl.facet_start EXCEPT ![i] = stl.facet_start[last]]
      /\ \A f \in Facets(stl), e \in Corner : f >= i => stl.neighbor[f][e] = None
  BY RemoveDegenerateFacetRows
<1>3. j = 0
  BY <1>7
<1>4. /\ last \in Facets(stl) /\ last \in Slot /\ i \in Slot /\ i <= last /\ i \in Int
      /\ Facets(stl) = 0 .. last /\ last \in Int
  BY <1>1, <1>7, FacetsAreSlots
<1>5. \A f \in Facets(stl), e \in Corner : f >= i => stl.neighbor[f][e] = None
  BY <1>7
<1>8. /\ Facets(stl') = 0 .. last - 1
      /\ \A f \in Facets(stl') : f \in Facets(stl) /\ f \in Slot
  BY <1>7, <1>1, FacetsAreSlots
<1>9. \A f \in Facets(stl), e \in Corner :
        f < i => /\ f \in Facets(stl')
                 /\ stl'.neighbor[f][e] = stl.neighbor[f][e]
                 /\ stl'.which_vertex_not[f][e] = stl.which_vertex_not[f][e]
                 /\ stl'.facet_start[f] = stl.facet_start[f]
  <2> SUFFICES ASSUME NEW f \in Facets(stl), f < i
               PROVE  /\ f \in Facets(stl')
                      /\ stl'.neighbor[f] = stl.neighbor[f]
                      /\ stl'.which_vertex_not[f] = stl.which_vertex_not[f]
                      /\ stl'.facet_start[f] = stl.facet_start[f]
    OBVIOUS
  <2>1. f \in Facets(stl')
    BY <1>4, <1>8
  <2>2. f \in Slot /\ f # i
    BY <1>4, <1>8, <2>1
  <2>3. QED
    BY <1>1, <1>7, <2>1, <2>2 DEF StlFiles
<1>10. \A f \in Facets(stl'), e \in Corner : f >= i => stl'.neighbor[f][e] = None
  <2> SUFFICES ASSUME NEW f \in Facets(stl'), NEW e \in Corner, f >= i
               PROVE  stl'.neighbor[f][e] = None
    OBVIOUS
  <2>1. stl'.neighbor[f] = IF f = i THEN stl.neighbor[last] ELSE stl.neighbor[f]
    BY <1>1, <1>7, <1>8 DEF StlFiles
  <2>2. QED
    BY <2>1, <1>4, <1>5, <1>8
<1>11. \A f, e : Loaded(f, e)' <=> Loaded(f, e)
  BY <1>1 DEF Loaded
<1>12. \A f \in Facets(stl), e \in Corner : Loaded(f, e) <=> f < i
  BY <1>3, <1>4 DEF Loaded, Corner
<1>13. TypeOK'
  BY <1>7 DEF IInv, TypeOK, RemoveDegenerateFacet
<1>14. LoopProgress'
  <2>1. \A f \in Facets(stl'), e \in Corner :
          IF Loaded(f, e) THEN ~ IsDegenerate(stl'.facet_start[f])
                          ELSE stl'.neighbor[f][e] = None
    BY <1>4, <1>8, <1>9, <1>10, <1>12 DEF IInv, LoopProgress
  <2>2. QED
    BY <2>1, <1>1, <1>3, <1>11 DEF LoopProgress
<1>15. \A f \in Facets(stl), e \in Corner :
         f < i => (EdgeMatches(stl', f, e) /\ LinkedBack(stl', f, e))
  <2> SUFFICES ASSUME NEW f \in Facets(stl), NEW e \in Corner, f < i
               PROVE  EdgeMatches(stl', f, e) /\ LinkedBack(stl', f, e)
    OBVIOUS
  <2> DEFINE g == stl.neighbor[f][e]
             back == Next3(stl.which_vertex_not[f][e])
  <2>1. EdgeMatches(stl, f, e) /\ LinkedBack(stl, f, e)
    BY SMTT(20), <1>1 DEF IInv, EdgesMatch, NeighborsMutual, Mutual, Checked
  <2>2. CASE g = None
    BY <2>2, <1>9 DEF EdgeMatches, LinkedBack
  <2>3. CASE g # None
    <3>1. g \in Facets(stl) /\ stl.neighbor[g][back] = f
      BY <2>1, <2>3 DEF LinkedBack
    <3>2. back \in Corner /\ f # None
      <4>1. f \in Slot /\ f # None
        BY <1>1, FacetsAreSlots, MaxFacetsAssumption DEF Slot, None
      <4>2. stl.which_vertex_not[f][e] \in 0 .. 5
        BY <1>1, <4>1 DEF StlFiles
      <4>3. QED
        BY <4>1, <4>2, CornerArithmetic
    <3>3. g < i
      BY SMTT(20), <3>1, <3>2, <1>5, <1>4
    <3>4. EdgeMatches(stl', f, e)
      BY ZenonT(40), <2>1, <2>3, <3>1, <3>3, <1>9 DEF EdgeMatches
    <3>5. /\ stl'.neighbor[f][e] = g
          /\ stl'.which_vertex_not[f][e] = stl.which_vertex_not[f][e]
          /\ stl'.neighbor[g][back] = stl.neighbor[g][back]
          /\ stl'.which_vertex_not[g][back] = stl.which_vertex_not[g][back]
          /\ g \in Facets(stl')
      BY <3>1, <3>2, <3>3, <1>9
    <3>6. LinkedBack(stl', f, e)
      BY <2>1, <2>3, <3>5 DEF LinkedBack
    <3>7. QED
      BY <3>4, <3>6
  <2>4. QED
    BY <2>2, <2>3
<1>16. NeighborsMutual' /\ EdgesMatch'
  <2>1. ASSUME NEW f \in Facets(stl'), NEW e \in Corner
        PROVE  LinkedBack(stl', f, e) /\ EdgeMatches(stl', f, e)
    <3>1. CASE f < i
      BY <3>1, <1>8, <1>15
    <3>2. CASE f >= i
      BY <3>2, <1>10 DEF LinkedBack, EdgeMatches
    <3>3. QED
      BY <3>1, <3>2, <1>4, <1>8
  <2>2. QED
    BY <2>1 DEF NeighborsMutual, EdgesMatch, Mutual
<1>17. PendingExact'
  <2>1. ASSUME NEW p \in stl'.heads
        PROVE  /\ IsEdgeOf(stl', p)
               /\ Loaded(p.facet_number, p.which_edge % 3)
               /\ stl'.neighbor[p.facet_number][p.which_edge % 3] = None
    <3>1. /\ IsEdgeOf(stl, p)
          /\ Loaded(p.facet_number, p.which_edge % 3)
          /\ stl.neighbor[p.facet_number][p.which_edge % 3] = None
      BY <1>1, <1>7 DEF IInv, PendingExact
    <3>2. p.which_edge % 3 \in Corner
      BY <1>1, <1>7, CornerArithmetic DEF StlFiles, Edge
    <3>3. p.facet_number \in Facets(stl) /\ p.facet_number < i
      BY <3>1, <3>2, <1>12 DEF IsEdgeOf
    <3>4. QED
      BY <3>1, <3>2, <3>3, <1>9 DEF IsEdgeOf
  <2>2. ASSUME NEW f \in Facets(stl'), NEW e \in Corner,
               Loaded(f, e), stl'.neighbor[f][e] = None
        PROVE  \E p \in stl'.heads : p.facet_number = f /\ p.which_edge % 3 = e
    <3>1. f \in Facets(stl) /\ f < i
      BY <2>2, <1>8, <1>12
    <3>2. stl.neighbor[f][e] = None
      BY <2>2, <3>1, <1>9
    <3>3. QED
      BY <2>2, <3>1, <3>2, <1>1, <1>7 DEF IInv, PendingExact
  <2>3. \A p, q \in stl'.heads : p.key = q.key => p = q
    BY <1>1, <1>7 DEF IInv, PendingExact
  <2>4. QED
    BY <2>1, <2>2, <2>3, <1>1, <1>11 DEF PendingExact
<1>18. QED
  BY <1>1, <1>13, <1>14, <1>16, <1>17 DEF IInv, NoMatchMissed

(* The edge under test is loaded from the mesh; no pending edge of its own  *)
(* facet has its key.                                                       *)
LEMMA EdgeUnderTest ==
  ASSUME IInv, InsertEdge
  PROVE  LET va   == stl.facet_start[i][j]
             vb   == stl.facet_start[i][Next3(j)]
             edge == LoadEdgeExact(i, j, va, vb)
         IN  /\ va \in Vertex /\ vb \in Vertex /\ va # vb
             /\ edge \in Edge /\ edge.facet_number = i /\ edge.which_edge % 3 = j
             /\ IsEdgeOf(stl, edge)
             /\ ~ Loaded(i, j) /\ stl.neighbor[i][j] = None
             /\ \A p \in stl.heads : p.key = edge.key => p.facet_number # i
<1> DEFINE va == stl.facet_start[i][j]
           vb == stl.facet_start[i][Next3(j)]
           edge == LoadEdgeExact(i, j, va, vb)
<1>1. /\ stl \in StlFiles /\ pc = "facet"
      /\ i \in Facets(stl) /\ i \in Slot /\ j \in Corner
      /\ ~ IsDegenerate(stl.facet_start[i])
      /\ Facets(stl) = 0 .. stl.number_of_facets - 1 /\ stl.number_of_facets \in 0 .. MaxFacets
  BY FacetsAreSlots DEF IInv, TypeOK, InsertEdge, Facets, StlFiles
<1>2. Next3(j) \in Corner /\ va \in Vertex /\ vb \in Vertex /\ va # vb
  <2>1. Next3(j) \in Corner
    BY <1>1, CornerArithmetic
  <2>2. stl.facet_start[i] \in [Corner -> Vertex]
    BY <1>1 DEF StlFiles, Facet
  <2>3. va # vb
    BY <1>1 DEF IsDegenerate, Next3, Corner
  <2>4. QED
    BY <1>1, <2>1, <2>2, <2>3
<1>3. /\ edge \in Edge /\ edge.facet_number = i /\ edge.which_edge % 3 = j
      /\ IsEdgeOf(stl, edge)
  <2>1. edge \in Edge
    BY <1>1, <1>2, LoadEdgeType
  <2>2. edge.facet_number = i /\ edge.which_edge % 3 = j
    BY <1>1, CornerArithmetic DEF LoadEdgeExact, LoadEdge
  <2>3. QED
    BY <1>1, <2>1, <2>2 DEF IsEdgeOf
<1> HIDE DEF edge, va, vb
<1>4. ~ Loaded(i, j)
  BY <1>1 DEF Loaded, Corner, Facets
<1>5. /\ stl.neighbor[i][j] = None
      /\ \A p \in stl.heads : Loaded(p.facet_number, p.which_edge % 3)
  BY <1>1, <1>4 DEF IInv, LoopProgress, PendingExact, Checked
<1>6. \A p \in stl.heads : p.key = edge.key => p.facet_number # i
  <2> SUFFICES ASSUME NEW p \in stl.heads, p.key = edge.key, p.facet_number = i
               PROVE  FALSE
    OBVIOUS
  <2> DEFINE e == p.which_edge % 3
             t == stl.facet_start[i]
  <2>1. e \in Corner /\ Next3(e) \in Corner /\ e < j
    <3>1. p.which_edge \in 0 .. 5
      BY <1>1 DEF StlFiles, Edge
    <3>2. e \in Corner /\ Next3(e) \in Corner
      BY <3>1, CornerArithmetic
    <3>3. QED
      BY <3>2, <1>5, <1>1 DEF Loaded, Facets
  <2>2. t \in [Corner -> Vertex]
    BY <1>1 DEF StlFiles, Facet
  <2>3. p.key = LoadEdgeExact(i, e, t[e], t[Next3(e)]).key
    BY <1>1 DEF IInv, PendingExact, IsEdgeOf
  <2>4. edge.key = LoadEdgeExact(i, j, va, vb).key
    BY DEF edge
  <2>5. (va = t[e] /\ vb = t[Next3(e)]) \/ (va = t[Next3(e)] /\ vb = t[e])
    <3>1. t[e] \in Vertex /\ t[Next3(e)] \in Vertex
      BY <2>1, <2>2
    <3> DEFINE x == t[e]
               y == t[Next3(e)]
    <3>2. x \in Vertex /\ y \in Vertex /\ p.key = LoadEdgeExact(i, e, x, y).key
      BY <3>1, <2>3
    <3> HIDE DEF t, e, x, y
    <3>3. LoadEdgeExact(i, j, va, vb).key = LoadEdgeExact(i, e, x, y).key
            <=> (va = x /\ vb = y) \/ (va = y /\ vb = x)
      BY <3>2, <1>2, EqualKeys
    <3>4. (va = x /\ vb = y) \/ (va = y /\ vb = x)
      BY <3>2, <3>3, <2>4
    <3>5. QED
      BY <3>4 DEF x, y
  <2>6. t[0] # t[1] /\ t[1] # t[2] /\ t[0] # t[2]
    BY <1>1 DEF IsDegenerate
  <2> HIDE DEF e, t
  <2>7. va = t[j] /\ vb = t[Next3(j)]
    BY DEF va, vb, t
  <2>8. QED
    BY <2>1, <2>5, <2>6, <2>7, <1>1 DEF Corner, Next3
<1>7. QED
  BY <1>2, <1>3, <1>4, <1>5, <1>6 DEF va, vb, edge

(* What the insertion of the edge does: it stays pending, or it is          *)
(* connected to the one pending edge with its key.  r is the mesh as it was,*)
(* with the table and the shortest edge brought up to date.                 *)
LEMMA InsertEdgeResult ==
  ASSUME IInv, InsertEdge
  PROVE  LET va   == stl.facet_start[i][j]
             vb   == stl.facet_start[i][Next3(j)]
             edge == LoadEdgeExact(i, j, va, vb)
         IN  \E r \in StlFiles :
               /\ SameMesh(stl, r)
               /\ r.connected_edges = stl.connected_edges
               /\ r.connected_facets = stl.connected_facets
               /\ r.degenerate_facets = stl.degenerate_facets
               /\ r.facets_removed = stl.facets_removed
               /\ r.shortest_edge = IF MaxDiff(va, vb) < stl.shortest_edge THEN MaxDiff(va, vb)
                                    ELSE stl.shortest_edge
               /\ \/ /\ stl' = r
                     /\ r.heads = stl.heads \cup {edge}
                     /\ \A p \in stl.heads : p.key # edge.key
                  \/ \E link \in stl.heads :
                       /\ stl' = RecordNeighbors(r, edge, link)
                       /\ r.heads = stl.heads \ {link}
                       /\ link \in Edge /\ link.key = edge.key /\ link.facet_number # i
                       /\ link.facet_number \in Facets(stl) /\ link.which_edge % 3 \in Corner
                       /\ stl.neighbor[link.facet_number][link.which_edge % 3] = None
<1> DEFINE va == stl.facet_start[i][j]
           vb == stl.facet_start[i][Next3(j)]
           s == ShortestEdge(stl, va, vb)
           edge == LoadEdgeExact(i, j, va, vb)
           Result(r) ==
             /\ SameMesh(stl, r)
             /\ r.connected_edges = stl.connected_edges
             /\ r.connected_facets = stl.connected_facets
             /\ r.degenerate_facets = stl.degenerate_facets
             /\ r.facets_removed = stl.facets_removed
             /\ r.shortest_edge = IF MaxDiff(va, vb) < stl.shortest_edge THEN MaxDiff(va, vb)
                                  ELSE stl.shortest_edge
<1>1. stl \in StlFiles /\ pc = "facet" /\ stl' = InsertHashEdge(s, edge)
  BY DEF IInv, TypeOK, InsertEdge, InsertEdgeExact
<1>2. /\ va \in Vertex /\ vb \in Vertex
      /\ edge \in Edge /\ edge.facet_number = i
      /\ \A p \in stl.heads : p.key = edge.key => p.facet_number # i
  BY EdgeUnderTest
<1>3. s \in StlFiles /\ s.heads = stl.heads /\ Result(s)
  <2>1. PICK c \in Int : s = [stl EXCEPT !.shortest_edge = c]
    BY <1>1, <1>2, ShortestEdgeFields
  <2>2. s.shortest_edge = IF MaxDiff(va, vb) < stl.shortest_edge THEN MaxDiff(va, vb)
                          ELSE stl.shortest_edge
    BY <1>1 DEF ShortestEdge, StlFiles
  <2> HIDE DEF s, va, vb
  <2>3. s \in StlFiles
    BY <2>1, <1>1 DEF StlFiles
  <2>4. QED
    BY <2>1, <2>2, <2>3, <1>1 DEF StlFiles, SameMesh
<1> HIDE DEF s, edge, va, vb
<1>4. ASSUME NEW H \in SUBSET Edge
      PROVE  LET r == [s EXCEPT !.heads = H]
             IN  r \in StlFiles /\ r.heads = H /\ Result(r)
  BY <1>3 DEF StlFiles, SameMesh
<1> HIDE DEF Result
<1>5. CASE Matches(s, edge) = {}
  <2> DEFINE r == [s EXCEPT !.heads = s.heads \cup {edge}]
  <2>1. stl' = r
    BY <1>1, <1>5 DEF InsertHashEdge
  <2>2. s.heads \cup {edge} \in SUBSET Edge
    BY <1>2, <1>3 DEF StlFiles
  <2>3. r \in StlFiles /\ r.heads = stl.heads \cup {edge} /\ Result(r)
    BY <1>3, <1>4, <2>2
  <2>4. \A p \in stl.heads : p.key # edge.key
    BY <1>2, <1>3, <1>5 DEF Matches
  <2> HIDE DEF r
  <2>5. QED
    BY <2>1, <2>3, <2>4 DEF Result, va, vb, edge
<1>6. CASE Matches(s, edge) # {}
  <2> DEFINE link == Oldest(Matches(s, edge))
             r == [s EXCEPT !.heads = s.heads \ {link}]
  <2>1. \A p, q \in s.heads : p.key = q.key => p = q
    BY <1>1, <1>3 DEF IInv, PendingExact
  <2>2. link \in Matches(s, edge)
    BY <1>3, <1>6, <2>1, OnlyMatch
  <2>3. stl' = RecordNeighbors(r, edge, link)
    BY <1>1, <1>6 DEF InsertHashEdge
  <2> HIDE DEF link
  <2>4. /\ link \in stl.heads /\ link \in Edge /\ link.key = edge.key
        /\ link.facet_number # i
    BY <2>2, <1>1, <1>2, <1>3 DEF Matches, StlFiles
  <2>5. s.heads \ {link} \in SUBSET Edge
    BY <1>3 DEF StlFiles
  <2>6. r \in StlFiles /\ r.heads = stl.heads \ {link} /\ Result(r)
    BY <1>3, <1>4, <2>5
  <2> HIDE DEF r
  <2>7. /\ link.facet_number \in Facets(stl) /\ link.which_edge % 3 \in Corner
        /\ stl.neighbor[link.facet_number][link.which_edge % 3] = None
    BY <2>4, <1>1, CornerArithmetic DEF IInv, PendingExact, IsEdgeOf, Edge
  <2>8. QED
    BY <2>3, <2>4, <2>6, <2>7 DEF Result, va, vb, edge
<1>7. QED
  BY <1>5, <1>6
(* One edge is inserted: it stays pending, or it is connected to the one    *)
(* pending edge with its key.                                               *)
LEMMA InsertEdgeIInv == IInv /\ InsertEdge => IInv'
<1> SUFFICES ASSUME IInv, InsertEdge PROVE IInv'
  OBVIOUS
<1> DEFINE va == stl.facet_start[i][j]
           vb == stl.facet_start[i][Next3(j)]
           edge == LoadEdgeExact(i, j, va, vb)
<1>1. /\ stl \in StlFiles /\ pc = "facet" /\ pc' = "facet"
      /\ i \in Facets(stl) /\ i \in Slot /\ j \in Corner /\ Next3(j) \in Corner
      /\ ~ IsDegenerate(stl.facet_start[i])
      /\ Facets(stl) = 0 .. stl.number_of_facets - 1 /\ stl.number_of_facets \in 0 .. MaxFacets
  BY FacetsAreSlots, CornerArithmetic DEF IInv, TypeOK, InsertEdge, Facets, StlFiles
<1>4. /\ edge \in Edge /\ edge.facet_number = i /\ edge.which_edge % 3 = j
      /\ IsEdgeOf(stl, edge)
      /\ ~ Loaded(i, j) /\ stl.neighbor[i][j] = None
  BY EdgeUnderTest
<1>2. PICK r \in StlFiles :
        /\ SameMesh(stl, r)
        /\ \/ /\ stl' = r
              /\ r.heads = stl.heads \cup {edge}
              /\ \A p \in stl.heads : p.key # edge.key
           \/ \E link \in stl.heads :
                /\ stl' = RecordNeighbors(r, edge, link)
                /\ r.heads = stl.heads \ {link}
                /\ link \in Edge /\ link.key = edge.key /\ link.facet_number # i
                /\ link.facet_number \in Facets(stl) /\ link.which_edge % 3 \in Corner
                /\ stl.neighbor[link.facet_number][link.which_edge % 3] = None
  BY InsertEdgeResult
<1> HIDE DEF edge, va, vb
<1>5. \A p \in stl.heads : p.facet_number \in Facets(stl)
                            /\ Loaded(p.facet_number, p.which_edge % 3)
  BY <1>1 DEF IInv, PendingExact, IsEdgeOf
<1>6. \A f \in Facets(stl), e \in Corner :
        Loaded(f, e)' <=> Loaded(f, e) \/ (f = i /\ e = j)
  BY <1>1 DEF InsertEdge, Loaded, Next3, Corner, Facets
<1>7. \A p, q \in stl.heads : p.key = q.key => p = q
  BY <1>1 DEF IInv, PendingExact
<1>9. /\ Facets(r) = Facets(stl)
      /\ Mutual(r)
      /\ IsEdgeOf(r, edge)
      /\ \A f \in Facets(r), e \in Corner : EdgeMatches(r, f, e)
      /\ \A p \in stl.heads : IsEdgeOf(r, p)
  BY <1>1, <1>2, <1>4, SameMeshFacts
  DEF IInv, NeighborsMutual, EdgesMatch, PendingExact, Checked
(* What the insertion does to the mesh and to the table.                    *)
<1>10. /\ stl' \in StlFiles
       /\ stl'.number_of_facets = stl.number_of_facets
       /\ stl'.facet_start = stl.facet_start
       /\ Mutual(stl')
       /\ \A f \in Facets(stl), e \in Corner : EdgeMatches(stl', f, e)
       /\ \/ /\ stl'.heads = stl.heads \cup {edge}
             /\ stl'.neighbor = stl.neighbor
             /\ \A p \in stl.heads : p.key # edge.key
          \/ \E link \in stl.heads :
               /\ link.facet_number # i
               /\ stl'.heads = stl.heads \ {link}
               /\ \A f \in Facets(stl), e \in Corner :
                    stl'.neighbor[f][e] =
                      IF f = i /\ e = j THEN link.facet_number
                      ELSE IF f = link.facet_number /\ e = link.which_edge % 3 THEN i
                      ELSE stl.neighbor[f][e]
  <2>1. CASE stl' = r /\ r.heads = stl.heads \cup {edge}
             /\ \A p \in stl.heads : p.key # edge.key
    BY <2>1, <1>2, <1>9 DEF SameMesh
  <2>2. ASSUME NEW link \in stl.heads,
               stl' = RecordNeighbors(r, edge, link),
               r.heads = stl.heads \ {link},
               link \in Edge, link.key = edge.key, link.facet_number # i,
               link.facet_number \in Facets(stl), link.which_edge % 3 \in Corner,
               stl.neighbor[link.facet_number][link.which_edge % 3] = None
        PROVE  /\ stl' \in StlFiles
               /\ stl'.number_of_facets = stl.number_of_facets
               /\ stl'.facet_start = stl.facet_start
               /\ Mutual(stl')
               /\ \A f \in Facets(stl), e \in Corner : EdgeMatches(stl', f, e)
               /\ stl'.heads = stl.heads \ {link}
               /\ \A f \in Facets(stl), e \in Corner :
                    stl'.neighbor[f][e] =
                      IF f = i /\ e = j THEN link.facet_number
                      ELSE IF f = link.facet_number /\ e = link.which_edge % 3 THEN i
                      ELSE stl.neighbor[f][e]
    <3>1. /\ r.neighbor = stl.neighbor /\ r.facet_start = stl.facet_start
          /\ r.number_of_facets = stl.number_of_facets
      BY <1>2 DEF SameMesh
    <3>2. /\ stl' \in StlFiles
          /\ stl'.number_of_facets = r.number_of_facets
          /\ stl'.facet_start = r.facet_start
          /\ stl'.heads = r.heads
          /\ \A f \in Slot, e \in Corner :
               stl'.neighbor[f][e] =
                 IF f = i /\ e = j THEN link.facet_number
                 ELSE IF f = link.facet_number /\ e = link.which_edge % 3 THEN i
                 ELSE r.neighbor[f][e]
      <4>1. /\ link \in Edge /\ edge \in Edge /\ edge.facet_number # link.facet_number
            /\ edge.facet_number = i /\ edge.which_edge % 3 = j
            /\ stl' = RecordNeighbors(r, edge, link)
        BY <2>2, <1>4
      <4>2. QED
        BY <4>1, RecordNeighborsFields
    <3>3. Mutual(stl')
      BY <2>2, <3>1, <1>1, <1>2, <1>4, <1>9, RecordNeighborsMutual
    <3>4. \A f \in Facets(stl), e \in Corner : EdgeMatches(stl', f, e)
      <4>1. Facets(stl') = Facets(stl)
        BY <3>1, <3>2 DEF Facets
      <4>2. QED
        BY <4>1, <2>2, <1>2, <1>4, <1>9, RecordNeighborsEdges
    <3>5. \A f \in Facets(stl) : f \in Slot
      BY <1>1, FacetsAreSlots
    <3>6. QED
      BY <2>2, <3>1, <3>2, <3>3, <3>4, <3>5
  <2>3. QED
    BY <2>1, <2>2, <1>2
<1>11. Facets(stl') = Facets(stl)
  BY <1>10 DEF Facets
<1>12. TypeOK'
  BY <1>1, <1>10, <1>2, MaxFacetsAssumption DEF IInv, TypeOK, InsertEdge, Facets
<1>13. NeighborsMutual' /\ EdgesMatch'
  BY <1>10, <1>11 DEF NeighborsMutual, EdgesMatch
<1>14. /\ \A f \in Facets(stl), e \in Corner :
             ~ Loaded(f, e) /\ ~ (f = i /\ e = j) =>
               stl'.neighbor[f][e] = stl.neighbor[f][e]
       /\ ~ Loaded(i, j)
  BY <1>1, <1>5, <1>10 DEF Loaded, Facets, Corner
<1>15. LoopProgress'
  <2>1. j' # 0 => i' \in Facets(stl)
    BY <1>1 DEF InsertEdge, Next3, Corner
  <2>2. ASSUME NEW f \in Facets(stl), NEW e \in Corner
        PROVE  IF Loaded(f, e)' THEN ~ IsDegenerate(stl.facet_start[f])
                                ELSE stl'.neighbor[f][e] = None
    BY <1>1, <1>6, <1>14 DEF IInv, LoopProgress, Checked
  <2>3. QED
    BY <2>1, <2>2, <1>1, <1>10, <1>11 DEF LoopProgress
<1>16. PendingExact'
  <2> DEFINE Waiting(p) == /\ IsEdgeOf(stl', p)
                           /\ Loaded(p.facet_number, p.which_edge % 3)'
                           /\ stl'.neighbor[p.facet_number][p.which_edge % 3] = None
  <2>1. /\ \A p : IsEdgeOf(stl', p) <=> IsEdgeOf(stl, p)
    BY <1>10, <1>11 DEF IsEdgeOf
  <2>2. \A p \in stl.heads :
          /\ IsEdgeOf(stl, p) /\ p.facet_number \in Facets(stl)
          /\ Loaded(p.facet_number, p.which_edge % 3)
          /\ stl.neighbor[p.facet_number][p.which_edge % 3] = None
          /\ p.which_edge % 3 \in Corner
          /\ ~ (p.facet_number = i /\ p.which_edge % 3 = j)
    <3>1. \A p \in stl.heads : p.which_edge \in 0 .. 5
      BY <1>1 DEF StlFiles, Edge
    <3>2. QED
      BY <3>1, <1>1, <1>5, <1>14, CornerArithmetic DEF IInv, PendingExact
  <2>3. \A p, q \in stl.heads :
          p.facet_number = q.facet_number /\ p.which_edge % 3 = q.which_edge % 3 => p = q
    BY <2>2 DEF IsEdgeOf
  <2>4. \A f \in Facets(stl), e \in Corner :
          Loaded(f, e) /\ stl.neighbor[f][e] = None =>
            \E p \in stl.heads : p.facet_number = f /\ p.which_edge % 3 = e
    BY <1>1 DEF IInv, PendingExact
  <2>5. i # None /\ \A p \in stl.heads : p.facet_number # None
    BY <1>1, <1>5 DEF Facets, None
  <2>6. CASE /\ stl'.heads = stl.heads \cup {edge}
             /\ stl'.neighbor = stl.neighbor
             /\ \A p \in stl.heads : p.key # edge.key
    <3>1. ASSUME NEW p \in stl'.heads PROVE Waiting(p)
      <4>1. CASE p = edge
        BY <4>1, <2>1, <2>6, <1>1, <1>4, <1>5, <1>6
      <4>2. CASE p # edge
        BY <4>2, <2>1, <2>2, <2>6, <1>6
      <4>3. QED
        BY <4>1, <4>2
    <3>2. ASSUME NEW f \in Facets(stl), NEW e \in Corner,
                 Loaded(f, e)', stl'.neighbor[f][e] = None
          PROVE  \E p \in stl'.heads : p.facet_number = f /\ p.which_edge % 3 = e
      BY <3>2, <2>4, <2>6, <1>4, <1>6
    <3>3. \A p, q \in stl'.heads : p.key = q.key => p = q
      BY <2>6, <1>7
    <3>4. QED
      BY <3>1, <3>2, <3>3, <1>1, <1>11 DEF PendingExact
  <2>7. ASSUME NEW link \in stl.heads,
               link.facet_number # i,
               stl'.heads = stl.heads \ {link},
               \A f \in Facets(stl), e \in Corner :
                 stl'.neighbor[f][e] =
                   IF f = i /\ e = j THEN link.facet_number
                   ELSE IF f = link.facet_number /\ e = link.which_edge % 3 THEN i
                   ELSE stl.neighbor[f][e]
        PROVE  PendingExact'
    <3>1. ASSUME NEW p \in stl'.heads PROVE Waiting(p)
      <4>1. p \in stl.heads /\ p # link
        BY <2>7, <3>1
      <4>2. ~ (p.facet_number = link.facet_number /\ p.which_edge % 3 = link.which_edge % 3)
        BY <4>1, <2>3
      <4>3. stl'.neighbor[p.facet_number][p.which_edge % 3] = None
        BY <4>1, <4>2, <2>2, <2>7
      <4>4. QED
        BY <4>1, <4>3, <2>1, <2>2, <1>6
    <3>2. ASSUME NEW f \in Facets(stl), NEW e \in Corner,
                 Loaded(f, e)', stl'.neighbor[f][e] = None
          PROVE  \E p \in stl'.heads : p.facet_number = f /\ p.which_edge % 3 = e
      <4>1. ~ (f = i /\ e = j) /\ ~ (f = link.facet_number /\ e = link.which_edge % 3)
        BY <3>2, <2>5, <2>7
      <4>2. Loaded(f, e) /\ stl.neighbor[f][e] = None
        BY <4>1, <3>2, <2>7, <1>6
      <4>3. PICK p \in stl.heads : p.facet_number = f /\ p.which_edge % 3 = e
        BY <4>2, <2>4
      <4>4. QED
        BY <4>1, <4>3, <2>7
    <3>3. \A p, q \in stl'.heads : p.key = q.key => p = q
      BY <2>7, <1>7
    <3>4. QED
      BY <3>1, <3>2, <3>3, <1>1, <1>11 DEF PendingExact
  <2>8. QED
    BY <2>6, <2>7, <1>10
<1>17. QED
  BY <1>1, <1>12, <1>13, <1>15, <1>16 DEF IInv, NoMatchMissed

(* It holds when the pending edges are freed: an edge left without a        *)
(* neighbour was pending, and pending keys are distinct.                    *)
LEMMA FreeEdgesIInv == IInv /\ FreeEdges => IInv'
<1> SUFFICES ASSUME IInv, FreeEdges PROVE IInv'
  OBVIOUS
<1>1. /\ stl \in StlFiles /\ pc = "facet" /\ pc' = "done" /\ i' = i /\ j' = j
      /\ i \notin Facets(stl) /\ stl' = [stl EXCEPT !.heads = {}] /\ i \in Nat
      /\ Facets(stl) = 0 .. stl.number_of_facets - 1 /\ stl.number_of_facets \in 0 .. MaxFacets
  BY MaxFacetsAssumption DEF IInv, TypeOK, FreeEdges, Facets, StlFiles
<1>2. stl' \in StlFiles /\ SameMesh(stl, stl')
  BY <1>1, HeadsOnly
<1>3. /\ Facets(stl') = Facets(stl) /\ Mutual(stl') /\ j = 0
      /\ \A f \in Facets(stl'), e \in Corner : EdgeMatches(stl', f, e)
  BY <1>1, <1>2, SameMeshFacts
  DEF IInv, NeighborsMutual, EdgesMatch, Checked, LoopProgress
<1>4. \A f \in Facets(stl), e \in Corner : Loaded(f, e)
  BY <1>1 DEF Loaded
<1>5. NoMatchMissed'
  <2> SUFFICES ASSUME NEW f \in Facets(stl), NEW g \in Facets(stl),
                      NEW e \in Corner, NEW d \in Corner,
                      f # g, stl.neighbor[f][e] = None, stl.neighbor[g][d] = None,
                      EndPoints(stl, f, e) = EndPoints(stl, g, d)
               PROVE  FALSE
    BY <1>2, <1>3 DEF NoMatchMissed, SameMesh, EndPoints
  <2>1. PICK p \in stl.heads : p.facet_number = f /\ p.which_edge % 3 = e
    BY <1>1, <1>4 DEF IInv, PendingExact
  <2>2. PICK q \in stl.heads : q.facet_number = g /\ q.which_edge % 3 = d
    BY <1>1, <1>4 DEF IInv, PendingExact
  <2> DEFINE a == stl.facet_start[f][e]
             b == stl.facet_start[f][Next3(e)]
             x == stl.facet_start[g][d]
             y == stl.facet_start[g][Next3(d)]
  <2>3. p.key = LoadEdgeExact(f, e, a, b).key /\ q.key = LoadEdgeExact(g, d, x, y).key
    BY <2>1, <2>2, <1>1 DEF IInv, PendingExact, IsEdgeOf
  <2>4. a \in Vertex /\ b \in Vertex /\ x \in Vertex /\ y \in Vertex /\ a # b
    <3>1. f \in Slot /\ g \in Slot /\ Next3(e) \in Corner /\ Next3(d) \in Corner
      BY <1>1, FacetsAreSlots, CornerArithmetic
    <3>2. ~ IsDegenerate(stl.facet_start[f])
      BY <1>4 DEF IInv, LoopProgress
    <3>3. a # b
      BY <3>2 DEF IsDegenerate, Next3, Corner
    <3>4. QED
      BY <3>1, <3>3, <1>1 DEF StlFiles, Facet
  <2>5. (a = x /\ b = y) \/ (a = y /\ b = x)
    BY <2>4 DEF EndPoints
  <2> HIDE DEF a, b, x, y
  <2>6. p.key = q.key
    BY <2>3, <2>4, <2>5, EqualKeys
  <2>7. QED
    BY <2>1, <2>2, <2>6, <1>1 DEF IInv, PendingExact
<1>6. LoopProgress'
  BY <1>1, <1>2, <1>3, <1>4 DEF IInv, LoopProgress, Loaded, SameMesh
<1>7. QED
  BY <1>1, <1>2, <1>3, <1>5, <1>6
  DEF IInv, TypeOK, FreeEdges, PendingExact, NeighborsMutual, EdgesMatch

-----------------------------------------------------------------------------
(* Every step of the check keeps it.                                        *)
LEMMA IInvStep == IInv /\ [Next]_vars => IInv'
<1> SUFFICES ASSUME IInv, [Next]_vars PROVE IInv'
  OBVIOUS
<1>1. CASE Initialize
  BY <1>1, InitializeIInv
<1>2. CASE RemoveDegenerateFacet
  BY <1>2, RemoveDegenerateFacetIInv
<1>3. CASE InsertEdge
  BY <1>3, InsertEdgeIInv
<1>4. CASE FreeEdges
  BY <1>4, FreeEdgesIInv
<1>5. CASE UNCHANGED vars
  BY <1>5
  DEF vars, IInv, TypeOK, LoopProgress, PendingExact, NeighborsMutual, EdgesMatch,
      NoMatchMissed, Checked, Loaded
<1>6. QED
  BY <1>1, <1>2, <1>3, <1>4, <1>5 DEF Next, Returned

(* IInv is an invariant of the check.                                       *)
THEOREM Inductive == Spec => []IInv
  BY InitIInv, IInvStep, PTL DEF Spec

(* The variables of the check always have their types: no array is indexed  *)
(* out of bounds and no link names a row that does not exist.               *)
THEOREM TypeCorrect == Spec => []TypeOK
  BY Inductive, PTL DEF IInv

(* The neighbour list stl_check_facets_exact builds is symmetric.           *)
THEOREM NeighborsAreMutual == Spec => []NeighborsMutual
  BY Inductive, PTL DEF IInv

(* Facets are connected across identical edges only.                        *)
THEOREM ConnectedEdgesMatch == Spec => []EdgesMatch
  BY Inductive, PTL DEF IInv

(* The check leaves no edge unconnected that has a counterpart.             *)
THEOREM MatchingIsMaximal == Spec => []NoMatchMissed
  BY Inductive, PTL DEF IInv

-----------------------------------------------------------------------------
(****************************************************************************)
(* The counters.                                                            *)
(****************************************************************************)
(* The counters depend on the number of facets and on the neighbours only.  *)
LEMMA SameCounters ==
  ASSUME NEW s, NEW t,
         t.number_of_facets = s.number_of_facets,
         t.connected_edges = s.connected_edges,
         t.connected_facets = s.connected_facets,
         t.neighbor = s.neighbor
  PROVE  /\ CountersAgree(t) <=> CountersAgree(s)
         /\ ConnectedEdges(t) = ConnectedEdges(s)
<1>1. Facets(t) = Facets(s)
  BY DEF Facets
<1>2. \A f : Unconnected(t, f) = Unconnected(s, f)
  BY DEF Unconnected
<1>3. QED
  BY <1>1, <1>2 DEF CountersAgree, ConnectedEdges

(* Zeroed counters are exact when every edge is unconnected.                *)
LEMMA InitializeCounters == IInv /\ Initialize => CountersExact'
<1> SUFFICES ASSUME IInv, Initialize PROVE CountersExact'
  OBVIOUS
<1>1. stl \in StlFiles
  BY DEF IInv, TypeOK
<1>2. /\ Facets(stl') = Facets(stl)
      /\ stl'.connected_edges = 0
      /\ \A k \in 1 .. 3 : stl'.connected_facets[k] = 0
      /\ \A f \in Facets(stl), e \in Corner : stl'.neighbor[f][e] = None
  BY <1>1, FacetsAreSlots DEF Initialize, StlFiles, Facets
<1>3. \A f \in Facets(stl) : Unconnected(stl', f) = 3
  BY <1>2, UnconnectedType
<1>4. ConnectedEdges(stl') = {}
  BY <1>2 DEF ConnectedEdges
<1>5. \A k \in 1 .. 3 : {f \in Facets(stl) : 3 - Unconnected(stl', f) >= k} = {}
  BY <1>3
<1>6. QED
  BY <1>2, <1>4, <1>5, FS_EmptySet DEF CountersExact, CountersAgree

(* Removing a facet without neighbours leaves the counters exact.           *)
LEMMA RemoveDegenerateFacetCounters ==
  IInv /\ CountersExact /\ RemoveDegenerateFacet => CountersExact'
<1> SUFFICES ASSUME IInv, CountersExact, RemoveDegenerateFacet PROVE CountersExact'
  OBVIOUS
<1> DEFINE last == stl.number_of_facets - 1
<1>1. /\ stl' \in StlFiles
      /\ i \in 0 .. last /\ last \in Slot /\ last \in Int
      /\ Facets(stl) = 0 .. last /\ Facets(stl') = 0 .. last - 1
      /\ stl'.neighbor = [stl.neighbor EXCEPT ![i] = stl.neighbor[last]]
      /\ stl'.connected_edges = stl.connected_edges
      /\ stl'.connected_facets = stl.connected_facets
      /\ \A f \in Facets(stl), e \in Corner : f >= i => stl.neighbor[f][e] = None
  BY RemoveDegenerateFacetRows
<1>2. stl \in StlFiles /\ \A f \in Facets(stl) : f \in Slot
  BY FacetsAreSlots DEF IInv, TypeOK
<1> HIDE DEF last
<1>3. \A f \in Facets(stl') : /\ f \in Facets(stl)
                              /\ f < i => stl'.neighbor[f] = stl.neighbor[f]
                              /\ f >= i => \A e \in Corner : stl'.neighbor[f][e] = None
  <2> SUFFICES ASSUME NEW f \in Facets(stl')
               PROVE  /\ f \in Facets(stl)
                      /\ f < i => stl'.neighbor[f] = stl.neighbor[f]
                      /\ f >= i => \A e \in Corner : stl'.neighbor[f][e] = None
    OBVIOUS
  <2>1. f \in Facets(stl)
    BY <1>1
  <2>2. stl'.neighbor[f] = IF f = i THEN stl.neighbor[last] ELSE stl.neighbor[f]
    BY <1>1, <1>2, <2>1 DEF StlFiles
  <2>3. QED
    BY <1>1, <2>1, <2>2
<1>4. ConnectedEdges(stl') = ConnectedEdges(stl)
  <2>1. \A f \in Facets(stl), e \in Corner :
          stl.neighbor[f][e] # None => f \in Facets(stl') /\ f < i
    BY <1>1
  <2>2. \A f \in Facets(stl'), e \in Corner :
          stl'.neighbor[f][e] # None => f \in Facets(stl) /\ f < i
    BY <1>1, <1>3
  <2>3. \A f \in Facets(stl') : f < i => stl'.neighbor[f] = stl.neighbor[f]
    BY <1>3
  <2>4. QED
    BY <2>1, <2>2, <2>3 DEF ConnectedEdges
<1>5. \A f \in Facets(stl') : f < i => Unconnected(stl', f) = Unconnected(stl, f)
  BY <1>3 DEF Unconnected
<1>6. /\ \A f \in Facets(stl) : f >= i => Unconnected(stl, f) = 3
      /\ \A f \in Facets(stl') : f >= i => Unconnected(stl', f) = 3
  <2>1. ASSUME NEW f \in Facets(stl), f >= i PROVE Unconnected(stl, f) = 3
    <3>1. \A e \in Corner : stl.neighbor[f][e] = None
      BY <1>1, <2>1
    <3>2. QED
      BY <3>1, UnconnectedType
  <2>2. ASSUME NEW f \in Facets(stl'), f >= i PROVE Unconnected(stl', f) = 3
    <3>1. \A e \in Corner : stl'.neighbor[f][e] = None
      BY <1>3, <2>2
    <3>2. QED
      BY <3>1, UnconnectedType
  <2>3. QED
    BY <2>1, <2>2
<1>7. \A k \in 1 .. 3 :
        {f \in Facets(stl') : 3 - Unconnected(stl', f) >= k}
          = {f \in Facets(stl) : 3 - Unconnected(stl, f) >= k}
  <2>1. \A f \in Facets(stl) : f < i => f \in Facets(stl')
    BY <1>1
  <2>2. QED
    BY <1>1, <1>3, <1>5, <1>6, <2>1
<1>8. pc = "facet"
  BY DEF RemoveDegenerateFacet
<1>9. QED
  BY <1>1, <1>4, <1>7, <1>8 DEF CountersExact, CountersAgree, Checked

(* A match counts two edges, and each of its facets once more.              *)
LEMMA InsertEdgeCounters == IInv /\ CountersExact /\ InsertEdge => CountersExact'
<1> SUFFICES ASSUME IInv, CountersExact, InsertEdge PROVE CountersExact'
  OBVIOUS
<1> DEFINE edge == LoadEdgeExact(i, j, stl.facet_start[i][j], stl.facet_start[i][Next3(j)])
<1>1. /\ CountersAgree(stl)
      /\ stl.connected_edges = Cardinality(ConnectedEdges(stl))
      /\ i \in Facets(stl)
  BY DEF InsertEdge, CountersExact, Checked
<1>2. /\ edge \in Edge /\ edge.facet_number = i /\ edge.which_edge % 3 = j
      /\ stl.neighbor[i][j] = None
  BY EdgeUnderTest
<1>3. PICK r \in StlFiles :
        /\ SameMesh(stl, r)
        /\ r.connected_edges = stl.connected_edges
        /\ r.connected_facets = stl.connected_facets
        /\ \/ stl' = r
           \/ \E link \in stl.heads :
                /\ stl' = RecordNeighbors(r, edge, link)
                /\ link \in Edge /\ link.facet_number # i
                /\ link.facet_number \in Facets(stl)
                /\ stl.neighbor[link.facet_number][link.which_edge % 3] = None
  BY InsertEdgeResult
<1> HIDE DEF edge
<1>4. /\ CountersAgree(r) /\ r.connected_edges = Cardinality(ConnectedEdges(r))
      /\ Facets(r) = Facets(stl) /\ r.neighbor = stl.neighbor
  <2>1. CountersAgree(r) /\ ConnectedEdges(r) = ConnectedEdges(stl)
    BY <1>1, <1>3, SameCounters DEF SameMesh
  <2>2. QED
    BY <2>1, <1>1, <1>3, SameMeshFacts DEF SameMesh
<1>5. CASE stl' = r
  BY <1>4, <1>5 DEF CountersExact
<1>6. ASSUME NEW link \in stl.heads,
             stl' = RecordNeighbors(r, edge, link),
             link \in Edge, link.facet_number # i,
             link.facet_number \in Facets(stl),
             stl.neighbor[link.facet_number][link.which_edge % 3] = None
      PROVE  CountersExact'
  <2>1. /\ edge.facet_number # link.facet_number
        /\ edge.facet_number \in Facets(r) /\ link.facet_number \in Facets(r)
        /\ r.neighbor[edge.facet_number][edge.which_edge % 3] = None
        /\ r.neighbor[link.facet_number][link.which_edge % 3] = None
    BY <1>1, <1>2, <1>4, <1>6
  <2>2. /\ CountersAgree(stl')
        /\ Cardinality(ConnectedEdges(stl')) = Cardinality(ConnectedEdges(r)) + 2
    BY <2>1, <1>2, <1>4, <1>6, RecordNeighborsCounts
  <2>3. stl'.connected_edges = r.connected_edges + 2
    BY <2>1, <1>2, <1>6, RecordNeighborsCounters
  <2>4. QED
    BY <2>2, <2>3, <1>4 DEF CountersExact
<1>7. QED
  BY <1>3, <1>5, <1>6

(* The counters are exact whenever the neighbour list is meaningful.        *)
LEMMA CountersStep == IInv /\ CountersExact /\ [Next]_vars => CountersExact'
<1> SUFFICES ASSUME IInv, CountersExact, [Next]_vars PROVE CountersExact'
  OBVIOUS
<1>1. CASE Initialize
  BY <1>1, InitializeCounters
<1>2. CASE RemoveDegenerateFacet
  BY <1>2, RemoveDegenerateFacetCounters
<1>3. CASE InsertEdge
  BY <1>3, InsertEdgeCounters
<1>4. CASE FreeEdges
  <2>1. /\ stl'.number_of_facets = stl.number_of_facets
        /\ stl'.connected_edges = stl.connected_edges
        /\ stl'.connected_facets = stl.connected_facets
        /\ stl'.neighbor = stl.neighbor
    BY <1>4 DEF FreeEdges, IInv, TypeOK, StlFiles
  <2>2. (CountersAgree(stl') <=> CountersAgree(stl)) /\ ConnectedEdges(stl') = ConnectedEdges(stl)
    BY <2>1, SameCounters
  <2>3. QED
    BY <2>1, <2>2, <1>4 DEF FreeEdges, CountersExact, Checked
<1>5. CASE UNCHANGED vars
  BY <1>5 DEF vars, CountersExact, Checked
<1>6. QED
  BY <1>1, <1>2, <1>3, <1>4, <1>5 DEF Next, Returned

(* The statistics of the exact check, from which stl_repair chooses the     *)
(* passes to run, count what the neighbour list holds.                      *)
THEOREM StatisticsExact == Spec => []CountersExact
<1>1. Init => CountersExact
  BY DEF Init, CountersExact, Checked
<1>2. QED
  BY <1>1, CountersStep, Inductive, PTL DEF Spec

-----------------------------------------------------------------------------
(* What the insertion of an edge leaves alone: the facets and the number of *)
(* those removed; it brings the shortest edge up to date.                   *)
LEMMA InsertEdgeMesh ==
  ASSUME IInv, InsertEdge
  PROVE  LET length == MaxDiff(stl.facet_start[i][j], stl.facet_start[i][Next3(j)])
         IN  /\ stl'.number_of_facets = stl.number_of_facets
             /\ stl'.facet_start = stl.facet_start
             /\ stl'.degenerate_facets = stl.degenerate_facets
             /\ stl'.facets_removed = stl.facets_removed
             /\ stl'.shortest_edge = IF length < stl.shortest_edge THEN length
                                     ELSE stl.shortest_edge
<1> DEFINE edge   == LoadEdgeExact(i, j, stl.facet_start[i][j], stl.facet_start[i][Next3(j)])
           length == MaxDiff(stl.facet_start[i][j], stl.facet_start[i][Next3(j)])
<1>1. edge \in Edge /\ edge.facet_number = i
  BY EdgeUnderTest
<1>2. PICK r \in StlFiles :
        /\ SameMesh(stl, r)
        /\ r.degenerate_facets = stl.degenerate_facets
        /\ r.facets_removed = stl.facets_removed
        /\ r.shortest_edge = IF length < stl.shortest_edge THEN length ELSE stl.shortest_edge
        /\ \/ stl' = r
           \/ \E link \in stl.heads :
                /\ stl' = RecordNeighbors(r, edge, link)
                /\ link \in Edge /\ link.facet_number # i
  BY InsertEdgeResult
<1> HIDE DEF edge, length
<1>3. CASE stl' = r
  BY <1>2, <1>3 DEF SameMesh, length
<1>4. ASSUME NEW link \in stl.heads, stl' = RecordNeighbors(r, edge, link),
             link \in Edge, link.facet_number # i
      PROVE  /\ stl'.number_of_facets = r.number_of_facets
             /\ stl'.facet_start = r.facet_start
             /\ stl'.degenerate_facets = r.degenerate_facets
             /\ stl'.facets_removed = r.facets_removed
             /\ stl'.shortest_edge = r.shortest_edge
  <2>1. PICK c \in [1 .. 3 -> Int] :
          CountConnect(Link(r, edge, link), edge.facet_number)
            = [Link(r, edge, link) EXCEPT !.connected_facets = c]
    BY <1>1, <1>4, LinkType, CountConnectFields
  <2>2. CountConnect(Link(r, edge, link), edge.facet_number) \in StlFiles
    BY <1>1, <1>4, LinkType, CountConnectFields
  <2>3. PICK d \in [1 .. 3 -> Int] :
          stl' = [CountConnect(Link(r, edge, link), edge.facet_number)
                    EXCEPT !.connected_facets = d]
    BY <1>4, <2>2, CountConnectFields DEF RecordNeighbors
  <2>4. stl' = [[Link(r, edge, link) EXCEPT !.connected_facets = c]
                  EXCEPT !.connected_facets = d]
    BY <2>1, <2>3
  <2>5. QED
    BY <2>4 DEF Link, StlFiles
<1>5. QED
  BY <1>2, <1>3, <1>4 DEF SameMesh, length

(* Once the function has returned, every edge has been through the table.   *)
AllLoaded == pc = "done" => \A f \in Facets(stl), e \in Corner : Loaded(f, e)

(* The pending edges are freed past the last facet only.                    *)
LEMMA AllLoadedStep == IInv /\ AllLoaded /\ [Next]_vars => AllLoaded'
<1> SUFFICES ASSUME IInv, AllLoaded, [Next]_vars PROVE AllLoaded'
  OBVIOUS
<1>1. CASE FreeEdges
  <2>1. i \notin Facets(stl) /\ j = 0 /\ i \in 0 .. MaxFacets
    BY <1>1 DEF FreeEdges, IInv, TypeOK, LoopProgress
  <2>2. stl.number_of_facets \in 0 .. MaxFacets /\ Facets(stl') = Facets(stl)
    BY <1>1 DEF FreeEdges, IInv, TypeOK, StlFiles, Facets
  <2>3. i' = i /\ j' = j
    BY <1>1 DEF FreeEdges
  <2>4. \A f \in Facets(stl) : f < i
    BY <2>1, <2>2, MaxFacetsAssumption DEF Facets
  <2>5. QED
    BY <2>2, <2>3, <2>4 DEF AllLoaded, Loaded
<1>2. CASE UNCHANGED vars
  BY <1>2 DEF vars, AllLoaded, Loaded
<1>3. QED
  BY <1>1, <1>2
  DEF Next, Initialize, RemoveDegenerateFacet, InsertEdge, Returned, AllLoaded

-----------------------------------------------------------------------------
(* The extent of edge e of facet f, along the axis where it is longest.     *)
Extent(f, e) == MaxDiff(stl.facet_start[f][e], stl.facet_start[f][Next3(e)])

(* The search for the shortest edge, when the first facet is not degenerate:*)
(* that facet stays in the first row, shortest_edge is the extent of its    *)
(* first edge or of an edge loaded since, and no loaded edge has less.      *)
ShortestSoFar ==
  file # <<>> /\ ~ IsDegenerate(file[1]) =>
    /\ 0 \in Facets(stl)
    /\ stl.facet_start[0] = file[1]
    /\ \E f \in Facets(stl), e \in Corner :
         /\ (f = 0 /\ e = 0) \/ Loaded(f, e)
         /\ stl.shortest_edge = Extent(f, e)
    /\ \A f \in Facets(stl), e \in Corner :
         Loaded(f, e) => stl.shortest_edge <= Extent(f, e)

(* The extents are integers.                                                *)
LEMMA ExtentType ==
  ASSUME stl \in StlFiles, NEW f \in Facets(stl), NEW e \in Corner
  PROVE  Extent(f, e) \in Int
<1>1. f \in Slot /\ e \in 0 .. 5
  BY FacetsAreSlots, CornerArithmetic
<1>2. Next3(e) \in Corner
  BY <1>1, CornerArithmetic
<1>3. stl.facet_start[f] \in [Corner -> Vertex]
  BY <1>1 DEF StlFiles, Facet
<1>4. stl.facet_start[f][e] \in Point /\ stl.facet_start[f][Next3(e)] \in Point
  BY <1>2, <1>3, VertexAssumption
<1>5. QED
  BY <1>4, MaxDiffType DEF Extent

(* stl_open starts the search from the first edge of the first facet.       *)
LEMMA ShortestInit == Init => ShortestSoFar
<1> SUFFICES ASSUME Init, file # <<>>, ~ IsDegenerate(file[1]) PROVE ShortestSoFar
  BY DEF ShortestSoFar
<1>1. /\ file \in Seq(Facet) /\ Len(file) \in Nat \ {0} /\ Len(file) <= MaxFacets
  BY InputsAssumption DEF Init
<1>2. 0 \in Facets(stl) /\ 0 \in Slot
  BY <1>1, MaxFacetsAssumption DEF Init, StlOpen, Facets, Slot
<1>3. stl.facet_start[0] = file[1] /\ stl.shortest_edge = MaxDiff(file[1][0], file[1][1])
  BY <1>1, <1>2 DEF Init, StlOpen
<1>4. 0 \in Corner /\ Next3(0) = 1
  BY DEF Corner, Next3
<1>5. stl.shortest_edge = Extent(0, 0)
  BY <1>3, <1>4 DEF Extent
<1>6. \A f \in Facets(stl), e \in Corner : ~ Loaded(f, e)
  BY <1>1 DEF Init, Loaded, Facets, Corner, StlOpen
<1>7. QED
  BY <1>2, <1>3, <1>4, <1>5, <1>6 DEF ShortestSoFar

(* The facet in the first row is not degenerate, so the search starts from  *)
(* an edge that is not removed, and goes on over the edges inserted.        *)
LEMMA ShortestStep == IInv /\ ShortestSoFar /\ [Next]_vars => ShortestSoFar'
<1> SUFFICES ASSUME IInv, ShortestSoFar, [Next]_vars, file # <<>>, ~ IsDegenerate(file[1])
             PROVE  ShortestSoFar'
  BY DEF ShortestSoFar, Next, Initialize, RemoveDegenerateFacet, InsertEdge, FreeEdges,
         Returned, vars
<1>1. /\ stl \in StlFiles /\ stl.shortest_edge \in Int
      /\ \A f \in Facets(stl) : f \in Slot
      /\ 0 \in Facets(stl) /\ stl.facet_start[0] = file[1]
      /\ \A f \in Facets(stl), e \in Corner : Loaded(f, e) => stl.shortest_edge <= Extent(f, e)
      /\ i \in 0 .. MaxFacets /\ j \in Corner
  BY FacetsAreSlots DEF IInv, TypeOK, ShortestSoFar, StlFiles
<1>2. PICK g \in Facets(stl), d \in Corner :
        /\ (g = 0 /\ d = 0) \/ Loaded(g, d)
        /\ stl.shortest_edge = Extent(g, d)
  BY DEF ShortestSoFar
<1>3. CASE Initialize
  <2>1. /\ stl'.number_of_facets = stl.number_of_facets
        /\ stl'.facet_start = stl.facet_start
        /\ stl'.shortest_edge = stl.shortest_edge
        /\ i' = i /\ j' = j /\ file' = file
    BY <1>1, <1>3 DEF Initialize, StlFiles
  <2>2. QED
    BY <2>1 DEF ShortestSoFar, Loaded, Extent, Facets
<1>4. CASE FreeEdges
  <2>1. /\ stl'.number_of_facets = stl.number_of_facets
        /\ stl'.facet_start = stl.facet_start
        /\ stl'.shortest_edge = stl.shortest_edge
        /\ i' = i /\ j' = j /\ file' = file
    BY <1>1, <1>4 DEF FreeEdges, StlFiles
  <2>2. QED
    BY <2>1 DEF ShortestSoFar, Loaded, Extent, Facets
<1>5. CASE RemoveDegenerateFacet
  <2> DEFINE last == stl.number_of_facets - 1
  <2>1. /\ i \in 0 .. last /\ last \in Slot /\ j = 0 /\ last \in Int
        /\ Facets(stl) = 0 .. last /\ Facets(stl') = 0 .. last - 1
        /\ stl'.facet_start = [stl.facet_start EXCEPT ![i] = stl.facet_start[last]]
        /\ stl'.shortest_edge = stl.shortest_edge
    BY <1>5, RemoveDegenerateFacetRows
  <2> HIDE DEF last
  <2>2. i' = i /\ j' = j /\ file' = file /\ IsDegenerate(stl.facet_start[i])
    BY <1>5 DEF RemoveDegenerateFacet
  <2>3. i # 0
    BY <2>2, <1>1
  <2>4. \A f \in Facets(stl') : f < i => stl'.facet_start[f] = stl.facet_start[f]
    BY <2>1, <1>1 DEF StlFiles
  <2>5. \A f \in Facets(stl) : f < i => f \in Facets(stl')
    BY <2>1
  <2>6. \A f \in Facets(stl), e \in Corner :
          /\ Loaded(f, e)' <=> Loaded(f, e)
          /\ Loaded(f, e) => f < i
    BY <2>1, <2>2 DEF Loaded, Corner
  <2>7. 0 \in Facets(stl') /\ stl'.facet_start[0] = file'[1]
    BY <2>1, <2>2, <2>3, <2>4, <2>5, <1>1
  <2>8. g < i /\ g \in Facets(stl') /\ Extent(g, d)' = Extent(g, d)
    BY <2>1, <2>3, <2>4, <2>5, <2>6, <1>2 DEF Extent
  <2>9. ASSUME NEW f \in Facets(stl'), NEW e \in Corner, Loaded(f, e)'
        PROVE  stl'.shortest_edge <= Extent(f, e)'
    <3>1. f \in Facets(stl) /\ f < i /\ Loaded(f, e)
      BY <2>1, <2>6, <2>9
    <3>2. Extent(f, e)' = Extent(f, e)
      BY <3>1, <2>4, <2>9 DEF Extent
    <3>3. QED
      BY <3>1, <3>2, <2>1, <1>1
  <2>10. (g = 0 /\ d = 0) \/ Loaded(g, d)'
    BY <2>6, <1>2
  <2>11. QED
    BY <2>1, <2>7, <2>8, <2>9, <2>10, <1>2 DEF ShortestSoFar
<1>6. CASE InsertEdge
  <2>1. /\ Facets(stl') = Facets(stl) /\ stl'.facet_start = stl.facet_start
        /\ stl'.shortest_edge = IF Extent(i, j) < stl.shortest_edge THEN Extent(i, j)
                                ELSE stl.shortest_edge
    BY <1>6, InsertEdgeMesh DEF Facets, Extent
  <2>2. /\ i' = (IF j = 2 THEN i + 1 ELSE i) /\ j' = Next3(j) /\ file' = file
        /\ i \in Facets(stl)
    BY <1>6 DEF InsertEdge
  <2>3. \A f \in Facets(stl), e \in Corner :
          Loaded(f, e)' <=> (Loaded(f, e) \/ (f = i /\ e = j))
    BY <2>2, <1>1 DEF Loaded, Corner, Next3, Facets
  <2>4. \A f, e : Extent(f, e)' = Extent(f, e)
    BY <2>1 DEF Extent
  <2>5. \A f \in Facets(stl), e \in Corner : Extent(f, e) \in Int
    BY <1>1, ExtentType
  <2>6. \A f \in Facets(stl'), e \in Corner :
          Loaded(f, e)' => stl'.shortest_edge <= Extent(f, e)'
    BY <2>1, <2>2, <2>3, <2>4, <2>5, <1>1
  <2>7. \E f \in Facets(stl'), e \in Corner :
          /\ (f = 0 /\ e = 0) \/ Loaded(f, e)'
          /\ stl'.shortest_edge = Extent(f, e)'
    BY <2>1, <2>2, <2>3, <2>4, <1>1, <1>2
  <2>8. QED
    BY <2>1, <2>2, <2>6, <2>7, <1>1 DEF ShortestSoFar
<1>7. CASE UNCHANGED vars
  BY <1>7 DEF vars, ShortestSoFar, Loaded, Extent
<1>8. QED
  BY <1>3, <1>4, <1>5, <1>6, <1>7 DEF Next, Returned

(* Squaring keeps the order of naturals.                                    *)
LEMMA SquaresOrdered ==
  ASSUME NEW d \in Nat, NEW m \in Nat, d <= m
  PROVE  d * d <= m * m
<1>1. d * d <= d * m /\ d * m <= m * m
  BY SMTT(20)
<1>2. QED
  BY <1>1

(* The extent is the greatest of the differences along the three axes, and  *)
(* its square at least a third of the squared length and at most all of it. *)
LEMMA ExtentOfEdge ==
  ASSUME NEW a \in Point, NEW b \in Point
  PROVE  LET square == Diff(a, b, 1) * Diff(a, b, 1) + Diff(a, b, 2) * Diff(a, b, 2)
                       + Diff(a, b, 3) * Diff(a, b, 3)
         IN  /\ MaxDiff(a, b) \in Nat
             /\ \A axis \in 1 .. 3 : Diff(a, b, axis) \in Nat /\ Diff(a, b, axis) <= MaxDiff(a, b)
             /\ \E axis \in 1 .. 3 : Diff(a, b, axis) = MaxDiff(a, b)
             /\ MaxDiff(a, b) * MaxDiff(a, b) <= square
             /\ square <= 3 * MaxDiff(a, b) * MaxDiff(a, b)
<1> DEFINE x == Diff(a, b, 1)
           y == Diff(a, b, 2)
           z == Diff(a, b, 3)
           m == MaxDiff(a, b)
<1>1. x \in Nat /\ y \in Nat /\ z \in Nat
  BY DEF Diff, Point
<1>2. /\ x <= m /\ y <= m /\ z <= m
      /\ x = m \/ y = m \/ z = m
  BY <1>1 DEF MaxDiff, DominantAxis
<1>3. \A axis \in 1 .. 3 : Diff(a, b, axis) \in Nat /\ Diff(a, b, axis) <= m
  <2>1. \A axis \in 1 .. 3 : axis = 1 \/ axis = 2 \/ axis = 3
    OBVIOUS
  <2>2. QED
    BY <1>1, <1>2, <2>1
<1>4. \E axis \in 1 .. 3 : Diff(a, b, axis) = m
  BY <1>2
<1> HIDE DEF x, y, z, m
<1>5. m \in Nat
  BY <1>1, <1>2
<1>6. x * x \in Nat /\ y * y \in Nat /\ z * z \in Nat /\ m * m \in Nat
  BY <1>1, <1>5
<1>7. m * m <= x * x + y * y + z * z
  BY <1>2, <1>6
<1>8. \A d \in Nat : d <= m => d * d <= m * m
  BY <1>5, SquaresOrdered
<1>9. x * x + y * y + z * z <= 3 * m * m
  <2>1. 3 * m * m = m * m + m * m + m * m
    BY <1>5
  <2>2. QED
    BY <1>1, <1>2, <1>6, <1>8, <2>1
<1>10. QED
  BY <1>3, <1>4, <1>5, <1>7, <1>9 DEF x, y, z, m

(* The tolerance the nearby check starts from is the least extent of an     *)
(* edge of the mesh: no edge is shorter than that, and one is at most the   *)
(* root of 3 times as long.                                                 *)
THEOREM ShortestEdgeIsExact == Spec => []ShortestEdgeExact
<1>1. Init => ShortestSoFar /\ AllLoaded
  BY ShortestInit DEF Init, AllLoaded
<1>2. TypeOK /\ ShortestSoFar /\ AllLoaded => ShortestEdgeExact
  <2> SUFFICES ASSUME TypeOK, ShortestSoFar, AllLoaded, pc = "done", file # <<>>,
                      ~ IsDegenerate(file[1])
               PROVE  ShortestEdgeExact
    BY DEF ShortestEdgeExact
  <2> DEFINE edges == Facets(stl) \X Corner
             diff(edge, axis) == Diff(stl.facet_start[edge[1]][edge[2]],
                                      stl.facet_start[edge[1]][Next3(edge[2])], axis)
             square(edge) == diff(edge, 1) * diff(edge, 1) + diff(edge, 2) * diff(edge, 2)
                             + diff(edge, 3) * diff(edge, 3)
             extent(edge) == Extent(edge[1], edge[2])
             tolerance == stl.shortest_edge
  <2>1. ASSUME NEW edge \in edges
        PROVE  /\ extent(edge) \in Nat
               /\ \A axis \in 1 .. 3 : diff(edge, axis) \in Nat /\ diff(edge, axis) <= extent(edge)
               /\ \E axis \in 1 .. 3 : diff(edge, axis) = extent(edge)
               /\ extent(edge) * extent(edge) <= square(edge)
               /\ square(edge) <= 3 * extent(edge) * extent(edge)
               /\ square(edge) \in Nat
    <3>1. edge[1] \in Slot /\ edge[2] \in Corner /\ Next3(edge[2]) \in Corner
      BY FacetsAreSlots, CornerArithmetic DEF TypeOK
    <3>2. stl.facet_start[edge[1]] \in [Corner -> Vertex]
      BY <3>1 DEF TypeOK, StlFiles, Facet
    <3>3. /\ stl.facet_start[edge[1]][edge[2]] \in Point
          /\ stl.facet_start[edge[1]][Next3(edge[2])] \in Point
      BY <3>1, <3>2, VertexAssumption
    <3> DEFINE a == stl.facet_start[edge[1]][edge[2]]
               b == stl.facet_start[edge[1]][Next3(edge[2])]
    <3>4. /\ a \in Point /\ b \in Point /\ extent(edge) = MaxDiff(a, b)
          /\ \A axis : diff(edge, axis) = Diff(a, b, axis)
          /\ square(edge) = Diff(a, b, 1) * Diff(a, b, 1) + Diff(a, b, 2) * Diff(a, b, 2)
                            + Diff(a, b, 3) * Diff(a, b, 3)
      BY <3>3 DEF Extent
    <3> HIDE DEF a, b, extent, diff, square
    <3>5. /\ \A axis \in 1 .. 3 : Diff(a, b, axis) \in Nat
          /\ MaxDiff(a, b) * MaxDiff(a, b) <= square(edge)
          /\ square(edge) <= 3 * MaxDiff(a, b) * MaxDiff(a, b)
      BY <3>4, ExtentOfEdge
    <3>6. square(edge) \in Nat
      <4>1. Diff(a, b, 1) \in Nat /\ Diff(a, b, 2) \in Nat /\ Diff(a, b, 3) \in Nat
        BY <3>5
      <4>2. QED
        BY <3>4, <4>1
    <3>7. QED
      BY <3>4, <3>5, <3>6, ExtentOfEdge
  <2>2. \A edge \in edges : tolerance <= extent(edge)
    BY DEF ShortestSoFar, AllLoaded
  <2>3. \E edge \in edges : tolerance = extent(edge)
    <3>1. PICK f \in Facets(stl), e \in Corner : stl.shortest_edge = Extent(f, e)
      BY DEF ShortestSoFar
    <3>2. <<f, e>> \in edges /\ extent(<<f, e>>) = tolerance
      BY <3>1
    <3>3. QED
      BY <3>2
  <2> HIDE DEF edges, diff, square, extent, tolerance
  <2>4. \E edge \in edges : \A axis \in 1 .. 3 : diff(edge, axis) <= tolerance
    BY <2>1, <2>3
  <2>5. \E edge \in edges : square(edge) <= 3 * tolerance * tolerance
    BY <2>1, <2>3
  <2>6. \A edge \in edges : \E axis \in 1 .. 3 : tolerance <= diff(edge, axis)
    BY <2>1, <2>2
  <2>7. ASSUME NEW edge \in edges
        PROVE  tolerance * tolerance <= square(edge)
    <3>1. tolerance \in Nat /\ extent(edge) \in Nat /\ tolerance <= extent(edge)
      BY <2>1, <2>2, <2>3
    <3>2. tolerance * tolerance <= extent(edge) * extent(edge)
      BY <3>1, SquaresOrdered
    <3>3. /\ tolerance * tolerance \in Nat /\ extent(edge) * extent(edge) \in Nat
          /\ square(edge) \in Nat /\ extent(edge) * extent(edge) <= square(edge)
      BY <3>1, <2>1
    <3>4. QED
      BY <3>2, <3>3
  <2>8. QED
    BY <2>4, <2>5, <2>6, <2>7 DEF ShortestEdgeExact, edges, diff, square, tolerance
<1>3. QED
  BY <1>1, <1>2, ShortestStep, AllLoadedStep, Inductive, PTL DEF Spec, IInv

-----------------------------------------------------------------------------
(* The rows the facet t stands in, and its places in the file.              *)
OccursAs(t) == {f \in Facets(stl) : stl.facet_start[f] = t}
ReadAs(t)   == {k \in DOMAIN file : file[k] = t}

(* A facet that is not degenerate occurs as often as it was read, at any    *)
(* time, and every facet that has gone is counted twice over.               *)
OthersKept ==
  /\ \A t \in Facet :
       ~ IsDegenerate(t) => Cardinality(OccursAs(t)) = Cardinality(ReadAs(t))
  /\ stl.degenerate_facets = Len(file) - stl.number_of_facets
  /\ stl.facets_removed = Len(file) - stl.number_of_facets

(* stl_open puts facet k of the file in row k - 1.                          *)
LEMMA OthersKeptInit == Init => OthersKept
<1> SUFFICES ASSUME Init PROVE OthersKept
  OBVIOUS
<1>1. file \in Seq(Facet) /\ Len(file) \in Nat /\ Len(file) <= MaxFacets
  BY InputsAssumption DEF Init
<1>2. stl \in StlFiles
  BY InitIInv DEF IInv, TypeOK
<1>3. /\ stl.number_of_facets = Len(file)
      /\ stl.degenerate_facets = 0 /\ stl.facets_removed = 0
      /\ \A f \in Facets(stl) : f + 1 \in DOMAIN file /\ stl.facet_start[f] = file[f + 1]
  <2>1. \A f \in Facets(stl) : f \in Slot
    BY <1>2, FacetsAreSlots
  <2>2. QED
    BY <1>1, <2>1 DEF Init, StlOpen, Facets
<1>4. \A k \in DOMAIN file : k - 1 \in Facets(stl) /\ k = (k - 1) + 1
  BY <1>1, <1>3 DEF Facets
<1>5. ASSUME NEW t \in Facet
      PROVE  Cardinality(OccursAs(t)) = Cardinality(ReadAs(t))
  <2> DEFINE m == [f \in OccursAs(t) |-> f + 1]
  <2>1. IsFiniteSet(OccursAs(t))
    BY <1>2, FacetsFinite DEF OccursAs
  <2>2. m \in [OccursAs(t) -> ReadAs(t)]
    BY <1>3 DEF OccursAs, ReadAs
  <2>3. \A x, y \in OccursAs(t) : m[x] = m[y] => x = y
    BY DEF OccursAs, Facets
  <2>4. \A k \in ReadAs(t) : \E x \in OccursAs(t) : m[x] = k
    <3> SUFFICES ASSUME NEW k \in ReadAs(t) PROVE \E x \in OccursAs(t) : m[x] = k
      OBVIOUS
    <3>1. k - 1 \in OccursAs(t) /\ k = (k - 1) + 1
      BY <1>3, <1>4 DEF OccursAs, ReadAs
    <3>2. QED
      BY <3>1
  <2> HIDE DEF m
  <2>5. QED
    BY <2>1, <2>2, <2>3, <2>4, OneToOne
<1>6. QED
  BY <1>1, <1>3, <1>5 DEF OthersKept

(* A degenerate facet gives its row to the last facet; every other one      *)
(* keeps its row.                                                           *)
LEMMA OthersKeptRemoval == IInv /\ OthersKept /\ RemoveDegenerateFacet => OthersKept'
<1> SUFFICES ASSUME IInv, OthersKept, RemoveDegenerateFacet PROVE OthersKept'
  OBVIOUS
<1> DEFINE last == stl.number_of_facets - 1
<1>1. /\ i \in 0 .. last /\ last \in Slot /\ last \in Int
      /\ Facets(stl) = 0 .. last /\ Facets(stl') = 0 .. last - 1
      /\ stl'.number_of_facets = last
      /\ stl'.facet_start = [stl.facet_start EXCEPT ![i] = stl.facet_start[last]]
      /\ stl'.degenerate_facets = stl.degenerate_facets + 1
      /\ stl'.facets_removed = stl.facets_removed + 1
  BY RemoveDegenerateFacetRows
<1>2. /\ stl \in StlFiles /\ file' = file /\ IsDegenerate(stl.facet_start[i])
      /\ \A f \in Facets(stl) : f \in Slot
      /\ Len(file) \in Nat /\ stl.number_of_facets \in Int
  <2>1. stl \in StlFiles /\ file \in Inputs
    BY DEF IInv, TypeOK
  <2>2. stl.number_of_facets \in Int
    BY <2>1, MaxFacetsAssumption DEF StlFiles
  <2>3. Len(file) \in Nat
    BY <2>1, InputsAssumption
  <2>4. QED
    BY <2>1, <2>2, <2>3, FacetsAreSlots DEF RemoveDegenerateFacet
<1>3. ASSUME NEW t \in Facet, ~ IsDegenerate(t)
      PROVE  Cardinality(OccursAs(t)') = Cardinality(OccursAs(t))
  <2>1. i \notin OccursAs(t) /\ IsFiniteSet(OccursAs(t))
    BY <1>2, <1>3, FacetsFinite DEF OccursAs
  <2>2. \A f \in Facets(stl') :
          stl'.facet_start[f] = IF f = i THEN stl.facet_start[last] ELSE stl.facet_start[f]
    <3>1. \A f \in Facets(stl') : f \in Slot
      BY <1>1, <1>2
    <3>2. stl.facet_start \in [Slot -> Facet]
      BY <1>2 DEF StlFiles
    <3>3. QED
      BY <1>1, <3>1, <3>2
  <2>3. CASE stl.facet_start[last] = t
    <3>1. i # last /\ last \in OccursAs(t)
      BY <1>1, <1>2, <1>3, <2>3 DEF OccursAs
    <3>2. \A f \in Int : f \in Facets(stl') <=> f \in Facets(stl) /\ f # last
      BY <1>1
    <3>3. OccursAs(t)' = (OccursAs(t) \ {last}) \cup {i}
      BY <1>1, <2>2, <2>3, <3>1, <3>2 DEF OccursAs
    <3> HIDE DEF last
    <3>4. QED
      BY <2>1, <3>1, <3>3, ReplaceElement
  <2>4. CASE stl.facet_start[last] # t
    <3>1. \A f \in Int : f \in Facets(stl') <=> f \in Facets(stl) /\ f # last
      BY <1>1
    <3>2. OccursAs(t)' = OccursAs(t)
      BY <1>1, <1>2, <1>3, <2>2, <2>4, <3>1 DEF OccursAs
    <3>3. QED
      BY <3>2
  <2>5. QED
    BY <2>3, <2>4
<1>4. \A t : ReadAs(t)' = ReadAs(t)
  BY <1>2 DEF ReadAs
<1>5. QED
  BY <1>1, <1>2, <1>3, <1>4 DEF OthersKept

(* Every other step leaves the facets and the two counters alone.           *)
LEMMA OthersKeptStep == IInv /\ OthersKept /\ [Next]_vars => OthersKept'
<1> SUFFICES ASSUME IInv, OthersKept, [Next]_vars PROVE OthersKept'
  OBVIOUS
<1>1. CASE RemoveDegenerateFacet
  BY <1>1, OthersKeptRemoval
<1>2. ASSUME stl'.number_of_facets = stl.number_of_facets,
             stl'.facet_start = stl.facet_start,
             stl'.degenerate_facets = stl.degenerate_facets,
             stl'.facets_removed = stl.facets_removed,
             file' = file
      PROVE  OthersKept'
  BY <1>2 DEF OthersKept, OccursAs, ReadAs, Facets
<1>3. CASE Initialize \/ FreeEdges
  BY <1>2, <1>3 DEF Initialize, FreeEdges, IInv, TypeOK, StlFiles
<1>4. CASE InsertEdge
  <2>1. file' = file
    BY <1>4 DEF InsertEdge
  <2>2. QED
    BY <1>2, <1>4, <2>1, InsertEdgeMesh
<1>5. CASE UNCHANGED vars
  BY <1>2, <1>5 DEF vars
<1>6. QED
  BY <1>1, <1>3, <1>4, <1>5 DEF Next, Returned

(* The check removes the degenerate facets and no other, whatever it moves. *)
THEOREM OnlyDegenerateAreRemoved == Spec => []OnlyDegenerateRemoved
<1>1. Init => OthersKept /\ AllLoaded
  BY OthersKeptInit DEF Init, AllLoaded
<1>2. IInv /\ OthersKept /\ AllLoaded => OnlyDegenerateRemoved
  <2> SUFFICES ASSUME IInv, OthersKept, AllLoaded, pc = "done" PROVE OnlyDegenerateRemoved
    BY DEF OnlyDegenerateRemoved
  <2>1. \A k \in DOMAIN file : file[k] \in Facet
    BY InputsAssumption DEF IInv, TypeOK
  <2>2. \A f \in Facets(stl) : ~ IsDegenerate(stl.facet_start[f])
    BY DEF IInv, LoopProgress, AllLoaded, Corner
  <2>3. \A t : IsDegenerate(t) => OccursAs(t) = {}
    BY <2>2 DEF OccursAs
  <2>4. Cardinality({}) = 0
    BY FS_EmptySet
  <2>5. \A k \in DOMAIN file :
          Cardinality(OccursAs(file[k])) =
            IF IsDegenerate(file[k]) THEN 0 ELSE Cardinality(ReadAs(file[k]))
    BY <2>1, <2>3, <2>4 DEF OthersKept
  <2>6. QED
    BY <2>5 DEF OnlyDegenerateRemoved, OthersKept, OccursAs, ReadAs
<1>3. QED
  BY <1>1, <1>2, OthersKeptStep, AllLoadedStep, Inductive, PTL DEF Spec

-----------------------------------------------------------------------------
(****************************************************************************)
(* stl_check_facets_exact implements EdgeMatching, for every set of meshes: *)
(* inserting an edge takes it, and leaves it waiting or joins it; freeing   *)
(* the table finishes; every other step changes nothing between any two     *)
(* points.                                                                  *)
(****************************************************************************)
(* The edges that Matching counts as waiting and as joined.                 *)
Waiting(s) ==
  {edge \in EdgesOn(s) : Loaded(edge[1], edge[2]) /\ stl.neighbor[edge[1]][edge[2]] = None}
Joined(s) ==
  {edge \in EdgesOn(s) : Loaded(edge[1], edge[2]) /\ stl.neighbor[edge[1]][edge[2]] # None}

(* A step that keeps the three sizes, and does not return, keeps the        *)
(* variables of EdgeMatching.                                               *)
LEMMA SameSizes ==
  ASSUME \A s \in Segments : /\ Cardinality(NotTaken(s))' = Cardinality(NotTaken(s))
                             /\ Cardinality(Waiting(s))' = Cardinality(Waiting(s))
                             /\ Cardinality(Joined(s))' = Cardinality(Joined(s)),
         (pc = "done")' <=> (pc = "done")
  PROVE  UNCHANGED Matching!vars
<1>1. [s \in Segments |-> Cardinality(NotTaken(s))]' = [s \in Segments |-> Cardinality(NotTaken(s))]
  OBVIOUS
<1>2. [s \in Segments |-> Cardinality(Waiting(s))]' = [s \in Segments |-> Cardinality(Waiting(s))]
  OBVIOUS
<1>3. [s \in Segments |-> Cardinality(Joined(s)) \div 2]'
        = [s \in Segments |-> Cardinality(Joined(s)) \div 2]
  OBVIOUS
<1>4. QED
  BY <1>1, <1>2, <1>3 DEF Matching!vars, Waiting, Joined

(* The sets that are counted are finite.                                    *)
LEMMA CountedFinite ==
  ASSUME stl \in StlFiles, NEW s
  PROVE  /\ IsFiniteSet(NotTaken(s)) /\ Cardinality(NotTaken(s)) \in Nat
         /\ IsFiniteSet(Waiting(s)) /\ Cardinality(Waiting(s)) \in Nat
         /\ IsFiniteSet(Joined(s)) /\ Cardinality(Joined(s)) \in Nat
<1>1. IsFiniteSet(Facets(stl) \X Corner)
  BY FacetsFinite
<1>2. /\ NotTaken(s) \subseteq Facets(stl) \X Corner
      /\ Waiting(s) \subseteq Facets(stl) \X Corner
      /\ Joined(s) \subseteq Facets(stl) \X Corner
  BY DEF NotTaken, Waiting, Joined, EdgesOn
<1>3. QED
  BY <1>1, <1>2, FS_Subset, FS_CardinalityType

(* The members of these sets.                                               *)
LEMMA Members ==
  \A s, f, e :
    /\ <<f, e>> \in NotTaken(s) <=>
         /\ f \in Facets(stl) /\ e \in Corner /\ EndPoints(stl, f, e) = s
         /\ ~ Loaded(f, e) /\ ~ IsDegenerate(stl.facet_start[f])
    /\ <<f, e>> \in Waiting(s) <=>
         /\ f \in Facets(stl) /\ e \in Corner /\ EndPoints(stl, f, e) = s
         /\ Loaded(f, e) /\ stl.neighbor[f][e] = None
    /\ <<f, e>> \in Joined(s) <=>
         /\ f \in Facets(stl) /\ e \in Corner /\ EndPoints(stl, f, e) = s
         /\ Loaded(f, e) /\ stl.neighbor[f][e] # None
  BY DEF NotTaken, Waiting, Joined, EdgesOn

(* All of them are pairs of a facet and a corner.                           *)
LEMMA Pairs ==
  \A s : /\ NotTaken(s) \subseteq Facets(stl) \X Corner
         /\ Waiting(s) \subseteq Facets(stl) \X Corner
         /\ Joined(s) \subseteq Facets(stl) \X Corner
  BY DEF NotTaken, Waiting, Joined, EdgesOn

(* Before the first facet nothing has been taken.                           *)
LEMMA MatchingInit == Init => Matching!Init
<1> SUFFICES ASSUME Init PROVE Matching!Init
  OBVIOUS
<1>1. stl \in StlFiles
  BY InitIInv DEF IInv, TypeOK
<1>2. \A f \in Facets(stl), e \in Corner : ~ Loaded(f, e)
  BY DEF Init, Loaded, Facets, Corner
<1>3. \A s : Waiting(s) = {} /\ Joined(s) = {}
  BY <1>2 DEF Waiting, Joined, EdgesOn
<1>4. Cardinality({}) = 0 /\ 0 \div 2 = 0
  BY FS_EmptySet
<1>5. \A s : Cardinality(NotTaken(s)) \in Nat
  BY <1>1, CountedFinite
<1>6. [s \in Segments |-> Cardinality(NotTaken(s))] \in [Segments -> Nat]
  BY <1>5
<1>7. [s \in Segments |-> Cardinality(Waiting(s))] = [s \in Segments |-> 0]
  BY <1>3, <1>4
<1>8. [s \in Segments |-> Cardinality(Joined(s)) \div 2] = [s \in Segments |-> 0]
  BY <1>3, <1>4
<1>9. QED
  BY <1>6, <1>7, <1>8 DEF Matching!Init, Waiting, Joined, Init

(* Nothing is loaded yet when the edges are marked unconnected.             *)
LEMMA InitializeStutters == IInv /\ Initialize => UNCHANGED Matching!vars
<1> SUFFICES ASSUME IInv, Initialize PROVE UNCHANGED Matching!vars
  OBVIOUS
<1>1. /\ stl \in StlFiles /\ i = 0 /\ j = 0 /\ i' = 0 /\ j' = 0
      /\ pc = "start" /\ pc' = "facet"
  BY DEF IInv, TypeOK, PendingExact, Initialize
<1>2. /\ stl'.number_of_facets = stl.number_of_facets
      /\ stl'.facet_start = stl.facet_start
  BY <1>1 DEF Initialize, StlFiles
<1>3. Facets(stl') = Facets(stl) /\ \A f, e : EndPoints(stl', f, e) = EndPoints(stl, f, e)
  BY <1>2 DEF Facets, EndPoints
<1>4. /\ \A f \in Facets(stl), e \in Corner : ~ Loaded(f, e) /\ ~ Loaded(f, e)'
  BY <1>1 DEF Loaded, Facets, Corner
<1>5. \A s : EdgesOn(s)' = EdgesOn(s) /\ EdgesOn(s) \subseteq Facets(stl) \X Corner
  BY <1>3 DEF EdgesOn
<1>6. \A s : NotTaken(s)' = NotTaken(s)
  BY <1>2, <1>4, <1>5 DEF NotTaken
<1>7. \A s : Waiting(s)' = Waiting(s) /\ Joined(s)' = Joined(s)
  BY <1>4, <1>5 DEF Waiting, Joined
<1>8. (pc = "done")' <=> (pc = "done")
  BY <1>1
<1>9. QED
  BY <1>6, <1>7, <1>8, SameSizes

(* The facet removed is degenerate, so it has no edge to take; the edges of *)
(* the facet moved to its row are to be taken before and after.             *)
LEMMA RemovalStutters == IInv /\ RemoveDegenerateFacet => UNCHANGED Matching!vars
<1> SUFFICES ASSUME IInv, RemoveDegenerateFacet PROVE UNCHANGED Matching!vars
  OBVIOUS
<1> DEFINE last == stl.number_of_facets - 1
<1>1. /\ stl' \in StlFiles
      /\ i \in 0 .. last /\ last \in Slot /\ last \in Int /\ j = 0
      /\ Facets(stl) = 0 .. last /\ Facets(stl') = 0 .. last - 1
      /\ stl'.facet_start = [stl.facet_start EXCEPT ![i] = stl.facet_start[last]]
      /\ stl'.neighbor = [stl.neighbor EXCEPT ![i] = stl.neighbor[last]]
  BY RemoveDegenerateFacetRows
<1>2. /\ stl \in StlFiles /\ IsDegenerate(stl.facet_start[i])
      /\ i' = i /\ j' = j /\ pc' = pc
      /\ \A f \in Facets(stl) : f \in Slot
  BY FacetsAreSlots DEF IInv, TypeOK, RemoveDegenerateFacet
<1> HIDE DEF last
<1>3. \A f \in Facets(stl') :
        /\ f \in Facets(stl)
        /\ stl'.facet_start[f] = IF f = i THEN stl.facet_start[last] ELSE stl.facet_start[f]
        /\ f # i => stl'.neighbor[f] = stl.neighbor[f]
  <2>1. \A f \in Facets(stl') : f \in Facets(stl) /\ f \in Slot
    BY <1>1, <1>2
  <2>2. stl.facet_start \in [Slot -> Facet]
    BY <1>2 DEF StlFiles
  <2>3. DOMAIN stl.neighbor = Slot
    BY <1>2 DEF StlFiles
  <2>4. QED
    BY <1>1, <2>1, <2>2, <2>3
<1>4. \A f \in Facets(stl), e \in Corner :
        /\ Loaded(f, e) <=> f < i
        /\ Loaded(f, e)' <=> f < i
  BY <1>1, <1>2 DEF Loaded, Corner
<1>5. \A f \in Facets(stl') : f # i =>
        \A e : EndPoints(stl', f, e) = EndPoints(stl, f, e)
  BY <1>3 DEF EndPoints
<1>6. ASSUME NEW s
      PROVE  Waiting(s)' = Waiting(s) /\ Joined(s)' = Joined(s)
  <2>1. ASSUME NEW f \in Facets(stl), NEW e \in Corner, f < i
        PROVE  /\ f \in Facets(stl')
               /\ EndPoints(stl', f, e) = EndPoints(stl, f, e)
               /\ stl'.neighbor[f][e] = stl.neighbor[f][e]
    <3>1. f \in Facets(stl') /\ f # i
      BY <1>1, <2>1
    <3>2. QED
      BY <3>1, <1>3, <1>5
  <2>2. \A f \in Facets(stl'), e \in Corner : f \in Facets(stl)
    BY <1>3
  <2>3. QED
    BY <2>1, <2>2, <1>4 DEF Waiting, Joined, EdgesOn
<1>7. ASSUME NEW s
      PROVE  Cardinality(NotTaken(s))' = Cardinality(NotTaken(s))
  <2> DEFINE S == NotTaken(s)
             T == NotTaken(s)'
             row(f) == IF f = last THEN i ELSE f
             m == [edge \in S |-> <<row(edge[1]), edge[2]>>]
  <2>1. ASSUME NEW f, NEW e
        PROVE  /\ <<f, e>> \in S <=> /\ f \in Facets(stl) /\ e \in Corner
                                     /\ EndPoints(stl, f, e) = s
                                     /\ f > i /\ ~ IsDegenerate(stl.facet_start[f])
               /\ <<f, e>> \in T <=> /\ f \in Facets(stl') /\ e \in Corner
                                     /\ EndPoints(stl', f, e) = s
                                     /\ f >= i /\ ~ IsDegenerate(stl'.facet_start[f])
    <3>1. <<f, e>> \in S <=> /\ f \in Facets(stl) /\ e \in Corner
                             /\ EndPoints(stl, f, e) = s
                             /\ ~ Loaded(f, e) /\ ~ IsDegenerate(stl.facet_start[f])
      BY DEF NotTaken, EdgesOn
    <3>2. <<f, e>> \in T <=> /\ f \in Facets(stl') /\ e \in Corner
                             /\ EndPoints(stl', f, e) = s
                             /\ ~ Loaded(f, e)' /\ ~ IsDegenerate(stl'.facet_start[f])
      BY DEF NotTaken, EdgesOn
    <3>3. f \in Facets(stl) => (f > i <=> ~ (f < i) /\ f # i)
      BY <1>1
    <3>4. f \in Facets(stl) => (f >= i <=> ~ (f < i))
      BY <1>1
    <3> HIDE DEF S, T
    <3>5. QED
      BY <3>1, <3>2, <3>3, <3>4, <1>2, <1>3, <1>4
  <2>2. S \subseteq Facets(stl) \X Corner /\ T \subseteq Facets(stl') \X Corner
    BY DEF NotTaken, EdgesOn
  <2>3. IsFiniteSet(S)
    BY <1>2, CountedFinite
  <2> HIDE DEF S, T
  <2>4. ASSUME NEW f, NEW e, <<f, e>> \in S
        PROVE  <<row(f), e>> \in T
    <3>1. f \in Facets(stl) /\ f > i /\ e \in Corner /\ EndPoints(stl, f, e) = s
          /\ ~ IsDegenerate(stl.facet_start[f])
      BY <2>1, <2>4
    <3>a. i \in Int /\ last \in Int /\ Facets(stl) = 0 .. last /\ Facets(stl') = 0 .. last - 1
          /\ i >= 0 /\ f \in Int /\ f # i
      BY <3>1, <1>1
    <3>2. row(f) \in Facets(stl') /\ row(f) >= i
      BY <3>1, <3>a
    <3>3. stl'.facet_start[row(f)] = stl.facet_start[f]
      BY <3>2, <3>a, <1>3
    <3>4. EndPoints(stl', row(f), e) = s
      BY <3>1, <3>3 DEF EndPoints
    <3> HIDE DEF row
    <3>5. QED
      BY <2>1, <3>1, <3>2, <3>3, <3>4
  <2>5. ASSUME NEW f, NEW e, <<f, e>> \in T
        PROVE  \E g : <<g, e>> \in S /\ row(g) = f
    <3>1. f \in Facets(stl') /\ f >= i /\ e \in Corner /\ EndPoints(stl', f, e) = s
          /\ ~ IsDegenerate(stl'.facet_start[f])
      BY <2>1, <2>5
    <3>2. CASE f = i
      <4>1. last \in Facets(stl) /\ last > i /\ stl'.facet_start[f] = stl.facet_start[last]
        BY <3>1, <3>2, <1>1, <1>3
      <4>2. EndPoints(stl, last, e) = s
        BY <3>1, <4>1 DEF EndPoints
      <4>3. <<last, e>> \in S
        BY <2>1, <3>1, <4>1, <4>2
      <4>4. QED
        BY <4>3, <3>2
    <3>3. CASE f # i
      <4>1. f \in Facets(stl) /\ f > i /\ stl'.facet_start[f] = stl.facet_start[f] /\ f # last
        BY <3>1, <3>3, <1>1, <1>3
      <4>2. EndPoints(stl, f, e) = s
        BY <3>1, <4>1 DEF EndPoints
      <4>3. <<f, e>> \in S
        BY <2>1, <3>1, <4>1, <4>2
      <4>4. QED
        BY <4>1, <4>3
    <3>4. QED
      BY <3>2, <3>3
  <2>6. \A f, e : <<f, e>> \in S => f \in Int /\ f > i /\ i \in Int
    BY <2>1, <1>1
  <2>7. m \in [S -> T]
    <3>1. \A edge \in S : edge = <<edge[1], edge[2]>>
      BY <2>2
    <3>2. \A edge \in S : <<row(edge[1]), edge[2]>> \in T
      BY <3>1, <2>4
    <3>3. QED
      BY <3>2
  <2>8. \A x, y \in S : m[x] = m[y] => x = y
    <3> SUFFICES ASSUME NEW x \in S, NEW y \in S, m[x] = m[y] PROVE x = y
      OBVIOUS
    <3>1. x = <<x[1], x[2]>> /\ y = <<y[1], y[2]>>
      BY <2>2
    <3>2. row(x[1]) = row(y[1]) /\ x[2] = y[2]
      OBVIOUS
    <3>3. x[1] > i /\ y[1] > i /\ x[1] \in Int /\ y[1] \in Int /\ i \in Int
      BY <3>1, <2>6
    <3>4. x[1] = y[1]
      BY <3>2, <3>3
    <3>5. QED
      BY <3>1, <3>2, <3>4
  <2>9. \A y \in T : \E x \in S : m[x] = y
    <3> SUFFICES ASSUME NEW y \in T PROVE \E x \in S : m[x] = y
      OBVIOUS
    <3>1. y = <<y[1], y[2]>>
      BY <2>2
    <3>2. PICK g : <<g, y[2]>> \in S /\ row(g) = y[1]
      BY <3>1, <2>5
    <3>3. m[<<g, y[2]>>] = y
      BY <3>1, <3>2
    <3>4. QED
      BY <3>2, <3>3
  <2> HIDE DEF m
  <2>10. Cardinality(T) = Cardinality(S)
    BY <2>3, <2>7, <2>8, <2>9, OneToOne
  <2>11. QED
    BY <2>10 DEF S, T
<1>8. QED
  BY <1>2, <1>6, <1>7, SameSizes

(* Past the last facet every edge has been taken.                           *)
LEMMA FreeEdgesFinishes == IInv /\ FreeEdges => Matching!Finish
<1> SUFFICES ASSUME IInv, FreeEdges PROVE Matching!Finish
  OBVIOUS
<1>1. stl \in StlFiles /\ i \in 0 .. MaxFacets /\ j = 0 /\ i \notin Facets(stl)
  BY DEF IInv, TypeOK, LoopProgress, FreeEdges
<1>2. \A f \in Facets(stl) : f < i
  BY <1>1, MaxFacetsAssumption DEF Facets, StlFiles
<1>3. \A s : NotTaken(s) = {}
  BY <1>2 DEF NotTaken, EdgesOn, Loaded
<1>4. /\ stl'.number_of_facets = stl.number_of_facets
      /\ stl'.facet_start = stl.facet_start
      /\ stl'.neighbor = stl.neighbor
      /\ i' = i /\ j' = j /\ pc' = "done"
  BY <1>1 DEF FreeEdges, StlFiles
<1>5. \A s : /\ NotTaken(s)' = NotTaken(s)
             /\ Waiting(s)' = Waiting(s)
             /\ Joined(s)' = Joined(s)
  BY <1>4 DEF NotTaken, Waiting, Joined, EdgesOn, Facets, EndPoints, Loaded
<1>6. Cardinality({}) = 0
  BY FS_EmptySet
<1>7. \A s \in Segments : [t \in Segments |-> Cardinality(NotTaken(t))][s] = 0
  BY <1>3, <1>6
<1>8. /\ [s \in Segments |-> Cardinality(NotTaken(s))]'
           = [s \in Segments |-> Cardinality(NotTaken(s))]
      /\ [s \in Segments |-> Cardinality(Waiting(s))]'
           = [s \in Segments |-> Cardinality(Waiting(s))]
      /\ [s \in Segments |-> Cardinality(Joined(s)) \div 2]'
           = [s \in Segments |-> Cardinality(Joined(s)) \div 2]
  BY <1>5
<1>9. QED
  BY <1>4, <1>7, <1>8 DEF Matching!Finish, Waiting, Joined

(* The edges waiting between the two points of the edge under test are the  *)
(* pending ones with its key.                                               *)
LEMMA WaitingIsPending ==
  ASSUME IInv, InsertEdge
  PROVE  LET va   == stl.facet_start[i][j]
             vb   == stl.facet_start[i][Next3(j)]
             edge == LoadEdgeExact(i, j, va, vb)
         IN  /\ \A f, e : <<f, e>> \in Waiting({va, vb}) =>
                  \E p \in stl.heads :
                    p.facet_number = f /\ p.which_edge % 3 = e /\ p.key = edge.key
             /\ \A p \in stl.heads : p.key = edge.key =>
                  <<p.facet_number, p.which_edge % 3>> \in Waiting({va, vb})
<1> DEFINE va   == stl.facet_start[i][j]
           vb   == stl.facet_start[i][Next3(j)]
           edge == LoadEdgeExact(i, j, va, vb)
           x(p) == stl.facet_start[p.facet_number][p.which_edge % 3]
           y(p) == stl.facet_start[p.facet_number][Next3(p.which_edge % 3)]
<1>1. stl \in StlFiles /\ pc = "facet"
  BY DEF IInv, TypeOK, InsertEdge
<1>2. va \in Vertex /\ vb \in Vertex /\ va # vb
  BY EdgeUnderTest
<1>3. edge.key = LoadEdgeExact(i, j, va, vb).key
  OBVIOUS
<1> HIDE DEF va, vb, edge
<1>4. ASSUME NEW p \in stl.heads
      PROVE  /\ p.facet_number \in Facets(stl) /\ p.which_edge % 3 \in Corner
             /\ EndPoints(stl, p.facet_number, p.which_edge % 3) = {x(p), y(p)}
             /\ Loaded(p.facet_number, p.which_edge % 3)
             /\ stl.neighbor[p.facet_number][p.which_edge % 3] = None
             /\ p.key = edge.key <=> {x(p), y(p)} = {va, vb}
  <2>1. /\ IsEdgeOf(stl, p)
        /\ Loaded(p.facet_number, p.which_edge % 3)
        /\ stl.neighbor[p.facet_number][p.which_edge % 3] = None
    BY <1>1 DEF IInv, PendingExact
  <2>2. p.facet_number \in Slot /\ p.which_edge \in 0 .. 5
    BY <1>1 DEF StlFiles, Edge
  <2>3. p.which_edge % 3 \in Corner /\ Next3(p.which_edge % 3) \in Corner
    BY <2>2, CornerArithmetic
  <2>4. x(p) \in Vertex /\ y(p) \in Vertex
    <3>1. stl.facet_start[p.facet_number] \in [Corner -> Vertex]
      BY <1>1, <2>2 DEF StlFiles, Facet
    <3>2. QED
      BY <2>3, <3>1
  <2>5. /\ p.facet_number \in Facets(stl)
        /\ p.key = LoadEdgeExact(p.facet_number, p.which_edge % 3, x(p), y(p)).key
    BY <2>1 DEF IsEdgeOf
  <2>6. EndPoints(stl, p.facet_number, p.which_edge % 3) = {x(p), y(p)}
    BY DEF EndPoints
  <2> HIDE DEF x, y
  <2>7. LoadEdgeExact(i, j, va, vb).key
          = LoadEdgeExact(p.facet_number, p.which_edge % 3, x(p), y(p)).key
            <=> (va = x(p) /\ vb = y(p)) \/ (va = y(p) /\ vb = x(p))
    BY <1>2, <2>4, EqualKeys
  <2>8. p.key = edge.key <=> (va = x(p) /\ vb = y(p)) \/ (va = y(p) /\ vb = x(p))
    BY <1>3, <2>5, <2>7
  <2>9. {x(p), y(p)} = {va, vb} <=> (va = x(p) /\ vb = y(p)) \/ (va = y(p) /\ vb = x(p))
    BY <1>2
  <2>10. p.key = edge.key <=> {x(p), y(p)} = {va, vb}
    BY <2>8, <2>9
  <2>11. QED
    BY <2>1, <2>3, <2>5, <2>6, <2>10
<1> HIDE DEF x, y
<1>5. ASSUME NEW f, NEW e, <<f, e>> \in Waiting({va, vb})
      PROVE  \E p \in stl.heads :
               p.facet_number = f /\ p.which_edge % 3 = e /\ p.key = edge.key
  <2>1. /\ f \in Facets(stl) /\ e \in Corner /\ EndPoints(stl, f, e) = {va, vb}
        /\ Loaded(f, e) /\ stl.neighbor[f][e] = None
    BY <1>5, Members
  <2>2. PICK p \in stl.heads : p.facet_number = f /\ p.which_edge % 3 = e
    BY <1>1, <2>1 DEF IInv, PendingExact
  <2>3. {x(p), y(p)} = {va, vb}
    BY <1>4, <2>1, <2>2
  <2>4. QED
    BY <1>4, <2>2, <2>3
<1>6. ASSUME NEW p \in stl.heads, p.key = edge.key
      PROVE  <<p.facet_number, p.which_edge % 3>> \in Waiting({va, vb})
  <2>1. /\ p.facet_number \in Facets(stl) /\ p.which_edge % 3 \in Corner
        /\ EndPoints(stl, p.facet_number, p.which_edge % 3) = {va, vb}
        /\ Loaded(p.facet_number, p.which_edge % 3)
        /\ stl.neighbor[p.facet_number][p.which_edge % 3] = None
    BY <1>4, <1>6
  <2>2. QED
    BY <2>1, Members
<1>7. QED
  BY <1>5, <1>6 DEF va, vb, edge

(* Inserting an edge takes it: it waits when no pending edge has its key,   *)
(* and is joined to the one that has it otherwise.                          *)
LEMMA InsertEdgeTakes ==
  ASSUME IInv, InsertEdge
  PROVE  \E s \in Segments : Matching!Wait(s) \/ Matching!Join(s)
<1> DEFINE va   == stl.facet_start[i][j]
           vb   == stl.facet_start[i][Next3(j)]
           edge == LoadEdgeExact(i, j, va, vb)
           ij   == <<i, j>>
<1>1. /\ stl \in StlFiles /\ pc = "facet" /\ pc' = "facet"
      /\ i \in Facets(stl) /\ i \in 0 .. MaxFacets /\ j \in Corner
      /\ ~ IsDegenerate(stl.facet_start[i])
      /\ j' = Next3(j) /\ i' = (IF j = 2 THEN i + 1 ELSE i)
      /\ Facets(stl) \subseteq Slot
  BY FacetsAreSlots DEF IInv, TypeOK, InsertEdge
<1>2. /\ va \in Vertex /\ vb \in Vertex /\ ~ Loaded(i, j) /\ stl.neighbor[i][j] = None
      /\ edge \in Edge /\ edge.facet_number = i /\ edge.which_edge % 3 = j
  BY EdgeUnderTest
<1>3. PICK s0 \in Segments : s0 = {va, vb}
  <2>1. \A a, b \in Vertex : {a, b} \in Segments
    BY DEF Segments
  <2>2. QED
    BY <1>2, <2>1
<1>4. Facets(stl') = Facets(stl) /\ stl'.facet_start = stl.facet_start
  BY InsertEdgeMesh DEF Facets
<1>5. /\ \A f, e : EndPoints(stl', f, e) = EndPoints(stl, f, e)
      /\ EndPoints(stl, i, j) = s0
  BY <1>4, <1>3 DEF EndPoints
<1>6. \A f \in Facets(stl), e \in Corner :
        Loaded(f, e)' <=> (Loaded(f, e) \/ (f = i /\ e = j))
  BY <1>1 DEF Loaded, Corner, Next3, Facets
<1>7. /\ \A f, e : <<f, e>> \in Waiting(s0) =>
           \E p \in stl.heads :
             p.facet_number = f /\ p.which_edge % 3 = e /\ p.key = edge.key
      /\ \A p \in stl.heads : p.key = edge.key =>
           <<p.facet_number, p.which_edge % 3>> \in Waiting(s0)
  BY <1>3, WaitingIsPending
<1>8. PICK r \in StlFiles :
        /\ SameMesh(stl, r)
        /\ \/ /\ stl' = r
              /\ \A p \in stl.heads : p.key # edge.key
           \/ \E link \in stl.heads :
                /\ stl' = RecordNeighbors(r, edge, link)
                /\ link \in Edge /\ link.key = edge.key /\ link.facet_number # i
  BY InsertEdgeResult
<1> HIDE DEF va, vb, edge
<1>9. ASSUME NEW s
      PROVE  /\ NotTaken(s)' = NotTaken(s) \ {ij}
             /\ ij \in NotTaken(s) <=> s = s0
  <2>1. EdgesOn(s)' = EdgesOn(s) /\ EdgesOn(s) \subseteq Facets(stl) \X Corner
    BY <1>4, <1>5 DEF EdgesOn
  <2>2. ij \in NotTaken(s) <=> s = s0
    BY <1>1, <1>2, <1>5, Members
  <2>3. ASSUME NEW x \in EdgesOn(s)
        PROVE  Loaded(x[1], x[2])' <=> Loaded(x[1], x[2]) \/ x = ij
    <3>1. x = <<x[1], x[2]>> /\ x[1] \in Facets(stl) /\ x[2] \in Corner
      BY <2>1
    <3>2. QED
      BY <3>1, <1>6
  <2>4. NotTaken(s)' = NotTaken(s) \ {ij}
    BY <2>1, <2>3, <1>4 DEF NotTaken
  <2>5. QED
    BY <2>2, <2>4
<1>10. ASSUME NEW s \in Segments
       PROVE  /\ Cardinality(NotTaken(s)) \in Nat
              /\ s = s0 => /\ Cardinality(NotTaken(s)) > 0
                           /\ Cardinality(NotTaken(s))' = Cardinality(NotTaken(s)) - 1
              /\ s # s0 => Cardinality(NotTaken(s))' = Cardinality(NotTaken(s))
  <2>1. IsFiniteSet(NotTaken(s)) /\ Cardinality(NotTaken(s)) \in Nat
    BY <1>1, CountedFinite
  <2>2. /\ IsFiniteSet(NotTaken(s) \ {ij})
        /\ Cardinality(NotTaken(s) \ {ij}) =
             IF ij \in NotTaken(s) THEN Cardinality(NotTaken(s)) - 1
             ELSE Cardinality(NotTaken(s))
    BY <2>1, FS_RemoveElement
  <2>3. Cardinality(NotTaken(s) \ {ij}) \in Nat
    BY <2>2, FS_CardinalityType
  <2>4. Cardinality(NotTaken(s))' = Cardinality(NotTaken(s) \ {ij})
    BY <1>9
  <2>5. QED
    BY <1>9, <2>1, <2>2, <2>3, <2>4
<1>11. /\ [s \in Segments |-> Cardinality(NotTaken(s))]'
            = [[s \in Segments |-> Cardinality(NotTaken(s))] EXCEPT ![s0] = @ - 1]
       /\ [s \in Segments |-> Cardinality(NotTaken(s))][s0] > 0
  BY <1>3, <1>10
<1>12. (pc = "done")' <=> (pc = "done")
  BY <1>1
<1>13. CASE stl' = r /\ \A p \in stl.heads : p.key # edge.key
  <2>1. stl'.neighbor = stl.neighbor
    BY <1>8, <1>13 DEF SameMesh
  <2>2. Waiting(s0) = {}
    BY <1>7, <1>13, Pairs
  <2>3. ASSUME NEW s
        PROVE  /\ Waiting(s)' = Waiting(s) \cup (IF s = s0 THEN {ij} ELSE {})
               /\ Joined(s)' = Joined(s)
    <3>1. EdgesOn(s)' = EdgesOn(s) /\ EdgesOn(s) \subseteq Facets(stl) \X Corner
      BY <1>4, <1>5 DEF EdgesOn
    <3>2. ij \in EdgesOn(s) <=> s = s0
      BY <1>1, <1>5 DEF EdgesOn
    <3>3. ASSUME NEW x \in EdgesOn(s)
          PROVE  Loaded(x[1], x[2])' <=> Loaded(x[1], x[2]) \/ x = ij
      <4>1. x = <<x[1], x[2]>> /\ x[1] \in Facets(stl) /\ x[2] \in Corner
        BY <3>1
      <4>2. QED
        BY <4>1, <1>6
    <3>4. QED
      BY <2>1, <3>1, <3>2, <3>3, <1>2 DEF Waiting, Joined
  <2>4. /\ Cardinality(Waiting(s0)) = 0 /\ Cardinality(Waiting(s0))' = 1
    <3>1. Waiting(s0)' = {ij}
      BY <2>2, <2>3
    <3>2. Cardinality({}) = 0 /\ Cardinality({ij}) = 1
      BY FS_EmptySet, FS_Singleton
    <3>3. QED
      BY <2>2, <3>1, <3>2
  <2>5. \A s \in Segments : /\ Cardinality(Joined(s))' = Cardinality(Joined(s))
                            /\ s # s0 => Cardinality(Waiting(s))' = Cardinality(Waiting(s))
    BY <2>3
  <2>6. /\ [s \in Segments |-> Cardinality(Waiting(s))]'
             = [[s \in Segments |-> Cardinality(Waiting(s))] EXCEPT ![s0] = 1]
        /\ [s \in Segments |-> Cardinality(Waiting(s))][s0] = 0
        /\ [s \in Segments |-> Cardinality(Joined(s)) \div 2]'
             = [s \in Segments |-> Cardinality(Joined(s)) \div 2]
    BY <1>3, <2>4, <2>5
  <2>7. Matching!Wait(s0)
    BY <1>11, <1>12, <2>6 DEF Matching!Wait, Waiting, Joined
  <2>8. QED
    BY <1>3, <2>7
<1>14. ASSUME NEW link \in stl.heads, stl' = RecordNeighbors(r, edge, link),
              link \in Edge, link.key = edge.key, link.facet_number # i
       PROVE  Matching!Join(s0)
  <2> DEFINE fb == link.facet_number
             eb == link.which_edge % 3
             ln == <<fb, eb>>
  <2>1. ln \in Waiting(s0)
    BY <1>7, <1>14
  <2>2. /\ fb \in Facets(stl) /\ eb \in Corner /\ EndPoints(stl, fb, eb) = s0
        /\ Loaded(fb, eb) /\ stl.neighbor[fb][eb] = None
    BY <2>1, Members
  <2>3. Waiting(s0) = {ln}
    <3>1. ASSUME NEW f, NEW e, <<f, e>> \in Waiting(s0) PROVE <<f, e>> = ln
      <4>1. PICK p \in stl.heads :
              p.facet_number = f /\ p.which_edge % 3 = e /\ p.key = edge.key
        BY <1>7, <3>1
      <4>2. p = link
        BY <4>1, <1>1, <1>14 DEF IInv, PendingExact
      <4>3. QED
        BY <4>1, <4>2
    <3>2. QED
      BY <2>1, <3>1, Pairs
  <2>4. \A f \in Facets(stl), e \in Corner :
          stl'.neighbor[f][e] = IF f = i /\ e = j THEN fb
                                ELSE IF f = fb /\ e = eb THEN i
                                ELSE stl.neighbor[f][e]
    <3>1. \A f \in Slot, e \in Corner :
            stl'.neighbor[f][e] = IF f = i /\ e = j THEN fb
                                  ELSE IF f = fb /\ e = eb THEN i
                                  ELSE r.neighbor[f][e]
      BY SMTT(20), <1>2, <1>14, RecordNeighborsFields
    <3>2. QED
      BY <3>1, <1>1, <1>8 DEF SameMesh
  <2>5. fb # None /\ i # None
    BY <2>2, <1>1 DEF Slot, None
  <2> HIDE DEF fb, eb
  <2>6. ASSUME NEW s
        PROVE  /\ Waiting(s)' = IF s = s0 THEN {} ELSE Waiting(s)
               /\ Joined(s)' = IF s = s0 THEN (Joined(s) \cup {ij}) \cup {ln} ELSE Joined(s)
    <3>1. EdgesOn(s)' = EdgesOn(s) /\ EdgesOn(s) \subseteq Facets(stl) \X Corner
      BY <1>4, <1>5 DEF EdgesOn
    <3>2. (ij \in EdgesOn(s) <=> s = s0) /\ (ln \in EdgesOn(s) <=> s = s0)
      BY <1>1, <1>5, <2>2 DEF EdgesOn
    <3>3. ASSUME NEW x \in EdgesOn(s)
          PROVE  /\ Loaded(x[1], x[2])' <=> Loaded(x[1], x[2]) \/ x = ij
                 /\ stl'.neighbor[x[1]][x[2]] = IF x = ij THEN fb
                                                ELSE IF x = ln THEN i
                                                ELSE stl.neighbor[x[1]][x[2]]
      <4>1. x = <<x[1], x[2]>> /\ x[1] \in Facets(stl) /\ x[2] \in Corner
        BY <3>1
      <4>2. QED
        BY <4>1, <1>6, <2>4
    <3>4. /\ Waiting(s)' = Waiting(s) \ {ln}
          /\ \A x \in EdgesOn(s) : x \in Joined(s)' <=> x \in Joined(s) \/ x = ij \/ x = ln
      BY <2>2, <2>5, <3>1, <3>3, <1>2 DEF Waiting, Joined
    <3>5. Joined(s)' \subseteq EdgesOn(s) /\ Joined(s) \subseteq EdgesOn(s)
      BY <3>1 DEF Joined
    <3>6. s # s0 => ln \notin Waiting(s)
      BY <3>2 DEF Waiting
    <3>7. QED
      BY <2>3, <3>2, <3>4, <3>5, <3>6
  <2>7. ij \notin Joined(s0) /\ ln \notin Joined(s0) \cup {ij}
    BY <1>2, <1>14, <2>2 DEF Joined, fb
  <2>8. /\ Cardinality(Joined(s0)) \in Nat
        /\ Cardinality(Joined(s0))' = Cardinality(Joined(s0)) + 2
    <3>1. IsFiniteSet(Joined(s0)) /\ Cardinality(Joined(s0)) \in Nat
      BY <1>1, CountedFinite
    <3>2. /\ IsFiniteSet(Joined(s0) \cup {ij})
          /\ Cardinality(Joined(s0) \cup {ij}) = Cardinality(Joined(s0)) + 1
      BY <2>7, <3>1, FS_AddElement
    <3>3. Cardinality((Joined(s0) \cup {ij}) \cup {ln})
            = Cardinality(Joined(s0) \cup {ij}) + 1
      BY <2>7, <3>2, FS_AddElement
    <3>4. Joined(s0)' = (Joined(s0) \cup {ij}) \cup {ln}
      BY <2>6
    <3>5. QED
      BY <3>1, <3>2, <3>3, <3>4
  <2>9. Cardinality(Joined(s0))' \div 2 = Cardinality(Joined(s0)) \div 2 + 1
    <3>1. \A n \in Nat : (n + 2) \div 2 = n \div 2 + 1
      OBVIOUS
    <3>2. QED
      BY <2>8, <3>1
  <2>10. Cardinality(Waiting(s0)) = 1 /\ Cardinality(Waiting(s0))' = 0
    BY <2>3, <2>6, FS_EmptySet, FS_Singleton
  <2>11. \A s \in Segments : s # s0 =>
           /\ Cardinality(Waiting(s))' = Cardinality(Waiting(s))
           /\ Cardinality(Joined(s))' = Cardinality(Joined(s))
    BY <2>6
  <2>12. /\ [s \in Segments |-> Cardinality(Waiting(s))]'
              = [[s \in Segments |-> Cardinality(Waiting(s))] EXCEPT ![s0] = 0]
         /\ [s \in Segments |-> Cardinality(Waiting(s))][s0] = 1
    BY <1>3, <2>10, <2>11
  <2>13. [s \in Segments |-> Cardinality(Joined(s)) \div 2]'
           = [[s \in Segments |-> Cardinality(Joined(s)) \div 2] EXCEPT ![s0] = @ + 1]
    BY <1>3, <2>9, <2>11
  <2>14. QED
    BY <1>11, <1>12, <2>12, <2>13 DEF Matching!Join, Waiting, Joined
<1>15. QED
  BY <1>8, <1>3, <1>13, <1>14

-----------------------------------------------------------------------------
(* Every behaviour of the check is one of EdgeMatching: whatever the order  *)
(* of the facets in the file, and whichever of them are removed and moved,  *)
(* each edge is taken once and joined as soon as it can be.                 *)
THEOREM ImplementsEdgeMatching == Spec => EdgesMatched
<1>1. IInv /\ [Next]_vars => [Matching!Next]_(Matching!vars)
  <2> SUFFICES ASSUME IInv, [Next]_vars PROVE [Matching!Next]_(Matching!vars)
    OBVIOUS
  <2>1. CASE Initialize
    BY <2>1, InitializeStutters
  <2>2. CASE RemoveDegenerateFacet
    BY <2>2, RemovalStutters
  <2>3. CASE InsertEdge
    BY <2>3, InsertEdgeTakes DEF Matching!Next
  <2>4. CASE FreeEdges
    BY <2>4, FreeEdgesFinishes DEF Matching!Next
  <2>5. CASE UNCHANGED vars
    <3>1. \A s : /\ NotTaken(s)' = NotTaken(s)
                 /\ Waiting(s)' = Waiting(s)
                 /\ Joined(s)' = Joined(s)
      BY <2>5 DEF vars, NotTaken, Waiting, Joined, EdgesOn, Loaded
    <3>2. (pc = "done")' <=> (pc = "done")
      BY <2>5 DEF vars
    <3>3. QED
      BY <3>1, <3>2, SameSizes
  <2>6. QED
    BY <2>1, <2>2, <2>3, <2>4, <2>5 DEF Next, Returned
<1>2. QED
  BY <1>1, MatchingInit, Inductive, PTL DEF Spec, EdgesMatched, Matching!Spec

=============================================================================
