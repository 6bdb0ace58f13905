--------------------------- MODULE FacetCheckNearby ---------------------------
(****************************************************************************)
(* stl_check_facets_nearby (connect.c): connects edges whose end points lie *)
(* in the same cells of a grid of width `tolerance`, moving the corners of  *)
(* the facets around them together.  One step per facet loaded, per edge,   *)
(* and per corner moved; pc runs from "start" to "done".                    *)
(****************************************************************************)
EXTENDS MeshProperties

VARIABLES
  stl,
  i, j,
  pc,
  file,
  tolerance,  \* the width of the grid
  facet,      \* the copy of facet i made when its first edge is loaded
  walks,      \* the calls of stl_change_vertices still to make or to finish
  warned      \* "probably a mobius part" was printed

nearbyVars == <<stl, i, j, pc, file, tolerance, facet, walks, warned>>

(****************************************************************************)
(* The cell of a vertex.  The grid starts at the least coordinates found in *)
(* the file.  With tolerance 0 the quotients are infinite or not numbers;   *)
(* converted to unsigned on x86 they are all the same.                      *)
(****************************************************************************)
LeastCoordinate(axis) ==
  LET values == {file[k][c][axis] : k \in DOMAIN file, c \in Corner}
  IN  CHOOSE v \in values : \A w \in values : v <= w

Cell(p) ==
  LET coordinate(axis) ==
        IF tolerance = 0 THEN 0 ELSE (p[axis] - LeastCoordinate(axis)) \div tolerance
  IN  <<coordinate(1), coordinate(2), coordinate(3)>>

LoadEdgeNearby(f, e, a, b) == LoadEdge(f, e, a, b, Cell(a), Cell(b))

(****************************************************************************)
(* The corners of two edges just matched are paired, from the first end of  *)
(* the key to the last.  Of a pair that differs, the corner of edge a moves *)
(* if its facet has no neighbour there, and otherwise that of edge b; the   *)
(* walk that moves it starts across from the matched edge.                  *)
(****************************************************************************)
FirstCorner(edge) ==
  IF edge.which_edge < 3 THEN edge.which_edge ELSE Next3(edge.which_edge)
SecondCorner(edge) ==
  IF edge.which_edge < 3 THEN Next3(edge.which_edge) ELSE edge.which_edge % 3

(* Mutation of Walk: it starts in the same direction whichever end of the   *)
(* edge the corner is.                                                      *)
WalkAhead(edge, corner, vertex) ==
  [first     |-> edge.facet_number,
   facet_num |-> edge.facet_number,
   vnot      |-> Prev3(edge.which_edge),
   direction |-> 0,
   vertex    |-> vertex]

Walk(edge, corner, vertex) ==
  LET vnot == Prev3(edge.which_edge)
  IN  [first     |-> edge.facet_number,
       facet_num |-> edge.facet_number,
       vnot      |-> IF Prev3(vnot) = corner THEN vnot + 3 ELSE vnot,
       direction |-> 0,
       vertex    |-> vertex]

WhichVerticesToChange(s, a, b) ==
  LET at(edge, c) == s.facet_start[edge.facet_number][c]
      alone(edge, c) == /\ s.neighbor[edge.facet_number][c] = None
                        /\ s.neighbor[edge.facet_number][Prev3(c)] = None
      change(ca, cb) == IF at(a, ca) = at(b, cb) THEN <<>>
                        ELSE IF alone(a, ca) THEN <<Walk(a, ca, at(b, cb))>>
                        ELSE <<Walk(b, cb, at(a, ca))>>
  IN  change(FirstCorner(a), FirstCorner(b)) \o change(SecondCorner(a), SecondCorner(b))

-----------------------------------------------------------------------------
(* If every facet counts as connected on three edges nothing is checked.    *)
(* (stl_repair does not make the call then.)                                *)
Begin ==
  /\ pc = "start"
  /\ stl' = [stl EXCEPT !.heads = {}]
  /\ i' = 0
  /\ j' = 0
  /\ pc' = IF \A k \in 1 .. 3 : stl.connected_facets[k] = stl.number_of_facets
           THEN "done" ELSE "facet"
  /\ UNCHANGED <<file, tolerance, facet, walks, warned>>

LoadFacet ==
  /\ pc = "facet"
  /\ i \in Facets(stl)
  /\ facet' = stl.facet_start[i]
  /\ pc' = "edge"
  /\ UNCHANGED <<stl, i, j, file, tolerance, walks, warned>>

(* On to the next edge, of this facet or of the next.                       *)
Advance ==
  /\ j' = Next3(j)
  /\ i' = IF j = 2 THEN i + 1 ELSE i
  /\ pc' = IF j = 2 THEN "facet" ELSE "edge"

(* The edge under test, as it was when the facet was loaded.                *)
Start == facet[j]
End   == facet[Next3(j)]
Candidate == LoadEdgeNearby(i, j, Start, End)

(* Mutation of Loadable: connected edges are loaded again.                  *)
LoadableConnected == pc = "edge" /\ Cell(Start) # Cell(End)

Loadable == pc = "edge" /\ stl.neighbor[i][j] = None /\ Cell(Start) # Cell(End)

SkipEdge ==
  /\ pc = "edge"
  /\ stl.neighbor[i][j] # None \/ Cell(Start) = Cell(End)
  /\ Advance
  /\ UNCHANGED <<stl, file, tolerance, facet, walks, warned>>

PendEdge ==
  /\ Loadable
  /\ Matches(stl, Candidate) = {}
  /\ stl' = [stl EXCEPT !.heads = @ \cup {Candidate}]
  /\ Advance
  /\ UNCHANGED <<file, tolerance, facet, walks, warned>>

(* stl_match_neighbors_nearby, up to the walks that move the corners.       *)
MatchEdge ==
  /\ Loadable
  /\ Matches(stl, Candidate) # {}
  /\ LET link == Oldest(Matches(stl, Candidate))
         recorded == RecordNeighbors([stl EXCEPT !.heads = @ \ {link}], Candidate, link)
     IN  /\ stl' = recorded
         /\ walks' = WhichVerticesToChange(recorded, Candidate, link)
  /\ pc' = "change"
  /\ UNCHANGED <<i, j, file, tolerance, facet, warned>>

Ends(walk, next) == next \in {None, walk.first}

(* stl_change_vertices moves one corner, and goes on across the next edge   *)
(* around it; the walk ends at an unconnected edge, or with a warning back  *)
(* at the first facet.                                                      *)
ChangeVertex ==
  /\ pc = "change"
  /\ walks # <<>>
  /\ LET walk == Head(walks)
         turn == Turn(walk.vnot, walk.direction)
         next == stl.neighbor[walk.facet_num][turn.next_edge]
         on   == [walk EXCEPT
                    !.facet_num = next,
                    !.vnot = stl.which_vertex_not[walk.facet_num][turn.next_edge],
                    !.direction = turn.direction]
     IN  /\ stl' = [stl EXCEPT
                     !.facet_start[walk.facet_num][turn.pivot_vertex] = walk.vertex]
         /\ walks' = IF Ends(walk, next) THEN Tail(walks)
                     ELSE <<on>> \o Tail(walks)
         /\ warned' = (warned \/ next = walk.first)
  /\ UNCHANGED <<i, j, pc, file, tolerance, facet>>

FinishMatch ==
  /\ pc = "change"
  /\ walks = <<>>
  /\ stl' = [stl EXCEPT !.edges_fixed = @ + 2]
  /\ Advance
  /\ UNCHANGED <<file, tolerance, facet, walks, warned>>

FreeEdges ==
  /\ pc = "facet"
  /\ i \notin Facets(stl)
  /\ stl' = [stl EXCEPT !.heads = {}]
  /\ pc' = "done"
  /\ UNCHANGED <<i, j, file, tolerance, facet, walks, warned>>

Next ==
  \/ Begin \/ LoadFacet \/ SkipEdge \/ PendEdge
  \/ MatchEdge \/ ChangeVertex \/ FinishMatch \/ FreeEdges

=============================================================================
