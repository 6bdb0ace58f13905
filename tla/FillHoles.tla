------------------------------- MODULE FillHoles -------------------------------
(****************************************************************************)
(* stl_fill_holes (connect.c): matches what unconnected edges still match   *)
(* exactly, then closes every unconnected edge with a new facet, whose      *)
(* third corner is found by walking around a vertex to the next unconnected *)
(* edge.  One step per edge and per facet crossed; pc runs from "start" to  *)
(* "done".                                                                  *)
(****************************************************************************)
EXTENDS MeshProperties

VARIABLES
  stl,
  i, j,
  pc,
  initial,  \* neighbors_initial: the links of facet i when its turn came
  warned,   \* "probably a mobius part" was printed
  walk      \* facet_num, vnot and direction of the walk from edge j

(* On to the next edge of the facet, or to the next facet.                  *)
Advance(thisFacet, nextFacet) ==
  /\ j' = Next3(j)
  /\ i' = IF j = 2 THEN i + 1 ELSE i
  /\ pc' = IF j = 2 THEN nextFacet ELSE thisFacet

Unlinked == stl.neighbor[i][j] = None

-----------------------------------------------------------------------------
Begin ==
  /\ pc = "start"
  /\ stl' = [stl EXCEPT !.heads = {}]
  /\ i' = 0
  /\ j' = 0
  /\ pc' = "load"
  /\ UNCHANGED <<initial, walk, warned>>

LoadUnconnected ==
  /\ pc = "load"
  /\ i \in Facets(stl)
  /\ stl' = IF Unlinked THEN InsertEdgeExact(stl, i, j, stl.facet_start[i]) ELSE stl
  /\ Advance("load", "load")
  /\ UNCHANGED <<initial, walk, warned>>

EndLoad ==
  /\ pc = "load"
  /\ i \notin Facets(stl)
  /\ i' = 0
  /\ pc' = "facet"
  /\ UNCHANGED <<stl, j, initial, walk, warned>>

(* The facets added meanwhile have their turn too.                          *)
ScanFacet ==
  /\ pc = "facet"
  /\ i \in Facets(stl)
  /\ initial' = stl.neighbor[i]
  /\ pc' = "edge"
  /\ UNCHANGED <<stl, i, j, walk, warned>>

SkipEdge ==
  /\ pc = "edge"
  /\ ~ Unlinked
  /\ Advance("edge", "facet")
  /\ UNCHANGED <<stl, initial, walk, warned>>

(* The walk turns around the end of edge j if the previous edge was         *)
(* unconnected when the facet's turn came, and otherwise around its start.  *)
StartWalk ==
  /\ pc = "edge"
  /\ Unlinked
  /\ walk' = [facet_num |-> i,
              vnot      |-> Prev3(j),
              direction |-> IF initial[Prev3(j)] = None THEN 1 ELSE 0]
  /\ pc' = "walk"
  /\ UNCHANGED <<stl, i, j, initial, warned>>

Turned == Turn(walk.vnot, walk.direction)
Across == stl.neighbor[walk.facet_num][Turned.next_edge]

(* Mutation of CrossEdge: the direction is the one the walk began with.     *)
CrossEdgeAhead ==
  /\ pc = "walk"
  /\ Across \notin {None, i}
  /\ walk' = [walk EXCEPT
              !.facet_num = Across,
              !.vnot      = stl.which_vertex_not[walk.facet_num][Turned.next_edge]]
  /\ UNCHANGED <<stl, i, j, pc, initial, warned>>

CrossEdge ==
  /\ pc = "walk"
  /\ Across \notin {None, i}
  /\ walk' = [facet_num |-> Across,
              vnot      |-> stl.which_vertex_not[walk.facet_num][Turned.next_edge],
              direction |-> Turned.direction]
  /\ UNCHANGED <<stl, i, j, pc, initial, warned>>

(* Back at the first facet: the function returns at once.                   *)
BackAtFirst ==
  /\ pc = "walk"
  /\ Across = i
  /\ pc' = "done"
  /\ warned' = TRUE
  /\ UNCHANGED <<stl, i, j, initial, walk>>

(* Mutation of FarCorner: the corner the walk turns around.                 *)
FarCornerPivot == stl.facet_start[walk.facet_num][Turned.pivot_vertex]

(* The far end of the unconnected edge the walk has come to.                *)
FarCorner == stl.facet_start[walk.facet_num][walk.vnot % 3]

InsertFacetEdges(s, f, facet) ==
  InsertEdgeExact(InsertEdgeExact(InsertEdgeExact(s, f, 0, facet), f, 1, facet), f, 2, facet)

(* An unconnected edge: a facet is added, and its edges are matched.        *)
CloseHole ==
  /\ pc = "walk"
  /\ Across = None
  /\ HasRoom(stl)
  /\ LET corners == <<stl.facet_start[i][j], stl.facet_start[i][Next3(j)], FarCorner>>
         facet   == [c \in Corner |-> corners[c + 1]]
     IN  stl' = InsertFacetEdges(AddFacet(stl, facet), stl.number_of_facets, facet)
  /\ Advance("edge", "facet")
  /\ UNCHANGED <<initial, walk, warned>>

FreeEdges ==
  /\ pc = "facet"
  /\ i \notin Facets(stl)
  /\ stl' = [stl EXCEPT !.heads = {}]
  /\ pc' = "done"
  /\ UNCHANGED <<i, j, initial, walk, warned>>

Next ==
  \/ Begin \/ LoadUnconnected \/ EndLoad \/ ScanFacet \/ SkipEdge
  \/ StartWalk \/ CrossEdge \/ BackAtFirst \/ CloseHole \/ FreeEdges

=============================================================================
