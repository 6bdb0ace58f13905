--------------------------- MODULE UnconnectedFacets ---------------------------
(****************************************************************************)
(* stl_remove_unconnected_facets (connect.c): removes the degenerate facets *)
(* the nearby check leaves behind, joining the neighbours on their two      *)
(* coinciding edges, and then the facets connected on no edge.  One step    *)
(* per facet tested; pc runs from "start" to "done".                        *)
(****************************************************************************)
EXTENDS MeshProperties

VARIABLES stl, i, pc

(****************************************************************************)
(* stl_update_connects_remove_1: facet f is about to lose a neighbour.      *)
(****************************************************************************)
UpdateConnectsRemove1(s, f) ==
  LET k == 3 - Unconnected(s, f)
  IN  IF f = None \/ k = 0 THEN s ELSE [s EXCEPT !.connected_facets[k] = @ - 1]

(* The link of facet g across edge e is set to h, opposite vnot.            *)
Relink(s, g, e, h, vnot) ==
  IF g = None THEN s
  ELSE [s EXCEPT !.neighbor[g][e] = h, !.which_vertex_not[g][e] = vnot]

(* The edge of a degenerate facet that has length zero.                     *)
ZeroEdge(facet) == IF facet[0] = facet[1] THEN 0 ELSE IF facet[1] = facet[2] THEN 1 ELSE 2

(* The neighbours of facet f on edges e1 and e2 become each other's.        *)
JoinNeighbors(s, f, e1, e2) ==
  LET n(e)    == s.neighbor[f][e]
      vnot(e) == s.which_vertex_not[f][e]
      counted == IF n(e1) = None THEN UpdateConnectsRemove1(s, n(e2))
                 ELSE IF n(e2) = None THEN UpdateConnectsRemove1(s, n(e1))
                 ELSE s
      joined1 == Relink(counted, n(e1), Next3(vnot(e1)), n(e2), vnot(e2))
  IN  Relink(joined1, n(e2), Next3(vnot(e2)), n(e1), vnot(e1))

(* The link of facet g across edge e is cut, if there is such a facet.      *)
Cut(s, g, e) ==
  IF g = None THEN s ELSE [UpdateConnectsRemove1(s, g) EXCEPT !.neighbor[g][e] = None]

(****************************************************************************)
(* stl_remove_degenerate: the two other edges of the facet coincide, and    *)
(* their neighbours are joined; the facet goes, and the neighbour on the    *)
(* edge of length zero loses its link.  That last link is cut by the row    *)
(* the neighbour had before the last facet was moved.                       *)
(****************************************************************************)
RemoveDegenerate(s, f) ==
  LET v  == s.facet_start[f]
      e3 == ZeroEdge(v)
      e1 == IF e3 = 0 THEN 1 ELSE 0
      e2 == IF e3 = 2 THEN 1 ELSE 2
      removed == RemoveFacet(JoinNeighbors(s, f, e1, e2), f)
  IN  IF v[0] = v[1] /\ v[1] = v[2] THEN RemoveFacet(s, f)
      ELSE Cut(removed, s.neighbor[f][e3], Next3(s.which_vertex_not[f][e3]))

-----------------------------------------------------------------------------
Begin ==
  /\ pc = "start"
  /\ i' = 0
  /\ pc' = "degenerate"
  /\ UNCHANGED stl

RemoveDegenerateFacet ==
  /\ pc = "degenerate"
  /\ i \in Facets(stl)
  /\ IsDegenerate(stl.facet_start[i])
  /\ stl' = RemoveDegenerate(stl, i)
  /\ UNCHANGED <<i, pc>>

KeepFacet ==
  /\ i \in Facets(stl)
  /\ \/ pc = "degenerate" /\ ~ IsDegenerate(stl.facet_start[i])
     \/ pc = "unconnected" /\ Unconnected(stl, i) < 3
  /\ i' = i + 1
  /\ UNCHANGED <<stl, pc>>

(* The second loop is run only if the counters say a facet is unconnected.  *)
EndDegenerate ==
  /\ pc = "degenerate"
  /\ i \notin Facets(stl)
  /\ i' = 0
  /\ pc' = IF stl.connected_facets[1] < stl.number_of_facets THEN "unconnected" ELSE "done"
  /\ UNCHANGED stl

RemoveUnconnectedFacet ==
  /\ pc = "unconnected"
  /\ i \in Facets(stl)
  /\ Unconnected(stl, i) = 3
  /\ stl' = RemoveFacet(stl, i)
  /\ UNCHANGED <<i, pc>>

EndUnconnected ==
  /\ pc = "unconnected"
  /\ i \notin Facets(stl)
  /\ pc' = "done"
  /\ UNCHANGED <<stl, i>>

Next ==
  \/ Begin \/ RemoveDegenerateFacet \/ KeepFacet \/ EndDegenerate
  \/ RemoveUnconnectedFacet \/ EndUnconnected

=============================================================================
