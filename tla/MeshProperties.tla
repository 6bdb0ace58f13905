---------------------------- MODULE MeshProperties ----------------------------
(****************************************************************************)
(* What a well-formed mesh structure is: the predicates the properties of   *)
(* every pass are made of.                                                  *)
(****************************************************************************)
EXTENDS StlFile, FiniteSets

(* The end points of edge e of facet f, in no particular order.             *)
EndPoints(stl, f, e) ==
  {stl.facet_start[f][e], stl.facet_start[f][Next3(e)]}

(* stl_verify_neighbors for one edge: the neighbour's edge is the same edge,*)
(* run through backwards when the facets agree on the orientation.          *)
EdgeMatches(stl, f, e) ==
  LET g    == stl.neighbor[f][e]
      vnot == stl.which_vertex_not[f][e]
      this == <<stl.facet_start[f][e], stl.facet_start[f][Next3(e)]>>
  IN  g # None =>
        this = IF vnot < 3
               THEN <<stl.facet_start[g][Prev3(vnot)], stl.facet_start[g][Next3(vnot)]>>
               ELSE <<stl.facet_start[g][Next3(vnot)], stl.facet_start[g][Prev3(vnot)]>>

(* The link across edge e of facet f is answered by a link back.            *)
LinkedBack(stl, f, e) ==
  LET g    == stl.neighbor[f][e]
      vnot == stl.which_vertex_not[f][e]
      back == Next3(vnot)
  IN  g # None =>
        /\ g \in Facets(stl)
        /\ g # f
        /\ stl.neighbor[g][back] = f
        /\ Next3(stl.which_vertex_not[g][back]) = e
        /\ (stl.which_vertex_not[g][back] < 3) = (vnot < 3)

Mutual(stl) ==
  \A f \in Facets(stl), e \in Corner : LinkedBack(stl, f, e)

(* The pending edge p is what loading its edge of the mesh gives.           *)
IsEdgeOf(stl, p) ==
  LET f == p.facet_number
      e == p.which_edge % 3
  IN  /\ f \in Facets(stl)
      /\ p = LoadEdgeExact(f, e, stl.facet_start[f][e], stl.facet_start[f][Next3(e)])

(* The edges of the mesh that have a neighbour.                             *)
ConnectedEdges(stl) ==
  {edge \in Facets(stl) \X Corner : stl.neighbor[edge[1]][edge[2]] # None}

(* connected_facets_k_edge counts the facets with at least k neighbours.    *)
CountersAgree(stl) ==
  \A k \in 1 .. 3 :
    stl.connected_facets[k] =
      Cardinality({f \in Facets(stl) : 3 - Unconnected(stl, f) >= k})

=============================================================================
