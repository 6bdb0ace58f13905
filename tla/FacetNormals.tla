----------------------------- MODULE FacetNormals -----------------------------
(****************************************************************************)
(* The normal vector of a facet and its reversal (normals.c), and the       *)
(* volume computed from the normals (util.c).                               *)
(*                                                                          *)
(* Abstractions: vectors are compared by direction, where the code          *)
(* normalizes both and allows 0.001; a normal that is read has length one   *)
(* or zero.                                                                 *)
(****************************************************************************)
EXTENDS MeshProperties

Minus(a, b) == <<a[1] - b[1], a[2] - b[2], a[3] - b[3]>>
Negated(a)  == Minus(Zero, a)
Dot(a, b)   == a[1] * b[1] + a[2] * b[2] + a[3] * b[3]
Cross(a, b) == <<a[2] * b[3] - a[3] * b[2],
                 a[3] * b[1] - a[1] * b[3],
                 a[1] * b[2] - a[2] * b[1]>>

SameDirection(a, b) ==
  IF Zero \in {a, b} THEN a = b ELSE Cross(a, b) = Zero /\ Dot(a, b) > 0

(* stl_calculate_normal: outwards when the corners are counterclockwise.    *)
FacetNormal(facet) ==
  Cross(Minus(facet[1], facet[0]), Minus(facet[2], facet[0]))

RightNormal(stl, f)     == SameDirection(stl.normal[f], FacetNormal(stl.facet_start[f]))

(* Mutation of BackwardsNormal: a normal in any other direction is taken    *)
(* for backwards.                                                           *)
BackwardsUnlessRight(stl, f) == ~ RightNormal(stl, f)

(* stl_check_normal_vector returns 0 or 1 if RightNormal, 2 if              *)
(* BackwardsNormal, and 4 otherwise.                                        *)
BackwardsNormal(stl, f) ==
  ~ RightNormal(stl, f) /\ SameDirection(Negated(stl.normal[f]), FacetNormal(stl.facet_start[f]))

SetNormal(stl, f) == [stl EXCEPT !.normal[f] = FacetNormal(stl.facet_start[f])]

-----------------------------------------------------------------------------
(****************************************************************************)
(* stl_reverse_facet: corners 0 and 1 change places, so edges 1 and 2 do;   *)
(* which_vertex_not is adjusted on both sides of each edge.                 *)
(****************************************************************************)
(* Mutation of Shift: the neighbours on edges 1 and 2 are mixed up.         *)
ShiftSwapped(e) == <<3, 2, 4>>[e + 1]

(* What the neighbour on edge e adds: 3, and the change of edge 1 or 2.     *)
Shift(e) == <<3, 4, 2>>[e + 1]

(* Mutation of Rotate: the remainder is forgotten.                          *)
RotateUnreduced(vnot, shift) == vnot + shift

Rotate(vnot, shift) == (vnot + shift) % 6

(* Corners 0 and 1 change places.                                           *)
SwapCorners(facet) == [facet EXCEPT ![0] = facet[1], ![1] = facet[0]]

(* The neighbour g, if there is one, adjusts its link to edge e, which it   *)
(* has opposite vnot.                                                       *)
Adjust(s, g, vnot, e) ==
  IF g = None THEN s
  ELSE [s EXCEPT !.which_vertex_not[g][Next3(vnot)] = Rotate(@, Shift(e))]

(* Facet f itself; n and vnot are the links it had at first.                *)
SwapEdges(s, f, n, vnot) ==
  LET own == s.which_vertex_not[f]
  IN  [s EXCEPT
         !.facet_start[f] = SwapCorners(@),
         !.neighbor[f] = [n EXCEPT ![1] = n[2], ![2] = n[1]],
         !.which_vertex_not[f] = [own EXCEPT ![0] = Rotate(own[0], 3),
                                             ![1] = Rotate(vnot[2], 3),
                                             ![2] = Rotate(vnot[1], 3)]]

ReverseFacet(s, f) ==
  LET n          == s.neighbor[f]
      vnot       == s.which_vertex_not[f]
      tell(t, e) == Adjust(t, n[e], vnot[e], e)
  IN  SwapEdges(tell(tell(tell(s, 0), 1), 2), f, n, vnot)

(* Mutation of ReverseWithNormal: the normal stays.                         *)
ReverseWithoutNormal(s, f) == ReverseFacet(s, f)

(* What stl_reverse_all_facets does to each facet.                          *)
ReverseWithNormal(s, f) == SetNormal(ReverseFacet(s, f), f)

-----------------------------------------------------------------------------
(****************************************************************************)
(* get_volume: the pyramids over the facets, from corner 0 of facet 0.  The *)
(* height of a pyramid is measured along the stored normal, so its sign is  *)
(* that normal's.  Six times the volume is an integer if every normal is    *)
(* right, backwards or zero; otherwise nothing is said of it.               *)
(****************************************************************************)
Pyramid(stl, f) ==
  LET height == Dot(FacetNormal(stl.facet_start[f]),
                    Minus(stl.facet_start[f][0], stl.facet_start[0][0]))
  IN  IF stl.normal[f] = Zero THEN 0
      ELSE IF BackwardsNormal(stl, f) THEN - height
      ELSE height

Measurable(stl, f) ==
  \/ RightNormal(stl, f) \/ BackwardsNormal(stl, f)
  \/ Zero \in {stl.normal[f], FacetNormal(stl.facet_start[f])}

(* The pyramids over the first n facets together, for every n.              *)
Pyramids(stl) ==
  LET sum[n \in 0 .. stl.number_of_facets] ==
        IF n = 0 THEN 0 ELSE sum[n - 1] + Pyramid(stl, n - 1)
  IN  sum

(* <<six times the volume>>, or <<>>.                                       *)
Volume(stl) ==
  IF \A f \in Facets(stl) : Measurable(stl, f)
  THEN <<Pyramids(stl)[stl.number_of_facets]>>
  ELSE <<>>

=============================================================================
