-------------------------- MODULE MCFacetCheckExact --------------------------
(****************************************************************************)
(* Instance of FacetCheckExact: the meshes of at most three facets that can *)
(* be drawn from the facets below, and some tetrahedra.                     *)
(****************************************************************************)
EXTENDS FacetCheckExact

MCMaxFacets == 6

A == <<0, 0, 0>>
B == <<4, 0, 0>>
C == <<0, 4, 0>>
D == <<0, 0, 5>>
E == <<1, 0, 0>>

MCVertex == {A, B, C, D, E}

Tri(a, b, c) == [corner \in Corner |-> <<a, b, c>>[corner + 1]]

(* The faces of a tetrahedron, outside to the right.                        *)
Tetrahedron == <<Tri(A, C, B), Tri(A, B, D), Tri(B, C, D), Tri(C, A, D)>>

(* Its faces, one of them flipped, one turned to start at another corner,   *)
(* one with a corner of its own, and facets with two or three equal corners.*)
Sample ==
  {Tetrahedron[k] : k \in 1 .. 4} \cup
  {Tri(A, D, B), Tri(C, B, A), Tri(E, B, D), Tri(A, E, D),
   Tri(A, A, B), Tri(C, D, D), Tri(B, C, B), Tri(D, D, D)}

(* Every face of the tetrahedron in either orientation, a degenerate facet  *)
(* or a duplicate in front, in the middle or behind.                        *)
Flip(t) == Tri(t[0], t[2], t[1])

Tetrahedra ==
  {[k \in 1 .. 4 |-> IF k \in flipped THEN Flip(Tetrahedron[k]) ELSE Tetrahedron[k]] :
     flipped \in SUBSET (1 .. 4)}

With(mesh, k, t) == SubSeq(mesh, 1, k) \o <<t>> \o SubSeq(mesh, k + 1, Len(mesh))

Spoiled ==
  {With(With(mesh, k, t), l, u) :
     mesh \in Tetrahedra, k \in {0, 2, 4}, l \in {0, 5},
     t \in {Tri(C, D, D), Tri(E, B, D)}, u \in {Tri(A, A, B), Tri(A, B, D)}}

MCInputs == UNION {[1 .. n -> Sample] : n \in 0 .. 3} \cup Tetrahedra \cup Spoiled

=============================================================================
