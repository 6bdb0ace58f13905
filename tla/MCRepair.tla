------------------------------- MODULE MCRepair -------------------------------
(****************************************************************************)
(* Instances of Repair: tetrahedra with corners a little off, faces flipped *)
(* or missing, small sequences of facets with short edges and edges shared  *)
(* by three facets, a Moebius strip, two tetrahedra, and a surface whose    *)
(* only hole ends at a short edge.                                          *)
(****************************************************************************)
EXTENDS Repair, FiniteSetsExt

MCMaxFacets == 12

A == <<0, 0, 0>>
B == <<8, 0, 0>>
C == <<0, 8, 0>>
D == <<0, 0, 8>>
E == <<8, 8, 1>>

(* The same points, a little off.                                           *)
Near(p) == CASE p = A -> <<1, 0, 0>> [] p = B -> <<9, 0, 0>>
             [] p = C -> <<0, 9, 0>> [] OTHER -> <<0, 0, 9>>

Far(p) == <<p[1] + 20, p[2], p[3]>>

MCVertex ==
  {A, B, C, D, E} \cup {Near(p) : p \in {A, B, C, D}} \cup {Far(p) : p \in {A, B, C, D}}

Tri(a, b, c) == [corner \in Corner |-> <<a, b, c>>[corner + 1]]
Flip(t) == Tri(t[0], t[2], t[1])

Tetrahedron == <<Tri(A, C, B), Tri(A, B, D), Tri(B, C, D), Tri(C, A, D)>>

Flipped(mesh, S) == [k \in DOMAIN mesh |-> IF k \in S THEN Flip(mesh[k]) ELSE mesh[k]]

Moved(mesh, corners) ==
  [k \in DOMAIN mesh |->
    [c \in Corner |-> IF <<k, c>> \in corners THEN Near(mesh[k][c]) ELSE mesh[k][c]]]

(* Up to three corners of a tetrahedron are off, and up to n of one with a  *)
(* face flipped or without its last face.                                   *)
Corners(n) == UNION {kSubset(k, (1 .. 4) \X Corner) : k \in 0 .. n}

LooseTetrahedra(n) ==
  {Moved(Tetrahedron, corners) : corners \in Corners(3)} \cup
  UNION {{Moved(Flipped(Tetrahedron, {3}), corners),
          SubSeq(Moved(Tetrahedron, corners), 1, 3)} : corners \in Corners(n)}

(* Facets around a short edge.                                              *)
Short ==
  {Tri(A, Near(A), D), Tri(Near(A), A, C), Tri(A, D, B), Tri(D, A, B),
   Tri(A, C, B), Tri(Near(A), C, B)}

(* A hole of four edges, two of whose corners are near each other, and      *)
(* joined by an edge outside the hole.                                      *)
Folding == <<Tri(A, E, C), Tri(E, Near(A), C), Tri(Near(A), A, C),
             Tri(A, Near(A), D), Tri(Near(A), B, D), Tri(B, A, D)>>

(* Faces of the tetrahedron, both ways round, with neighbours a little off, *)
(* a short edge and degenerate facets.                                      *)
Sample ==
  {Tetrahedron[k] : k \in 1 .. 4} \cup
  {Tri(A, D, B), Tri(C, B, A), Tri(Near(A), B, D), Tri(A, Near(A), D),
   Tri(A, Near(B), C), Tri(B, A, Near(D)), Tri(A, A, B), Tri(D, D, D)}

(* Those of them of which longer sequences are made.                        *)
Few == {Tetrahedron[1], Tetrahedron[2], Tetrahedron[4], Tri(A, D, B),
        Tri(Near(A), B, D), Tri(A, Near(A), D), Tri(A, Near(B), C)}

Sequences(S, n) == UNION {[1 .. k -> S] : k \in 0 .. n}

(* Five facets around five points, twisted.                                 *)
Moebius ==
  [k \in 1 .. 5 |-> LET p(l) == <<A, B, C, D, E>>[((k + l) % 5) + 1]
                    IN  Tri(p(0), p(1), p(2))]

Second == [k \in 1 .. 4 |-> [c \in Corner |-> Far(Tetrahedron[k][c])]]

Twisted ==
  {Flipped(Tetrahedron, S) : S \in SUBSET (1 .. 4)} \cup
  {Flipped(Moebius, S) : S \in SUBSET (1 .. 5)} \cup
  {Flipped(Tetrahedron \o Second, S) : S \in SUBSET {1, 2, 6, 8}} \cup
  {Flipped(SubSeq(Tetrahedron, 1, 3) \o Moebius, S) : S \in SUBSET {1, 5}}

(* A file whose facet k has the normal of facet at(k), or its opposite, or  *)
(* none.                                                                    *)
File(mesh, at(_), sign(_)) ==
  [facets  |-> mesh,
   normals |-> [f \in Slot |->
      IF f >= Len(mesh) THEN Zero
      ELSE LET n == FacetNormal(mesh[at(f + 1)])
           IN  <<sign(f + 1) * n[1], sign(f + 1) * n[2], sign(f + 1) * n[3]>>]]

WithNormals(mesh, sign) == File(mesh, LAMBDA k : k, LAMBDA k : sign)

RightFiles(meshes) == {WithNormals(mesh, 1) : mesh \in meshes}

(* The normals alternate, are all wrong or missing, or belong to the facet  *)
(* before.                                                                  *)
OddFiles(meshes) ==
  UNION {{File(mesh, LAMBDA k : k, LAMBDA k : 1 - 2 * (k % 2)),
          WithNormals(mesh, -1),
          WithNormals(mesh, 0),
          File(mesh, LAMBDA k : IF k = 1 THEN Len(mesh) ELSE k - 1, LAMBDA k : 1)} :
         mesh \in meshes}

(* The faces in S were flipped, and their normals were not.                 *)
FlippedFiles(mesh, T) ==
  {File(Flipped(mesh, S), LAMBDA k : k, LAMBDA k : IF k \in S THEN -1 ELSE 1) : S \in T}

TwistedFiles ==
  FlippedFiles(Tetrahedron, SUBSET (1 .. 4)) \cup
  FlippedFiles(Tetrahedron \o Second, SUBSET {1, 2, 6, 8})

PassInputs   == RightFiles(Sequences(Few, 3) \cup LooseTetrahedra(1) \cup [1 .. 3 -> Short])
                \cup OddFiles(Sequences(Sample, 2) \cup Twisted) \cup TwistedFiles
FixInputs    == RightFiles(Sequences(Sample, 2) \cup LooseTetrahedra(3) \cup [1 .. 4 -> Short])
                \cup OddFiles(Sequences(Sample, 2) \cup Twisted) \cup TwistedFiles
HoleInputs   == RightFiles(Sequences(Sample, 3))
FoldInputs   == RightFiles({Folding})

UncheckedInputs == RightFiles({Tetrahedron})

Option(flags, tol, inc) ==
  [flags |-> flags, tolerance |-> tol, increment |-> inc, iterations |-> 2]

(* Nearby with the shortest edge, with a wider grid, and from no tolerance  *)
(* to one wider than the mesh; and without it holes filled, or not and the  *)
(* facets turned before.                                                    *)
PassOptions ==
  {Option({"nearby"}, None, 1), Option({"nearby"}, 2, 2), Option({"nearby"}, 0, 10),
   Option({"fill_holes", "normal_directions", "generate_shared_vertices"}, None, 1),
   Option({"normal_directions", "reverse_all", "generate_shared_vertices"}, None, 1)}

(* Every pass: what the program does when it is given no flag, and with an  *)
(* output that needs the shared vertices.                                   *)
FixOptions ==
  {Option({"fixall"}, None, 1), Option({"fixall", "generate_shared_vertices"}, 2, 2)}

DefaultOptions == {Option({"fixall"}, None, 1)}

(* An output with shared vertices, and no check asked for.                  *)
UncheckedOptions == {Option({"reverse_all", "generate_shared_vertices"}, None, 1)}

=============================================================================
