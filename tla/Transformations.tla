---------------------------- MODULE Transformations ----------------------------
(****************************************************************************)
(* The functions that move a whole mesh (util.c): each moves every corner   *)
(* and then adjusts the printed dimensions, some by measuring them again,   *)
(* some by moving them as it moved the corners.                             *)
(*                                                                          *)
(* Abstractions: rotations are by quarters of a turn; the volume and the    *)
(* surface, which stl_scale_versor adjusts if they were computed, are not   *)
(* computed before.                                                         *)
(****************************************************************************)
EXTENDS StlInput

Plus(a, b)  == <<a[1] + b[1], a[2] + b[2], a[3] + b[3]>>
Times(a, b) == <<a[1] * b[1], a[2] * b[2], a[3] * b[3]>>

AllCorners(stl) == {stl.facet_start[f][c] : f \in Facets(stl), c \in Corner}

(* The mesh with every corner moved: move is a function of its corners.     *)
Moved(mesh, move) ==
  [mesh EXCEPT !.stl.facet_start =
     [s \in Slot |-> IF s \in Facets(mesh.stl) THEN [c \in Corner |-> move[@[s][c]]] ELSE @[s]]]

(* stl_get_size: an empty mesh keeps its dimensions.                        *)
GetSize(mesh) ==
  IF AllCorners(mesh.stl) = {} THEN mesh
  ELSE [mesh EXCEPT !.stats = Sized([@ EXCEPT !.min = Least(AllCorners(mesh.stl)),
                                              !.max = Greatest(AllCorners(mesh.stl))])]

CalculateNormals(mesh) ==
  [mesh EXCEPT !.stl.normal =
     [s \in Slot |-> IF s \in Facets(mesh.stl) THEN FacetNormal(mesh.stl.facet_start[s]) ELSE @[s]]]

ReverseAllFacets(stl) ==
  LET reversed[n \in 0 .. MaxFacets] ==
        IF n = 0 THEN stl ELSE ReverseWithNormal(reversed[n - 1], n - 1)
  IN  reversed[stl.number_of_facets]

-----------------------------------------------------------------------------
(* stl_rotate, a quarter turn from axis a to axis b.                        *)
Turned(p, a, b) == [p EXCEPT ![a] = - p[b], ![b] = p[a]]

RotateAbout(mesh, a, b) ==
  CalculateNormals(GetSize(Moved(mesh, [p \in AllCorners(mesh.stl) |-> Turned(p, a, b)])))

RotateX(mesh) == RotateAbout(mesh, 2, 3)
RotateY(mesh) == RotateAbout(mesh, 3, 1)
RotateZ(mesh) == RotateAbout(mesh, 1, 2)

Opposed(p, axis) == [p EXCEPT ![axis] = - @]

(* Mutation of Mirror: min and max do not change places.                    *)
MirrorUnswapped(mesh, axis) ==
  LET moved == Moved(mesh, [p \in AllCorners(mesh.stl) |-> Opposed(p, axis)])
  IN  [moved EXCEPT
        !.stats = [@ EXCEPT !.min = Opposed(@, axis), !.max = Opposed(@, axis)],
        !.stl = ReverseAllFacets(@)]

(* Mutation of Mirror: the facets are not reversed.                         *)
MirrorInsideOut(mesh, axis) ==
  LET moved == Moved(mesh, [p \in AllCorners(mesh.stl) |-> Opposed(p, axis)])
  IN  [moved EXCEPT !.stats.min[axis] = - mesh.stats.max[axis],
                    !.stats.max[axis] = - mesh.stats.min[axis]]

(* The facets are reversed, to keep their outside.                          *)
Mirror(mesh, axis) ==
  LET moved == Moved(mesh, [p \in AllCorners(mesh.stl) |-> Opposed(p, axis)])
  IN  [moved EXCEPT !.stats.min[axis] = - mesh.stats.max[axis],
                    !.stats.max[axis] = - mesh.stats.min[axis],
                    !.stl = ReverseAllFacets(@)]

(* stl_scale and stl_scale_versor; a negative factor is not looked for.     *)
ScaleVersor(mesh, versor) ==
  LET moved == Moved(mesh, [p \in AllCorners(mesh.stl) |-> Times(p, versor)])
  IN  [moved EXCEPT !.stats.min  = Times(@, versor),
                    !.stats.max  = Times(@, versor),
                    !.stats.size = Times(@, versor)]

(* Mutation of Translate: by the given distance.                            *)
TranslateBy(mesh, p) ==
  LET moved == Moved(mesh, [q \in AllCorners(mesh.stl) |-> Plus(q, p)])
  IN  [moved EXCEPT !.stats.min = p,
                    !.stats.max = Minus(@, Minus(mesh.stats.min, p))]

(* To p, from where stats.min says the mesh is.                             *)
Translate(mesh, p) ==
  LET moved == Moved(mesh, [q \in AllCorners(mesh.stl) |-> Minus(q, Minus(mesh.stats.min, p))])
  IN  [moved EXCEPT !.stats.min = p,
                    !.stats.max = Minus(@, Minus(mesh.stats.min, p))]

TranslateRelative(mesh, p) ==
  LET moved == Moved(mesh, [q \in AllCorners(mesh.stl) |-> Plus(q, p)])
  IN  [moved EXCEPT !.stats.min = Plus(@, p), !.stats.max = Plus(@, p)]

Inside(p, low, high) == \A a \in Axis : low[a] < p[a] /\ p[a] < high[a]

(* The corners inside the box move; min and max only widen, and the size    *)
(* stays.                                                                   *)
Stretch(mesh, low, high, offset) ==
  LET there == {p \in AllCorners(mesh.stl) : Inside(p, low, high)}
      moved == Moved(mesh, [p \in AllCorners(mesh.stl) |->
                              IF p \in there THEN Plus(p, offset) ELSE p])
      reach == {Plus(p, offset) : p \in there} \cup {mesh.stats.min, mesh.stats.max}
  IN  [moved EXCEPT !.stats.min = Least(reach), !.stats.max = Greatest(reach)]

=============================================================================
