------------------------------ MODULE AdmeshProofs -----------------------------
(****************************************************************************)
(* What main of admesh.c keeps, for every set of files and command lines    *)
(* and every size of mesh: the types, the printed dimensions and the place  *)
(* --translate moves to, the outputs and the return code, and the meaning   *)
(* of the options whatever their order.                                     *)
(*                                                                          *)
(* The first half is about the operators of Transformations and StlInput:   *)
(* each transformation moves every corner by one map, and what it does to   *)
(* the printed dimensions is what that map does to a box.  The second half  *)
(* is four inductive invariants of main, the last three on top of the       *)
(* first: TypeInv, BoxInv, OutInv and ParseInv.                             *)
(****************************************************************************)
EXTENDS Admesh, StlFileProofs

-----------------------------------------------------------------------------
(****************************************************************************)
(* Points and boxes.                                                        *)
(****************************************************************************)
(* Points are given by their coordinates.                                   *)
LEMMA Coordinates ==
  /\ \A p \in Point, a \in Axis : p[a] \in Int
  /\ \A p, q \in Point : (\A a \in Axis : p[a] = q[a]) => p = q
  /\ \A x, y, z \in Int : /\ <<x, y, z>> \in Point
                          /\ <<x, y, z>>[1] = x /\ <<x, y, z>>[2] = y /\ <<x, y, z>>[3] = z
<1>1. \A a \in Axis : a = 1 \/ a = 2 \/ a = 3
  BY DEF Axis
<1>2. 1 \in Axis /\ 2 \in Axis /\ 3 \in Axis
  BY DEF Axis
<1>3. \A x, y, z \in Int : /\ <<x, y, z>> \in Point
                          /\ <<x, y, z>>[1] = x /\ <<x, y, z>>[2] = y /\ <<x, y, z>>[3] = z
  BY DEF Point
<1>4. \A p \in Point : /\ p = <<p[1], p[2], p[3]>>
                       /\ p[1] \in Int /\ p[2] \in Int /\ p[3] \in Int
  BY DEF Point
<1>5. \A p \in Point, a \in Axis : p[a] \in Int
  BY <1>1, <1>4
<1>6. ASSUME NEW p \in Point, NEW q \in Point, \A a \in Axis : p[a] = q[a] PROVE p = q
  <2>1. p[1] = q[1] /\ p[2] = q[2] /\ p[3] = q[3]
    BY <1>2, <1>6
  <2>2. QED
    BY <2>1, <1>4
<1>7. QED
  BY <1>3, <1>5, <1>6

(* Vector arithmetic goes coordinate by coordinate, and the square of a     *)
(* diameter is not negative.                                                *)
LEMMA PointArithmetic ==
  ASSUME NEW p \in Point, NEW q \in Point
  PROVE  /\ Minus(p, q) \in Point /\ Plus(p, q) \in Point /\ Times(p, q) \in Point
         /\ Cross(p, q) \in Point /\ Dot(p, p) \in Nat
         /\ \A a \in Axis : /\ Minus(p, q)[a] = p[a] - q[a]
                            /\ Plus(p, q)[a] = p[a] + q[a]
                            /\ Times(p, q)[a] = p[a] * q[a]
<1>1. \A a \in Axis : a = 1 \/ a = 2 \/ a = 3
  BY DEF Axis
<1>2. /\ p[1] \in Int /\ p[2] \in Int /\ p[3] \in Int
      /\ q[1] \in Int /\ q[2] \in Int /\ q[3] \in Int
  BY DEF Point
<1>3. Minus(p, q) \in Point /\ \A a \in Axis : Minus(p, q)[a] = p[a] - q[a]
  BY <1>1, <1>2, Coordinates DEF Minus
<1>4. Plus(p, q) \in Point /\ \A a \in Axis : Plus(p, q)[a] = p[a] + q[a]
  BY <1>1, <1>2, Coordinates DEF Plus
<1>5. \A x, y \in Int : x * y \in Int /\ x * x >= 0
  OBVIOUS
<1>6. Times(p, q) \in Point /\ \A a \in Axis : Times(p, q)[a] = p[a] * q[a]
  BY <1>1, <1>2, <1>5, Coordinates DEF Times
<1>7. Cross(p, q) \in Point
  <2>1. \A a, b, c, d \in Int : a * b - c * d \in Int
    OBVIOUS
  <2>2. QED
    BY <2>1, <1>2, Coordinates DEF Cross
<1>8. Dot(p, p) \in Nat
  <2>1. /\ p[1] * p[1] \in Int /\ p[1] * p[1] >= 0
        /\ p[2] * p[2] \in Int /\ p[2] * p[2] >= 0
        /\ p[3] * p[3] \in Int /\ p[3] * p[3] >= 0
    BY <1>2, <1>5
  <2>2. QED
    BY <2>1 DEF Dot
<1>9. QED
  BY <1>3, <1>4, <1>6, <1>7, <1>8

(* What a finite set is mapped onto is finite.                              *)
LEMMA ImageFinite ==
  ASSUME NEW S, IsFiniteSet(S), NEW T, NEW f \in [S -> T], \A t \in T : \E x \in S : f[x] = t
  PROVE  IsFiniteSet(T)
<1>1. f \in Surjection(S, T)
  BY DEF Surjection
<1>2. QED
  BY <1>1, FS_Surjection

(* The least of finitely many integers is the one that is least.            *)
LEMMA MinimumOf ==
  ASSUME NEW S, IsFiniteSet(S), S \subseteq Int, S # {}
  PROVE  /\ Sets!Min(S) \in S
         /\ \A y \in S : Sets!Min(S) <= y
         /\ \A x \in S : (\A y \in S : x <= y) => x = Sets!Min(S)
<1>1. PICK x \in S : \A y \in S : x <= y
  BY LeastInteger
<1>2. Sets!Min(S) \in S /\ \A y \in S : Sets!Min(S) <= y
  BY <1>1 DEF Sets!Min
<1>3. ASSUME NEW z \in S, \A y \in S : z <= y PROVE z = Sets!Min(S)
  <2>1. z <= Sets!Min(S) /\ Sets!Min(S) <= z /\ z \in Int /\ Sets!Min(S) \in Int
    BY <1>2, <1>3
  <2> HIDE DEF Sets!Min
  <2>2. QED
    BY <2>1
<1>4. QED
  BY <1>2, <1>3

(* The greatest likewise.                                                   *)
LEMMA MaximumOf ==
  ASSUME NEW S, IsFiniteSet(S), S \subseteq Int, S # {}
  PROVE  /\ Sets!Max(S) \in S
         /\ \A y \in S : y <= Sets!Max(S)
         /\ \A x \in S : (\A y \in S : y <= x) => x = Sets!Max(S)
<1> DEFINE T == {0 - x : x \in S}
<1>1. IsFiniteSet(T)
  <2> DEFINE f == [x \in S |-> 0 - x]
  <2>1. f \in [S -> T] /\ \A t \in T : \E x \in S : f[x] = t
    OBVIOUS
  <2> HIDE DEF T, f
  <2>2. QED
    BY <2>1, ImageFinite
<1>2. T \subseteq Int /\ T # {}
  <2>1. \A x \in S : x \in Int /\ 0 - x \in Int
    OBVIOUS
  <2>2. QED
    BY <2>1
<1>3. PICK t \in T : \A y \in T : t <= y
  <2> HIDE DEF T
  <2>1. QED
    BY <1>1, <1>2, LeastInteger
<1>4. PICK x \in S : t = 0 - x
  OBVIOUS
<1>5. ASSUME NEW y \in S PROVE y <= x
  <2>1. 0 - x <= 0 - y /\ x \in Int /\ y \in Int
    BY <1>3, <1>4
  <2>2. QED
    BY <2>1
<1>6. Sets!Max(S) \in S /\ \A y \in S : y <= Sets!Max(S)
  BY <1>5 DEF Sets!Max
<1>7. ASSUME NEW z \in S, \A y \in S : y <= z PROVE z = Sets!Max(S)
  <2>1. z <= Sets!Max(S) /\ Sets!Max(S) <= z /\ z \in Int /\ Sets!Max(S) \in Int
    BY <1>6, <1>7
  <2> HIDE DEF Sets!Max
  <2>2. QED
    BY <2>1
<1>8. QED
  BY <1>6, <1>7

(* low and high are the least and the greatest coordinates of the points.   *)
IsBox(P, low, high) ==
  \A a \in Axis : /\ \A p \in P : low[a] <= p[a] /\ p[a] <= high[a]
                  /\ \E p \in P : p[a] = low[a]
                  /\ \E p \in P : p[a] = high[a]

(* Least and Greatest, by which stl_get_size and stl_facet_stats measure,   *)
(* are the ends of the box around the points, and nothing else is.          *)
LEMMA BoxOf ==
  ASSUME NEW P, IsFiniteSet(P), P \subseteq Point, P # {}
  PROVE  /\ Least(P) \in Point /\ Greatest(P) \in Point
         /\ \A low, high \in Point :
              IsBox(P, low, high) <=> low = Least(P) /\ high = Greatest(P)
<1> DEFINE S(a) == {p[a] : p \in P}
<1>1. ASSUME NEW a \in Axis
      PROVE  IsFiniteSet(S(a)) /\ S(a) \subseteq Int /\ S(a) # {}
  <2>1. IsFiniteSet(S(a))
    <3> DEFINE f == [p \in P |-> p[a]]
    <3>1. f \in [P -> S(a)] /\ \A t \in S(a) : \E p \in P : f[p] = t
      OBVIOUS
    <3> HIDE DEF S, f
    <3>2. QED
      BY <3>1, ImageFinite
  <2>2. QED
    BY <2>1, Coordinates
<1>2. ASSUME NEW a \in Axis
      PROVE  /\ Sets!Min(S(a)) \in S(a) /\ \A y \in S(a) : Sets!Min(S(a)) <= y
             /\ \A x \in S(a) : (\A y \in S(a) : x <= y) => x = Sets!Min(S(a))
             /\ Sets!Max(S(a)) \in S(a) /\ \A y \in S(a) : y <= Sets!Max(S(a))
             /\ \A x \in S(a) : (\A y \in S(a) : y <= x) => x = Sets!Max(S(a))
  <2> HIDE DEF S
  <2>1. QED
    BY <1>1, MinimumOf, MaximumOf
<1>3. \A a \in Axis : a = 1 \/ a = 2 \/ a = 3
  BY DEF Axis
<1>4. 1 \in Axis /\ 2 \in Axis /\ 3 \in Axis
  BY DEF Axis
<1>5. /\ Least(P) = <<Sets!Min(S(1)), Sets!Min(S(2)), Sets!Min(S(3))>>
      /\ Greatest(P) = <<Sets!Max(S(1)), Sets!Max(S(2)), Sets!Max(S(3))>>
  BY DEF Least, Greatest
<1>6. \A x, a : x \in S(a) <=> \E p \in P : p[a] = x
  OBVIOUS
<1> HIDE DEF S
<1>7. \A a \in Axis : Sets!Min(S(a)) \in Int /\ Sets!Max(S(a)) \in Int
  BY <1>1, <1>2
<1>8. /\ Least(P) \in Point /\ Greatest(P) \in Point
      /\ \A a \in Axis : Least(P)[a] = Sets!Min(S(a)) /\ Greatest(P)[a] = Sets!Max(S(a))
  <2>1. /\ Sets!Min(S(1)) \in Int /\ Sets!Min(S(2)) \in Int /\ Sets!Min(S(3)) \in Int
        /\ Sets!Max(S(1)) \in Int /\ Sets!Max(S(2)) \in Int /\ Sets!Max(S(3)) \in Int
    BY <1>4, <1>7
  <2>2. Least(P) \in Point /\ Greatest(P) \in Point
    BY <1>5, <2>1, Coordinates
  <2>3. QED
    BY <1>3, <1>5, <2>1, <2>2, Coordinates
<1>9. IsBox(P, Least(P), Greatest(P))
  <2>1. ASSUME NEW a \in Axis
        PROVE  /\ \A p \in P : Least(P)[a] <= p[a] /\ p[a] <= Greatest(P)[a]
               /\ \E p \in P : p[a] = Least(P)[a]
               /\ \E p \in P : p[a] = Greatest(P)[a]
    BY <1>2, <1>6, <1>8
  <2>2. QED
    BY <2>1 DEF IsBox
<1>10. ASSUME NEW low \in Point, NEW high \in Point, IsBox(P, low, high)
       PROVE  low = Least(P) /\ high = Greatest(P)
  <2>1. ASSUME NEW a \in Axis
        PROVE  low[a] = Sets!Min(S(a)) /\ high[a] = Sets!Max(S(a))
    <3>1. low[a] \in S(a) /\ high[a] \in S(a)
      BY <1>6, <1>10 DEF IsBox
    <3>2. (\A y \in S(a) : low[a] <= y) /\ (\A y \in S(a) : y <= high[a])
      BY <1>6, <1>10 DEF IsBox
    <3>3. QED
      BY <1>2, <3>1, <3>2
  <2>2. QED
    BY <2>1, <1>8, Coordinates
<1>11. QED
  BY <1>8, <1>9, <1>10

(* g goes on from v0 in N steps of F.                                       *)
StepsOf(F, v0, V, N, g) ==
  /\ g \in [0 .. N -> V] /\ g[0] = v0
  /\ \A n \in 1 .. N : g[n] = F[<<g[n - 1], n - 1>>]

(* A function on 0 .. N can be defined from its value at 0 and a step.      *)
LEMMA RecursionExists ==
  ASSUME NEW N \in Nat, NEW V, NEW v0 \in V, NEW F \in [V \X (0 .. N - 1) -> V]
  PROVE  \E g : StepsOf(F, v0, V, N, g)
<1> DEFINE Solves(g, m) == /\ g \in [0 .. m -> V] /\ g[0] = v0
                           /\ \A n \in 1 .. m : g[n] = F[<<g[n - 1], n - 1>>]
           Unsolved == {m \in Nat : m <= N /\ ~ \E g : Solves(g, m)}
<1>1. Unsolved = {}
  <2> SUFFICES ASSUME Unsolved # {} PROVE FALSE
    OBVIOUS
  <2>1. PICK m \in Unsolved : \A k \in Unsolved : m <= k
    <3>1. Unsolved \subseteq Nat
      OBVIOUS
    <3> HIDE DEF Unsolved
    <3>2. QED
      BY <3>1, LeastNatural
  <2>2. m \in Nat /\ m <= N /\ ~ \E g : Solves(g, m)
    OBVIOUS
  <2>3. m # 0
    <3>1. Solves([n \in 0 .. 0 |-> v0], 0)
      OBVIOUS
    <3>2. QED
      BY <2>2, <3>1
  <2>4. PICK g : Solves(g, m - 1)
    <3> HIDE DEF Solves
    <3>1. m - 1 \in Nat /\ m - 1 <= N /\ ~ (m <= m - 1)
      BY <2>2, <2>3
    <3>2. m - 1 \notin Unsolved
      <4> HIDE DEF Unsolved
      <4>1. QED
        BY <2>1, <3>1
    <3>3. QED
      BY <3>1, <3>2
  <2> DEFINE h == [n \in 0 .. m |-> IF n = m THEN F[<<g[m - 1], m - 1>>] ELSE g[n]]
  <2>5. m - 1 \in 0 .. N - 1 /\ m - 1 \in 0 .. m - 1 /\ m - 1 \in Nat
    BY <2>2, <2>3
  <2>6. F[<<g[m - 1], m - 1>>] \in V
    BY <2>4, <2>5
  <2>7. h \in [0 .. m -> V]
    BY <2>2, <2>4, <2>6
  <2>8. h[0] = v0
    BY <2>2, <2>3, <2>4
  <2>9. ASSUME NEW n \in 1 .. m PROVE h[n] = F[<<h[n - 1], n - 1>>]
    <3>1. h[n - 1] = g[n - 1]
      BY <2>2
    <3>2. CASE n = m
      BY <2>2, <3>1, <3>2
    <3>3. CASE n # m
      <4>1. n \in 1 .. m - 1 /\ h[n] = g[n]
        BY <2>2, <3>3
      <4>2. g[n] = F[<<g[n - 1], n - 1>>]
        BY <2>4, <4>1
      <4>3. QED
        BY <3>1, <4>1, <4>2
    <3>4. QED
      BY <3>2, <3>3
  <2> HIDE DEF h
  <2>10. Solves(h, m)
    BY <2>7, <2>8, <2>9
  <2> HIDE DEF Solves
  <2>11. QED
    BY <2>2, <2>10
<1>2. N \notin Unsolved
  BY <1>1
<1>3. PICK g : Solves(g, N)
  <2> HIDE DEF Solves
  <2>1. QED
    BY <1>2
<1>4. QED
  BY <1>3 DEF StepsOf

-----------------------------------------------------------------------------
(****************************************************************************)
(* Meshes that have been moved, whose corners are anywhere.                 *)
(****************************************************************************)
Structures ==
  [number_of_facets  : 0 .. MaxFacets,
   facet_start       : [Slot -> [Corner -> Point]],
   normal            : [Slot -> Point],
   neighbor          : [Slot -> [Corner -> Slot \cup {None}]],
   which_vertex_not  : [Slot -> [Corner -> 0 .. 5]],
   heads             : {{}},
   shortest_edge     : Int,
   connected_edges   : Int,
   connected_facets  : [1 .. 3 -> Int],
   degenerate_facets : Int,
   facets_removed    : Int,
   facets_added      : Int,
   edges_fixed       : Int]

(* The printed dimensions, and the mesh with them.                          *)
Dimensions == [min : Point, max : Point, size : Point, diameter : Nat]

Meshes == [stl : Structures, stats : Dimensions, error : BOOLEAN]

(* The corners of a mesh: finitely many points, and some if it has facets.  *)
LEMMA CornersOfStructure ==
  ASSUME NEW s \in Structures
  PROVE  /\ IsFiniteSet(AllCorners(s)) /\ AllCorners(s) \subseteq Point
         /\ AllCorners(s) = {} <=> s.number_of_facets = 0
<1> DEFINE C == {s.facet_start[f][c] : f \in Facets(s), c \in Corner}
           pairs == Facets(s) \X Corner
           g == [x \in pairs |-> s.facet_start[x[1]][x[2]]]
<1>1. AllCorners(s) = C
  BY DEF AllCorners
<1>2. IsFiniteSet(pairs)
  <2>1. s.number_of_facets - 1 \in Int
    BY MaxFacetsAssumption DEF Structures
  <2>2. IsFiniteSet(0 .. s.number_of_facets - 1)
    BY <2>1, FS_Interval
  <2>3. IsFiniteSet(0 .. 2)
    <3>1. 0 \in Int /\ 2 \in Int
      OBVIOUS
    <3>2. QED
      BY <3>1, FS_Interval
  <2>4. QED
    BY <2>2, <2>3, FS_Product DEF Facets, Corner
<1>3. g \in [pairs -> C] /\ \A t \in C : \E x \in pairs : g[x] = t
  <2>1. \A x \in pairs : x[1] \in Facets(s) /\ x[2] \in Corner /\ g[x] \in C
    OBVIOUS
  <2>2. ASSUME NEW t \in C PROVE \E x \in pairs : g[x] = t
    <3>1. PICK f \in Facets(s), c \in Corner : t = s.facet_start[f][c]
      OBVIOUS
    <3>2. <<f, c>> \in pairs /\ g[<<f, c>>] = t
      BY <3>1
    <3>3. QED
      BY <3>2
  <2>3. QED
    BY <2>1, <2>2
<1>4. IsFiniteSet(C)
  <2> HIDE DEF C, pairs, g
  <2>1. QED
    BY <1>2, <1>3, ImageFinite
<1>5. C \subseteq Point
  <2>1. Facets(s) \subseteq Slot /\ s.facet_start \in [Slot -> [Corner -> Point]]
    BY MaxFacetsAssumption DEF Structures, Facets, Slot
  <2>2. QED
    BY <2>1
<1>6. C = {} <=> s.number_of_facets = 0
  <2>1. s.number_of_facets \in Nat
    BY MaxFacetsAssumption DEF Structures
  <2>2. s.number_of_facets # 0 <=> \E f : f \in Facets(s)
    <3>1. s.number_of_facets # 0 => 0 \in Facets(s)
      BY <2>1 DEF Facets
    <3>2. s.number_of_facets = 0 => Facets(s) = {}
      BY DEF Facets
    <3>3. QED
      BY <3>1, <3>2
  <2>3. 0 \in Corner
    BY DEF Corner
  <2>4. \A f \in Facets(s) : s.facet_start[f][0] \in C
    BY <2>3
  <2>5. \A t \in C : \E f : f \in Facets(s)
    OBVIOUS
  <2> HIDE DEF C
  <2>6. C = {} <=> ~ \E f : f \in Facets(s)
    BY <2>4, <2>5
  <2>7. QED
    BY <2>2, <2>6
<1> HIDE DEF C
<1>7. QED
  BY <1>1, <1>4, <1>5, <1>6

(* t has as many facets as m, and an error if m has one.                    *)
SameShape(m, t) ==
  /\ t \in Meshes
  /\ t.stl.number_of_facets = m.stl.number_of_facets
  /\ t.error = m.error

(* What a function makes of the members of a set.                           *)
ImageOf(f, S) == {f[x] : x \in S}

(* The first loop of every transformation moves the corners and nothing     *)
(* else.                                                                    *)
LEMMA MovedCorners ==
  ASSUME NEW m \in Meshes, NEW move \in [AllCorners(m.stl) -> Point]
  PROVE  LET t == Moved(m, move)
         IN  /\ SameShape(m, t)
             /\ t.stats = m.stats
             /\ AllCorners(t.stl) = ImageOf(move, AllCorners(m.stl))
<1> DEFINE old == m.stl.facet_start
           new == [s \in Slot |-> IF s \in Facets(m.stl) THEN [c \in Corner |-> move[old[s][c]]]
                                  ELSE old[s]]
           t   == Moved(m, move)
<1>1. t = [m EXCEPT !.stl = [m.stl EXCEPT !.facet_start = new]]
  BY DEF Moved, Meshes
<1>2. Facets(m.stl) \subseteq Slot /\ old \in [Slot -> [Corner -> Point]]
  BY MaxFacetsAssumption DEF Meshes, Structures, Facets, Slot
<1>3. \A s \in Facets(m.stl), c \in Corner : old[s][c] \in AllCorners(m.stl)
  BY DEF AllCorners
<1>4. new \in [Slot -> [Corner -> Point]]
  BY <1>2, <1>3
<1>5. \A s \in Facets(m.stl), c \in Corner : new[s][c] = move[old[s][c]]
  BY <1>2
<1> HIDE DEF new
<1> DEFINE u == [m.stl EXCEPT !.facet_start = new]
<1>5a. m.stl \in Structures
  BY DEF Meshes
<1>5b. /\ u \in Structures /\ u.number_of_facets = m.stl.number_of_facets
       /\ u.facet_start = new
  BY <1>4, <1>5a DEF Structures
<1>5c. t = [m EXCEPT !.stl = u]
  BY <1>1
<1> HIDE DEF t, u
<1>6. /\ t \in Meshes /\ t.stl.number_of_facets = m.stl.number_of_facets
      /\ t.error = m.error /\ t.stats = m.stats /\ t.stl.facet_start = new
  BY <1>5b, <1>5c DEF Meshes
<1>7. Facets(t.stl) = Facets(m.stl)
  BY <1>6 DEF Facets
<1>8. AllCorners(t.stl) = {move[p] : p \in AllCorners(m.stl)}
  BY SMTT(20), <1>5, <1>6, <1>7 DEF AllCorners
<1>9. QED
  BY <1>6, <1>8 DEF SameShape, ImageOf, t

-----------------------------------------------------------------------------
(****************************************************************************)
(* Reversing the facets.                                                    *)
(****************************************************************************)
(* t is s with other orientations of its links.                             *)
OtherLinks(s, t) ==
  /\ t \in Structures
  /\ t.number_of_facets = s.number_of_facets
  /\ t.facet_start = s.facet_start

(* The neighbour's side of stl_reverse_facet.                               *)
LEMMA AdjustKeeps ==
  ASSUME NEW s \in Structures, NEW g \in Slot \cup {None}, NEW vnot \in 0 .. 5, NEW e \in Corner
  PROVE  OtherLinks(s, Adjust(s, g, vnot, e))
<1>1. CASE g = None
  BY <1>1 DEF Adjust, OtherLinks
<1>2. CASE g # None
  <2> DEFINE old == s.which_vertex_not[g][Next3(vnot)]
             new == Rotate(old, Shift(e))
             t == Adjust(s, g, vnot, e)
  <2>1. g \in Slot /\ Next3(vnot) \in Corner /\ Shift(e) \in 2 .. 4
    BY <1>2, CornerArithmetic DEF Corner, Shift
  <2>2. t = [s EXCEPT !.which_vertex_not[g][Next3(vnot)] = new]
    BY <1>2 DEF Adjust
  <2>3. old \in 0 .. 5
    BY <2>1 DEF Structures
  <2>4. new \in 0 .. 5
    <3>1. \A x \in 0 .. 5, y \in 2 .. 4 : Rotate(x, y) \in 0 .. 5
      BY DEF Rotate
    <3>2. QED
      BY <2>1, <2>3, <3>1
  <2> HIDE DEF new
  <2> DEFINE w == [s.which_vertex_not EXCEPT ![g][Next3(vnot)] = new]
  <2>5. w \in [Slot -> [Corner -> 0 .. 5]]
    <3>1. s.which_vertex_not \in [Slot -> [Corner -> 0 .. 5]]
      BY DEF Structures
    <3>2. QED
      BY <2>1, <2>4, <3>1
  <2>6. t = [s EXCEPT !.which_vertex_not = w]
    BY <2>2
  <2> HIDE DEF w, t
  <2>7. QED
    BY <2>5, <2>6 DEF OtherLinks, Structures, t
<1>3. QED
  BY <1>1, <1>2

(* t is s with facet f turned: its first two corners have changed places.   *)
FacetTurned(s, f, t) ==
  /\ t \in Structures
  /\ t.number_of_facets = s.number_of_facets
  /\ t.facet_start = [s.facet_start EXCEPT ![f] = SwapCorners(s.facet_start[f])]

(* stl_reverse_facet, and the new normal of stl_reverse_all_facets.         *)
LEMMA ReverseTurns ==
  ASSUME NEW s \in Structures, NEW f \in Slot
  PROVE  FacetTurned(s, f, ReverseWithNormal(s, f))
<1> DEFINE n == s.neighbor[f]
           vnot == s.which_vertex_not[f]
           t0 == Adjust(s, n[0], vnot[0], 0)
           t1 == Adjust(t0, n[1], vnot[1], 1)
           t2 == Adjust(t1, n[2], vnot[2], 2)
           r == SwapEdges(t2, f, n, vnot)
           t == ReverseWithNormal(s, f)
<1>1. 0 \in Corner /\ 1 \in Corner /\ 2 \in Corner
  BY DEF Corner
<1>2. /\ n \in [Corner -> Slot \cup {None}] /\ vnot \in [Corner -> 0 .. 5]
      /\ \A e \in Corner : n[e] \in Slot \cup {None} /\ vnot[e] \in 0 .. 5
  BY DEF Structures
<1>3. t = SetNormal(r, f)
  BY DEF ReverseWithNormal, ReverseFacet
<1> HIDE DEF n, vnot, t
<1>4. OtherLinks(s, t0)
  BY <1>1, <1>2, AdjustKeeps
<1>4a. t0 \in Structures
  BY <1>4 DEF OtherLinks
<1> HIDE DEF t0
<1>5. OtherLinks(t0, t1)
  BY <1>1, <1>2, <1>4a, AdjustKeeps
<1>5a. t1 \in Structures
  BY <1>5 DEF OtherLinks
<1> HIDE DEF t1
<1>6. OtherLinks(t1, t2)
  BY <1>1, <1>2, <1>5a, AdjustKeeps
<1> HIDE DEF t2
<1>7. /\ t2 \in Structures /\ t2.number_of_facets = s.number_of_facets
      /\ t2.facet_start = s.facet_start
  BY <1>4, <1>5, <1>6 DEF OtherLinks
<1> DEFINE c == SwapCorners(t2.facet_start[f])
           l == [n EXCEPT ![1] = n[2], ![2] = n[1]]
           own == t2.which_vertex_not[f]
           v == [own EXCEPT ![0] = Rotate(own[0], 3),
                            ![1] = Rotate(vnot[2], 3), ![2] = Rotate(vnot[1], 3)]
<1>8. c \in [Corner -> Point]
  <2>1. t2.facet_start[f] \in [Corner -> Point]
    BY <1>7 DEF Structures
  <2>2. QED
    BY <1>1, <2>1 DEF SwapCorners
<1>9. l \in [Corner -> Slot \cup {None}]
  BY <1>1, <1>2
<1>10. v \in [Corner -> 0 .. 5]
  <2>1. own \in [Corner -> 0 .. 5]
    BY <1>7 DEF Structures
  <2>2. \A x \in 0 .. 5 : Rotate(x, 3) \in 0 .. 5
    BY DEF Rotate
  <2> HIDE DEF own
  <2>3. QED
    BY <1>1, <1>2, <2>1, <2>2
<1>11. r = [t2 EXCEPT !.facet_start[f] = c, !.neighbor[f] = l, !.which_vertex_not[f] = v]
  BY DEF SwapEdges
<1>12. c = SwapCorners(s.facet_start[f])
  BY <1>7
<1> HIDE DEF c, l, v, r
<1>13. /\ r \in Structures /\ r.number_of_facets = t2.number_of_facets
       /\ r.facet_start = [t2.facet_start EXCEPT ![f] = c]
  BY <1>7, <1>8, <1>9, <1>10, <1>11 DEF Structures
<1> DEFINE normal == FacetNormal(r.facet_start[f])
<1>14. normal \in Point
  <2>1. r.facet_start[f] \in [Corner -> Point]
    BY <1>13 DEF Structures
  <2>2. QED
    BY <1>1, <2>1, PointArithmetic DEF FacetNormal
<1>15. t = [r EXCEPT !.normal[f] = normal]
  BY <1>3 DEF SetNormal
<1> HIDE DEF normal
<1>16. /\ t \in Structures /\ t.number_of_facets = r.number_of_facets
       /\ t.facet_start = r.facet_start
  BY <1>13, <1>14, <1>15 DEF Structures
<1>17. QED
  BY <1>7, <1>12, <1>13, <1>16 DEF FacetTurned, t

(* A turned facet has the same corners.                                     *)
LEMMA TurnedCorners ==
  ASSUME NEW s \in Structures, NEW f \in Slot, NEW t, FacetTurned(s, f, t)
  PROVE  AllCorners(t) = AllCorners(s)
<1>1. Facets(t) = Facets(s)
  BY DEF FacetTurned, Facets
<1>2. /\ s.facet_start \in [Slot -> [Corner -> Point]]
      /\ Facets(s) \subseteq Slot
  BY SMTT(20), MaxFacetsAssumption DEF Structures, Facets, Slot
<1> DEFINE swapped(c) == IF c = 2 THEN 2 ELSE 1 - c
<1>3. \A c \in Corner : swapped(c) \in Corner /\ swapped(swapped(c)) = c
  BY DEF Corner
<1>4. \A h \in Slot, c \in Corner :
        t.facet_start[h][c] = s.facet_start[h][IF h = f THEN swapped(c) ELSE c]
  <2>1. s.facet_start[f] \in [Corner -> Point]
    BY <1>2
  <2>2. \A c \in Corner : SwapCorners(s.facet_start[f])[c] = s.facet_start[f][swapped(c)]
    BY <2>1 DEF SwapCorners, Corner
  <2>3. t.facet_start[f] = SwapCorners(s.facet_start[f])
        /\ \A h \in Slot : h # f => t.facet_start[h] = s.facet_start[h]
    BY <1>2 DEF FacetTurned
  <2>4. QED
    BY <2>2, <2>3
<1> HIDE DEF swapped
<1>5. \A h \in Facets(s), c \in Corner : \E d \in Corner : t.facet_start[h][c] = s.facet_start[h][d]
  BY <1>2, <1>3, <1>4
<1>6. \A h \in Facets(s), c \in Corner : \E d \in Corner : s.facet_start[h][c] = t.facet_start[h][d]
  BY <1>2, <1>3, <1>4
<1>7. \A x : x \in AllCorners(t) <=> x \in AllCorners(s)
  BY <1>1, <1>5, <1>6 DEF AllCorners
<1>8. QED
  BY <1>7

(* stl_reverse_all_facets keeps the facets and their corners.               *)
LEMMA ReverseAllKeeps ==
  ASSUME NEW s \in Structures
  PROVE  /\ ReverseAllFacets(s) \in Structures
         /\ ReverseAllFacets(s).number_of_facets = s.number_of_facets
         /\ AllCorners(ReverseAllFacets(s)) = AllCorners(s)
<1> DEFINE Step(g) == [n \in 0 .. MaxFacets |-> IF n = 0 THEN s ELSE ReverseWithNormal(g[n - 1], n - 1)]
           reversed == CHOOSE g : g = Step(g)
           N == s.number_of_facets
<1>1. ReverseAllFacets(s) = reversed[N]
  BY DEF ReverseAllFacets
<1>2. N \in Nat /\ N <= MaxFacets /\ MaxFacets \in Nat
  BY MaxFacetsAssumption DEF Structures
<1>3. \A n \in 1 .. MaxFacets : n - 1 \in Slot
  BY <1>2 DEF Slot
<1>4. \E g : g = Step(g)
  <2> DEFINE F == [x \in Structures \X (0 .. MaxFacets - 1) |-> ReverseWithNormal(x[1], x[2])]
  <2>1. \A x \in Structures, n \in Slot : ReverseWithNormal(x, n) \in Structures
    BY ReverseTurns DEF FacetTurned
  <2>2. F \in [Structures \X (0 .. MaxFacets - 1) -> Structures]
    <3>1. \A x \in Structures \X (0 .. MaxFacets - 1) :
            x[1] \in Structures /\ x[2] \in Slot
      BY DEF Slot
    <3>2. \A x \in Structures \X (0 .. MaxFacets - 1) :
            ReverseWithNormal(x[1], x[2]) \in Structures
      BY <2>1, <3>1
    <3>3. QED
      BY <3>2, Zenon
  <2>3. \A x \in Structures, n \in 0 .. MaxFacets - 1 : F[<<x, n>>] = ReverseWithNormal(x, n)
    OBVIOUS
  <2> HIDE DEF F
  <2>3a. PICK g : StepsOf(F, s, Structures, MaxFacets, g)
    BY <1>2, <2>2, RecursionExists
  <2>4. /\ g \in [0 .. MaxFacets -> Structures] /\ g[0] = s
        /\ \A n \in 1 .. MaxFacets : g[n] = F[<<g[n - 1], n - 1>>]
    BY <2>3a DEF StepsOf
  <2>5. ASSUME NEW n \in 1 .. MaxFacets PROVE g[n] = ReverseWithNormal(g[n - 1], n - 1)
    <3>1. n - 1 \in 0 .. MaxFacets - 1 /\ n - 1 \in 0 .. MaxFacets
      BY <1>2
    <3>2. QED
      BY <2>3, <2>4, <3>1
  <2>6. \A n \in 0 .. MaxFacets :
           g[n] = IF n = 0 THEN s ELSE ReverseWithNormal(g[n - 1], n - 1)
    <3>1. \A n \in 0 .. MaxFacets : n = 0 \/ n \in 1 .. MaxFacets
      BY <1>2
    <3>2. QED
      BY <2>4, <2>5, <3>1
  <2>7. g = Step(g)
    BY <2>4, <2>6
  <2>8. QED
    BY <2>7
<1>5. reversed = Step(reversed)
  BY <1>4
<1> HIDE DEF reversed
<1>6. reversed[0] = s
  BY <1>2, <1>5
<1>7. \A n \in 1 .. MaxFacets : reversed[n] = ReverseWithNormal(reversed[n - 1], n - 1)
  BY <1>2, <1>5
<1> DEFINE Fine(n) == /\ reversed[n] \in Structures
                      /\ reversed[n].number_of_facets = s.number_of_facets
                      /\ AllCorners(reversed[n]) = AllCorners(s)
           Wrong == {n \in Nat : n <= MaxFacets /\ ~ Fine(n)}
<1>8. Wrong = {}
  <2> SUFFICES ASSUME Wrong # {} PROVE FALSE
    OBVIOUS
  <2>1. PICK m \in Wrong : \A k \in Wrong : m <= k
    <3>1. Wrong \subseteq Nat
      OBVIOUS
    <3> HIDE DEF Wrong
    <3>2. QED
      BY <3>1, LeastNatural
  <2>2. m \in Nat /\ m <= MaxFacets /\ ~ Fine(m)
    OBVIOUS
  <2>3. Fine(0)
    BY <1>6
  <2>4. m \in 1 .. MaxFacets
    <3> HIDE DEF Fine
    <3>1. QED
      BY <1>2, <2>2, <2>3
  <2>5. Fine(m - 1)
    <3> HIDE DEF Fine
    <3>1. m - 1 \in Nat /\ m - 1 <= MaxFacets /\ ~ (m <= m - 1)
      BY <1>2, <2>4
    <3>2. m - 1 \notin Wrong
      <4> HIDE DEF Wrong
      <4>1. QED
        BY <2>1, <3>1
    <3>3. QED
      BY <3>1, <3>2
  <2>6. m - 1 \in Slot /\ reversed[m] = ReverseWithNormal(reversed[m - 1], m - 1)
    BY <1>3, <1>7, <2>4
  <2>7. FacetTurned(reversed[m - 1], m - 1, reversed[m])
    BY <2>5, <2>6, ReverseTurns
  <2>8. AllCorners(reversed[m]) = AllCorners(reversed[m - 1])
    BY <2>5, <2>6, <2>7, TurnedCorners
  <2>9. Fine(m)
    BY <2>5, <2>7, <2>8 DEF FacetTurned
  <2>10. QED
    BY <2>2, <2>9
<1>9. Fine(N)
  <2> HIDE DEF Fine
  <2>1. N \notin Wrong
    BY <1>8
  <2>2. QED
    BY <1>2, <2>1
<1>10. QED
  BY <1>1, <1>9

-----------------------------------------------------------------------------
(****************************************************************************)
(* The box around a mesh as it is moved.                                    *)
(****************************************************************************)
(* low and high enclose the points, perhaps with room to spare.             *)
Encloses(P, low, high) ==
  \A p \in P, a \in Axis : low[a] <= p[a] /\ p[a] <= high[a]

(* The printed dimensions are those of the mesh, or enclose it.             *)
TightBox(m) == IsBox(AllCorners(m.stl), m.stats.min, m.stats.max)
InBox(m)    == Encloses(AllCorners(m.stl), m.stats.min, m.stats.max)

(* The function of an axis and a coordinate that a monotone move is.        *)
Monotone(h) ==
  /\ h \in [Axis -> [Int -> Int]]
  /\ \A a \in Axis, x, y \in Int : x <= y => h[a][x] <= h[a][y]

(* q is p moved by h.                                                       *)
Follows(h, p, q) == \A a \in Axis : q[a] = h[a][p[a]]

(* Moving every point and the ends of the box with it, axis by axis and     *)
(* without turning an axis around, keeps the box.                           *)
LEMMA MappedBox ==
  ASSUME NEW P, P \subseteq Point, NEW Q, NEW move \in [P -> Point], Q = ImageOf(move, P),
         NEW low \in Point, NEW high \in Point, NEW low2 \in Point, NEW high2 \in Point,
         NEW h, Monotone(h), \A p \in P : Follows(h, p, move[p]),
         Follows(h, low, low2), Follows(h, high, high2)
  PROVE  /\ IsBox(P, low, high) => IsBox(Q, low2, high2)
         /\ Encloses(P, low, high) => Encloses(Q, low2, high2)
<1> USE DEF Monotone, Follows
<1>1. \A q \in Q : \E p \in P : \A a \in Axis : q[a] = h[a][p[a]]
  <2>1. \A q \in Q : \E p \in P : q = move[p]
    BY DEF ImageOf
  <2>2. QED
    BY <2>1
<1>2. \A p \in P : \E q \in Q : \A a \in Axis : q[a] = h[a][p[a]]
  <2>1. \A p \in P : move[p] \in Q
    BY DEF ImageOf
  <2>2. QED
    BY <2>1
<1>3. /\ \A p \in P, a \in Axis : p[a] \in Int
      /\ \A a \in Axis : low[a] \in Int /\ high[a] \in Int
  BY Coordinates
<1>4. ASSUME Encloses(P, low, high) PROVE Encloses(Q, low2, high2)
  <2>1. ASSUME NEW q \in Q, NEW a \in Axis PROVE low2[a] <= q[a] /\ q[a] <= high2[a]
    <3>1. PICK p \in P : q[a] = h[a][p[a]]
      BY <1>1
    <3>2. low[a] <= p[a] /\ p[a] <= high[a]
      BY <1>4 DEF Encloses
    <3>3. QED
      BY <1>3, <3>1, <3>2
  <2>2. QED
    BY <2>1 DEF Encloses
<1>5. ASSUME IsBox(P, low, high) PROVE IsBox(Q, low2, high2)
  <2>1. Encloses(Q, low2, high2)
    BY <1>4, <1>5 DEF IsBox, Encloses
  <2>2. ASSUME NEW a \in Axis
        PROVE  (\E q \in Q : q[a] = low2[a]) /\ (\E q \in Q : q[a] = high2[a])
    <3>1. PICK p \in P : p[a] = low[a]
      BY <1>5 DEF IsBox
    <3>2. PICK r \in P : r[a] = high[a]
      BY <1>5 DEF IsBox
    <3>3. QED
      BY <1>2, <3>1, <3>2
  <2>3. QED
    BY <2>1, <2>2 DEF IsBox, Encloses
<1>6. QED
  BY <1>4, <1>5

(* Adding points and widening the box by them keeps the box.                *)
LEMMA WidenedBox ==
  ASSUME NEW P, IsFiniteSet(P), P \subseteq Point, NEW Q, IsFiniteSet(Q), Q \subseteq Point,
         NEW low \in Point, NEW high \in Point
  PROVE  LET R == Q \cup {low, high}
         IN  /\ Least(R) \in Point /\ Greatest(R) \in Point
             /\ IsBox(P, low, high) => IsBox(P \cup Q, Least(R), Greatest(R))
             /\ Encloses(P, low, high) => Encloses(P \cup Q, Least(R), Greatest(R))
<1> DEFINE R == Q \cup {low, high}
           least == Least(R)
           most == Greatest(R)
<1>1. IsFiniteSet(R) /\ R \subseteq Point /\ R # {}
  <2>1. IsFiniteSet({low, high})
    <3>1. IsFiniteSet({}) /\ {low, high} = ({} \cup {low}) \cup {high}
      BY FS_EmptySet
    <3>2. QED
      BY <3>1, FS_AddElement
  <2>2. QED
    BY <2>1, FS_Union
<1>2. least \in Point /\ most \in Point /\ IsBox(R, least, most)
  <2> HIDE DEF R
  <2>1. QED
    BY <1>1, BoxOf
<1>3. \A q \in Q : q \in R
  OBVIOUS
<1>4. low \in R /\ high \in R /\ \A q \in R : q \in Q \/ q = low \/ q = high
  OBVIOUS
<1> HIDE DEF R, least, most
<1>5. \A a \in Axis : /\ \A q \in R : least[a] <= q[a] /\ q[a] <= most[a]
                      /\ \E q \in R : q[a] = least[a]
                      /\ \E q \in R : q[a] = most[a]
  BY <1>2 DEF IsBox
<1>6. /\ \A p \in P \cup R, a \in Axis : p[a] \in Int
      /\ \A a \in Axis : least[a] \in Int /\ most[a] \in Int
  BY <1>1, <1>2, Coordinates
<1>7. ASSUME Encloses(P, low, high) PROVE Encloses(P \cup Q, least, most)
  <2>1. ASSUME NEW p \in P, NEW a \in Axis PROVE least[a] <= p[a] /\ p[a] <= most[a]
    <3>1. low[a] <= p[a] /\ p[a] <= high[a]
      BY <1>7 DEF Encloses
    <3>2. least[a] <= low[a] /\ high[a] <= most[a]
      BY <1>4, <1>5
    <3>3. p[a] \in Int /\ low[a] \in Int /\ high[a] \in Int /\ least[a] \in Int /\ most[a] \in Int
      BY <1>4, <1>6
    <3>4. QED
      BY <3>1, <3>2, <3>3
  <2>2. QED
    BY <1>3, <1>5, <2>1 DEF Encloses
<1>8. ASSUME IsBox(P, low, high) PROVE IsBox(P \cup Q, least, most)
  <2>1. Encloses(P, low, high)
    BY <1>8 DEF IsBox, Encloses
  <2>2. Encloses(P \cup Q, least, most)
    BY <1>7, <2>1
  <2>3. ASSUME NEW a \in Axis
        PROVE  /\ \E p \in P \cup Q : p[a] = least[a]
               /\ \E p \in P \cup Q : p[a] = most[a]
    <3>1. PICK x \in P : x[a] = low[a]
      BY <1>8 DEF IsBox
    <3>2. PICK y \in P : y[a] = high[a]
      BY <1>8 DEF IsBox
    <3>3. \A q \in R : \E p \in P \cup Q : p[a] = q[a]
      BY <1>4, <3>1, <3>2
    <3>4. QED
      BY <1>5, <3>3
  <2>4. QED
    BY <2>2, <2>3 DEF IsBox, Encloses
<1>9. QED
  BY <1>2, <1>7, <1>8 DEF R, least, most

-----------------------------------------------------------------------------
(****************************************************************************)
(* The functions of Transformations.                                        *)
(****************************************************************************)
(* A mesh whose dimensions alone are set.                                   *)
LEMMA StatsSet ==
  ASSUME NEW m \in Meshes, NEW stats \in Dimensions, NEW t, t = [m EXCEPT !.stats = stats]
  PROVE  SameShape(m, t) /\ t.stats = stats /\ t.stl = m.stl
BY DEF Meshes, SameShape

(* size and bounding_diameter follow from min and max.                      *)
LEMMA SizedType ==
  ASSUME NEW stats \in Dimensions
  PROVE  /\ Sized(stats) \in Dimensions
         /\ Sized(stats).min = stats.min /\ Sized(stats).max = stats.max
<1> DEFINE size == Minus(stats.max, stats.min)
<1>1. size \in Point /\ Dot(size, size) \in Nat
  <2>1. size \in Point
    BY PointArithmetic DEF Dimensions
  <2> HIDE DEF size
  <2>2. QED
    BY <2>1, PointArithmetic
<1>2. Sized(stats) = [stats EXCEPT !.size = size, !.diameter = Dot(size, size)]
  BY DEF Sized
<1> HIDE DEF size
<1>3. QED
  BY <1>1, <1>2 DEF Dimensions

(* stl_get_size measures the mesh, and does not change it.                  *)
LEMMA GetSizeMeasures ==
  ASSUME NEW m \in Meshes
  PROVE  LET t == GetSize(m)
         IN  /\ SameShape(m, t)
             /\ AllCorners(t.stl) = AllCorners(m.stl)
             /\ m.stl.number_of_facets # 0 => TightBox(t)
<1> DEFINE C == AllCorners(m.stl)
           stats == [m.stats EXCEPT !.min = Least(C), !.max = Greatest(C)]
           t == GetSize(m)
<1>1. m.stl \in Structures /\ m.stats \in Dimensions
  BY DEF Meshes
<1>2. IsFiniteSet(C) /\ C \subseteq Point /\ (C = {} <=> m.stl.number_of_facets = 0)
  BY <1>1, CornersOfStructure
<1>3. CASE C = {}
  <2>1. t = m
    BY <1>3 DEF GetSize
  <2>2. QED
    BY <1>2, <1>3, <2>1 DEF SameShape
<1>4. CASE C # {}
  <2>1. t = [m EXCEPT !.stats = Sized(stats)]
    BY <1>4 DEF GetSize
  <2> HIDE DEF C, t
  <2>2. Least(C) \in Point /\ Greatest(C) \in Point /\ IsBox(C, Least(C), Greatest(C))
    BY <1>2, <1>4, BoxOf
  <2>3. stats \in Dimensions /\ stats.min = Least(C) /\ stats.max = Greatest(C)
    BY <1>1, <2>2 DEF Dimensions
  <2> HIDE DEF stats
  <2>4. /\ Sized(stats) \in Dimensions
        /\ Sized(stats).min = Least(C) /\ Sized(stats).max = Greatest(C)
    BY <2>3, SizedType
  <2>5. SameShape(m, t) /\ t.stats = Sized(stats) /\ t.stl = m.stl
    BY <2>1, <2>4, StatsSet
  <2>6. QED
    BY <2>2, <2>4, <2>5 DEF TightBox, C, t
<1>5. QED
  BY <1>3, <1>4

(* The normal of a facet is a vector.                                       *)
LEMMA FacetNormalType ==
  ASSUME NEW facet \in [Corner -> Point]
  PROVE  FacetNormal(facet) \in Point
<1>1. facet[0] \in Point /\ facet[1] \in Point /\ facet[2] \in Point
  BY DEF Corner
<1>2. QED
  BY <1>1, PointArithmetic DEF FacetNormal

(* calculate_normals changes the normals and nothing else.                  *)
LEMMA CalculateNormalsKeeps ==
  ASSUME NEW m \in Meshes
  PROVE  LET t == CalculateNormals(m)
         IN  /\ SameShape(m, t) /\ t.stats = m.stats
             /\ AllCorners(t.stl) = AllCorners(m.stl)
<1> DEFINE normal == [s \in Slot |-> IF s \in Facets(m.stl) THEN FacetNormal(m.stl.facet_start[s])
                                     ELSE m.stl.normal[s]]
           u == [m.stl EXCEPT !.normal = normal]
           t == CalculateNormals(m)
<1>1. t = [m EXCEPT !.stl = u]
  BY DEF CalculateNormals, Meshes
<1>2. normal \in [Slot -> Point]
  <2>1. /\ m.stl.facet_start \in [Slot -> [Corner -> Point]]
        /\ m.stl.normal \in [Slot -> Point]
    BY DEF Meshes, Structures
  <2>2. \A s \in Slot : FacetNormal(m.stl.facet_start[s]) \in Point
    BY <2>1, FacetNormalType
  <2>3. QED
    BY <2>1, <2>2
<1> HIDE DEF normal, t
<1>3. /\ u \in Structures /\ u.number_of_facets = m.stl.number_of_facets
      /\ u.facet_start = m.stl.facet_start
  BY <1>2 DEF Meshes, Structures
<1> HIDE DEF u
<1>4. /\ t \in Meshes /\ t.stl = u /\ t.error = m.error /\ t.stats = m.stats
  BY <1>1, <1>3 DEF Meshes
<1>5. AllCorners(t.stl) = AllCorners(m.stl)
  BY <1>3, <1>4 DEF AllCorners, Facets
<1>6. QED
  BY <1>3, <1>4, <1>5 DEF SameShape, t

(* A quarter turn, or the other side of an axis, of a point is a point.     *)
LEMMA TurnedPoint ==
  /\ \A p \in Point : /\ Turned(p, 2, 3) \in Point
                      /\ Turned(p, 3, 1) \in Point
                      /\ Turned(p, 1, 2) \in Point
  /\ \A p \in Point, a, b \in Axis :
       Opposed(p, a) \in Point /\ Opposed(p, a)[b] = IF a = b THEN - p[b] ELSE p[b]
<1>1. \A a \in Axis : a = 1 \/ a = 2 \/ a = 3
  BY DEF Axis
<1>2. ASSUME NEW p \in Point
      PROVE  /\ p[1] \in Int /\ p[2] \in Int /\ p[3] \in Int
             /\ - p[1] \in Int /\ - p[2] \in Int /\ - p[3] \in Int
             /\ p = <<p[1], p[2], p[3]>>
  BY DEF Point
<1>3. ASSUME NEW p \in Point
      PROVE  /\ Turned(p, 2, 3) = <<p[1], - p[3], p[2]>>
             /\ Turned(p, 3, 1) = <<p[3], p[2], - p[1]>>
             /\ Turned(p, 1, 2) = <<- p[2], p[1], p[3]>>
             /\ Opposed(p, 1) = <<- p[1], p[2], p[3]>>
             /\ Opposed(p, 2) = <<p[1], - p[2], p[3]>>
             /\ Opposed(p, 3) = <<p[1], p[2], - p[3]>>
  <2> DEFINE x == p[1]
             y == p[2]
             z == p[3]
  <2>1. p = <<x, y, z>> /\ x \in Int /\ y \in Int /\ z \in Int
    BY <1>2
  <2>2. QED
    BY <2>1 DEF Turned, Opposed
<1>4. ASSUME NEW p \in Point
      PROVE  /\ Turned(p, 2, 3) \in Point /\ Turned(p, 3, 1) \in Point
             /\ Turned(p, 1, 2) \in Point
  BY <1>2, <1>3, Coordinates
<1>5. ASSUME NEW p \in Point, NEW a \in Axis, NEW b \in Axis
      PROVE  Opposed(p, a) \in Point /\ Opposed(p, a)[b] = IF a = b THEN - p[b] ELSE p[b]
  <2>1. /\ Opposed(p, 1)[1] = - p[1] /\ Opposed(p, 1)[2] = p[2] /\ Opposed(p, 1)[3] = p[3]
        /\ Opposed(p, 2)[1] = p[1] /\ Opposed(p, 2)[2] = - p[2] /\ Opposed(p, 2)[3] = p[3]
        /\ Opposed(p, 3)[1] = p[1] /\ Opposed(p, 3)[2] = p[2] /\ Opposed(p, 3)[3] = - p[3]
    <3> DEFINE x == p[1]
               y == p[2]
               z == p[3]
    <3>1. /\ Opposed(p, 1) = <<- x, y, z>> /\ Opposed(p, 2) = <<x, - y, z>>
          /\ Opposed(p, 3) = <<x, y, - z>>
      BY <1>3
    <3> HIDE DEF x, y, z
    <3>2. QED
      BY <3>1 DEF x, y, z
  <2>2. Opposed(p, 1) \in Point /\ Opposed(p, 2) \in Point /\ Opposed(p, 3) \in Point
    BY <1>2, <1>3, Coordinates
  <2>3. QED
    BY <1>1, <2>1, <2>2
<1>6. QED
  BY <1>4, <1>5

(* t has the shape of m, and is measured.                                   *)
Measured(m, t) == SameShape(m, t) /\ (m.stl.number_of_facets # 0 => TightBox(t))

(* t has the shape of m; if the box around m was tight or enclosed it, so   *)
(* does the one around t.                                                   *)
BoxKept(m, t) ==
  /\ SameShape(m, t)
  /\ TightBox(m) => TightBox(t)
  /\ InBox(m) => InBox(t)

(* The rotations measure the mesh again.                                    *)
LEMMA RotationMeasures ==
  ASSUME NEW m \in Meshes, NEW a, NEW b, \A p \in Point : Turned(p, a, b) \in Point
  PROVE  Measured(m, RotateAbout(m, a, b))
<1> DEFINE move == [p \in AllCorners(m.stl) |-> Turned(p, a, b)]
           moved == Moved(m, move)
           sized == GetSize(moved)
           t == RotateAbout(m, a, b)
<1>1. AllCorners(m.stl) \subseteq Point
  BY CornersOfStructure DEF Meshes
<1>2. move \in [AllCorners(m.stl) -> Point]
  BY <1>1
<1>3. t = CalculateNormals(sized)
  BY DEF RotateAbout
<1> HIDE DEF move, t
<1>4. SameShape(m, moved)
  BY <1>2, MovedCorners
<1> HIDE DEF moved
<1>5. /\ SameShape(moved, sized)
      /\ moved.stl.number_of_facets # 0 => TightBox(sized)
  BY <1>4, GetSizeMeasures DEF SameShape
<1> HIDE DEF sized
<1>6. /\ SameShape(sized, t) /\ t.stats = sized.stats
      /\ AllCorners(t.stl) = AllCorners(sized.stl)
  BY <1>3, <1>5, CalculateNormalsKeeps DEF SameShape
<1>7. SameShape(m, t)
  BY <1>4, <1>5, <1>6 DEF SameShape
<1>8. m.stl.number_of_facets # 0 => TightBox(t)
  BY <1>4, <1>5, <1>6 DEF SameShape, TightBox
<1>9. QED
  BY <1>7, <1>8 DEF Measured, t

(* t is m with its corners moved and its dimensions set.                    *)
IsMoved(m, move, stats, t) == t = [Moved(m, move) EXCEPT !.stats = stats]

(* A mesh whose corners have been moved and whose dimensions are set.       *)
LEMMA MovedAndSet ==
  ASSUME NEW m \in Meshes, NEW move \in [AllCorners(m.stl) -> Point],
         NEW stats \in Dimensions, NEW t, IsMoved(m, move, stats, t)
  PROVE  /\ SameShape(m, t) /\ t.stats = stats
         /\ AllCorners(t.stl) = ImageOf(move, AllCorners(m.stl))
<1> DEFINE moved == Moved(m, move)
<1>1. SameShape(m, moved) /\ AllCorners(moved.stl) = ImageOf(move, AllCorners(m.stl))
  BY MovedCorners
<1> HIDE DEF moved
<1>2. t = [moved EXCEPT !.stats = stats] /\ moved \in Meshes
  BY <1>1 DEF moved, SameShape, IsMoved
<1>3. SameShape(moved, t) /\ t.stats = stats /\ t.stl = moved.stl
  BY <1>2, StatsSet
<1>4. QED
  BY <1>1, <1>3 DEF SameShape

(* Corners and dimensions moved alike by a monotone h.                      *)
LEMMA MovedAlike ==
  ASSUME NEW m \in Meshes, NEW move \in [AllCorners(m.stl) -> Point],
         NEW stats \in Dimensions, NEW t, IsMoved(m, move, stats, t),
         NEW h, Monotone(h),
         \A p \in AllCorners(m.stl) : Follows(h, p, move[p]),
         Follows(h, m.stats.min, stats.min), Follows(h, m.stats.max, stats.max)
  PROVE  BoxKept(m, t)
<1> DEFINE P == AllCorners(m.stl)
           Q == AllCorners(t.stl)
           low == m.stats.min
           high == m.stats.max
           low2 == stats.min
           high2 == stats.max
<1>1. SameShape(m, t) /\ t.stats = stats /\ Q = ImageOf(move, P)
  BY MovedAndSet
<1>2. P \subseteq Point
  BY CornersOfStructure DEF Meshes
<1>3. low \in Point /\ high \in Point /\ low2 \in Point /\ high2 \in Point
  BY DEF Meshes, Dimensions
<1>4. move \in [P -> Point] /\ Q = ImageOf(move, P) /\ Monotone(h)
      /\ (\A p \in P : Follows(h, p, move[p]))
      /\ Follows(h, low, low2) /\ Follows(h, high, high2)
  BY <1>1
<1> HIDE DEF P, Q, low, high, low2, high2
<1>5. /\ IsBox(P, low, high) => IsBox(Q, low2, high2)
      /\ Encloses(P, low, high) => Encloses(Q, low2, high2)
  BY ONLY <1>2, <1>3, <1>4, MappedBox
<1>6. QED
  BY <1>1, <1>5 DEF BoxKept, TightBox, InBox, P, Q, low, high, low2, high2

(* stl_scale_versor, with no negative factor.                               *)
LEMMA ScaleKeeps ==
  ASSUME NEW m \in Meshes, NEW v \in Point
  PROVE  /\ SameShape(m, ScaleVersor(m, v))
         /\ (\A a \in Axis : v[a] >= 0) => BoxKept(m, ScaleVersor(m, v))
<1> DEFINE move == [p \in AllCorners(m.stl) |-> Times(p, v)]
           stats == [m.stats EXCEPT !.min  = Times(m.stats.min, v),
                                    !.max  = Times(m.stats.max, v),
                                    !.size = Times(m.stats.size, v)]
           t == ScaleVersor(m, v)
           h == [a \in Axis |-> [x \in Int |-> x * v[a]]]
<1>1. AllCorners(m.stl) \subseteq Point
  BY CornersOfStructure DEF Meshes
<1>2. move \in [AllCorners(m.stl) -> Point]
  BY <1>1, PointArithmetic
<1>3. t = [Moved(m, move) EXCEPT !.stats = [Moved(m, move).stats EXCEPT
                    !.min  = Times(Moved(m, move).stats.min, v),
                    !.max  = Times(Moved(m, move).stats.max, v),
                    !.size = Times(Moved(m, move).stats.size, v)]]
  <2> DEFINE moved == Moved(m, move)
  <2>1. t = [moved EXCEPT !.stats.min  = Times(moved.stats.min, v),
                          !.stats.max  = Times(moved.stats.max, v),
                          !.stats.size = Times(moved.stats.size, v)]
    BY DEF ScaleVersor
  <2>2. moved \in Meshes
    BY <1>2, MovedCorners DEF SameShape
  <2> HIDE DEF moved
  <2>3. moved.stats \in Dimensions
    BY <2>2 DEF Meshes
  <2>4. QED
    BY <2>1, <2>2, <2>3 DEF Meshes, Dimensions, moved
<1>4. Moved(m, move).stats = m.stats
  BY <1>2, MovedCorners
<1>5. IsMoved(m, move, stats, t)
  BY <1>3, <1>4 DEF IsMoved
<1>6. /\ m.stats.min \in Point /\ m.stats.max \in Point /\ m.stats.size \in Point
      /\ m.stats \in Dimensions
  BY DEF Meshes, Dimensions
<1>7. /\ Times(m.stats.min, v) \in Point /\ Times(m.stats.max, v) \in Point
      /\ Times(m.stats.size, v) \in Point
  BY <1>6, PointArithmetic
<1>8. /\ stats \in Dimensions
      /\ stats.min = Times(m.stats.min, v) /\ stats.max = Times(m.stats.max, v)
  BY <1>6, <1>7 DEF Dimensions
<1>9. \A a \in Axis, x \in Int : h[a][x] = x * v[a] /\ x * v[a] \in Int
  BY Coordinates
<1>10. h \in [Axis -> [Int -> Int]]
  BY <1>9
<1>11. \A p \in AllCorners(m.stl), a \in Axis : move[p][a] = p[a] * v[a] /\ p[a] \in Int
  BY <1>1, PointArithmetic, Coordinates
<1>12. \A a \in Axis : /\ stats.min[a] = m.stats.min[a] * v[a] /\ m.stats.min[a] \in Int
                       /\ stats.max[a] = m.stats.max[a] * v[a] /\ m.stats.max[a] \in Int
  BY <1>6, <1>8, PointArithmetic, Coordinates
<1> HIDE DEF h, move, stats, t
<1>13. SameShape(m, t)
  BY <1>2, <1>5, <1>8, MovedAndSet
<1>14. ASSUME \A a \in Axis : v[a] >= 0 PROVE BoxKept(m, t)
  <2>1. ASSUME NEW a \in Axis, NEW x \in Int, NEW y \in Int, x <= y
        PROVE  h[a][x] <= h[a][y]
    <3>1. \A k \in Nat : x * k <= y * k
      <4>1. y - x \in Nat
        BY <2>1
      <4>2. \A d, k \in Nat : d * k >= 0
        OBVIOUS
      <4>3. \A k \in Nat : (y - x) * k = y * k - x * k
        OBVIOUS
      <4>4. \A k \in Nat : y * k \in Int /\ x * k \in Int /\ y * k - x * k >= 0
        BY <4>1, <4>2, <4>3
      <4>5. QED
        BY <4>4
    <3>2. v[a] \in Nat
      BY <1>14, Coordinates
    <3>3. QED
      BY <1>9, <3>1, <3>2
  <2>2. Monotone(h)
    BY <1>10, <2>1 DEF Monotone
  <2>3. \A p \in AllCorners(m.stl) : Follows(h, p, move[p])
    BY <1>9, <1>11 DEF Follows
  <2>4. Follows(h, m.stats.min, stats.min) /\ Follows(h, m.stats.max, stats.max)
    BY <1>9, <1>12 DEF Follows
  <2>5. QED
    BY <1>2, <1>5, <1>8, <2>2, <2>3, <2>4, MovedAlike
<1>15. QED
  BY <1>13, <1>14 DEF t

(* Corners and dimensions displaced alike.                                  *)
LEMMA DisplacedAlike ==
  ASSUME NEW m \in Meshes, NEW d \in Point, NEW move \in [AllCorners(m.stl) -> Point],
         NEW stats \in Dimensions, NEW t, IsMoved(m, move, stats, t),
         \A p \in AllCorners(m.stl), a \in Axis : move[p][a] = p[a] + d[a],
         \A a \in Axis : /\ stats.min[a] = m.stats.min[a] + d[a]
                         /\ stats.max[a] = m.stats.max[a] + d[a]
  PROVE  BoxKept(m, t)
<1> DEFINE h == [a \in Axis |-> [x \in Int |-> x + d[a]]]
<1>1. \A a \in Axis, x \in Int : h[a][x] = x + d[a] /\ x + d[a] \in Int
  BY Coordinates
<1>2. h \in [Axis -> [Int -> Int]]
  BY <1>1
<1> HIDE DEF h
<1>3. ASSUME NEW a \in Axis, NEW x \in Int, NEW y \in Int, x <= y
      PROVE  h[a][x] <= h[a][y]
  <2>1. d[a] \in Int
    BY Coordinates
  <2>2. QED
    BY <1>1, <1>3, <2>1
<1>4. Monotone(h)
  BY <1>2, <1>3 DEF Monotone
<1>5. \A p \in AllCorners(m.stl), a \in Axis : p[a] \in Int
  BY CornersOfStructure, Coordinates DEF Meshes
<1>6. \A a \in Axis : m.stats.min[a] \in Int /\ m.stats.max[a] \in Int
  BY Coordinates DEF Meshes, Dimensions
<1>7. \A p \in AllCorners(m.stl) : Follows(h, p, move[p])
  BY <1>1, <1>5 DEF Follows
<1>8. Follows(h, m.stats.min, stats.min) /\ Follows(h, m.stats.max, stats.max)
  BY <1>1, <1>6 DEF Follows
<1>9. QED
  BY <1>4, <1>7, <1>8, MovedAlike

(* One coordinate of a point is set.                                        *)
LEMMA CoordinateSet ==
  ASSUME NEW p \in Point, NEW a \in Axis, NEW x \in Int
  PROVE  /\ [p EXCEPT ![a] = x] \in Point
         /\ \A b \in Axis : [p EXCEPT ![a] = x][b] = IF a = b THEN x ELSE p[b]
<1>1. \A b \in Axis : b = 1 \/ b = 2 \/ b = 3
  BY DEF Axis
<1>2. PICK u, v, w \in Int : p = <<u, v, w>>
  BY DEF Point
<1>3. /\ [p EXCEPT ![1] = x] = <<x, v, w>>
      /\ [p EXCEPT ![2] = x] = <<u, x, w>>
      /\ [p EXCEPT ![3] = x] = <<u, v, x>>
  BY <1>2
<1>4. /\ \A b \in Axis : [p EXCEPT ![1] = x][b] = IF 1 = b THEN x ELSE p[b]
      /\ \A b \in Axis : [p EXCEPT ![2] = x][b] = IF 2 = b THEN x ELSE p[b]
      /\ \A b \in Axis : [p EXCEPT ![3] = x][b] = IF 3 = b THEN x ELSE p[b]
  <2>1. /\ [p EXCEPT ![1] = x][1] = x /\ [p EXCEPT ![1] = x][2] = v /\ [p EXCEPT ![1] = x][3] = w
        /\ [p EXCEPT ![2] = x][1] = u /\ [p EXCEPT ![2] = x][2] = x /\ [p EXCEPT ![2] = x][3] = w
        /\ [p EXCEPT ![3] = x][1] = u /\ [p EXCEPT ![3] = x][2] = v /\ [p EXCEPT ![3] = x][3] = x
    BY <1>3
  <2>2. p[1] = u /\ p[2] = v /\ p[3] = w
    BY <1>2
  <2>3. QED
    BY <1>1, <2>1, <2>2
<1>5. /\ [p EXCEPT ![1] = x] \in Point /\ [p EXCEPT ![2] = x] \in Point
      /\ [p EXCEPT ![3] = x] \in Point
  <2>1. <<x, v, w>> \in Point /\ <<u, x, w>> \in Point /\ <<u, v, x>> \in Point
    BY DEF Point
  <2>2. QED
    BY <1>3, <2>1
<1>6. CASE a = 1
  BY <1>4, <1>5, <1>6
<1>7. CASE a = 2
  BY <1>4, <1>5, <1>7
<1>8. CASE a = 3
  BY <1>4, <1>5, <1>8
<1>9. QED
  BY <1>1, <1>6, <1>7, <1>8

(* The box between opposed ends is around the opposed points.               *)
LEMMA OpposedBox ==
  ASSUME NEW P, P \subseteq Point, NEW axis \in Axis, NEW Q,
         NEW move, \A p \in P : move[p] = Opposed(p, axis), Q = ImageOf(move, P),
         NEW low \in Point, NEW high \in Point
  PROVE  LET low2  == [low EXCEPT ![axis] = - high[axis]]
             high2 == [high EXCEPT ![axis] = - low[axis]]
         IN  /\ low2 \in Point /\ high2 \in Point
             /\ IsBox(P, low, high) => IsBox(Q, low2, high2)
             /\ Encloses(P, low, high) => Encloses(Q, low2, high2)
<1> DEFINE low2  == [low EXCEPT ![axis] = - high[axis]]
           high2 == [high EXCEPT ![axis] = - low[axis]]
<1>1. /\ \A p \in P, a \in Axis : p[a] \in Int
      /\ \A a \in Axis : low[a] \in Int /\ high[a] \in Int
  BY Coordinates
<1>2. - low[axis] \in Int /\ - high[axis] \in Int
  BY <1>1
<1>3. /\ low2 \in Point /\ high2 \in Point
      /\ \A a \in Axis : /\ low2[a] = IF axis = a THEN - high[axis] ELSE low[a]
                         /\ high2[a] = IF axis = a THEN - low[axis] ELSE high[a]
  BY <1>2, CoordinateSet
<1> HIDE DEF low2, high2
<1>4. \A p \in P, a \in Axis : move[p][a] = IF axis = a THEN - p[a] ELSE p[a]
  BY TurnedPoint
<1>5. \A q \in Q : \E p \in P : q = move[p]
  BY DEF ImageOf
<1>6. \A p \in P : move[p] \in Q
  BY DEF ImageOf
<1>7. ASSUME Encloses(P, low, high) PROVE Encloses(Q, low2, high2)
  <2>1. ASSUME NEW q \in Q, NEW a \in Axis PROVE low2[a] <= q[a] /\ q[a] <= high2[a]
    <3>1. PICK p \in P : q = move[p]
      BY <1>5
    <3>2. low[a] <= p[a] /\ p[a] <= high[a]
      BY <1>7 DEF Encloses
    <3>3. q[a] = IF axis = a THEN - p[a] ELSE p[a]
      BY <1>4, <3>1
    <3>4. p[a] \in Int /\ low[a] \in Int /\ high[a] \in Int
      BY <1>1
    <3>5. QED
      BY <1>3, <3>2, <3>3, <3>4
  <2>2. QED
    BY <2>1 DEF Encloses
<1>8. ASSUME IsBox(P, low, high) PROVE IsBox(Q, low2, high2)
  <2>1. Encloses(Q, low2, high2)
    BY <1>7, <1>8 DEF IsBox, Encloses
  <2>2. ASSUME NEW a \in Axis
        PROVE  (\E q \in Q : q[a] = low2[a]) /\ (\E q \in Q : q[a] = high2[a])
    <3>1. PICK x \in P : x[a] = low[a]
      BY <1>8 DEF IsBox
    <3>2. PICK y \in P : y[a] = high[a]
      BY <1>8 DEF IsBox
    <3>3. /\ move[x][a] = IF axis = a THEN - low[a] ELSE low[a]
          /\ move[y][a] = IF axis = a THEN - high[a] ELSE high[a]
      BY <1>4, <3>1, <3>2
    <3>4. CASE axis = a
      BY <1>3, <1>6, <3>3, <3>4
    <3>5. CASE axis # a
      BY <1>3, <1>6, <3>3, <3>5
    <3>6. QED
      BY <3>4, <3>5
  <2>3. QED
    BY <2>1, <2>2 DEF IsBox, Encloses
<1>9. QED
  BY <1>3, <1>7, <1>8 DEF low2, high2

(* stl_mirror_xy, stl_mirror_yz and stl_mirror_xz.                          *)
LEMMA MirrorKeeps ==
  ASSUME NEW m \in Meshes, NEW axis \in Axis
  PROVE  BoxKept(m, Mirror(m, axis))
<1> DEFINE P == AllCorners(m.stl)
           move == [p \in P |-> Opposed(p, axis)]
           moved == Moved(m, move)
           low == [m.stats.min EXCEPT ![axis] = - m.stats.max[axis]]
           high == [m.stats.max EXCEPT ![axis] = - m.stats.min[axis]]
           stl == ReverseAllFacets(moved.stl)
           stats == [m.stats EXCEPT !.min = low, !.max = high]
           t == Mirror(m, axis)
<1>1. P \subseteq Point
  BY CornersOfStructure DEF Meshes
<1>2. move \in [P -> Point] /\ \A p \in P : move[p] = Opposed(p, axis)
  BY <1>1, TurnedPoint
<1>3. /\ m.stats \in Dimensions /\ m.stats.min \in Point /\ m.stats.max \in Point
  BY DEF Meshes, Dimensions
<1>4. /\ SameShape(m, moved) /\ moved.stats = m.stats
      /\ AllCorners(moved.stl) = ImageOf(move, P)
  BY <1>2, MovedCorners
<1>5. t = [moved EXCEPT !.stats.min[axis] = - m.stats.max[axis],
                        !.stats.max[axis] = - m.stats.min[axis],
                        !.stl = ReverseAllFacets(moved.stl)]
  BY DEF Mirror
<1> HIDE DEF P, move, moved, t
<1>6. /\ moved \in Meshes /\ moved.stl \in Structures
  BY <1>4 DEF SameShape, Meshes
<1>7. /\ stl \in Structures /\ stl.number_of_facets = moved.stl.number_of_facets
      /\ AllCorners(stl) = AllCorners(moved.stl)
  BY <1>6, ReverseAllKeeps
<1> HIDE DEF stl
<1>8. /\ low \in Point /\ high \in Point
      /\ IsBox(P, m.stats.min, m.stats.max) => IsBox(ImageOf(move, P), low, high)
      /\ Encloses(P, m.stats.min, m.stats.max) => Encloses(ImageOf(move, P), low, high)
  BY <1>1, <1>2, <1>3, OpposedBox
<1>9. t = [moved EXCEPT !.stats = stats, !.stl = stl]
  BY <1>3, <1>4, <1>5, <1>6 DEF Meshes, Dimensions, stl
<1> HIDE DEF low, high
<1>10. stats \in Dimensions /\ stats.min = low /\ stats.max = high
  BY <1>3, <1>8 DEF Dimensions
<1> HIDE DEF stats
<1>11. t \in Meshes /\ t.stl = stl /\ t.stats = stats /\ t.error = moved.error
  BY <1>6, <1>7, <1>9, <1>10 DEF Meshes
<1>12. SameShape(m, t)
  BY <1>4, <1>7, <1>11 DEF SameShape
<1>13. (TightBox(m) => TightBox(t)) /\ (InBox(m) => InBox(t))
  BY <1>4, <1>7, <1>8, <1>10, <1>11 DEF TightBox, InBox, P
<1>14. QED
  BY <1>12, <1>13 DEF BoxKept, t

(* stl_translate, which puts the least coordinates at p.                    *)
LEMMA TranslateKeeps ==
  ASSUME NEW m \in Meshes, NEW p \in Point
  PROVE  BoxKept(m, Translate(m, p)) /\ Translate(m, p).stats.min = p
<1> DEFINE d == Minus(m.stats.min, p)
           move == [q \in AllCorners(m.stl) |-> Minus(q, d)]
           moved == Moved(m, move)
           stats == [m.stats EXCEPT !.min = p, !.max = Minus(m.stats.max, d)]
           t == Translate(m, p)
           back == Minus(p, m.stats.min)
<1>1. AllCorners(m.stl) \subseteq Point
  BY CornersOfStructure DEF Meshes
<1>2. /\ m.stats \in Dimensions /\ m.stats.min \in Point /\ m.stats.max \in Point
  BY DEF Meshes, Dimensions
<1>3. /\ d \in Point /\ back \in Point
      /\ \A a \in Axis : /\ d[a] = m.stats.min[a] - p[a] /\ back[a] = p[a] - m.stats.min[a]
                         /\ m.stats.min[a] \in Int /\ p[a] \in Int
                         /\ m.stats.max[a] \in Int
  BY <1>2, PointArithmetic, Coordinates
<1>4. t = [moved EXCEPT !.stats.min = p, !.stats.max = Minus(moved.stats.max, d)]
  BY DEF Translate
<1> HIDE DEF d, back, t
<1>5. /\ move \in [AllCorners(m.stl) -> Point]
      /\ \A q \in AllCorners(m.stl), a \in Axis : move[q][a] = q[a] - d[a] /\ q[a] \in Int
  BY <1>1, <1>3, PointArithmetic, Coordinates
<1> HIDE DEF move
<1>6. SameShape(m, moved) /\ moved.stats = m.stats
  BY <1>5, MovedCorners
<1>7. moved \in Meshes
  BY <1>6 DEF SameShape
<1>8. Minus(m.stats.max, d) \in Point
      /\ \A a \in Axis : Minus(m.stats.max, d)[a] = m.stats.max[a] - d[a]
  BY <1>2, <1>3, PointArithmetic
<1>9. /\ stats \in Dimensions /\ stats.min = p /\ stats.max = Minus(m.stats.max, d)
  BY <1>2, <1>8 DEF Dimensions
<1>10. t = [moved EXCEPT !.stats = stats]
  <2> HIDE DEF moved
  <2>1. QED
    BY <1>2, <1>4, <1>6, <1>7 DEF Meshes, Dimensions
<1>11. IsMoved(m, move, stats, t)
  BY <1>10 DEF IsMoved
<1> HIDE DEF moved, stats
<1>12. \A q \in AllCorners(m.stl), a \in Axis : move[q][a] = q[a] + back[a]
  BY <1>3, <1>5
<1>13. \A a \in Axis : /\ stats.min[a] = m.stats.min[a] + back[a]
                       /\ stats.max[a] = m.stats.max[a] + back[a]
  BY <1>3, <1>8, <1>9
<1>14. BoxKept(m, t)
  BY <1>3, <1>5, <1>9, <1>11, <1>12, <1>13, DisplacedAlike
<1>15. t.stats = stats
  BY <1>5, <1>9, <1>11, MovedAndSet
<1>16. QED
  BY <1>9, <1>14, <1>15 DEF t

(* stl_translate_relative.                                                  *)
LEMMA TranslateRelativeKeeps ==
  ASSUME NEW m \in Meshes, NEW p \in Point
  PROVE  BoxKept(m, TranslateRelative(m, p))
<1> DEFINE move == [q \in AllCorners(m.stl) |-> Plus(q, p)]
           moved == Moved(m, move)
           stats == [m.stats EXCEPT !.min = Plus(m.stats.min, p), !.max = Plus(m.stats.max, p)]
           t == TranslateRelative(m, p)
<1>1. AllCorners(m.stl) \subseteq Point
  BY CornersOfStructure DEF Meshes
<1>2. /\ m.stats \in Dimensions /\ m.stats.min \in Point /\ m.stats.max \in Point
  BY DEF Meshes, Dimensions
<1>3. t = [moved EXCEPT !.stats.min = Plus(moved.stats.min, p),
                        !.stats.max = Plus(moved.stats.max, p)]
  BY DEF TranslateRelative
<1> HIDE DEF t
<1>4. /\ move \in [AllCorners(m.stl) -> Point]
      /\ \A q \in AllCorners(m.stl), a \in Axis : move[q][a] = q[a] + p[a]
  BY <1>1, PointArithmetic
<1> HIDE DEF move
<1>5. SameShape(m, moved) /\ moved.stats = m.stats
  BY <1>4, MovedCorners
<1>6. moved \in Meshes
  BY <1>5 DEF SameShape
<1>7. /\ Plus(m.stats.min, p) \in Point /\ Plus(m.stats.max, p) \in Point
      /\ \A a \in Axis : /\ Plus(m.stats.min, p)[a] = m.stats.min[a] + p[a]
                         /\ Plus(m.stats.max, p)[a] = m.stats.max[a] + p[a]
  BY <1>2, PointArithmetic
<1>8. /\ stats \in Dimensions
      /\ stats.min = Plus(m.stats.min, p) /\ stats.max = Plus(m.stats.max, p)
  BY <1>2, <1>7 DEF Dimensions
<1>9. t = [moved EXCEPT !.stats = stats]
  <2> HIDE DEF moved
  <2>1. QED
    BY <1>2, <1>3, <1>5, <1>6 DEF Meshes, Dimensions
<1>10. IsMoved(m, move, stats, t)
  BY <1>9 DEF IsMoved
<1> HIDE DEF moved, stats
<1>11. \A a \in Axis : /\ stats.min[a] = m.stats.min[a] + p[a]
                       /\ stats.max[a] = m.stats.max[a] + p[a]
  BY <1>7, <1>8
<1>12. BoxKept(m, t)
  BY <1>4, <1>8, <1>10, <1>11, DisplacedAlike
<1>13. QED
  BY <1>12 DEF t

(* stl_stretch: min and max still enclose the mesh.                         *)
LEMMA StretchKeeps ==
  ASSUME NEW m \in Meshes, NEW low, NEW high, NEW offset \in Point
  PROVE  LET t == Stretch(m, low, high, offset)
         IN  SameShape(m, t) /\ (InBox(m) => InBox(t))
<1> DEFINE P == AllCorners(m.stl)
           there == {p \in P : Inside(p, low, high)}
           move == [p \in P |-> IF p \in there THEN Plus(p, offset) ELSE p]
           Q == {Plus(p, offset) : p \in there}
           reach == Q \cup {m.stats.min, m.stats.max}
           moved == Moved(m, move)
           least == Least(reach)
           most == Greatest(reach)
           stats == [m.stats EXCEPT !.min = least, !.max = most]
           t == Stretch(m, low, high, offset)
<1>1. IsFiniteSet(P) /\ P \subseteq Point
  BY CornersOfStructure DEF Meshes
<1>2. /\ m.stats \in Dimensions /\ m.stats.min \in Point /\ m.stats.max \in Point
  BY DEF Meshes, Dimensions
<1>3. t = [moved EXCEPT !.stats.min = least, !.stats.max = most]
  BY DEF Stretch
<1> HIDE DEF P, t
<1>4. IsFiniteSet(Q) /\ Q \subseteq Point
  <2> DEFINE g == [p \in there |-> Plus(p, offset)]
  <2>1. g \in [there -> Q] /\ \A q \in Q : \E p \in there : g[p] = q
    OBVIOUS
  <2>2. IsFiniteSet(there)
    BY <1>1, FS_Subset
  <2>3. Q \subseteq Point
    BY <1>1, PointArithmetic
  <2> HIDE DEF Q, g, there
  <2>4. QED
    BY <2>1, <2>2, <2>3, ImageFinite
<1>5. move \in [P -> Point] /\ \A p \in P : move[p] \in P \cup Q
  BY <1>1, PointArithmetic
<1> HIDE DEF Q, there, move
<1>6. /\ least \in Point /\ most \in Point
      /\ Encloses(P, m.stats.min, m.stats.max) => Encloses(P \cup Q, least, most)
  BY <1>1, <1>2, <1>4, WidenedBox
<1> HIDE DEF reach, least, most
<1>7. stats \in Dimensions /\ stats.min = least /\ stats.max = most
  BY <1>2, <1>6 DEF Dimensions
<1>8. SameShape(m, moved) /\ moved.stats = m.stats
  BY <1>5, MovedCorners DEF P
<1>9. moved \in Meshes
  BY <1>8 DEF SameShape
<1>10. t = [moved EXCEPT !.stats = stats]
  <2> HIDE DEF moved
  <2>1. QED
    BY <1>2, <1>3, <1>8, <1>9 DEF Meshes, Dimensions
<1>11. IsMoved(m, move, stats, t)
  BY <1>10 DEF IsMoved
<1> HIDE DEF moved, stats
<1>12. SameShape(m, t) /\ t.stats = stats /\ AllCorners(t.stl) = ImageOf(move, P)
  BY <1>5, <1>7, <1>11, MovedAndSet DEF P
<1>13. ImageOf(move, P) \subseteq P \cup Q
  BY <1>5 DEF ImageOf
<1>14. InBox(m) => InBox(t)
  BY <1>6, <1>7, <1>12, <1>13 DEF InBox, Encloses, P
<1>15. QED
  BY <1>12, <1>14 DEF t

-----------------------------------------------------------------------------
(****************************************************************************)
(* Reading.                                                                 *)
(****************************************************************************)
(* What is found in a file that can be counted: facets, and not more than   *)
(* were counted.                                                            *)
LEMMA FoundType ==
  ASSUME NEW f \in InputFiles, CanCount(f)
  PROVE  /\ NumFacets(f) \in Nat
         /\ Found(f) \in Seq(Facet) /\ Len(Found(f)) <= NumFacets(f)
         /\ Type(f) = f.written /\ NumFacets(f) = Len(f.facets) => Found(f) = f.facets
<1> DEFINE n == NumFacets(f)
           k == Len(f.facets)
           least == Sets!Min({n, k})
<1>1. /\ f.size \in Nat /\ f.lines \in Nat /\ f.facets \in Seq(Facet) /\ k \in Nat
  BY DEF InputFiles
<1>2. n \in Nat
  <2>1. f.size >= HEADER_SIZE + ProbedBytes
    BY DEF CanCount
  <2>2. \A x \in Nat : x \div 50 \in Nat /\ x \div 7 \in Nat
    OBVIOUS
  <2>3. f.size - 84 \in Nat /\ f.lines + 1 \in Nat
    BY <1>1, <2>1 DEF HEADER_SIZE, ProbedBytes
  <2>4. QED
    BY <2>2, <2>3 DEF NumFacets, HEADER_SIZE, SIZEOF_STL_FACET, ASCII_LINES_PER_FACET
<1> HIDE DEF n, k
<1>3. least \in {n, k} /\ least <= n /\ least <= k
  <2> DEFINE S == {n, k}
  <2>1. IsFiniteSet(S)
    <3>1. IsFiniteSet({}) /\ S = ({} \cup {n}) \cup {k}
      BY FS_EmptySet
    <3>2. QED
      BY <3>1, FS_AddElement
  <2>2. S \subseteq Int /\ S # {} /\ n \in S /\ k \in S
    BY <1>1, <1>2
  <2>3. least = Sets!Min(S)
    OBVIOUS
  <2> HIDE DEF S, least
  <2>4. least \in S /\ \A y \in S : least <= y
    BY <2>1, <2>2, <2>3, MinimumOf
  <2>5. QED
    BY <2>2, <2>4 DEF S
<1>4. least \in Nat
  BY <1>1, <1>2, <1>3
<1>5. Found(f) = IF Type(f) = f.written THEN SubSeq(f.facets, 1, least) ELSE <<>>
  BY DEF Found, n, k
<1> HIDE DEF least
<1>6. /\ SubSeq(f.facets, 1, least) \in Seq(Facet)
      /\ Len(SubSeq(f.facets, 1, least)) = least
      /\ \A i \in 1 .. least : SubSeq(f.facets, 1, least)[i] = f.facets[i]
  <2>1. \A i \in 1 .. least : i \in 1 .. Len(f.facets)
    BY <1>1, <1>3, <1>4 DEF k
  <2>2. QED
    BY <1>1, <1>3, <1>4, <2>1 DEF k
<1>7. Found(f) \in Seq(Facet) /\ Len(Found(f)) <= n
  BY <1>2, <1>3, <1>5, <1>6
<1>8. ASSUME Type(f) = f.written, n = k PROVE Found(f) = f.facets
  <2>1. least = k
    BY <1>3, <1>8
  <2>2. Found(f) = SubSeq(f.facets, 1, k)
    BY <1>5, <1>8, <2>1
  <2>3. QED
    BY <1>1, <2>2 DEF k
<1>9. QED
  BY <1>2, <1>7, <1>8 DEF n, k

(* The corners of the facets found are finitely many points.                *)
LEMMA CornersFound ==
  ASSUME NEW found \in Seq(Facet)
  PROVE  /\ IsFiniteSet(CornersOf(found)) /\ CornersOf(found) \subseteq Point
         /\ found # <<>> => CornersOf(found) # {}
<1> DEFINE C == {found[k][c] : k \in DOMAIN found, c \in Corner}
           pairs == (DOMAIN found) \X Corner
           g == [x \in pairs |-> found[x[1]][x[2]]]
<1>1. CornersOf(found) = C
  BY DEF CornersOf
<1>2. IsFiniteSet(pairs)
  <2>1. DOMAIN found = 1 .. Len(found) /\ Len(found) \in Int /\ 0 \in Int /\ 1 \in Int /\ 2 \in Int
    OBVIOUS
  <2>2. IsFiniteSet(1 .. Len(found)) /\ IsFiniteSet(0 .. 2)
    BY <2>1, FS_Interval
  <2>3. QED
    BY <2>1, <2>2, FS_Product DEF Corner
<1>3. g \in [pairs -> C] /\ \A t \in C : \E x \in pairs : g[x] = t
  <2>1. \A x \in pairs : x[1] \in DOMAIN found /\ x[2] \in Corner /\ g[x] \in C
    OBVIOUS
  <2>2. ASSUME NEW t \in C PROVE \E x \in pairs : g[x] = t
    <3>1. PICK k \in DOMAIN found, c \in Corner : t = found[k][c]
      OBVIOUS
    <3>2. <<k, c>> \in pairs /\ g[<<k, c>>] = t
      BY <3>1
    <3>3. QED
      BY <3>2
  <2>3. QED
    BY <2>1, <2>2
<1>4. IsFiniteSet(C)
  <2> HIDE DEF C, pairs, g
  <2>1. QED
    BY <1>2, <1>3, ImageFinite
<1>5. C \subseteq Point
  <2>1. \A k \in DOMAIN found : found[k] \in [Corner -> Vertex]
    BY DEF Facet
  <2>2. QED
    BY <2>1, VertexAssumption
<1>6. found # <<>> => C # {}
  <2>1. found # <<>> => 1 \in DOMAIN found
    OBVIOUS
  <2>2. 0 \in Corner
    BY DEF Corner
  <2>3. found # <<>> => found[1][0] \in C
    BY <2>1, <2>2
  <2> HIDE DEF C
  <2>4. QED
    BY <2>3
<1> HIDE DEF C
<1>7. QED
  BY <1>1, <1>4, <1>5, <1>6
(* stl_facet_stats over the facets found.                                   *)
LEMMA WidenedMeasures ==
  ASSUME NEW stats \in Dimensions, NEW found \in Seq(Facet), NEW first \in BOOLEAN
  PROVE  LET t == Widened(stats, found, first)
             C == CornersOf(found)
         IN  /\ t \in Dimensions
             /\ first /\ found # <<>> => IsBox(C, t.min, t.max)
             /\ \A P \in SUBSET Point :
                  IsFiniteSet(P) /\ ~ first =>
                    /\ IsBox(P, stats.min, stats.max) => IsBox(P \cup C, t.min, t.max)
                    /\ Encloses(P, stats.min, stats.max) => Encloses(P \cup C, t.min, t.max)
<1> DEFINE t == Widened(stats, found, first)
           C == CornersOf(found)
           ends == {stats.min, stats.max}
           points == C \cup (IF first THEN {} ELSE ends)
           least == Least(points)
           most == Greatest(points)
<1>1. IsFiniteSet(C) /\ C \subseteq Point /\ (found # <<>> => C # {})
  BY CornersFound
<1>2. stats.min \in Point /\ stats.max \in Point
  BY DEF Dimensions
<1>3. CASE found = <<>>
  <2>1. t = stats /\ C = {}
    BY <1>3 DEF Widened, CornersOf
  <2> HIDE DEF t, C
  <2>2. QED
    BY <1>3, <2>1 DEF t, C
<1>4. CASE found # <<>>
  <2>1. t = [stats EXCEPT !.min = least, !.max = most]
    BY <1>4 DEF Widened
  <2> HIDE DEF t, C
  <2>2. CASE first
    <3>1. points = C
      BY <2>2
    <3>2. least \in Point /\ most \in Point /\ IsBox(C, least, most)
      <4>1. Least(C) \in Point /\ Greatest(C) \in Point /\ IsBox(C, Least(C), Greatest(C))
        BY <1>1, <1>4, BoxOf
      <4>2. least = Least(C) /\ most = Greatest(C)
        BY <3>1
      <4>3. QED
        BY <4>1, <4>2
    <3> HIDE DEF least, most
    <3>3. t \in Dimensions /\ t.min = least /\ t.max = most
      BY <2>1, <3>2 DEF Dimensions
    <3>4. QED
      BY <2>2, <3>2, <3>3 DEF t, C
  <2>3. CASE ~ first
    <3>1. points = C \cup ends
      BY <2>3
    <3>2. /\ least = Least(C \cup ends) /\ most = Greatest(C \cup ends)
      BY <3>1
    <3>3. /\ Least(C \cup ends) \in Point /\ Greatest(C \cup ends) \in Point
      <4>1. IsFiniteSet({})
        BY FS_EmptySet
      <4>2. QED
        BY <1>1, <1>2, <4>1, WidenedBox
    <3>4. ASSUME NEW P \in SUBSET Point, IsFiniteSet(P)
          PROVE  /\ IsBox(P, stats.min, stats.max) => IsBox(P \cup C, least, most)
                 /\ Encloses(P, stats.min, stats.max) => Encloses(P \cup C, least, most)
      <4> HIDE DEF least, most
      <4>1. /\ IsBox(P, stats.min, stats.max)
                  => IsBox(P \cup C, Least(C \cup ends), Greatest(C \cup ends))
            /\ Encloses(P, stats.min, stats.max)
                  => Encloses(P \cup C, Least(C \cup ends), Greatest(C \cup ends))
        BY <1>1, <1>2, <3>4, WidenedBox
      <4>2. QED
        BY <3>2, <4>1
    <3> HIDE DEF least, most
    <3>5. t \in Dimensions /\ t.min = least /\ t.max = most
      BY <2>1, <3>2, <3>3 DEF Dimensions
    <3>6. QED
      BY <2>3, <3>4, <3>5 DEF t, C
  <2>4. QED
    BY <2>2, <2>3
<1>5. QED
  BY <1>3, <1>4

(* t is m with n more facets, all of them found or not.                     *)
ReadInto(m, n, whole, t) ==
  /\ t \in Meshes
  /\ t.stl.number_of_facets = m.stl.number_of_facets + n
  /\ t.error <=> ~ whole

(* stl_read: the type of what it leaves.                                    *)
LEMMA StlReadType ==
  ASSUME NEW m \in Meshes, NEW f \in InputFiles, CanCount(f),
         m.stl.number_of_facets + NumFacets(f) <= MaxFacets, NEW first \in BOOLEAN
  PROVE  LET t == StlRead(m, f, first)
             n == m.stl.number_of_facets
             found == Found(f)
         IN  /\ ReadInto(m, NumFacets(f), Len(found) >= NumFacets(f), t)
             /\ t.stl.facet_start = [s \in Slot |-> IF s - n + 1 \in DOMAIN found
                                                    THEN found[s - n + 1]
                                                    ELSE m.stl.facet_start[s]]
             /\ t.stats.min = Widened(m.stats, found, first).min
             /\ t.stats.max = Widened(m.stats, found, first).max
<1> DEFINE n == m.stl.number_of_facets
           k == NumFacets(f)
           found == Found(f)
           rows == [s \in Slot |-> IF s - n + 1 \in DOMAIN found THEN found[s - n + 1]
                                   ELSE m.stl.facet_start[s]]
           normal == [s \in Slot |-> IF s - n + 1 \in DOMAIN found
                                     THEN FacetNormal(found[s - n + 1])
                                     ELSE m.stl.normal[s]]
           shortest == IF first /\ found # <<>> THEN MaxDiff(found[1][0], found[1][1])
                       ELSE m.stl.shortest_edge
           stl == [m.stl EXCEPT !.number_of_facets = n + k, !.facet_start = rows,
                                !.normal = normal, !.shortest_edge = shortest]
           stats == Widened(m.stats, found, first)
           t == StlRead(m, f, first)
<1>1. t = IF Len(found) < k THEN [stl |-> stl, stats |-> stats, error |-> TRUE]
          ELSE [stl |-> stl, stats |-> Sized(stats), error |-> FALSE]
  BY DEF StlRead
<1>2. k \in Nat /\ found \in Seq(Facet) /\ Len(found) <= k
  BY FoundType
<1> HIDE DEF k, found, t
<1>3. m.stl \in Structures /\ m.stats \in Dimensions
  BY DEF Meshes
<1>4. n \in Nat /\ n + k \in 0 .. MaxFacets
  <2>1. n \in Nat
    BY <1>3, MaxFacetsAssumption DEF Structures
  <2>2. QED
    BY <1>2, <2>1, MaxFacetsAssumption DEF k
<1>5. \A i \in DOMAIN found : found[i] \in [Corner -> Point]
  <2>1. \A i \in DOMAIN found : found[i] \in [Corner -> Vertex]
    BY <1>2 DEF Facet
  <2>2. QED
    BY <2>1, VertexAssumption
<1>6. rows \in [Slot -> [Corner -> Point]]
  BY <1>3, <1>5 DEF Structures
<1>7. normal \in [Slot -> Point]
  <2>1. \A i \in DOMAIN found : FacetNormal(found[i]) \in Point
    BY <1>5, FacetNormalType
  <2>2. QED
    BY <1>3, <2>1 DEF Structures
<1>8. shortest \in Int
  <2>1. CASE found # <<>>
    <3>1. 1 \in DOMAIN found
      BY <1>2, <2>1
    <3>2. found[1][0] \in Point /\ found[1][1] \in Point
      BY <1>5, <3>1 DEF Corner
    <3>3. MaxDiff(found[1][0], found[1][1]) \in Int
      BY <3>2, MaxDiffType
    <3>4. QED
      BY <1>3, <3>3 DEF Structures
  <2>2. CASE found = <<>>
    BY <1>3, <2>2 DEF Structures
  <2>3. QED
    BY <2>1, <2>2
<1> HIDE DEF normal, shortest, n
<1>9. stl \in Structures /\ stl.number_of_facets = n + k /\ stl.facet_start = rows
  <2> HIDE DEF rows
  <2>1. QED
    BY <1>3, <1>4, <1>6, <1>7, <1>8 DEF Structures
<1>10. stats \in Dimensions
  BY <1>2, <1>3, WidenedMeasures
<1>11. Sized(stats) \in Dimensions
       /\ Sized(stats).min = stats.min /\ Sized(stats).max = stats.max
  <2> HIDE DEF stats
  <2>1. QED
    BY <1>10, SizedType
<1> HIDE DEF stl, stats
<1>12. /\ t \in Meshes /\ t.stl = stl
       /\ t.stats.min = stats.min /\ t.stats.max = stats.max
       /\ t.error <=> Len(found) < k
  <2>1. CASE Len(found) < k
    <3>1. t = [stl |-> stl, stats |-> stats, error |-> TRUE]
      BY <1>1, <2>1
    <3>2. t \in Meshes /\ t.stl = stl /\ t.stats = stats /\ t.error = TRUE
      BY <1>9, <1>10, <3>1 DEF Meshes
    <3>3. QED
      BY <2>1, <3>2
  <2>2. CASE ~ (Len(found) < k)
    <3>1. t = [stl |-> stl, stats |-> Sized(stats), error |-> FALSE]
      BY <1>1, <2>2
    <3>2. t \in Meshes /\ t.stl = stl /\ t.stats = Sized(stats) /\ t.error = FALSE
      BY <1>9, <1>11, <3>1 DEF Meshes
    <3>3. QED
      BY <1>11, <2>2, <3>2
  <2>3. QED
    BY <2>1, <2>2
<1>13. ReadInto(m, k, Len(found) >= k, t)
  <2>1. (Len(found) < k) <=> ~ (Len(found) >= k)
    BY <1>2
  <2>2. t.error <=> ~ (Len(found) >= k)
    BY <1>12, <2>1
  <2>3. QED
    BY <1>9, <1>12, <2>2 DEF ReadInto, n
<1>14. QED
  BY <1>9, <1>12, <1>13 DEF n, k, found, t, stats

(* stl_read, when every facet counted is found: the corners are those there *)
(* were and those of the facets found, and the box is around them.          *)
LEMMA StlReadBox ==
  ASSUME NEW m \in Meshes, NEW f \in InputFiles, CanCount(f),
         m.stl.number_of_facets + NumFacets(f) <= MaxFacets, NEW first \in BOOLEAN,
         Len(Found(f)) = NumFacets(f)
  PROVE  LET t == StlRead(m, f, first)
         IN  /\ first /\ m.stl.number_of_facets = 0 /\ Found(f) # <<>> => TightBox(t)
             /\ ~ first /\ TightBox(m) => TightBox(t)
             /\ ~ first /\ InBox(m) => InBox(t)
<1> DEFINE n == m.stl.number_of_facets
           k == NumFacets(f)
           found == Found(f)
           stats == Widened(m.stats, found, first)
           t == StlRead(m, f, first)
           C == CornersOf(found)
           P == AllCorners(m.stl)
<1>1. /\ ReadInto(m, k, Len(found) >= k, t)
      /\ t.stl.facet_start = [s \in Slot |-> IF s - n + 1 \in DOMAIN found
                                             THEN found[s - n + 1]
                                             ELSE m.stl.facet_start[s]]
      /\ t.stats.min = stats.min /\ t.stats.max = stats.max
  BY StlReadType
<1>2. k \in Nat /\ found \in Seq(Facet) /\ Len(found) = k
  BY FoundType
<1>3. m.stl \in Structures /\ m.stats \in Dimensions
  BY DEF Meshes
<1> HIDE DEF found, t, n, k
<1>4. n \in Nat /\ n + k <= MaxFacets /\ MaxFacets \in Nat
  BY <1>3, MaxFacetsAssumption DEF Structures, n, k
<1>5. t.stl.number_of_facets = n + k
  BY <1>1 DEF ReadInto, n
<1>6. DOMAIN found = 1 .. k
  BY <1>2
<1>7. AllCorners(t.stl) = P \cup C
  <2>1. /\ Facets(t.stl) = 0 .. n + k - 1 /\ Facets(m.stl) = 0 .. n - 1
    <3>1. /\ Facets(t.stl) = 0 .. t.stl.number_of_facets - 1
          /\ Facets(m.stl) = 0 .. n - 1
      BY DEF Facets, n
    <3>2. QED
      BY <1>2, <1>4, <1>5, <3>1
  <2>2. \A s \in 0 .. n + k - 1 : s \in Slot
    BY <1>4, <1>2 DEF Slot
  <2>3. \A s \in 0 .. n - 1 : /\ s \in 0 .. n + k - 1
                              /\ t.stl.facet_start[s] = m.stl.facet_start[s]
    <3>1. ASSUME NEW s \in 0 .. n - 1 PROVE s \in 0 .. n + k - 1 /\ ~ (s - n + 1 \in 1 .. k)
      BY <1>2, <1>4
    <3>2. QED
      BY <1>1, <1>6, <2>2, <3>1
  <2>4. \A i \in 1 .. k : /\ n + i - 1 \in 0 .. n + k - 1
                          /\ t.stl.facet_start[n + i - 1] = found[i]
    <3>1. ASSUME NEW i \in 1 .. k
          PROVE  n + i - 1 \in 0 .. n + k - 1 /\ (n + i - 1) - n + 1 = i
      BY <1>2, <1>4
    <3>2. QED
      BY <1>1, <1>6, <2>2, <3>1
  <2>5. \A s \in 0 .. n + k - 1 :
          s \in 0 .. n - 1 \/ \E i \in 1 .. k : s = n + i - 1
    <3>1. ASSUME NEW s \in 0 .. n + k - 1, ~ (s \in 0 .. n - 1)
          PROVE  s - n + 1 \in 1 .. k /\ s = n + (s - n + 1) - 1
      BY <1>2, <1>4, <3>1
    <3>2. QED
      BY <3>1
  <2>6. ASSUME NEW x \in AllCorners(t.stl) PROVE x \in P \cup C
    <3>1. PICK s \in 0 .. n + k - 1, c \in Corner : x = t.stl.facet_start[s][c]
      BY <2>1 DEF AllCorners
    <3>2. CASE s \in 0 .. n - 1
      BY <2>1, <2>3, <3>1, <3>2 DEF AllCorners
    <3>3. CASE \E i \in 1 .. k : s = n + i - 1
      BY <1>6, <2>4, <3>1, <3>3 DEF CornersOf
    <3>4. QED
      BY <2>5, <3>2, <3>3
  <2>7. ASSUME NEW x \in P PROVE x \in AllCorners(t.stl)
    <3>1. PICK s \in 0 .. n - 1, c \in Corner : x = m.stl.facet_start[s][c]
      BY <2>1 DEF AllCorners
    <3>2. QED
      BY <2>1, <2>3, <3>1 DEF AllCorners
  <2>8. ASSUME NEW x \in C PROVE x \in AllCorners(t.stl)
    <3>1. PICK i \in 1 .. k, c \in Corner : x = found[i][c]
      BY <1>6 DEF CornersOf
    <3>2. QED
      BY <2>1, <2>4, <3>1 DEF AllCorners
  <2> HIDE DEF P, C
  <2>9. QED
    BY <2>6, <2>7, <2>8
<1>8. /\ IsFiniteSet(P) /\ P \subseteq Point /\ (P = {} <=> n = 0)
  BY <1>3, CornersOfStructure DEF n
<1> HIDE DEF P
<1>9. /\ first /\ found # <<>> => IsBox(C, stats.min, stats.max)
      /\ ~ first => /\ IsBox(P, m.stats.min, m.stats.max)
                         => IsBox(P \cup C, stats.min, stats.max)
                    /\ Encloses(P, m.stats.min, m.stats.max)
                         => Encloses(P \cup C, stats.min, stats.max)
  BY <1>2, <1>3, <1>8, WidenedMeasures
<1> HIDE DEF C, stats
<1>10. first /\ n = 0 /\ found # <<>> => TightBox(t)
  <2>1. n = 0 => P \cup C = C
    BY <1>8
  <2>2. QED
    BY <1>1, <1>7, <1>9, <2>1 DEF TightBox
<1>11. ~ first => (TightBox(m) => TightBox(t)) /\ (InBox(m) => InBox(t))
  BY <1>1, <1>7, <1>9 DEF TightBox, InBox, P
<1>12. QED
  BY <1>10, <1>11 DEF n, found, t

(* What stl_open leaves if it succeeds: every facet counted was found.      *)
LEMMA OpenFileReads ==
  ASSUME NEW f \in InputFiles, CanCount(f) => NumFacets(f) <= MaxFacets,
         NEW stats \in Dimensions
  PROVE  LET t == OpenFile(f, stats)
         IN  /\ ~ t.error => /\ t \in Meshes /\ CanCount(f)
                             /\ t.stl.number_of_facets = NumFacets(f)
                             /\ Found(f) # <<>> => TightBox(t) /\ NumFacets(f) # 0
             /\ CanCount(f) /\ Len(Found(f)) >= NumFacets(f) => ~ t.error
<1> DEFINE stl == StlOpen(<<>>, [s \in Slot |-> Zero])
           empty == [stl |-> stl, stats |-> stats, error |-> TRUE]
           t == OpenFile(f, stats)
<1>1. stl \in StlFiles
  <2>1. <<>> \in Seq(Facet) /\ Len(<<>>) <= MaxFacets
    BY MaxFacetsAssumption
  <2>2. [s \in Slot |-> Zero] \in [Slot -> Point]
    BY DEF Zero, Point
  <2>3. QED
    BY <2>1, <2>2, StlOpenType
<1>2. stl.number_of_facets = 0 /\ stl.heads = {}
  BY DEF StlOpen
<1>3. t = IF CanCount(f) THEN StlRead(empty, f, TRUE) ELSE empty
  BY DEF OpenFile
<1> HIDE DEF stl, t
<1>4. stl \in Structures
  <2>1. \A x \in [Slot -> Facet] : x \in [Slot -> [Corner -> Point]]
    BY VertexAssumption DEF Facet
  <2>2. stl.facet_start \in [Slot -> [Corner -> Point]]
    BY <1>1, <2>1 DEF StlFiles
  <2>3. QED
    BY <1>1, <1>2, <2>2 DEF StlFiles, Structures
<1>5. empty \in Meshes /\ empty.stl = stl /\ empty.error = TRUE
  BY <1>4 DEF Meshes
<1> HIDE DEF empty
<1>6. CASE ~ CanCount(f)
  BY <1>3, <1>5, <1>6 DEF t
<1>7. CASE CanCount(f)
  <2> DEFINE k == NumFacets(f)
  <2>1. t = StlRead(empty, f, TRUE)
    BY <1>3, <1>7
  <2>2. k \in Nat /\ Found(f) \in Seq(Facet) /\ Len(Found(f)) <= k
    BY <1>7, FoundType
  <2>3. empty.stl.number_of_facets + k <= MaxFacets /\ empty.stl.number_of_facets + k = k
    BY <1>2, <1>5, <1>7, <2>2
  <2>4. ReadInto(empty, k, Len(Found(f)) >= k, t)
    BY <1>5, <1>7, <2>1, <2>3, StlReadType
  <2> HIDE DEF k
  <2>5. /\ t \in Meshes /\ t.stl.number_of_facets = k
        /\ t.error <=> ~ (Len(Found(f)) >= k)
    BY <2>3, <2>4 DEF ReadInto
  <2>6. ASSUME ~ t.error, Found(f) # <<>> PROVE TightBox(t) /\ k # 0
    <3>1. Len(Found(f)) >= k
      BY <2>5, <2>6
    <3>2. Len(Found(f)) = NumFacets(f) /\ k # 0
      BY <2>2, <2>6, <3>1 DEF k
    <3>3. empty.stl.number_of_facets + NumFacets(f) <= MaxFacets
          /\ empty.stl.number_of_facets = 0
      BY <1>2, <1>5, <2>3 DEF k
    <3>4. QED
      BY <1>5, <1>7, <2>1, <2>6, <3>2, <3>3, StlReadBox
  <2>7. QED
    BY <1>7, <2>5, <2>6 DEF k, t
<1>8. QED
  BY <1>6, <1>7

(* What stl_open_merge leaves: a file that cannot be counted adds nothing.  *)
LEMMA OpenMergeReads ==
  ASSUME NEW m \in Meshes, NEW f \in InputFiles,
         CanCount(f) => m.stl.number_of_facets + NumFacets(f) <= MaxFacets
  PROVE  LET t == OpenMerge(m, f)
         IN  /\ t \in Meshes
             /\ ~ t.error /\ TightBox(m) => TightBox(t)
             /\ ~ t.error /\ InBox(m) => InBox(t)
             /\ ~ m.error /\ CanCount(f) /\ Len(Found(f)) >= NumFacets(f) =>
                  /\ ~ t.error
                  /\ t.stl.number_of_facets = m.stl.number_of_facets + NumFacets(f)
<1> DEFINE t == OpenMerge(m, f)
<1>1. CASE m.error
  BY <1>1 DEF OpenMerge
<1>2. CASE ~ m.error /\ CanCount(f)
  <2> DEFINE k == NumFacets(f)
  <2>1. t = StlRead(m, f, FALSE)
    BY <1>2 DEF OpenMerge
  <2> HIDE DEF t
  <2>2. k \in Nat /\ Found(f) \in Seq(Facet) /\ Len(Found(f)) <= k
    BY <1>2, FoundType
  <2>3. ReadInto(m, k, Len(Found(f)) >= k, t)
    BY <1>2, <2>1, StlReadType
  <2> HIDE DEF k
  <2>4. /\ t \in Meshes /\ t.stl.number_of_facets = m.stl.number_of_facets + k
        /\ t.error <=> ~ (Len(Found(f)) >= k)
    BY <2>3 DEF ReadInto
  <2>5. ASSUME ~ t.error PROVE (TightBox(m) => TightBox(t)) /\ (InBox(m) => InBox(t))
    <3>1. Len(Found(f)) = NumFacets(f)
      BY <2>2, <2>4, <2>5 DEF k
    <3>2. QED
      BY <1>2, <2>1, <3>1, StlReadBox
  <2>6. QED
    BY <2>4, <2>5 DEF k, t
<1>3. CASE ~ m.error /\ ~ CanCount(f)
  <2>1. t = [m EXCEPT !.stats = Sized(m.stats)]
    BY <1>3 DEF OpenMerge
  <2> HIDE DEF t
  <2>2. /\ Sized(m.stats) \in Dimensions
        /\ Sized(m.stats).min = m.stats.min /\ Sized(m.stats).max = m.stats.max
    BY SizedType DEF Meshes
  <2>3. SameShape(m, t) /\ t.stats = Sized(m.stats) /\ t.stl = m.stl
    BY <2>1, <2>2, StatsSet
  <2>4. QED
    BY <1>3, <2>2, <2>3 DEF SameShape, TightBox, InBox, t
<1>4. QED
  BY <1>1, <1>2, <1>3

-----------------------------------------------------------------------------
(****************************************************************************)
(* The options and what main does in which order.                           *)
(****************************************************************************)
(* main goes from one thing to the next.                                    *)
LEMMA PhasesInOrder ==
  /\ Following("open") = "x-rotate"
  /\ Following("x-rotate") = "y-rotate" /\ Following("y-rotate") = "z-rotate"
  /\ Following("z-rotate") = "xy-mirror" /\ Following("xy-mirror") = "yz-mirror"
  /\ Following("yz-mirror") = "xz-mirror" /\ Following("xz-mirror") = "scale"
  /\ Following("scale") = "scale-xyz" /\ Following("scale-xyz") = "translate"
  /\ Following("translate") = "stretch" /\ Following("stretch") = "translate-rel"
  /\ Following("translate-rel") = "merge" /\ Following("merge") = "repair"
  /\ Following("repair") = "shared-vertices" /\ Following("shared-vertices") = "write-off"
  /\ Following("write-off") = "write-dxf" /\ Following("write-dxf") = "write-vrml"
  /\ Following("write-vrml") = "write-ascii-stl"
  /\ Following("write-ascii-stl") = "write-binary-stl"
  /\ Following("write-binary-stl") = "done"
<1>1. DOMAIN Phases = 1 .. 21
  BY DEF Phases
<1>2. \A j, k \in 1 .. 21 : Phases[j] = Phases[k] => j = k
  BY DEF Phases
<1>3. ASSUME NEW k \in 1 .. 20 PROVE Following(Phases[k]) = Phases[k + 1]
  <2>1. k \in DOMAIN Phases
    BY <1>1
  <2>2. Index(Phases[k]) \in DOMAIN Phases /\ Phases[Index(Phases[k])] = Phases[k]
    BY <2>1 DEF Index
  <2>3. Index(Phases[k]) = k
    BY <1>1, <1>2, <2>1, <2>2
  <2>4. QED
    BY <2>3 DEF Following
<1>4. /\ 1 \in 1 .. 20 /\ 2 \in 1 .. 20 /\ 3 \in 1 .. 20 /\ 4 \in 1 .. 20 /\ 5 \in 1 .. 20
      /\ 6 \in 1 .. 20 /\ 7 \in 1 .. 20 /\ 8 \in 1 .. 20 /\ 9 \in 1 .. 20 /\ 10 \in 1 .. 20
      /\ 11 \in 1 .. 20 /\ 12 \in 1 .. 20 /\ 13 \in 1 .. 20 /\ 14 \in 1 .. 20 /\ 15 \in 1 .. 20
      /\ 16 \in 1 .. 20 /\ 17 \in 1 .. 20 /\ 18 \in 1 .. 20 /\ 19 \in 1 .. 20 /\ 20 \in 1 .. 20
  OBVIOUS
<1>5. /\ Following(Phases[1]) = Phases[2] /\ Following(Phases[2]) = Phases[3]
      /\ Following(Phases[3]) = Phases[4] /\ Following(Phases[4]) = Phases[5]
      /\ Following(Phases[5]) = Phases[6] /\ Following(Phases[6]) = Phases[7]
      /\ Following(Phases[7]) = Phases[8] /\ Following(Phases[8]) = Phases[9]
      /\ Following(Phases[9]) = Phases[10] /\ Following(Phases[10]) = Phases[11]
      /\ Following(Phases[11]) = Phases[12] /\ Following(Phases[12]) = Phases[13]
      /\ Following(Phases[13]) = Phases[14] /\ Following(Phases[14]) = Phases[15]
      /\ Following(Phases[15]) = Phases[16] /\ Following(Phases[16]) = Phases[17]
      /\ Following(Phases[17]) = Phases[18] /\ Following(Phases[18]) = Phases[19]
      /\ Following(Phases[19]) = Phases[20] /\ Following(Phases[20]) = Phases[21]
  BY <1>3, <1>4
<1>6. QED
  BY <1>5 DEF Phases

(* The names of the options.                                                *)
Names == Checks \cup Moves \cup Outputs \cup {"merge", "help", "version", "?"}

(* The name of a file; none until one is given.                             *)
FileNames == STRING \cup {""}

(* What parsing leaves.                                                     *)
Parsings ==
  [fixall : BOOLEAN, asked : SUBSET Names, points : [Moves -> Seq(Point)],
   trans : Point, file : [Outputs \cup {"merge"} -> FileNames]]

(* An option asked for has its numbers or its file.                         *)
WithValues(o) ==
  /\ o \in Parsings
  /\ \A m \in Moves : m \in o.asked => Len(o.points[m]) = PointsIn(m)
  /\ "merge" \in o.asked => o.file["merge"] \in DOMAIN Files

(* The option of a command line.                                            *)
IsOption(option) ==
  /\ option \in Option
  /\ Len(option.points) = PointsIn(option.name)
  /\ option.name = "merge" => option.file \in DOMAIN Files

(* Parsing an option keeps this.                                            *)
LEMMA ParsedValues ==
  ASSUME NEW o, WithValues(o), NEW option, IsOption(option)
  PROVE  WithValues(Parsed(o, option))
<1> DEFINE name == option.name
           asked == o.asked \cup {name}
           fixall == o.fixall /\ name \notin Checks
           points == IF name \in Moves THEN [o.points EXCEPT ![name] = option.points] ELSE o.points
           trans == IF name \in {"translate", "translate-rel"} THEN option.points[1] ELSE o.trans
           file == IF name \in DOMAIN o.file THEN [o.file EXCEPT ![name] = option.file] ELSE o.file
           p == Parsed(o, option)
<1>1. p = [o EXCEPT !.asked = asked, !.fixall = fixall, !.points = points,
                    !.trans = trans, !.file = file]
  BY DEF Parsed
<1>2. /\ name \in Names /\ option.points \in Seq(Point) /\ option.file \in FileNames
      /\ Len(option.points) = PointsIn(name)
      /\ name = "merge" => option.file \in DOMAIN Files
  BY DEF IsOption, Option, Names, FileNames
<1>3. o \in Parsings
  BY DEF WithValues
<1>4. asked \in SUBSET Names /\ fixall \in BOOLEAN
  BY <1>2, <1>3 DEF Parsings
<1>5. points \in [Moves -> Seq(Point)]
      /\ \A m \in Moves : points[m] = IF m = name THEN option.points ELSE o.points[m]
  BY <1>2, <1>3 DEF Parsings
<1>6. trans \in Point
  <2>1. CASE name \in {"translate", "translate-rel"}
    <3>1. Len(option.points) = 1
      BY <1>2, <2>1 DEF PointsIn
    <3>2. QED
      BY <1>2, <2>1, <3>1
  <2>2. CASE name \notin {"translate", "translate-rel"}
    BY <1>3, <2>2 DEF Parsings
  <2>3. QED
    BY <2>1, <2>2
<1>7. file \in [Outputs \cup {"merge"} -> FileNames]
      /\ file["merge"] = IF name = "merge" THEN option.file ELSE o.file["merge"]
  <2>1. o.file \in [Outputs \cup {"merge"} -> FileNames]
    BY <1>3 DEF Parsings
  <2> HIDE DEF name
  <2>2. QED
    BY <1>2, <2>1
<1> HIDE DEF name, asked, fixall, points, trans, file, p
<1>8. /\ p \in Parsings /\ p.asked = asked /\ p.points = points /\ p.file = file
  BY <1>1, <1>3, <1>4, <1>5, <1>6, <1>7 DEF Parsings
<1>9. ASSUME NEW m \in Moves, m \in p.asked PROVE Len(p.points[m]) = PointsIn(m)
  <2>1. m \in o.asked \/ m = name
    BY <1>8, <1>9 DEF asked
  <2>2. QED
    BY <1>2, <1>5, <1>8, <2>1 DEF WithValues
<1>10. ASSUME "merge" \in p.asked PROVE p.file["merge"] \in DOMAIN Files
  <2>1. "merge" \in o.asked \/ "merge" = name
    BY <1>8, <1>10 DEF asked
  <2>2. QED
    BY <1>2, <1>7, <1>8, <2>1 DEF WithValues
<1>11. QED
  BY <1>8, <1>9, <1>10 DEF WithValues, p

(* The options of a command line.                                           *)
LEMMA CommandLineOptions ==
  ASSUME NEW line \in CommandLines
  PROVE  /\ line.options \in Seq(Option) /\ line.file \in DOMAIN Files
         /\ \A k \in 1 .. Len(line.options) : IsOption(line.options[k])
<1>1. /\ line.options \in Seq(Option) /\ line.file \in DOMAIN Files
      /\ \A k \in DOMAIN line.options :
           /\ Len(line.options[k].points) = PointsIn(line.options[k].name)
           /\ line.options[k].name = "merge" => line.options[k].file \in DOMAIN Files
  BY CommandLinesAssumption
<1>2. DOMAIN line.options = 1 .. Len(line.options)
  BY <1>1
<1>3. \A k \in 1 .. Len(line.options) : line.options[k] \in Option
  BY <1>1
<1>4. QED
  BY <1>1, <1>2, <1>3 DEF IsOption

(* By default nothing is asked for.                                         *)
LEMMA NoOptionsValues == WithValues(NoOptions)
<1>1. NoOptions \in Parsings
  <2>1. Zero \in Point
    BY DEF Zero, Point
  <2>2. [m \in Moves |-> <<>>] \in [Moves -> Seq(Point)]
    OBVIOUS
  <2>3. [o \in Outputs \cup {"merge"} |-> ""] \in [Outputs \cup {"merge"} -> FileNames]
    BY DEF FileNames
  <2>4. QED
    BY <2>1, <2>2, <2>3 DEF NoOptions, Parsings
<1>2. NoOptions.asked = {}
  BY DEF NoOptions
<1>3. QED
  BY <1>1, <1>2 DEF WithValues

-----------------------------------------------------------------------------
(****************************************************************************)
(* The invariant: the types.                                                *)
(****************************************************************************)
(* What an output may hold.                                                 *)
Results == [facets : Seq([Corner -> Point]), passes : SUBSET Checks]

(* Until something is merged the facets are those counted in the input,     *)
(* and there is no error.                                                   *)
TypeInv ==
  /\ argv \in CommandLines
  /\ optind \in 0 .. Len(argv.options)
  /\ WithValues(opts)
  /\ phase \in {"parse", "exit"} \cup {Phases[k] : k \in DOMAIN Phases}
  /\ mesh \in Meshes
  /\ phase \in Moves \cup {"merge"} =>
       /\ ~ mesh.error /\ CanCount(Input)
       /\ mesh.stl.number_of_facets = NumFacets(Input)
  /\ passes \subseteq Checks /\ shared \in BOOLEAN
  /\ written \in [Outputs -> Results]
  /\ ret \in {0, 1, Crashed}

(* The type invariant implies that of Admesh.                               *)
LEMMA TypeInvImplies == TypeInv => TypeOK
<1> SUFFICES ASSUME TypeInv PROVE TypeOK
  OBVIOUS
<1>1. opts.fixall \in BOOLEAN
  BY DEF TypeInv, WithValues, Parsings
<1>2. mesh.stl \in Structures /\ mesh.stats \in Dimensions /\ mesh.error \in BOOLEAN
  BY DEF TypeInv, Meshes
<1>3. Facets(mesh.stl) \subseteq Slot
  BY SMTT(20), <1>2, MaxFacetsAssumption DEF Structures, Facets, Slot
<1>4. \A f \in Facets(mesh.stl), e \in Corner :
        /\ mesh.stl.facet_start[f][e] \in Point
        /\ mesh.stl.which_vertex_not[f][e] \in 0 .. 5
  BY <1>2, <1>3 DEF Structures
<1>5. mesh.stl.number_of_facets \in 0 .. MaxFacets
  BY <1>2 DEF Structures
<1>6. {mesh.stats.min, mesh.stats.max, mesh.stats.size} \subseteq Point
      /\ mesh.stats.diameter \in Nat
  BY <1>2 DEF Dimensions
<1>7. \A o \in Outputs : written[o].passes \subseteq Checks
  BY DEF TypeInv, Results
<1>8. QED
  BY <1>1, <1>2, <1>4, <1>5, <1>6, <1>7 DEF TypeInv, TypeOK

(* Any two files can be read one after the other.                           *)
LEMMA FilesFit ==
  ASSUME NEW a \in DOMAIN Files, NEW b \in DOMAIN Files
  PROVE  /\ Files[a] \in InputFiles /\ (Files[a].lines > 0 => Files[a].newline)
         /\ CanCount(Files[a]) => NumFacets(Files[a]) \in Nat /\ NumFacets(Files[a]) <= MaxFacets
         /\ CanCount(Files[a]) /\ CanCount(Files[b]) =>
              NumFacets(Files[a]) + NumFacets(Files[b]) <= MaxFacets
<1>1. /\ Files[a] \in InputFiles /\ (Files[a].lines > 0 => Files[a].newline)
      /\ CanCount(Files[a]) => NumFacets(Files[a]) + NumFacets(Files[a]) <= MaxFacets
      /\ CanCount(Files[a]) /\ CanCount(Files[b]) =>
           NumFacets(Files[a]) + NumFacets(Files[b]) <= MaxFacets
  BY FilesAssumption
<1>2. CanCount(Files[a]) => NumFacets(Files[a]) \in Nat
  BY <1>1, FoundType
<1>3. QED
  BY <1>1, <1>2, MaxFacetsAssumption

(* What a transformation that is asked for keeps of the mesh.               *)
TransformKeeps(m, t) ==
  /\ SameShape(m, t)
  /\ phase # "stretch" /\ (\A x \in Factors : x >= 0) /\ m.stl.number_of_facets # 0
       => (TightBox(m) => TightBox(t))
  /\ phase \in {"stretch", "translate-rel"} => (InBox(m) => InBox(t))
  /\ phase = "translate" => t.stats.min = opts.trans

(* Each transformation keeps what it should of the mesh.                    *)
LEMMA TransformedKeeps ==
  ASSUME mesh \in Meshes, WithValues(opts), phase \in Moves, Asked(phase)
  PROVE  TransformKeeps(mesh, Transformed)
<1>1. /\ opts.points[phase] \in Seq(Point) /\ Len(opts.points[phase]) = PointsIn(phase)
      /\ opts.trans \in Point
  BY DEF WithValues, Parsings, Asked
<1>2. 1 \in Axis /\ 2 \in Axis /\ 3 \in Axis
  BY DEF Axis
<1>3. CASE phase \in {"x-rotate", "y-rotate", "z-rotate"}
  <2>1. Measured(mesh, Transformed)
    <3>1. CASE phase = "x-rotate"
      <4>1. Transformed = RotateAbout(mesh, 2, 3)
        BY <3>1 DEF Transformed, RotateX
      <4>2. QED
        BY <4>1, RotationMeasures, TurnedPoint
    <3>2. CASE phase = "y-rotate"
      <4>1. Transformed = RotateAbout(mesh, 3, 1)
        BY <3>2 DEF Transformed, RotateY
      <4>2. QED
        BY <4>1, RotationMeasures, TurnedPoint
    <3>3. CASE phase = "z-rotate"
      <4>1. Transformed = RotateAbout(mesh, 1, 2)
        BY <3>3 DEF Transformed, RotateZ
      <4>2. QED
        BY <4>1, RotationMeasures, TurnedPoint
    <3>4. QED
      BY <1>3, <3>1, <3>2, <3>3
  <2>2. QED
    BY <1>3, <2>1 DEF Measured, TransformKeeps
<1>4. CASE phase \in {"xy-mirror", "yz-mirror", "xz-mirror"}
  <2>1. BoxKept(mesh, Transformed)
    <3>1. CASE phase = "xy-mirror"
      BY <1>2, <3>1, MirrorKeeps DEF Transformed
    <3>2. CASE phase = "yz-mirror"
      BY <1>2, <3>2, MirrorKeeps DEF Transformed
    <3>3. CASE phase = "xz-mirror"
      BY <1>2, <3>3, MirrorKeeps DEF Transformed
    <3>4. QED
      BY <1>4, <3>1, <3>2, <3>3
  <2>2. QED
    BY <1>4, <2>1 DEF BoxKept, TransformKeeps
<1>5. CASE phase \in {"scale", "scale-xyz"}
  <2>1. Transformed = ScaleVersor(mesh, Value)
    BY <1>5 DEF Transformed
  <2>2. Value \in Point
    <3>1. Len(opts.points[phase]) = 1
      BY <1>1, <1>5 DEF PointsIn
    <3>2. QED
      BY <1>1, <3>1 DEF Value
  <2>3. \A a \in Axis : Value[a] \in Factors
    <3>1. Factor(phase) = Value
      BY DEF Factor, Value
    <3>2. QED
      BY <1>5, <3>1 DEF Factors
  <2>4. /\ SameShape(mesh, Transformed)
        /\ (\A a \in Axis : Value[a] >= 0) => BoxKept(mesh, Transformed)
    BY <2>1, <2>2, ScaleKeeps
  <2>5. QED
    BY <1>5, <2>3, <2>4 DEF BoxKept, TransformKeeps
<1>6. CASE phase = "translate"
  <2>1. Transformed = Translate(mesh, opts.trans)
    BY <1>6 DEF Transformed
  <2>2. BoxKept(mesh, Transformed) /\ Transformed.stats.min = opts.trans
    BY <1>1, <2>1, TranslateKeeps
  <2>3. QED
    BY <1>6, <2>2 DEF BoxKept, TransformKeeps
<1>7. CASE phase = "translate-rel"
  <2>1. Transformed = TranslateRelative(mesh, opts.trans)
    BY <1>7 DEF Transformed
  <2>2. BoxKept(mesh, Transformed)
    BY <1>1, <2>1, TranslateRelativeKeeps
  <2>3. QED
    BY <1>7, <2>2 DEF BoxKept, TransformKeeps
<1>8. CASE phase = "stretch"
  <2> DEFINE low == Value
             high == opts.points[phase][2]
             offset == opts.points[phase][3]
  <2>1. Transformed = Stretch(mesh, low, high, offset)
    BY <1>8 DEF Transformed
  <2>2. offset \in Point
    <3>1. Len(opts.points[phase]) = 3
      BY <1>1, <1>8 DEF PointsIn
    <3>2. QED
      BY <1>1, <3>1
  <2> HIDE DEF low, high, offset
  <2>3. SameShape(mesh, Transformed) /\ (InBox(mesh) => InBox(Transformed))
    BY <2>1, <2>2, StretchKeeps
  <2>4. QED
    BY <1>8, <2>3 DEF TransformKeeps
<1>9. QED
  BY <1>3, <1>4, <1>5, <1>6, <1>7, <1>8 DEF Moves

(* The facets an output gets.                                               *)
LEMMA MeshSequence ==
  ASSUME mesh \in Meshes
  PROVE  Mesh \in Seq([Corner -> Point]) /\ Len(Mesh) = mesh.stl.number_of_facets
<1> DEFINE n == mesh.stl.number_of_facets
           rows == mesh.stl.facet_start
<1>1. n \in 0 .. MaxFacets /\ rows \in [Slot -> [Corner -> Point]]
  BY DEF Meshes, Structures
<1>2. n \in Nat /\ n <= MaxFacets
  BY <1>1, MaxFacetsAssumption
<1>3. Mesh = [k \in 1 .. n |-> rows[k - 1]]
  BY DEF Mesh
<1> HIDE DEF n, rows
<1>4. \A k \in 1 .. n : rows[k - 1] \in [Corner -> Point]
  <2>1. \A k \in 1 .. n : k - 1 \in Slot
    BY <1>2, MaxFacetsAssumption DEF Slot
  <2>2. QED
    BY <1>1, <2>1
<1>5. Mesh \in [1 .. n -> [Corner -> Point]]
  BY <1>3, <1>4
<1>6. Mesh \in Seq([Corner -> Point]) /\ Len(Mesh) = n
  BY <1>2, <1>5
<1>7. QED
  BY <1>6 DEF n

(* The mesh when main starts.                                               *)
LEMMA InitialMesh == Init => mesh \in Meshes
<1> SUFFICES ASSUME Init PROVE mesh \in Meshes
  OBVIOUS
<1> DEFINE stl == StlOpen(<<>>, [s \in Slot |-> Zero])
<1>1. PICK garbage \in Garbage :
        mesh = [stl |-> stl,
                stats |-> [min |-> garbage.min, max |-> garbage.max, size |-> Zero, diameter |-> 0],
                error |-> FALSE]
  BY DEF Init
<1>2. stl \in StlFiles
  <2>1. <<>> \in Seq(Facet) /\ Len(<<>>) <= MaxFacets
    BY MaxFacetsAssumption
  <2>2. [s \in Slot |-> Zero] \in [Slot -> Point]
    BY DEF Zero, Point
  <2>3. QED
    BY <2>1, <2>2, StlOpenType
<1>3. stl.heads = {}
  BY DEF StlOpen
<1> HIDE DEF stl
<1>4. stl \in Structures
  <2>1. \A x \in [Slot -> Facet] : x \in [Slot -> [Corner -> Point]]
    BY VertexAssumption DEF Facet
  <2>2. stl.facet_start \in [Slot -> [Corner -> Point]]
    BY <1>2, <2>1 DEF StlFiles
  <2>3. QED
    BY <1>2, <1>3, <2>2 DEF StlFiles, Structures
<1>5. garbage.min \in Point /\ garbage.max \in Point /\ Zero \in Point
  BY GarbageAssumption DEF Zero, Point
<1>6. QED
  BY <1>1, <1>4, <1>5 DEF Meshes, Dimensions

(* The types hold when main starts.                                         *)
LEMMA TypeInvInit == Init => TypeInv
<1> SUFFICES ASSUME Init PROVE TypeInv
  OBVIOUS
<1>1. argv \in CommandLines /\ optind = 0 /\ opts = NoOptions /\ phase = "parse"
      /\ passes = {} /\ shared = FALSE /\ written = [o \in Outputs |-> Nothing] /\ ret = 0
  BY DEF Init
<1>2. optind \in 0 .. Len(argv.options)
  BY <1>1, CommandLineOptions
<1>3. mesh \in Meshes
  BY InitialMesh
<1>4. written \in [Outputs -> Results]
  <2>1. <<>> \in Seq([Corner -> Point])
    OBVIOUS
  <2>2. Nothing \in Results
    BY <2>1 DEF Nothing, Results
  <2>3. QED
    BY <1>1, <2>2
<1>5. phase \notin Moves \cup {"merge"}
  BY <1>1 DEF Moves
<1>6. QED
  BY <1>1, <1>2, <1>3, <1>4, <1>5, NoOptionsValues DEF TypeInv

(* The phases.                                                              *)
LEMMA PhaseNames ==
  {Phases[k] : k \in DOMAIN Phases} =
    {"open"} \cup Moves \cup {"merge", "repair", "shared-vertices"} \cup Outputs \cup {"done"}
<1>1. DOMAIN Phases = 1 .. 21
  BY DEF Phases
<1>2. /\ Phases[1] = "open" /\ Phases[2] = "x-rotate" /\ Phases[3] = "y-rotate"
      /\ Phases[4] = "z-rotate" /\ Phases[5] = "xy-mirror" /\ Phases[6] = "yz-mirror"
      /\ Phases[7] = "xz-mirror" /\ Phases[8] = "scale" /\ Phases[9] = "scale-xyz"
      /\ Phases[10] = "translate" /\ Phases[11] = "stretch" /\ Phases[12] = "translate-rel"
      /\ Phases[13] = "merge" /\ Phases[14] = "repair" /\ Phases[15] = "shared-vertices"
      /\ Phases[16] = "write-off" /\ Phases[17] = "write-dxf" /\ Phases[18] = "write-vrml"
      /\ Phases[19] = "write-ascii-stl" /\ Phases[20] = "write-binary-stl"
      /\ Phases[21] = "done"
  BY DEF Phases
<1>3. /\ 1 \in 1 .. 21 /\ 2 \in 1 .. 21 /\ 3 \in 1 .. 21 /\ 4 \in 1 .. 21 /\ 5 \in 1 .. 21
      /\ 6 \in 1 .. 21 /\ 7 \in 1 .. 21 /\ 8 \in 1 .. 21 /\ 9 \in 1 .. 21 /\ 10 \in 1 .. 21
      /\ 11 \in 1 .. 21 /\ 12 \in 1 .. 21 /\ 13 \in 1 .. 21 /\ 14 \in 1 .. 21 /\ 15 \in 1 .. 21
      /\ 16 \in 1 .. 21 /\ 17 \in 1 .. 21 /\ 18 \in 1 .. 21 /\ 19 \in 1 .. 21 /\ 20 \in 1 .. 21
      /\ 21 \in 1 .. 21
  OBVIOUS
<1>4. \A k \in 1 .. 21 :
        \/ k = 1 \/ k = 2 \/ k = 3 \/ k = 4 \/ k = 5 \/ k = 6 \/ k = 7
        \/ k = 8 \/ k = 9 \/ k = 10 \/ k = 11 \/ k = 12 \/ k = 13 \/ k = 14
        \/ k = 15 \/ k = 16 \/ k = 17 \/ k = 18 \/ k = 19 \/ k = 20 \/ k = 21
  OBVIOUS
<1>5. ASSUME NEW p PROVE p \in {Phases[k] : k \in DOMAIN Phases} <=>
        p \in {"open"} \cup Moves \cup {"merge", "repair", "shared-vertices"} \cup Outputs \cup {"done"}
  <2>1. p \in {Phases[k] : k \in DOMAIN Phases} <=> \E k \in 1 .. 21 : p = Phases[k]
    BY <1>1
  <2>2. (\E k \in 1 .. 21 : p = Phases[k]) <=>
        \/ p = Phases[1] \/ p = Phases[2] \/ p = Phases[3] \/ p = Phases[4] \/ p = Phases[5]
        \/ p = Phases[6] \/ p = Phases[7] \/ p = Phases[8] \/ p = Phases[9] \/ p = Phases[10]
        \/ p = Phases[11] \/ p = Phases[12] \/ p = Phases[13] \/ p = Phases[14] \/ p = Phases[15]
        \/ p = Phases[16] \/ p = Phases[17] \/ p = Phases[18] \/ p = Phases[19] \/ p = Phases[20]
        \/ p = Phases[21]
    BY <1>3, <1>4
  <2>3. QED
    BY <1>2, <2>1, <2>2 DEF Moves, Outputs
<1>6. QED
  BY <1>5

(* Every step of main keeps them: until something is merged there is no     *)
(* error and the facets are those counted.                                  *)
LEMMA TypeInvNext == TypeInv /\ [Next]_vars => TypeInv'
<1> SUFFICES ASSUME TypeInv, [Next]_vars PROVE TypeInv'
  OBVIOUS
<1> USE PhaseNames
<1>1. /\ argv \in CommandLines /\ optind \in 0 .. Len(argv.options) /\ WithValues(opts)
      /\ phase \in {"parse", "exit"} \cup {Phases[k] : k \in DOMAIN Phases}
      /\ mesh \in Meshes /\ passes \subseteq Checks /\ shared \in BOOLEAN
      /\ written \in [Outputs -> Results] /\ ret \in {0, 1, Crashed}
      /\ phase \in Moves \cup {"merge"} =>
           /\ ~ mesh.error /\ CanCount(Input)
           /\ mesh.stl.number_of_facets = NumFacets(Input)
  BY DEF TypeInv
<1>2. CASE ParseOption
  <2>1. /\ phase = "parse" /\ optind < Len(argv.options)
        /\ opts' = Parsed(opts, argv.options[optind + 1]) /\ optind' = optind + 1
        /\ UNCHANGED <<argv, phase, mesh, passes, shared, written, ret>>
    BY <1>2 DEF ParseOption
  <2>2. argv.options \in Seq(Option) /\ optind + 1 \in 1 .. Len(argv.options)
        /\ optind + 1 \in 0 .. Len(argv.options)
    BY <1>1, <2>1, CommandLineOptions
  <2>3. IsOption(argv.options[optind + 1])
    BY <1>1, <2>2, CommandLineOptions
  <2>4. WithValues(opts')
    BY <1>1, <2>1, <2>3, ParsedValues
  <2>5. phase \notin Moves \cup {"merge"}
    BY <2>1 DEF Moves
  <2>6. QED
    BY <1>1, <2>1, <2>2, <2>4, <2>5 DEF TypeInv
<1>3. CASE \E code \in {0, 1, Crashed} : Exit(code)
  <2>1. /\ phase' = "exit" /\ ret' \in {0, 1, Crashed}
        /\ UNCHANGED <<argv, optind, opts, mesh, passes, shared, written>>
    BY <1>3 DEF Exit
  <2>2. phase' \notin Moves \cup {"merge"}
    BY <2>1 DEF Moves
  <2>3. QED
    BY <1>1, <2>1, <2>2 DEF TypeInv
<1>4. CASE EndOptions
  <2>1. /\ phase' = "open"
        /\ UNCHANGED <<argv, optind, opts, mesh, passes, shared, written, ret>>
    BY <1>4 DEF EndOptions
  <2>2. phase' \notin Moves \cup {"merge"}
    BY <2>1 DEF Moves
  <2>3. QED
    BY <1>1, <2>1, <2>2 DEF TypeInv
<1>5. CASE Open
  <2> DEFINE t == OpenFile(Input, mesh.stats)
  <2>1. /\ ~ t.error /\ mesh' = t /\ phase' = "x-rotate"
        /\ UNCHANGED <<argv, optind, opts, passes, shared, written, ret>>
    BY <1>5, PhasesInOrder DEF Open
  <2>2. Input \in InputFiles /\ (CanCount(Input) => NumFacets(Input) <= MaxFacets)
    BY <1>1, CommandLineOptions, FilesFit DEF Input
  <2>3. mesh.stats \in Dimensions
    BY <1>1 DEF Meshes
  <2>4. t \in Meshes /\ CanCount(Input) /\ t.stl.number_of_facets = NumFacets(Input)
    BY <2>1, <2>2, <2>3, OpenFileReads
  <2> HIDE DEF t
  <2>5. Input' = Input
    BY <2>1 DEF Input
  <2>6. phase' \in {Phases[k] : k \in DOMAIN Phases}
    BY <2>1 DEF Moves
  <2>7. QED
    BY <1>1, <2>1, <2>4, <2>5, <2>6 DEF TypeInv
<1>6. CASE Transform
  <2>1. /\ phase \in Moves /\ mesh' = (IF Asked(phase) THEN Transformed ELSE mesh)
        /\ phase' = Following(phase)
        /\ UNCHANGED <<argv, optind, opts, passes, shared, written, ret>>
    BY <1>6 DEF Transform
  <2>2. SameShape(mesh, mesh')
    <3>1. CASE Asked(phase)
      BY <1>1, <2>1, <3>1, TransformedKeeps DEF TransformKeeps
    <3>2. CASE ~ Asked(phase)
      BY <1>1, <2>1, <3>2 DEF SameShape
    <3>3. QED
      BY <3>1, <3>2
  <2>3. phase' \in Moves \cup {"merge"}
    BY <2>1, PhasesInOrder DEF Moves
  <2>4. Input' = Input
    BY <2>1 DEF Input
  <2>5. QED
    BY <1>1, <2>1, <2>2, <2>3, <2>4 DEF TypeInv, SameShape
<1>7. CASE Merge
  <2>1. /\ phase = "merge" /\ mesh' = (IF Asked("merge") THEN OpenMerge(mesh, ToMerge) ELSE mesh)
        /\ phase' = "repair"
        /\ UNCHANGED <<argv, optind, opts, passes, shared, written, ret>>
    BY <1>7, PhasesInOrder DEF Merge
  <2>2. mesh' \in Meshes
    <3>1. CASE Asked("merge")
      <4>1. /\ opts.file["merge"] \in DOMAIN Files /\ argv.file \in DOMAIN Files
        BY <1>1, <3>1, CommandLineOptions DEF WithValues, Asked
      <4>2. /\ ToMerge \in InputFiles
            /\ CanCount(ToMerge) => mesh.stl.number_of_facets + NumFacets(ToMerge) <= MaxFacets
        BY <1>1, <2>1, <4>1, FilesFit DEF Input, ToMerge
      <4>3. OpenMerge(mesh, ToMerge) \in Meshes
        BY <1>1, <4>2, OpenMergeReads
      <4>4. QED
        BY <2>1, <3>1, <4>3
    <3>2. CASE ~ Asked("merge")
      BY <1>1, <2>1, <3>2
    <3>3. QED
      BY <3>1, <3>2
  <2>3. phase' \notin Moves \cup {"merge"}
    BY <2>1 DEF Moves
  <2>4. QED
    BY <1>1, <2>1, <2>2, <2>3 DEF TypeInv
<1>8. CASE StlRepair
  <2>1. /\ phase' = "shared-vertices" /\ passes' = (IF mesh.error THEN {} ELSE Passes)
        /\ UNCHANGED <<argv, optind, opts, mesh, shared, written, ret>>
    BY <1>8, PhasesInOrder DEF StlRepair
  <2>2. phase' \notin Moves \cup {"merge"} /\ passes' \subseteq Checks
    BY <2>1 DEF Moves, Passes
  <2>3. QED
    BY <1>1, <2>1, <2>2 DEF TypeInv
<1>9. CASE GenerateSharedVertices
  <2>1. /\ phase' = "write-off"
        /\ shared' = SharesVertices
        /\ UNCHANGED <<argv, optind, opts, mesh, passes, written, ret>>
    BY <1>9, PhasesInOrder DEF GenerateSharedVertices
  <2>2. phase' \notin Moves \cup {"merge"} /\ phase' \in Outputs /\ shared' \in BOOLEAN
    BY <2>1 DEF Moves, Outputs, SharesVertices
  <2>3. QED
    BY <1>1, <2>1, <2>2 DEF TypeInv
<1>10. CASE Write
  <2> DEFINE fails == mesh.error \/ opts.file[phase] \in Unwritable
             result == [facets |-> Mesh, passes |-> passes]
  <2>1. /\ phase \in Outputs /\ phase' = Following(phase)
        /\ written' = IF Asked(phase) /\ ~ fails THEN [written EXCEPT ![phase] = result] ELSE written
        /\ mesh' = IF Asked(phase) THEN [mesh EXCEPT !.error = FALSE] ELSE mesh
        /\ ret' = IF Asked(phase) /\ fails THEN 1 ELSE ret
        /\ UNCHANGED <<argv, optind, opts, passes, shared>>
    BY <1>10 DEF Write
  <2>2. result \in Results
    BY <1>1, MeshSequence DEF Results
  <2> HIDE DEF fails, result
  <2>3. written' \in [Outputs -> Results]
    BY <1>1, <2>1, <2>2
  <2>4. mesh' \in Meshes
    BY <1>1, <2>1 DEF Meshes
  <2>5. ret' \in {0, 1, Crashed}
    BY <1>1, <2>1
  <2>6. phase' \in Outputs \cup {"done"} /\ phase' \notin Moves \cup {"merge"}
    BY <2>1, PhasesInOrder DEF Outputs, Moves
  <2>7. QED
    BY <1>1, <2>1, <2>3, <2>4, <2>5, <2>6 DEF TypeInv
<1>11. CASE UNCHANGED vars
  BY <1>1, <1>11 DEF TypeInv, vars, Input
<1>12. RefuseOption \/ HelpOrVersion \/ OpenFails \/ MergeCrash \/ RepairCrash \/ WalkCrash \/ WriteCrash
         => \E code \in {0, 1, Crashed} : Exit(code)
  BY DEF RefuseOption, HelpOrVersion, OpenFails, MergeCrash, RepairCrash, WalkCrash, WriteCrash
<1>13. ReadForever \/ WalkForever \/ Exited => UNCHANGED vars
  BY DEF ReadForever, WalkForever, Exited
<1>14. QED
  BY <1>2, <1>3, <1>4, <1>5, <1>6, <1>7, <1>8, <1>9, <1>10, <1>11, <1>12, <1>13 DEF Next

(* Options, mesh, phase and outputs keep their types from one end of main   *)
(* to the other, whatever the files are.                                    *)
THEOREM TypeCorrect == Spec => []TypeOK
<1>1. Init => TypeInv
  BY TypeInvInit
<1>2. TypeInv /\ [Next]_vars => TypeInv'
  BY TypeInvNext
<1>3. TypeInv => TypeOK
  BY TypeInvImplies
<1>4. QED
  BY <1>1, <1>2, <1>3, PTL DEF Spec

-----------------------------------------------------------------------------
(****************************************************************************)
(* The invariant: the printed dimensions.                                   *)
(****************************************************************************)
(* The place --translate moves to, while --translate-rel has not changed    *)
(* it.                                                                      *)
PlaceOf(o) ==
  "translate" \in o.asked /\ "translate-rel" \notin o.asked =>
    o.trans = o.points["translate"][1]

(* --stretch has been through.                                              *)
Stretched == Asked("stretch") /\ phase \in {"translate-rel", "merge", "repair"}

(* What the dimensions are good for: no factor is negative, and there is a  *)
(* mesh.                                                                    *)
CanMeasure == Found(Input) # <<>> /\ (\A x \in Factors : x >= 0)

(* The dimensions are tight until something is stretched, and enclose the   *)
(* mesh from then on.                                                       *)
BoxInv ==
  /\ PlaceOf(opts)
  /\ MovingOrMoved /\ CanMeasure /\ ~ mesh.error =>
       IF Stretched THEN InBox(mesh) ELSE TightBox(mesh)
  /\ phase = "stretch" /\ Asked("translate") => mesh.stats.min = opts.trans

(* There is nothing to measure when main starts.                            *)
LEMMA BoxInvInit == Init => BoxInv
<1> SUFFICES ASSUME Init PROVE BoxInv
  OBVIOUS
<1>1. phase = "parse" /\ opts = NoOptions
  BY DEF Init
<1>2. ~ MovingOrMoved /\ phase # "stretch"
  BY <1>1 DEF MovingOrMoved, Moves
<1>3. opts.asked = {}
  BY <1>1 DEF NoOptions
<1>4. QED
  BY <1>2, <1>3 DEF BoxInv, PlaceOf

(* Parsing sets the place.                                                  *)
LEMMA ParsedPlace ==
  ASSUME NEW o, WithValues(o), PlaceOf(o), NEW option, IsOption(option)
  PROVE  PlaceOf(Parsed(o, option))
<1> DEFINE name == option.name
           p == Parsed(o, option)
<1>1. WithValues(p)
  BY ParsedValues
<1>2. /\ p.asked = o.asked \cup {name}
      /\ p.points = IF name \in Moves THEN [o.points EXCEPT ![name] = option.points] ELSE o.points
      /\ p.trans = IF name \in {"translate", "translate-rel"} THEN option.points[1] ELSE o.trans
  BY DEF Parsed, WithValues, Parsings
<1>3. o.points \in [Moves -> Seq(Point)] /\ "translate" \in Moves
  BY DEF WithValues, Parsings, Moves
<1> HIDE DEF p, name
<1>4. SUFFICES ASSUME "translate" \in p.asked, "translate-rel" \notin p.asked
               PROVE  p.trans = p.points["translate"][1]
  BY DEF PlaceOf, p
<1>5. name # "translate-rel" /\ "translate-rel" \notin o.asked
  BY <1>2, <1>4
<1>6. CASE name = "translate"
  BY <1>2, <1>3, <1>6
<1>7. CASE name # "translate"
  <2>1. p.trans = o.trans /\ p.points["translate"] = o.points["translate"]
    BY <1>2, <1>3, <1>5, <1>7
  <2>2. "translate" \in o.asked
    BY <1>2, <1>4, <1>7
  <2>3. QED
    BY <1>5, <2>1, <2>2 DEF PlaceOf
<1>8. QED
  BY <1>6, <1>7

(* The tight box of a mesh encloses it.                                     *)
LEMMA TightIsIn == \A m : TightBox(m) => InBox(m)
BY DEF TightBox, InBox, IsBox, Encloses

(* Where there is something to measure, there are facets.                   *)
LEMMA FacetsToMeasure ==
  ASSUME TypeInv, Found(Input) # <<>>, CanCount(Input)
  PROVE  NumFacets(Input) # 0
<1>1. Input \in InputFiles
  BY CommandLineOptions, FilesFit DEF TypeInv, Input
<1>2. Found(Input) \in Seq(Facet) /\ Len(Found(Input)) <= NumFacets(Input)
      /\ NumFacets(Input) \in Nat
  BY <1>1, FoundType
<1>3. Len(Found(Input)) # 0
  BY <1>2
<1>4. QED
  BY <1>2, <1>3

(* Every step keeps the dimensions: opening sets them, each transformation  *)
(* moves them with the mesh, and merging widens them by what it reads.      *)
LEMMA BoxInvNext == TypeInv /\ TypeInv' /\ BoxInv /\ [Next]_vars => BoxInv'
<1> SUFFICES ASSUME TypeInv, TypeInv', BoxInv, [Next]_vars PROVE BoxInv'
  OBVIOUS
<1>1. PlaceOf(opts) /\ WithValues(opts) /\ mesh \in Meshes
  BY DEF TypeInv, BoxInv
<1>2. ASSUME UNCHANGED opts, phase' \notin Moves \cup {"merge", "repair"}
      PROVE  BoxInv'
  <2>1. ~ MovingOrMoved' /\ phase' # "stretch"
    BY <1>2 DEF MovingOrMoved, Moves
  <2>2. PlaceOf(opts)'
    BY <1>1, <1>2
  <2>3. QED
    BY <2>1, <2>2 DEF BoxInv
<1>3. CASE ParseOption
  <2>1. /\ phase = "parse" /\ optind < Len(argv.options) /\ phase' = phase
        /\ opts' = Parsed(opts, argv.options[optind + 1])
    BY <1>3 DEF ParseOption
  <2>2. IsOption(argv.options[optind + 1])
    <3>1. argv \in CommandLines /\ optind \in 0 .. Len(argv.options)
      BY DEF TypeInv
    <3>2. argv.options \in Seq(Option) /\ optind + 1 \in 1 .. Len(argv.options)
      BY <2>1, <3>1, CommandLineOptions
    <3>3. QED
      BY <3>1, <3>2, CommandLineOptions
  <2>3. PlaceOf(opts')
    BY <1>1, <2>1, <2>2, ParsedPlace
  <2>4. ~ MovingOrMoved' /\ phase' # "stretch"
    BY <2>1 DEF MovingOrMoved, Moves
  <2>5. QED
    BY <2>3, <2>4 DEF BoxInv
<1>4. CASE \E code : Exit(code)
  BY <1>2, <1>4 DEF Exit, Moves
<1>5. CASE EndOptions
  BY <1>2, <1>5 DEF EndOptions, Moves
<1>6. CASE Open
  <2> DEFINE t == OpenFile(Input, mesh.stats)
  <2>1. /\ ~ t.error /\ mesh' = t /\ phase' = "x-rotate"
        /\ UNCHANGED <<argv, opts>>
    BY <1>6, PhasesInOrder DEF Open
  <2>2. Input \in InputFiles /\ (CanCount(Input) => NumFacets(Input) <= MaxFacets)
    BY CommandLineOptions, FilesFit DEF Input, TypeInv
  <2>3. mesh.stats \in Dimensions
    BY <1>1 DEF Meshes
  <2>4. Found(Input) # <<>> => TightBox(t)
    BY <2>1, <2>2, <2>3, OpenFileReads
  <2>5. Input' = Input
    BY <2>1 DEF Input
  <2>6. CanMeasure' => TightBox(mesh')
    BY <2>1, <2>4, <2>5 DEF CanMeasure
  <2>7. ~ Stretched' /\ phase' # "stretch"
    BY <2>1 DEF Stretched
  <2>8. PlaceOf(opts')
    BY <1>1, <2>1
  <2> HIDE DEF t
  <2>9. QED
    BY <2>6, <2>7, <2>8 DEF BoxInv
<1>7. CASE Transform
  <2>1. /\ phase \in Moves /\ mesh' = (IF Asked(phase) THEN Transformed ELSE mesh)
        /\ phase' = Following(phase) /\ UNCHANGED <<argv, opts>>
    BY <1>7 DEF Transform
  <2>2. PlaceOf(opts')
    BY <1>1, <2>1
  <2>3. Asked(phase) => TransformKeeps(mesh, mesh')
    BY <1>1, <2>1, TransformedKeeps
  <2>4. ~ mesh.error /\ mesh.stl.number_of_facets = NumFacets(Input) /\ CanCount(Input)
    BY <2>1 DEF TypeInv
  <2>5. MovingOrMoved
    BY <2>1 DEF MovingOrMoved
  <2>6. CanMeasure' <=> CanMeasure
    BY <2>1 DEF CanMeasure, Input, Factors, Factor, Asked
  <2>7. CanMeasure => IF Stretched THEN InBox(mesh) ELSE TightBox(mesh)
    BY <2>4, <2>5 DEF BoxInv
  <2>8. CanMeasure => mesh.stl.number_of_facets # 0 /\ \A x \in Factors : x >= 0
    BY <2>4, FacetsToMeasure DEF CanMeasure
  <2>9. ASSUME CanMeasure' PROVE IF Stretched' THEN InBox(mesh') ELSE TightBox(mesh')
    <3>1. CASE ~ Asked(phase)
      <4>1. mesh' = mesh
        BY <2>1, <3>1
      <4>2. Stretched => Stretched'
        BY <2>1, PhasesInOrder DEF Stretched, Asked, Moves
      <4>3. QED
        BY <2>6, <2>7, <2>9, <4>1, <4>2, TightIsIn
    <3>2. CASE Asked(phase) /\ phase = "stretch"
      <4>1. ~ Stretched /\ Stretched'
        BY <2>1, <3>2, PhasesInOrder DEF Stretched, Asked
      <4>2. InBox(mesh)
        BY <2>6, <2>7, <2>9, <4>1, TightIsIn
      <4>3. QED
        BY <2>3, <3>2, <4>1, <4>2 DEF TransformKeeps
    <3>3. CASE Asked(phase) /\ phase = "translate-rel"
      <4>1. (Stretched <=> Asked("stretch")) /\ (Stretched' <=> Asked("stretch"))
        BY <2>1, <3>3, PhasesInOrder DEF Stretched, Asked
      <4>2. /\ TightBox(mesh) => TightBox(mesh')
            /\ InBox(mesh) => InBox(mesh')
        BY <2>3, <2>6, <2>8, <2>9, <3>3 DEF TransformKeeps
      <4>3. QED
        BY <2>6, <2>7, <2>9, <4>1, <4>2
    <3>4. CASE Asked(phase) /\ phase \notin {"stretch", "translate-rel"}
      <4>1. ~ Stretched /\ ~ Stretched'
        BY <2>1, <3>4, PhasesInOrder DEF Stretched, Asked, Moves
      <4>2. TightBox(mesh) => TightBox(mesh')
        BY <2>3, <2>6, <2>8, <2>9, <3>4 DEF TransformKeeps
      <4>3. QED
        BY <2>6, <2>7, <2>9, <4>1, <4>2
    <3>5. QED
      BY <3>1, <3>2, <3>3, <3>4
  <2>10. ASSUME phase' = "stretch", Asked("translate")' PROVE mesh'.stats.min = opts'.trans
    <3>1. phase = "translate"
      BY <2>1, <2>10, PhasesInOrder DEF Moves
    <3>2. Asked(phase)
      BY <2>1, <2>10, <3>1 DEF Asked
    <3>3. QED
      BY <2>1, <2>3, <3>1, <3>2 DEF TransformKeeps
  <2>11. QED
    BY <2>2, <2>9, <2>10 DEF BoxInv
<1>8. CASE Merge
  <2>1. /\ phase = "merge" /\ mesh' = (IF Asked("merge") THEN OpenMerge(mesh, ToMerge) ELSE mesh)
        /\ phase' = "repair" /\ UNCHANGED <<argv, opts>>
    BY <1>8, PhasesInOrder DEF Merge
  <2>2. PlaceOf(opts')
    BY <1>1, <2>1
  <2>3. ~ mesh.error /\ mesh.stl.number_of_facets = NumFacets(Input) /\ CanCount(Input)
    BY <2>1 DEF TypeInv
  <2>4. CanMeasure' <=> CanMeasure
    BY <2>1 DEF CanMeasure, Input, Factors, Factor, Asked
  <2>5. CanMeasure => IF Stretched THEN InBox(mesh) ELSE TightBox(mesh)
    BY <2>1, <2>3 DEF BoxInv, MovingOrMoved
  <2>6. Stretched' <=> Stretched
    BY <2>1 DEF Stretched, Asked
  <2>7. ~ mesh'.error => (TightBox(mesh) => TightBox(mesh')) /\ (InBox(mesh) => InBox(mesh'))
    <3>1. CASE Asked("merge")
      <4>1. /\ opts.file["merge"] \in DOMAIN Files /\ argv.file \in DOMAIN Files
        BY <1>1, <3>1, CommandLineOptions DEF WithValues, Asked, TypeInv
      <4>2. /\ ToMerge \in InputFiles
            /\ CanCount(ToMerge) => mesh.stl.number_of_facets + NumFacets(ToMerge) <= MaxFacets
        BY <2>3, <4>1, FilesFit DEF Input, ToMerge
      <4>3. mesh' = OpenMerge(mesh, ToMerge)
        BY <2>1, <3>1
      <4>4. QED
        BY <1>1, <4>2, <4>3, OpenMergeReads
    <3>2. CASE ~ Asked("merge")
      BY <2>1, <3>2
    <3>3. QED
      BY <3>1, <3>2
  <2>8. CanMeasure' /\ ~ mesh'.error => IF Stretched' THEN InBox(mesh') ELSE TightBox(mesh')
    BY <2>4, <2>5, <2>6, <2>7
  <2>9. phase' # "stretch"
    BY <2>1
  <2>10. QED
    BY <2>2, <2>8, <2>9 DEF BoxInv
<1>9. CASE StlRepair
  BY <1>2, <1>9, PhasesInOrder DEF StlRepair, Moves
<1>10. CASE GenerateSharedVertices
  BY <1>2, <1>10, PhasesInOrder DEF GenerateSharedVertices, Moves
<1>11. CASE Write
  <2>1. phase' \in Outputs \cup {"done"} /\ UNCHANGED opts
    BY <1>11, PhasesInOrder DEF Write, Outputs
  <2>2. QED
    BY <1>2, <2>1 DEF Outputs, Moves
<1>12. CASE UNCHANGED vars
  <2>1. UNCHANGED <<argv, opts, phase, mesh>>
    BY <1>12 DEF vars
  <2>2. QED
    BY <2>1 DEF BoxInv, PlaceOf, MovingOrMoved, CanMeasure, Stretched, Asked, Factors, Factor,
                Input, InBox, TightBox
<1>13. RefuseOption \/ HelpOrVersion \/ OpenFails \/ MergeCrash \/ RepairCrash \/ WalkCrash \/ WriteCrash
         => \E code : Exit(code)
  BY DEF RefuseOption, HelpOrVersion, OpenFails, MergeCrash, RepairCrash, WalkCrash, WriteCrash
<1>14. ReadForever \/ WalkForever \/ Exited => UNCHANGED vars
  BY DEF ReadForever, WalkForever, Exited
<1>15. QED
  BY <1>3, <1>4, <1>5, <1>6, <1>7, <1>8, <1>9, <1>10, <1>11, <1>12, <1>13, <1>14 DEF Next

(* A tight box is that of the least and greatest coordinates.               *)
LEMMA BoxInvImplies == TypeInv /\ BoxInv => BoundsExact /\ TranslatedToPlace
<1> SUFFICES ASSUME TypeInv, BoxInv PROVE BoundsExact /\ TranslatedToPlace
  OBVIOUS
<1> DEFINE P == AllCorners(mesh.stl)
           low == mesh.stats.min
           high == mesh.stats.max
<1>1. IsFiniteSet(P) /\ P \subseteq Point /\ low \in Point /\ high \in Point
  BY CornersOfStructure DEF TypeInv, Meshes, Dimensions
<1>2. InBox(mesh) => \A p \in P, a \in Axis : low[a] <= p[a] /\ p[a] <= high[a]
  BY DEF InBox, Encloses
<1>3. TightBox(mesh) => low = Least(P) /\ high = Greatest(P)
  <2>1. IsBox(P, low, high) => P # {}
    <3>1. 1 \in Axis
      BY DEF Axis
    <3>2. QED
      BY <3>1 DEF IsBox
  <2> HIDE DEF P, low, high
  <2>2. IsBox(P, low, high) => low = Least(P) /\ high = Greatest(P)
    BY <1>1, <2>1, BoxOf
  <2>3. QED
    BY <2>2 DEF TightBox, P, low, high
<1>4. BoundsExact
  <2> SUFFICES ASSUME MovingOrMoved, CanMeasure, ~ mesh.error
               PROVE  /\ \A p \in P, a \in Axis : low[a] <= p[a] /\ p[a] <= high[a]
                      /\ ~ Asked("stretch") => low = Least(P) /\ high = Greatest(P)
    BY DEF BoundsExact, CanMeasure
  <2>1. IF Stretched THEN InBox(mesh) ELSE TightBox(mesh)
    BY DEF BoxInv
  <2>2. InBox(mesh)
    BY <2>1, TightIsIn
  <2>3. ~ Asked("stretch") => TightBox(mesh)
    BY <2>1 DEF Stretched
  <2> HIDE DEF P, low, high
  <2>4. QED
    BY <1>2, <1>3, <2>2, <2>3
<1>5. TranslatedToPlace
  <2> SUFFICES ASSUME phase = "stretch", Asked("translate"), ~ Asked("translate-rel"), CanMeasure
               PROVE  Least(P) = opts.points["translate"][1]
    BY DEF TranslatedToPlace, CanMeasure
  <2>1. ~ mesh.error /\ MovingOrMoved /\ ~ Stretched
    BY DEF TypeInv, MovingOrMoved, Stretched, Moves
  <2>2. TightBox(mesh)
    BY <2>1 DEF BoxInv
  <2>3. low = opts.trans
    BY DEF BoxInv
  <2>4. opts.trans = opts.points["translate"][1]
    BY DEF BoxInv, PlaceOf, Asked
  <2>5. QED
    BY <1>3, <2>2, <2>3, <2>4
<1>6. QED
  BY <1>4, <1>5

(* The printed dimensions are those of the mesh, or enclose it once it is   *)
(* stretched, whatever it is put through, whatever its size is.             *)
THEOREM DimensionsKept == Spec => []BoundsExact
<1>1. Init => TypeInv /\ BoxInv
  BY TypeInvInit, BoxInvInit
<1>2. (TypeInv /\ BoxInv) /\ [Next]_vars => (TypeInv /\ BoxInv)'
  BY TypeInvNext, BoxInvNext
<1>3. TypeInv /\ BoxInv => BoundsExact
  BY BoxInvImplies
<1>4. QED
  BY <1>1, <1>2, <1>3, PTL DEF Spec

(* --translate puts the mesh where it says.                                 *)
THEOREM PlaceReached == Spec => []TranslatedToPlace
<1>1. Init => TypeInv /\ BoxInv
  BY TypeInvInit, BoxInvInit
<1>2. (TypeInv /\ BoxInv) /\ [Next]_vars => (TypeInv /\ BoxInv)'
  BY TypeInvNext, BoxInvNext
<1>3. TypeInv /\ BoxInv => TranslatedToPlace
  BY BoxInvImplies
<1>4. QED
  BY <1>1, <1>2, <1>3, PTL DEF Spec

-----------------------------------------------------------------------------
(****************************************************************************)
(* The invariant: the outputs.                                              *)
(****************************************************************************)
(* A file as a program writes it is counted and found whole.                *)
LEMMA ReadableFiles ==
  ASSUME NEW f \in InputFiles, Readable(f)
  PROVE  /\ CanCount(f) /\ Found(f) = f.facets /\ NumFacets(f) = Len(f.facets)
         /\ Len(f.facets) \in Nat
<1> DEFINE n == Len(f.facets)
<1>1. n \in Nat /\ f.size \in Nat /\ f.lines \in Nat /\ f.written \in {"ascii", "binary"}
  BY DEF InputFiles, StlType
<1>2. /\ f.exists /\ f.size >= HEADER_SIZE + ProbedBytes /\ Type(f) = f.written
      /\ IF f.written = "ascii" THEN f.lines - ASCII_LINES_PER_FACET * n \in {1, 2}
         ELSE /\ f.size = HEADER_SIZE + SIZEOF_STL_FACET * n
              /\ f.size >= STL_MIN_FILE_SIZE
  BY DEF Readable
<1> HIDE DEF n
<1>3. CASE f.written = "ascii"
  <2>1. f.lines - 7 * n \in {1, 2} /\ Type(f) # "binary"
    BY <1>2, <1>3 DEF ASCII_LINES_PER_FACET
  <2>2. (f.lines + 1) \div 7 = n
    BY <1>1, <2>1
  <2>3. CanCount(f) /\ NumFacets(f) = n
    BY <1>2, <2>1, <2>2 DEF CanCount, NumFacets, ASCII_LINES_PER_FACET
  <2>4. QED
    BY <1>1, <1>2, <2>3, FoundType DEF n
<1>4. CASE f.written = "binary"
  <2>1. f.size = 84 + 50 * n /\ f.size >= 284 /\ Type(f) = "binary"
    BY <1>2, <1>4 DEF HEADER_SIZE, SIZEOF_STL_FACET, STL_MIN_FILE_SIZE
  <2>2. (f.size - 84) % 50 = 0 /\ (f.size - 84) \div 50 = n
    BY <1>1, <2>1
  <2>3. CanCount(f) /\ NumFacets(f) = n
    BY <1>2, <2>1, <2>2
       DEF CanCount, NumFacets, RightSize, HEADER_SIZE, SIZEOF_STL_FACET, STL_MIN_FILE_SIZE
  <2>4. QED
    BY <1>1, <1>2, <2>3, FoundType DEF n
<1>5. QED
  BY <1>1, <1>3, <1>4

(* It has a line, by which it is not read forever, and its type is set.     *)
LEMMA ReadableNotEndless ==
  ASSUME NEW f \in InputFiles, Readable(f), f.lines > 0 => f.newline
  PROVE  ~ Endless(f) /\ ~ TypeUnset(f)
<1>1. f.size \in Nat /\ f.lines \in Nat
  BY DEF InputFiles
<1>2. f.size >= HEADER_SIZE + ProbedBytes
  BY DEF Readable
<1>3. ~ TypeUnset(f)
  BY <1>1, <1>2 DEF TypeUnset, HEADER_SIZE, ProbedBytes
<1>4. Type(f) = "ascii" => f.newline
  <2>1. SUFFICES ASSUME Type(f) = "ascii" PROVE f.lines > 0
    OBVIOUS
  <2>2. Type(f) = f.written /\ Len(f.facets) \in Nat
    BY ReadableFiles DEF Readable
  <2>3. f.lines - 7 * Len(f.facets) \in {1, 2}
    BY <2>1, <2>2 DEF Readable, ASCII_LINES_PER_FACET
  <2>4. QED
    BY <1>1, <2>2, <2>3
<1>5. QED
  BY <1>3, <1>4 DEF Endless

(* The command line asks for work on files that can be read, and along      *)
(* links only if they are set.                                              *)
Workable ==
  /\ ~ Asked("help") /\ ~ Asked("version")
  /\ Readable(Input) /\ (Asked("merge") => Readable(ToMerge))
  /\ (FollowsLinks => "exact" \in Passes)

(* The facets to merge.                                                     *)
Merged == IF Asked("merge") THEN ToMerge.facets ELSE <<>>

(* An output asked for that can be written, or that cannot.                 *)
Writable(o) == Asked(o) /\ opts.file[o] \notin Unwritable
Failing(o)  == Asked(o) /\ opts.file[o] \in Unwritable

(* The outputs before a phase.                                              *)
Past(p) ==
  CASE p = "write-off"        -> {}
    [] p = "write-dxf"        -> {"write-off"}
    [] p = "write-vrml"       -> {"write-off", "write-dxf"}
    [] p = "write-ascii-stl"  -> {"write-off", "write-dxf", "write-vrml"}
    [] p = "write-binary-stl" -> {"write-off", "write-dxf", "write-vrml", "write-ascii-stl"}
    [] OTHER                  -> Outputs

(* Outputs are being written, or all have been.                             *)
Writing == phase \in Outputs \cup {"done"}

(* What was written and returned so far.                                    *)
WrittenInv ==
  /\ \A o \in Past(phase) : Writable(o) => written[o] = [facets |-> Mesh, passes |-> Passes]
  /\ \A o \in Outputs : Failing(o) => written[o] = Nothing
  /\ ret = IF \E o \in Past(phase) : Failing(o) THEN 1 ELSE 0

(* If the command line is workable, main does not exit, and from the merge  *)
(* on the facets of both files are there, without an error; the passes      *)
(* asked for have been gone through before the shared vertices, which the   *)
(* outputs have that need them.                                             *)
OutInv ==
  /\ ~ Writing /\ phase # "exit" => ret = 0 /\ \A o \in Outputs : written[o] = Nothing
  /\ Workable =>
       /\ phase = "exit" => optind # Len(argv.options)
       /\ phase \in {"repair", "shared-vertices"} \/ Writing =>
            /\ ~ mesh.error
            /\ mesh.stl.number_of_facets = Len(Input.facets) + Len(Merged)
       /\ phase = "shared-vertices" \/ Writing => passes = Passes
       /\ Writing =>
            /\ Asked("write-off") \/ Asked("write-vrml") => shared
            /\ WrittenInv

(* Nothing is written when main starts.                                     *)
LEMMA OutInvInit == Init => OutInv
<1> SUFFICES ASSUME Init PROVE OutInv
  OBVIOUS
<1>1. phase = "parse" /\ ret = 0 /\ written = [o \in Outputs |-> Nothing]
  BY DEF Init
<1>2. ~ Writing /\ phase \notin {"repair", "shared-vertices", "exit"}
  BY <1>1 DEF Writing, Outputs
<1>3. QED
  BY <1>1, <1>2 DEF OutInv

(* Each output is past in the phase after it.                               *)
LEMMA PastFollows ==
  /\ Past("write-off") = {} /\ Past("done") = Outputs
  /\ \A p \in Outputs : Past(Following(p)) = Past(p) \cup {p} /\ Past(p) \subseteq Outputs
<1>1. Past("write-off") = {} /\ Past("done") = Outputs
  BY DEF Past
<1>2. Past(Following("write-off")) = Past("write-off") \cup {"write-off"}
  BY PhasesInOrder DEF Past
<1>3. Past(Following("write-dxf")) = Past("write-dxf") \cup {"write-dxf"}
  BY PhasesInOrder DEF Past
<1>4. Past(Following("write-vrml")) = Past("write-vrml") \cup {"write-vrml"}
  BY PhasesInOrder DEF Past
<1>5. Past(Following("write-ascii-stl")) = Past("write-ascii-stl") \cup {"write-ascii-stl"}
  BY PhasesInOrder DEF Past
<1>6. Past(Following("write-binary-stl")) = Past("write-binary-stl") \cup {"write-binary-stl"}
  BY PhasesInOrder DEF Past, Outputs
<1>7. \A p \in Outputs : Past(p) \subseteq Outputs
  BY DEF Past, Outputs
<1>8. QED
  BY <1>1, <1>2, <1>3, <1>4, <1>5, <1>6, <1>7 DEF Outputs

(* Opening what can be read reads all of it.                                *)
LEMMA ReadableOpens ==
  ASSUME TypeInv, Readable(Input)
  PROVE  /\ ~ OpenFile(Input, mesh.stats).error
         /\ CanCount(Input) /\ NumFacets(Input) = Len(Input.facets)
         /\ Found(Input) = Input.facets /\ Len(Input.facets) \in Nat
<1>1. Input \in InputFiles /\ (CanCount(Input) => NumFacets(Input) <= MaxFacets)
  BY CommandLineOptions, FilesFit DEF TypeInv, Input
<1>2. mesh.stats \in Dimensions
  BY DEF TypeInv, Meshes
<1>3. /\ CanCount(Input) /\ NumFacets(Input) = Len(Input.facets)
      /\ Found(Input) = Input.facets /\ Len(Input.facets) \in Nat
  BY <1>1, ReadableFiles
<1>4. Len(Found(Input)) >= NumFacets(Input)
  BY <1>3
<1>5. QED
  BY <1>1, <1>2, <1>3, <1>4, OpenFileReads

(* Merging what can be read adds all of it.                                 *)
LEMMA ReadableMerges ==
  ASSUME TypeInv, Asked("merge"), Readable(ToMerge), phase = "merge"
  PROVE  /\ ~ OpenMerge(mesh, ToMerge).error
         /\ OpenMerge(mesh, ToMerge).stl.number_of_facets =
              mesh.stl.number_of_facets + Len(ToMerge.facets)
<1>1. /\ opts.file["merge"] \in DOMAIN Files /\ argv.file \in DOMAIN Files
  BY CommandLineOptions DEF WithValues, Asked, TypeInv
<1>2. /\ ~ mesh.error /\ mesh.stl.number_of_facets = NumFacets(Input) /\ CanCount(Input)
      /\ mesh \in Meshes
  BY DEF TypeInv
<1>3. /\ ToMerge \in InputFiles
      /\ CanCount(ToMerge) => mesh.stl.number_of_facets + NumFacets(ToMerge) <= MaxFacets
  BY <1>1, <1>2, FilesFit DEF Input, ToMerge
<1>4. /\ CanCount(ToMerge) /\ NumFacets(ToMerge) = Len(ToMerge.facets)
      /\ Found(ToMerge) = ToMerge.facets /\ Len(ToMerge.facets) \in Nat
  BY <1>3, ReadableFiles
<1>5. Len(Found(ToMerge)) >= NumFacets(ToMerge)
  BY <1>4
<1>6. QED
  BY <1>2, <1>3, <1>4, <1>5, OpenMergeReads

(* Writing keeps the invariant: the phase joins those that are past.        *)
LEMMA WriteKeeps ==
  ASSUME TypeInv, OutInv, Workable, Write
  PROVE  /\ mesh' = mesh /\ WrittenInv'
<1>1. /\ phase \in Outputs /\ Writing
  BY DEF Write, Writing
<1>2. /\ ~ mesh.error /\ passes = Passes /\ WrittenInv
  BY <1>1 DEF OutInv
<1>3. mesh \in Meshes /\ written \in [Outputs -> Results]
  BY DEF TypeInv
<1>4. mesh.error = FALSE /\ passes = Passes
  BY <1>2, <1>3 DEF TypeInv, Meshes
<1>5. /\ phase' = Following(phase)
      /\ written' = IF Asked(phase) /\ opts.file[phase] \notin Unwritable
                    THEN [written EXCEPT ![phase] = [facets |-> Mesh, passes |-> Passes]]
                    ELSE written
      /\ mesh' = IF Asked(phase) THEN [mesh EXCEPT !.error = FALSE] ELSE mesh
      /\ ret' = IF Asked(phase) /\ opts.file[phase] \in Unwritable THEN 1 ELSE ret
      /\ UNCHANGED opts
  BY <1>4 DEF Write
<1>6. mesh' = mesh
  BY <1>3, <1>4, <1>5 DEF Meshes
<1>7. Mesh' = Mesh
  BY <1>6 DEF Mesh
<1>8. \A o : (Writable(o)' <=> Writable(o)) /\ (Failing(o)' <=> Failing(o))
  BY <1>5 DEF Writable, Failing, Asked
<1>8a. Passes' = Passes
  BY <1>5 DEF Passes, Asked
<1>9. /\ Writable(phase) <=> Asked(phase) /\ opts.file[phase] \notin Unwritable
      /\ Failing(phase) <=> Asked(phase) /\ opts.file[phase] \in Unwritable
  BY DEF Writable, Failing
<1>10. Past(phase') = Past(phase) \cup {phase} /\ Past(phase) \subseteq Outputs
  BY <1>1, <1>5, PastFollows
<1> DEFINE whole == [facets |-> Mesh, passes |-> Passes]
<1>11. /\ \A o \in Past(phase) : Writable(o) => written[o] = whole
       /\ \A o \in Outputs : Failing(o) => written[o] = Nothing
       /\ ret = IF \E o \in Past(phase) : Failing(o) THEN 1 ELSE 0
  BY <1>2 DEF WrittenInv
<1>12. /\ written' = IF Writable(phase) THEN [written EXCEPT ![phase] = whole] ELSE written
       /\ ret' = IF Failing(phase) THEN 1 ELSE ret
       /\ ~ (Writable(phase) /\ Failing(phase))
  BY <1>5, <1>9
<1> HIDE DEF whole
<1>13. \A o \in Past(phase') : Writable(o) => written'[o] = whole
  BY <1>1, <1>3, <1>10, <1>11, <1>12
<1>14. \A o \in Outputs : Failing(o) => written'[o] = Nothing
  BY <1>1, <1>3, <1>11, <1>12
<1>15. ret' = IF \E o \in Past(phase') : Failing(o) THEN 1 ELSE 0
  BY <1>10, <1>11, <1>12
<1>16. /\ \A o \in Past(phase') : Writable(o)' => written'[o] = [facets |-> Mesh', passes |-> Passes']
       /\ \A o \in Outputs : Failing(o)' => written'[o] = Nothing
       /\ ret' = IF \E o \in Past(phase') : Failing(o)' THEN 1 ELSE 0
  BY <1>7, <1>8, <1>8a, <1>13, <1>14, <1>15 DEF whole
<1>17. QED
  BY <1>6, <1>16 DEF WrittenInv, Nothing

(* Every step keeps this: a workable command line goes through without an   *)
(* error, up to the outputs that cannot be written.                         *)
LEMMA OutInvNext == TypeInv /\ TypeInv' /\ OutInv /\ [Next]_vars => OutInv'
<1> SUFFICES ASSUME TypeInv, TypeInv', OutInv, [Next]_vars PROVE OutInv'
  OBVIOUS
<1>1. ASSUME phase' \notin {"repair", "shared-vertices", "exit"} \cup Outputs \cup {"done"},
             phase \notin {"exit"} \cup Outputs \cup {"done"},
             UNCHANGED <<written, ret>>
      PROVE  OutInv'
  <2>1. ret' = 0 /\ \A o \in Outputs : written'[o] = Nothing
    BY <1>1 DEF OutInv, Writing
  <2>2. ~ Writing' /\ phase' \notin {"repair", "shared-vertices", "exit"}
    BY <1>1 DEF Writing
  <2>3. \A o \in Outputs : written'[o] = Nothing'
    BY <2>1 DEF Nothing
  <2>4. QED
    BY <2>1, <2>2, <2>3 DEF OutInv
<1>2. ASSUME NEW code, Exit(code), ~ (Workable /\ optind = Len(argv.options))
      PROVE  OutInv'
  <2>1. phase' = "exit" /\ UNCHANGED <<argv, optind, opts>>
    BY <1>2 DEF Exit
  <2>2. ~ Writing'
    BY <2>1 DEF Writing, Outputs
  <2>3. Workable' => optind' # Len(argv'.options)
    BY <1>2, <2>1 DEF Workable, Asked, Input, ToMerge, FollowsLinks, Passes
  <2>4. QED
    BY <2>1, <2>2, <2>3 DEF OutInv
<1>3. ASSUME UNCHANGED <<argv, opts>>
      PROVE  (Workable' <=> Workable) /\ Merged' = Merged /\ Input' = Input
             /\ (\A name : Asked(name)' <=> Asked(name)) /\ Passes' = Passes
  BY <1>3 DEF Workable, Merged, Asked, Input, ToMerge, FollowsLinks, Passes
<1>4. CASE ParseOption
  BY <1>1, <1>4 DEF ParseOption, Outputs
<1>5. CASE RefuseOption
  <2>1. Exit(1) /\ optind < Len(argv.options)
    BY <1>5 DEF RefuseOption
  <2>2. optind # Len(argv.options)
    BY <2>1 DEF TypeInv
  <2>3. QED
    BY <1>2, <2>1, <2>2
<1>6. CASE EndOptions
  BY <1>1, <1>6 DEF EndOptions, Outputs
<1>7. CASE HelpOrVersion
  BY <1>2, <1>7 DEF HelpOrVersion, Workable
<1>8. CASE Open
  BY <1>1, <1>8, PhasesInOrder DEF Open, Outputs
<1>9. CASE OpenFails
  <2>1. Exit(1) /\ OpenFile(Input, mesh.stats).error
    BY <1>9 DEF OpenFails
  <2>2. ~ Workable
    BY <2>1, ReadableOpens DEF Workable
  <2>3. QED
    BY <1>2, <2>1, <2>2
<1>10. CASE Transform
  <2>1. phase \in Moves /\ phase' = Following(phase) /\ UNCHANGED <<written, ret>>
    BY <1>10 DEF Transform
  <2>2. phase' \in Moves \cup {"merge"}
    BY <2>1, PhasesInOrder DEF Moves
  <2>3. /\ phase' \notin {"repair", "shared-vertices", "exit"} \cup Outputs \cup {"done"}
        /\ phase \notin {"exit"} \cup Outputs \cup {"done"}
    BY <2>1, <2>2 DEF Moves, Outputs
  <2>4. QED
    BY <1>1, <2>1, <2>3
<1>11. CASE Merge
  <2>1. /\ phase = "merge" /\ mesh' = (IF Asked("merge") THEN OpenMerge(mesh, ToMerge) ELSE mesh)
        /\ phase' = "repair" /\ UNCHANGED <<argv, opts, written, ret>>
    BY <1>11, PhasesInOrder DEF Merge
  <2>2. ret' = 0 /\ \A o \in Outputs : written'[o] = Nothing'
    BY <2>1 DEF OutInv, Writing, Outputs, Nothing
  <2>3. /\ ~ mesh.error /\ mesh.stl.number_of_facets = NumFacets(Input)
    BY <2>1 DEF TypeInv
  <2>4. ASSUME Workable
        PROVE  /\ ~ mesh'.error
               /\ mesh'.stl.number_of_facets = Len(Input.facets) + Len(Merged)
    <3>1. mesh.stl.number_of_facets = Len(Input.facets)
      BY <2>3, <2>4, ReadableOpens DEF Workable
    <3>2. mesh.stl.number_of_facets \in Nat
      BY MaxFacetsAssumption DEF TypeInv, Meshes, Structures
    <3>3. CASE Asked("merge")
      <4>1. Merged = ToMerge.facets
        BY <3>3 DEF Merged
      <4>2. QED
        BY <2>1, <2>4, <3>1, <3>3, <4>1, ReadableMerges DEF Workable
    <3>4. CASE ~ Asked("merge")
      <4>1. Len(Merged) = 0
        BY <3>4 DEF Merged
      <4>2. QED
        BY <2>1, <2>3, <3>1, <3>2, <3>4, <4>1
    <3>5. QED
      BY <3>3, <3>4
  <2>5. ~ Writing'
    BY <2>1 DEF Writing, Outputs
  <2>6. (Workable' <=> Workable) /\ Merged' = Merged /\ Input' = Input
        /\ Passes' = Passes
    BY <1>3, <2>1
  <2>7. Workable' => /\ ~ mesh'.error
                     /\ mesh'.stl.number_of_facets = Len(Input'.facets) + Len(Merged')
    BY <2>4, <2>6
  <2>8. QED
    BY <2>1, <2>2, <2>5, <2>7 DEF OutInv
<1>12. CASE MergeCrash
  <2>1. Exit(Crashed) /\ Asked("merge") /\ ~ ToMerge.exists
    BY <1>12 DEF MergeCrash
  <2>2. ~ Workable
    BY <2>1 DEF Workable, Readable
  <2>3. QED
    BY <1>2, <2>1, <2>2
<1>13. CASE StlRepair
  <2>1. /\ phase = "repair" /\ passes' = (IF mesh.error THEN {} ELSE Passes)
        /\ phase' = "shared-vertices"
        /\ UNCHANGED <<argv, opts, mesh, written, ret>>
    BY <1>13, PhasesInOrder DEF StlRepair
  <2>2. ~ Writing /\ ~ Writing'
    BY <2>1 DEF Writing, Outputs
  <2>3. ret' = 0 /\ \A o \in Outputs : written'[o] = Nothing'
    BY <2>1, <2>2 DEF OutInv, Nothing
  <2>4. (Workable' <=> Workable) /\ Merged' = Merged /\ Input' = Input
        /\ Passes' = Passes
    BY <1>3, <2>1
  <2>5. Workable => /\ ~ mesh.error
                    /\ mesh.stl.number_of_facets = Len(Input.facets) + Len(Merged)
    BY <2>1 DEF OutInv
  <2>6. Workable' => /\ ~ mesh'.error /\ passes' = Passes'
                     /\ mesh'.stl.number_of_facets = Len(Input'.facets) + Len(Merged')
    BY <2>1, <2>4, <2>5
  <2>7. QED
    BY <2>1, <2>2, <2>3, <2>6 DEF OutInv
<1>13a. CASE RepairCrash
  <2>1. Exit(Crashed) /\ "reverse-all" \in Passes /\ "exact" \notin Passes /\ GarbageLinks
    BY <1>13a DEF RepairCrash
  <2>2. Asked("reverse-all")
    BY <2>1 DEF Passes
  <2>3. Workable => Asked("merge")
    <3>1. SUFFICES ASSUME Workable, ~ Asked("merge") PROVE FALSE
      OBVIOUS
    <3>2. mesh.stl.number_of_facets = Len(Input.facets) + Len(Merged) /\ Len(Merged) = 0
      BY <1>13a, <3>1 DEF RepairCrash, OutInv, Merged
    <3>3. ZeroRows = Len(Input.facets) /\ Len(Input.facets) \in Nat
      BY <3>1, ReadableOpens DEF Workable, ZeroRows
    <3>4. QED
      BY <2>1, <3>2, <3>3 DEF GarbageLinks
  <2>4. ~ Workable
    BY <2>1, <2>2, <2>3 DEF Workable, FollowsLinks
  <2>5. QED
    BY <1>2, <2>1, <2>4
<1>14. CASE GenerateSharedVertices
  <2>1. /\ phase = "shared-vertices" /\ phase' = "write-off"
        /\ shared' = SharesVertices
        /\ UNCHANGED <<argv, opts, mesh, passes, written, ret>>
    BY <1>14, PhasesInOrder DEF GenerateSharedVertices
  <2>2. ~ Writing /\ Writing'
    BY <2>1 DEF Writing, Outputs
  <2>3. ret' = 0 /\ \A o \in Outputs : written'[o] = Nothing'
    BY <2>1, <2>2 DEF OutInv, Nothing
  <2>4. (Workable' <=> Workable) /\ Merged' = Merged /\ Input' = Input
        /\ (\A name : Asked(name)' <=> Asked(name)) /\ Passes' = Passes
    BY <1>3, <2>1
  <2>5. Workable => /\ ~ mesh.error /\ passes = Passes
                    /\ mesh.stl.number_of_facets = Len(Input.facets) + Len(Merged)
    BY <2>1 DEF OutInv
  <2>6. WrittenInv'
    <3>1. Past(phase') = {}
      BY <2>1, PastFollows
    <3>2. QED
      BY <2>3, <3>1 DEF WrittenInv
  <2>7. Workable' => /\ ~ mesh'.error /\ passes' = Passes'
                     /\ mesh'.stl.number_of_facets = Len(Input'.facets) + Len(Merged')
                     /\ Asked("write-off")' \/ Asked("write-vrml")' => shared'
    BY <2>1, <2>4, <2>5 DEF SharesVertices
  <2>8. QED
    BY <2>1, <2>2, <2>6, <2>7 DEF OutInv
<1>14a. CASE WalkCrash
  <2>1. Exit(Crashed) /\ phase = "shared-vertices" /\ SharesVertices /\ "exact" \notin passes
    BY <1>14a DEF WalkCrash
  <2>2. Workable => passes = Passes
    BY <2>1 DEF OutInv
  <2>3. Asked("write-off") \/ Asked("write-vrml")
    BY <2>1 DEF SharesVertices
  <2>4. ~ Workable
    BY <2>1, <2>2, <2>3 DEF Workable, FollowsLinks
  <2>5. QED
    BY <1>2, <2>1, <2>4
<1>15. CASE Write
  <2>1. /\ phase \in Outputs /\ phase' = Following(phase)
        /\ UNCHANGED <<argv, opts, passes, shared>>
    BY <1>15 DEF Write
  <2>2. phase' \in Outputs \cup {"done"}
    BY <2>1, PhasesInOrder DEF Outputs
  <2>3. Writing /\ Writing' /\ phase' # "exit"
    BY <2>1, <2>2 DEF Writing, Outputs
  <2>4. (Workable' <=> Workable) /\ Merged' = Merged /\ Input' = Input
        /\ (\A name : Asked(name)' <=> Asked(name)) /\ Passes' = Passes
    BY <1>3, <2>1
  <2>5. Workable => /\ ~ mesh.error /\ passes = Passes
                    /\ mesh.stl.number_of_facets = Len(Input.facets) + Len(Merged)
                    /\ Asked("write-off") \/ Asked("write-vrml") => shared
    BY <2>3 DEF OutInv
  <2>6. Workable => mesh' = mesh /\ WrittenInv'
    BY <1>15, WriteKeeps
  <2>7. Workable' => /\ ~ mesh'.error /\ passes' = Passes'
                     /\ mesh'.stl.number_of_facets = Len(Input'.facets) + Len(Merged')
                     /\ Asked("write-off")' \/ Asked("write-vrml")' => shared'
                     /\ WrittenInv'
    BY <2>1, <2>4, <2>5, <2>6
  <2>8. QED
    BY <2>3, <2>7 DEF OutInv
<1>16. CASE WriteCrash
  <2>1. Exit(Crashed) /\ phase = "write-vrml" /\ Asked("write-vrml") /\ ~ shared
    BY <1>16 DEF WriteCrash, VerticesMissing
  <2>2. Writing
    BY <2>1 DEF Writing, Outputs
  <2>3. ~ Workable
    BY <2>1, <2>2 DEF OutInv
  <2>4. QED
    BY <1>2, <2>1, <2>3
<1>17. CASE UNCHANGED vars
  <2>1. UNCHANGED <<argv, optind, opts, phase, mesh, passes, shared, written, ret>>
    BY <1>17 DEF vars
  <2>2. /\ (Workable' <=> Workable) /\ Merged' = Merged /\ Input' = Input
        /\ (Writing' <=> Writing) /\ (\A name : Asked(name)' <=> Asked(name))
        /\ Nothing' = Nothing /\ Passes' = Passes
    BY <1>3, <2>1 DEF Writing, Nothing
  <2>3. WrittenInv' <=> WrittenInv
    BY <2>1, <2>2 DEF WrittenInv, Writable, Failing, Asked, Mesh, Nothing
  <2>4. QED
    BY <2>1, <2>2, <2>3 DEF OutInv
<1>18. ReadForever \/ WalkForever \/ Exited => UNCHANGED vars
  BY DEF ReadForever, WalkForever, Exited
<1>19. QED
  BY <1>4, <1>5, <1>6, <1>7, <1>8, <1>9, <1>10, <1>11, <1>12, <1>13, <1>14, <1>15, <1>16,
     <1>13a, <1>14a, <1>17, <1>18 DEF Next

(* On a workable command line main is stuck nowhere, and when it is done    *)
(* all outputs are past.                                                    *)
LEMMA OutInvImplies == TypeInv /\ OutInv => OutputsWhole
<1> DEFINE whole == [facets |-> Mesh, passes |-> Passes]
<1> SUFFICES ASSUME TypeInv, OutInv, optind = Len(argv.options), Workable
             PROVE  /\ phase # "exit" /\ ~ ReadsForever /\ ~ WalksForever
                    /\ phase = "done" => (ret = 0 <=> \A o \in Outputs : Asked(o) =>
                         /\ written[o] = whole
                         /\ Len(Mesh) = Len(Input.facets) + Len(Merged))
  BY DEF OutputsWhole, Workable, Merged
<1>1. phase # "exit"
  BY DEF OutInv
<1>2. ~ ReadsForever
  <2>1. phase = "open" => ~ Endless(Input)
    <3>1. Input \in InputFiles /\ (Input.lines > 0 => Input.newline)
      BY CommandLineOptions, FilesFit DEF TypeInv, Input
    <3>2. QED
      BY <3>1, ReadableNotEndless DEF Workable
  <2>2. Asked("merge") => ~ Endless(ToMerge) /\ ~ TypeUnset(ToMerge)
    <3>1. SUFFICES ASSUME Asked("merge") PROVE ~ Endless(ToMerge) /\ ~ TypeUnset(ToMerge)
      OBVIOUS
    <3>2. opts.file["merge"] \in DOMAIN Files
      BY <3>1 DEF WithValues, Asked, TypeInv
    <3>3. ToMerge \in InputFiles /\ (ToMerge.lines > 0 => ToMerge.newline)
      BY <3>2, FilesFit DEF ToMerge
    <3>4. QED
      BY <3>1, <3>3, ReadableNotEndless DEF Workable
  <2>3. QED
    BY <2>1, <2>2 DEF ReadsForever
<1>3. ~ WalksForever
  BY DEF WalksForever, OutInv, Workable, FollowsLinks, SharesVertices
<1>4. ASSUME phase = "done"
      PROVE  ret = 0 <=> \A o \in Outputs : Asked(o) =>
               written[o] = whole /\ Len(Mesh) = Len(Input.facets) + Len(Merged)
  <2>1. Writing
    BY <1>4 DEF Writing
  <2>2. /\ mesh.stl.number_of_facets = Len(Input.facets) + Len(Merged)
        /\ WrittenInv
    BY <2>1 DEF OutInv
  <2>3. Len(Mesh) = Len(Input.facets) + Len(Merged)
    BY <2>2, MeshSequence DEF TypeInv
  <2>4. /\ \A o \in Outputs : Writable(o) => written[o] = whole
        /\ \A o \in Outputs : Failing(o) => written[o] = Nothing
        /\ ret = IF \E o \in Outputs : Failing(o) THEN 1 ELSE 0
    BY <1>4, <2>2, PastFollows DEF WrittenInv
  <2>5. Mesh # <<>>
    <3>1. Input \in InputFiles /\ Input.facets # <<>>
      BY CommandLineOptions, FilesFit DEF TypeInv, Input, Workable, Readable
    <3>2. Len(Input.facets) \in Nat /\ Len(Input.facets) # 0
      BY <3>1 DEF InputFiles
    <3>3. Len(Merged) \in Nat
      <4>1. CASE Asked("merge")
        <5>1. opts.file["merge"] \in DOMAIN Files
          BY <4>1 DEF WithValues, Asked, TypeInv
        <5>2. ToMerge \in InputFiles
          BY <5>1, FilesFit DEF ToMerge
        <5>3. QED
          BY <4>1, <5>2 DEF Merged, InputFiles
      <4>2. CASE ~ Asked("merge")
        BY <4>2 DEF Merged
      <4>3. QED
        BY <4>1, <4>2
    <3>4. Len(Mesh) # 0
      BY <2>3, <3>2, <3>3
    <3>5. QED
      BY <3>4
  <2>6. whole # Nothing
    <3>1. whole.facets = Mesh /\ Nothing.facets = <<>>
      BY DEF Nothing
    <3> HIDE DEF whole
    <3>2. QED
      BY <2>5, <3>1
  <2>7. \A o : Asked(o) <=> Writable(o) \/ Failing(o)
    BY DEF Writable, Failing
  <2> HIDE DEF whole
  <2>8. ret = 0 <=> \A o \in Outputs : Asked(o) => written[o] = whole
    BY <2>4, <2>6, <2>7
  <2>9. QED
    BY <2>3, <2>8
<1>5. QED
  BY <1>1, <1>2, <1>3, <1>4

(* From files as programs write them main neither crashes nor reads or      *)
(* walks forever, unless it follows links that no exact check has set, and  *)
(* it returns 0 if and only if every output asked for holds all of them,    *)
(* after the passes asked for.                                              *)
THEOREM OutputsComplete == Spec => []OutputsWhole
<1>1. Init => TypeInv /\ OutInv
  BY TypeInvInit, OutInvInit
<1>2. (TypeInv /\ OutInv) /\ [Next]_vars => (TypeInv /\ OutInv)'
  BY TypeInvNext, OutInvNext
<1>3. TypeInv /\ OutInv => OutputsWhole
  BY OutInvImplies
<1>4. QED
  BY <1>1, <1>2, <1>3, PTL DEF Spec

-----------------------------------------------------------------------------
(****************************************************************************)
(* The order of the options.                                                *)
(****************************************************************************)
(* The set of the first n options.                                          *)
Given(options, n) == {options[k] : k \in 1 .. n}

(* The two options with one set of variables.                               *)
Translations == {"translate", "translate-rel"}

(* No name is given twice, and only one translation.                        *)
Unambiguous(S) ==
  \A x, y \in S :
    x.name = y.name \/ {x.name, y.name} = Translations => x = y

(* What is asked for is the set of the names.                               *)
AskedFor(o, S) == \A name \in Names : name \in o.asked <=> \E x \in S : x.name = name

(* Flags and values follow from the set of the options.                     *)
Described(o, S) ==
  /\ o.fixall <=> \A x \in S : x.name \notin Checks
  /\ \A m \in Moves :
       /\ \A x \in S : x.name = m => o.points[m] = x.points
       /\ (\A x \in S : x.name # m) => o.points[m] = <<>>
  /\ \A x \in S : x.name \in Translations => o.trans = x.points[1]
  /\ (\A x \in S : x.name \notin Translations) => o.trans = Zero
  /\ \A f \in Outputs \cup {"merge"} :
       /\ \A x \in S : x.name = f => o.file[f] = x.file
       /\ (\A x \in S : x.name # f) => o.file[f] = ""

(* Nothing is described by no options.                                      *)
LEMMA NoneDescribed == AskedFor(NoOptions, {}) /\ Described(NoOptions, {})
<1>1. /\ NoOptions.fixall = TRUE /\ NoOptions.asked = {} /\ NoOptions.trans = Zero
      /\ NoOptions.points = [m \in Moves |-> <<>>]
      /\ NoOptions.file = [o \in Outputs \cup {"merge"} |-> ""]
  BY DEF NoOptions
<1>2. QED
  BY ZenonT(40), <1>1 DEF AskedFor, Described

(* One more option is one more in the set.                                  *)
LEMMA ParsedDescribed ==
  ASSUME NEW o, WithValues(o), NEW S, NEW y, IsOption(y)
  PROVE  /\ AskedFor(o, S) => AskedFor(Parsed(o, y), S \cup {y})
         /\ Described(o, S) /\ Unambiguous(S \cup {y}) => Described(Parsed(o, y), S \cup {y})
<1> DEFINE p == Parsed(o, y)
           T == S \cup {y}
<1>1. /\ o \in Parsings /\ p \in Parsings
  BY ParsedValues DEF WithValues
<1>2. DOMAIN o.file = Outputs \cup {"merge"} /\ DOMAIN o.points = Moves
  BY <1>1 DEF Parsings
<1>3. /\ p.asked = o.asked \cup {y.name}
      /\ p.fixall = (o.fixall /\ y.name \notin Checks)
      /\ p.points = IF y.name \in Moves THEN [o.points EXCEPT ![y.name] = y.points] ELSE o.points
      /\ p.trans = IF y.name \in Translations THEN y.points[1] ELSE o.trans
      /\ p.file = IF y.name \in Outputs \cup {"merge"} THEN [o.file EXCEPT ![y.name] = y.file] ELSE o.file
  BY <1>1, <1>2 DEF Parsed, Parsings, Translations
<1> HIDE DEF p
<1>4. /\ \A m \in Moves : p.points[m] = IF m = y.name THEN y.points ELSE o.points[m]
      /\ \A f \in Outputs \cup {"merge"} : p.file[f] = IF f = y.name THEN y.file ELSE o.file[f]
  BY <1>2, <1>3
<1>5. ASSUME AskedFor(o, S) PROVE AskedFor(p, T)
  BY <1>3, <1>5 DEF AskedFor
<1>6. ASSUME Described(o, S), Unambiguous(T) PROVE Described(p, T)
  <2>1. \A x \in S : x.name = y.name \/ {x.name, y.name} = Translations => x = y
    BY <1>6 DEF Unambiguous
  <2>2. p.fixall <=> \A x \in T : x.name \notin Checks
    BY <1>3, <1>6 DEF Described
  <2>3. ASSUME NEW m \in Moves
        PROVE  /\ \A x \in T : x.name = m => p.points[m] = x.points
               /\ (\A x \in T : x.name # m) => p.points[m] = <<>>
    <3>1. /\ \A x \in S : x.name = m => o.points[m] = x.points
          /\ (\A x \in S : x.name # m) => o.points[m] = <<>>
      BY <1>6 DEF Described
    <3>2. p.points[m] = IF m = y.name THEN y.points ELSE o.points[m]
      BY <1>4
    <3>3. QED
      BY <2>1, <3>1, <3>2
  <2>4. ASSUME NEW f \in Outputs \cup {"merge"}
        PROVE  /\ \A x \in T : x.name = f => p.file[f] = x.file
               /\ (\A x \in T : x.name # f) => p.file[f] = ""
    <3>1. /\ \A x \in S : x.name = f => o.file[f] = x.file
          /\ (\A x \in S : x.name # f) => o.file[f] = ""
      BY <1>6 DEF Described
    <3>2. p.file[f] = IF f = y.name THEN y.file ELSE o.file[f]
      BY <1>4
    <3>3. QED
      BY <2>1, <3>1, <3>2
  <2>5. ASSUME NEW x \in T, x.name \in Translations PROVE p.trans = x.points[1]
    <3>1. CASE y.name \in Translations
      <4>1. x = y
        BY <2>1, <2>5, <3>1 DEF Translations
      <4>2. QED
        BY <1>3, <3>1, <4>1
    <3>2. CASE y.name \notin Translations
      <4>1. x \in S
        BY <2>5, <3>2
      <4>2. QED
        BY <1>3, <1>6, <2>5, <3>2, <4>1 DEF Described
    <3>3. QED
      BY <3>1, <3>2
  <2>6. (\A x \in T : x.name \notin Translations) => p.trans = Zero
    BY <1>3, <1>6 DEF Described
  <2>7. QED
    BY <2>2, <2>3, <2>4, <2>5, <2>6 DEF Described
<1>7. QED
  BY <1>5, <1>6 DEF p

(* The same options leave the same.                                         *)
LEMMA DescribedOnce ==
  ASSUME NEW o \in Parsings, NEW p \in Parsings, NEW S,
         AskedFor(o, S), AskedFor(p, S), Described(o, S), Described(p, S)
  PROVE  o = p
<1>1. o.asked = p.asked
  <2>1. o.asked \subseteq Names /\ p.asked \subseteq Names
    BY DEF Parsings
  <2>2. QED
    BY <2>1 DEF AskedFor
<1>2. o.fixall = p.fixall
  <2>1. o.fixall \in BOOLEAN /\ p.fixall \in BOOLEAN /\ (o.fixall <=> p.fixall)
    BY DEF Parsings, Described
  <2>2. QED
    BY <2>1
<1>3. o.points = p.points
  <2>1. o.points \in [Moves -> Seq(Point)] /\ p.points \in [Moves -> Seq(Point)]
    BY DEF Parsings
  <2>2. ASSUME NEW m \in Moves PROVE o.points[m] = p.points[m]
    <3>1. CASE \A x \in S : x.name # m
      BY <3>1 DEF Described
    <3>2. CASE \E x \in S : x.name = m
      <4>1. PICK x \in S : x.name = m
        BY <3>2
      <4>2. o.points[m] = x.points /\ p.points[m] = x.points
        BY <4>1 DEF Described
      <4>3. QED
        BY <4>2
    <3>3. QED
      BY <3>1, <3>2
  <2>3. QED
    BY <2>1, <2>2
<1>4. o.trans = p.trans
  <2>1. CASE \A x \in S : x.name \notin Translations
    BY <2>1 DEF Described
  <2>2. CASE \E x \in S : x.name \in Translations
    <3>1. PICK x \in S : x.name \in Translations
      BY <2>2
    <3>2. o.trans = x.points[1] /\ p.trans = x.points[1]
      BY <3>1 DEF Described
    <3>3. QED
      BY <3>2
  <2>3. QED
    BY <2>1, <2>2
<1>5. o.file = p.file
  <2>1. /\ o.file \in [Outputs \cup {"merge"} -> FileNames]
        /\ p.file \in [Outputs \cup {"merge"} -> FileNames]
    BY DEF Parsings
  <2>2. ASSUME NEW f \in Outputs \cup {"merge"} PROVE o.file[f] = p.file[f]
    <3>1. CASE \A x \in S : x.name # f
      BY <3>1 DEF Described
    <3>2. CASE \E x \in S : x.name = f
      <4>1. PICK x \in S : x.name = f
        BY <3>2
      <4>2. o.file[f] = x.file /\ p.file[f] = x.file
        BY <4>1 DEF Described
      <4>3. QED
        BY <4>2
    <3>3. QED
      BY <3>1, <3>2
  <2>3. QED
    BY <2>1, <2>2
<1>6. QED
  BY <1>1, <1>2, <1>3, <1>4, <1>5 DEF Parsings

(* One more option.                                                         *)
LEMMA GivenNext ==
  ASSUME NEW options, NEW n \in Nat
  PROVE  Given(options, n + 1) = Given(options, n) \cup {options[n + 1]}
<1>1. 1 .. (n + 1) = 1 .. n \cup {n + 1}
  OBVIOUS
<1>2. QED
  BY <1>1 DEF Given

(* Parsing them all leaves what is described by them all.                   *)
LEMMA ParseAllDescribed ==
  ASSUME NEW options \in Seq(Option), \A k \in 1 .. Len(options) : IsOption(options[k]),
         Unambiguous(Given(options, Len(options)))
  PROVE  LET o == ParseAll(options)
             S == Given(options, Len(options))
         IN  o \in Parsings /\ AskedFor(o, S) /\ Described(o, S)
<1> DEFINE N == Len(options)
           Step(g) == [k \in 0 .. N |-> IF k = 0 THEN NoOptions ELSE Parsed(g[k - 1], options[k])]
           parsed == CHOOSE g : g = Step(g)
           V == {o \in Parsings : WithValues(o)}
<1>1. ParseAll(options) = parsed[N]
  BY DEF ParseAll
<1>2. N \in Nat
  OBVIOUS
<1>3. \A k \in 1 .. N : IsOption(options[k])
  OBVIOUS
<1>4. \A o : WithValues(o) <=> o \in V
  BY DEF WithValues
<1>5. Unambiguous(Given(options, N))
  OBVIOUS
<1> HIDE DEF N, V
<1>6. \E g : g = Step(g)
  <2> DEFINE F == [x \in V \X (0 .. N - 1) |-> Parsed(x[1], options[x[2] + 1])]
  <2>1. \A x \in V, n \in 0 .. N - 1 : Parsed(x, options[n + 1]) \in V
    <3>1. \A n \in 0 .. N - 1 : n + 1 \in 1 .. N
      BY <1>2
    <3>2. \A n \in 0 .. N - 1 : IsOption(options[n + 1])
      BY <1>3, <3>1
    <3>3. QED
      BY <1>4, <3>2, ParsedValues
  <2>2. F \in [V \X (0 .. N - 1) -> V]
    <3>1. \A x \in V \X (0 .. N - 1) : Parsed(x[1], options[x[2] + 1]) \in V
      BY <2>1
    <3>2. QED
      BY <3>1, Zenon
  <2>3. \A x \in V, n \in 0 .. N - 1 : F[<<x, n>>] = Parsed(x, options[n + 1])
    OBVIOUS
  <2> HIDE DEF F
  <2>4. NoOptions \in V
    BY <1>4, NoOptionsValues
  <2>5. PICK g : StepsOf(F, NoOptions, V, N, g)
    BY <1>2, <2>2, <2>4, RecursionExists
  <2>6. /\ g \in [0 .. N -> V] /\ g[0] = NoOptions
        /\ \A n \in 1 .. N : g[n] = F[<<g[n - 1], n - 1>>]
    BY <2>5 DEF StepsOf
  <2>7. ASSUME NEW n \in 1 .. N PROVE g[n] = Parsed(g[n - 1], options[n])
    <3>1. n - 1 \in 0 .. N - 1 /\ n - 1 \in 0 .. N /\ (n - 1) + 1 = n
      BY <1>2
    <3>2. g[n - 1] \in V
      BY <2>6, <3>1
    <3>3. g[n] = Parsed(g[n - 1], options[(n - 1) + 1])
      BY <2>3, <2>6, <3>1, <3>2
    <3>4. QED
      BY <3>1, <3>3
  <2>8. \A n \in 0 .. N : g[n] = IF n = 0 THEN NoOptions ELSE Parsed(g[n - 1], options[n])
    <3>1. \A n \in 0 .. N : n = 0 \/ n \in 1 .. N
      BY <1>2
    <3>2. QED
      BY <2>6, <2>7, <3>1
  <2>9. g = Step(g)
    BY <2>6, <2>8
  <2>10. QED
    BY <2>9
<1>7. parsed = Step(parsed)
  BY <1>6
<1> HIDE DEF parsed
<1>8. parsed[0] = NoOptions
  BY <1>2, <1>7
<1>9. \A n \in 1 .. N : parsed[n] = Parsed(parsed[n - 1], options[n])
  BY <1>2, <1>7
<1> DEFINE Fine(n) == /\ WithValues(parsed[n])
                      /\ AskedFor(parsed[n], Given(options, n))
                      /\ Described(parsed[n], Given(options, n))
           Wrong == {n \in Nat : n <= N /\ ~ Fine(n)}
<1>10. Wrong = {}
  <2> SUFFICES ASSUME Wrong # {} PROVE FALSE
    OBVIOUS
  <2>1. PICK m \in Wrong : \A k \in Wrong : m <= k
    <3>1. Wrong \subseteq Nat
      OBVIOUS
    <3> HIDE DEF Wrong
    <3>2. QED
      BY <3>1, LeastNatural
  <2>2. m \in Nat /\ m <= N /\ ~ Fine(m)
    OBVIOUS
  <2>3. Fine(0)
    <3>1. Given(options, 0) = {}
      BY DEF Given
    <3>2. QED
      BY <1>8, <3>1, NoOptionsValues, NoneDescribed
  <2> HIDE DEF Fine
  <2>4. m \in 1 .. N
    BY <1>2, <2>2, <2>3
  <2>5. Fine(m - 1)
    <3>1. m - 1 \in Nat /\ m - 1 <= N /\ ~ (m <= m - 1)
      BY <1>2, <2>4
    <3>2. m - 1 \notin Wrong
      <4> HIDE DEF Wrong
      <4>1. QED
        BY <2>1, <3>1
    <3>3. QED
      BY <3>1, <3>2
  <2> HIDE DEF Wrong
  <2>6. Given(options, m) = Given(options, m - 1) \cup {options[m]}
    <3>1. m - 1 \in Nat /\ (m - 1) + 1 = m
      BY <1>2, <2>4
    <3>2. QED
      BY <3>1, GivenNext
  <2>7. Unambiguous(Given(options, m))
    <3>1. Given(options, m) \subseteq Given(options, N)
      BY <1>2, <2>4 DEF Given
    <3>2. QED
      BY <1>5, <3>1 DEF Unambiguous
  <2>8. parsed[m] = Parsed(parsed[m - 1], options[m]) /\ IsOption(options[m])
    BY <1>3, <1>9, <2>4
  <2>9. Fine(m)
    <3>1. /\ WithValues(parsed[m - 1])
          /\ AskedFor(parsed[m - 1], Given(options, m - 1))
          /\ Described(parsed[m - 1], Given(options, m - 1))
      BY <2>5 DEF Fine
    <3>2. WithValues(parsed[m])
      BY <2>8, <3>1, ParsedValues
    <3>3. /\ AskedFor(parsed[m], Given(options, m))
          /\ Described(parsed[m], Given(options, m))
      BY <2>6, <2>7, <2>8, <3>1, ParsedDescribed
    <3>4. QED
      BY <3>2, <3>3 DEF Fine
  <2>10. QED
    BY <2>2, <2>9
<1>11. Fine(N)
  <2> HIDE DEF Fine
  <2>1. QED
    BY <1>2, <1>10
<1>12. QED
  BY <1>1, <1>11 DEF WithValues, N

(* The options parsed so far describe the flags and values: until the file  *)
(* is opened, which is when all of them are.                                *)
ParseInv ==
  /\ phase = "open" => optind = Len(argv.options)
  /\ phase \in {"parse", "open"} =>
       LET S == Given(argv.options, optind)
       IN  /\ AskedFor(opts, S)
           /\ Unambiguous(S) => Described(opts, S)

(* It holds before the first option.                                        *)
LEMMA ParseInvInit == Init => ParseInv
<1> SUFFICES ASSUME Init PROVE ParseInv
  OBVIOUS
<1>1. phase = "parse" /\ optind = 0 /\ opts = NoOptions
  BY DEF Init
<1>2. Given(argv.options, 0) = {}
  BY DEF Given
<1>3. QED
  BY <1>1, <1>2, NoneDescribed DEF ParseInv

(* Parsing an option keeps it.                                              *)
LEMMA ParseInvNext == TypeInv /\ ParseInv /\ [Next]_vars => ParseInv'
<1> SUFFICES ASSUME TypeInv, ParseInv, [Next]_vars PROVE ParseInv'
  OBVIOUS
<1>1. ASSUME phase' \notin {"parse", "open"} PROVE ParseInv'
  BY <1>1 DEF ParseInv
<1>2. CASE ParseOption
  <2> DEFINE S == Given(argv.options, optind)
             y == argv.options[optind + 1]
  <2>1. /\ phase = "parse" /\ optind < Len(argv.options) /\ phase' = phase
        /\ opts' = Parsed(opts, y) /\ optind' = optind + 1 /\ argv' = argv
    BY <1>2 DEF ParseOption
  <2>2. argv \in CommandLines /\ optind \in Nat /\ optind \in 0 .. Len(argv.options)
        /\ WithValues(opts)
    BY DEF TypeInv
  <2>3. IsOption(y)
    <3>1. argv.options \in Seq(Option) /\ optind + 1 \in 1 .. Len(argv.options)
      BY <2>1, <2>2, CommandLineOptions
    <3>2. QED
      BY <2>2, <3>1, CommandLineOptions
  <2>4. Given(argv'.options, optind') = S \cup {y}
    BY <2>1, <2>2, GivenNext
  <2>5. AskedFor(opts, S) /\ (Unambiguous(S) => Described(opts, S))
    BY <2>1 DEF ParseInv
  <2>6. Unambiguous(S \cup {y}) => Unambiguous(S)
    BY DEF Unambiguous
  <2> HIDE DEF S, y
  <2>7. AskedFor(opts', S \cup {y})
        /\ (Unambiguous(S \cup {y}) => Described(opts', S \cup {y}))
    BY <2>1, <2>2, <2>3, <2>5, <2>6, ParsedDescribed
  <2>8. phase' # "open"
    BY <2>1
  <2>9. QED
    BY <2>4, <2>7, <2>8 DEF ParseInv
<1>3. CASE EndOptions
  <2>1. /\ phase = "parse" /\ optind = Len(argv.options)
        /\ UNCHANGED <<argv, optind, opts>>
    BY <1>3 DEF EndOptions
  <2>2. LET S == Given(argv.options, optind)
        IN  /\ AskedFor(opts, S)
            /\ Unambiguous(S) => Described(opts, S)
    BY <2>1 DEF ParseInv
  <2>3. QED
    BY <2>1, <2>2 DEF ParseInv
<1>4. CASE UNCHANGED vars
  <2>1. UNCHANGED <<argv, optind, opts, phase>>
    BY <1>4 DEF vars
  <2>2. QED
    BY <2>1 DEF ParseInv
<1>5. Open \/ Transform \/ Merge \/ StlRepair \/ GenerateSharedVertices \/ Write
        => phase' \notin {"parse", "open"}
  <2>1. \A p \in {"open"} \cup Moves \cup {"merge", "repair", "shared-vertices"} \cup Outputs :
          Following(p) \notin {"parse", "open"}
    BY PhasesInOrder DEF Moves, Outputs
  <2>2. QED
    BY <2>1 DEF Open, Transform, Merge, StlRepair, GenerateSharedVertices, Write
<1>6. RefuseOption \/ HelpOrVersion \/ OpenFails \/ MergeCrash \/ RepairCrash \/ WalkCrash \/ WriteCrash
        => phase' \notin {"parse", "open"}
  BY DEF RefuseOption, HelpOrVersion, OpenFails, MergeCrash, RepairCrash, WalkCrash, WriteCrash, Exit
<1>7. ReadForever \/ WalkForever \/ Exited => UNCHANGED vars
  BY DEF ReadForever, WalkForever, Exited
<1>8. QED
  BY <1>1, <1>2, <1>3, <1>4, <1>5, <1>6, <1>7 DEF Next

(* Reordered options are the same set of options.                           *)
LEMMA ReorderedGiven ==
  ASSUME NEW options \in Reordered, argv \in CommandLines
  PROVE  /\ options \in Seq(Option) /\ Len(options) = Len(argv.options)
         /\ \A k \in 1 .. Len(options) : IsOption(options[k])
         /\ Given(options, Len(options)) = Given(argv.options, Len(argv.options))
<1> DEFINE N == Len(argv.options)
           D == 1 .. N
           given == argv.options
<1>1. given \in Seq(Option) /\ N \in Nat /\ DOMAIN given = D
      /\ \A k \in D : IsOption(given[k]) /\ given[k] \in Option
  BY CommandLineOptions DEF IsOption
<1>2. PICK p \in Maps!Bijection(D, D) : options = [k \in D |-> given[p[k]]]
  BY <1>1 DEF Reordered
<1>3. p \in [D -> D] /\ \A t \in D : \E s \in D : p[s] = t
  BY DEF Maps!Bijection, Maps!Injection, Maps!Surjection
<1> HIDE DEF given, D
<1>4. options \in [D -> Option] /\ \A k \in D : IsOption(options[k])
  BY <1>1, <1>2, <1>3
<1>5. options \in Seq(Option) /\ Len(options) = N
  BY <1>1, <1>4 DEF D
<1>6. {options[k] : k \in D} = {given[k] : k \in D}
  <2>1. \A k \in D : options[k] = given[p[k]] /\ p[k] \in D
    BY <1>2, <1>3
  <2>2. QED
    BY <1>3, <2>1
<1>7. QED
  BY <1>4, <1>5, <1>6 DEF Given, D, given

(* The options describe what they leave in whatever order they are given.   *)
LEMMA ParseInvImplies == TypeInv /\ ParseInv => OrderIrrelevantElsewhere
<1> SUFFICES ASSUME TypeInv, ParseInv, phase = "open", NoneRepeated,
                    ~ {"translate", "translate-rel"} \subseteq opts.asked,
                    NEW options \in Reordered
             PROVE  ParseAll(options) = opts
  BY DEF OrderIrrelevantElsewhere
<1> DEFINE N == Len(argv.options)
           S == Given(argv.options, N)
<1>1. argv \in CommandLines /\ opts \in Parsings
  BY DEF TypeInv, WithValues
<1>2. argv.options \in Seq(Option) /\ N \in Nat /\ DOMAIN argv.options = 1 .. N
  BY <1>1, CommandLineOptions
<1>3. AskedFor(opts, S) /\ (Unambiguous(S) => Described(opts, S))
  BY DEF ParseInv
<1>4. Unambiguous(S)
  <2>1. SUFFICES ASSUME NEW j \in 1 .. N, NEW k \in 1 .. N,
                        \/ argv.options[j].name = argv.options[k].name
                        \/ {argv.options[j].name, argv.options[k].name} = Translations
                 PROVE  argv.options[j] = argv.options[k]
    BY DEF Unambiguous, Given
  <2>2. CASE argv.options[j].name = argv.options[k].name
    BY <1>2, <2>2 DEF NoneRepeated
  <2>3. CASE {argv.options[j].name, argv.options[k].name} = Translations
    <3>1. argv.options[j] \in S /\ argv.options[k] \in S
      BY DEF Given
    <3>2. "translate" \in Names /\ "translate-rel" \in Names
      BY DEF Names, Moves
    <3>3. \A name \in Translations : \E x \in S : x.name = name
      BY <2>3, <3>1
    <3> HIDE DEF S
    <3>4. "translate" \in opts.asked /\ "translate-rel" \in opts.asked
      BY <1>3, <3>2, <3>3 DEF AskedFor, Translations
    <3>5. QED
      BY <3>4
  <2>4. QED
    BY <2>1, <2>2, <2>3
<1>5. /\ options \in Seq(Option) /\ \A k \in 1 .. Len(options) : IsOption(options[k])
      /\ Given(options, Len(options)) = S
  BY <1>1, ReorderedGiven
<1> HIDE DEF S
<1>6. /\ ParseAll(options) \in Parsings
      /\ AskedFor(ParseAll(options), S) /\ Described(ParseAll(options), S)
  BY <1>4, <1>5, ParseAllDescribed
<1>7. QED
  BY <1>1, <1>3, <1>4, <1>6, DescribedOnce

(* However many options there are, what they mean does not depend on their  *)
(* order, unless one is repeated or both translations are given.            *)
THEOREM OrderIsIrrelevant == Spec => []OrderIrrelevantElsewhere
<1>1. Init => TypeInv /\ ParseInv
  BY TypeInvInit, ParseInvInit
<1>2. (TypeInv /\ ParseInv) /\ [Next]_vars => (TypeInv /\ ParseInv)'
  BY TypeInvNext, ParseInvNext
<1>3. TypeInv /\ ParseInv => OrderIrrelevantElsewhere
  BY ParseInvImplies
<1>4. QED
  BY <1>1, <1>2, <1>3, PTL DEF Spec

=============================================================================
