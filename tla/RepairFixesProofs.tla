------------------------- MODULE RepairFixesProofs -------------------------
(****************************************************************************)
(* Proofs about the passes of Repair that go over the connected mesh.       *)
(*                                                                          *)
(* The first part is about stl_fix_normal_directions: its list reaches      *)
(* every facet of a part and no other, so the parts are counted right; and  *)
(* the facets it turns are those that disagree with the first facet of      *)
(* their part, so the directions agree and follow the normals.  The         *)
(* neighbour list is a graph whose edges say whether the two facets agree.  *)
(* A part is a smallest closed set of facets; a choice of the facets still  *)
(* to be turned is an orientation.  First comes what turning a facet does   *)
(* to both, then the invariant of the pass.                                 *)
(*                                                                          *)
(* The second part is about stl_generate_shared_vertices: what a walk has   *)
(* passed is a strip of corners that share their ends, the two walks that   *)
(* start from a corner make the strip a fan, and a fan is a smallest set of *)
(* corners closed under crossing the edges at them.  So the corners that    *)
(* get one index are those that meet at one point of the surface.           *)
(****************************************************************************)
EXTENDS RepairLinksProofs

-----------------------------------------------------------------------------
(****************************************************************************)
(* Parts.                                                                   *)
(****************************************************************************)
(* The sets of facets of s that no link leaves, and the smallest of them.   *)
ClosedIn(s, S) == \A f \in S, e \in Corner : s.neighbor[f][e] \in S \cup {None}
ClosedSets(s) == {S \in SUBSET Facets(s) : ClosedIn(s, S)}
Parts(s) ==
  {S \in ClosedSets(s) : S # {} /\ \A T \in ClosedSets(s) : T \subseteq S => T \in {{}, S}}

(* They are those PartsCounted speaks of.                                   *)
LEMMA PartsAreParts == Parts(stl) = {S \in SUBSET Facets(stl) : IsPart(S)}
<1>1. \A S : Closed(S) <=> ClosedIn(stl, S)
  BY DEF Closed, ClosedIn
<1>2. \A S \in SUBSET Facets(stl) : S \in Parts(stl) <=> IsPart(S)
  <2> TAKE S \in SUBSET Facets(stl)
  <2>1. \A T : T \in ClosedSets(stl) /\ T \subseteq S <=> T \in SUBSET S /\ Closed(T)
    BY <1>1 DEF ClosedSets
  <2>2. S \in ClosedSets(stl) <=> Closed(S)
    BY <1>1 DEF ClosedSets
  <2>3. QED
    BY <2>1, <2>2 DEF Parts, IsPart
<1>3. \A S \in Parts(stl) : S \in SUBSET Facets(stl)
  BY DEF Parts, ClosedSets
<1>4. QED
  BY <1>2, <1>3

(* What is outside a closed set is closed: links are answered.              *)
LEMMA ComplementClosed ==
  ASSUME NEW s \in StlFiles, Mutual(s), NEW S \in ClosedSets(s)
  PROVE  Facets(s) \ S \in ClosedSets(s)
<1> SUFFICES ASSUME NEW f \in Facets(s) \ S, NEW e \in Corner, s.neighbor[f][e] # None
             PROVE  s.neighbor[f][e] \in Facets(s) \ S
  BY DEF ClosedSets, ClosedIn
<1> DEFINE g == s.neighbor[f][e]
           b == Next3(s.which_vertex_not[f][e])
<1>1. g \in Facets(s) /\ s.neighbor[g][b] = f
  BY DEF Mutual, LinkedBack
<1>2. b \in Corner
  <2>1. f \in Slot /\ s.which_vertex_not[f][e] \in 0 .. 5
    BY FacetsAreSlots DEF StlFiles
  <2>2. QED
    BY <2>1, CornerArithmetic
<1>3. f # None
  BY DEF Facets, None
<1> HIDE DEF b
<1>4. g \in S => f \in S \cup {None}
  BY <1>1, <1>2 DEF ClosedSets, ClosedIn
<1>5. QED
  BY <1>1, <1>3, <1>4

(* What two closed sets have in common is closed.                           *)
LEMMA IntersectionClosed ==
  ASSUME NEW s, NEW S \in ClosedSets(s), NEW T \in ClosedSets(s)
  PROVE  S \cap T \in ClosedSets(s)
BY DEF ClosedSets, ClosedIn

(* A facet is in one part, and a closed set that has some facet of a part   *)
(* has all of it.                                                           *)
LEMMA OnePart ==
  ASSUME NEW s \in StlFiles, Mutual(s)
  PROVE  /\ \A f \in Facets(s) : \E S \in Parts(s) : f \in S
         /\ \A S \in Parts(s), T \in ClosedSets(s) : S \cap T # {} => S \subseteq T
<1>1. ASSUME NEW S \in Parts(s), NEW T \in ClosedSets(s), S \cap T # {}
      PROVE  S \subseteq T
  <2>1. S \cap T \in ClosedSets(s)
    BY IntersectionClosed DEF Parts
  <2>2. S \cap T \in {{}, S}
    BY <2>1 DEF Parts
  <2>3. QED
    BY <1>1, <2>2
<1>2. ASSUME NEW f \in Facets(s)
      PROVE  \E S \in Parts(s) : f \in S
  <2> DEFINE C == {g \in Facets(s) : \A T \in ClosedSets(s) : f \in T => g \in T}
  <2>1. C \in ClosedSets(s) /\ f \in C
    <3>1. ASSUME NEW g \in C, NEW e \in Corner, s.neighbor[g][e] # None
          PROVE  s.neighbor[g][e] \in C
      <4>1. s.neighbor[g][e] \in Facets(s)
        BY <3>1 DEF Mutual, LinkedBack
      <4>2. ASSUME NEW T \in ClosedSets(s), f \in T PROVE s.neighbor[g][e] \in T
        BY <3>1, <4>2 DEF ClosedSets, ClosedIn
      <4>3. QED
        BY <4>1, <4>2
    <3>2. ClosedIn(s, C)
      BY <3>1 DEF ClosedIn
    <3>3. QED
      BY <3>2 DEF ClosedSets
  <2>2. ASSUME NEW T \in ClosedSets(s), T \subseteq C PROVE T \in {{}, C}
    <3>1. CASE f \in T
      <4>1. C \subseteq T
        BY <3>1
      <4>2. QED
        BY <2>2, <4>1
    <3>2. CASE f \notin T
      <4>1. Facets(s) \ T \in ClosedSets(s) /\ f \in Facets(s) \ T
        BY <3>2, ComplementClosed
      <4>2. C \subseteq Facets(s) \ T
        BY <4>1
      <4>3. T = {}
        BY <2>2, <4>2
      <4>4. QED
        BY <4>3
    <3>3. QED
      BY <3>1, <3>2
  <2> HIDE DEF C
  <2>3. C \in Parts(s)
    BY <2>1, <2>2 DEF Parts
  <2>4. QED
    BY <2>1, <2>3
<1>3. QED
  BY <1>1, <1>2

(* A mesh has finitely many facets and parts.                               *)
LEMMA FinitelyManyParts ==
  ASSUME NEW s \in StlFiles
  PROVE  /\ IsFiniteSet(Facets(s)) /\ Cardinality(Facets(s)) = s.number_of_facets
         /\ IsFiniteSet(Parts(s))
<1>1. s.number_of_facets \in Nat
  BY MaxFacetsAssumption DEF StlFiles
<1>2. IsFiniteSet(Facets(s)) /\ Cardinality(Facets(s)) = s.number_of_facets
  <2> DEFINE last == s.number_of_facets - 1
  <2>1. 0 \in Int /\ last \in Int /\ Facets(s) = 0 .. last
    BY <1>1 DEF Facets
  <2>2. (IF 0 > last THEN 0 ELSE last - 0 + 1) = s.number_of_facets
    BY <1>1
  <2> HIDE DEF last
  <2>3. IsFiniteSet(0 .. last) /\ Cardinality(0 .. last) = IF 0 > last THEN 0 ELSE last - 0 + 1
    BY <2>1, FS_Interval
  <2>4. QED
    BY <2>1, <2>2, <2>3
<1>3. IsFiniteSet(SUBSET Facets(s))
  BY <1>2, FS_SUBSET
<1>4. Parts(s) \in SUBSET (SUBSET Facets(s))
  BY DEF Parts, ClosedSets
<1>5. IsFiniteSet(Parts(s))
  <2> DEFINE Q == SUBSET Facets(s)
  <2>1. IsFiniteSet(Q) /\ Parts(s) \in SUBSET Q
    BY <1>3, <1>4
  <2> HIDE DEF Q
  <2>2. QED
    BY <2>1, FS_Subset
<1>6. QED
  BY <1>2, <1>5

-----------------------------------------------------------------------------
(****************************************************************************)
(* Turning a facet.                                                         *)
(****************************************************************************)
(* Facet g links to h.                                                      *)
Adjacent(s, g, h) == \E e \in Corner : s.neighbor[g][e] = h

(* The facets of s are linked to the same facets in t.                      *)
SameNeighbors(s, t) ==
  /\ Facets(t) = Facets(s)
  /\ \A g \in Facets(s) : \A h \in Facets(s) \cup {None} : Adjacent(t, g, h) <=> Adjacent(s, g, h)

(* When the facets in R are turned, the two sides of edge e of facet g      *)
(* agree; and so those of every edge.                                       *)
AgreesAt(s, R, g, e) ==
  s.neighbor[g][e] # None =>
    ((g \in R) = (s.neighbor[g][e] \in R)) = (s.which_vertex_not[g][e] < 3)
OrientedBy(s, R) == \A g \in Facets(s), e \in Corner : AgreesAt(s, R, g, e)

Toggled(R, f) == (R \ {f}) \cup ({f} \ R)

(* Facet f has been turned, with or without its normal, which does not      *)
(* matter to the other facets.                                              *)
Turned(s, f, t) ==
  /\ t \in StlFiles
  /\ SameNeighbors(s, t)
  /\ \A g \in Facets(s) \ {f} :
       /\ t.neighbor[g] = s.neighbor[g]
       /\ BackwardsNormal(t, g) <=> BackwardsNormal(s, g)
  /\ \A R \in SUBSET Facets(s) : OrientedBy(t, R) <=> OrientedBy(s, Toggled(R, f))

(* Closed sets and parts only depend on which facets are linked.            *)
LEMMA SameNeighborsSameParts ==
  ASSUME NEW s, NEW t, Mutual(s), Mutual(t), SameNeighbors(s, t)
  PROVE  ClosedSets(t) = ClosedSets(s) /\ Parts(t) = Parts(s)
<1>1. Facets(t) = Facets(s)
  BY DEF SameNeighbors
<1>2. /\ \A g \in Facets(s), e \in Corner : s.neighbor[g][e] \in Facets(s) \cup {None}
      /\ \A g \in Facets(s), e \in Corner : t.neighbor[g][e] \in Facets(s) \cup {None}
  BY <1>1 DEF Mutual, LinkedBack
<1>3. ASSUME NEW S \in SUBSET Facets(s)
      PROVE  ClosedIn(t, S) <=> ClosedIn(s, S)
  <2>1. ClosedIn(s, S) <=>
          \A g \in S : \A h \in Facets(s) \cup {None} : Adjacent(s, g, h) => h \in S \cup {None}
    BY <1>2 DEF ClosedIn, Adjacent
  <2>2. ClosedIn(t, S) <=>
          \A g \in S : \A h \in Facets(s) \cup {None} : Adjacent(t, g, h) => h \in S \cup {None}
    BY <1>2 DEF ClosedIn, Adjacent
  <2>3. QED
    BY <2>1, <2>2 DEF SameNeighbors
<1>4. ClosedSets(t) = ClosedSets(s)
  BY <1>1, <1>3 DEF ClosedSets
<1>5. QED
  BY <1>4 DEF Parts

(* To turn a facet is to have one less, or one more, to turn.               *)
LEMMA TurnedOriented ==
  ASSUME NEW s, NEW f \in Facets(s), NEW t, Turned(s, f, t)
  PROVE  (\E R \in SUBSET Facets(t) : OrientedBy(t, R))
           <=> (\E R \in SUBSET Facets(s) : OrientedBy(s, R))
<1>1. Facets(t) = Facets(s)
  BY DEF Turned, SameNeighbors
<1>2. ASSUME NEW R \in SUBSET Facets(s)
      PROVE  Toggled(R, f) \in SUBSET Facets(s) /\ Toggled(Toggled(R, f), f) = R
  BY DEF Toggled
<1>3. \A R \in SUBSET Facets(s) : OrientedBy(t, R) <=> OrientedBy(s, Toggled(R, f))
  BY DEF Turned
<1>4. ASSUME NEW R \in SUBSET Facets(s), OrientedBy(s, R)
      PROVE  \E Q \in SUBSET Facets(s) : OrientedBy(t, Q)
  BY <1>2, <1>3, <1>4
<1>5. ASSUME NEW R \in SUBSET Facets(s), OrientedBy(t, R)
      PROVE  \E Q \in SUBSET Facets(s) : OrientedBy(s, Q)
  BY <1>2, <1>3, <1>5
<1>6. QED
  BY <1>1, <1>4, <1>5

(* The links of a facet that is turned, and those that lead to it, change   *)
(* sides.                                                                   *)
LEMMA ReversedOriented ==
  ASSUME NEW s \in StlFiles, NEW f \in Facets(s), Mutual(s), NEW t, Reversed(s, f, t)
  PROVE  /\ SameNeighbors(s, t)
         /\ \A R \in SUBSET Facets(s) : OrientedBy(t, R) <=> OrientedBy(s, Toggled(R, f))
<1> DEFINE n(g, e) == s.neighbor[g][e]
           v(g, e) == s.which_vertex_not[g][e]
<1>1. /\ Facets(t) = Facets(s) /\ f \in Slot /\ Facets(s) \subseteq Slot
      /\ \A g \in Facets(s), e \in Corner : v(g, e) \in 0 .. 5
      /\ \A g \in Facets(s), e \in Corner : n(g, e) # None => n(g, e) \in Facets(s) /\ n(g, e) # g
  <2>1. Facets(s) \subseteq Slot
    BY FacetsAreSlots
  <2>2. Facets(t) = Facets(s)
    BY DEF Reversed, Facets
  <2>3. \A g \in Facets(s), e \in Corner : v(g, e) \in 0 .. 5
    BY <2>1 DEF StlFiles
  <2>4. QED
    BY <2>1, <2>2, <2>3 DEF Mutual, LinkedBack
<1>2. ASSUME NEW e \in Corner
      PROVE  /\ SwapEdge(e) \in Corner /\ SwapEdge(SwapEdge(e)) = e
             /\ t.neighbor[f][e] = n(f, SwapEdge(e))
             /\ (t.which_vertex_not[f][e] < 3) <=> ~ (v(f, SwapEdge(e)) < 3)
  <2> DEFINE w == v(f, SwapEdge(e))
  <2>1. SwapEdge(e) \in Corner /\ SwapEdge(SwapEdge(e)) = e
    BY ReversalArithmetic
  <2>2. t.neighbor[f][e] = n(f, SwapEdge(e)) /\ t.which_vertex_not[f][e] = Rotate(w, 3)
    BY DEF Reversed
  <2>3. w \in 0 .. 5
    BY <1>1, <2>1
  <2> HIDE DEF w
  <2>4. (Rotate(w, 3) < 3) <=> ~ (w < 3)
    BY <2>3, ReversalArithmetic
  <2>5. QED
    BY <2>1, <2>2, <2>4 DEF w
<1>3. ASSUME NEW g \in Facets(s) \ {f}, NEW e \in Corner
      PROVE  /\ t.neighbor[g][e] = n(g, e)
             /\ n(g, e) = f => ((t.which_vertex_not[g][e] < 3) <=> ~ (v(g, e) < 3))
             /\ n(g, e) # f => t.which_vertex_not[g][e] = v(g, e)
  BY <1>1, ReversalArithmetic DEF Reversed
<1>4. SameNeighbors(s, t)
  <2>1. ASSUME NEW g \in Facets(s), NEW h
        PROVE  Adjacent(t, g, h) <=> Adjacent(s, g, h)
    <3>1. CASE g = f
      BY <1>2, <3>1 DEF Adjacent
    <3>2. CASE g # f
      BY <1>3, <3>2 DEF Adjacent
    <3>3. QED
      BY <3>1, <3>2
  <2>2. QED
    BY <1>1, <2>1 DEF SameNeighbors
<1>5. ASSUME NEW R \in SUBSET Facets(s)
      PROVE  OrientedBy(t, R) <=> OrientedBy(s, Toggled(R, f))
  <2> DEFINE Q == Toggled(R, f)
  <2>1. /\ \A g \in Facets(s) \ {f} : g \in Q <=> g \in R
        /\ f \in Q <=> f \notin R
    BY DEF Toggled
  <2> HIDE DEF Q
  <2>2. ASSUME NEW e \in Corner
        PROVE  AgreesAt(t, R, f, e) <=> AgreesAt(s, Q, f, SwapEdge(e))
    <3> DEFINE h == s.neighbor[f][SwapEdge(e)]
               w == s.which_vertex_not[f][SwapEdge(e)]
    <3>1. /\ t.neighbor[f][e] = h
          /\ (t.which_vertex_not[f][e] < 3) <=> ~ (w < 3)
          /\ h # None => h \in Facets(s) \ {f}
      BY <1>1, <1>2
    <3> HIDE DEF h, w
    <3>2. h # None => (((f \in R) = (h \in R)) <=> ~ ((f \in Q) = (h \in Q)))
      BY <2>1, <3>1
    <3>3. AgreesAt(t, R, f, e) <=> (h # None => (((f \in R) = (h \in R)) <=> ~ (w < 3)))
      BY <3>1 DEF AgreesAt
    <3>4. AgreesAt(s, Q, f, SwapEdge(e)) <=> (h # None => (((f \in Q) = (h \in Q)) <=> (w < 3)))
      BY DEF AgreesAt, h, w
    <3>5. QED
      BY <3>2, <3>3, <3>4
  <2>3. ASSUME NEW g \in Facets(s) \ {f}, NEW e \in Corner
        PROVE  AgreesAt(t, R, g, e) <=> AgreesAt(s, Q, g, e)
    <3> DEFINE h == s.neighbor[g][e]
               w == s.which_vertex_not[g][e]
    <3>1. /\ t.neighbor[g][e] = h
          /\ h = f => ((t.which_vertex_not[g][e] < 3) <=> ~ (w < 3))
          /\ h # f => t.which_vertex_not[g][e] = w
          /\ h # None => h \in Facets(s)
      BY <1>1, <1>3
    <3>2. AgreesAt(s, Q, g, e) <=> (h # None => (((g \in Q) = (h \in Q)) <=> (w < 3)))
      BY DEF AgreesAt
    <3>3. AgreesAt(t, R, g, e) <=>
            (h # None => (((g \in R) = (h \in R)) <=> (t.which_vertex_not[g][e] < 3)))
      BY <3>1 DEF AgreesAt
    <3> HIDE DEF h, w
    <3>4. g \in Q <=> g \in R
      BY <2>1
    <3>5. CASE h = f
      <4>1. (h \in Q) <=> ~ (h \in R)
        BY <2>1, <3>5
      <4>2. QED
        BY <3>1, <3>2, <3>3, <3>4, <3>5, <4>1
    <3>6. CASE h # f
      <4>1. h # None => (h \in Q <=> h \in R)
        BY <2>1, <3>1, <3>6
      <4>2. QED
        BY <3>1, <3>2, <3>3, <3>4, <3>6, <4>1
    <3>7. QED
      BY <3>5, <3>6
  <2>4. OrientedBy(t, R) <=> OrientedBy(s, Q)
    <3>1. ASSUME OrientedBy(t, R), NEW g \in Facets(s), NEW e \in Corner
          PROVE  AgreesAt(s, Q, g, e)
      <4>1. CASE g = f
        BY <1>1, <1>2, <2>2, <3>1, <4>1 DEF OrientedBy
      <4>2. CASE g # f
        BY <1>1, <2>3, <3>1, <4>2 DEF OrientedBy
      <4>3. QED
        BY <4>1, <4>2
    <3>2. ASSUME OrientedBy(s, Q), NEW g \in Facets(s), NEW e \in Corner
          PROVE  AgreesAt(t, R, g, e)
      <4>1. CASE g = f
        BY <1>1, <1>2, <2>2, <3>2, <4>1 DEF OrientedBy
      <4>2. CASE g # f
        BY <1>1, <2>3, <3>2, <4>2 DEF OrientedBy
      <4>3. QED
        BY <4>1, <4>2
    <3>3. QED
      BY <1>1, <3>1, <3>2 DEF OrientedBy
  <2>5. QED
    BY <2>4 DEF Q
<1>6. QED
  BY <1>4, <1>5

(* The normal of a facet computed the other way round is the opposite one.  *)
LEMMA SwappedNormal ==
  ASSUME NEW t \in Facet
  PROVE  FacetNormal(SwapCorners(t)) = Negated(FacetNormal(t))
<1>1. /\ t[0] \in Point /\ t[1] \in Point /\ t[2] \in Point
      /\ SwapCorners(t)[0] = t[1] /\ SwapCorners(t)[1] = t[0] /\ SwapCorners(t)[2] = t[2]
  BY VertexAssumption DEF Facet, Corner, SwapCorners
<1>2. PICK a \in Int, b \in Int, c \in Int : t[0] = <<a, b, c>>
  BY <1>1 DEF Point
<1>3. PICK k \in Int, l \in Int, m \in Int : t[1] = <<k, l, m>>
  BY <1>1 DEF Point
<1>4. PICK x \in Int, y \in Int, z \in Int : t[2] = <<x, y, z>>
  BY <1>1 DEF Point
<1>5. FacetNormal(t) = <<(l - b) * (z - c) - (m - c) * (y - b),
                         (m - c) * (x - a) - (k - a) * (z - c),
                         (k - a) * (y - b) - (l - b) * (x - a)>>
  BY <1>2, <1>3, <1>4 DEF FacetNormal, Cross, Minus
<1>6. FacetNormal(SwapCorners(t)) = <<(b - l) * (z - m) - (c - m) * (y - l),
                                      (c - m) * (x - k) - (a - k) * (z - m),
                                      (a - k) * (y - l) - (b - l) * (x - k)>>
  BY <1>1, <1>2, <1>3, <1>4 DEF FacetNormal, Cross, Minus
<1>7. \A p, q, u, v, r, w \in Int :
        (p - u) * (w - v) - (q - v) * (r - u) = 0 - ((u - p) * (w - q) - (v - q) * (r - p))
  OBVIOUS
<1>8. QED
  BY <1>5, <1>6, <1>7 DEF Negated, Minus, Zero

(* A normal that was backwards is right when the facet is turned.           *)
LEMMA SwappedRight ==
  ASSUME NEW n \in Point, NEW m \in Point, SameDirection(Negated(n), m)
  PROVE  SameDirection(n, Negated(m))
<1>1. PICK a \in Int, b \in Int, c \in Int : n = <<a, b, c>>
  BY DEF Point
<1>2. PICK x \in Int, y \in Int, z \in Int : m = <<x, y, z>>
  BY DEF Point
<1>3. Negated(n) = <<0 - a, 0 - b, 0 - c>> /\ Negated(m) = <<0 - x, 0 - y, 0 - z>>
  BY <1>1, <1>2 DEF Negated, Minus, Zero
<1>4. (Negated(n) = Zero <=> n = Zero) /\ (Negated(m) = Zero <=> m = Zero)
  BY <1>1, <1>2, <1>3 DEF Zero
<1>5. CASE n = Zero \/ m = Zero
  <2>1. Negated(n) = m
    BY <1>4, <1>5 DEF SameDirection
  <2>2. n = Negated(m) /\ n = Zero
    BY <1>1, <1>2, <1>3, <1>4, <1>5, <2>1
  <2>3. QED
    BY <2>2 DEF SameDirection
<1>6. CASE n # Zero /\ m # Zero
  <2>1. Cross(Negated(n), m) = Zero /\ Dot(Negated(n), m) > 0
    BY <1>4, <1>6 DEF SameDirection
  <2>2. \A p, q \in Int : (0 - p) * q = p * (0 - q)
    OBVIOUS
  <2>3. Cross(n, Negated(m)) = Cross(Negated(n), m)
    BY <1>1, <1>2, <1>3, <2>2 DEF Cross
  <2>4. Dot(n, Negated(m)) = Dot(Negated(n), m)
    BY <1>1, <1>2, <1>3, <2>2 DEF Dot
  <2>5. QED
    BY <1>4, <1>6, <2>1, <2>3, <2>4 DEF SameDirection
<1>7. QED
  BY <1>5, <1>6

(* Turning a facet, with or without its normal.  Without, a normal that was *)
(* backwards no longer is.                                                  *)
LEMMA ReversalTurns ==
  ASSUME NEW s \in StlFiles, NEW f \in Facets(s), Mutual(s)
  PROVE  /\ Turned(s, f, ReverseFacet(s, f))
         /\ Turned(s, f, ReverseWithNormal(s, f))
         /\ BackwardsNormal(s, f) => ~ BackwardsNormal(ReverseFacet(s, f), f)
<1> DEFINE r == ReverseFacet(s, f)
           t == ReverseWithNormal(s, f)
<1>1. f \in Slot /\ Facets(s) \subseteq Slot
  BY FacetsAreSlots
<1>2. Reversed(s, f, r)
  BY ReverseFacetReversed
<1>3. /\ SameNeighbors(s, r)
      /\ \A R \in SUBSET Facets(s) : OrientedBy(r, R) <=> OrientedBy(s, Toggled(R, f))
  BY <1>2, ReversedOriented
<1>4. /\ r \in StlFiles /\ r.number_of_facets = s.number_of_facets
      /\ r.facet_start = [s.facet_start EXCEPT ![f] = SwapCorners(s.facet_start[f])]
      /\ r.normal = s.normal
      /\ r.neighbor = [s.neighbor EXCEPT ![f] = [s.neighbor[f] EXCEPT
                         ![1] = s.neighbor[f][2], ![2] = s.neighbor[f][1]]]
  BY <1>1, ReverseFacetFields
<1>5. PICK n : t \in StlFiles /\ t = [r EXCEPT !.normal = [s.normal EXCEPT ![f] = n]]
  BY <1>1, ReverseWithNormalFields
<1> HIDE DEF r, t
<1>6. /\ t.number_of_facets = s.number_of_facets /\ t.neighbor = r.neighbor
      /\ t.which_vertex_not = r.which_vertex_not /\ t.facet_start = r.facet_start
      /\ t.normal = [s.normal EXCEPT ![f] = n]
  BY <1>4, <1>5 DEF StlFiles
<1>7. \A g \in Slot \ {f} :
        /\ r.neighbor[g] = s.neighbor[g] /\ t.neighbor[g] = s.neighbor[g]
        /\ r.facet_start[g] = s.facet_start[g] /\ t.facet_start[g] = s.facet_start[g]
        /\ r.normal[g] = s.normal[g] /\ t.normal[g] = s.normal[g]
  BY <1>4, <1>6 DEF StlFiles
<1>8. \A g \in Facets(s) \ {f} :
        /\ BackwardsNormal(r, g) <=> BackwardsNormal(s, g)
        /\ BackwardsNormal(t, g) <=> BackwardsNormal(s, g)
  BY <1>1, <1>7 DEF BackwardsNormal, RightNormal
<1>9. Turned(s, f, r)
  BY <1>1, <1>3, <1>4, <1>7, <1>8 DEF Turned
<1>10. Turned(s, f, t)
  <2>1. Facets(t) = Facets(s) /\ Facets(r) = Facets(s)
    BY <1>4, <1>6 DEF Facets
  <2>2. SameNeighbors(s, t)
    BY <1>3, <1>6, <2>1 DEF SameNeighbors, Adjacent
  <2>3. \A R : OrientedBy(t, R) <=> OrientedBy(r, R)
    BY <1>6, <2>1 DEF OrientedBy, AgreesAt
  <2>4. QED
    BY <1>1, <1>3, <1>5, <1>7, <1>8, <2>2, <2>3 DEF Turned
<1>11. ASSUME BackwardsNormal(s, f) PROVE RightNormal(r, f)
  <2> DEFINE corners == s.facet_start[f]
             m == FacetNormal(corners)
  <2>1. corners \in Facet /\ s.normal[f] \in Point
    BY <1>1 DEF StlFiles
  <2>2. m \in Point
    BY <2>1, FacetNormalType
  <2>3. SameDirection(Negated(s.normal[f]), m)
    BY <1>11 DEF BackwardsNormal
  <2>4. r.facet_start[f] = SwapCorners(corners) /\ r.normal[f] = s.normal[f]
    BY <1>1, <1>4 DEF StlFiles
  <2>5. FacetNormal(SwapCorners(corners)) = Negated(m)
    BY <2>1, SwappedNormal
  <2> HIDE DEF m, corners
  <2>6. SameDirection(s.normal[f], Negated(m))
    BY <2>1, <2>2, <2>3, SwappedRight
  <2>7. QED
    BY <2>4, <2>5, <2>6 DEF RightNormal
<1>12. BackwardsNormal(s, f) => ~ BackwardsNormal(r, f)
  BY <1>11 DEF BackwardsNormal
<1>13. QED
  BY <1>9, <1>10, <1>12 DEF r, t

-----------------------------------------------------------------------------
(****************************************************************************)
(* The invariant.                                                           *)
(****************************************************************************)
(* The facets that have been reached: those marked, and those on the list.  *)
Listed(l) == {l[k] : k \in DOMAIN l}
Marked == norm_sw \cup Listed(list)

(* Only facets of the mesh are reached, and those marked are counted.       *)
Visited ==
  /\ facet_num \in norm_sw
  /\ norm_sw \subseteq Facets(stl)
  /\ list \in Seq(Facets(stl))
  /\ checked = Cardinality(norm_sw)
  /\ pc = "next" => j = 0

(* A link of a marked facet leads to one reached; of the facet whose edges  *)
(* are looked at, those before edge j.                                      *)
Reached ==
  \A f \in norm_sw, e \in Corner :
    f # facet_num \/ pc = "next" \/ e < j => stl.neighbor[f][e] \in Marked \cup {None}

(* The facets on the list are in the part of the one looked at.             *)
Together ==
  \A g \in Listed(list), S \in ClosedSets(stl) : g \in S <=> facet_num \in S

(* The other parts that have been reached are counted.                      *)
Finished == {S \in Parts(stl) : S \cap norm_sw # {} /\ facet_num \notin S}
Counted == number_of_parts = Cardinality(Finished)

(* If the mesh can be oriented at all, no facet reached need be turned any  *)
(* more.                                                                    *)
Settled ==
  Orientable => \E R \in SUBSET Facets(stl) : OrientedBy(stl, R) /\ R \cap Marked = {}

(* Then every part that was reached has a facet whose normal is not         *)
(* backwards: the first.                                                    *)
Seeded ==
  Orientable => \A S \in ClosedSets(stl) :
    S \cap norm_sw # {} => \E f \in S \cap norm_sw : ~ BackwardsNormal(stl, f)

SpreadInv == Visited /\ Reached /\ Together /\ Counted /\ Settled /\ Seeded

(* The parts are counted from 0.                                            *)
BeforeDirections ==
  {"exact", "nearby", "remove_unconnected", "fill_holes", "reverse_all", "normal_directions"}
AfterDirections == {"normal_values", "volume", "reverse_negative", "shared_vertices", "done"}
Directing == phase = "normal_directions" /\ pc \notin {"test", "start"}
Directed ==
  \/ Directing /\ pc = "done"
  \/ phase \in AfterDirections /\ Given({"normal_directions", "fixall"})

CountInv == phase \in BeforeDirections /\ ~ Directing => number_of_parts = 0

(* The facets that stl_reverse_all_facets has turned so far.                *)
TurnedSoFar ==
  IF phase = "reverse_negative" /\ pc = "reverse" THEN {f \in Facets(stl) : f < i} ELSE {}

(* What stl_fix_normal_directions has achieved.                             *)
DirectedInv ==
  Directed /\ stl.number_of_facets > 0 =>
    /\ number_of_parts = Cardinality(Parts(stl))
    /\ Orientable => OrientedBy(stl, TurnedSoFar)
    /\ Directing \/ (phase = "normal_values" /\ pc = "test") =>
         (Orientable => \A S \in ClosedSets(stl) :
            S # {} => \E f \in S : ~ BackwardsNormal(stl, f))

DirectionsInv ==
  /\ CountInv
  /\ Directing /\ pc # "done" /\ stl.number_of_facets > 0 => SpreadInv
  /\ DirectedInv

(* A property of Orientable in terms of OrientedBy.                         *)
LEMMA OrientableBy == Orientable <=> \E R \in SUBSET Facets(stl) : OrientedBy(stl, R)
BY DEF Orientable, OrientedBy, AgreesAt

(* What is on a list when a facet is put on it, or taken from it.           *)
LEMMA ListedFacets ==
  ASSUME NEW S, NEW l \in Seq(S)
  PROVE  /\ Listed(<<>>) = {}
         /\ \A m \in S : <<m>> \o l \in Seq(S) /\ Listed(<<m>> \o l) = {m} \cup Listed(l)
         /\ l # <<>> => /\ Head(l) \in S /\ Tail(l) \in Seq(S)
                        /\ Listed(l) = {Head(l)} \cup Listed(Tail(l))
<1>1. Listed(<<>>) = {}
  BY DEF Listed
<1>2. ASSUME NEW m \in S
      PROVE  <<m>> \o l \in Seq(S) /\ Listed(<<m>> \o l) = {m} \cup Listed(l)
  <2> DEFINE k == <<m>> \o l
  <2>1. /\ k \in Seq(S) /\ Len(k) = Len(l) + 1 /\ k[1] = m
        /\ \A x \in 1 .. Len(l) : k[x + 1] = l[x]
    OBVIOUS
  <2> HIDE DEF k
  <2>2. DOMAIN k = 1 .. Len(l) + 1 /\ DOMAIN l = 1 .. Len(l) /\ Len(l) \in Nat
    BY <2>1
  <2>3. \A x \in DOMAIN k : k[x] \in {m} \cup Listed(l)
    <3> TAKE x \in DOMAIN k
    <3>1. x = 1 \/ (x - 1 \in 1 .. Len(l) /\ x = (x - 1) + 1)
      BY <2>2
    <3>2. QED
      BY <2>1, <2>2, <3>1 DEF Listed
  <2>4. m \in Listed(k)
    BY <2>1, <2>2 DEF Listed
  <2>5. \A x \in DOMAIN l : l[x] \in Listed(k)
    <3> TAKE x \in DOMAIN l
    <3>1. x + 1 \in DOMAIN k /\ k[x + 1] = l[x]
      BY <2>1, <2>2
    <3>2. QED
      BY <3>1 DEF Listed
  <2>6. Listed(k) = {m} \cup Listed(l)
    BY <2>3, <2>4, <2>5 DEF Listed
  <2>7. QED
    BY <2>1, <2>6 DEF k
<1>3. ASSUME l # <<>>
      PROVE  /\ Head(l) \in S /\ Tail(l) \in Seq(S)
             /\ Listed(l) = {Head(l)} \cup Listed(Tail(l))
  <2> DEFINE k == Tail(l)
  <2>1. /\ Head(l) \in S /\ k \in Seq(S) /\ Len(k) = Len(l) - 1 /\ l[1] = Head(l)
        /\ \A x \in 1 .. Len(k) : k[x] = l[x + 1]
        /\ Len(l) \in Nat /\ Len(l) > 0
    BY <1>3
  <2> HIDE DEF k
  <2>2. DOMAIN l = 1 .. Len(l) /\ DOMAIN k = 1 .. Len(l) - 1
    BY <2>1
  <2>3. \A x \in DOMAIN l : l[x] \in {Head(l)} \cup Listed(k)
    <3> TAKE x \in DOMAIN l
    <3>1. x = 1 \/ (x - 1 \in DOMAIN k /\ x = (x - 1) + 1)
      BY <2>1, <2>2
    <3>2. QED
      BY <2>1, <2>2, <3>1 DEF Listed
  <2>4. Head(l) \in Listed(l)
    BY <2>1, <2>2 DEF Listed
  <2>5. \A x \in DOMAIN k : k[x] \in Listed(l)
    <3> TAKE x \in DOMAIN k
    <3>1. x + 1 \in DOMAIN l /\ k[x] = l[x + 1]
      BY <2>1, <2>2
    <3>2. QED
      BY <3>1 DEF Listed
  <2>6. Listed(l) = {Head(l)} \cup Listed(k)
    BY <2>3, <2>4, <2>5 DEF Listed
  <2>7. QED
    BY <2>1, <2>6 DEF k
<1>4. QED
  BY <1>1, <1>2, <1>3

(* What the structure keeps when a part is begun, or a neighbour is looked  *)
(* at: f is turned, or nothing.                                             *)
Kept ==
  /\ Facets(stl') = Facets(stl) /\ ClosedSets(stl') = ClosedSets(stl) /\ Parts(stl') = Parts(stl)
  /\ SameNeighbors(stl, stl')
  /\ Orientable' <=> Orientable

(* A turned facet leaves the parts alone.                                   *)
LEMMA TurnedKept ==
  ASSUME Mutual(stl), Mutual(stl'), NEW f \in Facets(stl),
         stl' = stl \/ Turned(stl, f, stl')
  PROVE  Kept
<1>1. CASE stl' = stl
  <2>1. SameNeighbors(stl, stl)
    BY DEF SameNeighbors
  <2>2. Orientable' <=> Orientable
    BY <1>1 DEF Orientable
  <2>3. QED
    BY <1>1, <2>1, <2>2 DEF Kept
<1>2. CASE Turned(stl, f, stl')
  <2>1. SameNeighbors(stl, stl') /\ Facets(stl') = Facets(stl)
    BY <1>2 DEF Turned, SameNeighbors
  <2>2. ClosedSets(stl') = ClosedSets(stl) /\ Parts(stl') = Parts(stl)
    BY <2>1, SameNeighborsSameParts
  <2>3. Orientable' <=> \E R \in SUBSET Facets(stl') : OrientedBy(stl', R)
    BY DEF Orientable, OrientedBy, AgreesAt
  <2>4. Orientable' <=> Orientable
    BY <1>2, <2>3, OrientableBy, TurnedOriented
  <2>5. QED
    BY <2>1, <2>2, <2>4 DEF Kept
<1>3. QED
  BY <1>1, <1>2

(* The first facet of a part is turned if its normal is backwards.          *)
LEMMA StartPartTurns ==
  ASSUME stl \in StlFiles, Mutual(stl), Mutual(stl'), NEW f \in Facets(stl),
         Directions!StartPart(f)
  PROVE  /\ Kept
         /\ stl' = stl \/ Turned(stl, f, stl')
         /\ ~ BackwardsNormal(stl', f)
         /\ \A g \in Facets(stl) \ {f} : BackwardsNormal(stl', g) <=> BackwardsNormal(stl, g)
         /\ facet_num' = f /\ pc' = "spread"
<1>1. /\ stl' = IF BackwardsNormal(stl, f) THEN ReverseFacet(stl, f) ELSE stl
      /\ facet_num' = f /\ pc' = "spread"
  BY DirectionsOperators DEF Directions!StartPart
<1>2. CASE BackwardsNormal(stl, f)
  <2>1. Turned(stl, f, stl') /\ ~ BackwardsNormal(stl', f)
    BY <1>1, <1>2, ReversalTurns
  <2>2. Kept
    BY <2>1, TurnedKept
  <2>3. \A g \in Facets(stl) \ {f} : BackwardsNormal(stl', g) <=> BackwardsNormal(stl, g)
    BY <2>1 DEF Turned
  <2>4. QED
    BY <1>1, <2>1, <2>2, <2>3
<1>3. CASE ~ BackwardsNormal(stl, f)
  BY <1>1, <1>3, TurnedKept
<1>4. QED
  BY <1>2, <1>3

(* If no link leaves V, what is to be turned outside of V is as well not to *)
(* be turned, and the other way round.                                      *)
LEMMA TurnTheRest ==
  ASSUME NEW s \in StlFiles, Mutual(s), NEW V \in ClosedSets(s), NEW R \in SUBSET Facets(s),
         OrientedBy(s, R), R \cap V = {}
  PROVE  OrientedBy(s, (Facets(s) \ V) \ R)
<1> DEFINE Q == (Facets(s) \ V) \ R
<1> SUFFICES ASSUME NEW g \in Facets(s), NEW e \in Corner, s.neighbor[g][e] # None
             PROVE  ((g \in Q) = (s.neighbor[g][e] \in Q)) = (s.which_vertex_not[g][e] < 3)
  BY DEF OrientedBy, AgreesAt
<1> DEFINE h == s.neighbor[g][e]
<1>1. ((g \in R) = (h \in R)) = (s.which_vertex_not[g][e] < 3)
  BY DEF OrientedBy, AgreesAt
<1>2. h \in Facets(s)
  BY DEF Mutual, LinkedBack
<1>3. g \in V <=> h \in V
  <2>1. g \in V => h \in V
    BY DEF ClosedSets, ClosedIn
  <2>2. g \notin V => h \notin V
    <3>1. Facets(s) \ V \in ClosedSets(s)
      BY ComplementClosed
    <3>2. QED
      BY <1>2, <3>1 DEF ClosedSets, ClosedIn
  <2>3. QED
    BY <2>1, <2>2
<1> HIDE DEF h
<1>4. CASE g \in V
  <2>1. g \notin Q /\ h \notin Q /\ g \notin R /\ h \notin R
    BY <1>3, <1>4
  <2>2. QED
    BY <1>1, <2>1 DEF h
<1>5. CASE g \notin V
  <2>1. (g \in Q <=> g \notin R) /\ (h \in Q <=> h \notin R)
    BY <1>2, <1>3, <1>5
  <2>2. ((g \in Q) = (h \in Q)) <=> ((g \in R) = (h \in R))
    BY <2>1
  <2>3. QED
    BY <1>1, <2>2 DEF h
<1>6. QED
  BY <1>4, <1>5

(* A part begins with a facet that need not be turned any more.             *)
LEMMA StartPartSettles ==
  ASSUME stl \in StlFiles, Mutual(stl), Mutual(stl'), NEW f \in Facets(stl),
         Directions!StartPart(f), NEW V \in ClosedSets(stl), f \notin V,
         NEW P \in SUBSET Facets(stl), OrientedBy(stl, P), P \cap V = {}
  PROVE  \E Q \in SUBSET Facets(stl') : OrientedBy(stl', Q) /\ Q \cap (V \cup {f}) = {}
<1>1. /\ stl' = stl \/ Turned(stl, f, stl')
      /\ Facets(stl') = Facets(stl)
  BY StartPartTurns DEF Kept
<1> DEFINE P2 == (Facets(stl) \ V) \ P
<1>2. OrientedBy(stl, P2) /\ P2 \in SUBSET Facets(stl) /\ P2 \cap V = {}
  BY TurnTheRest
<1>3. f \in P <=> f \notin P2
  OBVIOUS
<1> HIDE DEF P2
<1>4. \A b \in BOOLEAN : \E R \in SUBSET Facets(stl) :
        OrientedBy(stl, R) /\ R \cap V = {} /\ (f \in R <=> b)
  <2>1. CASE f \in P
    BY <1>2, <1>3, <2>1
  <2>2. CASE f \notin P
    BY <1>2, <1>3, <2>2
  <2>3. QED
    BY <2>1, <2>2
<1>5. CASE stl' = stl
  <2>1. PICK R \in SUBSET Facets(stl) : OrientedBy(stl, R) /\ R \cap V = {} /\ f \notin R
    BY <1>4
  <2>2. QED
    BY <1>5, <2>1
<1>6. CASE Turned(stl, f, stl')
  <2>1. PICK R \in SUBSET Facets(stl) : OrientedBy(stl, R) /\ R \cap V = {} /\ f \in R
    BY <1>4
  <2> DEFINE Q == R \ {f}
  <2>2. Toggled(Q, f) = R /\ Q \in SUBSET Facets(stl) /\ Q \cap (V \cup {f}) = {}
    BY <2>1 DEF Toggled
  <2> HIDE DEF Q
  <2>3. OrientedBy(stl', Q)
    BY <1>6, <2>1, <2>2 DEF Turned
  <2>4. QED
    BY <1>1, <2>2, <2>3
<1>7. QED
  BY <1>1, <1>5, <1>6

-----------------------------------------------------------------------------
(****************************************************************************)
(* The steps of the pass.                                                   *)
(****************************************************************************)
(* What is known of the facets while the pass runs on a mesh that has any.  *)
LEMMA DirectingTypes ==
  ASSUME TypeInv, stl.number_of_facets > 0
  PROVE  /\ stl \in StlFiles /\ j \in Corner /\ 0 \in Facets(stl) /\ 0 \in Slot
         /\ Facets(stl) \subseteq Slot /\ None \notin Facets(stl)
         /\ IsFiniteSet(Facets(stl)) /\ Cardinality(Facets(stl)) = stl.number_of_facets
         /\ IsFiniteSet(Parts(stl))
         /\ number_of_parts \in Nat /\ stl.number_of_facets \in Nat
<1>1. /\ stl \in StlFiles /\ j \in Corner /\ number_of_parts \in Nat
      /\ stl.number_of_facets \in Nat
  BY SMTT(20), MaxFacetsAssumption DEF TypeInv, MeshTyped, PassTyped, StlFiles
<1>2. 0 \in Facets(stl) /\ None \notin Facets(stl)
  BY <1>1 DEF Facets, None
<1>3. 0 \in Slot /\ Facets(stl) \subseteq Slot
  BY <1>1, <1>2, FacetsAreSlots
<1>4. QED
  BY <1>1, <1>2, <1>3, FinitelyManyParts

(* The marked facets are closed when the list has been worked off.          *)
LEMMA MarkedClosed ==
  ASSUME Visited, Reached, pc = "next", list = <<>>
  PROVE  norm_sw \in ClosedSets(stl)
<1>1. Marked = norm_sw
  BY DEF Marked, Listed
<1>2. QED
  BY <1>1 DEF Visited, Reached, ClosedSets, ClosedIn

(* The first part.                                                          *)
LEMMA BeginSpreads ==
  ASSUME TypeInv, Mutual(stl), Mutual(stl'), stl.number_of_facets > 0, number_of_parts = 0,
         Directions!Begin
  PROVE  SpreadInv' /\ Kept
<1>1. /\ Directions!StartPart(0) /\ j' = 0 /\ list' = <<>> /\ norm_sw' = {0} /\ checked' = 1
      /\ number_of_parts' = number_of_parts
  BY DEF Directions!Begin
<1>2. stl \in StlFiles /\ 0 \in Facets(stl)
  BY DirectingTypes
<1>3. /\ Kept /\ ~ BackwardsNormal(stl', 0) /\ facet_num' = 0 /\ pc' = "spread"
  BY <1>1, <1>2, StartPartTurns
<1>4. Listed(list') = {} /\ Marked' = {0}
  BY <1>1 DEF Listed, Marked
<1>5. Visited'
  <2>1. Cardinality({0}) = 1
    BY FS_Singleton
  <2>2. list' \in Seq(Facets(stl'))
    BY <1>1
  <2>3. QED
    BY <1>1, <1>2, <1>3, <2>1, <2>2 DEF Visited, Kept
<1>6. Reached'
  BY <1>1, <1>3 DEF Reached, Corner
<1>7. Together'
  BY <1>4 DEF Together
<1>8. Counted'
  <2>1. Finished' = {}
    BY <1>1, <1>3 DEF Finished
  <2>2. QED
    BY <1>1, <2>1, FS_EmptySet DEF Counted
<1>9. Settled'
  <2>1. ASSUME Orientable'
        PROVE  \E R \in SUBSET Facets(stl') : OrientedBy(stl', R) /\ R \cap {0} = {}
    <3>1. PICK P \in SUBSET Facets(stl) : OrientedBy(stl, P)
      BY <1>3, <2>1, OrientableBy DEF Kept
    <3>2. {} \in ClosedSets(stl)
      BY DEF ClosedSets, ClosedIn
    <3>3. PICK Q \in SUBSET Facets(stl') : OrientedBy(stl', Q) /\ Q \cap ({} \cup {0}) = {}
      BY <1>1, <1>2, <3>1, <3>2, StartPartSettles
    <3>4. QED
      BY <3>3
  <2>2. QED
    BY <1>4, <2>1 DEF Settled
<1>10. Seeded'
  BY <1>1, <1>3 DEF Seeded
<1>11. QED
  BY <1>3, <1>5, <1>6, <1>7, <1>8, <1>9, <1>10 DEF SpreadInv

(* The next part begins at a facet that is not marked: the part before it   *)
(* is complete, and is counted.                                             *)
LEMMA NextPartSpreads ==
  ASSUME TypeInv, Mutual(stl), Mutual(stl'), stl.number_of_facets > 0, SpreadInv,
         Directions!NextPart
  PROVE  SpreadInv' /\ Kept
<1>1. PICK f \in Facets(stl) \ norm_sw : Directions!StartPart(f) /\ norm_sw' = norm_sw \cup {f}
  BY DirectionsOperators DEF Directions!NextPart
<1>2. /\ pc = "next" /\ list = <<>> /\ list' = list /\ j' = j
      /\ number_of_parts' = number_of_parts + 1 /\ checked' = checked + 1
  BY DEF Directions!NextPart
<1>3. /\ stl \in StlFiles /\ IsFiniteSet(Facets(stl)) /\ IsFiniteSet(Parts(stl))
      /\ number_of_parts \in Nat
  BY DirectingTypes
<1>4. /\ Kept /\ ~ BackwardsNormal(stl', f) /\ facet_num' = f /\ pc' = "spread"
      /\ \A g \in Facets(stl) \ {f} : BackwardsNormal(stl', g) <=> BackwardsNormal(stl, g)
  BY <1>1, <1>3, StartPartTurns
<1>5. /\ Visited /\ Reached /\ Counted /\ Settled /\ Seeded
      /\ facet_num \in norm_sw /\ norm_sw \subseteq Facets(stl)
  BY DEF SpreadInv, Visited
<1>6. norm_sw \in ClosedSets(stl)
  BY <1>2, <1>5, MarkedClosed
<1>7. Listed(list') = {} /\ Marked' = norm_sw \cup {f} /\ Marked = norm_sw
  BY <1>1, <1>2 DEF Listed, Marked
<1>8. Visited'
  <2>1. IsFiniteSet(norm_sw)
    BY <1>3, <1>5, FS_Subset
  <2>2. Cardinality(norm_sw \cup {f}) = Cardinality(norm_sw) + 1
    BY <1>1, <2>1, FS_AddElement
  <2>3. list' \in Seq(Facets(stl'))
    BY <1>2
  <2>4. QED
    BY <1>1, <1>2, <1>4, <1>5, <2>2, <2>3 DEF Visited, Kept
<1>9. Reached'
  <2> SUFFICES ASSUME NEW g \in norm_sw, NEW e \in Corner
               PROVE  stl'.neighbor[g][e] \in Marked' \cup {None}
    BY <1>1, <1>2, <1>4, <1>5 DEF Reached, Visited, Corner
  <2>1. stl'.neighbor[g][e] = stl.neighbor[g][e]
    BY <1>1, <1>3, <1>5, StartPartTurns DEF Turned
  <2>2. QED
    BY <1>2, <1>5, <1>7, <2>1 DEF Reached
<1>10. Together'
  BY <1>7 DEF Together
<1>11. Counted'
  <2>1. PICK P \in Parts(stl) : facet_num \in P
    BY <1>3, <1>5, OnePart
  <2>2. ASSUME NEW S \in Parts(stl), S \cap norm_sw # {} PROVE S \subseteq norm_sw
    BY <1>3, <1>6, <2>2, OnePart
  <2>3. \A S \in Parts(stl) : facet_num \in S => S = P
    <3>1. ASSUME NEW S \in Parts(stl), facet_num \in S PROVE S \subseteq P /\ P \subseteq S
      <4>1. S \in ClosedSets(stl) /\ P \in ClosedSets(stl) /\ S \cap P # {}
        BY <2>1, <3>1 DEF Parts
      <4>2. QED
        BY <1>3, <2>1, <4>1, OnePart
    <3>2. QED
      BY <3>1
  <2>4. Finished' = Finished \cup {P}
    <3>1. \A S : S \in Finished' <=> S \in Parts(stl) /\ S \cap (norm_sw \cup {f}) # {} /\ f \notin S
      BY <1>1, <1>4 DEF Finished, Kept
    <3>2. \A S \in Parts(stl) :
            S \cap (norm_sw \cup {f}) # {} /\ f \notin S <=> S \cap norm_sw # {}
      BY <1>1, <2>2
    <3>3. \A S \in Parts(stl) :
            S \cap norm_sw # {} <=> (S \cap norm_sw # {} /\ facet_num \notin S) \/ S = P
      BY <1>5, <2>1, <2>3
    <3>4. \A S : S \in Finished' <=> S \in Parts(stl) /\ S \cap norm_sw # {}
      BY <3>1, <3>2
    <3>5. \A S : S \in Finished \cup {P} <=> S \in Parts(stl) /\ S \cap norm_sw # {}
      BY <2>1, <3>3 DEF Finished
    <3>6. QED
      BY <3>4, <3>5
  <2>5. P \notin Finished /\ IsFiniteSet(Finished)
    <3>1. Finished \in SUBSET Parts(stl)
      BY DEF Finished
    <3>2. P \notin Finished
      BY <2>1 DEF Finished
    <3>3. QED
      BY <1>3, <3>1, <3>2, FS_Subset
  <2>6. Cardinality(Finished \cup {P}) = Cardinality(Finished) + 1
    BY <2>5, FS_AddElement
  <2>7. QED
    BY <1>2, <1>5, <2>4, <2>6 DEF Counted
<1>12. Settled'
  <2>1. ASSUME Orientable'
        PROVE  \E R \in SUBSET Facets(stl') : OrientedBy(stl', R) /\ R \cap Marked' = {}
    <3>1. PICK P \in SUBSET Facets(stl) : OrientedBy(stl, P) /\ P \cap norm_sw = {}
      BY <1>4, <1>5, <1>7, <2>1 DEF Kept, Settled
    <3>2. QED
      BY <1>1, <1>3, <1>6, <1>7, <3>1, StartPartSettles
  <2>2. QED
    BY <2>1 DEF Settled
<1>13. Seeded'
  <2> SUFFICES ASSUME Orientable', NEW S \in ClosedSets(stl), S \cap (norm_sw \cup {f}) # {}
               PROVE  \E g \in S \cap (norm_sw \cup {f}) : ~ BackwardsNormal(stl', g)
    BY <1>1, <1>4 DEF Seeded, Kept
  <2>1. CASE f \in S
    BY <1>4, <2>1
  <2>2. CASE f \notin S
    <3>1. PICK g \in S \cap norm_sw : ~ BackwardsNormal(stl, g)
      BY <1>4, <1>5, <2>2 DEF Seeded, Kept
    <3>2. ~ BackwardsNormal(stl', g)
      BY <1>1, <1>4, <1>5, <3>1
    <3>3. QED
      BY <3>1, <3>2
  <2>3. QED
    BY <2>1, <2>2
<1>14. QED
  BY <1>4, <1>8, <1>9, <1>10, <1>11, <1>12, <1>13 DEF SpreadInv

(* The next facet of the list, marked or not.                               *)
LEMMA NextOfListSpreads ==
  ASSUME TypeInv, stl.number_of_facets > 0, SpreadInv, Directions!NextOfList
  PROVE  SpreadInv' /\ stl' = stl
<1> DEFINE h == Head(list)
<1>1. /\ pc = "next" /\ list # <<>> /\ facet_num' = h /\ list' = Tail(list)
      /\ norm_sw' = norm_sw \cup {h}
      /\ checked' = IF h \in norm_sw THEN checked ELSE checked + 1
      /\ pc' = "spread" /\ UNCHANGED <<stl, i, j, number_of_parts>>
  BY DEF Directions!NextOfList
<1>2. /\ Visited /\ Reached /\ Together /\ Counted /\ Settled /\ Seeded
      /\ facet_num \in norm_sw /\ norm_sw \subseteq Facets(stl) /\ list \in Seq(Facets(stl))
  BY DEF SpreadInv, Visited
<1>3. /\ h \in Facets(stl) /\ list' \in Seq(Facets(stl))
      /\ Listed(list) = {h} \cup Listed(list')
  BY <1>1, <1>2, ListedFacets
<1> HIDE DEF h
<1>4. Marked' = Marked
  BY <1>1, <1>3 DEF Marked
<1>5. \A S \in ClosedSets(stl) : h \in S <=> facet_num \in S
  BY <1>2, <1>3 DEF Together
<1>6. Visited'
  <2>1. IsFiniteSet(norm_sw)
    BY <1>2, DirectingTypes, FS_Subset
  <2>2. checked' = Cardinality(norm_sw \cup {h})
    BY <1>1, <1>2, <2>1, FS_AddElement DEF Visited
  <2>3. QED
    BY <1>1, <1>2, <1>3, <2>2 DEF Visited
<1>7. Reached'
  BY <1>1, <1>2, <1>4 DEF Reached, Visited, Corner
<1>8. Together'
  BY <1>1, <1>2, <1>3, <1>5 DEF Together
<1>9. Counted'
  <2>1. \A S \in Parts(stl) : S \in ClosedSets(stl)
    BY DEF Parts
  <2>2. Finished' = Finished
    BY <1>1, <1>2, <1>5, <2>1 DEF Finished
  <2>3. QED
    BY <1>1, <1>2, <2>2 DEF Counted
<1>10. Orientable' <=> Orientable
  BY <1>1 DEF Orientable
<1>11. Settled'
  BY <1>1, <1>2, <1>4, <1>10 DEF Settled
<1>12. Seeded'
  <2> SUFFICES ASSUME Orientable, NEW S \in ClosedSets(stl), S \cap (norm_sw \cup {h}) # {}
               PROVE  \E g \in S \cap (norm_sw \cup {h}) : ~ BackwardsNormal(stl, g)
    BY <1>1, <1>10 DEF Seeded
  <2>1. S \cap norm_sw # {}
    BY <1>2, <1>5
  <2>2. QED
    BY <1>2, <2>1 DEF Seeded
<1>13. QED
  BY <1>1, <1>6, <1>7, <1>8, <1>9, <1>11, <1>12 DEF SpreadInv

(* The neighbour across edge j: it is turned if it is oriented oppositely,  *)
(* which only happens to a facet not reached before if the mesh can be      *)
(* oriented; and it is put on the list if it is not marked.                 *)
LEMMA SpreadAcrossEdgeSpreads ==
  ASSUME TypeInv, Mutual(stl), Mutual(stl'), stl.number_of_facets > 0, SpreadInv,
         Directions!SpreadAcrossEdge
  PROVE  SpreadInv' /\ Kept
<1> DEFINE n == stl.neighbor[facet_num][j]
           backwards == Directions!IsBackwards(facet_num, j)
<1>1. /\ pc = "spread" /\ UNCHANGED <<facet_num, norm_sw, checked, number_of_parts>>
      /\ stl' = IF backwards THEN ReverseFacet(stl, n) ELSE stl
      /\ LET m == stl'.neighbor[facet_num][j]
         IN  list' = IF m # None /\ m \notin norm_sw THEN <<m>> \o list ELSE list
      /\ j' = Next3(j) /\ pc' = IF j = 2 THEN "next" ELSE "spread"
  BY DirectionsOperators DEF Directions!SpreadAcrossEdge
<1>2. backwards <=> stl.which_vertex_not[facet_num][j] > 2 /\ n # None
  BY DirectionsOperators DEF Directions!IsBackwards
<1>3. /\ stl \in StlFiles /\ j \in Corner /\ None \notin Facets(stl)
      /\ Facets(stl) \subseteq Slot
  BY DirectingTypes
<1>4. /\ Visited /\ Reached /\ Together /\ Counted /\ Settled /\ Seeded
      /\ facet_num \in norm_sw /\ norm_sw \subseteq Facets(stl) /\ list \in Seq(Facets(stl))
  BY DEF SpreadInv, Visited
<1>5. n # None => n \in Facets(stl) /\ n # facet_num
  BY <1>3, <1>4 DEF Mutual, LinkedBack
<1>6. stl.which_vertex_not[facet_num][j] \in 0 .. 5
  BY <1>3, <1>4 DEF StlFiles
<1>7. backwards => /\ n \in Facets(stl) /\ n # facet_num
                  /\ Turned(stl, n, stl')
  <2>1. ASSUME backwards PROVE n \in Facets(stl) /\ n # facet_num /\ Turned(stl, n, stl')
    <3>1. n \in Facets(stl) /\ n # facet_num /\ stl' = ReverseFacet(stl, n)
      BY <1>1, <1>2, <1>5, <2>1
    <3> HIDE DEF n
    <3>2. Turned(stl, n, ReverseFacet(stl, n))
      BY <1>3, <3>1, ReversalTurns
    <3>3. QED
      BY <3>1, <3>2
  <2>2. QED
    BY <2>1
<1>8. ~ backwards => stl' = stl
  BY <1>1
<1> HIDE DEF backwards
<1>9. Kept
  <2>1. CASE backwards
    BY <1>7, <2>1, TurnedKept
  <2>2. CASE ~ backwards
    BY <1>4, <1>8, <2>2, TurnedKept
  <2>3. QED
    BY <2>1, <2>2
<1>10. stl'.neighbor[facet_num] = stl.neighbor[facet_num]
  <2>1. CASE backwards
    BY <1>4, <1>7, <2>1 DEF Turned
  <2>2. CASE ~ backwards
    BY <1>8, <2>2
  <2>3. QED
    BY <2>1, <2>2
<1>11. list' = IF n # None /\ n \notin norm_sw THEN <<n>> \o list ELSE list
  BY <1>1, <1>10
<1> HIDE DEF n
<1>12. list' \in Seq(Facets(stl)) /\ Marked' = Marked \cup ({n} \ {None})
  <2>1. n # None => /\ <<n>> \o list \in Seq(Facets(stl))
                    /\ Listed(<<n>> \o list) = {n} \cup Listed(list)
    BY <1>4, <1>5, ListedFacets
  <2>2. CASE n # None /\ n \notin norm_sw
    <3>1. list' = <<n>> \o list
      BY <1>11, <2>2
    <3>2. Listed(list') = {n} \cup Listed(list)
      BY <2>1, <2>2, <3>1
    <3>3. QED
      BY <1>1, <2>1, <2>2, <3>1, <3>2 DEF Marked
  <2>3. CASE ~ (n # None /\ n \notin norm_sw)
    <3>1. list' = list
      BY <1>11, <2>3
    <3>2. n \in norm_sw \cup {None}
      BY <2>3
    <3>3. QED
      BY <1>1, <1>4, <3>1, <3>2 DEF Marked
  <2>4. QED
    BY <2>2, <2>3
<1>13. Visited'
  <2>1. pc' = "next" => j' = 0
    BY <1>1 DEF Next3
  <2>2. QED
    BY <1>1, <1>4, <1>9, <1>12, <2>1 DEF Visited, Kept
<1>14. Reached'
  <2> SUFFICES ASSUME NEW f \in norm_sw, NEW e \in Corner,
                      f # facet_num \/ pc' = "next" \/ e < j'
               PROVE  stl'.neighbor[f][e] \in Marked' \cup {None}
    BY <1>1 DEF Reached
  <2>1. CASE f = facet_num
    <3>1. stl'.neighbor[f][e] = stl.neighbor[f][e]
      BY <1>10, <2>1
    <3>2. e < j \/ e = j
      <4>1. j \in {0, 1, 2} /\ e \in {0, 1, 2}
        BY <1>3 DEF Corner
      <4>2. (j = 0 => j' = 1) /\ (j = 1 => j' = 2) /\ (j = 2 => j' = 0)
        BY <1>1 DEF Next3
      <4>3. pc' = "next" => j = 2
        BY <1>1
      <4>4. QED
        BY <2>1, <4>1, <4>2, <4>3
    <3>3. CASE e = j
      BY <1>12, <2>1, <3>1, <3>3 DEF n
    <3>4. CASE e < j
      <4>1. stl.neighbor[f][e] \in Marked \cup {None}
        BY <1>4, <2>1, <3>4 DEF Reached
      <4>2. QED
        BY <1>12, <3>1, <4>1
    <3>5. QED
      BY <3>2, <3>3, <3>4
  <2>2. CASE f # facet_num
    <3> DEFINE h == stl'.neighbor[f][e]
    <3>1. f \in Facets(stl) /\ f \in Facets(stl')
      BY SMTT(20), <1>4, <1>9 DEF Kept
    <3>2. h \in Facets(stl) \cup {None}
      BY <1>9, <3>1 DEF Mutual, LinkedBack, Kept
    <3>3. Adjacent(stl', f, h)
      BY DEF Adjacent
    <3> HIDE DEF h
    <3>4. Adjacent(stl, f, h)
      BY <1>9, <3>1, <3>2, <3>3 DEF Kept, SameNeighbors
    <3>5. PICK d \in Corner : stl.neighbor[f][d] = h
      BY <3>4 DEF Adjacent
    <3>6. h \in Marked \cup {None}
      BY <1>4, <2>2, <3>5 DEF Reached
    <3>7. QED
      BY <1>12, <3>6 DEF h
  <2>3. QED
    BY <2>1, <2>2
<1>15. Together'
  <2> SUFFICES ASSUME NEW g \in Listed(list'), NEW S \in ClosedSets(stl)
               PROVE  g \in S <=> facet_num \in S
    BY <1>1, <1>9 DEF Together, Kept
  <2>1. CASE g \in Listed(list)
    BY <1>4, <2>1 DEF Together
  <2>2. CASE g \notin Listed(list)
    <3>1. list' = <<n>> \o list /\ n # None
      BY <1>11, <2>2
    <3>2. Listed(list') = {n} \cup Listed(list)
      BY <1>4, <1>5, <3>1, ListedFacets
    <3>3. g = n
      BY <2>2, <3>2
    <3>4. facet_num \in S => g \in S
      BY <1>3, <3>1, <3>3 DEF ClosedSets, ClosedIn, n
    <3>5. facet_num \notin S => g \notin S
      <4>1. Facets(stl) \ S \in ClosedSets(stl)
        BY <1>3, ComplementClosed
      <4>2. facet_num \in Facets(stl) \ S => n \in Facets(stl) \ S
        BY <1>3, <3>1, <4>1 DEF ClosedSets, ClosedIn, n
      <4>3. QED
        BY <1>4, <3>3, <4>2
    <3>6. QED
      BY <3>4, <3>5
  <2>3. QED
    BY <2>1, <2>2
<1>16. Counted'
  <2>1. Finished' = Finished
    BY <1>1, <1>9 DEF Finished, Kept
  <2>2. QED
    BY <1>1, <1>4, <2>1 DEF Counted
<1>17. ASSUME Orientable
       PROVE  /\ \E R \in SUBSET Facets(stl') : OrientedBy(stl', R) /\ R \cap Marked' = {}
              /\ backwards => n \notin Marked
  <2>1. PICK R \in SUBSET Facets(stl) : OrientedBy(stl, R) /\ R \cap Marked = {}
    BY <1>4, <1>17 DEF Settled
  <2>2. facet_num \notin R
    BY <1>4, <2>1 DEF Marked
  <2>3. n # None => ((n \notin R) <=> (stl.which_vertex_not[facet_num][j] < 3))
    <3>1. AgreesAt(stl, R, facet_num, j)
      BY <1>3, <1>4, <2>1 DEF OrientedBy
    <3>2. n # None => ((facet_num \in R) = (n \in R)) = (stl.which_vertex_not[facet_num][j] < 3)
      BY <3>1 DEF AgreesAt, n
    <3>3. QED
      BY <2>2, <3>2
  <2>4. CASE backwards
    <3>1. n \in R /\ n \in Facets(stl)
      BY <1>2, <1>6, <1>7, <2>3, <2>4
    <3> DEFINE Q == R \ {n}
    <3>2. Toggled(Q, n) = R /\ Q \in SUBSET Facets(stl)
      BY <3>1 DEF Toggled
    <3>3. Q \cap Marked' = {}
      BY <1>12, <2>1
    <3> HIDE DEF Q
    <3>4. OrientedBy(stl', Q)
      BY <1>7, <2>1, <2>4, <3>2 DEF Turned
    <3>5. n \notin Marked
      BY <2>1, <3>1
    <3>6. QED
      BY <1>9, <3>2, <3>3, <3>4, <3>5 DEF Kept
  <2>5. CASE ~ backwards
    <3>1. n # None => n \notin R
      BY <1>2, <1>6, <2>3, <2>5
    <3>2. R \cap Marked' = {}
      BY <1>12, <2>1, <3>1
    <3>3. QED
      BY <1>8, <2>1, <2>5, <3>2
  <2>6. QED
    BY <2>4, <2>5
<1>18. Settled'
  BY <1>9, <1>17 DEF Settled, Kept
<1>19. Seeded'
  <2> SUFFICES ASSUME Orientable, NEW S \in ClosedSets(stl), S \cap norm_sw # {}
               PROVE  \E g \in S \cap norm_sw : ~ BackwardsNormal(stl', g)
    BY <1>1, <1>9 DEF Seeded, Kept
  <2>1. PICK g \in S \cap norm_sw : ~ BackwardsNormal(stl, g)
    BY <1>4 DEF Seeded
  <2>2. CASE backwards
    <3>1. g # n /\ g \in Facets(stl)
      BY <1>4, <1>17, <2>1, <2>2 DEF Marked
    <3>2. ~ BackwardsNormal(stl', g)
      BY <1>7, <2>1, <2>2, <3>1 DEF Turned
    <3>3. QED
      BY <2>1, <3>2
  <2>3. CASE ~ backwards
    BY <1>8, <2>1, <2>3
  <2>4. QED
    BY <2>2, <2>3
<1>20. QED
  BY <1>9, <1>13, <1>14, <1>15, <1>16, <1>18, <1>19 DEF SpreadInv

(* All facets are marked when the pass returns.                             *)
LEMMA LastPartDirects ==
  ASSUME TypeInv, Mutual(stl), stl.number_of_facets > 0, SpreadInv, Directions!LastPart
  PROVE  /\ stl' = stl
         /\ number_of_parts' = Cardinality(Parts(stl))
         /\ Orientable => OrientedBy(stl, {})
         /\ Orientable => \A S \in ClosedSets(stl) :
              S # {} => \E f \in S : ~ BackwardsNormal(stl, f)
<1>1. /\ pc = "next" /\ list = <<>> /\ checked >= stl.number_of_facets
      /\ number_of_parts' = number_of_parts + 1 /\ stl' = stl
  BY DEF Directions!LastPart
<1>2. /\ Visited /\ Reached /\ Counted /\ Settled /\ Seeded
      /\ facet_num \in norm_sw /\ norm_sw \subseteq Facets(stl)
  BY DEF SpreadInv, Visited
<1>3. /\ stl \in StlFiles /\ IsFiniteSet(Facets(stl)) /\ IsFiniteSet(Parts(stl))
      /\ Cardinality(Facets(stl)) = stl.number_of_facets
      /\ number_of_parts \in Nat /\ stl.number_of_facets \in Nat
  BY DirectingTypes
<1>4. norm_sw = Facets(stl)
  <2>1. /\ Cardinality(norm_sw) <= Cardinality(Facets(stl))
        /\ Cardinality(Facets(stl)) = Cardinality(norm_sw) => norm_sw = Facets(stl)
        /\ IsFiniteSet(norm_sw)
    BY <1>2, <1>3, FS_Subset
  <2>2. Cardinality(norm_sw) \in Nat
    BY <2>1, FS_CardinalityType
  <2>3. Cardinality(norm_sw) >= stl.number_of_facets
    BY <1>1, <1>2 DEF Visited
  <2>4. QED
    BY <1>3, <2>1, <2>2, <2>3
<1>5. number_of_parts' = Cardinality(Parts(stl))
  <2>1. PICK P \in Parts(stl) : facet_num \in P
    BY <1>2, <1>3, OnePart
  <2>2. ASSUME NEW S \in Parts(stl), facet_num \in S PROVE S = P
    <3>1. S \in ClosedSets(stl) /\ P \in ClosedSets(stl) /\ S \cap P # {}
      BY <2>1, <2>2 DEF Parts
    <3>2. S \subseteq P /\ P \subseteq S
      BY <1>3, <2>1, <3>1, OnePart
    <3>3. QED
      BY <3>2
  <2>3. \A S \in Parts(stl) : S \cap norm_sw # {}
    BY <1>4 DEF Parts, ClosedSets
  <2>4. Parts(stl) = Finished \cup {P} /\ P \notin Finished
    BY <2>1, <2>2, <2>3 DEF Finished
  <2>5. Finished \in SUBSET Parts(stl)
    BY DEF Finished
  <2>6. IsFiniteSet(Finished)
    BY <1>3, <2>5, FS_Subset
  <2>7. Cardinality(Finished \cup {P}) = Cardinality(Finished) + 1
    BY <2>4, <2>6, FS_AddElement
  <2>8. QED
    BY <1>1, <1>2, <2>4, <2>7 DEF Counted
<1>6. ASSUME Orientable PROVE OrientedBy(stl, {})
  <2>1. PICK R \in SUBSET Facets(stl) : OrientedBy(stl, R) /\ R \cap Marked = {}
    BY <1>2, <1>6 DEF Settled
  <2>2. R = {}
    BY <1>4, <2>1 DEF Marked
  <2>3. QED
    BY <2>1, <2>2
<1>7. ASSUME Orientable, NEW S \in ClosedSets(stl), S # {}
      PROVE  \E f \in S : ~ BackwardsNormal(stl, f)
  <2>1. S \cap norm_sw # {}
    BY <1>4, <1>7 DEF ClosedSets
  <2>2. QED
    BY <1>2, <1>7, <2>1 DEF Seeded
<1>8. QED
  BY <1>1, <1>5, <1>6, <1>7

(* No step of the pass adds or removes a facet.                             *)
LEMMA FixDirectionsNumber ==
  ASSUME TypeInv, Directions!FixDirections
  PROVE  stl'.number_of_facets = stl.number_of_facets
<1>1. stl \in StlFiles /\ j \in Corner /\ facet_num \in Slot /\ 0 \in Slot
  BY MaxFacetsAssumption DEF TypeInv, MeshTyped, PassTyped, Slot
<1>2. \A f \in Slot : ReverseFacet(stl, f).number_of_facets = stl.number_of_facets
  BY <1>1, ReverseFacetFields
<1>3. ASSUME NEW f \in Slot, Directions!StartPart(f)
      PROVE  stl'.number_of_facets = stl.number_of_facets
  <2>1. stl' = stl \/ stl' = ReverseFacet(stl, f)
    BY <1>3, DirectionsOperators DEF Directions!StartPart
  <2>2. QED
    BY <1>2, <2>1
<1>4. CASE Directions!Begin
  BY <1>1, <1>3, <1>4 DEF Directions!Begin
<1>5. CASE Directions!NextPart
  <2>1. PICK f \in Facets(stl) : Directions!StartPart(f)
    BY <1>5, DirectionsOperators DEF Directions!NextPart
  <2>2. f \in Slot
    BY <1>1, FacetsAreSlots
  <2>3. QED
    BY <1>3, <2>1, <2>2
<1>6. CASE Directions!SpreadAcrossEdge
  <2> DEFINE n == stl.neighbor[facet_num][j]
  <2>1. stl' = IF Directions!IsBackwards(facet_num, j) THEN ReverseFacet(stl, n) ELSE stl
    BY <1>6, DirectionsOperators DEF Directions!SpreadAcrossEdge
  <2>2. n \in Slot \cup {None}
    BY <1>1 DEF StlFiles
  <2>3. Directions!IsBackwards(facet_num, j) => n # None
    BY DirectionsOperators DEF Directions!IsBackwards
  <2> HIDE DEF n
  <2>4. QED
    BY <1>2, <2>1, <2>2, <2>3
<1>7. CASE Directions!NextOfList \/ Directions!LastPart
  BY <1>7 DEF Directions!NextOfList, Directions!LastPart
<1>8. QED
  BY <1>4, <1>5, <1>6, <1>7 DEF Directions!FixDirections

(* Each step of stl_fix_normal_directions.                                  *)
LEMMA FixDirectionsStep ==
  ASSUME TypeInv, Mutual(stl), Mutual(stl'), DirectionsInv, FixDirections
  PROVE  DirectionsInv'
<1>1. phase = "normal_directions" /\ phase' = phase /\ Directions!FixDirections
  BY DEF FixDirections, callVars
<1>2. stl'.number_of_facets = stl.number_of_facets
  BY SMTT(20), <1>1, FixDirectionsNumber
<1>3. /\ pc = "start" => Directions!Begin /\ pc' = "spread"
      /\ Directing' /\ pc' \in {"spread", "next", "done"}
      /\ pc' = "done" => pc = "next" /\ Directions!LastPart
      /\ pc # "start" => Directing /\ pc # "done"
  BY <1>1 DEF Directing, Directions!FixDirections, Directions!Begin, Directions!StartPart,
     Directions!SpreadAcrossEdge, Directions!NextOfList, Directions!NextPart, Directions!LastPart
<1>4. CountInv'
  BY <1>3 DEF CountInv
<1>5. ASSUME stl.number_of_facets > 0, pc' # "done" PROVE SpreadInv'
  <2>1. CASE pc = "start"
    <3>1. number_of_parts = 0
      BY <1>1, <2>1 DEF DirectionsInv, CountInv, BeforeDirections, Directing
    <3>2. QED
      BY <1>3, <1>5, <2>1, <3>1, BeginSpreads
  <2>2. CASE pc # "start"
    <3>1. SpreadInv
      BY <1>3, <1>5, <2>2 DEF DirectionsInv
    <3>2. ~ Directions!Begin /\ ~ Directions!LastPart
      BY <1>5, <2>2 DEF Directions!Begin, Directions!LastPart
    <3>3. QED
      BY <1>1, <1>5, <3>1, <3>2, NextPartSpreads, NextOfListSpreads, SpreadAcrossEdgeSpreads
         DEF Directions!FixDirections
  <2>3. QED
    BY <2>1, <2>2
<1>6. ASSUME stl.number_of_facets > 0, Directed'
      PROVE  /\ number_of_parts' = Cardinality(Parts(stl'))
             /\ Orientable' => OrientedBy(stl', TurnedSoFar')
             /\ Orientable' => \A S \in ClosedSets(stl') :
                  S # {} => \E f \in S : ~ BackwardsNormal(stl', f)
  <2>1. pc' = "done" /\ Directions!LastPart /\ pc = "next"
    BY <1>1, <1>3, <1>6 DEF Directed, Directing, AfterDirections
  <2>2. SpreadInv
    BY <1>3, <1>6, <2>1 DEF DirectionsInv
  <2>3. /\ stl' = stl
        /\ number_of_parts' = Cardinality(Parts(stl))
        /\ Orientable => OrientedBy(stl, {})
        /\ Orientable => \A S \in ClosedSets(stl) :
             S # {} => \E f \in S : ~ BackwardsNormal(stl, f)
    BY <1>6, <2>1, <2>2, LastPartDirects
  <2>4. Orientable' <=> Orientable
    BY <2>3 DEF Orientable
  <2>5. TurnedSoFar' = {}
    BY <1>1 DEF TurnedSoFar
  <2>6. QED
    BY <2>3, <2>4, <2>5
<1>7. DirectedInv'
  BY <1>2, <1>6 DEF DirectedInv
<1>8. QED
  BY <1>2, <1>4, <1>5, <1>7 DEF DirectionsInv

(* Each step of the pass that turns every facet: when it runs because the   *)
(* volume is negative, the facets that are not turned yet are to be.        *)
LEMMA ReverseAllStep ==
  ASSUME TypeInv, Mutual(stl), Mutual(stl'), DirectionsInv, ReverseAll
  PROVE  DirectionsInv'
<1>1. /\ phase \in {"reverse_all", "reverse_negative"} /\ phase' = phase /\ options' = options
      /\ number_of_parts' = number_of_parts
      /\ Directions!ReverseAll
  BY DEF ReverseAll, callVars, Directions!ReverseAll, Directions!BeginReverseAll,
     Directions!ReverseNext, Directions!EndReverseAll
<1>2. ~ Directing /\ ~ Directing' /\ (Directed' <=> Directed)
  BY <1>1 DEF Directing, Directed, Given
<1>3. CountInv'
  BY <1>1, <1>2 DEF DirectionsInv, CountInv
<1>4. stl \in StlFiles /\ stl.number_of_facets \in Nat /\ i \in Nat
  BY MaxFacetsAssumption DEF TypeInv, MeshTyped, StlFiles
<1>5. ASSUME Directed
      PROVE  /\ phase = "reverse_negative"
             /\ stl.number_of_facets > 0 =>
                  /\ number_of_parts = Cardinality(Parts(stl))
                  /\ Orientable => OrientedBy(stl, TurnedSoFar)
  BY <1>1, <1>2, <1>5 DEF DirectionsInv, DirectedInv, Directed, AfterDirections
<1>6. ASSUME Directed, stl'.number_of_facets > 0
      PROVE  /\ number_of_parts' = Cardinality(Parts(stl'))
             /\ Orientable' => OrientedBy(stl', TurnedSoFar')
  <2>1. CASE Directions!BeginReverseAll
    <3>1. stl' = stl /\ i' = 0 /\ pc = "start"
      BY <2>1 DEF Directions!BeginReverseAll
    <3>2. Orientable' <=> Orientable
      BY <3>1 DEF Orientable
    <3>3. TurnedSoFar = {} /\ TurnedSoFar' = {}
      BY <3>1 DEF TurnedSoFar, Facets
    <3>4. QED
      BY <1>1, <1>5, <1>6, <3>1, <3>2, <3>3
  <2>2. CASE Directions!ReverseNext
    <3>1. pc = "reverse" /\ pc' = pc /\ i \in Facets(stl) /\ stl' = ReverseWithNormal(stl, i) /\ i' = i + 1
      BY <2>2, DirectionsOperators DEF Directions!ReverseNext
    <3>2. Turned(stl, i, stl')
      BY <1>4, <3>1, ReversalTurns
    <3>3. Kept
      BY <3>1, <3>2, TurnedKept
    <3>4. stl.number_of_facets > 0
      BY <1>4, <3>1 DEF Facets
    <3>5. TurnedSoFar = {f \in Facets(stl) : f < i} /\ TurnedSoFar' = {f \in Facets(stl) : f < i + 1}
      BY <1>1, <1>5, <1>6, <3>1, <3>3 DEF TurnedSoFar, Kept
    <3>6. Toggled(TurnedSoFar', i) = TurnedSoFar
      <4>1. \A f \in Facets(stl) : f \in Int /\ (f < i + 1 <=> f < i \/ f = i) /\ ~ (i < i)
        BY <1>4 DEF Facets
      <4>2. i \in TurnedSoFar' /\ i \notin TurnedSoFar
        BY <3>1, <3>5, <4>1
      <4>3. TurnedSoFar' = TurnedSoFar \cup {i}
        BY <3>1, <3>5, <4>1
      <4>4. QED
        BY <4>2, <4>3 DEF Toggled
    <3>7. TurnedSoFar' \in SUBSET Facets(stl)
      BY <3>5
    <3>8. OrientedBy(stl', TurnedSoFar') <=> OrientedBy(stl, TurnedSoFar)
      BY <3>2, <3>6, <3>7 DEF Turned
    <3>9. QED
      BY <1>1, <1>5, <1>6, <3>3, <3>4, <3>8 DEF Kept
  <2>3. CASE Directions!EndReverseAll
    <3>1. stl' = stl /\ pc = "reverse" /\ i \notin Facets(stl) /\ pc' = "done"
      BY <2>3, DirectionsOperators DEF Directions!EndReverseAll
    <3>2. Orientable' <=> Orientable
      BY <3>1 DEF Orientable
    <3>3. TurnedSoFar = Facets(stl) /\ TurnedSoFar' = {}
      BY <1>1, <1>4, <1>5, <1>6, <3>1 DEF TurnedSoFar, Facets
    <3>4. ASSUME OrientedBy(stl, Facets(stl)) PROVE OrientedBy(stl, {})
      <4>1. {} \in ClosedSets(stl)
        BY DEF ClosedSets, ClosedIn
      <4> DEFINE R == Facets(stl)
      <4>2. R \in SUBSET Facets(stl) /\ OrientedBy(stl, R) /\ R \cap {} = {}
        BY <3>4
      <4>3. (Facets(stl) \ {}) \ R = {}
        OBVIOUS
      <4> HIDE DEF R
      <4>4. OrientedBy(stl, (Facets(stl) \ {}) \ R)
        BY <1>4, <4>1, <4>2, TurnTheRest
      <4>5. QED
        BY <4>3, <4>4
    <3>5. QED
      BY <1>1, <1>5, <1>6, <3>1, <3>2, <3>3, <3>4
  <2>4. QED
    BY <1>1, <2>1, <2>2, <2>3 DEF Directions!ReverseAll
<1>7. DirectedInv'
  <2>1. ~ (phase' = "normal_values")
    BY <1>1
  <2>2. QED
    BY <1>2, <1>6, <2>1 DEF DirectedInv
<1>8. QED
  BY <1>2, <1>3, <1>7 DEF DirectionsInv

(* What is claimed of the mesh depends on its links alone, but for the      *)
(* normals of the facets.                                                   *)
LEMMA SameLinksDirected ==
  ASSUME stl'.number_of_facets = stl.number_of_facets, stl'.neighbor = stl.neighbor,
         stl'.which_vertex_not = stl.which_vertex_not
  PROVE  /\ Parts(stl') = Parts(stl) /\ ClosedSets(stl') = ClosedSets(stl)
         /\ Orientable' <=> Orientable
         /\ \A R : OrientedBy(stl', R) <=> OrientedBy(stl, R)
<1>1. Facets(stl') = Facets(stl)
  BY DEF Facets
<1>2. ClosedSets(stl') = ClosedSets(stl)
  BY <1>1 DEF ClosedSets, ClosedIn
<1>3. Parts(stl') = Parts(stl)
  BY <1>2 DEF Parts
<1>4. \A R : OrientedBy(stl', R) <=> OrientedBy(stl, R)
  BY <1>1 DEF OrientedBy, AgreesAt
<1>5. Orientable' <=> Orientable
  BY <1>1 DEF Orientable
<1>6. QED
  BY <1>2, <1>3, <1>4, <1>5

(* Each step of the passes that write no links, after the directions.       *)
LEMMA LaterStep ==
  ASSUME TypeInv, DirectionsInv, FixNormalValues \/ CalculateVolume \/ GenerateSharedVertices
  PROVE  DirectionsInv'
<1>1. /\ phase \in {"normal_values", "volume", "shared_vertices"} /\ phase' = phase
      /\ options' = options /\ number_of_parts' = number_of_parts
  BY DEF FixNormalValues, CalculateVolume, GenerateSharedVertices, callVars, directionVars
<1>2. ~ (phase' = "normal_values" /\ pc' = "test")
  <2>1. CASE FixNormalValues
    BY <2>1 DEF FixNormalValues, Values!FixNormalValues
  <2>2. CASE CalculateVolume
    BY <2>2 DEF CalculateVolume, Values!CalculateVolume
  <2>3. CASE GenerateSharedVertices
    BY <2>3 DEF GenerateSharedVertices, callVars
  <2>4. QED
    BY <2>1, <2>2, <2>3
<1>3. /\ stl'.number_of_facets = stl.number_of_facets /\ stl'.neighbor = stl.neighbor
      /\ stl'.which_vertex_not = stl.which_vertex_not
  <2>1. CASE FixNormalValues
    <3>1. PICK n : stl' = [stl EXCEPT !.normal = n]
      BY <2>1 DEF FixNormalValues, Values!FixNormalValues
    <3>2. QED
      BY <3>1 DEF TypeInv, MeshTyped, StlFiles
  <2>2. CASE CalculateVolume \/ GenerateSharedVertices
    <3>1. stl' = stl
      BY <2>2 DEF CalculateVolume, Values!CalculateVolume, GenerateSharedVertices, Shared!Next,
         Shared!Begin, Shared!SkipCorner, Shared!StartTour, Shared!CrossEdge, Shared!TurnBack,
         Shared!EndTour, Shared!Finish
    <3>2. QED
      BY <3>1
  <2>3. QED
    BY <2>1, <2>2
<1>4. ~ Directing /\ ~ Directing' /\ (Directed' <=> Directed) /\ TurnedSoFar = {} /\ TurnedSoFar' = {}
  BY <1>1 DEF Directing, Directed, Given, TurnedSoFar
<1>5. CountInv'
  BY <1>1 DEF CountInv, BeforeDirections
<1>6. DirectedInv'
  <2>1. ASSUME Directed, stl.number_of_facets > 0
        PROVE  /\ number_of_parts = Cardinality(Parts(stl))
               /\ Orientable => OrientedBy(stl, {})
    BY <1>4, <2>1 DEF DirectionsInv, DirectedInv
  <2>2. QED
    BY <1>1, <1>2, <1>3, <1>4, <2>1, SameLinksDirected DEF DirectedInv
<1>7. QED
  BY <1>4, <1>5, <1>6 DEF DirectionsInv

(* The passes before the directions count no parts.                         *)
LEMMA EarlierStep ==
  ASSUME DirectionsInv, CheckExact \/ CheckNearby \/ RemoveUnconnected \/ FillHoles
  PROVE  DirectionsInv'
<1>1. /\ phase \in {"exact", "nearby", "remove_unconnected", "fill_holes"} /\ phase' = phase
      /\ number_of_parts' = number_of_parts
  BY DEF CheckExact, CheckNearby, RemoveUnconnected, FillHoles, callVars, directionVars
<1>2. ~ Directing /\ ~ Directing' /\ ~ Directed'
  BY <1>1 DEF Directing, Directed, AfterDirections
<1>3. CountInv'
  BY <1>1, <1>2 DEF DirectionsInv, CountInv, BeforeDirections
<1>4. QED
  BY <1>2, <1>3 DEF DirectionsInv, DirectedInv

(* From one pass to the next nothing is turned or counted: the passes after *)
(* the directions come to a mesh that is directed, or they were not asked   *)
(* for.                                                                     *)
LEMMA NextPassDirected ==
  ASSUME TypeInv, Idle, DirectionsInv, Call \/ Skip \/ Return
  PROVE  DirectionsInv'
<1>1. /\ stl' = stl /\ number_of_parts' = number_of_parts /\ options' = options
      /\ pc' \in {"test", "start"}
  BY DEF Call, Skip, Return, meshVars, directionVars
<1>2. /\ phase \in Named
      /\ phase' \in {phase, Following(phase)}
      /\ pc' = "start" => phase' = phase /\ pc = "test"
      /\ pc = "done" => phase' = IF phase = "nearby" THEN phase ELSE Following(phase)
      /\ pc # "done" => pc = "test"
      /\ pc = "test" /\ phase' # phase => ~ Called(phase)
      /\ phase # "done"
      /\ pc' = "test" => phase' = Following(phase) \/ phase = "nearby"
  <2>1. phase \in Named
    BY PhaseNames DEF TypeInv, CallTyped
  <2>2. CASE Call
    BY <2>1, <2>2 DEF Call, Called
  <2>3. CASE Skip
    BY <2>1, <2>3 DEF Skip, meshVars
  <2>4. CASE Return
    BY <2>1, <2>4 DEF Return, Idle
  <2>5. QED
    BY <2>2, <2>3, <2>4
<1>3. ~ Directing' /\ (Directing => pc = "done")
  BY <1>1, <1>2 DEF Directing
<1>4. /\ phase' \in BeforeDirections =>
           \/ phase \in BeforeDirections \ {"normal_directions"}
           \/ phase = "normal_directions" /\ pc = "test"
      /\ phase' \in AfterDirections =>
           \/ phase \in AfterDirections
           \/ phase = "normal_directions" /\ pc = "done"
           \/ phase = "normal_directions" /\ ~ Called("normal_directions")
      /\ phase' = "normal_values" /\ pc' = "test" =>
           phase = "normal_directions" /\ (pc = "done" \/ ~ Called("normal_directions"))
  BY <1>2, FollowingPhases DEF Named, BeforeDirections, AfterDirections
<1>5. CountInv'
  BY <1>1, <1>3, <1>4 DEF DirectionsInv, CountInv, BeforeDirections, Directing
<1>6. Given({"normal_directions", "fixall"})' <=> Given({"normal_directions", "fixall"})
  BY <1>1 DEF Given
<1>7. ASSUME Directed'
      PROVE  Directed
  <2>1. phase' \in AfterDirections /\ Given({"normal_directions", "fixall"})
    BY <1>3, <1>6, <1>7 DEF Directed
  <2>2. Called("normal_directions")
    BY <2>1 DEF Called
  <2>3. QED
    BY <1>4, <2>1, <2>2 DEF Directed, Directing
<1>8. ASSUME phase' = "normal_values", pc' = "test", Directed'
      PROVE  Directing
  <2>1. Called("normal_directions")
    BY <1>3, <1>6, <1>8 DEF Directed, Called
  <2>2. QED
    BY <1>4, <1>8, <2>1 DEF Directing
<1>9. TurnedSoFar' = {} /\ (pc # "reverse" => TurnedSoFar = {})
  BY <1>1 DEF TurnedSoFar
<1>10. DirectedInv'
  <2> SUFFICES ASSUME Directed', stl'.number_of_facets > 0
               PROVE  /\ number_of_parts' = Cardinality(Parts(stl'))
                      /\ Orientable' => OrientedBy(stl', {})
                      /\ phase' = "normal_values" /\ pc' = "test" =>
                           (Orientable' => \A S \in ClosedSets(stl') :
                              S # {} => \E f \in S : ~ BackwardsNormal(stl', f))
    BY <1>3, <1>9 DEF DirectedInv
  <2>1. Orientable' <=> Orientable
    BY <1>1 DEF Orientable
  <2>2. /\ number_of_parts = Cardinality(Parts(stl))
        /\ Orientable => OrientedBy(stl, {})
        /\ Directing => (Orientable => \A S \in ClosedSets(stl) :
                           S # {} => \E f \in S : ~ BackwardsNormal(stl, f))
    BY <1>1, <1>2, <1>7, <1>9 DEF DirectionsInv, DirectedInv
  <2>3. QED
    BY <1>1, <1>8, <2>1, <2>2
<1>11. QED
  BY <1>3, <1>5, <1>10 DEF DirectionsInv

(* No other step writes what is claimed.                                    *)
LEMMA StillDirected ==
  ASSUME DirectionsInv, UNCHANGED vars
  PROVE  DirectionsInv'
<1>1. /\ stl' = stl /\ i' = i /\ j' = j /\ pc' = pc /\ phase' = phase /\ options' = options
      /\ facet_num' = facet_num /\ list' = list /\ norm_sw' = norm_sw /\ checked' = checked
      /\ number_of_parts' = number_of_parts
  BY DEF vars, meshVars, callVars, directionVars
<1>2. /\ Directing' <=> Directing
      /\ Directed' <=> Directed
      /\ Orientable' <=> Orientable
      /\ TurnedSoFar' = TurnedSoFar
  BY <1>1 DEF Directing, Directed, Given, Orientable, TurnedSoFar
<1>3. CountInv'
  BY <1>1, <1>2 DEF DirectionsInv, CountInv
<1>4. DirectedInv'
  BY <1>1, <1>2 DEF DirectionsInv, DirectedInv
<1>5. ASSUME SpreadInv PROVE SpreadInv'
  <2>1. Marked' = Marked /\ Finished' = Finished
    BY <1>1 DEF Marked, Finished
  <2>2. Visited'
    BY <1>1, <1>5 DEF SpreadInv, Visited
  <2>3. Reached'
    BY <1>1, <1>5, <2>1 DEF SpreadInv, Reached
  <2>4. Together'
    BY <1>1, <1>5 DEF SpreadInv, Together
  <2>5. Counted'
    BY <1>1, <1>5, <2>1 DEF SpreadInv, Counted
  <2>6. Settled'
    BY <1>1, <1>2, <1>5, <2>1 DEF SpreadInv, Settled
  <2>7. Seeded'
    BY <1>1, <1>2, <1>5 DEF SpreadInv, Seeded
  <2>8. QED
    BY <2>2, <2>3, <2>4, <2>5, <2>6, <2>7 DEF SpreadInv
<1>6. QED
  BY <1>1, <1>2, <1>3, <1>4, <1>5 DEF DirectionsInv

(* Each step keeps what is claimed, if the links are mutual.                *)
LEMMA DirectionsInvStep ==
  ASSUME TypeInv, Idle, LinksMutual, LinksMutual', DirectionsInv, [Next]_vars
  PROVE  DirectionsInv'
<1>1. CASE FixDirections \/ ReverseAll
  <2>1. phase # "exact" /\ phase' # "exact"
    BY <1>1 DEF FixDirections, ReverseAll, callVars
  <2>2. Mutual(stl) /\ Mutual(stl')
    BY <2>1 DEF LinksMutual
  <2>3. QED
    BY <1>1, <2>2, FixDirectionsStep, ReverseAllStep
<1>2. CASE CheckExact \/ CheckNearby \/ RemoveUnconnected \/ FillHoles
  BY <1>2, EarlierStep
<1>3. CASE FixNormalValues \/ CalculateVolume \/ GenerateSharedVertices
  BY <1>3, LaterStep
<1>4. CASE Call \/ Skip \/ Return
  BY <1>4, NextPassDirected
<1>5. CASE Repaired \/ UNCHANGED vars
  BY <1>5, StillDirected DEF Repaired
<1>6. QED
  BY <1>1, <1>2, <1>3, <1>4, <1>5 DEF Next, Pass

(* The invariant of the directions, as long as the links are mutual.        *)
LEMMA DirectionsInvariant == Spec /\ []LinksMutual => []DirectionsInv
<1>1. Init => DirectionsInv
  BY DEF Init, DirectionsInv, CountInv, DirectedInv, Directing, Directed, AfterDirections
<1>2. TypeInv /\ Idle /\ LinksMutual /\ LinksMutual' /\ DirectionsInv /\ [Next]_vars
      => DirectionsInv'
  BY DirectionsInvStep
<1>3. QED
  BY <1>1, <1>2, TypedInvariant, PTL DEF Spec

-----------------------------------------------------------------------------
(****************************************************************************)
(* Theorems.                                                                *)
(****************************************************************************)
(* The passes Past("normal_directions") speaks of.                          *)
LEMMA PastDirections ==
  ASSUME phase \in Named
  PROVE  Past("normal_directions") <=> phase \in AfterDirections
<1>1. DOMAIN Phases = 1 .. 11
  BY DEF Phases
<1>2. \A k \in 1 .. 11 : Phases[k] = "normal_directions" <=> k = 6
  BY DEF Phases
<1>3. PICK l \in 1 .. 11 : Phases[l] = phase /\ \A k \in 1 .. 11 : Phases[k] = phase => k = l
  BY DEF Named, Phases
<1>4. Past("normal_directions") <=> 6 < l
  BY <1>1, <1>2, <1>3 DEF Past
<1>5. 6 < l <=> phase \in AfterDirections
  BY <1>3 DEF Phases, AfterDirections
<1>6. QED
  BY <1>4, <1>5

(* A choice of facets to turn that agrees with the normals orients the mesh; *)
(* what it holds of a part is all of it or nothing if nothing need be       *)
(* turned, and a facet in it is backwards.                                  *)
LEMMA NothingBackwards ==
  ASSUME NEW S \in SUBSET Facets(stl), AgreesWithNormals(S), OrientedBy(stl, {}),
         \A T \in ClosedSets(stl) : T # {} => \E f \in T : ~ BackwardsNormal(stl, f)
  PROVE  AgreesWithNormals({})
<1>1. \A f \in S : BackwardsNormal(stl, f)
  BY DEF AgreesWithNormals
<1>2. \A f \in S, e \in Corner : stl.neighbor[f][e] # None => stl.neighbor[f][e] \in S
  <2> TAKE f \in S, e \in Corner
  <2>1. stl.neighbor[f][e] # None =>
          ((f \in S) = (stl.neighbor[f][e] \in S)) = (stl.which_vertex_not[f][e] < 3)
    BY DEF AgreesWithNormals
  <2>2. stl.neighbor[f][e] # None =>
          ((f \in {}) = (stl.neighbor[f][e] \in {})) = (stl.which_vertex_not[f][e] < 3)
    BY DEF OrientedBy, AgreesAt
  <2>3. stl.neighbor[f][e] # None => stl.which_vertex_not[f][e] < 3
    BY <2>2
  <2>4. QED
    BY <2>1, <2>3
<1>3. S \in ClosedSets(stl)
  BY <1>2 DEF ClosedSets, ClosedIn
<1>4. S = {}
  BY <1>1, <1>3
<1>5. QED
  BY <1>4

(* What the invariant says of the properties.                               *)
LEMMA DirectionsInvImplies ==
  ASSUME TypeInv, DirectionsInv
  PROVE  PartsCounted /\ DirectionsAgree /\ DirectionsFollowNormals
<1>1. phase \in Named
  BY PhaseNames DEF TypeInv, CallTyped
<1>2. Past("normal_directions") /\ Given({"normal_directions", "fixall"}) => Directed
  BY <1>1, PastDirections DEF Directed
<1>3. stl.number_of_facets \in Nat /\ (stl.number_of_facets > 0 \/ Facets(stl) = {})
  BY MaxFacetsAssumption DEF TypeInv, MeshTyped, StlFiles, Facets
<1>4. PartsCounted
  BY <1>2, PartsAreParts DEF PartsCounted, DirectionsInv, DirectedInv
<1>5. DirectionsAgree
  <2> SUFFICES ASSUME Between, Past("normal_directions"), Given({"normal_directions", "fixall"}),
                      Orientable, NEW f \in Facets(stl), NEW e \in Corner,
                      stl.neighbor[f][e] # None
               PROVE  stl.which_vertex_not[f][e] < 3
    BY DEF DirectionsAgree
  <2>1. TurnedSoFar = {}
    BY DEF Between, TurnedSoFar
  <2>2. OrientedBy(stl, {})
    BY <1>2, <1>3, <2>1 DEF DirectionsInv, DirectedInv
  <2>3. ((f \in {}) = (stl.neighbor[f][e] \in {})) = (stl.which_vertex_not[f][e] < 3)
    BY <2>2 DEF OrientedBy, AgreesAt
  <2>4. QED
    BY <2>3
<1>6. DirectionsFollowNormals
  <2> SUFFICES ASSUME phase = "normal_values", pc = "test",
                      Given({"normal_directions", "fixall"}),
                      NEW S \in SUBSET Facets(stl), AgreesWithNormals(S)
               PROVE  AgreesWithNormals({})
    BY DEF DirectionsFollowNormals
  <2>1. CASE Facets(stl) = {}
    BY <2>1 DEF AgreesWithNormals
  <2>2. CASE stl.number_of_facets > 0
    <3>1. Directed /\ TurnedSoFar = {}
      BY DEF Directed, AfterDirections, TurnedSoFar
    <3>2. OrientedBy(stl, S)
      BY DEF AgreesWithNormals, OrientedBy, AgreesAt
    <3>3. Orientable
      BY <3>2, OrientableBy
    <3>4. /\ OrientedBy(stl, {})
          /\ \A T \in ClosedSets(stl) : T # {} => \E f \in T : ~ BackwardsNormal(stl, f)
      BY <2>2, <3>1, <3>3 DEF DirectionsInv, DirectedInv
    <3>5. QED
      BY <3>4, NothingBackwards
  <2>3. QED
    BY <1>3, <2>1, <2>2
<1>7. QED
  BY <1>4, <1>5, <1>6

(* What the three properties say, together.                                 *)
DirectionsFixed == PartsCounted /\ DirectionsAgree /\ DirectionsFollowNormals

(* With mutual links the directions are fixed.                              *)
LEMMA MutualLinksDirect == Spec /\ []LinksMutual => []DirectionsFixed
<1>1. TypeInv /\ DirectionsInv => DirectionsFixed
  BY DirectionsInvImplies DEF DirectionsFixed
<1>2. QED
  BY <1>1, DirectionsInvariant, TypedInvariant, PTL

(* Without an exact check the directions are not asked for.                 *)
LEMMA DirectionsNotAsked == Spec /\ ~ Called("exact") => []DirectionsFixed
<1>1. ~ Called("exact") => DirectionsFixed
  <2> SUFFICES ASSUME ~ Called("exact") PROVE DirectionsFixed
    OBVIOUS
  <2>1. options.flags \ {"reverse_all", "normal_values", "generate_shared_vertices"} = {}
    BY DEF Called
  <2>2. ~ Given({"normal_directions", "fixall"})
    BY <2>1 DEF Given
  <2>3. QED
    BY <2>2 DEF DirectionsFixed, PartsCounted, DirectionsAgree, DirectionsFollowNormals
<1>2. QED
  BY <1>1, NeverCalled, PTL DEF Spec

(* The number of parts is that of the mesh, and the passes after the one    *)
(* that counts them keep it so, unless stl_remove_degenerate joins the      *)
(* neighbours of a facet the nearby check has made degenerate.              *)
THEOREM PartsAreCounted == Spec /\ [][~ DegenerateJoined]_vars => []PartsCounted
<1>1. DirectionsFixed => PartsCounted
  BY DEF DirectionsFixed
<1>2. QED
  BY <1>1, LinksAreMutual, MutualLinksDirect, DirectionsNotAsked, PTL

(* Under the same condition a mesh that can be oriented is: whatever facet  *)
(* the spreading starts from, turning the neighbours that disagree, one by  *)
(* one, never turns a facet that was settled, and turning every facet keeps *)
(* the agreement.                                                           *)
THEOREM DirectionsAgreeOnceFixed == Spec /\ [][~ DegenerateJoined]_vars => []DirectionsAgree
<1>1. DirectionsFixed => DirectionsAgree
  BY DEF DirectionsFixed
<1>2. QED
  BY <1>1, LinksAreMutual, MutualLinksDirect, DirectionsNotAsked, PTL

(* Under the same condition a mesh with consistent normals gets the         *)
(* directions they say: the first facet of a part has the right side, and   *)
(* no part can agree with its normals when it is turned as a whole.         *)
THEOREM DirectionsFollowTheNormals ==
  Spec /\ [][~ DegenerateJoined]_vars => []DirectionsFollowNormals
<1>1. DirectionsFixed => DirectionsFollowNormals
  BY DEF DirectionsFixed
<1>2. QED
  BY <1>1, LinksAreMutual, MutualLinksDirect, DirectionsNotAsked, PTL

(* Without the nearby check no condition is needed.                         *)
THEOREM DirectionsFixedWithoutNearby ==
  Spec /\ WithoutNearby => [](PartsCounted /\ DirectionsAgree /\ DirectionsFollowNormals)
<1>1. DirectionsFixed <=> PartsCounted /\ DirectionsAgree /\ DirectionsFollowNormals
  BY DEF DirectionsFixed
<1>2. QED
  BY <1>1, SoundWithoutNearby, MutualLinksDirect, DirectionsNotAsked, PTL

-----------------------------------------------------------------------------
(****************************************************************************)
(* Fans of corners.                                                         *)
(****************************************************************************)
(* The corner a dart turns around, as SharedVerticesExact names it.         *)
At(a) == <<a.facet, CornerAt(a)>>
CornersOf(R) == {At(a) : a \in R}

(* C is closed if no connected edge leaves it.                              *)
FanClosedIn(s, C) ==
  \A a \in Darts(s) : Linked(s, a) => (At(a) \in C <=> At(Over(s, a)) \in C)

(* The darts a walk around a vertex has passed, one for each corner, all    *)
(* the same way around: it is about to leave across front, and before back  *)
(* it has not been.  Every other dart leads to another, and comes from one. *)
Strip(s, R, front, back) ==
  /\ R \subseteq Darts(s) /\ front \in R /\ back \in R
  /\ \A r \in R : Around(r) \notin R
  /\ \A r, q \in R : PivotOf(s, r) = PivotOf(s, q)
  /\ \A r \in R \ {front} : Linked(s, r) /\ Around(Over(s, r)) \in R
  /\ \A r \in R \ {back} : Linked(s, Around(r)) /\ Over(s, Around(r)) \in R

(* The walk has been everywhere: nothing connected is left out.             *)
Fan(s, R) ==
  /\ R \subseteq Darts(s)
  /\ \A r \in R : /\ Linked(s, r) => Around(Over(s, r)) \in R
                  /\ Linked(s, Around(r)) => Over(s, Around(r)) \in R

(* Every closed set with the corner c has all corners of R.                 *)
Spanned(s, R, c) == \A C : FanClosedIn(s, C) /\ c \in C => CornersOf(R) \subseteq C

(* The two darts of a facet at a corner turn around the same one.           *)
LEMMA AroundAt ==
  ASSUME NEW s, NEW a \in Darts(s)
  PROVE  At(Around(a)) = At(a)
<1>1. Around(a) \in Darts(s)
  BY AroundTwice
<1>2. a.facet = Around(a).facet /\ CornerAt(a) = CornerAt(Around(a))
  BY <1>1, DartsAtCorner
<1>3. QED
  BY <1>2 DEF At

(* Darts with the same corner are one, or the two of their facet.           *)
LEMMA SameAt ==
  ASSUME NEW s, NEW a \in Darts(s), NEW b \in Darts(s), At(a) = At(b)
  PROVE  b \in {a, Around(a)}
<1>1. a.facet = b.facet /\ CornerAt(a) = CornerAt(b)
  BY DEF At
<1>2. QED
  BY <1>1, DartsAtCorner

(* A walk begins with one dart.                                             *)
LEMMA StripBegins ==
  ASSUME NEW s, NEW x \in Darts(s)
  PROVE  Strip(s, {x}, x, x)
BY AroundTwice DEF Strip

(* It goes on to the next facet, at an edge it has not come from.           *)
LEMMA StripGoesOn ==
  ASSUME NEW s \in StlFiles, Mutual(s), EdgesRight(s), NEW R, NEW x, NEW b,
         Strip(s, R, x, b), Linked(s, x)
  PROVE  LET y == Around(Over(s, x))
         IN  /\ Over(s, x) \notin R
             /\ Strip(s, R \cup {y}, y, b)
             /\ At(y) = At(Over(s, x))
<1> DEFINE o == Over(s, x)
           y == Around(o)
           T == R \cup {y}
<1>1. /\ R \subseteq Darts(s) /\ x \in R /\ b \in R
      /\ \A r \in R : Around(r) \notin R
      /\ \A r, q \in R : PivotOf(s, r) = PivotOf(s, q)
      /\ \A r \in R \ {x} : Linked(s, r) /\ Around(Over(s, r)) \in R
      /\ \A r \in R \ {b} : Linked(s, Around(r)) /\ Over(s, Around(r)) \in R
  BY DEF Strip
<1>2. /\ x \in Darts(s) /\ o \in Darts(s) /\ o.facet # x.facet /\ Linked(s, o)
      /\ Over(s, o) = x /\ PivotOf(s, o) = PivotOf(s, x)
  BY <1>1, OverBack
<1>3. /\ y \in Darts(s) /\ Around(y) = o /\ y # o /\ PivotOf(s, y) = PivotOf(s, o)
  BY <1>2, AroundTwice
<1>4. At(y) = At(o)
  BY <1>2, AroundAt
<1> HIDE DEF o
<1>5. o \notin R
  <2>1. o \in R => o # x
    BY <1>2
  <2>2. o \in R => Around(x) \in R
    BY <1>1, <1>2, <2>1
  <2>3. QED
    BY <1>1, <2>2
<1> HIDE DEF y
<1>6. \A r \in T : Around(r) \notin T
  <2>1. \A r \in R : Around(r) # y
    <3> SUFFICES ASSUME NEW r \in R, Around(r) = y PROVE FALSE
      OBVIOUS
    <3>1. Around(y) = r
      BY <1>1, AroundTwice
    <3>2. QED
      BY <1>3, <1>5, <3>1
  <2>2. QED
    BY <1>1, <1>3, <1>5, <2>1
<1>7. \A r, q \in T : PivotOf(s, r) = PivotOf(s, q)
  BY <1>1, <1>2, <1>3
<1>8. \A r \in T \ {y} : Linked(s, r) /\ Around(Over(s, r)) \in T
  BY <1>1 DEF o, y
<1>9. \A r \in T \ {b} : Linked(s, Around(r)) /\ Over(s, Around(r)) \in T
  BY <1>1, <1>2, <1>3
<1>10. Strip(s, T, y, b)
  BY <1>1, <1>3, <1>6, <1>7, <1>8, <1>9 DEF Strip
<1>11. QED
  BY <1>4, <1>5, <1>10 DEF o, y

(* Or it turns back at the first facet, and goes the other way around.      *)
LEMMA StripTurned ==
  ASSUME NEW s \in StlFiles, Mutual(s), NEW R, NEW x, NEW b, Strip(s, R, x, b)
  PROVE  LET T == {Around(r) : r \in R}
         IN  Strip(s, T, Around(b), Around(x)) /\ CornersOf(T) = CornersOf(R)
<1> DEFINE T == {Around(r) : r \in R}
<1>1. /\ R \subseteq Darts(s) /\ x \in R /\ b \in R
      /\ \A r \in R : Around(r) \notin R
      /\ \A r, q \in R : PivotOf(s, r) = PivotOf(s, q)
      /\ \A r \in R \ {x} : Linked(s, r) /\ Around(Over(s, r)) \in R
      /\ \A r \in R \ {b} : Linked(s, Around(r)) /\ Over(s, Around(r)) \in R
  BY DEF Strip
<1>2. \A r \in R : /\ Around(r) \in Darts(s) /\ Around(Around(r)) = r
                   /\ PivotOf(s, Around(r)) = PivotOf(s, r) /\ At(Around(r)) = At(r)
  BY <1>1, AroundTwice, AroundAt
<1>3. T \subseteq Darts(s) /\ Around(b) \in T /\ Around(x) \in T
  BY <1>1, <1>2
<1>4. \A t \in T : Around(t) \in R /\ Around(Around(t)) = t
  BY <1>2
<1>5. \A t \in T : Around(t) \notin T
  BY <1>1, <1>4
<1>6. \A t, u \in T : PivotOf(s, t) = PivotOf(s, u)
  BY <1>1, <1>2
<1>7. ASSUME NEW t \in T \ {Around(b)} PROVE Linked(s, t) /\ Around(Over(s, t)) \in T
  <2>1. Around(t) \in R \ {b} /\ Around(Around(t)) = t
    BY <1>4
  <2>2. Linked(s, t) /\ Over(s, t) \in R
    BY <1>1, <2>1
  <2>3. QED
    BY <2>2
<1>8. ASSUME NEW t \in T \ {Around(x)} PROVE Linked(s, Around(t)) /\ Over(s, Around(t)) \in T
  <2>1. Around(t) \in R \ {x}
    BY <1>4
  <2> DEFINE r == Around(t)
  <2>2. Linked(s, r) /\ Around(Over(s, r)) \in R /\ r \in Darts(s)
    BY <1>1, <2>1
  <2>3. Over(s, r) \in Darts(s)
    BY <2>2, OverMutual
  <2>4. Around(Around(Over(s, r))) = Over(s, r)
    BY <2>3, AroundTwice
  <2>5. QED
    BY <2>2, <2>4
<1>9. CornersOf(T) = CornersOf(R)
  BY <1>2, <1>4 DEF CornersOf
<1> HIDE DEF T
<1>10. Strip(s, T, Around(b), Around(x))
  BY <1>3, <1>5, <1>6, <1>7, <1>8 DEF Strip
<1>11. QED
  BY <1>9, <1>10 DEF T

(* Where both ends are unconnected it has been everywhere.                  *)
LEMMA StripEnds ==
  ASSUME NEW s, NEW R, NEW x, NEW b, Strip(s, R, x, b), ~ Linked(s, x), ~ Linked(s, Around(b))
  PROVE  Fan(s, R)
BY DEF Strip, Fan

(* So it has when it comes to the facet it started from.  That facet has    *)
(* one corner there, since it is not degenerate.                            *)
LEMMA StripCloses ==
  ASSUME NEW s \in StlFiles, Mutual(s), EdgesRight(s), Proper(s), NEW R, NEW x, NEW b,
         Strip(s, R, x, b), Linked(s, x),
         NEW z \in R, Over(s, x).facet = z.facet, z = b \/ ~ Linked(s, Around(b))
  PROVE  Fan(s, R)
<1> DEFINE o == Over(s, x)
<1>1. /\ R \subseteq Darts(s) /\ x \in R /\ b \in R
      /\ \A r, q \in R : PivotOf(s, r) = PivotOf(s, q)
      /\ \A r \in R \ {x} : Linked(s, r) /\ Around(Over(s, r)) \in R
      /\ \A r \in R \ {b} : Linked(s, Around(r)) /\ Over(s, Around(r)) \in R
  BY DEF Strip
<1>2. /\ x \in Darts(s) /\ o \in Darts(s) /\ Linked(s, o)
      /\ Over(s, o) = x /\ PivotOf(s, o) = PivotOf(s, x)
  BY <1>1, OverBack
<1>3. o \notin R
  BY StripGoesOn
<1> HIDE DEF o
<1>4. o \in {z, Around(z)}
  <2>1. z \in Darts(s) /\ PivotOf(s, z) = PivotOf(s, o) /\ z.facet = o.facet
    BY <1>1, <1>2 DEF o
  <2>2. QED
    BY <1>2, <2>1, TwoAtACorner
<1>5. o = Around(z) /\ Around(o) = z
  <2>1. Around(Around(z)) = z
    BY <1>1, AroundTwice
  <2>2. QED
    BY <1>3, <1>4, <2>1
<1>6. Around(Over(s, x)) \in R
  BY <1>5 DEF o
<1>7. Linked(s, Around(b)) => Over(s, Around(b)) \in R
  BY <1>1, <1>2, <1>5
<1>8. QED
  BY <1>1, <1>6, <1>7 DEF Fan

(* The corners of a fan are closed.                                         *)
LEMMA FanIsClosed ==
  ASSUME NEW s \in StlFiles, Mutual(s), NEW R, Fan(s, R)
  PROVE  FanClosedIn(s, CornersOf(R))
<1>1. /\ R \subseteq Darts(s)
      /\ \A r \in R : /\ Linked(s, r) => Around(Over(s, r)) \in R
                      /\ Linked(s, Around(r)) => Over(s, Around(r)) \in R
  BY DEF Fan
<1>2. ASSUME NEW a \in Darts(s), Linked(s, a), At(a) \in CornersOf(R)
      PROVE  At(Over(s, a)) \in CornersOf(R)
  <2>1. PICK r \in R : At(a) = At(r)
    BY <1>2 DEF CornersOf
  <2>2. a \in {r, Around(r)}
    BY <1>1, <2>1, SameAt
  <2>3. Over(s, a) \in Darts(s)
    BY <1>2, OverMutual
  <2>4. At(Around(Over(s, a))) = At(Over(s, a))
    BY <2>3, AroundAt
  <2>5. Around(Over(s, a)) \in R \/ Over(s, a) \in R
    BY <1>1, <1>2, <2>2
  <2>6. QED
    BY <2>4, <2>5 DEF CornersOf
<1>3. ASSUME NEW a \in Darts(s), Linked(s, a), At(Over(s, a)) \in CornersOf(R)
      PROVE  At(a) \in CornersOf(R)
  <2>1. Over(s, a) \in Darts(s) /\ Linked(s, Over(s, a)) /\ Over(s, Over(s, a)) = a
    BY <1>3, OverMutual
  <2>2. At(Over(s, Over(s, a))) \in CornersOf(R)
    BY <1>2, <1>3, <2>1
  <2>3. QED
    BY <2>1, <2>2
<1>4. QED
  BY <1>2, <1>3 DEF FanClosedIn

(* What is left of a closed set without another one is closed.              *)
LEMMA FansApart ==
  ASSUME NEW s, NEW C, NEW D, FanClosedIn(s, C), FanClosedIn(s, D)
  PROVE  FanClosedIn(s, C \ D)
BY DEF FanClosedIn

(* So are all corners.                                                      *)
LEMMA AllIsClosed ==
  ASSUME NEW s \in StlFiles, Mutual(s)
  PROVE  /\ \A a \in Darts(s) : At(a) \in Facets(s) \X Corner
         /\ FanClosedIn(s, Facets(s) \X Corner)
<1>1. \A a \in Darts(s) : At(a) \in Facets(s) \X Corner
  <2> SUFFICES ASSUME NEW a \in Darts(s) PROVE At(a) \in Facets(s) \X Corner
    OBVIOUS
  <2>1. a.edge \in Corner /\ a.facet \in Facets(s)
    BY DEF Darts
  <2>2. CornerAt(a) \in Corner
    BY <2>1, CornersInARow DEF CornerAt
  <2>3. QED
    BY <2>1, <2>2 DEF At
<1>2. \A a \in Darts(s) : Linked(s, a) => Over(s, a) \in Darts(s)
  BY OverMutual
<1>3. QED
  BY <1>1, <1>2 DEF FanClosedIn

(* A fan reached from one of its corners is a smallest closed set.          *)
LEMMA FanIsSmallest ==
  ASSUME NEW s, NEW S, FanClosedIn(s, S), NEW c \in S,
         \A D : FanClosedIn(s, D) /\ c \in D => S \subseteq D
  PROVE  \A C \in SUBSET S : FanClosedIn(s, C) => C \in {{}, S}
<1> SUFFICES ASSUME NEW C \in SUBSET S, FanClosedIn(s, C) PROVE C \in {{}, S}
  OBVIOUS
<1>1. CASE c \in C
  BY <1>1
<1>2. CASE c \notin C
  <2>1. FanClosedIn(s, S \ C)
    BY FansApart
  <2>2. S \subseteq S \ C
    BY <1>2, <2>1
  <2>3. QED
    BY <2>2
<1>3. QED
  BY <1>1, <1>2

-----------------------------------------------------------------------------
(****************************************************************************)
(* The invariant of the shared vertices.                                    *)
(****************************************************************************)
(* The property speaks of the same sets.                                    *)
LEMMA FanClosedByDarts ==
  ASSUME stl \in StlFiles, NEW C
  PROVE  FanClosed(C) <=> FanClosedIn(stl, C)
<1> DEFINE Two(f, e) ==
             LET g    == stl.neighbor[f][e]
                 vnot == stl.which_vertex_not[f][e]
                 start == IF vnot < 3 THEN Prev3(vnot) ELSE Next3(vnot)
                 end   == IF vnot < 3 THEN Next3(vnot) ELSE Prev3(vnot)
             IN  g # None =>
                   /\ (<<f, e>> \in C) = (<<g, start>> \in C)
                   /\ (<<f, Next3(e)>> \in C) = (<<g, end>> \in C)
           Dart(f, e, d) == [facet |-> f, edge |-> e, direction |-> d]
<1>1. FanClosed(C) <=> \A f \in Facets(stl), e \in Corner : Two(f, e)
  BY DEF FanClosed
<1>2. ASSUME NEW f \in Facets(stl), NEW e \in Corner
      PROVE  LET g    == stl.neighbor[f][e]
                 vnot == stl.which_vertex_not[f][e]
             IN  /\ Linked(stl, Dart(f, e, 1)) <=> g # None
                 /\ Linked(stl, Dart(f, e, 0)) <=> g # None
                 /\ At(Dart(f, e, 1)) = <<f, e>>
                 /\ At(Dart(f, e, 0)) = <<f, Next3(e)>>
                 /\ At(Over(stl, Dart(f, e, 1))) =
                      <<g, IF vnot < 3 THEN Prev3(vnot) ELSE Next3(vnot)>>
                 /\ At(Over(stl, Dart(f, e, 0))) =
                      <<g, IF vnot < 3 THEN Next3(vnot) ELSE Prev3(vnot)>>
  <2> DEFINE g == stl.neighbor[f][e]
             vnot == stl.which_vertex_not[f][e]
  <2>1. f \in Slot
    BY FacetsAreSlots
  <2>2. vnot \in 0 .. 5
    BY <2>1 DEF StlFiles
  <2>3. Next3(Next3(vnot)) = Prev3(vnot)
    BY <2>2, CornersInARow
  <2>4. /\ Over(stl, Dart(f, e, 1)) = [facet |-> g, edge |-> Next3(vnot),
                                      direction |-> IF vnot < 3 THEN 0 ELSE 1]
        /\ Over(stl, Dart(f, e, 0)) = [facet |-> g, edge |-> Next3(vnot),
                                      direction |-> IF vnot < 3 THEN 1 ELSE 0]
    BY DEF Over
  <2>5. \A d \in {0, 1} : /\ Linked(stl, Dart(f, e, d)) <=> g # None
                         /\ At(Dart(f, e, d)) = <<f, IF d = 1 THEN e ELSE Next3(e)>>
    BY DEF Linked, At, CornerAt
  <2> HIDE DEF g, vnot, Dart
  <2>6. /\ At(Over(stl, Dart(f, e, 1))) = <<g, IF vnot < 3 THEN Prev3(vnot) ELSE Next3(vnot)>>
        /\ At(Over(stl, Dart(f, e, 0))) = <<g, IF vnot < 3 THEN Next3(vnot) ELSE Prev3(vnot)>>
    <3>1. CASE vnot < 3
      BY <2>3, <2>4, <3>1 DEF At, CornerAt
    <3>2. CASE ~ (vnot < 3)
      BY <2>3, <2>4, <3>2 DEF At, CornerAt
    <3>3. QED
      BY <3>1, <3>2
  <2>7. QED
    BY <2>5, <2>6 DEF g, vnot
<1> DEFINE Shares(a) == Linked(stl, a) => (At(a) \in C <=> At(Over(stl, a)) \in C)
<1>3. ASSUME NEW f \in Facets(stl), NEW e \in Corner
      PROVE  Two(f, e) <=> Shares(Dart(f, e, 1)) /\ Shares(Dart(f, e, 0))
  BY <1>2
<1>4. \A f \in Facets(stl), e \in Corner, d \in {0, 1} : Dart(f, e, d) \in Darts(stl)
  BY DEF Darts
<1>5. \A a \in Darts(stl) : \E f \in Facets(stl), e \in Corner, d \in {0, 1} : a = Dart(f, e, d)
  BY DEF Darts
<1>6. FanClosedIn(stl, C) <=> \A a \in Darts(stl) : Shares(a)
  BY DEF FanClosedIn
<1> HIDE DEF Two, Dart, Shares
<1>7. QED
  BY SMTT(20), <1>1, <1>3, <1>4, <1>5, <1>6

(* The corners with index n are a fan with its vertex.                      *)
Vertexed(n) ==
  /\ Indexed(n) # {}
  /\ FanClosedIn(stl, Indexed(n))
  /\ \A C \in SUBSET Indexed(n) : FanClosedIn(stl, C) => C \in {{}, Indexed(n)}
  /\ \A c \in Indexed(n) : stl.facet_start[c[1]][c[2]] = v_shared[n + 1]

(* No other index is given, and no corner passed has none.                  *)
IndicesInv ==
  /\ \A f \in Facets(stl), c \in Corner :
       v_indices[f][c] \in (0 .. Len(v_shared) - 1) \cup {None}
  /\ \A f \in Facets(stl), c \in Corner : Behind(f, c) => v_indices[f][c] # None

(* Between two walks all vertices are complete.                             *)
BetweenToursInv ==
  /\ \A n \in 0 .. Len(v_shared) - 1 : Vertexed(n)
  /\ IndicesInv

(* Where a walk starts.                                                     *)
StartDart == [facet |-> i, edge |-> Prev3(j), direction |-> 0]

(* R are the darts of the walk up to now, b the first one, before which     *)
(* nothing is connected if the walk has turned back.                        *)
Touring(R, b) ==
  /\ Strip(stl, R, Toward(tour), b)
  /\ Spanned(stl, R, <<i, j>>)
  /\ <<i, j>> \in CornersOf(R)
  /\ CornersOf(R) = Indexed(Len(v_shared) - 1) \cup {At(Toward(tour))}
  /\ IF tour.reversed THEN ~ Linked(stl, Around(b)) ELSE b = StartDart

(* During a walk the last one is not: its corners are those of the facets   *)
(* left so far, all of them to be reached from the first corner.            *)
TourInv ==
  /\ Len(v_shared) > 0
  /\ \A n \in 0 .. Len(v_shared) - 2 : Vertexed(n)
  /\ IndicesInv
  /\ i \in Facets(stl)
  /\ v_indices[i][j] \in {None, Len(v_shared) - 1}
  /\ v_shared[Len(v_shared)] = stl.facet_start[i][j]
  /\ tour.facet_num \in Facets(stl)
  /\ \E R \in SUBSET Darts(stl), b \in Darts(stl) : Touring(R, b)

(* The vertices are what they should be.                                    *)
AllShared ==
  /\ \A n \in 0 .. Len(v_shared) - 1 : Vertexed(n)
  /\ \A f \in Facets(stl), c \in Corner : v_indices[f][c] \in 0 .. Len(v_shared) - 1

(* What is known of the generation of the shared vertices.                  *)
SharedInv ==
  /\ phase = "shared_vertices" /\ pc = "corner" => BetweenToursInv
  /\ phase = "shared_vertices" /\ pc = "tour" => TourInv
  /\ phase = "shared_vertices" /\ pc = "done" => AllShared
  /\ phase = "done" /\ Given({"generate_shared_vertices"}) => AllShared

-----------------------------------------------------------------------------
(****************************************************************************)
(* The steps of a walk.                                                     *)
(****************************************************************************)
(* The walk stands at a dart of the mesh, and indexes its corner.           *)
LEMMA TourDart ==
  ASSUME TypeInv, tour.facet_num \in Facets(stl)
  PROVE  LET x == Toward(tour)
         IN  /\ x \in Darts(stl) /\ x.facet = tour.facet_num
             /\ x.edge = Shared!Turned.next_edge /\ x.direction = Shared!Turned.direction
             /\ CornerAt(x) = Shared!Turned.pivot_vertex
             /\ Linked(stl, x) <=> Shared!Across # None
             /\ Over(stl, x).facet = Shared!Across
<1>1. tour.vnot \in 0 .. 5 /\ tour.direction \in {0, 1} /\ tour.facet_num \in Slot
  BY DEF TypeInv, PassTyped
<1>2. Shared!Turned = Turn(tour.vnot, tour.direction)
  BY SharedOperators DEF Shared!Turned
<1> DEFINE v == CHOOSE u \in Vertex : TRUE
           w == [first |-> tour.facet_num, facet_num |-> tour.facet_num, vnot |-> tour.vnot,
                 direction |-> tour.direction, vertex |-> v]
<1>3. v \in Vertex
  BY VertexAssumption
<1> HIDE DEF v
<1>4. w \in VertexWalk /\ w.facet_num \in Facets(stl)
  BY <1>1, <1>3 DEF VertexWalk
<1>5. Toward(w) = Toward(tour)
  BY DEF Toward
<1>6. /\ Toward(tour) \in Darts(stl) /\ Toward(tour).facet = tour.facet_num
      /\ Toward(tour).edge = Turn(tour.vnot, tour.direction).next_edge
      /\ CornerAt(Toward(tour)) = Turn(tour.vnot, tour.direction).pivot_vertex
  BY <1>4, <1>5, MovesBetween
<1>7. Toward(tour).direction = Turn(tour.vnot, tour.direction).direction
  BY DEF Toward
<1>8. Shared!Across = stl.neighbor[tour.facet_num][Shared!Turned.next_edge]
  BY DEF Shared!Across
<1> HIDE DEF w
<1>9. /\ Linked(stl, Toward(tour)) <=> Shared!Across # None
      /\ Over(stl, Toward(tour)).facet = Shared!Across
  BY <1>2, <1>6, <1>8 DEF Linked, Over
<1>10. QED
  BY <1>2, <1>6, <1>7, <1>9

(* Across an edge it comes to the other edge of the neighbour.              *)
LEMMA TourGoesOn ==
  ASSUME TypeInv, Mutual(stl), tour.facet_num \in Facets(stl), Linked(stl, Toward(tour)),
         NEW on, on = [tour EXCEPT
                         !.facet_num = Shared!Across,
                         !.vnot = stl.which_vertex_not[tour.facet_num][Shared!Turned.next_edge],
                         !.direction = Shared!Turned.direction]
  PROVE  on.facet_num \in Facets(stl) /\ Toward(on) = Around(Over(stl, Toward(tour)))
         /\ on.reversed = tour.reversed
<1>1. /\ tour.vnot \in 0 .. 5 /\ tour.direction \in {0, 1} /\ tour.facet_num \in Slot
      /\ tour \in [facet_num : Slot, vnot : 0 .. 5, direction : {0, 1}, reversed : BOOLEAN]
      /\ stl \in StlFiles
  BY DEF TypeInv, PassTyped, MeshTyped
<1> DEFINE v == CHOOSE u \in Vertex : TRUE
           w == [first |-> tour.facet_num, facet_num |-> tour.facet_num, vnot |-> tour.vnot,
                 direction |-> tour.direction, vertex |-> v]
           far == stl.neighbor[w.facet_num][Toward(w).edge]
           vnot == stl.which_vertex_not[w.facet_num][Toward(w).edge]
           next == [w EXCEPT !.facet_num = far, !.vnot = vnot, !.direction = Toward(w).direction]
<1>2. v \in Vertex
  BY VertexAssumption
<1> HIDE DEF v
<1>3. w \in VertexWalk /\ w.facet_num \in Facets(stl) /\ w.facet_num = tour.facet_num
  BY <1>1, <1>2 DEF VertexWalk
<1>4. Toward(w) = Toward(tour)
  BY DEF Toward
<1>5. next.facet_num \in Facets(stl) /\ Toward(next) = Around(Over(stl, Toward(w)))
  <2> HIDE DEF w
  <2>1. Linked(stl, Toward(w))
    BY <1>4
  <2>2. QED
    BY <1>1, <1>3, <2>1, GoesOn
<1>6. /\ Toward(tour).edge = Shared!Turned.next_edge
      /\ Toward(tour).direction = Shared!Turned.direction
  BY TourDart
<1>7. Shared!Across = far
  BY <1>3, <1>4, <1>6 DEF Shared!Across
<1>8. /\ on.facet_num = far /\ on.vnot = vnot /\ on.direction = Toward(w).direction
      /\ on.reversed = tour.reversed
  BY <1>1, <1>3, <1>4, <1>6, <1>7
<1>9. next.facet_num = far /\ next.vnot = vnot /\ next.direction = Toward(w).direction
  BY DEF w
<1> HIDE DEF w, far, vnot, next
<1>10. Toward(on) = Toward(next)
  BY <1>8, <1>9 DEF Toward
<1>11. QED
  BY <1>4, <1>5, <1>8, <1>9, <1>10

(* The two ways around the first corner.                                    *)
LEMMA TourStarts ==
  ASSUME TypeInv, i \in Facets(stl), NEW r
  PROVE  /\ StartDart \in Darts(stl) /\ At(StartDart) = <<i, j>>
         /\ Toward([facet_num |-> i, vnot |-> Prev3(j), direction |-> 0, reversed |-> r])
              = StartDart
         /\ Toward([facet_num |-> i, vnot |-> Next3(j), direction |-> 1, reversed |-> r])
              = Around(StartDart)
<1>1. j \in Corner
  BY DEF TypeInv, MeshTyped
<1>2. Prev3(j) \in Corner /\ Next3(Prev3(j)) = j
  BY <1>1, CornersInARow
<1>3. \A e \in Corner :
        /\ Turn(Prev3(e), 0).next_edge = Prev3(e) /\ Turn(Prev3(e), 0).direction = 0
        /\ Turn(Next3(e), 1).next_edge = e /\ Turn(Next3(e), 1).direction = 1
  BY DEF Turn, Corner, Next3, Prev3
<1>4. StartDart \in Darts(stl)
  BY <1>2 DEF StartDart, Darts
<1>5. At(StartDart) = <<i, j>>
  BY <1>2 DEF StartDart, At, CornerAt
<1>6. Around(StartDart) = [facet |-> i, edge |-> j, direction |-> 1]
  BY <1>2 DEF StartDart, Around
<1>7. QED
  BY <1>1, <1>3, <1>4, <1>5, <1>6 DEF StartDart, Toward

(* One corner gets an index.                                                *)
LEMMA OneIndexed ==
  ASSUME stl \in StlFiles, v_indices \in [Slot -> [Corner -> Nat \cup {None}]],
         NEW x \in Darts(stl), NEW n \in Nat, stl' = stl,
         v_indices' = [v_indices EXCEPT ![x.facet][CornerAt(x)] = n]
  PROVE  /\ \A f \in Facets(stl), c \in Corner :
              v_indices'[f][c] = IF <<f, c>> = At(x) THEN n ELSE v_indices[f][c]
         /\ Indexed(n)' = Indexed(n) \cup {At(x)}
         /\ \A m : m # n => Indexed(m)' = Indexed(m) \ {At(x)}
<1>1. x.facet \in Facets(stl) /\ CornerAt(x) \in Corner /\ Facets(stl) \subseteq Slot
  <2>1. x.facet \in Facets(stl) /\ x.edge \in Corner
    BY DEF Darts
  <2>2. CornerAt(x) \in Corner
    BY <2>1, CornersInARow DEF CornerAt
  <2>3. QED
    BY <2>1, <2>2, FacetsAreSlots
<1>2. \A f \in Facets(stl), c \in Corner :
        v_indices'[f][c] = IF f = x.facet /\ c = CornerAt(x) THEN n ELSE v_indices[f][c]
  BY <1>1
<1>3. \A f \in Facets(stl), c \in Corner :
        v_indices'[f][c] = IF <<f, c>> = At(x) THEN n ELSE v_indices[f][c]
  BY <1>2 DEF At
<1>4. \A m : /\ Indexed(m)' \subseteq Facets(stl) \X Corner
             /\ Indexed(m) \subseteq Facets(stl) \X Corner
             /\ \A f \in Facets(stl), c \in Corner :
                  /\ <<f, c>> \in Indexed(m)' <=> v_indices'[f][c] = m
                  /\ <<f, c>> \in Indexed(m) <=> v_indices[f][c] = m
  BY DEF Indexed, Facets
<1>5. At(x) \in Facets(stl) \X Corner
  BY <1>1 DEF At
<1>6. Indexed(n)' = Indexed(n) \cup {At(x)}
  BY <1>3, <1>4, <1>5
<1>7. \A m : m # n => Indexed(m)' = Indexed(m) \ {At(x)}
  BY <1>3, <1>4, <1>5
<1>8. QED
  BY <1>3, <1>6, <1>7

(* No corner of a walk has an earlier index: the corners without one are    *)
(* closed.                                                                  *)
LEMMA TourIsNew ==
  ASSUME stl \in StlFiles, Mutual(stl), TourInv, NEW R, NEW b, Touring(R, b),
         NEW m \in 0 .. Len(v_shared) - 2, Len(v_shared) \in Nat, j \in Corner
  PROVE  CornersOf(R) \cap Indexed(m) = {}
<1> DEFINE D == (Facets(stl) \X Corner) \ Indexed(m)
<1>1. FanClosedIn(stl, Indexed(m))
  BY DEF TourInv, Vertexed
<1>2. FanClosedIn(stl, D)
  BY <1>1, AllIsClosed, FansApart
<1>3. <<i, j>> \in D
  <2>1. v_indices[i][j] # m /\ i \in Facets(stl)
    BY DEF TourInv, None
  <2>2. QED
    BY <2>1 DEF Indexed
<1>4. CornersOf(R) \subseteq D
  BY <1>2, <1>3 DEF Touring, Spanned
<1>5. QED
  BY <1>4

(* Each step of a walk indexes the corner it turns around.                  *)
LEMMA TourIndexes ==
  ASSUME TypeInv, Mutual(stl), TourInv, NEW R, NEW b, Touring(R, b),
         Shared!IndexPivot, stl' = stl, v_shared' = v_shared
  PROVE  /\ \A m \in 0 .. Len(v_shared) - 2 : Vertexed(m)'
         /\ Indexed(Len(v_shared) - 1)' = CornersOf(R)
         /\ v_indices'[i][j] = Len(v_shared) - 1
         /\ \A f \in Facets(stl), c \in Corner :
              /\ v_indices'[f][c] \in (0 .. Len(v_shared) - 1) \cup {None}
              /\ Behind(f, c) => v_indices'[f][c] # None
<1> DEFINE n == Len(v_shared) - 1
           x == Toward(tour)
<1>1. /\ stl \in StlFiles /\ v_indices \in [Slot -> [Corner -> Nat \cup {None}]]
      /\ v_shared \in Seq(Vertex) /\ Len(v_shared) \in Nat /\ j \in Corner
  BY DEF TypeInv, MeshTyped, PassTyped
<1>2. n \in Nat
  BY <1>1 DEF TourInv
<1>3. /\ x \in Darts(stl) /\ x.facet = tour.facet_num
      /\ CornerAt(x) = Shared!Turned.pivot_vertex
  BY TourDart DEF TourInv
<1>4. v_indices' = [v_indices EXCEPT ![x.facet][CornerAt(x)] = n]
  BY <1>3 DEF Shared!IndexPivot
<1>5. /\ CornersOf(R) = Indexed(n) \cup {At(x)} /\ <<i, j>> \in CornersOf(R)
      /\ x \in R
  BY DEF Touring, Strip
<1> HIDE DEF n, x
<1>6. /\ \A f \in Facets(stl), c \in Corner :
           v_indices'[f][c] = IF <<f, c>> = At(x) THEN n ELSE v_indices[f][c]
      /\ Indexed(n)' = Indexed(n) \cup {At(x)}
      /\ \A m : m # n => Indexed(m)' = Indexed(m) \ {At(x)}
  <2>1. PICK d \in Darts(stl) : d = x
    BY <1>3
  <2>2. PICK k \in Nat : k = n
    BY <1>2
  <2>3. v_indices' = [v_indices EXCEPT ![d.facet][CornerAt(d)] = k]
    BY <1>4, <2>1, <2>2
  <2>4. /\ \A f \in Facets(stl), c \in Corner :
             v_indices'[f][c] = IF <<f, c>> = At(d) THEN k ELSE v_indices[f][c]
        /\ Indexed(k)' = Indexed(k) \cup {At(d)}
        /\ \A m : m # k => Indexed(m)' = Indexed(m) \ {At(d)}
    BY <1>1, <2>3, OneIndexed
  <2>5. n' = n
    BY DEF n
  <2>6. Indexed(n)' = Indexed(k)'
    BY <2>2, <2>5 DEF Indexed
  <2>7. QED
    BY <2>1, <2>2, <2>4, <2>6
<1>7. ASSUME NEW m \in 0 .. Len(v_shared) - 2
      PROVE  Vertexed(m)'
  <2>1. CornersOf(R) \cap Indexed(m) = {}
    BY <1>1, TourIsNew
  <2>2. At(x) \notin Indexed(m)
    BY <1>5, <2>1
  <2>3. m # n
    BY <1>1 DEF n
  <2>4. Indexed(m)' = Indexed(m)
    BY <1>6, <2>2, <2>3
  <2>5. Vertexed(m)
    BY DEF TourInv
  <2> HIDE DEF Indexed
  <2>6. QED
    BY <2>4, <2>5 DEF Vertexed
<1>8. ASSUME NEW f \in Facets(stl), NEW c \in Corner
      PROVE  /\ v_indices'[f][c] \in (0 .. Len(v_shared) - 1) \cup {None}
             /\ Behind(f, c) => v_indices'[f][c] # None
  <2>1. /\ v_indices[f][c] \in (0 .. n) \cup {None}
        /\ Behind(f, c) => v_indices[f][c] # None
    BY DEF TourInv, IndicesInv, n
  <2>2. n \in 0 .. n /\ n # None
    BY <1>2 DEF None
  <2>3. v_indices'[f][c] \in {n, v_indices[f][c]}
    BY <1>6
  <2>4. QED
    BY <2>1, <2>2, <2>3 DEF n
<1>9. v_indices'[i][j] = n
  <2>1. i \in Facets(stl) /\ <<i, j>> \in Indexed(n) \cup {At(x)}
    BY <1>5 DEF TourInv
  <2>2. <<i, j>> \in Indexed(n) => v_indices[i][j] = n
    BY DEF Indexed
  <2>3. QED
    BY <1>1, <1>6, <2>1, <2>2
<1>10. QED
  BY <1>5, <1>6, <1>7, <1>8, <1>9 DEF n

(* A walk that has been everywhere completes its vertex.                    *)
LEMMA TourCompletes ==
  ASSUME stl \in StlFiles, Mutual(stl), v_shared[Len(v_shared)] = stl.facet_start[i][j],
         Len(v_shared) \in Nat, NEW R, NEW b, Touring(R, b), Fan(stl, R), stl' = stl,
         v_shared' = v_shared, Indexed(Len(v_shared) - 1)' = CornersOf(R)
  PROVE  Vertexed(Len(v_shared) - 1)'
<1> DEFINE n == Len(v_shared) - 1
<1>1. /\ <<i, j>> \in CornersOf(R) /\ Spanned(stl, R, <<i, j>>)
      /\ \A r, q \in R : PivotOf(stl, r) = PivotOf(stl, q)
  BY DEF Touring, Strip
<1>2. FanClosedIn(stl, CornersOf(R))
  BY FanIsClosed
<1>3. \A C \in SUBSET CornersOf(R) : FanClosedIn(stl, C) => C \in {{}, CornersOf(R)}
  BY <1>1, <1>2, FanIsSmallest DEF Spanned
<1>4. \A r \in R : PivotOf(stl, r) = stl.facet_start[At(r)[1]][At(r)[2]]
  BY DEF PivotOf, At, CornerAt
<1>5. \A c \in CornersOf(R) : stl.facet_start[c[1]][c[2]] = v_shared[n + 1]
  <2>1. PICK q \in R : At(q) = <<i, j>>
    BY <1>1 DEF CornersOf
  <2>2. PivotOf(stl, q) = v_shared[n + 1]
    BY <1>4, <2>1
  <2> SUFFICES ASSUME NEW c \in CornersOf(R)
               PROVE  stl.facet_start[c[1]][c[2]] = v_shared[n + 1]
    OBVIOUS
  <2>3. PICK r \in R : c = At(r)
    BY DEF CornersOf
  <2>4. QED
    BY <1>1, <1>4, <2>2, <2>3
<1>6. CornersOf(R) # {}
  BY <1>1
<1> DEFINE S == Indexed(n)
<1>7. S' = CornersOf(R)
  OBVIOUS
<1>8. n' = n
  OBVIOUS
<1>9. QED
  BY <1>2, <1>3, <1>5, <1>6, <1>7 DEF Vertexed

-----------------------------------------------------------------------------
(****************************************************************************)
(* The steps of the generation of the shared vertices.                      *)
(****************************************************************************)
(* The walk crosses an edge.                                                *)
LEMMA CrossEdgeShared ==
  ASSUME TypeInv, Mutual(stl), EdgesRight(stl), TourInv, Shared!CrossEdge
  PROVE  TourInv'
<1>1. /\ Shared!Across # None /\ Shared!IndexPivot
      /\ tour' = [tour EXCEPT
                    !.facet_num = Shared!Across,
                    !.vnot = stl.which_vertex_not[tour.facet_num][Shared!Turned.next_edge],
                    !.direction = Shared!Turned.direction]
      /\ stl' = stl /\ i' = i /\ j' = j /\ v_shared' = v_shared
  BY SharedOperators DEF Shared!CrossEdge
<1>2. PICK R \in SUBSET Darts(stl), b \in Darts(stl) : Touring(R, b)
  BY DEF TourInv
<1>3. /\ stl \in StlFiles /\ tour.facet_num \in Facets(stl)
      /\ i \in Facets(stl) /\ Len(v_shared) > 0
      /\ v_shared[Len(v_shared)] = stl.facet_start[i][j]
  BY DEF TypeInv, MeshTyped, TourInv
<1> DEFINE x == Toward(tour)
           o == Over(stl, x)
           n == Len(v_shared) - 1
<1>4. x \in Darts(stl) /\ Linked(stl, x)
  BY <1>1, <1>3, TourDart
<1>5. tour'.facet_num \in Facets(stl) /\ Toward(tour') = Around(o) /\ tour'.reversed = tour.reversed
  BY <1>1, <1>3, <1>4, TourGoesOn
<1>6. /\ \A m \in 0 .. Len(v_shared) - 2 : Vertexed(m)'
      /\ Indexed(Len(v_shared) - 1)' = CornersOf(R)
      /\ v_indices'[i][j] = Len(v_shared) - 1
      /\ \A f \in Facets(stl), c \in Corner :
           /\ v_indices'[f][c] \in (0 .. Len(v_shared) - 1) \cup {None}
           /\ Behind(f, c) => v_indices'[f][c] # None
  BY <1>1, <1>2, TourIndexes
<1>7. PICK y : y = Around(o)
  OBVIOUS
<1>8. /\ Strip(stl, R, x, b) /\ Spanned(stl, R, <<i, j>>) /\ <<i, j>> \in CornersOf(R)
      /\ x \in R
      /\ IF tour.reversed THEN ~ Linked(stl, Around(b)) ELSE b = StartDart
  BY <1>2 DEF Touring, Strip
<1> HIDE DEF x, n
<1>9. Strip(stl, R \cup {y}, y, b) /\ At(y) = At(o)
  BY <1>3, <1>4, <1>7, <1>8, StripGoesOn
<1> HIDE DEF o
<1>10. CornersOf(R \cup {y}) = CornersOf(R) \cup {At(y)}
  BY DEF CornersOf
<1>11. Spanned(stl, R \cup {y}, <<i, j>>)
  <2> SUFFICES ASSUME NEW C, FanClosedIn(stl, C), <<i, j>> \in C
               PROVE  CornersOf(R \cup {y}) \subseteq C
    BY DEF Spanned
  <2>1. CornersOf(R) \subseteq C
    BY <1>8 DEF Spanned
  <2>2. At(x) \in C
    BY <1>8, <2>1 DEF CornersOf
  <2>3. At(y) \in C
    BY <1>4, <1>9, <2>2 DEF FanClosedIn, o
  <2>4. QED
    BY <1>10, <2>1, <2>3
<1>12. PICK U \in SUBSET Darts(stl) : U = R \cup {y}
  BY <1>9 DEF Strip
<1>13. StartDart' = StartDart
  BY <1>1 DEF StartDart
<1>14. Touring(U, b)'
  <2>1. Strip(stl', U, Toward(tour'), b)
    BY <1>1, <1>5, <1>7, <1>9, <1>12
  <2>2. Spanned(stl', U, <<i', j'>>) /\ <<i', j'>> \in CornersOf(U)
    BY <1>1, <1>8, <1>10, <1>11, <1>12
  <2>3. Indexed(Len(v_shared) - 1)' \cup {At(Toward(tour'))} = CornersOf(U)
    BY <1>5, <1>6, <1>7, <1>10, <1>12
  <2>4. IF tour'.reversed THEN ~ Linked(stl', Around(b)) ELSE b = StartDart'
    BY <1>1, <1>5, <1>8, <1>13
  <2>5. QED
    BY <2>1, <2>2, <2>3, <2>4 DEF Touring
<1>15. IndicesInv'
  BY <1>1, <1>6 DEF IndicesInv, Behind
<1>16. QED
  <2>1. Len(v_shared') = Len(v_shared) /\ Len(v_shared') > 0
    BY <1>1, <1>3
  <2>2. tour'.facet_num \in Facets(stl') /\ i' \in Facets(stl')
    BY <1>1, <1>3, <1>5
  <2>3. v_indices'[i'][j'] \in {None, Len(v_shared') - 1}
    BY <1>1, <1>6
  <2>4. v_shared'[Len(v_shared')] = stl'.facet_start[i'][j']
    BY <1>1, <1>3
  <2>5. \E S \in SUBSET Darts(stl'), a \in Darts(stl') : Touring(S, a)'
    BY <1>1, <1>12, <1>14
  <2>6. \A m \in 0 .. Len(v_shared') - 2 : Vertexed(m)'
    BY <1>6, <2>1
  <2>7. QED
    BY <1>15, <2>1, <2>2, <2>3, <2>4, <2>5, <2>6 DEF TourInv

(* It turns back.                                                           *)
LEMMA TurnBackShared ==
  ASSUME TypeInv, Mutual(stl), TourInv, Shared!TurnBack
  PROVE  TourInv'
<1>1. /\ Shared!Across = None /\ ~ tour.reversed /\ Shared!IndexPivot
      /\ tour' = [facet_num |-> i, vnot |-> Next3(j), direction |-> 1, reversed |-> TRUE]
      /\ stl' = stl /\ i' = i /\ j' = j /\ v_shared' = v_shared
  BY SharedOperators DEF Shared!TurnBack
<1>2. PICK R \in SUBSET Darts(stl), b \in Darts(stl) : Touring(R, b)
  BY DEF TourInv
<1>3. /\ stl \in StlFiles /\ tour.facet_num \in Facets(stl)
      /\ i \in Facets(stl) /\ Len(v_shared) > 0
      /\ v_shared[Len(v_shared)] = stl.facet_start[i][j]
  BY DEF TypeInv, MeshTyped, TourInv
<1> DEFINE x == Toward(tour)
           T == {Around(r) : r \in R}
<1>4. x \in Darts(stl) /\ ~ Linked(stl, x)
  BY <1>1, <1>3, TourDart
<1>5. /\ StartDart \in Darts(stl) /\ At(StartDart) = <<i, j>>
      /\ Toward(tour') = Around(StartDart)
  BY <1>1, <1>3, TourStarts
<1>6. /\ \A m \in 0 .. Len(v_shared) - 2 : Vertexed(m)'
      /\ Indexed(Len(v_shared) - 1)' = CornersOf(R)
      /\ v_indices'[i][j] = Len(v_shared) - 1
      /\ \A f \in Facets(stl), c \in Corner :
           /\ v_indices'[f][c] \in (0 .. Len(v_shared) - 1) \cup {None}
           /\ Behind(f, c) => v_indices'[f][c] # None
  BY <1>1, <1>2, TourIndexes
<1>7. /\ Strip(stl, R, x, b) /\ Spanned(stl, R, <<i, j>>) /\ <<i, j>> \in CornersOf(R)
      /\ b = StartDart
  BY <1>1, <1>2 DEF Touring
<1>8. Strip(stl, T, Around(b), Around(x)) /\ CornersOf(T) = CornersOf(R)
  BY <1>3, <1>7, StripTurned
<1>9. PICK U : U = T
  OBVIOUS
<1>10. PICK a : a = Around(x)
  OBVIOUS
<1> HIDE DEF x, T
<1>11. U \in SUBSET Darts(stl) /\ a \in Darts(stl)
  BY <1>8, <1>9, <1>10 DEF Strip
<1>12. ~ Linked(stl, Around(a))
  BY <1>4, <1>10, AroundTwice
<1>13. Touring(U, a)'
  <2>1. Strip(stl', U, Toward(tour'), a)
    BY <1>1, <1>5, <1>7, <1>8, <1>9, <1>10
  <2>2. CornersOf(U) = CornersOf(R)
    BY <1>8, <1>9
  <2>3. Spanned(stl', U, <<i', j'>>) /\ <<i', j'>> \in CornersOf(U)
    BY <1>1, <1>7, <2>2 DEF Spanned
  <2>4. At(Toward(tour')) = <<i, j>>
    BY <1>5, AroundAt
  <2>5. Indexed(Len(v_shared) - 1)' \cup {At(Toward(tour'))} = CornersOf(U)
    BY <1>6, <1>7, <2>2, <2>4
  <2>6. tour'.reversed /\ ~ Linked(stl', Around(a))
    BY <1>1, <1>12
  <2>7. QED
    BY <2>1, <2>3, <2>5, <2>6 DEF Touring
<1>14. IndicesInv'
  BY <1>1, <1>6 DEF IndicesInv, Behind
<1>15. QED
  <2>1. Len(v_shared') = Len(v_shared) /\ Len(v_shared') > 0
    BY <1>1, <1>3
  <2>2. tour'.facet_num \in Facets(stl') /\ i' \in Facets(stl')
    BY <1>1, <1>3
  <2>3. v_indices'[i'][j'] \in {None, Len(v_shared') - 1}
    BY <1>1, <1>6
  <2>4. v_shared'[Len(v_shared')] = stl'.facet_start[i'][j']
    BY <1>1, <1>3
  <2>5. \E S \in SUBSET Darts(stl'), d \in Darts(stl') : Touring(S, d)'
    BY <1>1, <1>11, <1>13
  <2>6. \A m \in 0 .. Len(v_shared') - 2 : Vertexed(m)'
    BY <1>6, <2>1
  <2>7. QED
    BY <1>14, <2>1, <2>2, <2>3, <2>4, <2>5, <2>6 DEF TourInv

(* The walk ends, and has been everywhere.                                  *)
LEMMA EndTourShared ==
  ASSUME TypeInv, Mutual(stl), EdgesRight(stl), Proper(stl), TourInv, Shared!EndTour
  PROVE  BetweenToursInv'
<1>1. /\ Shared!Across = i \/ (Shared!Across = None /\ tour.reversed)
      /\ Shared!IndexPivot
      /\ j' = Next3(j) /\ i' = IF j = 2 THEN i + 1 ELSE i
      /\ stl' = stl /\ v_shared' = v_shared
  BY SharedOperators DEF Shared!EndTour, Shared!NextCorner
<1>2. PICK R \in SUBSET Darts(stl), b \in Darts(stl) : Touring(R, b)
  BY DEF TourInv
<1>3. /\ stl \in StlFiles /\ tour.facet_num \in Facets(stl) /\ i \in Facets(stl)
      /\ v_shared[Len(v_shared)] = stl.facet_start[i][j] /\ Len(v_shared) \in Nat
      /\ Facets(stl) \subseteq Nat /\ i \in Nat /\ j \in Corner /\ i # None
  <2>1. Facets(stl) \subseteq Nat /\ i \in Facets(stl)
    BY PassedAllOrNone DEF TourInv
  <2>2. i # None
    BY <2>1 DEF None
  <2>3. QED
    BY <2>1, <2>2 DEF TypeInv, MeshTyped, PassTyped, TourInv
<1> DEFINE x == Toward(tour)
<1>4. x \in Darts(stl) /\ (Linked(stl, x) <=> Shared!Across # None)
      /\ Over(stl, x).facet = Shared!Across
  BY <1>3, TourDart
<1>5. /\ \A m \in 0 .. Len(v_shared) - 2 : Vertexed(m)'
      /\ Indexed(Len(v_shared) - 1)' = CornersOf(R)
      /\ v_indices'[i][j] = Len(v_shared) - 1
      /\ \A f \in Facets(stl), c \in Corner :
           /\ v_indices'[f][c] \in (0 .. Len(v_shared) - 1) \cup {None}
           /\ Behind(f, c) => v_indices'[f][c] # None
  BY <1>1, <1>2, TourIndexes
<1>6. /\ Strip(stl, R, x, b) /\ <<i, j>> \in CornersOf(R) /\ b \in R
      /\ IF tour.reversed THEN ~ Linked(stl, Around(b)) ELSE b = StartDart
  BY <1>2 DEF Touring, Strip
<1> HIDE DEF x
<1>7. Fan(stl, R)
  <2>1. CASE Linked(stl, x)
    <3>1. Over(stl, x).facet = i
      BY <1>1, <1>4, <2>1
    <3>2. \E z \in R : z.facet = i /\ (z = b \/ ~ Linked(stl, Around(b)))
      <4>1. CASE tour.reversed
        BY <1>6, <4>1 DEF CornersOf, At
      <4>2. CASE ~ tour.reversed
        BY <1>6, <4>2 DEF StartDart
      <4>3. QED
        BY <4>1, <4>2
    <3>3. PICK z \in R : z.facet = i /\ (z = b \/ ~ Linked(stl, Around(b)))
      BY <3>2
    <3>4. QED
      BY <1>3, <1>6, <2>1, <3>1, <3>3, StripCloses
  <2>2. CASE ~ Linked(stl, x)
    <3>1. tour.reversed
      BY <1>1, <1>3, <1>4, <2>2
    <3>2. QED
      BY <1>6, <2>2, <3>1, StripEnds
  <2>3. QED
    BY <2>1, <2>2
<1>8. Vertexed(Len(v_shared) - 1)'
  BY <1>1, <1>2, <1>3, <1>5, <1>7, TourCompletes
<1>9. \A m \in 0 .. Len(v_shared') - 1 : Vertexed(m)'
  <2> SUFFICES ASSUME NEW m \in 0 .. Len(v_shared') - 1 PROVE Vertexed(m)'
    OBVIOUS
  <2>1. m \in 0 .. Len(v_shared) - 2 \/ m = Len(v_shared) - 1
    BY <1>1, <1>3
  <2>2. CASE m \in 0 .. Len(v_shared) - 2
    BY <1>5, <2>2
  <2>3. CASE m = Len(v_shared) - 1
    <3>1. m = (Len(v_shared) - 1)'
      BY <1>1, <2>3
    <3>2. QED
      BY <1>8, <3>1 DEF Vertexed, Indexed
  <2>4. QED
    BY <2>1, <2>2, <2>3
<1>10. IndicesInv'
  <2>1. ASSUME NEW f \in Facets(stl), NEW c \in Corner, Behind(f, c)'
        PROVE  v_indices'[f][c] # None
    <3>1. Behind(f, c) \/ (f = i /\ c = j)
      BY <1>1, <1>3, <2>1, PassesOneEdge
    <3>2. Len(v_shared) - 1 # None
      BY <1>3, <1>5, <1>6 DEF TourInv, None
    <3>3. QED
      BY <1>5, <3>1, <3>2
  <2>2. QED
    BY <1>1, <1>5, <2>1 DEF IndicesInv
<1>11. QED
  BY <1>9, <1>10 DEF BetweenToursInv

(* A corner that has its index is passed over.                              *)
LEMMA SkipCornerShared ==
  ASSUME TypeInv, BetweenToursInv, Shared!SkipCorner
  PROVE  BetweenToursInv'
<1>1. /\ i \in Facets(stl) /\ v_indices[i][j] # None
      /\ j' = Next3(j) /\ i' = IF j = 2 THEN i + 1 ELSE i
      /\ stl' = stl /\ v_shared' = v_shared /\ v_indices' = v_indices
  BY SharedOperators DEF Shared!SkipCorner, Shared!NextCorner
<1>2. Facets(stl) \subseteq Nat /\ i \in Nat /\ j \in Corner
  BY <1>1, PassedAllOrNone DEF TypeInv, MeshTyped
<1>3. \A m : Vertexed(m) => Vertexed(m)'
  BY <1>1 DEF Vertexed, Indexed
<1>4. \A f \in Facets(stl), c \in Corner : Behind(f, c)' => v_indices[f][c] # None
  <2> SUFFICES ASSUME NEW f \in Facets(stl), NEW c \in Corner, Behind(f, c)'
               PROVE  v_indices[f][c] # None
    OBVIOUS
  <2>1. Behind(f, c) \/ (f = i /\ c = j)
    BY <1>1, <1>2, PassesOneEdge
  <2>2. QED
    BY <1>1, <2>1 DEF BetweenToursInv, IndicesInv
<1>5. QED
  BY <1>1, <1>3, <1>4 DEF BetweenToursInv, IndicesInv

(* A vertex put at the end.                                                 *)
LEMMA VertexAppended ==
  ASSUME NEW q \in Seq(Vertex), NEW v \in Vertex
  PROVE  /\ Len(Append(q, v)) = Len(q) + 1 /\ Len(q) \in Nat
         /\ Append(q, v)[Len(q) + 1] = v
         /\ \A m \in 0 .. Len(q) - 1 : Append(q, v)[m + 1] = q[m + 1]
<1>1. \A m \in 0 .. Len(q) - 1 : m + 1 \in 1 .. Len(q)
  OBVIOUS
<1>2. \A m \in 1 .. Len(q) : Append(q, v)[m] = q[m]
  OBVIOUS
<1>3. QED
  BY <1>1, <1>2

(* A walk begins at a corner without an index.                              *)
LEMMA StartTourShared ==
  ASSUME TypeInv, BetweenToursInv, Shared!StartTour
  PROVE  TourInv'
<1>1. /\ i \in Facets(stl) /\ v_indices[i][j] = None
      /\ v_shared' = Append(v_shared, stl.facet_start[i][j])
      /\ tour' = [facet_num |-> i, vnot |-> Prev3(j), direction |-> 0, reversed |-> FALSE]
      /\ stl' = stl /\ i' = i /\ j' = j /\ v_indices' = v_indices
  BY SharedOperators DEF Shared!StartTour
<1>2. v_shared \in Seq(Vertex) /\ stl \in StlFiles /\ j \in Corner
  BY DEF TypeInv, PassTyped, MeshTyped
<1>3. stl.facet_start[i][j] \in Vertex
  <2>1. i \in Slot
    BY <1>1, <1>2, FacetsAreSlots
  <2>2. stl.facet_start \in [Slot -> Facet]
    BY <1>2 DEF StlFiles
  <2>3. stl.facet_start[i] \in [Corner -> Vertex]
    BY <2>1, <2>2 DEF Facet
  <2>4. QED
    BY <1>2, <2>3
<1>4. /\ Len(v_shared') = Len(v_shared) + 1 /\ Len(v_shared) \in Nat
      /\ v_shared'[Len(v_shared) + 1] = stl.facet_start[i][j]
      /\ \A m \in 0 .. Len(v_shared) - 1 : v_shared'[m + 1] = v_shared[m + 1]
  <2>1. PICK q \in Seq(Vertex) : q = v_shared
    BY <1>2
  <2>2. PICK v \in Vertex : v = stl.facet_start[i][j]
    BY <1>3
  <2>3. PICK r : r = Append(q, v)
    OBVIOUS
  <2>4. v_shared' = r
    BY <1>1, <2>1, <2>2, <2>3
  <2>5. /\ Len(r) = Len(q) + 1 /\ Len(q) \in Nat /\ r[Len(q) + 1] = v
        /\ \A m \in 0 .. Len(q) - 1 : r[m + 1] = q[m + 1]
    BY <2>3, VertexAppended
  <2>6. QED
    BY <2>1, <2>2, <2>4, <2>5
<1>5. \A m \in 0 .. Len(v_shared') - 2 : Vertexed(m)'
  <2> SUFFICES ASSUME NEW m \in 0 .. Len(v_shared') - 2 PROVE Vertexed(m)'
    OBVIOUS
  <2>1. m \in 0 .. Len(v_shared) - 1
    BY <1>4
  <2>2. Vertexed(m) /\ v_shared'[m + 1] = v_shared[m + 1]
    BY <1>4, <2>1 DEF BetweenToursInv
  <2>3. Indexed(m)' = Indexed(m)
    BY <1>1 DEF Indexed
  <2> HIDE DEF Indexed
  <2>4. QED
    BY <1>1, <2>2, <2>3 DEF Vertexed
<1>6. IndicesInv'
  <2>1. \A f \in Facets(stl), c \in Corner :
          v_indices[f][c] \in (0 .. Len(v_shared) - 1) \cup {None}
    BY DEF BetweenToursInv, IndicesInv
  <2>2. 0 .. Len(v_shared) - 1 \subseteq 0 .. Len(v_shared') - 1
    BY <1>4
  <2>3. \A f \in Facets(stl), c \in Corner : Behind(f, c)' => v_indices[f][c] # None
    BY <1>1 DEF BetweenToursInv, IndicesInv, Behind
  <2>4. QED
    BY <1>1, <2>1, <2>2, <2>3 DEF IndicesInv
<1>7. /\ StartDart \in Darts(stl) /\ At(StartDart) = <<i, j>> /\ Toward(tour') = StartDart
  BY <1>1, TourStarts
<1>8. PICK b \in Darts(stl) : b = StartDart
  BY <1>7
<1>9. Touring({b}, b)'
  <2>1. Strip(stl', {b}, Toward(tour'), b)
    BY <1>1, <1>7, <1>8, StripBegins
  <2>2. CornersOf({b}) = {<<i, j>>}
    BY <1>7, <1>8 DEF CornersOf
  <2>3. Spanned(stl', {b}, <<i', j'>>) /\ <<i', j'>> \in CornersOf({b})
    BY <1>1, <2>2 DEF Spanned
  <2>4. Indexed(Len(v_shared) - 1)' = {}
    <3>1. \A f \in Facets(stl), c \in Corner : v_indices[f][c] # Len(v_shared)
      BY <1>4 DEF BetweenToursInv, IndicesInv, None
    <3>2. (Len(v_shared) - 1)' = Len(v_shared)
      BY <1>4
    <3>3. QED
      BY <1>1, <3>1, <3>2 DEF Indexed
  <2>5. At(Toward(tour')) = <<i, j>>
    BY <1>7
  <2>6. ~ tour'.reversed /\ b = StartDart'
    BY <1>1, <1>8 DEF StartDart
  <2>7. QED
    BY <2>1, <2>2, <2>3, <2>4, <2>5, <2>6 DEF Touring
<1>10. {b} \in SUBSET Darts(stl')
  BY <1>1, <1>8
<1>11. QED
  BY <1>1, <1>4, <1>5, <1>6, <1>8, <1>9, <1>10 DEF TourInv

(* At the end no corner is without an index.                                *)
LEMMA FinishShared ==
  ASSUME TypeInv, BetweenToursInv, Shared!Finish
  PROVE  AllShared'
<1>1. /\ i \notin Facets(stl) /\ stl' = stl /\ v_shared' = v_shared /\ v_indices' = v_indices
  BY SharedOperators DEF Shared!Finish
<1>2. \A f \in Facets(stl), c \in Corner : Behind(f, c)
  BY <1>1, PassedAllOrNone
<1>3. AllShared
  BY <1>2 DEF BetweenToursInv, IndicesInv, AllShared
<1>4. \A m : Vertexed(m) => Vertexed(m)'
  BY <1>1 DEF Vertexed, Indexed
<1>5. QED
  BY <1>1, <1>3, <1>4 DEF AllShared

(* In the beginning there are no vertices.                                  *)
LEMMA BeginShared ==
  ASSUME TypeInv, Shared!Begin
  PROVE  BetweenToursInv'
<1>1. /\ v_indices' = [f \in Slot |-> [c \in Corner |-> None]]
      /\ v_shared' = <<>> /\ i' = 0 /\ j' = 0 /\ stl' = stl
  BY SharedOperators DEF Shared!Begin
<1>2. Facets(stl) \subseteq Slot /\ Facets(stl) \subseteq Nat
  BY FacetsAreSlots, PassedAllOrNone DEF TypeInv, MeshTyped
<1>3. \A f \in Facets(stl), c \in Corner : ~ Behind(f, c)'
  BY <1>1, <1>2 DEF Behind, Corner
<1>4. IndicesInv'
  BY <1>1, <1>2, <1>3 DEF IndicesInv
<1>5. 0 .. Len(v_shared') - 1 = {}
  BY <1>1
<1>6. QED
  BY <1>4, <1>5 DEF BetweenToursInv

-----------------------------------------------------------------------------
(****************************************************************************)
(* The theorems about the shared vertices.                                  *)
(****************************************************************************)
(* The mesh is one whose vertices can be walked around: the links are       *)
(* mutual, neighbours share their edges, and no facet is degenerate.        *)
Walkable == Mutual(stl) /\ EdgesRight(stl) /\ Proper(stl)

(* The generation of the shared vertices, step by step.                     *)
LEMMA GenerateShared ==
  ASSUME TypeInv, Walkable, SharedInv, GenerateSharedVertices
  PROVE  SharedInv'
<1>1. phase = "shared_vertices" /\ phase' = phase /\ Shared!Next
  BY DEF GenerateSharedVertices, callVars
<1>2. Mutual(stl) /\ EdgesRight(stl) /\ Proper(stl)
  BY DEF Walkable
<1>3. ASSUME pc' = "corner", BetweenToursInv' PROVE SharedInv'
  BY <1>1, <1>3 DEF SharedInv
<1>4. ASSUME pc' = "tour", TourInv' PROVE SharedInv'
  BY <1>1, <1>4 DEF SharedInv
<1>5. ASSUME pc' = "done", AllShared' PROVE SharedInv'
  BY <1>1, <1>5 DEF SharedInv
<1>6. CASE Shared!Begin
  <2>1. pc' = "corner"
    BY <1>6 DEF Shared!Begin
  <2>2. QED
    BY <1>3, <1>6, <2>1, BeginShared
<1>7. CASE Shared!SkipCorner
  <2>1. pc = "corner" /\ pc' = "corner"
    BY <1>7 DEF Shared!SkipCorner, Shared!NextCorner
  <2>2. BetweenToursInv
    BY <1>1, <2>1 DEF SharedInv
  <2>3. QED
    BY <1>3, <1>7, <2>1, <2>2, SkipCornerShared
<1>8. CASE Shared!StartTour
  <2>1. pc = "corner" /\ pc' = "tour"
    BY <1>8 DEF Shared!StartTour
  <2>2. BetweenToursInv
    BY <1>1, <2>1 DEF SharedInv
  <2>3. QED
    BY <1>4, <1>8, <2>1, <2>2, StartTourShared
<1>9. CASE Shared!CrossEdge \/ Shared!TurnBack
  <2>1. pc = "tour" /\ pc' = "tour"
    BY <1>9 DEF Shared!CrossEdge, Shared!TurnBack
  <2>2. TourInv
    BY <1>1, <2>1 DEF SharedInv
  <2>3. QED
    BY <1>2, <1>4, <1>9, <2>1, <2>2, CrossEdgeShared, TurnBackShared
<1>10. CASE Shared!EndTour
  <2>1. pc = "tour" /\ pc' = "corner"
    BY <1>10 DEF Shared!EndTour, Shared!NextCorner
  <2>2. TourInv
    BY <1>1, <2>1 DEF SharedInv
  <2>3. QED
    BY <1>2, <1>3, <1>10, <2>1, <2>2, EndTourShared
<1>11. CASE Shared!Finish
  <2>1. pc = "corner" /\ pc' = "done"
    BY <1>11 DEF Shared!Finish
  <2>2. BetweenToursInv
    BY <1>1, <2>1 DEF SharedInv
  <2>3. QED
    BY <1>5, <1>11, <2>1, <2>2, FinishShared
<1>12. QED
  BY <1>1, <1>6, <1>7, <1>8, <1>9, <1>10, <1>11 DEF Shared!Next

(* No other step writes the vertices, and none but the last one is between  *)
(* them and the end.                                                        *)
LEMMA SharedInvStep ==
  ASSUME TypeInv, Idle, phase = "shared_vertices" => Walkable, SharedInv, [Next]_vars
  PROVE  SharedInv'
<1>1. CASE GenerateSharedVertices
  BY <1>1, GenerateShared DEF GenerateSharedVertices
<1>2. CASE ~ GenerateSharedVertices /\ phase \notin {"shared_vertices", "done"}
  <2>1. phase' = phase \/ phase' = Following(phase)
    BY <1>2 DEF Next, Call, Pass, Skip, Return, Repaired, CheckExact, CheckNearby,
       RemoveUnconnected, FillHoles, FixDirections, ReverseAll, FixNormalValues,
       CalculateVolume, callVars, vars
  <2>2. phase \in Named
    BY PhaseNames DEF TypeInv, CallTyped
  <2>3. phase' # "done"
    BY <1>2, <2>1, <2>2, FollowingPhases DEF Named
  <2>4. phase' = "shared_vertices" => pc' \in {"test", "start"}
    <3>1. phase' = phase \/ Skip \/ Return
      BY <1>2 DEF Next, Call, Pass, Repaired, CheckExact, CheckNearby, RemoveUnconnected,
         FillHoles, FixDirections, ReverseAll, FixNormalValues, CalculateVolume, callVars, vars
    <3>2. Skip \/ Return => pc' = "test"
      BY DEF Skip, Return, meshVars
    <3>3. QED
      BY <1>2, <3>1, <3>2
  <2>5. QED
    BY <2>3, <2>4 DEF SharedInv
<1>3. CASE ~ GenerateSharedVertices /\ phase \in {"shared_vertices", "done"}
  <2>1. /\ stl' = stl /\ i' = i /\ j' = j /\ options' = options
        /\ v_indices' = v_indices /\ v_shared' = v_shared /\ tour' = tour
    BY <1>3 DEF Next, Call, Pass, Skip, Return, Repaired, CheckExact, CheckNearby,
       RemoveUnconnected, FillHoles, FixDirections, ReverseAll, FixNormalValues,
       CalculateVolume, sharedVars, meshVars, callVars, vars
  <2>2. \/ phase' = phase /\ pc' = pc
        \/ phase' = phase /\ phase = "shared_vertices" /\ pc' = "start"
        \/ /\ phase = "shared_vertices" /\ phase' = "done" /\ pc' = "test"
           /\ ~ Given({"generate_shared_vertices"}) \/ pc = "done"
    <3>1. CASE Call
      BY <1>3, <3>1 DEF Call, Called
    <3>2. CASE Skip
      BY <1>3, <3>2, FollowingPhases DEF Skip, Called, meshVars
    <3>3. CASE Return
      BY <1>3, <3>3, FollowingPhases DEF Return, Idle
    <3>4. CASE Pass
      BY <1>3, <3>4 DEF Pass, CheckExact, CheckNearby, RemoveUnconnected, FillHoles,
         FixDirections, ReverseAll, FixNormalValues, CalculateVolume
    <3>5. CASE Repaired \/ UNCHANGED vars
      BY <3>5 DEF Repaired, vars, meshVars, callVars
    <3>6. QED
      BY <3>1, <3>2, <3>3, <3>4, <3>5 DEF Next
  <2>3. Given({"generate_shared_vertices"})' = Given({"generate_shared_vertices"})
    BY <2>1 DEF Given
  <2>4. \A n : Vertexed(n)' <=> Vertexed(n)
    BY <2>1 DEF Vertexed, Indexed
  <2>5. IndicesInv' <=> IndicesInv
    BY <2>1 DEF IndicesInv, Behind
  <2>6. BetweenToursInv' <=> BetweenToursInv
    BY <2>1, <2>4, <2>5 DEF BetweenToursInv
  <2>7. AllShared' <=> AllShared
    BY <2>1, <2>4 DEF AllShared
  <2>8. TourInv' <=> TourInv
    <3>1. \A R, b : Touring(R, b)' <=> Touring(R, b)
      BY <2>1 DEF Touring, StartDart, Indexed
    <3>2. QED
      BY <2>1, <2>4, <2>5, <3>1 DEF TourInv
  <2>9. QED
    BY <2>2, <2>3, <2>6, <2>7, <2>8 DEF SharedInv
<1>4. QED
  BY <1>1, <1>2, <1>3

(* What the invariant says of the property.                                 *)
LEMMA SharedInvImplies ==
  ASSUME TypeInv, SharedInv
  PROVE  SharedVerticesExact
<1> SUFFICES ASSUME phase = "done", Given({"generate_shared_vertices"})
             PROVE  /\ \A n \in 0 .. Len(v_shared) - 1 :
                         /\ Indexed(n) # {}
                         /\ FanClosed(Indexed(n))
                         /\ \A C \in SUBSET Indexed(n) : FanClosed(C) => C \in {{}, Indexed(n)}
                         /\ \A c \in Indexed(n) : stl.facet_start[c[1]][c[2]] = v_shared[n + 1]
                    /\ UNION {Indexed(n) : n \in 0 .. Len(v_shared) - 1} = Facets(stl) \X Corner
  BY DEF SharedVerticesExact
<1>1. AllShared /\ stl \in StlFiles
  BY DEF SharedInv, TypeInv, MeshTyped
<1>2. \A C : FanClosed(C) <=> FanClosedIn(stl, C)
  BY <1>1, FanClosedByDarts
<1>3. \A n \in 0 .. Len(v_shared) - 1 : Vertexed(n)
  BY <1>1 DEF AllShared
<1>4. UNION {Indexed(n) : n \in 0 .. Len(v_shared) - 1} = Facets(stl) \X Corner
  <2>1. \A n : Indexed(n) \subseteq Facets(stl) \X Corner
    BY DEF Indexed
  <2>2. ASSUME NEW c \in Facets(stl) \X Corner
        PROVE  \E n \in 0 .. Len(v_shared) - 1 : c \in Indexed(n)
    <3>1. v_indices[c[1]][c[2]] \in 0 .. Len(v_shared) - 1
      BY <1>1 DEF AllShared
    <3>2. QED
      BY <3>1 DEF Indexed
  <2> HIDE DEF Indexed
  <2>3. QED
    BY <2>1, <2>2
<1>5. QED
  BY <1>2, <1>3, <1>4 DEF Vertexed

(* No facet is degenerate when the vertices are generated.                  *)
ProperWhenShared == phase = "shared_vertices" => Proper(stl)

(* The invariant in every behaviour without a warning.                      *)
LEMMA SharedInvariant ==
  Spec /\ Called("exact") /\ [][~ DegenerateJoined]_vars /\ []ProperWhenShared
  => [](TypeInv /\ (warned \/ SharedInv))
<1> DEFINE Matched == warned \/ (SweepInv /\ MatchInv)
           Inv == warned \/ SharedInv
<1>1. Init => Inv
  BY DEF Init, SharedInv
<1>2. TypeInv /\ Idle /\ LinkInv /\ Matched /\ ProperWhenShared /\ Inv /\ [Next]_vars => Inv'
  <2> SUFFICES ASSUME TypeInv, Idle, LinkInv, Matched, ProperWhenShared, Inv, [Next]_vars
               PROVE  Inv'
    OBVIOUS
  <2>1. CASE warned
    BY <2>1, WarnedStays
  <2>2. CASE ~ warned
    <3>1. SharedInv /\ MatchInv
      BY <2>2
    <3>2. phase = "shared_vertices" => Walkable
      BY <2>2, <3>1 DEF Walkable, MatchInv, LinkInv, MeshInv, Sound, ProperWhenShared
    <3>3. SharedInv'
      BY <3>1, <3>2, SharedInvStep
    <3>4. QED
      BY <3>3
  <2>3. QED
    BY <2>1, <2>2
<1>3. Spec /\ Called("exact") /\ [][~ DegenerateJoined]_vars => []Matched
  BY EdgesInvariant
<1> HIDE DEF Matched
<1>4. QED
  BY <1>1, <1>2, <1>3, LinkInvariant, TypedInvariant, PTL DEF Spec

(* Without the exact check the property says nothing.                       *)
LEMMA SharingNotChecked == Spec /\ ~ Called("exact") => []SharedVerticesExact
<1>1. ~ Called("exact") => SharedVerticesExact
  BY DEF SharedVerticesExact
<1>2. QED
  BY <1>1, NeverCalled, PTL DEF Spec

(* The shared vertices are those of the mesh: each stands for one fan of    *)
(* corners, closed under crossing the edges at it and with no smaller one   *)
(* inside, all of which are at the point written for it, and every corner   *)
(* has one.  This needs that no facet is degenerate, since a walk takes the *)
(* facet it started from as its end, and that no warning was printed, since *)
(* a walk follows the links.                                                *)
THEOREM SharedVerticesAreExact ==
  Spec /\ [][~ DegenerateJoined]_vars /\ []ProperWhenShared => []SharedVerticesExact
<1>1. TypeInv /\ (warned \/ SharedInv) => SharedVerticesExact
  <2>1. warned => SharedVerticesExact
    BY DEF SharedVerticesExact
  <2>2. QED
    BY <2>1, SharedInvImplies
<1>2. QED
  BY <1>1, SharedInvariant, SharingNotChecked, PTL

(* Without the nearby check no condition is needed.                         *)
THEOREM SharedVerticesWithoutNearby == Spec /\ WithoutNearby => []SharedVerticesExact
<1>1. Init => SharedInv
  BY DEF Init, SharedInv
<1>2. TypeInv /\ Idle /\ LinkInv /\ iteration = 0 /\ NoneDegenerate /\ SharedInv /\ [Next]_vars
      => SharedInv'
  <2> SUFFICES ASSUME TypeInv, Idle, LinkInv, iteration = 0, NoneDegenerate, SharedInv,
                      [Next]_vars
               PROVE  SharedInv'
    OBVIOUS
  <2>1. phase = "shared_vertices" => Walkable
    BY DEF Walkable, LinkInv, MeshInv, Sound, NoneDegenerate
  <2>2. QED
    BY <2>1, SharedInvStep
<1>3. TypeInv /\ SharedInv => SharedVerticesExact
  BY SharedInvImplies
<1>4. QED
  BY <1>1, <1>2, <1>3, WithoutNearbyInvariant, SharingNotChecked, TypedInvariant, PTL DEF Spec

=============================================================================
