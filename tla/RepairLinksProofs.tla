------------------------- MODULE RepairLinksProofs -------------------------
(****************************************************************************)
(* Proofs about the passes of Repair that connect edges whose ends the      *)
(* exact check did not find equal.                                          *)
(*                                                                          *)
(* The first part is about the corners the nearby check moves: the walks    *)
(* around the two ends of a match take every corner along that a link       *)
(* holds there, and each within its cell of the grid; its invariant and its *)
(* theorems.                                                                *)
(*                                                                          *)
(* The second part is about stl_fill_holes: the walk around a corner ends   *)
(* at another edge of the hole, the triangle put there matches every edge   *)
(* it meets, so the loop leaves no hole behind it; then what the other      *)
(* passes keep of that, its invariant and its theorems.                     *)
(****************************************************************************)
EXTENDS RepairProofs

-----------------------------------------------------------------------------
(****************************************************************************)
(* Walking around a corner.                                                 *)
(****************************************************************************)
(* An edge of a facet and one of its ends: its start if direction is 1, as  *)
(* in the walks.                                                            *)
Darts(s) == [facet : Facets(s), edge : Corner, direction : {0, 1}]

Linked(s, a) == s.neighbor[a.facet][a.edge] # None

(* The corner a walk that leaves across the edge turns around.              *)
PivotOf(s, a) == s.facet_start[a.facet][IF a.direction = 1 THEN a.edge ELSE Next3(a.edge)]

(* The other edge of the facet at that corner.                              *)
Around(a) ==
  [facet |-> a.facet, edge |-> IF a.direction = 1 THEN Prev3(a.edge) ELSE Next3(a.edge),
   direction |-> 1 - a.direction]

(* The same edge seen from the neighbour.                                   *)
Over(s, a) ==
  LET vnot == s.which_vertex_not[a.facet][a.edge]
  IN  [facet |-> s.neighbor[a.facet][a.edge], edge |-> Next3(vnot),
       direction |-> IF vnot < 3 THEN 1 - a.direction ELSE a.direction]

(* Arithmetic of corners, once more.                                        *)
LEMMA CornersInARow ==
  /\ \A e \in Corner : /\ Next3(e) \in Corner /\ Prev3(e) \in Corner
                       /\ Next3(Prev3(e)) = e /\ Prev3(Next3(e)) = e
                       /\ Prev3(e) # e /\ Next3(e) # e /\ Next3(e) # Prev3(e)
                       /\ Next3(Next3(e)) = Prev3(e) /\ Prev3(Prev3(e)) = Next3(e)
                       /\ \A d \in Corner : d \in {e, Next3(e), Prev3(e)}
  /\ \A w \in 0 .. 5 : /\ Next3(w) \in Corner /\ Prev3(w) \in Corner /\ w % 3 \in Corner
                       /\ Next3(Next3(w)) = Prev3(w)
                       /\ Next3(Prev3(w)) = w % 3
  BY DEF Corner, Next3, Prev3

(* The two edges of a facet at a corner.                                    *)
LEMMA AroundTwice ==
  ASSUME NEW s, NEW a \in Darts(s)
  PROVE  /\ Around(a) \in Darts(s) /\ Around(a).facet = a.facet
         /\ Around(Around(a)) = a /\ Around(a) # a
         /\ PivotOf(s, Around(a)) = PivotOf(s, a)
<1>1. a.edge \in Corner /\ a.direction \in {0, 1} /\ a.facet \in Facets(s)
  BY DEF Darts
<1>2. a = [facet |-> a.facet, edge |-> a.edge, direction |-> a.direction]
  BY DEF Darts
<1>3. CASE a.direction = 1
  BY <1>1, <1>2, <1>3, CornersInARow DEF Darts, Around, PivotOf
<1>4. CASE a.direction = 0
  BY <1>1, <1>2, <1>4, CornersInARow DEF Darts, Around, PivotOf
<1>5. QED
  BY <1>1, <1>3, <1>4

(* The turns of the walk (stl_fill_holes): it starts next to the edge,      *)
(* leaves the facet it enters across the other edge at the corner it turns  *)
(* around, and the corner it finds is the far end of the edge it stops at.  *)
LEMMA TurnsAround ==
  /\ \A e \in Corner, d \in {0, 1} :
       LET t == Turn(Prev3(e), d)
       IN  /\ t.next_edge \in Corner /\ t.direction \in {0, 1}
           /\ (IF t.direction = 1 THEN Prev3(t.next_edge) ELSE Next3(t.next_edge)) = e
  /\ \A w \in 0 .. 5, d \in {0, 1} :
       LET t == Turn(w, d)
           over == IF w < 3 THEN 1 - d ELSE d
       IN  /\ t.next_edge = IF over = 1 THEN Prev3(Next3(w)) ELSE Next3(Next3(w))
           /\ t.direction = 1 - over
           /\ w % 3 = IF t.direction = 1 THEN Next3(t.next_edge) ELSE t.next_edge
  BY DEF Turn, Corner, Next3, Prev3

-----------------------------------------------------------------------------
(****************************************************************************)
(* The nearby check: walks that move corners.                               *)
(****************************************************************************)
(* The corner of its facet a dart turns around.                             *)
CornerAt(a) == IF a.direction = 1 THEN a.edge ELSE Next3(a.edge)

(* Over goes there and back along mutual links.                             *)
LEMMA OverMutual ==
  ASSUME NEW s \in StlFiles, Mutual(s), NEW a \in Darts(s), Linked(s, a)
  PROVE  /\ Over(s, a) \in Darts(s) /\ Over(s, a).facet # a.facet
         /\ Linked(s, Over(s, a)) /\ Over(s, Over(s, a)) = a
<1>1. /\ a.edge \in Corner /\ a.direction \in {0, 1} /\ a.facet \in Facets(s)
      /\ a = [facet |-> a.facet, edge |-> a.edge, direction |-> a.direction]
  BY DEF Darts
<1> DEFINE f == a.facet
           e == a.edge
           g == s.neighbor[f][e]
           w == s.which_vertex_not[f][e]
           x == s.which_vertex_not[g][Next3(w)]
<1>2. w \in 0 .. 5 /\ f \in Slot
  <2>1. f \in Slot
    BY <1>1, FacetsAreSlots
  <2>2. s.which_vertex_not \in [Slot -> [Corner -> 0 .. 5]]
    BY DEF StlFiles
  <2>3. QED
    BY <1>1, <2>1, <2>2
<1>3. /\ g \in Facets(s) /\ g # f /\ s.neighbor[g][Next3(w)] = f
      /\ Next3(x) = e /\ ((x < 3) <=> (w < 3))
  <2>1. f \in Facets(s) /\ e \in Corner /\ g # None
    BY <1>1 DEF Linked
  <2>2. g \in Facets(s) /\ g # f /\ LinkedBack(s, f, e)
    BY <2>1 DEF Mutual, LinkedBack
  <2>3. QED
    BY <2>1, <2>2 DEF LinkedBack
<1> DEFINE b == Over(s, a)
<1>4. /\ b = [facet |-> b.facet, edge |-> b.edge, direction |-> b.direction]
      /\ b.facet = g /\ b.edge = Next3(w)
      /\ b.direction = IF w < 3 THEN 1 - a.direction ELSE a.direction
  BY DEF Over
<1> HIDE DEF b
<1>5. Next3(w) \in Corner /\ (IF w < 3 THEN 1 - a.direction ELSE a.direction) \in {0, 1}
  BY SMTT(20), <1>1, <1>2, CornersInARow
<1>6. b \in Darts(s) /\ b.facet # f
  BY <1>3, <1>4, <1>5 DEF Darts
<1>7. Linked(s, b)
  <2>1. f # None
    BY <1>2, MaxFacetsAssumption DEF Slot, None
  <2>2. QED
    BY <1>3, <1>4, <2>1 DEF Linked
<1>8. Over(s, b) = [facet |-> f, edge |-> Next3(x),
                    direction |-> IF x < 3 THEN 1 - b.direction ELSE b.direction]
  BY <1>3, <1>4 DEF Over
<1>9. (IF x < 3 THEN 1 - b.direction ELSE b.direction) = a.direction
  BY <1>1, <1>3, <1>4
<1>10. Over(s, b) = a
  BY <1>1, <1>3, <1>8, <1>9
<1>11. QED
  BY <1>6, <1>7, <1>10 DEF b

(* Neighbours share their edges exactly if they share each end.             *)
LEMMA EdgesRightByEnds ==
  ASSUME NEW s \in StlFiles
  PROVE  EdgesRight(s) <=>
           \A a \in Darts(s) : Linked(s, a) => PivotOf(s, Over(s, a)) = PivotOf(s, a)
<1>1. ASSUME EdgesRight(s), NEW a \in Darts(s), Linked(s, a)
      PROVE  PivotOf(s, Over(s, a)) = PivotOf(s, a)
  <2>1. a.edge \in Corner /\ a.direction \in {0, 1} /\ a.facet \in Facets(s)
    BY DEF Darts
  <2> DEFINE f == a.facet
             e == a.edge
             g == s.neighbor[f][e]
             w == s.which_vertex_not[f][e]
  <2>2. <<s.facet_start[f][e], s.facet_start[f][Next3(e)]>> =
          IF w < 3 THEN <<s.facet_start[g][Prev3(w)], s.facet_start[g][Next3(w)]>>
          ELSE <<s.facet_start[g][Next3(w)], s.facet_start[g][Prev3(w)]>>
    BY <1>1, <2>1 DEF EdgesRight, EdgeMatches, Linked
  <2>3. w \in 0 .. 5
    <3>1. s.which_vertex_not \in [Slot -> [Corner -> 0 .. 5]] /\ f \in Slot
      BY <2>1, FacetsAreSlots DEF StlFiles
    <3>2. QED
      BY <2>1, <3>1
  <2>4. Next3(Next3(w)) = Prev3(w)
    BY <2>3, CornersInARow
  <2> DEFINE b == Over(s, a)
  <2>5. /\ b.facet = g /\ b.edge = Next3(w)
        /\ b.direction = IF w < 3 THEN 1 - a.direction ELSE a.direction
    BY DEF Over
  <2>6. /\ PivotOf(s, b) = s.facet_start[b.facet][IF b.direction = 1 THEN b.edge
                                                  ELSE Next3(b.edge)]
        /\ PivotOf(s, a) = s.facet_start[f][IF a.direction = 1 THEN e ELSE Next3(e)]
    BY DEF PivotOf
  <2> HIDE DEF b, f, e, g, w
  <2>7. CASE w < 3
    BY <2>1, <2>2, <2>4, <2>5, <2>6, <2>7 DEF b
  <2>8. CASE ~ (w < 3)
    BY <2>1, <2>2, <2>4, <2>5, <2>6, <2>8 DEF b
  <2>9. QED
    BY <2>7, <2>8
<1>2. ASSUME \A a \in Darts(s) : Linked(s, a) => PivotOf(s, Over(s, a)) = PivotOf(s, a),
             NEW f \in Facets(s), NEW e \in Corner
      PROVE  EdgeMatches(s, f, e)
  <2> DEFINE g == s.neighbor[f][e]
             w == s.which_vertex_not[f][e]
             b == [facet |-> f, edge |-> e, direction |-> 1]
             c == [facet |-> f, edge |-> e, direction |-> 0]
  <2> SUFFICES ASSUME g # None
               PROVE  <<s.facet_start[f][e], s.facet_start[f][Next3(e)]>> =
                        IF w < 3 THEN <<s.facet_start[g][Prev3(w)], s.facet_start[g][Next3(w)]>>
                        ELSE <<s.facet_start[g][Next3(w)], s.facet_start[g][Prev3(w)]>>
    BY DEF EdgeMatches
  <2>1. b \in Darts(s) /\ c \in Darts(s) /\ Linked(s, b) /\ Linked(s, c)
    BY DEF Darts, Linked
  <2>2. PivotOf(s, Over(s, b)) = PivotOf(s, b) /\ PivotOf(s, Over(s, c)) = PivotOf(s, c)
    BY <1>2, <2>1
  <2>3. w \in 0 .. 5
    <3>1. s.which_vertex_not \in [Slot -> [Corner -> 0 .. 5]] /\ f \in Slot
      BY FacetsAreSlots DEF StlFiles
    <3>2. QED
      BY <3>1
  <2>4. Next3(Next3(w)) = Prev3(w)
    BY <2>3, CornersInARow
  <2>5. /\ Over(s, b) = [facet |-> g, edge |-> Next3(w), direction |-> IF w < 3 THEN 0 ELSE 1]
        /\ Over(s, c) = [facet |-> g, edge |-> Next3(w), direction |-> IF w < 3 THEN 1 ELSE 0]
    BY DEF Over
  <2>6. PivotOf(s, b) = s.facet_start[f][e] /\ PivotOf(s, c) = s.facet_start[f][Next3(e)]
    BY SMTT(20) DEF PivotOf
  <2>7. CASE w < 3
    <3>1. /\ PivotOf(s, Over(s, b)) = s.facet_start[g][Prev3(w)]
          /\ PivotOf(s, Over(s, c)) = s.facet_start[g][Next3(w)]
      BY <2>4, <2>5, <2>7 DEF PivotOf
    <3>2. QED
      BY <2>2, <2>6, <2>7, <3>1
  <2>8. CASE ~ (w < 3)
    <3>1. /\ PivotOf(s, Over(s, b)) = s.facet_start[g][Next3(w)]
          /\ PivotOf(s, Over(s, c)) = s.facet_start[g][Prev3(w)]
      BY <2>4, <2>5, <2>8 DEF PivotOf
    <3>2. QED
      BY <2>2, <2>6, <2>8, <3>1
  <2>9. QED
    BY <2>7, <2>8
<1>3. QED
  BY <1>1, <1>2 DEF EdgesRight

(* The two darts of a facet at a corner.                                    *)
LEMMA DartsAtCorner ==
  ASSUME NEW s, NEW a \in Darts(s), NEW b \in Darts(s)
  PROVE  a.facet = b.facet /\ CornerAt(a) = CornerAt(b) <=> b \in {a, Around(a)}
<1>1. /\ a.edge \in Corner /\ a.direction \in {0, 1} /\ a.facet \in Facets(s)
      /\ b.edge \in Corner /\ b.direction \in {0, 1}
  BY DEF Darts
<1>2. /\ a = [facet |-> a.facet, edge |-> a.edge, direction |-> a.direction]
      /\ b = [facet |-> b.facet, edge |-> b.edge, direction |-> b.direction]
  BY DEF Darts
<1>3. /\ Around(a).facet = a.facet
      /\ Around(a).edge = IF a.direction = 1 THEN Prev3(a.edge) ELSE Next3(a.edge)
      /\ Around(a).direction = 1 - a.direction
      /\ Around(a) = [facet |-> Around(a).facet, edge |-> Around(a).edge,
                      direction |-> Around(a).direction]
  BY DEF Around
<1>4. b = a <=> b.facet = a.facet /\ b.edge = a.edge /\ b.direction = a.direction
  BY <1>2
<1>5. b = Around(a) <=> /\ b.facet = Around(a).facet /\ b.edge = Around(a).edge
                        /\ b.direction = Around(a).direction
  BY <1>2, <1>3
<1>6. CornerAt(a) = CornerAt(b) <=>
        \/ b.edge = a.edge /\ b.direction = a.direction
        \/ b.edge = Around(a).edge /\ b.direction = Around(a).direction
  <2>1. CASE a.direction = 1
    <3>1. CASE b.direction = 1
      BY <1>1, <1>3, <2>1, <3>1 DEF CornerAt
    <3>2. CASE b.direction = 0
      BY <1>1, <1>3, <2>1, <3>2, CornersInARow DEF CornerAt
    <3>3. QED
      BY <1>1, <3>1, <3>2
  <2>2. CASE a.direction = 0
    <3>1. CASE b.direction = 1
      BY <1>1, <1>3, <2>2, <3>1, CornersInARow DEF CornerAt
    <3>2. CASE b.direction = 0
      BY <1>1, <1>3, <2>2, <3>2, CornersInARow DEF CornerAt
    <3>3. QED
      BY <1>1, <3>1, <3>2
  <2>3. QED
    BY <1>1, <2>1, <2>2
<1>7. QED
  BY <1>3, <1>4, <1>5, <1>6

(* t is s with the corner dart x turns around moved to v.                   *)
Moved(s, x, v, t) ==
  /\ t.number_of_facets = s.number_of_facets
  /\ t.neighbor = s.neighbor /\ t.which_vertex_not = s.which_vertex_not
  /\ \A f \in Facets(s), c \in Corner :
       t.facet_start[f][c] = IF f = x.facet /\ c = CornerAt(x) THEN v ELSE s.facet_start[f][c]

(* Only the two darts at that corner turn around another point then.        *)
LEMMA MovedDarts ==
  ASSUME NEW s, NEW x \in Darts(s), NEW v, NEW t, Moved(s, x, v, t)
  PROVE  /\ Facets(t) = Facets(s) /\ Darts(t) = Darts(s)
         /\ \A a \in Darts(s) :
              /\ Linked(t, a) <=> Linked(s, a)
              /\ Over(t, a) = Over(s, a)
              /\ PivotOf(t, a) = IF a \in {x, Around(x)} THEN v ELSE PivotOf(s, a)
<1>1. Facets(t) = Facets(s) /\ Darts(t) = Darts(s)
  BY DEF Moved, Darts, Facets
<1>2. ASSUME NEW a \in Darts(s)
      PROVE  PivotOf(t, a) = IF a \in {x, Around(x)} THEN v ELSE PivotOf(s, a)
  <2>1. a.edge \in Corner /\ a.facet \in Facets(s) /\ CornerAt(a) \in Corner
    BY CornersInARow DEF Darts, CornerAt
  <2>2. /\ PivotOf(t, a) = t.facet_start[a.facet][CornerAt(a)]
        /\ PivotOf(s, a) = s.facet_start[a.facet][CornerAt(a)]
    BY DEF PivotOf, CornerAt
  <2>3. t.facet_start[a.facet][CornerAt(a)] =
          IF a.facet = x.facet /\ CornerAt(a) = CornerAt(x) THEN v
          ELSE s.facet_start[a.facet][CornerAt(a)]
    BY <2>1 DEF Moved
  <2>4. a.facet = x.facet /\ CornerAt(a) = CornerAt(x) <=> a \in {x, Around(x)}
    BY DartsAtCorner
  <2>5. QED
    BY <2>2, <2>3, <2>4
<1>3. \A a \in Darts(s) : (Linked(t, a) <=> Linked(s, a)) /\ Over(t, a) = Over(s, a)
  BY DEF Moved, Linked, Over
<1>4. QED
  BY <1>1, <1>2, <1>3

(* The dart a walk of stl_change_vertices is about to leave its facet        *)
(* across, and the one it came in by: it moves the corner between them.     *)
Toward(w) ==
  LET t == Turn(w.vnot, w.direction)
  IN  [facet |-> w.facet_num, edge |-> t.next_edge, direction |-> t.direction]
Entry(w) == Around(Toward(w))

(* The ends of a pending edge, in the order of its key.                     *)
FirstDart(p) ==
  [facet |-> p.facet_number, edge |-> p.which_edge % 3,
   direction |-> IF p.which_edge < 3 THEN 1 ELSE 0]
SecondDart(p) ==
  [facet |-> p.facet_number, edge |-> p.which_edge % 3,
   direction |-> IF p.which_edge < 3 THEN 0 ELSE 1]

(* They are the corners the nearby check pairs.                             *)
LEMMA EndsOfEdge ==
  ASSUME NEW s, NEW p \in Edge, p.facet_number \in Facets(s)
  PROVE  /\ FirstDart(p) \in Darts(s) /\ SecondDart(p) \in Darts(s)
         /\ FirstDart(p) # SecondDart(p)
         /\ CornerAt(FirstDart(p)) = Nearby!FirstCorner(p)
         /\ CornerAt(SecondDart(p)) = Nearby!SecondCorner(p)
         /\ CornerAt(FirstDart(p)) \in Corner /\ CornerAt(SecondDart(p)) \in Corner
         /\ \A a \in Darts(s) : a.facet = p.facet_number /\ a.edge = p.which_edge % 3
                                  <=> a \in {FirstDart(p), SecondDart(p)}
<1>1. p.which_edge \in 0 .. 5 /\ p.which_edge % 3 \in Corner
  BY CornerArithmetic DEF Edge
<1>2. FirstDart(p) \in Darts(s) /\ SecondDart(p) \in Darts(s) /\ FirstDart(p) # SecondDart(p)
  BY <1>1 DEF FirstDart, SecondDart, Darts
<1>3. /\ CornerAt(FirstDart(p)) = IF p.which_edge < 3 THEN p.which_edge % 3
                                  ELSE Next3(p.which_edge % 3)
      /\ CornerAt(SecondDart(p)) = IF p.which_edge < 3 THEN Next3(p.which_edge % 3)
                                   ELSE p.which_edge % 3
  BY <1>1 DEF FirstDart, SecondDart, CornerAt
<1>4. /\ p.which_edge < 3 => p.which_edge % 3 = p.which_edge
      /\ Next3(p.which_edge % 3) = Next3(p.which_edge) /\ Next3(p.which_edge) \in Corner
  BY <1>1 DEF Next3, Corner
<1>5. /\ CornerAt(FirstDart(p)) = Nearby!FirstCorner(p)
      /\ CornerAt(SecondDart(p)) = Nearby!SecondCorner(p)
  BY <1>3, <1>4, NearbyOperators DEF Nearby!FirstCorner, Nearby!SecondCorner
<1>6. ASSUME NEW a \in Darts(s)
      PROVE  a.facet = p.facet_number /\ a.edge = p.which_edge % 3
               <=> a \in {FirstDart(p), SecondDart(p)}
  <2>1. /\ a = [facet |-> a.facet, edge |-> a.edge, direction |-> a.direction]
        /\ a.direction \in {0, 1}
    BY DEF Darts
  <2>2. QED
    BY <2>1 DEF FirstDart, SecondDart
<1>7. QED
  BY <1>1, <1>2, <1>3, <1>4, <1>5, <1>6

(* A walk moves the corner between the two darts.                           *)
LEMMA MovesBetween ==
  ASSUME NEW s, NEW w \in VertexWalk, w.facet_num \in Facets(s)
  PROVE  /\ Toward(w) \in Darts(s) /\ Toward(w).facet = w.facet_num
         /\ Toward(w).edge = Turn(w.vnot, w.direction).next_edge
         /\ CornerAt(Toward(w)) = Turn(w.vnot, w.direction).pivot_vertex
         /\ Entry(w) \in Darts(s) /\ Entry(w) = Around(Toward(w))
<1>1. w.vnot \in 0 .. 5 /\ w.direction \in {0, 1}
  BY DEF VertexWalk
<1>2. \A v \in 0 .. 5, d \in {0, 1} :
        LET t == Turn(v, d)
        IN  /\ t.next_edge \in Corner /\ t.direction \in {0, 1}
            /\ t.pivot_vertex = IF t.direction = 1 THEN t.next_edge ELSE Next3(t.next_edge)
  BY DEF Turn, Corner, Next3, Prev3
<1> DEFINE t == Turn(w.vnot, w.direction)
<1>3. /\ Toward(w).facet = w.facet_num /\ Toward(w).edge = t.next_edge
      /\ Toward(w).direction = t.direction
      /\ Toward(w) = [facet |-> Toward(w).facet, edge |-> Toward(w).edge,
                      direction |-> Toward(w).direction]
  BY DEF Toward
<1>4. /\ t.next_edge \in Corner /\ t.direction \in {0, 1}
      /\ t.pivot_vertex = IF t.direction = 1 THEN t.next_edge ELSE Next3(t.next_edge)
  BY <1>1, <1>2
<1> HIDE DEF t
<1>5. Toward(w) \in Darts(s)
  BY <1>3, <1>4 DEF Darts
<1>6. CornerAt(Toward(w)) = t.pivot_vertex
  BY <1>3, <1>4 DEF CornerAt
<1>7. Entry(w) \in Darts(s)
  BY <1>5, AroundTwice DEF Entry
<1>8. QED
  BY <1>3, <1>5, <1>6, <1>7 DEF t, Entry

(* The walks that are set out come in by the matched edge, at the corner    *)
(* they are to move.                                                        *)
LEMMA WalkStarts ==
  ASSUME NEW p \in Edge, NEW v \in Vertex
  PROVE  LET w == Nearby!Walk(p, Nearby!FirstCorner(p), v)
             z == Nearby!Walk(p, Nearby!SecondCorner(p), v)
         IN  /\ w \in VertexWalk /\ w.vertex = v /\ w.facet_num = p.facet_number
             /\ z \in VertexWalk /\ z.vertex = v /\ z.facet_num = p.facet_number
             /\ Entry(w) = FirstDart(p) /\ Entry(z) = SecondDart(p)
<1> DEFINE u == p.which_edge
           n == Prev3(u)
<1>1. p.facet_number \in Slot /\ u \in 0 .. 5
  BY DEF Edge
<1>2. n \in 0 .. 5 /\ n + 3 \in 0 .. 5
  BY <1>1, CornerArithmetic
<1>3. ASSUME NEW c, NEW w, w = Nearby!Walk(p, c, v)
      PROVE  /\ w.first = p.facet_number /\ w.facet_num = p.facet_number
             /\ w.vnot = IF Prev3(n) = c THEN n + 3 ELSE n
             /\ w.direction = 0 /\ w.vertex = v
             /\ w \in VertexWalk
  <2> DEFINE m == IF Prev3(n) = c THEN n + 3 ELSE n
  <2>1. m \in 0 .. 5
    BY <1>2
  <2>2. w = [first |-> p.facet_number, facet_num |-> p.facet_number,
             vnot |-> m, direction |-> 0, vertex |-> v]
    BY <1>3, NearbyOperators DEF Nearby!Walk
  <2> HIDE DEF m
  <2>3. w \in VertexWalk
    BY <1>1, <2>1, <2>2 DEF VertexWalk
  <2>4. QED
    BY <2>2, <2>3 DEF m
<1>4. \A k \in 0 .. 5 :
        LET first  == IF k < 3 THEN k ELSE Next3(k)
            second == IF k < 3 THEN Next3(k) ELSE k % 3
            m(c)   == IF Prev3(Prev3(k)) = c THEN Prev3(k) + 3 ELSE Prev3(k)
            x      == Turn(m(first), 0)
            y      == Turn(m(second), 0)
        IN  /\ k % 3 = IF x.direction = 1 THEN Prev3(x.next_edge) ELSE Next3(x.next_edge)
            /\ 1 - x.direction = IF k < 3 THEN 1 ELSE 0
            /\ k % 3 = IF y.direction = 1 THEN Prev3(y.next_edge) ELSE Next3(y.next_edge)
            /\ 1 - y.direction = IF k < 3 THEN 0 ELSE 1
  BY DEF Turn, Next3, Prev3
<1>5. /\ Nearby!FirstCorner(p) = IF u < 3 THEN u ELSE Next3(u)
      /\ Nearby!SecondCorner(p) = IF u < 3 THEN Next3(u) ELSE u % 3
  BY NearbyOperators DEF Nearby!FirstCorner, Nearby!SecondCorner
<1> DEFINE w == Nearby!Walk(p, Nearby!FirstCorner(p), v)
           z == Nearby!Walk(p, Nearby!SecondCorner(p), v)
<1>6. /\ w.first = p.facet_number /\ w.facet_num = p.facet_number
      /\ w.vnot = IF Prev3(n) = Nearby!FirstCorner(p) THEN n + 3 ELSE n
      /\ w.direction = 0 /\ w.vertex = v /\ w \in VertexWalk
  BY <1>3
<1>7. /\ z.first = p.facet_number /\ z.facet_num = p.facet_number
      /\ z.vnot = IF Prev3(n) = Nearby!SecondCorner(p) THEN n + 3 ELSE n
      /\ z.direction = 0 /\ z.vertex = v /\ z \in VertexWalk
  BY <1>3
<1>8. ASSUME NEW x, x.direction = 0
      PROVE  Entry(x) = LET t == Turn(x.vnot, 0)
                        IN  [facet |-> x.facet_num,
                             edge |-> IF t.direction = 1 THEN Prev3(t.next_edge)
                                      ELSE Next3(t.next_edge),
                             direction |-> 1 - t.direction]
  BY <1>8 DEF Entry, Toward, Around
<1> HIDE DEF w, z
<1>9. Entry(w) = FirstDart(p)
  BY <1>1, <1>4, <1>5, <1>6, <1>8 DEF FirstDart
<1>10. Entry(z) = SecondDart(p)
  BY <1>1, <1>4, <1>5, <1>7, <1>8 DEF SecondDart
<1>11. QED
  BY <1>6, <1>7, <1>9, <1>10 DEF w, z

(* A walk that goes on comes in by the edge it left across.                 *)
LEMMA GoesOn ==
  ASSUME NEW s \in StlFiles, Mutual(s),
         NEW w \in VertexWalk, w.facet_num \in Facets(s), Linked(s, Toward(w)),
         NEW on, on = [w EXCEPT
                         !.facet_num = s.neighbor[w.facet_num][Toward(w).edge],
                         !.vnot = s.which_vertex_not[w.facet_num][Toward(w).edge],
                         !.direction = Toward(w).direction]
  PROVE  /\ on \in VertexWalk /\ on.vertex = w.vertex /\ on.first = w.first
         /\ on.facet_num \in Facets(s)
         /\ Entry(on) = Over(s, Toward(w)) /\ Toward(on) = Around(Over(s, Toward(w)))
<1> DEFINE x == Toward(w)
           v == s.which_vertex_not[w.facet_num][x.edge]
           y == Over(s, x)
<1>1. x \in Darts(s) /\ x.facet = w.facet_num
  BY MovesBetween
<1>2. x.edge \in Corner /\ x.direction \in {0, 1} /\ x.facet \in Facets(s)
  BY <1>1 DEF Darts
<1>3. v \in 0 .. 5
  <2>1. x.facet \in Slot
    BY <1>2, FacetsAreSlots
  <2>2. s.which_vertex_not \in [Slot -> [Corner -> 0 .. 5]]
    BY DEF StlFiles
  <2> HIDE DEF x
  <2>3. QED
    BY <1>1, <1>2, <2>1, <2>2
<1>4. y \in Darts(s)
  BY <1>1, OverMutual
<1>5. /\ y.facet = s.neighbor[w.facet_num][x.edge] /\ y.edge = Next3(v)
      /\ y.direction = IF v < 3 THEN 1 - x.direction ELSE x.direction
  BY <1>1 DEF Over
<1> HIDE DEF x, v, y
<1>6. y.facet \in Facets(s) /\ y.facet \in Slot
  BY <1>4, FacetsAreSlots DEF Darts
<1>7. on = [w EXCEPT !.facet_num = y.facet, !.vnot = v, !.direction = x.direction]
  BY <1>5 DEF x, v
<1>8. /\ on \in VertexWalk /\ on.vertex = w.vertex /\ on.first = w.first
      /\ on.facet_num = y.facet /\ on.vnot = v /\ on.direction = x.direction
  BY <1>2, <1>3, <1>6, <1>7 DEF VertexWalk
<1>9. Toward(on) = [facet |-> y.facet, edge |-> Turn(v, x.direction).next_edge,
                    direction |-> Turn(v, x.direction).direction]
  BY <1>8 DEF Toward
<1>10. /\ Turn(v, x.direction).next_edge =
            IF y.direction = 1 THEN Prev3(Next3(v)) ELSE Next3(Next3(v))
       /\ Turn(v, x.direction).direction = 1 - y.direction
  BY <1>2, <1>3, <1>5, TurnsAround
<1>11. Toward(on) = Around(y)
  BY <1>5, <1>9, <1>10 DEF Around
<1>12. Entry(on) = y
  BY <1>4, <1>11, AroundTwice DEF Entry
<1>13. QED
  BY <1>6, <1>8, <1>11, <1>12 DEF x, y

-----------------------------------------------------------------------------
(****************************************************************************)
(* The grid.                                                                *)
(****************************************************************************)
(* The cell of a point in the grid a file and a tolerance give.             *)
CellIn(grid, p) ==
  LET least(axis) ==
        LET values == {grid[1][k][c][axis] : k \in DOMAIN grid[1], c \in Corner}
        IN  CHOOSE v \in values : \A w \in values : v <= w
      coordinate(axis) ==
        IF grid[2] = 0 THEN 0 ELSE (p[axis] - least(axis)) \div grid[2]
  IN  <<coordinate(1), coordinate(2), coordinate(3)>>

(* The nearby check uses that of the file read and its tolerance.           *)
LEMMA CellsInGrid == \A p : Nearby!Cell(p) = CellIn(<<file, tolerance>>, p)
BY NearbyOperators DEF CellIn, Nearby!Cell, Nearby!LeastCoordinate

(* Neighbours share their edges as far as the cells tell.                   *)
CellsRight(grid, s) ==
  \A a \in Darts(s) : Linked(s, a) =>
    CellIn(grid, PivotOf(s, Over(s, a))) = CellIn(grid, PivotOf(s, a))

(* An edge whose key are the two different cells of its ends.               *)
CellEdge(grid, s, p) ==
  /\ p.key = <<CellIn(grid, PivotOf(s, FirstDart(p))), CellIn(grid, PivotOf(s, SecondDart(p)))>>
  /\ p.key[1] # p.key[2]

(* The walks in U move corners within their cells, each in another one.     *)
Walking(grid, s, U) ==
  /\ U \subseteq VertexWalk
  /\ \A w \in U : /\ w.facet_num \in Facets(s)
                  /\ CellIn(grid, PivotOf(s, Toward(w))) = CellIn(grid, w.vertex)
  /\ \A w, z \in U : w # z => CellIn(grid, w.vertex) # CellIn(grid, z.vertex)

(* Neighbours share their edges but for the ends by which the walks in U    *)
(* come in: there the facet they come from has the point they carry.        *)
MatchedBut(s, U) ==
  /\ \A a \in Darts(s) : Linked(s, a) =>
       \/ PivotOf(s, Over(s, a)) = PivotOf(s, a)
       \/ \E w \in U : a \in {Entry(w), Over(s, Entry(w))}
  /\ \A w \in U : /\ Linked(s, Entry(w))
                  /\ PivotOf(s, Over(s, Entry(w))) = w.vertex

(* From s to t every corner stays in its cell.                              *)
CellsKept(grid, s, t) ==
  \A f \in Facets(s), c \in Corner :
    CellIn(grid, t.facet_start[f][c]) = CellIn(grid, s.facet_start[f][c])

(* The corner a walk moves stays in its cell, and its facet's neighbours    *)
(* still share its edges as far as the cells tell.                          *)
LEMMA MoveKeepsCells ==
  ASSUME NEW s \in StlFiles, Mutual(s), NEW grid, NEW U, Walking(grid, s, U),
         CellsRight(grid, s), NEW w \in U, NEW t, Moved(s, Toward(w), w.vertex, t)
  PROVE  /\ CellsKept(grid, s, t) /\ CellsRight(grid, t)
         /\ Walking(grid, t, U \ {w})
         /\ \A on : /\ Linked(s, Toward(w))
                    /\ on = [w EXCEPT
                               !.facet_num = s.neighbor[w.facet_num][Toward(w).edge],
                               !.vnot = s.which_vertex_not[w.facet_num][Toward(w).edge],
                               !.direction = Toward(w).direction]
                    => on.vertex = w.vertex /\ Walking(grid, t, (U \ {w}) \cup {on})
<1> DEFINE x == Toward(w)
<1>1. w \in VertexWalk /\ w.facet_num \in Facets(s)
      /\ CellIn(grid, PivotOf(s, x)) = CellIn(grid, w.vertex)
  BY DEF Walking
<1>2. x \in Darts(s) /\ x.facet = w.facet_num
  BY <1>1, MovesBetween
<1>3. Around(x) \in Darts(s) /\ PivotOf(s, Around(x)) = PivotOf(s, x)
  BY <1>2, AroundTwice
<1>4. /\ Facets(t) = Facets(s) /\ Darts(t) = Darts(s)
      /\ \A a \in Darts(s) :
           /\ Linked(t, a) <=> Linked(s, a)
           /\ Over(t, a) = Over(s, a)
           /\ PivotOf(t, a) = IF a \in {x, Around(x)} THEN w.vertex ELSE PivotOf(s, a)
  BY <1>2, MovedDarts
<1> HIDE DEF x
<1>5. \A a \in Darts(s) : CellIn(grid, PivotOf(t, a)) = CellIn(grid, PivotOf(s, a))
  BY <1>1, <1>3, <1>4
<1>6. CellsKept(grid, s, t)
  <2>1. PivotOf(s, x) = s.facet_start[x.facet][CornerAt(x)]
    BY DEF PivotOf, CornerAt
  <2>2. QED
    BY <1>1, <2>1 DEF CellsKept, Moved, x
<1>7. CellsRight(grid, t)
  <2>1. \A a \in Darts(s) : Linked(s, a) => Over(s, a) \in Darts(s)
    BY OverMutual
  <2>2. QED
    BY <1>4, <1>5, <2>1 DEF CellsRight
<1>8. ASSUME NEW V, V \subseteq VertexWalk,
             \A z \in V : /\ z.facet_num \in Facets(s)
                          /\ CellIn(grid, PivotOf(s, Toward(z))) = CellIn(grid, z.vertex),
             \A y, z \in V : y # z => CellIn(grid, y.vertex) # CellIn(grid, z.vertex)
      PROVE  Walking(grid, t, V)
  <2>1. \A z \in V : Toward(z) \in Darts(s)
    BY <1>8, MovesBetween
  <2>2. QED
    BY <1>4, <1>5, <1>8, <2>1 DEF Walking
<1>9. Walking(grid, t, U \ {w})
  BY <1>8 DEF Walking
<1>10. ASSUME NEW on, Linked(s, x),
              on = [w EXCEPT !.facet_num = s.neighbor[w.facet_num][x.edge],
                             !.vnot = s.which_vertex_not[w.facet_num][x.edge],
                             !.direction = x.direction]
       PROVE  on.vertex = w.vertex /\ Walking(grid, t, (U \ {w}) \cup {on})
  <2>1. /\ on \in VertexWalk /\ on.vertex = w.vertex /\ on.facet_num \in Facets(s)
        /\ Toward(on) = Around(Over(s, x))
    BY <1>1, <1>10, GoesOn DEF x
  <2>2. Over(s, x) \in Darts(s)
    BY <1>2, <1>10, OverMutual
  <2>3. PivotOf(s, Toward(on)) = PivotOf(s, Over(s, x))
    BY <2>1, <2>2, AroundTwice
  <2>4. CellIn(grid, PivotOf(s, Toward(on))) = CellIn(grid, on.vertex)
    BY <1>1, <1>2, <1>10, <2>1, <2>3 DEF CellsRight
  <2> DEFINE V == (U \ {w}) \cup {on}
  <2>5. V \subseteq VertexWalk
    BY <2>1 DEF Walking
  <2>6. \A z \in V : /\ z.facet_num \in Facets(s)
                     /\ CellIn(grid, PivotOf(s, Toward(z))) = CellIn(grid, z.vertex)
    BY <2>1, <2>4 DEF Walking
  <2>7. \A y, z \in V : y # z => CellIn(grid, y.vertex) # CellIn(grid, z.vertex)
    BY <2>1 DEF Walking
  <2> HIDE DEF V
  <2>8. Walking(grid, t, V)
    BY <1>8, <2>5, <2>6, <2>7
  <2>9. QED
    BY SMTT(20), <2>1, <2>8 DEF V
<1>11. QED
  BY <1>6, <1>7, <1>9, <1>10 DEF x

(* Once a walk has moved a corner the edge it came in by is shared again;   *)
(* if it goes on, the only other end moved is the one it leaves by.         *)
LEMMA MoveKeepsMatches ==
  ASSUME NEW s \in StlFiles, Mutual(s), NEW grid, NEW U, Walking(grid, s, U),
         MatchedBut(s, U), NEW w \in U, NEW t, Moved(s, Toward(w), w.vertex, t)
  PROVE  /\ ~ Linked(s, Toward(w)) => MatchedBut(t, U \ {w})
         /\ \A on : /\ Linked(s, Toward(w))
                    /\ on = [w EXCEPT
                               !.facet_num = s.neighbor[w.facet_num][Toward(w).edge],
                               !.vnot = s.which_vertex_not[w.facet_num][Toward(w).edge],
                               !.direction = Toward(w).direction]
                    => MatchedBut(t, (U \ {w}) \cup {on})
<1> DEFINE x == Toward(w)
           e == Entry(w)
           o == Over(s, e)
<1>1. /\ w \in VertexWalk /\ w.facet_num \in Facets(s)
      /\ CellIn(grid, PivotOf(s, x)) = CellIn(grid, w.vertex)
      /\ Linked(s, e) /\ PivotOf(s, o) = w.vertex
  BY DEF Walking, MatchedBut
<1>2. x \in Darts(s) /\ x.facet = w.facet_num /\ e = Around(x)
  BY <1>1, MovesBetween
<1>3. e \in Darts(s) /\ e.facet = x.facet /\ PivotOf(s, e) = PivotOf(s, x)
  BY <1>2, AroundTwice
<1>4. o \in Darts(s) /\ o.facet # e.facet /\ Linked(s, o) /\ Over(s, o) = e
  BY <1>1, <1>3, OverMutual
<1>5. /\ Facets(t) = Facets(s) /\ Darts(t) = Darts(s)
      /\ \A a \in Darts(s) :
           /\ Linked(t, a) <=> Linked(s, a)
           /\ Over(t, a) = Over(s, a)
           /\ PivotOf(t, a) = IF a \in {x, e} THEN w.vertex ELSE PivotOf(s, a)
  BY <1>2, MovedDarts
<1>6. \A a \in Darts(s) : Linked(s, a) => Over(s, a) \in Darts(s) /\ Over(s, Over(s, a)) = a
                                          /\ Linked(s, Over(s, a))
  BY OverMutual
<1>7. ASSUME NEW z \in U \ {w}
      PROVE  /\ Entry(z) \in Darts(s) /\ Linked(t, Entry(z))
             /\ PivotOf(t, Over(t, Entry(z))) = z.vertex
  <2>1. /\ z \in VertexWalk /\ z.facet_num \in Facets(s)
        /\ CellIn(grid, z.vertex) # CellIn(grid, w.vertex)
        /\ Linked(s, Entry(z)) /\ PivotOf(s, Over(s, Entry(z))) = z.vertex
    BY DEF Walking, MatchedBut
  <2>2. Entry(z) \in Darts(s)
    BY <2>1, MovesBetween
  <2> HIDE DEF x, e
  <2>3. Over(s, Entry(z)) \in Darts(s) /\ Over(s, Entry(z)) \notin {x, e}
    BY <1>1, <1>3, <1>6, <2>1, <2>2
  <2>4. QED
    BY <1>5, <2>1, <2>2, <2>3
<1> HIDE DEF x
<1>8. ASSUME NEW a \in Darts(s), Linked(s, a), a # x, Linked(s, x) => a # Over(s, x)
      PROVE  \/ PivotOf(t, Over(t, a)) = PivotOf(t, a)
             \/ \E z \in U \ {w} : a \in {Entry(z), Over(t, Entry(z))}
  <2>1. CASE a \in {e, o}
    <3>1. o \notin {x, e}
      BY <1>3, <1>4
    <3>2. PivotOf(t, e) = w.vertex /\ PivotOf(t, o) = w.vertex
      BY <1>1, <1>3, <1>4, <1>5, <3>1
    <3>3. Over(t, e) = o /\ Over(t, o) = e
      BY <1>3, <1>4, <1>5
    <3>4. QED
      BY <2>1, <3>2, <3>3
  <2>2. CASE a \notin {e, o}
    <3>1. Over(s, a) \in Darts(s) /\ Over(s, a) \notin {x, e}
      BY <1>6, <1>8, <2>2
    <3>2. PivotOf(t, Over(t, a)) = PivotOf(s, Over(s, a)) /\ PivotOf(t, a) = PivotOf(s, a)
      BY <1>5, <1>8, <2>2, <3>1
    <3>3. CASE PivotOf(s, Over(s, a)) = PivotOf(s, a)
      BY <3>2, <3>3
    <3>4. CASE PivotOf(s, Over(s, a)) # PivotOf(s, a)
      <4>1. PICK z \in U : a \in {Entry(z), Over(s, Entry(z))}
        BY <1>8, <3>4 DEF MatchedBut
      <4>2. z # w
        BY <2>2, <4>1
      <4>3. Over(t, Entry(z)) = Over(s, Entry(z))
        BY <1>5, <1>7, <4>2
      <4>4. QED
        BY <4>1, <4>2, <4>3
    <3>5. QED
      BY <3>3, <3>4
  <2>3. QED
    BY <2>1, <2>2
<1>9. ASSUME ~ Linked(s, x)
      PROVE  MatchedBut(t, U \ {w})
  BY <1>5, <1>7, <1>8, <1>9 DEF MatchedBut
<1>10. ASSUME NEW on, Linked(s, x),
              on = [w EXCEPT !.facet_num = s.neighbor[w.facet_num][x.edge],
                             !.vnot = s.which_vertex_not[w.facet_num][x.edge],
                             !.direction = x.direction]
       PROVE  MatchedBut(t, (U \ {w}) \cup {on})
  <2>1. on.vertex = w.vertex /\ Entry(on) = Over(s, x)
    BY <1>1, <1>10, GoesOn DEF x
  <2>2. /\ Over(s, x) \in Darts(s) /\ Linked(s, Over(s, x)) /\ Over(s, Over(s, x)) = x
    BY <1>2, <1>6, <1>10
  <2>3. /\ Linked(t, Entry(on)) /\ Over(t, Entry(on)) = x
        /\ PivotOf(t, x) = on.vertex
    BY <1>2, <1>5, <2>1, <2>2
  <2> DEFINE V == (U \ {w}) \cup {on}
  <2>4. \A z \in V : /\ Linked(t, Entry(z)) /\ PivotOf(t, Over(t, Entry(z))) = z.vertex
    BY <1>7, <2>3
  <2>5. ASSUME NEW a \in Darts(t), Linked(t, a)
        PROVE  \/ PivotOf(t, Over(t, a)) = PivotOf(t, a)
               \/ \E z \in V : a \in {Entry(z), Over(t, Entry(z))}
    <3>1. CASE a \in {x, Over(s, x)}
      <4>1. a \in {Entry(on), Over(t, Entry(on))} /\ on \in V
        BY <2>1, <2>3, <3>1
      <4>2. QED
        BY <4>1
    <3>2. CASE a \notin {x, Over(s, x)}
      <4>1. \/ PivotOf(t, Over(t, a)) = PivotOf(t, a)
            \/ \E z \in U \ {w} : a \in {Entry(z), Over(t, Entry(z))}
        BY <1>5, <1>8, <2>5, <3>2
      <4>2. QED
        BY <4>1
    <3>3. QED
      BY <3>1, <3>2
  <2> HIDE DEF V
  <2>6. MatchedBut(t, V)
    BY <2>4, <2>5 DEF MatchedBut
  <2>7. QED
    BY <2>6 DEF V
<1>11. QED
  BY <1>9, <1>10 DEF x

-----------------------------------------------------------------------------
(****************************************************************************)
(* A match in the nearby check.                                             *)
(****************************************************************************)
(* The walks of a list, each there once.                                    *)
WalkSet(ws) == {ws[k] : k \in DOMAIN ws}
OneEach(ws) == \A k, l \in DOMAIN ws : ws[k] = ws[l] => k = l

(* The first walk ends, or goes on.                                         *)
LEMMA FirstWalk ==
  ASSUME NEW ws \in Seq(VertexWalk), ws # <<>>, OneEach(ws)
  PROVE  /\ Head(ws) \in WalkSet(ws)
         /\ WalkSet(Tail(ws)) = WalkSet(ws) \ {Head(ws)} /\ OneEach(Tail(ws))
         /\ \A on \in VertexWalk : on \notin WalkSet(ws) \ {Head(ws)} =>
              /\ WalkSet(<<on>> \o Tail(ws)) = (WalkSet(ws) \ {Head(ws)}) \cup {on}
              /\ OneEach(<<on>> \o Tail(ws))
<1>1. /\ Len(ws) \in Nat /\ Len(ws) # 0 /\ DOMAIN ws = 1 .. Len(ws)
      /\ Head(ws) = ws[1]
      /\ Tail(ws) \in Seq(VertexWalk)
      /\ DOMAIN Tail(ws) = 1 .. Len(ws) - 1
      /\ \A k \in 1 .. Len(ws) - 1 : Tail(ws)[k] = ws[k + 1]
  OBVIOUS
<1> DEFINE n == Len(ws)
           u == Tail(ws)
<1> HIDE DEF n, u
<1>2. /\ n \in Nat /\ n # 0 /\ DOMAIN ws = 1 .. n /\ Head(ws) = ws[1]
      /\ DOMAIN u = 1 .. n - 1 /\ \A k \in 1 .. n - 1 : u[k] = ws[k + 1]
  BY <1>1 DEF n, u
<1>3. Head(ws) \in WalkSet(ws)
  BY <1>2 DEF WalkSet
<1>4. OneEach(u)
  <2>1. ASSUME NEW k \in 1 .. n - 1, NEW l \in 1 .. n - 1, u[k] = u[l]
        PROVE  k = l
    <3>1. k + 1 \in 1 .. n /\ l + 1 \in 1 .. n /\ ws[k + 1] = ws[l + 1]
      BY <1>2, <2>1
    <3>2. k + 1 = l + 1
      BY <1>2, <3>1 DEF OneEach
    <3>3. QED
      BY <1>2, <3>2
  <2>2. QED
    BY <1>2, <2>1 DEF OneEach
<1>5. WalkSet(u) = WalkSet(ws) \ {Head(ws)}
  <2>1. ASSUME NEW k \in 1 .. n - 1
        PROVE  u[k] \in WalkSet(ws) \ {Head(ws)}
    <3>1. k + 1 \in 1 .. n /\ k + 1 # 1 /\ 1 \in 1 .. n
      BY <1>2
    <3>2. ws[k + 1] # ws[1]
      BY <1>2, <3>1 DEF OneEach
    <3>3. QED
      BY <1>2, <3>1, <3>2 DEF WalkSet
  <2>2. ASSUME NEW k \in 1 .. n, ws[k] # ws[1]
        PROVE  ws[k] \in WalkSet(u)
    <3>1. k - 1 \in 1 .. n - 1 /\ (k - 1) + 1 = k
      BY <1>2, <2>2
    <3>2. u[k - 1] = ws[k]
      BY <1>2, <3>1
    <3>3. QED
      BY <1>2, <3>1, <3>2 DEF WalkSet
  <2>3. WalkSet(u) \subseteq WalkSet(ws) \ {Head(ws)}
    <3>1. \A y \in WalkSet(u) : \E k \in 1 .. n - 1 : y = u[k]
      BY <1>2 DEF WalkSet
    <3>2. QED
      BY <2>1, <3>1
  <2>4. WalkSet(ws) \ {Head(ws)} \subseteq WalkSet(u)
    <3>1. \A y \in WalkSet(ws) : \E k \in 1 .. n : y = ws[k]
      BY <1>2 DEF WalkSet
    <3>2. QED
      BY <1>2, <2>2, <3>1
  <2>5. QED
    BY <2>3, <2>4
<1>6. ASSUME NEW on \in VertexWalk, on \notin WalkSet(ws) \ {Head(ws)}
      PROVE  /\ WalkSet(<<on>> \o u) = (WalkSet(ws) \ {Head(ws)}) \cup {on}
             /\ OneEach(<<on>> \o u)
  <2> DEFINE v == <<on>> \o u
  <2>1. /\ DOMAIN v = 1 .. n /\ v[1] = on
        /\ \A k \in 2 .. n : v[k] = u[k - 1]
    <3>1. u \in Seq(VertexWalk) /\ Len(u) = n - 1
      BY <1>1 DEF n, u
    <3>2. QED
      BY <1>2, <3>1
  <2> HIDE DEF v
  <2>2. ASSUME NEW k \in 2 .. n
        PROVE  k - 1 \in 1 .. n - 1 /\ v[k] \in WalkSet(u)
    <3>1. k - 1 \in 1 .. n - 1
      BY <1>2
    <3>2. v[k] = u[k - 1]
      BY <2>1
    <3>3. u[k - 1] \in WalkSet(u)
      BY <1>2, <3>1 DEF WalkSet
    <3>4. QED
      BY <3>1, <3>2, <3>3
  <2>3. WalkSet(v) = WalkSet(u) \cup {on}
    <3>1. \A k \in 1 .. n : k = 1 \/ k \in 2 .. n
      BY <1>2
    <3>2. WalkSet(v) \subseteq WalkSet(u) \cup {on}
      BY <2>1, <2>2, <3>1 DEF WalkSet
    <3>3. ASSUME NEW k \in 1 .. n - 1 PROVE u[k] \in WalkSet(v)
      <4>1. k + 1 \in 2 .. n /\ k + 1 \in 1 .. n /\ (k + 1) - 1 = k
        BY <1>2
      <4>2. v[k + 1] = u[k]
        BY <2>1, <4>1
      <4>3. QED
        BY <2>1, <4>1, <4>2 DEF WalkSet
    <3>4. on \in WalkSet(v)
      BY <1>2, <2>1 DEF WalkSet
    <3>5. WalkSet(u) \subseteq WalkSet(v)
      BY <1>2, <3>3 DEF WalkSet
    <3>6. QED
      BY <3>2, <3>4, <3>5
  <2>4. ASSUME NEW k \in 1 .. n, NEW l \in 1 .. n, v[k] = v[l]
        PROVE  k = l
    <3>1. on \notin WalkSet(u)
      BY <1>5, <1>6
    <3>2. CASE k = 1 \/ l = 1
      BY <1>2, <2>1, <2>2, <2>4, <3>1, <3>2
    <3>3. CASE k # 1 /\ l # 1
      <4>1. k \in 2 .. n /\ l \in 2 .. n
        BY <1>2, <3>3
      <4>2. u[k - 1] = u[l - 1]
        BY <2>1, <2>4, <4>1
      <4>3. k - 1 \in DOMAIN u /\ l - 1 \in DOMAIN u
        BY <1>2, <2>2, <4>1
      <4>4. k - 1 = l - 1
        BY <1>4, <4>2, <4>3 DEF OneEach
      <4>5. QED
        BY <4>4
    <3>4. QED
      BY <3>2, <3>3
  <2>5. OneEach(v)
    BY <2>1, <2>4 DEF OneEach
  <2>6. QED
    BY <1>5, <2>3, <2>5 DEF v
<1>7. QED
  BY <1>3, <1>4, <1>5, <1>6 DEF u

(* A match: the first ends of the two edges face each other, and the second *)
(* ones.                                                                    *)
LEMMA LinkDarts ==
  ASSUME NEW s \in StlFiles, NEW p \in Edge, NEW q \in Edge,
         p.facet_number \in Facets(s), q.facet_number \in Facets(s),
         p.facet_number # q.facet_number,
         NEW t, t = RecordNeighbors(s, p, q)
  PROVE  /\ t \in StlFiles /\ Facets(t) = Facets(s) /\ Darts(t) = Darts(s)
         /\ \A a : PivotOf(t, a) = PivotOf(s, a)
         /\ Over(t, FirstDart(p)) = FirstDart(q) /\ Over(t, SecondDart(p)) = SecondDart(q)
         /\ Over(t, FirstDart(q)) = FirstDart(p) /\ Over(t, SecondDart(q)) = SecondDart(p)
         /\ Linked(t, FirstDart(p)) /\ Linked(t, SecondDart(p))
         /\ Linked(t, FirstDart(q)) /\ Linked(t, SecondDart(q))
         /\ \A a \in Darts(s) \ {FirstDart(p), SecondDart(p), FirstDart(q), SecondDart(q)} :
              (Linked(t, a) <=> Linked(s, a)) /\ Over(t, a) = Over(s, a)
<1> DEFINE u == p.which_edge
           v == q.which_edge
           flip == IF (u < 3) = (v < 3) THEN 3 ELSE 0
           f == p.facet_number
           g == q.facet_number
<1>1. u \in 0 .. 5 /\ v \in 0 .. 5 /\ f \in Slot /\ g \in Slot
  BY DEF Edge
<1>2. /\ t \in StlFiles /\ t.number_of_facets = s.number_of_facets
      /\ t.facet_start = s.facet_start
  BY RecordNeighborsFields
<1>3. \A h \in Slot, e \in Corner :
        t.neighbor[h][e] = IF h = f /\ e = u % 3 THEN g
                           ELSE IF h = g /\ e = v % 3 THEN f ELSE s.neighbor[h][e]
  BY RecordNeighborsFields
<1>4. \A h \in Slot, e \in Corner :
        t.which_vertex_not[h][e] =
          IF h = f /\ e = u % 3 THEN Prev3(v) + flip
          ELSE IF h = g /\ e = v % 3 THEN Prev3(u) + flip ELSE s.which_vertex_not[h][e]
  BY RecordNeighborsFields
<1>5. Facets(t) = Facets(s) /\ Darts(t) = Darts(s) /\ \A a : PivotOf(t, a) = PivotOf(s, a)
  BY <1>2 DEF Facets, Darts, PivotOf
<1>6. \A k, l \in 0 .. 5 :
        /\ k % 3 \in Corner
        /\ Next3(Prev3(k) + (IF (l < 3) = (k < 3) THEN 3 ELSE 0)) = k % 3
        /\ (Prev3(k) + (IF (l < 3) = (k < 3) THEN 3 ELSE 0) < 3) <=> ((l < 3) # (k < 3))
  BY DEF Next3, Prev3, Corner
<1>7. /\ t.neighbor[f][u % 3] = g /\ t.neighbor[g][v % 3] = f
      /\ t.which_vertex_not[f][u % 3] = Prev3(v) + flip
      /\ t.which_vertex_not[g][v % 3] = Prev3(u) + flip
  BY <1>1, <1>3, <1>4, <1>6
<1>8. f # None /\ g # None
  BY <1>1, MaxFacetsAssumption DEF Slot, None
<1>9. /\ Linked(t, FirstDart(p)) /\ Linked(t, SecondDart(p))
      /\ Linked(t, FirstDart(q)) /\ Linked(t, SecondDart(q))
  BY <1>7, <1>8 DEF Linked, FirstDart, SecondDart
<1>10. /\ Next3(Prev3(v) + flip) = v % 3 /\ Next3(Prev3(u) + flip) = u % 3
       /\ (Prev3(v) + flip < 3) <=> ((u < 3) # (v < 3))
       /\ (Prev3(u) + flip < 3) <=> ((u < 3) # (v < 3))
  BY <1>1, <1>6
<1>11. \A d \in {0, 1} :
         /\ Over(t, [facet |-> f, edge |-> u % 3, direction |-> d])
              = [facet |-> g, edge |-> v % 3,
                 direction |-> IF (u < 3) # (v < 3) THEN 1 - d ELSE d]
         /\ Over(t, [facet |-> g, edge |-> v % 3, direction |-> d])
              = [facet |-> f, edge |-> u % 3,
                 direction |-> IF (u < 3) # (v < 3) THEN 1 - d ELSE d]
  BY <1>7, <1>10 DEF Over
<1>12. /\ FirstDart(p) = [facet |-> f, edge |-> u % 3, direction |-> IF u < 3 THEN 1 ELSE 0]
       /\ SecondDart(p) = [facet |-> f, edge |-> u % 3, direction |-> IF u < 3 THEN 0 ELSE 1]
       /\ FirstDart(q) = [facet |-> g, edge |-> v % 3, direction |-> IF v < 3 THEN 1 ELSE 0]
       /\ SecondDart(q) = [facet |-> g, edge |-> v % 3, direction |-> IF v < 3 THEN 0 ELSE 1]
  BY DEF FirstDart, SecondDart
<1>13. ASSUME NEW a \in Darts(s) \ {FirstDart(p), SecondDart(p), FirstDart(q), SecondDart(q)}
       PROVE  (Linked(t, a) <=> Linked(s, a)) /\ Over(t, a) = Over(s, a)
  <2>1. /\ ~ (a.facet = f /\ a.edge = u % 3) /\ ~ (a.facet = g /\ a.edge = v % 3)
    BY EndsOfEdge
  <2>2. a.facet \in Slot /\ a.edge \in Corner
    BY FacetsAreSlots DEF Darts
  <2> HIDE DEF f, g, u, v
  <2>3. /\ t.neighbor[a.facet][a.edge] = s.neighbor[a.facet][a.edge]
        /\ t.which_vertex_not[a.facet][a.edge] = s.which_vertex_not[a.facet][a.edge]
    BY <1>3, <1>4, <2>1, <2>2
  <2>4. QED
    BY <2>3 DEF Linked, Over
<1> HIDE DEF f, g, u, v
<1>14. CASE u < 3
  <2>1. CASE v < 3
    BY <1>2, <1>5, <1>9, <1>11, <1>12, <1>13, <1>14, <2>1
  <2>2. CASE ~ (v < 3)
    BY <1>2, <1>5, <1>9, <1>11, <1>12, <1>13, <1>14, <2>2
  <2>3. QED
    BY <2>1, <2>2
<1>15. CASE ~ (u < 3)
  <2>1. CASE v < 3
    BY <1>2, <1>5, <1>9, <1>11, <1>12, <1>13, <1>15, <2>1
  <2>2. CASE ~ (v < 3)
    BY <1>2, <1>5, <1>9, <1>11, <1>12, <1>13, <1>15, <2>2
  <2>3. QED
    BY <2>1, <2>2
<1>16. QED
  BY <1>14, <1>15

(* stl_which_vertices_to_change: both edges are connected by then, so of    *)
(* two ends that differ the one of the older edge moves.                    *)
LEMMA WhichWalks ==
  ASSUME NEW s \in StlFiles, NEW p \in Edge, NEW q \in Edge,
         p.facet_number \in Facets(s), q.facet_number \in Facets(s),
         Linked(s, FirstDart(p))
  PROVE  LET y == Nearby!Walk(q, Nearby!FirstCorner(q), PivotOf(s, FirstDart(p)))
             z == Nearby!Walk(q, Nearby!SecondCorner(q), PivotOf(s, SecondDart(p)))
             u == IF PivotOf(s, FirstDart(p)) = PivotOf(s, FirstDart(q)) THEN <<>> ELSE <<y>>
             v == IF PivotOf(s, SecondDart(p)) = PivotOf(s, SecondDart(q)) THEN <<>> ELSE <<z>>
         IN  Nearby!WhichVerticesToChange(s, p, q) = u \o v
<1> DEFINE at(edge, c) == s.facet_start[edge.facet_number][c]
           alone(edge, c) == /\ s.neighbor[edge.facet_number][c] = None
                             /\ s.neighbor[edge.facet_number][Prev3(c)] = None
           change(ca, cb) == IF at(p, ca) = at(q, cb) THEN <<>>
                             ELSE IF alone(p, ca) THEN <<Nearby!Walk(p, ca, at(q, cb))>>
                             ELSE <<Nearby!Walk(q, cb, at(p, ca))>>
<1> DEFINE y == Nearby!Walk(q, Nearby!FirstCorner(q), PivotOf(s, FirstDart(p)))
           z == Nearby!Walk(q, Nearby!SecondCorner(q), PivotOf(s, SecondDart(p)))
           u == IF PivotOf(s, FirstDart(p)) = PivotOf(s, FirstDart(q)) THEN <<>> ELSE <<y>>
           v == IF PivotOf(s, SecondDart(p)) = PivotOf(s, SecondDart(q)) THEN <<>> ELSE <<z>>
<1>1. Nearby!WhichVerticesToChange(s, p, q) =
        change(Nearby!FirstCorner(p), Nearby!FirstCorner(q))
          \o change(Nearby!SecondCorner(p), Nearby!SecondCorner(q))
  BY NearbyOperators DEF Nearby!WhichVerticesToChange
<1>2. ASSUME NEW edge \in Edge, edge.facet_number \in Facets(s)
      PROVE  /\ at(edge, Nearby!FirstCorner(edge)) = PivotOf(s, FirstDart(edge))
             /\ at(edge, Nearby!SecondCorner(edge)) = PivotOf(s, SecondDart(edge))
  <2>1. /\ CornerAt(FirstDart(edge)) = Nearby!FirstCorner(edge)
        /\ CornerAt(SecondDart(edge)) = Nearby!SecondCorner(edge)
    BY <1>2, EndsOfEdge
  <2>2. FirstDart(edge).facet = edge.facet_number /\ SecondDart(edge).facet = edge.facet_number
    BY DEF FirstDart, SecondDart
  <2>3. \A a : PivotOf(s, a) = s.facet_start[a.facet][CornerAt(a)]
    BY DEF PivotOf, CornerAt
  <2>4. QED
    BY <2>1, <2>2, <2>3
<1>3. ~ alone(p, Nearby!FirstCorner(p)) /\ ~ alone(p, Nearby!SecondCorner(p))
  <2>1. s.neighbor[p.facet_number][p.which_edge % 3] # None
    BY DEF Linked, FirstDart
  <2>2. \A k \in 0 .. 5 : /\ k < 3 => k % 3 = k /\ Prev3(Next3(k)) = k % 3
                          /\ Prev3(Next3(k)) = k % 3
    BY DEF Next3, Prev3
  <2>3. p.which_edge \in 0 .. 5
    BY DEF Edge
  <2>4. /\ Nearby!FirstCorner(p) = p.which_edge % 3
             \/ Prev3(Nearby!FirstCorner(p)) = p.which_edge % 3
        /\ Nearby!SecondCorner(p) = p.which_edge % 3
             \/ Prev3(Nearby!SecondCorner(p)) = p.which_edge % 3
    BY <2>2, <2>3, NearbyOperators DEF Nearby!FirstCorner, Nearby!SecondCorner
  <2>5. QED
    BY <2>1, <2>4
<1> HIDE DEF alone
<1>4. change(Nearby!FirstCorner(p), Nearby!FirstCorner(q)) = u
  BY <1>2, <1>3
<1>5. change(Nearby!SecondCorner(p), Nearby!SecondCorner(q)) = v
  BY <1>2, <1>3
<1> HIDE DEF change
<1>6. QED
  BY <1>1, <1>4, <1>5

(* Sequences of at most two.                                                *)
LEMMA OneOrTwo ==
  ASSUME NEW y, NEW z
  PROVE  /\ DOMAIN <<y>> = {1} /\ <<y>>[1] = y
         /\ DOMAIN (<<y>> \o <<z>>) = {1, 2}
         /\ (<<y>> \o <<z>>)[1] = y /\ (<<y>> \o <<z>>)[2] = z
<1>1. DOMAIN <<y>> = {1} /\ <<y>>[1] = y
  OBVIOUS
<1> DEFINE T == {y, z}
<1>2. y \in T /\ z \in T
  OBVIOUS
<1> HIDE DEF T
<1>3. /\ <<y>> \in Seq(T) /\ <<z>> \in Seq(T)
      /\ Len(<<y>>) = 1 /\ Len(<<z>>) = 1 /\ <<y>>[1] = y /\ <<z>>[1] = z
  BY <1>2
<1>4. ASSUME NEW r \in Seq(T), NEW s \in Seq(T), Len(r) = 1, Len(s) = 1
      PROVE  DOMAIN (r \o s) = {1, 2} /\ (r \o s)[1] = r[1] /\ (r \o s)[2] = s[1]
  <2>1. r \o s \in Seq(T) /\ Len(r \o s) = 2
    BY <1>4
  <2>2. QED
    BY <1>4, <2>1
<1>5. QED
  BY <1>1, <1>3, <1>4

(* At most two walks in a list.                                             *)
LEMMA OneOrTwoWalks ==
  ASSUME NEW y, NEW z, y # z, NEW u \in {<<>>, <<y>>}, NEW v \in {<<>>, <<z>>}
  PROVE  /\ WalkSet(u \o v) \subseteq {y, z} /\ OneEach(u \o v)
         /\ u = <<y>> => y \in WalkSet(u \o v)
         /\ v = <<z>> => z \in WalkSet(u \o v)
<1> DEFINE ws == u \o v
<1>1. <<y>> # <<>> /\ <<z>> # <<>>
  OBVIOUS
<1>2. CASE u = <<>> /\ v = <<>>
  <2>1. DOMAIN ws = {}
    BY <1>2
  <2>2. QED
    BY <1>1, <1>2, <2>1 DEF WalkSet, OneEach
<1>3. CASE u = <<>> /\ v = <<z>>
  <2>1. ws = <<z>>
    BY <1>3
  <2> HIDE DEF ws
  <2>2. DOMAIN ws = {1} /\ ws[1] = z
    BY <2>1, OneOrTwo
  <2>3. WalkSet(ws) = {z} /\ OneEach(ws)
    BY <2>2 DEF WalkSet, OneEach
  <2>4. QED
    BY <1>1, <1>3, <2>3 DEF ws
<1>4. CASE u = <<y>> /\ v = <<>>
  <2>1. ws = <<y>>
    BY <1>4
  <2> HIDE DEF ws
  <2>2. DOMAIN ws = {1} /\ ws[1] = y
    BY <2>1, OneOrTwo
  <2>3. WalkSet(ws) = {y} /\ OneEach(ws)
    BY <2>2 DEF WalkSet, OneEach
  <2>4. QED
    BY <1>1, <1>4, <2>3 DEF ws
<1>5. CASE u = <<y>> /\ v = <<z>>
  <2>1. /\ DOMAIN (<<y>> \o <<z>>) = {1, 2}
        /\ (<<y>> \o <<z>>)[1] = y /\ (<<y>> \o <<z>>)[2] = z
    BY OneOrTwo, Zenon
  <2>2. DOMAIN ws = {1, 2} /\ ws[1] = y /\ ws[2] = z
    BY <1>5, <2>1, Zenon
  <2> HIDE DEF ws
  <2>3. WalkSet(ws) = {y, z} /\ OneEach(ws)
    BY <2>2 DEF WalkSet, OneEach
  <2>4. QED
    BY <2>3 DEF ws
<1>6. QED
  BY <1>2, <1>3, <1>4, <1>5

(* What a match of edges in the same cells leaves: the links are right as   *)
(* far as the cells tell, and the walks set out where they are not exact.   *)
LEMMA MatchSetsOut ==
  ASSUME NEW s \in StlFiles, NEW grid, CellsRight(grid, s),
         NEW p \in Edge, p.facet_number \in Facets(s), CellEdge(grid, s, p),
         NEW q \in Edge, q.facet_number \in Facets(s), CellEdge(grid, s, q),
         q.key = p.key, p.facet_number # q.facet_number,
         NEW t, t = RecordNeighbors(s, p, q),
         NEW ws, ws = Nearby!WhichVerticesToChange(t, p, q)
  PROVE  /\ CellsRight(grid, t) /\ OneEach(ws) /\ Walking(grid, t, WalkSet(ws))
         /\ EdgesRight(s) => MatchedBut(t, WalkSet(ws))
<1> DEFINE a1 == FirstDart(p)
           a2 == SecondDart(p)
           b1 == FirstDart(q)
           b2 == SecondDart(q)
           y  == Nearby!Walk(q, Nearby!FirstCorner(q), PivotOf(t, a1))
           z  == Nearby!Walk(q, Nearby!SecondCorner(q), PivotOf(t, a2))
           P(a) == PivotOf(s, a)
           C(a) == CellIn(grid, PivotOf(s, a))
<1>1. /\ t \in StlFiles /\ Facets(t) = Facets(s) /\ Darts(t) = Darts(s)
      /\ \A a : PivotOf(t, a) = P(a)
      /\ Over(t, a1) = b1 /\ Over(t, a2) = b2 /\ Over(t, b1) = a1 /\ Over(t, b2) = a2
      /\ Linked(t, a1) /\ Linked(t, a2) /\ Linked(t, b1) /\ Linked(t, b2)
      /\ \A a \in Darts(s) \ {a1, a2, b1, b2} :
           (Linked(t, a) <=> Linked(s, a)) /\ Over(t, a) = Over(s, a)
  BY LinkDarts
<1>2. a1 \in Darts(s) /\ a2 \in Darts(s) /\ b1 \in Darts(s) /\ b2 \in Darts(s)
  BY EndsOfEdge
<1>3. C(a1) = C(b1) /\ C(a2) = C(b2) /\ C(a1) # C(a2)
  <2>1. /\ p.key[1] = C(a1) /\ p.key[2] = C(a2) /\ p.key[1] # p.key[2]
    BY DEF CellEdge
  <2>2. q.key[1] = C(b1) /\ q.key[2] = C(b2)
    BY DEF CellEdge
  <2>3. QED
    BY <2>1, <2>2
<1>4. PivotOf(t, a1) \in Vertex /\ PivotOf(t, a2) \in Vertex
  <2>1. ASSUME NEW a \in Darts(t) PROVE PivotOf(t, a) \in Vertex
    <3>1. a.facet \in Slot /\ CornerAt(a) \in Corner
      BY <1>1, <2>1, FacetsAreSlots, CornersInARow DEF Darts, CornerAt
    <3>2. t.facet_start[a.facet] \in Facet
      BY <1>1, <3>1 DEF StlFiles
    <3>3. t.facet_start[a.facet][CornerAt(a)] \in Vertex
      BY <3>1, <3>2 DEF Facet
    <3>4. QED
      BY <3>3 DEF PivotOf, CornerAt
  <2>2. QED
    BY <1>1, <1>2, <2>1
<1>5. /\ y \in VertexWalk /\ y.vertex = P(a1) /\ y.facet_num = q.facet_number /\ Entry(y) = b1
      /\ z \in VertexWalk /\ z.vertex = P(a2) /\ z.facet_num = q.facet_number /\ Entry(z) = b2
  <2>1. /\ y \in VertexWalk /\ y.vertex = PivotOf(t, a1) /\ y.facet_num = q.facet_number
        /\ Entry(y) = b1
    BY <1>4, WalkStarts
  <2>2. /\ z \in VertexWalk /\ z.vertex = PivotOf(t, a2) /\ z.facet_num = q.facet_number
        /\ Entry(z) = b2
    BY <1>4, WalkStarts
  <2>3. QED
    BY <1>1, <2>1, <2>2
<1>6. /\ CellIn(grid, y.vertex) = C(b1) /\ CellIn(grid, z.vertex) = C(b2)
      /\ CellIn(grid, y.vertex) # CellIn(grid, z.vertex) /\ y # z
  BY <1>3, <1>5
<1> DEFINE u == IF P(a1) = P(b1) THEN <<>> ELSE <<y>>
           v == IF P(a2) = P(b2) THEN <<>> ELSE <<z>>
<1>7. ws = u \o v
  <2>1. /\ p.facet_number \in Facets(t) /\ q.facet_number \in Facets(t) /\ t \in StlFiles
        /\ Linked(t, FirstDart(p))
    BY <1>1
  <2>2. /\ PivotOf(t, a1) = P(a1) /\ PivotOf(t, b1) = P(b1)
        /\ PivotOf(t, a2) = P(a2) /\ PivotOf(t, b2) = P(b2)
    BY <1>1
  <2> DEFINE ut == IF PivotOf(t, a1) = PivotOf(t, b1) THEN <<>> ELSE <<y>>
             vt == IF PivotOf(t, a2) = PivotOf(t, b2) THEN <<>> ELSE <<z>>
  <2>3. Nearby!WhichVerticesToChange(t, p, q) = ut \o vt
    BY <2>1, WhichWalks
  <2>4. ut = u /\ vt = v
    BY <2>2
  <2> HIDE DEF ut, vt, u, v
  <2>5. QED
    BY <2>3, <2>4
<1> HIDE DEF y, z, a1, a2, b1, b2
<1>8. /\ WalkSet(ws) \subseteq {y, z} /\ OneEach(ws)
      /\ P(a1) # P(b1) => y \in WalkSet(ws)
      /\ P(a2) # P(b2) => z \in WalkSet(ws)
  <2>1. /\ u \in {<<>>, <<y>>} /\ v \in {<<>>, <<z>>}
        /\ P(a1) # P(b1) => u = <<y>>
        /\ P(a2) # P(b2) => v = <<z>>
    OBVIOUS
  <2> HIDE DEF u, v
  <2>2. y # z
    BY <1>6
  <2>3. /\ WalkSet(u \o v) \subseteq {y, z} /\ OneEach(u \o v)
        /\ u = <<y>> => y \in WalkSet(u \o v)
        /\ v = <<z>> => z \in WalkSet(u \o v)
    BY <2>1, <2>2, OneOrTwoWalks
  <2>4. QED
    BY <1>7, <2>1, <2>3
<1> HIDE DEF u, v
<1> HIDE DEF P, C
<1>9. CellsRight(grid, t)
  <2>1. ASSUME NEW a \in Darts(s), Linked(t, a)
        PROVE  CellIn(grid, PivotOf(t, Over(t, a))) = CellIn(grid, PivotOf(t, a))
    <3>1. CASE a \in {a1, a2, b1, b2}
      <4>1. \A d : CellIn(grid, PivotOf(t, d)) = C(d)
        BY <1>1 DEF P, C
      <4>2. QED
        BY <1>1, <1>3, <3>1, <4>1
    <3>2. CASE a \notin {a1, a2, b1, b2}
      <4>1. Linked(s, a) /\ Over(t, a) = Over(s, a)
        BY <1>1, <2>1, <3>2
      <4>2. QED
        BY <1>1, <4>1 DEF CellsRight, P
    <3>3. QED
      BY <3>1, <3>2
  <2>2. QED
    BY <1>1, <2>1 DEF CellsRight
<1>10. Walking(grid, t, WalkSet(ws))
  <2>1. ASSUME NEW w \in {y, z}
        PROVE  /\ w.facet_num \in Facets(t)
               /\ CellIn(grid, PivotOf(t, Toward(w))) = CellIn(grid, w.vertex)
    <3>1. w \in VertexWalk /\ w.facet_num \in Facets(t)
      BY <1>1, <1>5
    <3>2. Toward(w) \in Darts(t) /\ Entry(w) = Around(Toward(w))
      BY <3>1, MovesBetween
    <3>3. PivotOf(t, Toward(w)) = PivotOf(t, Entry(w))
      BY <3>2, AroundTwice
    <3>4. CellIn(grid, PivotOf(t, Entry(w))) = C(Entry(w))
      BY <1>1 DEF P, C
    <3>5. C(Entry(w)) = CellIn(grid, w.vertex)
      BY <1>5, <1>6
    <3>6. QED
      BY <3>1, <3>3, <3>4, <3>5
  <2>2. WalkSet(ws) \subseteq VertexWalk
    BY <1>5, <1>8
  <2>3. QED
    BY <1>6, <1>8, <2>1, <2>2 DEF Walking
<1>11. ASSUME EdgesRight(s)
       PROVE  MatchedBut(t, WalkSet(ws))
  <2>1. ASSUME NEW a \in Darts(s), Linked(t, a)
        PROVE  \/ PivotOf(t, Over(t, a)) = PivotOf(t, a)
               \/ \E w \in WalkSet(ws) : a \in {Entry(w), Over(t, Entry(w))}
    <3>1. CASE a \in {a1, b1}
      <4>1. CASE P(a1) = P(b1)
        BY <1>1, <3>1, <4>1
      <4>2. CASE P(a1) # P(b1)
        <5>1. y \in WalkSet(ws) /\ a \in {Entry(y), Over(t, Entry(y))}
          BY <1>1, <1>5, <1>8, <3>1, <4>2
        <5>2. QED
          BY <5>1
      <4>3. QED
        BY <4>1, <4>2
    <3>2. CASE a \in {a2, b2}
      <4>1. CASE P(a2) = P(b2)
        BY <1>1, <3>2, <4>1
      <4>2. CASE P(a2) # P(b2)
        <5>1. z \in WalkSet(ws) /\ a \in {Entry(z), Over(t, Entry(z))}
          BY <1>1, <1>5, <1>8, <3>2, <4>2
        <5>2. QED
          BY <5>1
      <4>3. QED
        BY <4>1, <4>2
    <3>3. CASE a \notin {a1, a2, b1, b2}
      <4>1. Linked(s, a) /\ Over(t, a) = Over(s, a)
        BY <1>1, <2>1, <3>3
      <4>2. P(Over(s, a)) = P(a)
        BY <1>11, <4>1, EdgesRightByEnds DEF P
      <4>3. QED
        BY <1>1, <4>1, <4>2
    <3>4. QED
      BY <3>1, <3>2, <3>3
  <2>2. ASSUME NEW w \in WalkSet(ws)
        PROVE  Linked(t, Entry(w)) /\ PivotOf(t, Over(t, Entry(w))) = w.vertex
    BY <1>1, <1>5, <1>8
  <2>3. QED
    BY <1>1, <2>1, <2>2 DEF MatchedBut
<1>12. QED
  BY <1>8, <1>9, <1>10, <1>11

-----------------------------------------------------------------------------
(****************************************************************************)
(* The invariant of the nearby check.                                       *)
(****************************************************************************)
Grid == <<file, tolerance>>

(* While the edges are loaded the links are right as far as the cells tell, *)
(* the keys of the pending edges are the cells of their ends, and the copy  *)
(* of the facet has its cells.  The walks move corners within their cells.  *)
SweepInv ==
  phase = "nearby" =>
    /\ pc = "start" => EdgesRight(stl)
    /\ pc \in {"facet", "edge", "change"} => CellsRight(Grid, stl)
    /\ pc \in {"facet", "edge", "change"} => \A p \in stl.heads : CellEdge(Grid, stl, p)
    /\ pc \in {"edge", "change"} =>
         \A c \in Corner : CellIn(Grid, facet[c]) = CellIn(Grid, stl.facet_start[i][c])
    /\ pc = "change" => OneEach(walks) /\ Walking(Grid, stl, WalkSet(walks))

(* As long as no warning is printed neighbours share their edges, but for   *)
(* the ends the walks are about to move.                                    *)
MatchInv ==
  ~ warned /\ phase # "exact" =>
    IF phase = "nearby" /\ pc = "change" THEN MatchedBut(stl, WalkSet(walks))
    ELSE EdgesRight(stl)

(* t has the same facets and links as s.                                    *)
SameMesh(s, t) ==
  /\ t.number_of_facets = s.number_of_facets
  /\ t.facet_start = s.facet_start
  /\ t.neighbor = s.neighbor
  /\ t.which_vertex_not = s.which_vertex_not

(* So it is as right.                                                       *)
LEMMA SameMeshRight ==
  ASSUME NEW s, NEW t, SameMesh(s, t)
  PROVE  /\ \A grid : CellsRight(grid, s) => CellsRight(grid, t)
         /\ \A grid, p : CellEdge(grid, s, p) => CellEdge(grid, t, p)
         /\ \A grid : CellsKept(grid, s, t)
         /\ EdgesRight(s) => EdgesRight(t)
         /\ \A U : MatchedBut(s, U) => MatchedBut(t, U)
<1>1. Facets(t) = Facets(s) /\ Darts(t) = Darts(s)
  BY DEF SameMesh, Facets, Darts
<1>2. \A a : PivotOf(t, a) = PivotOf(s, a) /\ Over(t, a) = Over(s, a)
             /\ (Linked(t, a) <=> Linked(s, a))
  BY DEF SameMesh, PivotOf, Over, Linked
<1>3. \A grid : CellsRight(grid, s) => CellsRight(grid, t)
  BY <1>1, <1>2 DEF CellsRight
<1>4. \A grid, p : CellEdge(grid, s, p) => CellEdge(grid, t, p)
  BY <1>2 DEF CellEdge
<1>5. \A grid : CellsKept(grid, s, t)
  BY DEF CellsKept, SameMesh
<1>6. EdgesRight(s) => EdgesRight(t)
  BY <1>1 DEF EdgesRight, EdgeMatches, SameMesh
<1>7. \A U : MatchedBut(s, U) => MatchedBut(t, U)
  BY <1>1, <1>2 DEF MatchedBut
<1>8. QED
  BY <1>3, <1>4, <1>5, <1>6, <1>7

(* What is exactly right is right as far as the cells tell.                 *)
LEMMA RightInCells ==
  ASSUME NEW s \in StlFiles, EdgesRight(s)
  PROVE  \A grid : CellsRight(grid, s)
BY EdgesRightByEnds DEF CellsRight

(* Keys stay right when corners stay in their cells.                        *)
LEMMA KeysKept ==
  ASSUME NEW s \in StlFiles, NEW t, NEW grid, CellsKept(grid, s, t),
         NEW p \in Edge, p.facet_number \in Facets(s), CellEdge(grid, s, p)
  PROVE  CellEdge(grid, t, p)
<1>1. /\ FirstDart(p) \in Darts(s) /\ SecondDart(p) \in Darts(s)
  BY EndsOfEdge
<1>2. ASSUME NEW a \in Darts(s)
      PROVE  CellIn(grid, PivotOf(t, a)) = CellIn(grid, PivotOf(s, a))
  <2>1. a.facet \in Facets(s) /\ CornerAt(a) \in Corner
    BY CornersInARow DEF Darts, CornerAt
  <2>2. /\ PivotOf(t, a) = t.facet_start[a.facet][CornerAt(a)]
        /\ PivotOf(s, a) = s.facet_start[a.facet][CornerAt(a)]
    BY DEF PivotOf, CornerAt
  <2>3. QED
    BY <2>1, <2>2 DEF CellsKept
<1>3. QED
  BY <1>1, <1>2 DEF CellEdge

(* The edge loaded has the cells of its ends for a key.                     *)
LEMMA CandidateCells ==
  ASSUME TypeInv, pc = "edge", Nearby!Loadable,
         \A c \in Corner : CellIn(Grid, facet[c]) = CellIn(Grid, stl.facet_start[i][c])
  PROVE  CellEdge(Grid, stl, Nearby!Candidate)
<1> DEFINE a == facet[j]
           b == facet[Next3(j)]
           ka == CellIn(Grid, a)
           kb == CellIn(Grid, b)
           p == Nearby!Candidate
<1>1. j \in Corner /\ Next3(j) \in Corner /\ i \in Facets(stl)
  BY CornersInARow DEF TypeInv, MeshTyped
<1>2. ka # kb
  BY NearbyOperators, CellsInGrid DEF Nearby!Loadable, Nearby!Start, Nearby!End, Grid
<1>3. p = LoadEdge(i, j, a, b, ka, kb)
  BY NearbyOperators, CellsInGrid DEF Nearby!Candidate, Nearby!LoadEdgeNearby, Nearby!Start,
     Nearby!End, Grid
<1>4. /\ ka = CellIn(Grid, stl.facet_start[i][j])
      /\ kb = CellIn(Grid, stl.facet_start[i][Next3(j)])
  BY <1>1
<1> HIDE DEF ka, kb, p, a, b
<1>5. CASE Forward(a, b)
  <2>1. p.facet_number = i /\ p.which_edge = j /\ p.key = <<ka, kb>>
    BY <1>3, <1>5 DEF LoadEdge
  <2>2. j % 3 = j /\ j < 3
    BY <1>1 DEF Corner
  <2>3. /\ PivotOf(stl, FirstDart(p)) = stl.facet_start[i][j]
        /\ PivotOf(stl, SecondDart(p)) = stl.facet_start[i][Next3(j)]
    BY <2>1, <2>2 DEF PivotOf, FirstDart, SecondDart
  <2>4. QED
    BY <1>2, <1>4, <2>1, <2>3 DEF CellEdge, p
<1>6. CASE ~ Forward(a, b)
  <2>1. p.facet_number = i /\ p.which_edge = j + 3 /\ p.key = <<kb, ka>>
    BY <1>3, <1>6 DEF LoadEdge
  <2>2. (j + 3) % 3 = j /\ ~ (j + 3 < 3)
    BY <1>1 DEF Corner
  <2>3. /\ PivotOf(stl, FirstDart(p)) = stl.facet_start[i][Next3(j)]
        /\ PivotOf(stl, SecondDart(p)) = stl.facet_start[i][j]
    BY <2>1, <2>2 DEF PivotOf, FirstDart, SecondDart
  <2>4. QED
    BY <1>2, <1>4, <2>1, <2>3 DEF CellEdge, p
<1>7. QED
  BY <1>5, <1>6

(* One corner is moved, and the walk goes on or ends.                       *)
LEMMA OneCornerMoved ==
  ASSUME TypeInv, Nearby!ChangeVertex, NEW w, w = Head(walks), w.facet_num \in Facets(stl),
         NEW on, on = [w EXCEPT
                         !.facet_num = stl.neighbor[w.facet_num][Toward(w).edge],
                         !.vnot = stl.which_vertex_not[w.facet_num][Toward(w).edge],
                         !.direction = Toward(w).direction]
  PROVE  /\ w \in VertexWalk /\ Moved(stl, Toward(w), w.vertex, stl') /\ stl'.heads = stl.heads
         /\ ~ Linked(stl, Toward(w)) => walks' = Tail(walks)
         /\ Linked(stl, Toward(w)) =>
              (walks' = Tail(walks) /\ warned') \/ walks' = <<on>> \o Tail(walks)
<1> DEFINE x == Toward(w)
           t == Turn(w.vnot, w.direction)
           next == stl.neighbor[w.facet_num][t.next_edge]
<1>1. walks \in Seq(VertexWalk) /\ walks # <<>> /\ stl \in StlFiles
  BY DEF TypeInv, PassTyped, MeshTyped, Nearby!ChangeVertex
<1>2. w \in VertexWalk
  BY <1>1
<1>3. x \in Darts(stl) /\ x.facet = w.facet_num /\ x.edge = t.next_edge
      /\ CornerAt(x) = t.pivot_vertex
  BY <1>2, MovesBetween
<1>4. x.direction = t.direction
  BY DEF Toward
<1>5. /\ stl' = [stl EXCEPT !.facet_start[w.facet_num][t.pivot_vertex] = w.vertex]
      /\ walks' = IF Nearby!Ends(w, next) THEN Tail(walks) ELSE <<on>> \o Tail(walks)
      /\ warned' = (warned \/ next = w.first)
  BY <1>3, <1>4, NearbyOperators DEF Nearby!ChangeVertex
<1>6. Nearby!Ends(w, next) <=> next = None \/ next = w.first
  BY NearbyOperators DEF Nearby!Ends
<1>7. Linked(stl, x) <=> next # None
  BY <1>3 DEF Linked
<1> HIDE DEF x, t, next
<1>8. Moved(stl, x, w.vertex, stl') /\ stl'.heads = stl.heads
  <2>1. stl.facet_start \in [Slot -> Facet] /\ Facets(stl) \subseteq Slot
    BY <1>1, FacetsAreSlots DEF StlFiles
  <2> DEFINE fs == [stl.facet_start EXCEPT ![w.facet_num][t.pivot_vertex] = w.vertex]
  <2>2. stl' = [stl EXCEPT !.facet_start = fs]
    BY <1>5
  <2>3. \A f \in Slot, c \in Corner :
          fs[f][c] = IF f = w.facet_num /\ c = t.pivot_vertex THEN w.vertex
                     ELSE stl.facet_start[f][c]
    BY <2>1 DEF Facet
  <2> HIDE DEF fs
  <2>4. /\ stl'.facet_start = fs /\ stl'.number_of_facets = stl.number_of_facets
        /\ stl'.neighbor = stl.neighbor /\ stl'.which_vertex_not = stl.which_vertex_not
        /\ stl'.heads = stl.heads
    BY <1>1, <2>2 DEF StlFiles
  <2>5. QED
    BY <1>3, <2>1, <2>3, <2>4 DEF Moved
<1>9. QED
  BY <1>2, <1>5, <1>6, <1>7, <1>8 DEF x

(* A step of the nearby check but for its matches and its walks: the mesh   *)
(* stays, and what is pending is what was, the edge loaded, or nothing.     *)
LEMMA LoadCells ==
  ASSUME TypeInv, phase = "nearby", SweepInv, MatchInv,
         \/ Nearby!Begin \/ Nearby!LoadFacet \/ Nearby!SkipEdge \/ Nearby!PendEdge
         \/ Nearby!FinishMatch \/ Nearby!FreeEdges,
         phase' = phase
  PROVE  SweepInv' /\ MatchInv' /\ CellsKept(Grid, stl, stl')
<1>1. stl \in StlFiles /\ i \in Nat
  BY MaxFacetsAssumption DEF TypeInv, MeshTyped
<1>2. Grid' = Grid /\ warned' = warned
  BY DEF Grid, Nearby!Begin, Nearby!LoadFacet, Nearby!SkipEdge, Nearby!PendEdge,
     Nearby!FinishMatch, Nearby!FreeEdges
<1>3. SameMesh(stl, stl')
  <2>1. CASE Nearby!Begin \/ Nearby!FreeEdges
    BY <1>1, <2>1 DEF Nearby!Begin, Nearby!FreeEdges, StlFiles, SameMesh
  <2>2. CASE Nearby!LoadFacet \/ Nearby!SkipEdge
    BY <2>2 DEF Nearby!LoadFacet, Nearby!SkipEdge, SameMesh
  <2>3. CASE Nearby!PendEdge \/ Nearby!FinishMatch
    BY <1>1, <2>3 DEF Nearby!PendEdge, Nearby!FinishMatch, StlFiles, SameMesh
  <2>4. QED
    BY <2>1, <2>2, <2>3
<1>4. CellsKept(Grid, stl, stl')
  BY <1>3, SameMeshRight
<1>5. MatchInv'
  <2>1. ASSUME ~ warned PROVE EdgesRight(stl)
    <3>1. CASE pc = "change"
      <4>1. walks = <<>>
        BY <3>1 DEF Nearby!Begin, Nearby!LoadFacet, Nearby!SkipEdge, Nearby!PendEdge,
           Nearby!FinishMatch, Nearby!FreeEdges, Nearby!Loadable
      <4>2. WalkSet(walks) = {}
        BY <4>1 DEF WalkSet
      <4>3. MatchedBut(stl, {})
        BY <2>1, <3>1, <4>2 DEF MatchInv
      <4>4. QED
        BY <1>1, <4>3, EdgesRightByEnds DEF MatchedBut
    <3>2. CASE pc # "change"
      BY <2>1, <3>2 DEF MatchInv
    <3>3. QED
      BY <3>1, <3>2
  <2>2. ~ warned' => EdgesRight(stl')
    BY <1>2, <1>3, <2>1, SameMeshRight
  <2>3. pc' # "change"
    BY DEF Nearby!Begin, Nearby!LoadFacet, Nearby!SkipEdge, Nearby!PendEdge,
       Nearby!FinishMatch, Nearby!FreeEdges, Nearby!Advance
  <2>4. QED
    BY <2>2, <2>3 DEF MatchInv
<1>6. /\ pc' \notin {"start", "change"}
      /\ pc' \in {"facet", "edge"} => pc \in {"start", "facet", "edge", "change"}
  BY DEF Nearby!Begin, Nearby!LoadFacet, Nearby!SkipEdge, Nearby!PendEdge,
     Nearby!FinishMatch, Nearby!FreeEdges, Nearby!Advance, Nearby!Loadable
<1>7. pc' \in {"facet", "edge"} => CellsRight(Grid, stl')
  <2>1. pc = "start" => CellsRight(Grid, stl)
    BY <1>1, RightInCells DEF SweepInv
  <2>2. pc \in {"facet", "edge", "change"} => CellsRight(Grid, stl)
    BY DEF SweepInv
  <2>3. QED
    BY <1>3, <1>6, <2>1, <2>2, SameMeshRight
<1>8. pc' \in {"facet", "edge"} => \A p \in stl'.heads : CellEdge(Grid, stl', p)
  <2>1. ASSUME NEW p \in stl'.heads, pc' \in {"facet", "edge"} PROVE CellEdge(Grid, stl, p)
    <3>1. CASE Nearby!Begin \/ Nearby!FreeEdges
      <4>1. stl'.heads = {}
        BY <1>1, <3>1 DEF Nearby!Begin, Nearby!FreeEdges, StlFiles
      <4>2. QED
        BY <2>1, <4>1
    <3>2. CASE Nearby!LoadFacet \/ Nearby!SkipEdge \/ Nearby!FinishMatch
      <4>1. stl'.heads = stl.heads /\ pc \in {"facet", "edge", "change"}
        BY <1>1, <3>2 DEF Nearby!LoadFacet, Nearby!SkipEdge, Nearby!FinishMatch, StlFiles
      <4>2. QED
        BY <2>1, <4>1 DEF SweepInv
    <3>3. CASE Nearby!PendEdge
      <4>1. stl'.heads = stl.heads \cup {Nearby!Candidate} /\ pc = "edge" /\ Nearby!Loadable
        BY <1>1, <3>3 DEF Nearby!PendEdge, Nearby!Loadable, StlFiles
      <4>2. CellEdge(Grid, stl, Nearby!Candidate)
        BY <4>1, CandidateCells DEF SweepInv
      <4>3. QED
        BY <2>1, <4>1, <4>2 DEF SweepInv
    <3>4. QED
      BY <3>1, <3>2, <3>3
  <2>2. QED
    BY <1>3, <2>1, SameMeshRight
<1>9. pc' = "edge" =>
        \A c \in Corner : CellIn(Grid, facet'[c]) = CellIn(Grid, stl'.facet_start[i'][c])
  <2>1. CASE Nearby!LoadFacet
    BY <2>1 DEF Nearby!LoadFacet
  <2>2. CASE Nearby!SkipEdge \/ Nearby!PendEdge \/ Nearby!FinishMatch
    <3>1. /\ pc \in {"edge", "change"} /\ facet' = facet
          /\ pc' = "edge" => i' = i
      BY <2>2 DEF Nearby!SkipEdge, Nearby!PendEdge, Nearby!FinishMatch, Nearby!Advance,
         Nearby!Loadable
    <3>2. stl'.facet_start = stl.facet_start
      BY <1>3 DEF SameMesh
    <3>3. QED
      BY <3>1, <3>2 DEF SweepInv
  <2>3. CASE Nearby!Begin \/ Nearby!FreeEdges
    BY <2>3 DEF Nearby!Begin, Nearby!FreeEdges
  <2>4. QED
    BY <2>1, <2>2, <2>3
<1> HIDE DEF Grid
<1>10. SweepInv'
  BY <1>2, <1>6, <1>7, <1>8, <1>9 DEF SweepInv
<1>11. QED
  BY <1>4, <1>5, <1>10

(* A match: the walks are set out where the ends differ.                    *)
LEMMA MatchCells ==
  ASSUME TypeInv, PendingInv, phase = "nearby", SweepInv, MatchInv, Nearby!MatchEdge,
         phase' = phase
  PROVE  SweepInv' /\ MatchInv' /\ CellsKept(Grid, stl, stl')
<1> DEFINE edge == Nearby!Candidate
           link == Oldest(Matches(stl, edge))
           r == [stl EXCEPT !.heads = stl.heads \ {link}]
<1>1. /\ pc = "edge" /\ pc' = "change" /\ Nearby!Loadable
      /\ Matches(stl, edge) # {}
      /\ stl' = RecordNeighbors(r, edge, link)
      /\ walks' = Nearby!WhichVerticesToChange(stl', edge, link)
      /\ i' = i /\ facet' = facet /\ warned' = warned
      /\ file' = file /\ tolerance' = tolerance
  BY NearbyOperators DEF Nearby!MatchEdge, Nearby!Loadable
<1>2. stl \in StlFiles /\ stl.heads \subseteq Edge /\ i \in Facets(stl) /\ i \in Slot
  <2>1. stl \in StlFiles /\ i \in Facets(stl)
    BY <1>1 DEF TypeInv, MeshTyped
  <2>2. QED
    BY <2>1, FacetsAreSlots DEF StlFiles
<1>3. edge \in Edge /\ edge.facet_number = i
  BY <1>1, CandidateType
<1>4. CellEdge(Grid, stl, edge)
  BY <1>1, CandidateCells DEF SweepInv
<1> HIDE DEF edge
<1>5. /\ link \in stl.heads /\ link \in Edge
      /\ link.facet_number # edge.facet_number /\ link.key = edge.key
  <2>1. Matches(stl, edge) \subseteq Edge
    BY <1>2 DEF Matches
  <2>2. link \in Matches(stl, edge)
    BY <1>1, <2>1, OldestMember
  <2>3. QED
    BY <2>1, <2>2 DEF Matches
<1> HIDE DEF link
<1>6. CellEdge(Grid, stl, link) /\ link.facet_number \in Facets(stl)
  <2>1. Pending(stl)
    BY <1>1 DEF PendingInv
  <2>2. QED
    BY <1>1, <1>5, <2>1 DEF SweepInv, Pending
<1>7. r \in StlFiles /\ SameMesh(stl, r) /\ r.heads = stl.heads \ {link}
  BY <1>2 DEF StlFiles, SameMesh
<1> HIDE DEF r
<1>8. Facets(r) = Facets(stl)
  BY <1>7 DEF SameMesh, Facets
<1>9. CellsRight(Grid, r) /\ CellEdge(Grid, r, edge) /\ CellEdge(Grid, r, link)
  <2>1. CellsRight(Grid, stl)
    BY <1>1 DEF SweepInv
  <2>2. QED
    BY <1>4, <1>6, <1>7, <2>1, SameMeshRight
<1>10. /\ CellsRight(Grid, stl') /\ OneEach(walks') /\ Walking(Grid, stl', WalkSet(walks'))
       /\ EdgesRight(r) => MatchedBut(stl', WalkSet(walks'))
  BY <1>1, <1>2, <1>3, <1>5, <1>6, <1>7, <1>8, <1>9, MatchSetsOut
<1>11. stl'.heads = r.heads /\ stl'.facet_start = stl.facet_start
  <2>1. stl'.heads = r.heads /\ stl'.facet_start = r.facet_start
    BY <1>1, <1>3, <1>5, <1>7, RecordNeighborsFields
  <2>2. QED
    BY <1>7, <2>1 DEF SameMesh
<1>12. CellsKept(Grid, stl, stl')
  BY <1>11 DEF CellsKept
<1>13. \A p \in stl'.heads : CellEdge(Grid, stl', p)
  <2>1. ASSUME NEW p \in stl'.heads
        PROVE  CellEdge(Grid, stl', p)
    <3>1. p \in stl.heads /\ p \in Edge
      BY <1>2, <1>7, <1>11
    <3>2. p.facet_number \in Facets(stl) /\ CellEdge(Grid, stl, p)
      BY <1>1, <3>1 DEF SweepInv, PendingInv, Pending
    <3>3. QED
      BY <1>2, <1>12, <3>1, <3>2, KeysKept
  <2>2. QED
    BY <2>1
<1>14. Grid' = Grid
  BY <1>1 DEF Grid
<1> HIDE DEF Grid
<1>15. \A c \in Corner : CellIn(Grid, facet'[c]) = CellIn(Grid, stl'.facet_start[i'][c])
  BY <1>1, <1>11 DEF SweepInv
<1>16. SweepInv'
  BY <1>1, <1>10, <1>13, <1>14, <1>15 DEF SweepInv
<1>17. MatchInv'
  <2>1. ~ warned => EdgesRight(stl)
    BY <1>1 DEF MatchInv
  <2>2. ~ warned => MatchedBut(stl', WalkSet(walks'))
    BY <1>7, <1>10, <2>1, SameMeshRight
  <2>3. QED
    BY <1>1, <2>2 DEF MatchInv
<1>18. QED
  BY <1>12, <1>16, <1>17

(* A corner is moved.                                                       *)
LEMMA ChangeCells ==
  ASSUME TypeInv, PendingInv, Sound(stl), phase = "nearby", SweepInv, MatchInv,
         Nearby!ChangeVertex, phase' = phase
  PROVE  SweepInv' /\ MatchInv' /\ CellsKept(Grid, stl, stl')
<1> DEFINE w == Head(walks)
           x == Toward(w)
           U == WalkSet(walks)
           on == [w EXCEPT !.facet_num = stl.neighbor[w.facet_num][x.edge],
                           !.vnot = stl.which_vertex_not[w.facet_num][x.edge],
                           !.direction = x.direction]
<1>1. /\ pc = "change" /\ pc' = pc /\ i' = i /\ facet' = facet
      /\ file' = file /\ tolerance' = tolerance /\ walks # <<>>
      /\ warned => warned'
  BY DEF Nearby!ChangeVertex
<1>2. stl \in StlFiles /\ stl.heads \subseteq Edge /\ i \in Facets(stl) /\ Mutual(stl)
      /\ walks \in Seq(VertexWalk) /\ warned \in BOOLEAN
  BY <1>1 DEF TypeInv, MeshTyped, PassTyped, CallTyped, StlFiles, Sound
<1>3. OneEach(walks) /\ Walking(Grid, stl, U) /\ CellsRight(Grid, stl)
  BY <1>1 DEF SweepInv
<1>4. /\ w \in U /\ WalkSet(Tail(walks)) = U \ {w} /\ OneEach(Tail(walks))
      /\ \A n \in VertexWalk : n \notin U \ {w} =>
           WalkSet(<<n>> \o Tail(walks)) = (U \ {w}) \cup {n} /\ OneEach(<<n>> \o Tail(walks))
  BY <1>1, <1>2, <1>3, FirstWalk
<1> HIDE DEF U
<1>5. w.facet_num \in Facets(stl)
  BY <1>3, <1>4 DEF Walking
<1>6. /\ w \in VertexWalk /\ Moved(stl, x, w.vertex, stl') /\ stl'.heads = stl.heads
      /\ ~ Linked(stl, x) => walks' = Tail(walks)
      /\ Linked(stl, x) => (walks' = Tail(walks) /\ warned') \/ walks' = <<on>> \o Tail(walks)
  BY <1>5, OneCornerMoved
<1> HIDE DEF w
<1>7. /\ CellsKept(Grid, stl, stl') /\ CellsRight(Grid, stl')
      /\ Walking(Grid, stl', U \ {w})
      /\ Linked(stl, x) => on.vertex = w.vertex /\ Walking(Grid, stl', (U \ {w}) \cup {on})
  BY <1>2, <1>3, <1>4, <1>6, MoveKeepsCells
<1>8. MatchedBut(stl, U) =>
        /\ ~ Linked(stl, x) => MatchedBut(stl', U \ {w})
        /\ Linked(stl, x) => MatchedBut(stl', (U \ {w}) \cup {on})
  BY <1>2, <1>3, <1>4, <1>6, MoveKeepsMatches
<1> HIDE DEF x, on
<1>9. Linked(stl, x) => on \in VertexWalk /\ on \notin U \ {w}
  <2>1. ASSUME Linked(stl, x), on \in U \ {w} PROVE FALSE
    <3>1. on \in U /\ on # w /\ on.vertex = w.vertex
      BY <1>7, <2>1
    <3>2. QED
      BY <1>3, <1>4, <3>1 DEF Walking
  <2>2. Linked(stl, x) => on \in VertexWalk
    BY <1>7 DEF Walking
  <2>3. QED
    BY <2>1, <2>2
<1>10. /\ OneEach(walks')
       /\ \/ WalkSet(walks') = U \ {w} /\ (~ Linked(stl, x) \/ warned')
          \/ WalkSet(walks') = (U \ {w}) \cup {on} /\ Linked(stl, x)
  <2>1. CASE ~ Linked(stl, x)
    BY <1>4, <1>6, <2>1
  <2>2. CASE Linked(stl, x)
    <3>1. CASE walks' = Tail(walks) /\ warned'
      BY <1>4, <3>1
    <3>2. CASE walks' = <<on>> \o Tail(walks)
      BY <1>4, <1>9, <2>2, <3>2
    <3>3. QED
      BY <1>6, <2>2, <3>1, <3>2
  <2>3. QED
    BY <2>1, <2>2
<1>11. Walking(Grid, stl', WalkSet(walks'))
  BY <1>7, <1>10
<1>12. \A p \in stl'.heads : CellEdge(Grid, stl', p)
  <2>1. ASSUME NEW p \in stl'.heads
        PROVE  CellEdge(Grid, stl', p)
    <3>1. p \in stl.heads /\ p \in Edge
      BY <1>2, <1>6
    <3>2. p.facet_number \in Facets(stl) /\ CellEdge(Grid, stl, p)
      BY <1>1, <3>1 DEF SweepInv, PendingInv, Pending
    <3>3. QED
      BY <1>2, <1>7, <3>1, <3>2, KeysKept
  <2>2. QED
    BY <2>1
<1>13. \A c \in Corner : CellIn(Grid, facet'[c]) = CellIn(Grid, stl'.facet_start[i'][c])
  <2>1. \A c \in Corner : CellIn(Grid, facet[c]) = CellIn(Grid, stl.facet_start[i][c])
    BY <1>1 DEF SweepInv
  <2>2. QED
    BY <1>1, <1>2, <1>7, <2>1 DEF CellsKept
<1>14. Grid' = Grid
  BY <1>1 DEF Grid
<1> HIDE DEF Grid
<1>15. SweepInv'
  BY <1>1, <1>7, <1>10, <1>11, <1>12, <1>13, <1>14 DEF SweepInv
<1>16. MatchInv'
  <2>1. ~ warned => MatchedBut(stl, U)
    BY <1>1 DEF MatchInv, U
  <2>2. ~ warned' => MatchedBut(stl', WalkSet(walks'))
    BY <1>1, <1>8, <1>10, <2>1
  <2>3. QED
    BY <1>1, <2>2 DEF MatchInv
<1>17. QED
  BY <1>7, <1>15, <1>16

(* Each step of the nearby check.                                           *)
LEMMA CheckNearbyCells ==
  ASSUME TypeInv, PendingInv, Sound(stl), SweepInv, MatchInv, CheckNearby
  PROVE  SweepInv' /\ MatchInv' /\ CellsKept(Grid, stl, stl')
<1>1. phase = "nearby" /\ phase' = phase /\ Nearby!Next
  BY DEF CheckNearby
<1>2. CASE Nearby!MatchEdge
  BY <1>1, <1>2, MatchCells
<1>3. CASE Nearby!ChangeVertex
  BY <1>1, <1>3, ChangeCells
<1>4. CASE \/ Nearby!Begin \/ Nearby!LoadFacet \/ Nearby!SkipEdge \/ Nearby!PendEdge
           \/ Nearby!FinishMatch \/ Nearby!FreeEdges
  BY <1>1, <1>4, LoadCells
<1>5. QED
  BY <1>1, <1>2, <1>3, <1>4 DEF Nearby!Next

-----------------------------------------------------------------------------
(****************************************************************************)
(* The steps of stl_repair, and the theorems.                               *)
(****************************************************************************)
(* Another nearby check is called after a walk has come back to the facet   *)
(* it started from.                                                         *)
CheckedAfterWarning == phase = "nearby" /\ Call /\ iteration # 0 /\ warned

(* The warning about it is not taken back.                                  *)
LEMMA WarnedStays == TypeInv /\ warned /\ [Next]_vars => warned'
<1> SUFFICES ASSUME TypeInv, warned, [Next]_vars PROVE warned'
  OBVIOUS
<1>1. warned = TRUE
  BY DEF TypeInv, PassTyped
<1>2. CASE CheckNearby
  <2>1. CASE Nearby!ChangeVertex
    <3>1. PICK back \in BOOLEAN : warned' = (warned \/ back)
      BY <2>1, Zenon DEF Nearby!ChangeVertex
    <3>2. QED
      BY <1>1, <3>1
  <2>2. CASE ~ Nearby!ChangeVertex
    BY <1>1, <1>2, <2>2 DEF CheckNearby, Nearby!Next, Nearby!Begin, Nearby!LoadFacet,
       Nearby!SkipEdge, Nearby!PendEdge, Nearby!MatchEdge, Nearby!FinishMatch, Nearby!FreeEdges
  <2>3. QED
    BY <2>1, <2>2
<1>3. CASE FillHoles
  BY <1>1, <1>3 DEF FillHoles, Fill!Next, Fill!Begin, Fill!LoadUnconnected, Fill!EndLoad,
     Fill!ScanFacet, Fill!SkipEdge, Fill!StartWalk, Fill!CrossEdge, Fill!BackAtFirst,
     Fill!CloseHole, Fill!FreeEdges
<1>4. CASE ~ CheckNearby /\ ~ FillHoles
  <2>1. warned' = warned
    BY <1>4 DEF Next, Call, Pass, Skip, Return, Repaired, CheckExact, RemoveUnconnected,
       FixDirections, ReverseAll, FixNormalValues, CalculateVolume, GenerateSharedVertices, vars
  <2>2. QED
    BY <1>1, <2>1
<1>5. QED
  BY <1>2, <1>3, <1>4

(* A call of the nearby check finds neighbours that share their edges: it   *)
(* is the first one, or no warning has been printed.                        *)
LEMMA CallCells ==
  ASSUME MeshInv, MatchInv, Call, ~ CheckedAfterWarning
  PROVE  SweepInv' /\ MatchInv'
<1>1. /\ pc = "test" /\ pc' = "start" /\ phase' = phase /\ stl' = stl /\ warned' = warned
  BY DEF Call
<1>2. phase = "nearby" => EdgesRight(stl)
  <2>1. CASE iteration = 0
    BY <2>1 DEF MeshInv
  <2>2. CASE iteration # 0
    BY <1>1, <2>2 DEF MatchInv, CheckedAfterWarning
  <2>3. QED
    BY <2>1, <2>2
<1>3. SweepInv'
  BY <1>1, <1>2 DEF SweepInv
<1>4. MatchInv'
  BY <1>1 DEF MatchInv
<1>5. QED
  BY <1>3, <1>4

(* From one pass to the next, the first after the exact check.              *)
LEMMA NextPassCells ==
  ASSUME Called("exact"), ExactInv, Idle, MatchInv, Skip \/ Return
  PROVE  SweepInv' /\ MatchInv'
<1>1. /\ pc' = "test" /\ pc \in {"test", "done"} /\ stl' = stl /\ warned' = warned
      /\ phase = "exact" => pc = "done"
  BY DEF Skip, Return, meshVars
<1>2. phase = "exact" => EdgesRight(stl)
  BY <1>1, ExactDone
<1>3. SweepInv'
  BY <1>1 DEF SweepInv
<1>4. MatchInv'
  BY <1>1, <1>2 DEF MatchInv
<1>5. QED
  BY <1>3, <1>4

(* Each step of another pass: it leaves the edges as right as they are.     *)
LEMMA OtherPassCells ==
  ASSUME TypeInv, PendingInv, LinkInv, MatchInv, Pass, ~ CheckExact, ~ CheckNearby,
         ~ DegenerateJoined
  PROVE  SweepInv' /\ MatchInv'
<1>1. phase \notin {"exact", "nearby"} /\ phase' = phase
  BY DEF Pass, RemoveUnconnected, FillHoles, FixDirections, ReverseAll, FixNormalValues,
     CalculateVolume, GenerateSharedVertices, callVars
<1>2. Sound(stl) /\ KeysInv /\ DirInv
  BY <1>1 DEF LinkInv, MeshInv
<1>3. StaysSound
  <2>1. CASE RemoveUnconnected
    <3>1. ~ Remove!RemoveDegenerateFacet
      BY <2>1 DEF RemoveUnconnected, DegenerateJoined
    <3>2. QED
      BY <1>2, <2>1, <3>1, RemoveUnconnectedLinks
  <2>2. CASE FillHoles
    BY <1>2, <2>2, FillHolesLinks
  <2>3. CASE FixDirections
    BY <1>2, <2>3, FixDirectionsLinks
  <2>4. CASE ReverseAll \/ FixNormalValues \/ CalculateVolume \/ GenerateSharedVertices
    BY <1>2, <2>4, ReverseAllLinks, NoLinksWritten
  <2>5. QED
    BY <2>1, <2>2, <2>3, <2>4 DEF Pass
<1>4. warned => warned'
  BY WarnedStays DEF Next
<1>5. SweepInv'
  BY <1>1 DEF SweepInv
<1>6. MatchInv'
  BY <1>1, <1>3, <1>4 DEF MatchInv, StaysSound
<1>7. QED
  BY <1>5, <1>6

(* Each step, but for the joining of the neighbours of a degenerate facet   *)
(* and the call of the nearby check after a warning.                        *)
LEMMA CellsInvStep ==
  ASSUME TypeInv, Idle, PendingInv, LinkInv, SweepInv, MatchInv, [Next]_vars,
         ~ DegenerateJoined, ~ CheckedAfterWarning
  PROVE  SweepInv' /\ MatchInv'
<1>1. Called("exact") /\ ExactInv /\ MeshInv
  BY DEF LinkInv
<1>2. CASE Call
  BY <1>1, <1>2, CallCells
<1>3. CASE Skip \/ Return
  BY <1>1, <1>3, NextPassCells
<1>4. CASE CheckExact
  <2>1. phase = "exact" /\ phase' = phase
    BY <1>4 DEF CheckExact
  <2>2. QED
    BY <2>1 DEF SweepInv, MatchInv
<1>5. CASE CheckNearby
  <2>1. Sound(stl)
    BY <1>1, <1>5 DEF MeshInv, CheckNearby
  <2>2. QED
    BY <1>5, <2>1, CheckNearbyCells
<1>6. CASE Pass /\ ~ CheckExact /\ ~ CheckNearby
  BY <1>6, OtherPassCells
<1>7. CASE Repaired \/ UNCHANGED vars
  <2>1. /\ stl' = stl /\ i' = i /\ pc' = pc /\ phase' = phase /\ file' = file
        /\ tolerance' = tolerance /\ facet' = facet /\ walks' = walks /\ warned' = warned
    BY <1>7 DEF Repaired, vars, meshVars, callVars, nearbyVars
  <2>2. Grid' = Grid
    BY <2>1 DEF Grid
  <2> HIDE DEF Grid
  <2>3. SweepInv'
    BY <2>1, <2>2 DEF SweepInv
  <2>4. MatchInv'
    BY <2>1 DEF MatchInv
  <2>5. QED
    BY <2>3, <2>4
<1>8. QED
  BY <1>2, <1>3, <1>4, <1>5, <1>6, <1>7 DEF Next

(* A file opened for the exact check.                                       *)
LEMMA CellsInvInit == Init => SweepInv /\ MatchInv
  BY DEF Init, SweepInv, MatchInv

(* Up to the removal of facets, if anything is asked for but reversing; the *)
(* checks are not called if nothing is.                                     *)
Early ==
  phase \in {"exact", "nearby"} =>
    IF Called("exact") THEN LinkInv /\ SweepInv /\ MatchInv ELSE pc = "test"

(* It holds as long as the nearby check is not called after a warning.      *)
LEMMA EarlyStep ==
  ASSUME TypeInv, Idle, PendingInv, Early, [Next]_vars, ~ CheckedAfterWarning
  PROVE  Early'
<1> SUFFICES ASSUME phase' \in {"exact", "nearby"} PROVE Early'
  BY DEF Early
<1>1. options' = options
  BY DEF Next, Call, Pass, Skip, Return, Repaired, CheckExact, CheckNearby, RemoveUnconnected,
         FillHoles, FixDirections, ReverseAll, FixNormalValues, CalculateVolume,
         GenerateSharedVertices, callVars, vars
<1>2. phase' = phase \/ Skip \/ Return
  BY DEF Next, Call, Pass, Repaired, CheckExact, CheckNearby, RemoveUnconnected, FillHoles,
         FixDirections, ReverseAll, FixNormalValues, CalculateVolume, GenerateSharedVertices,
         callVars, vars
<1>3. phase \in {"exact", "nearby"}
  <2>1. ASSUME Skip \/ Return
        PROVE  phase # "done" /\ phase \in Named /\ phase' \in {phase, Following(phase)}
    BY <2>1, PhaseNames DEF TypeInv, CallTyped, Idle, Skip, Return
  <2>2. QED
    BY <1>2, <2>1, FollowingPhases DEF Named
<1>4. CASE Called("exact")
  <2>1. ~ DegenerateJoined
    BY <1>3 DEF DegenerateJoined
  <2>2. LinkInv /\ SweepInv /\ MatchInv
    BY <1>3, <1>4 DEF Early
  <2>3. LinkInv' /\ SweepInv' /\ MatchInv'
    BY <2>1, <2>2, LinkInvStep, CellsInvStep
  <2>4. Called("exact")'
    BY <1>4, CalledExact
  <2>5. QED
    BY <2>3, <2>4 DEF Early
<1>5. CASE ~ Called("exact")
  <2>1. pc = "test"
    BY <1>3, <1>5 DEF Early
  <2>2. ~ Called(phase)
    BY <1>3, <1>5 DEF Called, Given
  <2>3. pc' = "test"
    <3>1. CASE Pass
      BY <1>3, <2>1, <3>1 DEF Pass, CheckExact, Exact!Initialize, Exact!RemoveDegenerateFacet,
         Exact!InsertEdge, Exact!FreeEdges, CheckNearby, Nearby!Next, Nearby!Begin,
         Nearby!LoadFacet, Nearby!SkipEdge, Nearby!PendEdge, Nearby!MatchEdge,
         Nearby!ChangeVertex, Nearby!FinishMatch, Nearby!FreeEdges, Nearby!Loadable,
         RemoveUnconnected, FillHoles, FixDirections, ReverseAll, FixNormalValues,
         CalculateVolume, GenerateSharedVertices
    <3>2. CASE ~ Pass
      BY <2>1, <2>2, <3>2 DEF Next, Call, Skip, Return, Repaired, meshVars, vars
    <3>3. QED
      BY <3>1, <3>2
  <2>4. ~ Called("exact")'
    BY <1>1, <1>5 DEF Called
  <2>5. QED
    BY <2>3, <2>4 DEF Early
<1>6. QED
  BY <1>4, <1>5

(* What it says of a step of the nearby check.                              *)
LEMMA CellsStay ==
  ASSUME TypeInv, PendingInv, Early, [Next]_vars, phase = "nearby"
  PROVE  CellsKept(Grid, stl, stl')
<1>1. CASE CheckNearby
  <2>1. pc # "test"
    BY <1>1 DEF CheckNearby, Nearby!Next, Nearby!Begin, Nearby!LoadFacet, Nearby!SkipEdge,
       Nearby!PendEdge, Nearby!MatchEdge, Nearby!ChangeVertex, Nearby!FinishMatch,
       Nearby!FreeEdges, Nearby!Loadable
  <2>2. LinkInv /\ SweepInv /\ MatchInv
    BY <2>1 DEF Early
  <2>3. Sound(stl)
    BY <2>2 DEF LinkInv, MeshInv
  <2>4. QED
    BY <1>1, <2>2, <2>3, CheckNearbyCells
<1>2. CASE ~ CheckNearby
  <2>1. stl' = stl
    BY <1>2 DEF Next, Call, Pass, Skip, Return, Repaired, CheckExact, RemoveUnconnected,
       FillHoles, FixDirections, ReverseAll, FixNormalValues, CalculateVolume,
       GenerateSharedVertices, meshVars, vars
  <2>2. QED
    BY <2>1 DEF CellsKept
<1>3. QED
  BY <1>1, <1>2

(* A call changes pc.                                                       *)
LEMMA CallsAreSteps == CheckedAfterWarning => ~ UNCHANGED vars
BY DEF CheckedAfterWarning, Call, vars, meshVars

(* Nor do neighbours of a degenerate facet stay the same when joined.       *)
LEMMA JoinsAreSteps == TypeInv /\ DegenerateJoined => ~ UNCHANGED vars
<1> SUFFICES ASSUME TypeInv, DegenerateJoined, UNCHANGED vars PROVE FALSE
  BY SMTT(20)
<1>1. i \in Facets(stl) /\ FacetRemoved(stl, i, stl') /\ stl' = stl
  <2>1. i \in Facets(stl) /\ stl' = Remove!RemoveDegenerate(stl, i)
    BY RemoveOperators DEF DegenerateJoined, Remove!RemoveDegenerateFacet
  <2>2. QED
    BY <2>1, RemoveDegenerateKeeps DEF TypeInv, MeshTyped, vars, meshVars
<1>2. stl.number_of_facets \in Nat
  BY MaxFacetsAssumption DEF TypeInv, MeshTyped, StlFiles
<1>3. QED
  BY <1>1, <1>2 DEF FacetRemoved

(* Until a warning is printed the invariants of the edges hold.             *)
LEMMA EdgesInvariant ==
  Spec /\ Called("exact") /\ [][~ DegenerateJoined]_vars
  => [](warned \/ (SweepInv /\ MatchInv))
<1> DEFINE Inv == warned \/ (SweepInv /\ MatchInv)
<1>1. Init => PendingInv /\ Inv
  <2>1. Init => PendingInv
    BY DEF Init, PendingInv
  <2>2. QED
    BY <2>1, CellsInvInit
<1>2. TypeInv /\ PendingInv /\ [Next]_vars => PendingInv'
  BY PendingInvStep
<1>3. TypeInv /\ Idle /\ PendingInv /\ LinkInv /\ Inv /\ [Next]_vars /\ [~ DegenerateJoined]_vars
      => Inv'
  <2> SUFFICES ASSUME TypeInv, Idle, PendingInv, LinkInv, Inv, [Next]_vars,
                      [~ DegenerateJoined]_vars
               PROVE  Inv'
    OBVIOUS
  <2>1. CASE warned
    BY <2>1, WarnedStays
  <2>2. CASE ~ warned
    <3>1. SweepInv /\ MatchInv
      BY <2>2
    <3>2. ~ DegenerateJoined
      BY JoinsAreSteps
    <3>3. ~ CheckedAfterWarning
      BY <2>2 DEF CheckedAfterWarning
    <3>4. SweepInv' /\ MatchInv'
      BY <3>1, <3>2, <3>3, CellsInvStep
    <3>5. QED
      BY <3>4
  <2>3. QED
    BY <2>1, <2>2
<1> HIDE DEF Inv
<1>4. Spec /\ Called("exact") /\ [][~ DegenerateJoined]_vars => []Inv
  BY <1>1, <1>2, <1>3, LinkInvariant, TypedInvariant, PTL DEF Spec
<1>5. QED
  BY <1>4 DEF Inv

(* What stl_verify_neighbors tests at the end: through all the passes,      *)
(* whichever the command line asks for, two neighbours share their edge     *)
(* unless a warning is printed, or stl_remove_degenerate joins the          *)
(* neighbours of a facet the nearby check has made degenerate.              *)
THEOREM NeighborsShareEdges ==
  Spec /\ Called("exact") /\ [][~ DegenerateJoined]_vars => []EdgesMatchUnlessWarned
<1>1. (warned \/ (SweepInv /\ MatchInv)) => EdgesMatchUnlessWarned
  BY DEF MatchInv, EdgesRight, EdgesMatchUnlessWarned, Between
<1>2. QED
  BY <1>1, EdgesInvariant, PTL

(* The nearby check moves no corner out of its cell of the grid, as long as *)
(* stl_repair does not call it again after a warning: neighbours that no    *)
(* longer share an edge would take a walk to a corner elsewhere.            *)
THEOREM CornersStayInCells ==
  Spec /\ [][~ CheckedAfterWarning]_vars => CornersKeepCells
<1> DEFINE Kept == phase = "nearby" =>
             \A f \in Facets(stl), c \in Corner :
               Nearby!Cell(stl'.facet_start[f][c]) = Nearby!Cell(stl.facet_start[f][c])
<1>1. Init => PendingInv /\ Early
  <2> SUFFICES ASSUME Init PROVE PendingInv /\ Early
    OBVIOUS
  <2>1. pc = "test" /\ PendingInv
    BY DEF Init, PendingInv
  <2>2. QED
    BY <2>1, LinkInvInit, CellsInvInit DEF Early
<1>2. TypeInv /\ PendingInv /\ [Next]_vars => PendingInv'
  BY PendingInvStep
<1>3. TypeInv /\ Idle /\ PendingInv /\ Early /\ [Next]_vars /\ [~ CheckedAfterWarning]_vars
      => Early'
  BY EarlyStep, CallsAreSteps
<1>4. TypeInv /\ PendingInv /\ Early /\ [Next]_vars => [Kept]_vars
  <2>1. ASSUME TypeInv, PendingInv, Early, [Next]_vars PROVE Kept
    BY <2>1, CellsStay, CellsInGrid DEF CellsKept, Grid
  <2>2. QED
    BY <2>1
<1>5. [][Kept]_vars => CornersKeepCells
  BY PTL DEF CornersKeepCells
<1> HIDE DEF Kept
<1>6. QED
  BY <1>1, <1>2, <1>3, <1>4, <1>5, TypedInvariant, PTL DEF Spec

-----------------------------------------------------------------------------
(****************************************************************************)
(* The end of a walk around a corner.                                       *)
(****************************************************************************)
(* The end of the edge the walk does not turn around.                       *)
FarEnd(s, a)  == s.facet_start[a.facet][IF a.direction = 1 THEN Next3(a.edge) ELSE a.edge]

(* The corners of a facet that is not degenerate are three points.          *)
LEMMA ProperCorners ==
  ASSUME NEW s, Proper(s), NEW f \in Facets(s), NEW c \in Corner, NEW d \in Corner, c # d
  PROVE  s.facet_start[f][c] # s.facet_start[f][d]
  BY DEF Proper, IsDegenerate, Corner

(* They are all: the corners of a facet that is not degenerate differ.      *)
LEMMA TwoAtACorner ==
  ASSUME NEW s, Proper(s), NEW a \in Darts(s), NEW b \in Darts(s),
         a.facet = b.facet, PivotOf(s, a) = PivotOf(s, b)
  PROVE  b \in {a, Around(a)}
<1>1. /\ a.edge \in Corner /\ a.direction \in {0, 1} /\ a.facet \in Facets(s)
      /\ b.edge \in Corner /\ b.direction \in {0, 1}
  BY DEF Darts
<1>2. /\ a = [facet |-> a.facet, edge |-> a.edge, direction |-> a.direction]
      /\ b = [facet |-> b.facet, edge |-> b.edge, direction |-> b.direction]
  BY DEF Darts
<1> DEFINE ca == IF a.direction = 1 THEN a.edge ELSE Next3(a.edge)
           cb == IF b.direction = 1 THEN b.edge ELSE Next3(b.edge)
<1>3. ca = cb
  <2>1. ca \in Corner /\ cb \in Corner
    BY <1>1, CornersInARow
  <2>2. s.facet_start[a.facet][ca] = s.facet_start[a.facet][cb]
    BY DEF PivotOf
  <2> HIDE DEF ca, cb
  <2>3. QED
    BY <1>1, <2>1, <2>2, ProperCorners
<1>4. CASE a.direction = b.direction
  <2>1. a.edge = b.edge
    BY <1>1, <1>3, <1>4, CornersInARow
  <2>2. QED
    BY <1>2, <1>4, <2>1
<1>5. CASE a.direction = 1 /\ b.direction = 0
  <2>1. b.edge = Prev3(a.edge)
    BY <1>1, <1>3, <1>5, CornersInARow
  <2>2. QED
    BY <1>2, <1>5, <2>1 DEF Around
<1>6. CASE a.direction = 0 /\ b.direction = 1
  <2>1. b.edge = Next3(a.edge)
    BY <1>1, <1>3, <1>6, CornersInARow
  <2>2. QED
    BY <1>2, <1>6, <2>1 DEF Around
<1>7. QED
  BY <1>1, <1>4, <1>5, <1>6

(* The neighbour across a connected edge sees the same edge, with the same  *)
(* pivot, and links back.                                                   *)
LEMMA OverBack ==
  ASSUME NEW s \in StlFiles, Mutual(s), EdgesRight(s), NEW a \in Darts(s), Linked(s, a)
  PROVE  /\ Over(s, a) \in Darts(s) /\ Over(s, a).facet # a.facet
         /\ Linked(s, Over(s, a)) /\ Over(s, Over(s, a)) = a
         /\ PivotOf(s, Over(s, a)) = PivotOf(s, a)
  BY OverMutual, EdgesRightByEnds

(* A walk that is to end at edge e of facet f and is about to leave across  *)
(* x: the darts it has passed turn around one corner of that edge, begin    *)
(* next to it, and lead to each other; it has not yet been on the other     *)
(* side of any of them.                                                     *)
Passed(s, f, e, x, A) ==
  /\ A \subseteq Darts(s) /\ x \in A
  /\ \E a \in A : a.facet = f /\ Around(a).edge = e
  /\ \A a \in A : Around(a) \notin A
  /\ \A a, b \in A : PivotOf(s, a) = PivotOf(s, b)
  /\ \A a \in A \ {x} : Linked(s, a) /\ Around(Over(s, a)) \in A

OnTheWay(s, f, e, x) == \E A \in SUBSET Darts(s) : Passed(s, f, e, x, A)

(* A walk begins next to the edge.                                          *)
LEMMA WalkBegins ==
  ASSUME NEW s, NEW f, NEW e, NEW x \in Darts(s), x.facet = f, Around(x).edge = e
  PROVE  OnTheWay(s, f, e, x)
<1>1. Around(x) # x
  BY AroundTwice
<1>2. Passed(s, f, e, x, {x})
  BY <1>1 DEF Passed
<1>3. QED
  BY <1>2 DEF OnTheWay

(* A walk that crosses a connected edge does not come back to the facet it  *)
(* started from, nor to any edge a second time: it would have to leave what *)
(* it passed the way it came.                                               *)
LEMMA WalkCrosses ==
  ASSUME NEW s \in StlFiles, Mutual(s), EdgesRight(s), Proper(s),
         NEW f, NEW e, s.neighbor[f][e] = None,
         NEW x, OnTheWay(s, f, e, x), x \in Darts(s) => Linked(s, x)
  PROVE  Over(s, x).facet # f /\ OnTheWay(s, f, e, Around(Over(s, x)))
<1>1. PICK A \in SUBSET Darts(s) : Passed(s, f, e, x, A)
  BY DEF OnTheWay
<1>2. PICK x0 \in A : x0.facet = f /\ Around(x0).edge = e
  BY <1>1 DEF Passed
<1> DEFINE over == Over(s, x)
           next == Around(over)
<1>3. x \in A /\ x \in Darts(s) /\ x0 \in Darts(s) /\ Linked(s, x)
  BY <1>1, <1>2 DEF Passed
<1>4. /\ over \in Darts(s) /\ over.facet # x.facet
      /\ Linked(s, over) /\ Over(s, over) = x /\ PivotOf(s, over) = PivotOf(s, x)
  BY <1>3, OverBack
<1> HIDE DEF over
<1>5. /\ next \in Darts(s) /\ Around(next) = over /\ next # over
      /\ PivotOf(s, next) = PivotOf(s, over)
  BY <1>4, AroundTwice
<1> HIDE DEF next
<1>6. over \notin A
  <2> SUFFICES ASSUME over \in A PROVE FALSE
    OBVIOUS
  <2>1. over \in A \ {x}
    BY <1>4
  <2>2. Around(Over(s, over)) \in A
    BY <1>1, <2>1 DEF Passed
  <2>3. QED
    BY <1>1, <1>3, <1>4, <2>2 DEF Passed
<1>7. over.facet # f
  <2> SUFFICES ASSUME over.facet = f PROVE FALSE
    OBVIOUS
  <2>1. PivotOf(s, x0) = PivotOf(s, over)
    BY <1>1, <1>2, <1>3, <1>4 DEF Passed
  <2>2. over \in {x0, Around(x0)}
    BY <1>2, <1>3, <1>4, <2>1, TwoAtACorner
  <2>3. CASE over = x0
    BY <1>2, <1>6, <2>3
  <2>4. CASE over = Around(x0)
    <3>1. over.edge = e
      BY <1>2, <2>4
    <3>2. QED
      BY <1>4, <3>1 DEF Linked
  <2>5. QED
    BY <2>2, <2>3, <2>4
<1>8. Passed(s, f, e, next, A \cup {next})
  <2>1. A \cup {next} \subseteq Darts(s) /\ next \in A \cup {next}
    BY <1>5
  <2>2. \E a \in A \cup {next} : a.facet = f /\ Around(a).edge = e
    BY <1>2
  <2>3. \A a \in A \cup {next} : Around(a) \notin A \cup {next}
    <3>1. TAKE a \in A \cup {next}
    <3>2. CASE a = next
      BY <1>5, <1>6, <3>2
    <3>3. CASE a \in A
      <4>1. Around(a) \notin A
        BY <1>1, <3>3 DEF Passed
      <4>2. Around(Around(a)) = a
        BY <3>3, AroundTwice
      <4>3. Around(a) # next
        BY <1>5, <1>6, <3>3, <4>2
      <4>4. QED
        BY <4>1, <4>3
    <3>4. QED
      BY <3>1, <3>2, <3>3
  <2>4. \A a \in A : PivotOf(s, a) = PivotOf(s, next)
    BY <1>1, <1>3, <1>4, <1>5 DEF Passed
  <2>5. \A a, b \in A \cup {next} : PivotOf(s, a) = PivotOf(s, b)
    <3>1. \A a, b \in A : PivotOf(s, a) = PivotOf(s, b)
      BY <1>1 DEF Passed
    <3>2. QED
      BY <2>4, <3>1
  <2>6. \A a \in (A \cup {next}) \ {next} : Linked(s, a) /\ Around(Over(s, a)) \in A \cup {next}
    <3>1. TAKE a \in (A \cup {next}) \ {next}
    <3>2. CASE a = x
      BY <1>3, <3>2 DEF over, next
    <3>3. CASE a # x
      BY <1>1, <3>1, <3>3 DEF Passed
    <3>4. QED
      BY <3>2, <3>3
  <2>7. QED
    BY <2>1, <2>2, <2>3, <2>5, <2>6 DEF Passed
<1>9. A \cup {next} \in SUBSET Darts(s)
  BY <1>5
<1>10. QED
  BY <1>7, <1>8, <1>9 DEF OnTheWay, over, next

(* Unconnected edges have different end points.                             *)
Apart(s) ==
  \A f, g \in Facets(s), e, d \in Corner :
    s.neighbor[f][e] = None /\ s.neighbor[g][d] = None /\ EndPoints(s, f, e) = EndPoints(s, g, d)
      => f = g /\ e = d

(* A walk ends at another unconnected edge: the far end of that edge is not *)
(* on the edge the walk began at.                                           *)
LEMMA WalkEnds ==
  ASSUME NEW s, Proper(s), Apart(s), NEW f \in Facets(s), NEW e \in Corner,
         s.neighbor[f][e] = None,
         NEW x, OnTheWay(s, f, e, x), x \in Darts(s) => ~ Linked(s, x)
  PROVE  FarEnd(s, x) \notin EndPoints(s, f, e)
<1>1. PICK A \in SUBSET Darts(s) : Passed(s, f, e, x, A)
  BY DEF OnTheWay
<1>2. PICK x0 \in A : x0.facet = f /\ Around(x0).edge = e
  BY <1>1 DEF Passed
<1>3. /\ x \in A /\ x \in Darts(s) /\ x0 \in Darts(s) /\ ~ Linked(s, x)
      /\ PivotOf(s, x) = PivotOf(s, x0)
  BY <1>1, <1>2 DEF Passed
<1> DEFINE y == Around(x0)
<1>4. y \in Darts(s) /\ y.facet = f /\ y.edge = e /\ PivotOf(s, y) = PivotOf(s, x)
  BY <1>2, <1>3, AroundTwice
<1>5. y \notin A
  BY <1>1, <1>2 DEF Passed
<1> HIDE DEF y
<1>6. \A a \in Darts(s) : /\ EndPoints(s, a.facet, a.edge) = {PivotOf(s, a), FarEnd(s, a)}
                         /\ PivotOf(s, a) # FarEnd(s, a)
  <2>1. TAKE a \in Darts(s)
  <2>2. a.edge \in Corner /\ a.direction \in {0, 1} /\ a.facet \in Facets(s)
    BY DEF Darts
  <2>3. Next3(a.edge) \in Corner /\ Next3(a.edge) # a.edge
    BY <2>2, CornersInARow
  <2>4. s.facet_start[a.facet][a.edge] # s.facet_start[a.facet][Next3(a.edge)]
    BY <2>2, <2>3, ProperCorners
  <2>5. CASE a.direction = 1
    BY <2>4, <2>5 DEF EndPoints, PivotOf, FarEnd
  <2>6. CASE a.direction = 0
    BY <2>4, <2>6 DEF EndPoints, PivotOf, FarEnd
  <2>7. QED
    BY <2>2, <2>5, <2>6
<1> SUFFICES ASSUME FarEnd(s, x) \in EndPoints(s, f, e) PROVE FALSE
  OBVIOUS
<1>7. EndPoints(s, x.facet, x.edge) = EndPoints(s, f, e)
  BY <1>3, <1>4, <1>6
<1>8. x.facet = f /\ x.edge = e
  BY <1>3, <1>7 DEF Apart, Darts, Linked
<1>9. x = y
  <2>1. x \in {y, Around(y)}
    BY <1>3, <1>4, <1>8, TwoAtACorner
  <2>2. Around(y).edge # y.edge
    BY <1>4, CornersInARow DEF Darts, Around
  <2>3. QED
    BY <1>4, <1>8, <2>1, <2>2
<1>10. QED
  BY <1>3, <1>5, <1>9

-----------------------------------------------------------------------------
(****************************************************************************)
(* The table of pending edges.                                              *)
(****************************************************************************)
(* No two pending edges match.                                              *)
KeysDistinct(s) == \A p, q \in s.heads : p.key = q.key => p = q

(* Edge e of facet f is pending.                                            *)
Waiting(s, f, e) == \E p \in s.heads : IsPending(p, f, e)

(* The table is as insert_hash_edge leaves it: it holds unconnected edges   *)
(* of the mesh, of which no two match.                                      *)
Tabled(s) == Pending(s) /\ Sound(s) /\ KeysRight(s) /\ KeysDistinct(s) /\ Proper(s)

(* Every unconnected edge but those of facet f in D is pending.             *)
WaitingBut(s, f, D) ==
  \A g \in Facets(s), d \in Corner :
    s.neighbor[g][d] = None /\ ~ (g = f /\ d \in D) => Waiting(s, g, d)

(* An edge of the hash table names an edge of a facet.                      *)
LEMMA EdgeFields ==
  \A p \in Edge : p.facet_number \in Slot /\ p.which_edge \in 0 .. 5 /\ p.which_edge % 3 \in Corner
  BY CornerArithmetic DEF Edge

(* Edges of the mesh have the same key exactly if they have the same ends.  *)
LEMMA KeysAreEndPoints ==
  ASSUME NEW s \in StlFiles, Proper(s), NEW p \in Edge, IsEdgeOf(s, p),
         NEW q \in Edge, IsEdgeOf(s, q)
  PROVE  p.key = q.key <=> EndPoints(s, p.facet_number, p.which_edge % 3)
                           = EndPoints(s, q.facet_number, q.which_edge % 3)
<1> DEFINE f == p.facet_number
           e == p.which_edge % 3
           g == q.facet_number
           d == q.which_edge % 3
           a == s.facet_start[f][e]
           b == s.facet_start[f][Next3(e)]
           x == s.facet_start[g][d]
           y == s.facet_start[g][Next3(d)]
<1>1. /\ f \in Facets(s) /\ g \in Facets(s) /\ e \in Corner /\ d \in Corner
      /\ f \in Slot /\ g \in Slot
  BY EdgeFields DEF IsEdgeOf
<1>2. /\ Next3(e) \in Corner /\ Next3(e) # e /\ Next3(d) \in Corner /\ Next3(d) # d
  BY <1>1, CornersInARow
<1>3. a # b /\ x # y
  BY <1>1, <1>2, ProperCorners
<1>4. a \in Vertex /\ b \in Vertex /\ x \in Vertex /\ y \in Vertex
  BY <1>1, <1>2 DEF StlFiles, Facet
<1>5. p = LoadEdgeExact(f, e, a, b) /\ q = LoadEdgeExact(g, d, x, y)
  BY DEF IsEdgeOf
<1>6. EndPoints(s, f, e) = {a, b} /\ EndPoints(s, g, d) = {x, y}
  BY DEF EndPoints
<1> HIDE DEF a, b, x, y, f, e, g, d
<1>7. LoadEdgeExact(f, e, a, b).key = LoadEdgeExact(g, d, x, y).key
        <=> (a = x /\ b = y) \/ (a = y /\ b = x)
  BY <1>3, <1>4, EqualKeys
<1>8. {a, b} = {x, y} <=> (a = x /\ b = y) \/ (a = y /\ b = x)
  BY <1>3
<1>9. p.key = q.key <=> EndPoints(s, f, e) = EndPoints(s, g, d)
  BY <1>5, <1>6, <1>7, <1>8
<1>10. QED
  BY <1>9 DEF f, e, g, d

(* From s to u edge e of facet f has been left pending: no pending edge has *)
(* the same ends.                                                           *)
LeftPending(s, f, e, u) ==
  /\ u.neighbor = s.neighbor
  /\ s.heads \subseteq u.heads
  /\ Waiting(u, f, e)
  /\ \A g \in Facets(s), d \in Corner :
       Waiting(s, g, d) => EndPoints(s, g, d) # EndPoints(s, f, e)

(* It has been matched with edge d of facet g, the only pending edge with   *)
(* the same ends.                                                           *)
MatchedWith(s, f, e, g, d, u) ==
  /\ g # f /\ s.neighbor[g][d] = None /\ EndPoints(s, g, d) = EndPoints(s, f, e)
  /\ \A h \in Slot, c \in Corner :
       u.neighbor[h][c] = IF h = f /\ c = e THEN g
                          ELSE IF h = g /\ c = d THEN f ELSE s.neighbor[h][c]
  /\ \A h \in Facets(s), c \in Corner :
       Waiting(s, h, c) /\ ~ (h = g /\ c = d) =>
         Waiting(u, h, c) /\ EndPoints(s, h, c) # EndPoints(s, f, e)

(* insert_hash_edge: the edge is left pending or matched.                   *)
LEMMA InsertCases ==
  ASSUME NEW s \in StlFiles, s.shortest_edge \in Nat, Tabled(s),
         NEW f \in Facets(s), NEW e \in Corner, FreeEdge(s, f, e)
  PROVE  LET u == InsertEdgeExact(s, f, e, s.facet_start[f])
         IN  /\ Tabled(u) /\ u.number_of_facets = s.number_of_facets
             /\ u.facet_start = s.facet_start
             /\ \/ LeftPending(s, f, e, u)
                \/ \E g \in Facets(s), d \in Corner : MatchedWith(s, f, e, g, d, u)
<1> DEFINE t    == s.facet_start[f]
           edge == LoadEdgeExact(f, e, t[e], t[Next3(e)])
           u    == InsertEdgeExact(s, f, e, t)
<1>1. f \in Slot /\ t \in Facet
  BY FacetsAreSlots DEF StlFiles
<1>2. Pending(s) /\ Sound(s) /\ KeysRight(s) /\ KeysDistinct(s) /\ Proper(s)
  BY DEF Tabled
<1>3. SoundlyInserted(s, u) /\ Inserted(s, f, e, u)
  BY <1>1, <1>2, InsertEdgeExactSound, InsertEdgeExactInserted
<1> HIDE DEF t
<1>4. /\ edge \in Edge /\ edge.facet_number = f /\ edge.which_edge % 3 = e
      /\ \E r \in StlFiles :
           /\ SameButTable(s, r) /\ r.shortest_edge \in Nat
           /\ \/ /\ u = r
                 /\ r.heads = s.heads \cup {edge}
                 /\ Matches(s, edge) = {}
              \/ \E link \in s.heads :
                   /\ u = RecordNeighbors(r, edge, link)
                   /\ r.heads = s.heads \ {link}
                   /\ link \in Edge /\ link.key = edge.key /\ link.facet_number # f
  BY <1>1, InsertEdgeExactResult, SMTT(60)
<1>5. IsEdgeOf(s, edge)
  BY <1>4 DEF IsEdgeOf, t
<1> HIDE DEF edge, u
<1>6. s.heads \subseteq Edge /\ \A p \in s.heads : IsEdgeOf(s, p)
  BY <1>2 DEF StlFiles, KeysRight
<1>7. \A p \in s.heads : p.key = edge.key <=> EndPoints(s, p.facet_number, p.which_edge % 3)
                                              = EndPoints(s, f, e)
  BY <1>2, <1>4, <1>5, <1>6, KeysAreEndPoints
<1>8. u.number_of_facets = s.number_of_facets /\ u.facet_start = s.facet_start
  BY <1>3 DEF Inserted, SoundlyInserted
<1>9. Proper(u) /\ Pending(u) /\ Sound(u) /\ KeysRight(u) /\ Facets(u) = Facets(s)
  BY <1>2, <1>3, <1>8 DEF Proper, Facets, Inserted, SoundlyInserted
<1>10. PICK r \in StlFiles :
           /\ SameButTable(s, r)
           /\ \/ u = r /\ r.heads = s.heads \cup {edge} /\ Matches(s, edge) = {}
              \/ \E link \in s.heads :
                   /\ u = RecordNeighbors(r, edge, link)
                   /\ r.heads = s.heads \ {link}
                   /\ link \in Edge /\ link.key = edge.key /\ link.facet_number # f
  BY <1>4
<1> DEFINE Cases == \/ LeftPending(s, f, e, u)
                    \/ \E g \in Facets(s), d \in Corner : MatchedWith(s, f, e, g, d, u)
<1>11. ASSUME u = r, r.heads = s.heads \cup {edge}, Matches(s, edge) = {}
       PROVE  KeysDistinct(u) /\ Cases
  <2>1. \A p \in s.heads : p.key = edge.key => p.facet_number = f
    BY <1>4, <1>11 DEF Matches
  <2>2. \A p \in s.heads : p.key # edge.key
    <3> SUFFICES ASSUME NEW p \in s.heads, p.key = edge.key PROVE FALSE
      OBVIOUS
    <3> DEFINE d == p.which_edge % 3
    <3>1. p.facet_number = f /\ EndPoints(s, f, d) = EndPoints(s, f, e) /\ d \in Corner
      BY <1>6, <1>7, <2>1, EdgeFields
    <3>2. d # e
      BY <3>1 DEF FreeEdge, IsPending
    <3> HIDE DEF d
    <3>3. /\ Next3(e) \in Corner /\ Next3(d) \in Corner /\ Next3(d) # d /\ Next3(e) # e
          /\ Next3(d) # Next3(e)
      BY <3>1, <3>2 DEF Corner, Next3
    <3>4. /\ s.facet_start[f][d] # s.facet_start[f][e]
          /\ s.facet_start[f][Next3(d)] # s.facet_start[f][Next3(e)]
          /\ s.facet_start[f][d] # s.facet_start[f][Next3(d)]
          /\ s.facet_start[f][e] # s.facet_start[f][Next3(e)]
      BY <1>2, <3>1, <3>2, <3>3, ProperCorners
    <3>5. /\ s.facet_start[f][d] = s.facet_start[f][Next3(e)]
          /\ s.facet_start[f][Next3(d)] = s.facet_start[f][e]
      BY <3>1, <3>4 DEF EndPoints
    <3>6. d = Next3(e) /\ e = Next3(d)
      BY <1>2, <3>1, <3>3, <3>5, ProperCorners
    <3>7. QED
      BY <3>1, <3>6 DEF Corner, Next3
  <2>3. KeysDistinct(u)
    BY <1>2, <1>11, <2>2 DEF KeysDistinct
  <2>4. u.neighbor = s.neighbor
    BY <1>10, <1>11 DEF SameButTable
  <2>5. IsPending(edge, f, e)
    BY <1>4 DEF IsPending
  <2>6. \A g \in Facets(s), d \in Corner :
          Waiting(s, g, d) => EndPoints(s, g, d) # EndPoints(s, f, e)
    <3> SUFFICES ASSUME NEW p \in s.heads, EndPoints(s, p.facet_number, p.which_edge % 3)
                                           = EndPoints(s, f, e)
                 PROVE  FALSE
      BY DEF Waiting, IsPending
    <3>1. QED
      BY <1>7, <2>2
  <2>7. LeftPending(s, f, e, u)
    BY <1>11, <2>4, <2>5, <2>6 DEF LeftPending, Waiting
  <2>8. QED
    BY <2>3, <2>7
<1>12. ASSUME NEW link \in s.heads, u = RecordNeighbors(r, edge, link),
              r.heads = s.heads \ {link}, link \in Edge, link.key = edge.key,
              link.facet_number # f
       PROVE  KeysDistinct(u) /\ Cases
  <2>1. /\ u = RecordNeighbors(r, edge, link)
        /\ r.heads = s.heads \ {link}
        /\ link \in Edge /\ link.key = edge.key /\ link.facet_number # f
    BY <1>12
  <2>2. edge.facet_number # link.facet_number
    BY <1>4, <2>1
  <2>3. u.heads = s.heads \ {link}
    BY <1>4, <2>1, <2>2, RecordNeighborsHeads
  <2>4. \A g \in Slot, d \in Corner :
          u.neighbor[g][d] =
            IF g = f /\ d = e THEN link.facet_number
            ELSE IF g = link.facet_number /\ d = link.which_edge % 3 THEN f
            ELSE r.neighbor[g][d]
    <3>1. edge \in Edge /\ edge.facet_number = f /\ edge.which_edge % 3 = e
      BY <1>4
    <3>a. edge \in Edge /\ link \in Edge /\ edge.facet_number # link.facet_number
      BY <2>1, <2>2, <3>1
    <3>2. \A g \in Slot, d \in Corner :
            RecordNeighbors(r, edge, link).neighbor[g][d] =
              IF g = edge.facet_number /\ d = edge.which_edge % 3 THEN link.facet_number
              ELSE IF g = link.facet_number /\ d = link.which_edge % 3 THEN edge.facet_number
              ELSE r.neighbor[g][d]
      BY <3>a, RecordNeighborsFields
    <3>3. QED
      BY <2>1, <3>1, <3>2
  <2>5. r.neighbor = s.neighbor
    BY <1>10 DEF SameButTable
  <2>6. link.facet_number \in Slot /\ link.which_edge % 3 \in Corner
    BY <2>1, EdgeFields
  <2>7. KeysDistinct(u)
    BY <1>2, <2>3 DEF KeysDistinct
  <2>8. \A p \in s.heads : p.key = edge.key => p = link
    BY <1>2, <2>1 DEF KeysDistinct
  <2> DEFINE g == link.facet_number
             d == link.which_edge % 3
  <2>9. /\ g \in Facets(s) /\ d \in Corner /\ g # f
        /\ s.neighbor[g][d] = None /\ EndPoints(s, g, d) = EndPoints(s, f, e)
    BY <1>2, <1>7, <2>1, <2>6 DEF Pending
  <2>10. ASSUME NEW h \in Facets(s), NEW c \in Corner, Waiting(s, h, c), ~ (h = g /\ c = d)
         PROVE  Waiting(u, h, c) /\ EndPoints(s, h, c) # EndPoints(s, f, e)
    <3>1. PICK p \in s.heads : p.facet_number = h /\ p.which_edge % 3 = c
      BY <2>10 DEF Waiting, IsPending
    <3>2. p # link
      BY <2>10, <3>1
    <3>3. p.key # edge.key
      BY <2>8, <3>2
    <3>4. EndPoints(s, h, c) # EndPoints(s, f, e)
      BY <1>7, <3>1, <3>3
    <3>5. QED
      BY <2>3, <3>1, <3>2, <3>4 DEF Waiting, IsPending
  <2>11. MatchedWith(s, f, e, g, d, u)
    BY <2>4, <2>5, <2>9, <2>10 DEF MatchedWith
  <2> HIDE DEF g, d
  <2>12. QED
    BY <2>7, <2>9, <2>11
<1> HIDE DEF Cases
<1>13. KeysDistinct(u) /\ Cases
  BY <1>10, <1>11, <1>12
<1>14. Tabled(u)
  BY <1>9, <1>13 DEF Tabled
<1>15. QED
  BY <1>8, <1>13, <1>14 DEF u, t, Cases

(* D is all of E, but perhaps edge e.                                       *)
AllBut(E, e, D) == E \subseteq D \cup {e}

(* insert_hash_edge: the edge is pending or has been matched; what was      *)
(* unconnected and pending is still pending, or has been matched; and if a  *)
(* pending edge of another facet has the same ends, it is connected now.    *)
LEMMA InsertFills ==
  ASSUME NEW s \in StlFiles, s.shortest_edge \in Nat, Tabled(s),
         NEW f \in Facets(s), NEW e \in Corner, FreeEdge(s, f, e),
         NEW E, WaitingBut(s, f, E), NEW D, AllBut(E, e, D),
         NEW u, u = InsertEdgeExact(s, f, e, s.facet_start[f])
  PROVE  /\ Tabled(u) /\ WaitingBut(u, f, D)
         /\ \A g \in Facets(s) \ {f}, d \in Corner :
              Waiting(s, g, d) /\ EndPoints(s, g, d) = EndPoints(s, f, e)
                => u.neighbor[g][d] # None
<1>1. /\ Tabled(u) /\ u.number_of_facets = s.number_of_facets
      /\ \/ LeftPending(s, f, e, u)
         \/ \E g \in Facets(s), d \in Corner : MatchedWith(s, f, e, g, d, u)
  BY InsertCases
<1>2. Facets(u) = Facets(s) /\ Facets(s) \subseteq Slot /\ None \notin Slot
  BY <1>1, FacetsAreSlots, MaxFacetsAssumption DEF Facets, Slot, None
<1> DEFINE Result == /\ WaitingBut(u, f, D)
                     /\ \A g \in Facets(s) \ {f}, d \in Corner :
                          Waiting(s, g, d) /\ EndPoints(s, g, d) = EndPoints(s, f, e)
                            => u.neighbor[g][d] # None
<1>3. ASSUME LeftPending(s, f, e, u) PROVE Result
  BY <1>2, <1>3 DEF LeftPending, WaitingBut, Waiting, AllBut
<1>4. ASSUME NEW g \in Facets(s), NEW d \in Corner, MatchedWith(s, f, e, g, d, u) PROVE Result
  <2>1. \A h \in Facets(s), c \in Corner :
          ~ (h = f /\ c = e) /\ ~ (h = g /\ c = d) => u.neighbor[h][c] = s.neighbor[h][c]
    BY <1>2, <1>4 DEF MatchedWith
  <2>2. u.neighbor[f][e] # None /\ u.neighbor[g][d] # None
    BY <1>2, <1>4 DEF MatchedWith
  <2>3. WaitingBut(u, f, D)
    <3> SUFFICES ASSUME NEW h \in Facets(u), NEW c \in Corner, u.neighbor[h][c] = None,
                        ~ (h = f /\ c \in D)
                 PROVE  Waiting(u, h, c)
      BY DEF WaitingBut
    <3>1. h \in Facets(s) /\ s.neighbor[h][c] = None /\ ~ (h = f /\ c = e) /\ ~ (h = g /\ c = d)
      BY <1>2, <2>1, <2>2
    <3>2. Waiting(s, h, c)
      BY <3>1 DEF WaitingBut, AllBut
    <3>3. QED
      BY <1>4, <3>1, <3>2 DEF MatchedWith
  <2>4. \A h \in Facets(s) \ {f}, c \in Corner :
          Waiting(s, h, c) /\ EndPoints(s, h, c) = EndPoints(s, f, e) => u.neighbor[h][c] # None
    BY <1>4, <2>2 DEF MatchedWith
  <2>5. QED
    BY <2>3, <2>4
<1> HIDE DEF Result
<1>5. Result
  BY <1>1, <1>3, <1>4
<1>6. QED
  BY <1>1, <1>5 DEF Result

(* The facet that closes a hole: its first edge matches the unconnected     *)
(* edge it was made for, and the others are matched or pending.             *)
LEMMA CloseHoleFills ==
  ASSUME NEW s \in StlFiles, s.shortest_edge \in Nat, Tabled(s), WaitingBut(s, 0, {}), HasRoom(s),
         NEW t \in Facet, ~ IsDegenerate(t),
         NEW g \in Facets(s), NEW d \in Corner, s.neighbor[g][d] = None,
         EndPoints(s, g, d) = {t[0], t[1]}
  PROVE  LET u == Fill!InsertFacetEdges(AddFacet(s, t), s.number_of_facets, t)
         IN  /\ Tabled(u) /\ WaitingBut(u, 0, {})
             /\ u.number_of_facets = s.number_of_facets + 1
             /\ LinksAdded(s, u)
             /\ u.neighbor[g][d] # None
             /\ \A h \in Facets(u) \ Facets(s) : h = s.number_of_facets
<1> DEFINE f  == s.number_of_facets
           a  == AddFacet(s, t)
           s0 == InsertEdgeExact(a, f, 0, t)
           s1 == InsertEdgeExact(s0, f, 1, t)
           s2 == InsertEdgeExact(s1, f, 2, t)
<1>1. 0 \in Corner /\ 1 \in Corner /\ 2 \in Corner /\ Corner = {0, 1, 2}
  BY DEF Corner
<1>2. Fill!InsertFacetEdges(a, f, t) = s2
  BY FillOperators DEF Fill!InsertFacetEdges
<1>3. /\ a \in StlFiles /\ a.shortest_edge \in Nat /\ a.number_of_facets = f + 1
      /\ a.facet_start = [s.facet_start EXCEPT ![f] = t]
      /\ a.neighbor = [s.neighbor EXCEPT ![f] = [e \in Corner |-> None]]
      /\ a.heads = s.heads
      /\ f \in Slot
  BY AddFacetFields
<1>a. Pending(s) /\ Sound(s) /\ KeysRight(s) /\ KeysDistinct(s) /\ Proper(s)
  BY DEF Tabled
<1>b. LinksAdded(s, s2)
  BY <1>2, <1>a, CloseHoleInserted
<1>4. /\ f \in Facets(a) /\ f \notin Facets(s) /\ Facets(a) = Facets(s) \cup {f}
      /\ Facets(s) \subseteq Slot
  <2>1. f \in Nat
    BY <1>3, MaxFacetsAssumption DEF Slot
  <2>2. Facets(s) = 0 .. f - 1 /\ Facets(a) = 0 .. f
    BY <1>3, <2>1 DEF Facets
  <2> HIDE DEF a, f
  <2>3. QED
    BY <2>1, <2>2, FacetsAreSlots
<1>5. Sound(a) /\ KeysRight(a)
  <2>1. Sound(a) /\ \A p \in s.heads : IsEdgeOf(s, p) => IsEdgeOf(a, p)
    BY <1>a, AddFacetSound
  <2>2. QED
    BY <1>3, <1>a, <2>1 DEF KeysRight
<1> HIDE DEF a
<1>6. /\ a.facet_start[f] = t /\ \A h \in Facets(s) : a.facet_start[h] = s.facet_start[h]
      /\ \A e \in Corner : a.neighbor[f][e] = None
      /\ \A h \in Facets(s) : a.neighbor[h] = s.neighbor[h]
  BY <1>3, <1>4 DEF StlFiles
<1>7. Pending(a) /\ KeysDistinct(a) /\ Proper(a)
  BY <1>3, <1>4, <1>6, <1>a DEF Pending, KeysDistinct, Proper
<1>8. Tabled(a)
  BY <1>5, <1>7 DEF Tabled
<1>9. \A e \in Corner : FreeEdge(a, f, e)
  <2>1. \A p \in a.heads : p.facet_number # f
    BY <1>3, <1>4, <1>a DEF Pending
  <2>2. QED
    BY <1>6, <2>1 DEF FreeEdge, IsPending
<1> DEFINE D0 == {0, 1, 2}
           D1 == {1, 2}
           D2 == {2}
           D3 == {}
<1>10. AllBut(D0, 0, D1) /\ AllBut(D1, 1, D2) /\ AllBut(D2, 2, D3) /\ Corner = D0
  BY <1>1 DEF AllBut
<1> HIDE DEF D0, D1, D2
<1>11. WaitingBut(a, f, D0)
  <2>1. \A h \in Facets(s), e \in Corner : s.neighbor[h][e] = None => Waiting(a, h, e)
    BY <1>3 DEF WaitingBut, Waiting
  <2>2. QED
    BY <1>4, <1>6, <1>10, <2>1 DEF WaitingBut
<1>12. Waiting(a, g, d) /\ EndPoints(a, g, d) = EndPoints(a, f, 0) /\ g # f
  <2>1. Waiting(a, g, d) /\ g # f
    BY <1>3, <1>4 DEF WaitingBut, Waiting
  <2>2. EndPoints(a, g, d) = EndPoints(s, g, d)
    BY <1>6 DEF EndPoints
  <2>3. EndPoints(a, f, 0) = {t[0], t[1]}
    BY <1>6 DEF EndPoints, Next3
  <2>4. QED
    BY <2>1, <2>2, <2>3
<1> HIDE DEF f, D3
<1>13. /\ s0 = InsertEdgeExact(a, f, 0, a.facet_start[f])
       /\ Inserted(a, f, 0, s0) /\ s0.shortest_edge \in Nat /\ s0.facet_start = a.facet_start
  <2>1. /\ a \in StlFiles /\ a.shortest_edge \in Nat /\ f \in Facets(a) /\ f \in Slot
        /\ 0 \in Corner /\ FreeEdge(a, f, 0) /\ Pending(a)
    BY <1>1, <1>3, <1>4, <1>7, <1>9
  <2>2. Inserted(a, f, 0, s0)
    BY <2>1, InsertEdgeExactInserted
  <2>3. s0.shortest_edge \in Nat /\ s0.facet_start = a.facet_start
    BY <2>1, InsertEdgeExactKeeps
  <2>4. QED
    BY <1>6, <2>2, <2>3
<1> HIDE DEF s0
<1>14. /\ f \in Facets(s0) /\ FreeEdge(s0, f, 1) /\ FreeEdge(s0, f, 2)
       /\ s0 \in StlFiles /\ Facets(s0) = Facets(a) /\ s0.facet_start[f] = t
  BY <1>1, <1>4, <1>6, <1>9, <1>13 DEF Inserted, FreeEdge, IsPending, Facets
<1>15. Tabled(s0) /\ WaitingBut(s0, f, D1) /\ s0.neighbor[g][d] # None
  <2>1. g \in Facets(a) \ {f} /\ f \in Facets(a) /\ FreeEdge(a, f, 0)
    BY <1>1, <1>4, <1>9, <1>12
  <2>2. AllBut(D0, 0, D1) /\ a \in StlFiles /\ a.shortest_edge \in Nat /\ 0 \in Corner
    BY <1>1, <1>3, <1>10
  <2>3. s0 = InsertEdgeExact(a, f, 0, a.facet_start[f])
    BY <1>13
  <2>4. /\ Tabled(s0) /\ WaitingBut(s0, f, D1)
        /\ \A h \in Facets(a) \ {f}, e \in Corner :
             Waiting(a, h, e) /\ EndPoints(a, h, e) = EndPoints(a, f, 0)
               => s0.neighbor[h][e] # None
    BY <1>8, <1>11, <2>1, <2>2, <2>3, InsertFills
  <2>5. QED
    BY <1>12, <2>1, <2>4
<1>16. /\ s1 = InsertEdgeExact(s0, f, 1, s0.facet_start[f])
       /\ Inserted(s0, f, 1, s1) /\ s1.shortest_edge \in Nat /\ s1.facet_start = a.facet_start
  <2>1. Pending(s0)
    BY <1>15 DEF Tabled
  <2>2. QED
    BY <1>1, <1>3, <1>13, <1>14, <2>1, InsertEdgeExactInserted, InsertEdgeExactKeeps
<1> HIDE DEF s1
<1>17. /\ f \in Facets(s1) /\ FreeEdge(s1, f, 2) /\ s1 \in StlFiles /\ Facets(s1) = Facets(a)
       /\ s1.facet_start[f] = t
  BY <1>1, <1>6, <1>14, <1>16 DEF Inserted, FreeEdge, IsPending, Facets
<1>18. Tabled(s1) /\ WaitingBut(s1, f, D2)
  <2>1. s1 = InsertEdgeExact(s0, f, 1, s0.facet_start[f]) /\ AllBut(D1, 1, D2)
    BY <1>10, <1>16
  <2>2. Tabled(s0) /\ WaitingBut(s0, f, D1) /\ s0.shortest_edge \in Nat /\ 1 \in Corner
    BY <1>1, <1>13, <1>15
  <2>3. QED
    BY <1>14, <2>1, <2>2, InsertFills
<1>19. s2 = InsertEdgeExact(s1, f, 2, s1.facet_start[f]) /\ Inserted(s1, f, 2, s2)
  <2>1. Pending(s1)
    BY <1>18 DEF Tabled
  <2>2. QED
    BY <1>1, <1>3, <1>16, <1>17, <2>1, InsertEdgeExactInserted
<1> HIDE DEF s2
<1>20. Tabled(s2) /\ WaitingBut(s2, f, D3)
  <2>1. s2 = InsertEdgeExact(s1, f, 2, s1.facet_start[f]) /\ AllBut(D2, 2, D3)
    BY <1>10, <1>19
  <2>2. s1.shortest_edge \in Nat /\ 2 \in Corner
    BY <1>1, <1>16
  <2>3. QED
    BY <1>17, <1>18, <2>1, <2>2, InsertFills
<1>21. s2.number_of_facets = f + 1 /\ Facets(s2) = Facets(s) \cup {f}
  BY <1>3, <1>4, <1>13, <1>16, <1>17, <1>19 DEF Inserted, Facets
<1>22. s2.neighbor[g][d] # None
  <2>1. LinksAdded(s0, s1) /\ LinksAdded(s1, s2)
    BY <1>16, <1>19 DEF Inserted
  <2>2. g \in Facets(s0) /\ g \in Facets(s1)
    BY <1>4, <1>14, <1>17
  <2>3. QED
    BY <1>15, <2>1, <2>2 DEF LinksAdded
<1>23. WaitingBut(s2, 0, {})
  BY <1>20 DEF WaitingBut, D3
<1>24. QED
  BY <1>2, <1>20, <1>21, <1>22, <1>23, <1>b DEF a, f

-----------------------------------------------------------------------------
(****************************************************************************)
(* The invariant of the holes.                                              *)
(****************************************************************************)
(* No edge is unconnected.                                                  *)
Whole(s) == \A f \in Facets(s), e \in Corner : s.neighbor[f][e] # None

(* The loops of stl_fill_holes have passed edge e of facet f.               *)
Behind(f, e) == f < i \/ (f = i /\ e < j)

(* Matching the edges: all that were passed and are unconnected are         *)
(* pending.                                                                 *)
LoadInv ==
  /\ Tabled(stl)
  /\ j # 0 => i \in Facets(stl)
  /\ \A f \in Facets(stl), e \in Corner :
       stl.neighbor[f][e] = None /\ Behind(f, e) => Waiting(stl, f, e)

(* The edge the walk of stl_fill_holes is about to leave its facet across.  *)
Leaving ==
  LET turned == Turn(walk.vnot, walk.direction)
  IN  [facet |-> walk.facet_num, edge |-> turned.next_edge, direction |-> turned.direction]

(* Closing the holes: unconnected edges are pending and still ahead, and a  *)
(* walk has not turned back.                                                *)
CloseInv ==
  /\ Tabled(stl) /\ WaitingBut(stl, 0, {})
  /\ pc = "facet" => j = 0
  /\ \A f \in Facets(stl), e \in Corner : Behind(f, e) => stl.neighbor[f][e] # None
  /\ pc = "walk" => stl.neighbor[i][j] = None /\ OnTheWay(stl, i, j, Leaving)

AfterFilling ==
  {"reverse_all", "normal_directions", "normal_values", "volume", "reverse_negative",
   "shared_vertices", "done"}

(* The degenerate facets are removed before the holes are filled.  Then the *)
(* loops close the holes, the second one every edge it passes; afterwards   *)
(* nothing is unconnected.  No walk comes back to where it started.         *)
HolesInv ==
  /\ phase = "remove_unconnected" /\ pc = "degenerate" =>
       \A f \in Facets(stl) : f < i => ~ IsDegenerate(stl.facet_start[f])
  /\ phase = "remove_unconnected" /\ pc \in {"unconnected", "done"} => Proper(stl)
  /\ phase = "fill_holes" /\ pc = "test" /\ Called("fill_holes") => Proper(stl)
  /\ phase = "fill_holes" /\ pc = "start" => Proper(stl)
  /\ phase = "fill_holes" /\ pc = "load" => LoadInv
  /\ phase = "fill_holes" /\ pc \in {"facet", "edge", "walk"} => CloseInv
  /\ phase = "fill_holes" /\ pc = "done" => Whole(stl) /\ Proper(stl)
  /\ phase \in AfterFilling /\ Given({"fill_holes", "fixall"}) => Whole(stl)
  /\ ~ warned

(* The loop has passed one edge more when it advances.                      *)
LEMMA PassesOneEdge ==
  ASSUME i \in Nat, j \in Corner, j' = Next3(j), i' = IF j = 2 THEN i + 1 ELSE i
  PROVE  \A f \in Nat, e \in Corner : Behind(f, e)' => Behind(f, e) \/ (f = i /\ e = j)
<1>1. CASE j = 2
  BY <1>1 DEF Behind, Corner, Next3
<1>2. CASE j # 2
  BY <1>2 DEF Behind, Corner, Next3
<1>3. QED
  BY <1>1, <1>2

(* Before the first facet nothing is passed, after the last one everything. *)
LEMMA PassedAllOrNone ==
  ASSUME TypeInv
  PROVE  /\ Facets(stl) \subseteq Nat
         /\ i \notin Facets(stl) => \A f \in Facets(stl), e \in Corner : Behind(f, e)
         /\ i = 0 /\ j = 0 => \A f \in Facets(stl), e \in Corner : ~ Behind(f, e)
<1>1. stl.number_of_facets \in Nat /\ i \in Nat /\ Facets(stl) = 0 .. stl.number_of_facets - 1
  BY MaxFacetsAssumption DEF TypeInv, MeshTyped, StlFiles, Facets
<1>2. QED
  BY <1>1 DEF Behind, Corner

(* Pending edges that do not match are apart.                               *)
LEMMA TabledApart ==
  ASSUME NEW s \in StlFiles, Tabled(s), WaitingBut(s, 0, {})
  PROVE  Apart(s)
<1> SUFFICES ASSUME NEW f \in Facets(s), NEW g \in Facets(s), NEW e \in Corner, NEW d \in Corner,
                    s.neighbor[f][e] = None, s.neighbor[g][d] = None,
                    EndPoints(s, f, e) = EndPoints(s, g, d)
             PROVE  f = g /\ e = d
  BY DEF Apart
<1>1. PICK p \in s.heads : p.facet_number = f /\ p.which_edge % 3 = e
  BY DEF WaitingBut, Waiting, IsPending
<1>2. PICK q \in s.heads : q.facet_number = g /\ q.which_edge % 3 = d
  BY DEF WaitingBut, Waiting, IsPending
<1>3. p \in Edge /\ q \in Edge /\ IsEdgeOf(s, p) /\ IsEdgeOf(s, q) /\ Proper(s)
  BY DEF StlFiles, Tabled, KeysRight
<1>4. p.key = q.key
  <2>1. EndPoints(s, p.facet_number, p.which_edge % 3)
          = EndPoints(s, q.facet_number, q.which_edge % 3)
    BY <1>1, <1>2
  <2>2. QED
    BY <1>3, <2>1, KeysAreEndPoints
<1>5. p = q
  BY <1>4 DEF Tabled, KeysDistinct
<1>6. QED
  BY <1>1, <1>2, <1>5

-----------------------------------------------------------------------------
(****************************************************************************)
(* The steps of the filling of holes.                                       *)
(****************************************************************************)
(* An edge is loaded: it is pending, or matched with one that was.          *)
LEMMA LoadHoles ==
  ASSUME TypeInv, PendingInv, phase = "fill_holes", LoadInv, Fill!LoadUnconnected
  PROVE  LoadInv'
<1>1. /\ pc = "load" /\ i \in Facets(stl)
      /\ stl' = IF stl.neighbor[i][j] = None
                THEN InsertEdgeExact(stl, i, j, stl.facet_start[i]) ELSE stl
      /\ j' = Next3(j) /\ i' = IF j = 2 THEN i + 1 ELSE i
  BY FillOperators DEF Fill!LoadUnconnected, Fill!Unlinked, Fill!Advance
<1>2. /\ stl \in StlFiles /\ stl.shortest_edge \in Nat /\ j \in Corner /\ i \in Nat
      /\ Facets(stl) \subseteq Nat /\ Facets(stl) \subseteq Slot /\ None \notin Nat
  BY PassedAllOrNone, FacetsAreSlots, MaxFacetsAssumption DEF TypeInv, MeshTyped, None
<1>3. stl.neighbor[i][j] = None => FreeEdge(stl, i, j)
  <2>1. \A p \in stl.heads : Before(p)
    BY <1>1 DEF PendingInv
  <2>2. QED
    BY <1>1, <2>1, LoopAdvances
<1>4. Tabled(stl)
  BY DEF LoadInv
<1> DEFINE Loaded == /\ Tabled(stl') /\ stl'.number_of_facets = stl.number_of_facets
                     /\ \A f \in Facets(stl), e \in Corner :
                          stl'.neighbor[f][e] = None =>
                            /\ stl.neighbor[f][e] = None
                            /\ Waiting(stl, f, e) \/ (f = i /\ e = j) => Waiting(stl', f, e)
<1>5. ASSUME stl.neighbor[i][j] # None PROVE Loaded
  <2>1. stl' = stl
    BY <1>1, <1>5
  <2>2. QED
    BY <1>4, <1>5, <2>1
<1>6. ASSUME stl.neighbor[i][j] = None PROVE Loaded
  <2> DEFINE u == InsertEdgeExact(stl, i, j, stl.facet_start[i])
             Cases == /\ Tabled(u) /\ u.number_of_facets = stl.number_of_facets
                      /\ \A f \in Facets(stl), e \in Corner :
                           u.neighbor[f][e] = None =>
                             /\ stl.neighbor[f][e] = None
                             /\ Waiting(stl, f, e) \/ (f = i /\ e = j) => Waiting(u, f, e)
  <2>1. /\ Tabled(u) /\ u.number_of_facets = stl.number_of_facets
        /\ \/ LeftPending(stl, i, j, u)
           \/ \E g \in Facets(stl), d \in Corner : MatchedWith(stl, i, j, g, d, u)
    BY <1>1, <1>2, <1>3, <1>4, <1>6, InsertCases
  <2>2. stl' = u
    BY <1>1, <1>6
  <2> HIDE DEF u
  <2>3. ASSUME LeftPending(stl, i, j, u) PROVE Cases
    BY <2>1, <2>3 DEF LeftPending, Waiting
  <2>4. ASSUME NEW g \in Facets(stl), NEW d \in Corner, MatchedWith(stl, i, j, g, d, u)
        PROVE  Cases
    <3>1. i # None /\ g # None
      BY <1>1, <1>2
    <3>2. ASSUME NEW f \in Facets(stl), NEW e \in Corner, u.neighbor[f][e] = None
          PROVE  /\ ~ (f = i /\ e = j) /\ ~ (f = g /\ e = d) /\ stl.neighbor[f][e] = None
      BY <1>2, <2>4, <3>1, <3>2 DEF MatchedWith
    <3>3. QED
      BY <2>1, <2>4, <3>2 DEF MatchedWith
  <2>5. Cases
    BY <2>1, <2>3, <2>4
  <2>6. QED
    BY <2>2, <2>5
<1> HIDE DEF Loaded
<1>7. Loaded
  BY <1>5, <1>6
<1>8. Facets(stl') = Facets(stl)
  BY <1>7 DEF Loaded, Facets
<1>9. j' # 0 => i' \in Facets(stl')
  BY <1>1, <1>2, <1>8 DEF Next3, Corner
<1>10. \A f \in Facets(stl'), e \in Corner :
         stl'.neighbor[f][e] = None /\ Behind(f, e)' => Waiting(stl', f, e)
  <2> SUFFICES ASSUME NEW f \in Facets(stl), NEW e \in Corner, stl'.neighbor[f][e] = None,
                      Behind(f, e)'
               PROVE  Waiting(stl', f, e)
    BY <1>8
  <2>1. Behind(f, e) \/ (f = i /\ e = j)
    BY <1>1, <1>2, PassesOneEdge
  <2>2. Behind(f, e) /\ stl.neighbor[f][e] = None => Waiting(stl, f, e)
    BY DEF LoadInv
  <2>3. QED
    BY <1>7, <2>1, <2>2 DEF Loaded
<1>11. QED
  BY <1>7, <1>9, <1>10 DEF Loaded, LoadInv

(* The loops begin, with an empty table.                                    *)
LEMMA BeginHoles ==
  ASSUME TypeInv, Sound(stl), Proper(stl), Fill!Begin
  PROVE  LoadInv'
<1>1. stl' = [stl EXCEPT !.heads = {}] /\ i' = 0 /\ j' = 0 /\ stl \in StlFiles
  BY DEF Fill!Begin, TypeInv, MeshTyped
<1>2. /\ SameLinks(stl, stl') /\ stl'.facet_start = stl.facet_start /\ stl'.heads = {}
      /\ stl'.neighbor = stl.neighbor /\ stl'.number_of_facets = stl.number_of_facets
  BY <1>1 DEF SameLinks, StlFiles
<1>3. Facets(stl') = Facets(stl) /\ Facets(stl) \subseteq Nat
  BY <1>2, PassedAllOrNone DEF Facets
<1>4. Sound(stl')
  BY <1>2, SameLinksSound
<1>5. Tabled(stl')
  BY <1>2, <1>3, <1>4 DEF Tabled, Pending, KeysRight, KeysDistinct, Proper
<1>6. \A f \in Facets(stl'), e \in Corner : ~ Behind(f, e)'
  BY <1>1, <1>3 DEF Behind, Corner
<1>7. QED
  BY <1>1, <1>5, <1>6 DEF LoadInv

(* All edges are loaded: the unconnected ones are pending.                  *)
LEMMA EndLoadHoles ==
  ASSUME TypeInv, LoadInv, Fill!EndLoad
  PROVE  CloseInv'
<1>1. i \notin Facets(stl) /\ i' = 0 /\ stl' = stl /\ j' = j /\ pc' = "facet"
  BY FillOperators DEF Fill!EndLoad
<1>2. /\ Tabled(stl) /\ j = 0
      /\ \A f \in Facets(stl), e \in Corner :
           stl.neighbor[f][e] = None /\ Behind(f, e) => Waiting(stl, f, e)
  BY <1>1 DEF LoadInv
<1>3. /\ Facets(stl) \subseteq Nat
      /\ \A f \in Facets(stl), e \in Corner : Behind(f, e)
  BY <1>1, PassedAllOrNone
<1>4. WaitingBut(stl, 0, {})
  BY <1>2, <1>3 DEF WaitingBut
<1>5. \A f \in Facets(stl), e \in Corner : ~ Behind(f, e)'
  BY <1>1, <1>2, <1>3 DEF Behind, Corner
<1>6. QED
  BY <1>1, <1>2, <1>4, <1>5 DEF CloseInv

(* Every facet has had its turn: nothing is unconnected.                    *)
LEMMA FreeEdgesHoles ==
  ASSUME TypeInv, CloseInv, Fill!FreeEdges
  PROVE  Whole(stl') /\ Proper(stl')
<1>1. i \notin Facets(stl) /\ stl' = [stl EXCEPT !.heads = {}] /\ stl \in StlFiles
  BY FillOperators DEF Fill!FreeEdges, TypeInv, MeshTyped
<1>2. /\ stl'.facet_start = stl.facet_start
      /\ stl'.neighbor = stl.neighbor /\ stl'.number_of_facets = stl.number_of_facets
  BY <1>1 DEF StlFiles
<1>3. \A f \in Facets(stl), e \in Corner : stl.neighbor[f][e] # None
  BY <1>1, PassedAllOrNone DEF CloseInv
<1>4. QED
  BY <1>2, <1>3 DEF Whole, CloseInv, Tabled, Proper, Facets

(* Where the walk stands: the edge it is about to leave across.             *)
LEMMA LeavingEdge ==
  ASSUME TypeInv
  PROVE  /\ Leaving.facet = walk.facet_num /\ Leaving.edge = Fill!Turned.next_edge
         /\ Leaving.direction = Fill!Turned.direction
         /\ Leaving.edge \in Corner /\ Leaving.direction \in {0, 1} /\ Leaving.facet \in Slot
         /\ Fill!Across = stl.neighbor[Leaving.facet][Leaving.edge]
         /\ Over(stl, Leaving).facet = Fill!Across
<1>1. walk.facet_num \in Slot /\ walk.vnot \in 0 .. 5 /\ walk.direction \in {0, 1}
  BY DEF TypeInv, PassTyped
<1>2. Fill!Turned = Turn(walk.vnot, walk.direction)
  BY FillOperators DEF Fill!Turned
<1>3. Fill!Turned.next_edge \in Corner /\ Fill!Turned.direction \in {0, 1}
  BY <1>1, <1>2, TurnType
<1>4. QED
  BY <1>1, <1>2, <1>3 DEF Leaving, Over, Fill!Across

(* A walk that goes on does not come back to where it started.              *)
LEMMA WalkGoesOn ==
  ASSUME TypeInv, EdgesRight(stl), CloseInv, pc = "walk", Fill!Across # None
  PROVE  Fill!Across # i /\ OnTheWay(stl, i, j, Around(Over(stl, Leaving)))
<1>1. /\ stl \in StlFiles /\ Mutual(stl) /\ Proper(stl) /\ stl.neighbor[i][j] = None
      /\ OnTheWay(stl, i, j, Leaving)
  BY DEF CloseInv, Tabled, Sound, TypeInv, MeshTyped
<1>2. Linked(stl, Leaving) /\ Over(stl, Leaving).facet = Fill!Across
  BY LeavingEdge DEF Linked
<1>3. Over(stl, Leaving).facet # i /\ OnTheWay(stl, i, j, Around(Over(stl, Leaving)))
  BY <1>1, <1>2, WalkCrosses
<1>4. QED
  BY <1>2, <1>3

(* A walk begins, or goes on across an edge: it is about to leave across    *)
(* the next edge around the same corner.                                    *)
LEMMA LeavingNext ==
  ASSUME TypeInv, pc \in {"edge", "walk"}
  PROVE  /\ Fill!StartWalk => /\ Leaving' \in Darts(stl)
                              /\ (Leaving').facet = i /\ Around(Leaving').edge = j
         /\ Fill!CrossEdge => Leaving' = Around(Over(stl, Leaving))
<1>1. /\ stl \in StlFiles /\ i \in Facets(stl) /\ j \in Corner
  BY DEF TypeInv, MeshTyped
<1>2. ASSUME Fill!StartWalk
      PROVE  Leaving' \in Darts(stl) /\ (Leaving').facet = i /\ Around(Leaving').edge = j
  <2>1. PICK d \in {0, 1} : walk' = [facet_num |-> i, vnot |-> Prev3(j), direction |-> d]
    BY <1>2, FillOperators DEF Fill!StartWalk
  <2> DEFINE t == Turn(Prev3(j), d)
  <2>2. Leaving' = [facet |-> i, edge |-> t.next_edge, direction |-> t.direction]
    BY <2>1 DEF Leaving
  <2>3. /\ t.next_edge \in Corner /\ t.direction \in {0, 1}
        /\ (IF t.direction = 1 THEN Prev3(t.next_edge) ELSE Next3(t.next_edge)) = j
    BY <1>1, TurnsAround
  <2> HIDE DEF t
  <2>4. QED
    BY <1>1, <2>2, <2>3 DEF Darts, Around
<1>3. ASSUME Fill!CrossEdge PROVE Leaving' = Around(Over(stl, Leaving))
  <2> DEFINE w == stl.which_vertex_not[walk.facet_num][Fill!Turned.next_edge]
             d == Leaving.direction
             t == Turn(w, d)
             over == IF w < 3 THEN 1 - d ELSE d
  <2>1. walk' = [facet_num |-> Fill!Across, vnot |-> w, direction |-> d]
    BY <1>3, LeavingEdge, FillOperators DEF Fill!CrossEdge
  <2>2. w \in 0 .. 5 /\ d \in {0, 1}
    BY <1>1, LeavingEdge DEF StlFiles
  <2>3. Leaving' = [facet |-> Fill!Across, edge |-> t.next_edge, direction |-> t.direction]
    BY <2>1 DEF Leaving
  <2>4. /\ t.next_edge = IF over = 1 THEN Prev3(Next3(w)) ELSE Next3(Next3(w))
        /\ t.direction = 1 - over
    BY <2>2, TurnsAround
  <2>5. Over(stl, Leaving) = [facet |-> Fill!Across, edge |-> Next3(w), direction |-> over]
    BY LeavingEdge DEF Over
  <2> HIDE DEF w, d, t, over
  <2>6. QED
    BY <2>3, <2>4, <2>5 DEF Around
<1>4. QED
  BY <1>2, <1>3

(* The steps that leave the mesh as it is.                                  *)
LEMMA ScanHoles ==
  ASSUME TypeInv, EdgesRight(stl), CloseInv,
         Fill!ScanFacet \/ Fill!SkipEdge \/ Fill!StartWalk \/ Fill!CrossEdge
  PROVE  CloseInv'
<1>1. stl' = stl /\ pc \in {"facet", "edge", "walk"}
  BY DEF Fill!ScanFacet, Fill!SkipEdge, Fill!StartWalk, Fill!CrossEdge
<1>2. /\ stl \in StlFiles /\ j \in Corner /\ i \in Nat /\ Facets(stl) \subseteq Nat
      /\ pc \in {"edge", "walk"} => i \in Facets(stl)
  BY PassedAllOrNone, MaxFacetsAssumption DEF TypeInv, MeshTyped
<1>3. Tabled(stl') /\ WaitingBut(stl', 0, {})
  BY <1>1 DEF CloseInv
<1>4. \A f \in Facets(stl), e \in Corner : Behind(f, e) => stl.neighbor[f][e] # None
  BY DEF CloseInv
<1> DEFINE Passing ==
             \A f \in Facets(stl), e \in Corner : Behind(f, e)' => stl.neighbor[f][e] # None
           Led == pc' = "walk" => stl.neighbor[i'][j'] = None /\ OnTheWay(stl, i', j', Leaving')
           Result == Passing /\ Led /\ (pc' = "facet" => j' = 0)
<1>5. i' = i /\ j' = j => Passing
  BY <1>4 DEF Behind
<1>6. ASSUME Fill!ScanFacet PROVE Result
  BY <1>5, <1>6 DEF Fill!ScanFacet
<1>7. ASSUME Fill!SkipEdge PROVE Result
  <2>1. /\ pc = "edge" /\ stl.neighbor[i][j] # None
        /\ j' = Next3(j) /\ i' = IF j = 2 THEN i + 1 ELSE i
        /\ pc' = IF j = 2 THEN "facet" ELSE "edge"
    BY <1>7, FillOperators DEF Fill!SkipEdge, Fill!Unlinked, Fill!Advance
  <2>2. \A f \in Nat, e \in Corner : Behind(f, e)' => Behind(f, e) \/ (f = i /\ e = j)
    BY <1>2, <2>1, PassesOneEdge
  <2>3. Passing
    BY <1>2, <1>4, <2>1, <2>2
  <2>4. j = 2 => j' = 0
    BY <2>1 DEF Next3
  <2>5. QED
    BY <2>1, <2>3, <2>4
<1>8. ASSUME Fill!StartWalk PROVE Result
  <2>1. pc = "edge" /\ pc' = "walk" /\ i' = i /\ j' = j /\ stl.neighbor[i][j] = None
    BY <1>8, FillOperators DEF Fill!StartWalk, Fill!Unlinked
  <2>2. Leaving' \in Darts(stl) /\ (Leaving').facet = i /\ Around(Leaving').edge = j
    BY <1>8, <2>1, LeavingNext
  <2>3. OnTheWay(stl, i, j, Leaving')
    <3> DEFINE x == Leaving'
    <3>1. x \in Darts(stl) /\ x.facet = i /\ Around(x).edge = j
      BY <2>2
    <3> HIDE DEF x
    <3>2. OnTheWay(stl, i, j, x)
      BY <3>1, WalkBegins
    <3>3. QED
      BY <3>2 DEF x
  <2>4. QED
    BY <1>5, <2>1, <2>3
<1>9. ASSUME Fill!CrossEdge PROVE Result
  <2>1. pc = "walk" /\ pc' = "walk" /\ i' = i /\ j' = j /\ Fill!Across # None
    BY <1>9, FillOperators DEF Fill!CrossEdge
  <2>2. Leaving' = Around(Over(stl, Leaving))
    BY <1>9, <2>1, LeavingNext
  <2>3. OnTheWay(stl, i, j, Around(Over(stl, Leaving))) /\ stl.neighbor[i][j] = None
    BY <2>1, WalkGoesOn DEF CloseInv
  <2>4. QED
    BY <1>5, <2>1, <2>2, <2>3
<1> HIDE DEF Result, Passing, Walking
<1>10. Result
  BY <1>6, <1>7, <1>8, <1>9
<1>11. QED
  BY <1>1, <1>3, <1>10 DEF CloseInv, Result, Passing, Walking

(* A hole is closed by a facet that is not degenerate, and the edge is      *)
(* connected.                                                               *)
LEMMA CloseHoles ==
  ASSUME TypeInv, CloseInv, Fill!CloseHole
  PROVE  CloseInv'
<1> DEFINE t == [c \in Corner |-> <<stl.facet_start[i][j], stl.facet_start[i][Next3(j)],
                                    Fill!FarCorner>>[c + 1]]
           u == Fill!InsertFacetEdges(AddFacet(stl, t), stl.number_of_facets, t)
<1>1. /\ pc = "walk" /\ Fill!Across = None /\ HasRoom(stl) /\ stl' = u
      /\ j' = Next3(j) /\ i' = IF j = 2 THEN i + 1 ELSE i
      /\ pc' = IF j = 2 THEN "facet" ELSE "edge"
  BY FillOperators DEF Fill!CloseHole, Fill!Advance
<1>2. /\ stl \in StlFiles /\ stl.shortest_edge \in Nat /\ j \in Corner /\ i \in Facets(stl)
      /\ i \in Nat /\ Facets(stl) \subseteq Nat
      /\ walk.vnot \in 0 .. 5 /\ walk.direction \in {0, 1}
  BY <1>1, PassedAllOrNone DEF TypeInv, MeshTyped, PassTyped
<1>3. /\ Tabled(stl) /\ WaitingBut(stl, 0, {}) /\ Proper(stl) /\ stl.neighbor[i][j] = None
      /\ OnTheWay(stl, i, j, Leaving)
      /\ \A f \in Facets(stl), e \in Corner : Behind(f, e) => stl.neighbor[f][e] # None
  BY <1>1 DEF CloseInv, Tabled
<1>4. t \in Facet
  BY <1>1, ClosingFacetType
<1>5. /\ t[0] = stl.facet_start[i][j] /\ t[1] = stl.facet_start[i][Next3(j)]
      /\ t[2] = Fill!FarCorner
  BY DEF Corner
<1> HIDE DEF t
<1>6. Fill!FarCorner = FarEnd(stl, Leaving)
  <2>1. walk.vnot % 3 = IF Leaving.direction = 1 THEN Next3(Leaving.edge) ELSE Leaving.edge
    <3>1. /\ Leaving.edge = Turn(walk.vnot, walk.direction).next_edge
          /\ Leaving.direction = Turn(walk.vnot, walk.direction).direction
      BY DEF Leaving
    <3>2. QED
      BY <1>2, <3>1, TurnsAround
  <2>2. Leaving.facet = walk.facet_num
    BY LeavingEdge
  <2>3. QED
    BY <2>1, <2>2 DEF Fill!FarCorner, FarEnd
<1>7. FarEnd(stl, Leaving) \notin EndPoints(stl, i, j)
  <2>1. Apart(stl)
    BY <1>2, <1>3, TabledApart
  <2>2. ~ Linked(stl, Leaving)
    BY <1>1, LeavingEdge DEF Linked
  <2>3. QED
    BY <1>2, <1>3, <2>1, <2>2, WalkEnds
<1>8. ~ IsDegenerate(t)
  <2>1. Next3(j) \in Corner /\ Next3(j) # j
    BY <1>2, CornersInARow
  <2>2. t[0] # t[1]
    BY <1>2, <1>3, <1>5, <2>1, ProperCorners
  <2>3. t[2] \notin {t[0], t[1]}
    BY <1>5, <1>6, <1>7 DEF EndPoints
  <2>4. QED
    BY <2>2, <2>3 DEF IsDegenerate
<1>9. EndPoints(stl, i, j) = {t[0], t[1]}
  BY <1>5 DEF EndPoints
<1>10. /\ Tabled(u) /\ WaitingBut(u, 0, {})
       /\ LinksAdded(stl, u)
       /\ u.neighbor[i][j] # None
       /\ \A h \in Facets(u) \ Facets(stl) : h = stl.number_of_facets
  BY <1>1, <1>2, <1>3, <1>4, <1>8, <1>9, CloseHoleFills
<1> HIDE DEF u
<1>11. \A f \in Facets(u), e \in Corner : Behind(f, e)' => u.neighbor[f][e] # None
  <2> SUFFICES ASSUME NEW f \in Facets(u), NEW e \in Corner, Behind(f, e)'
               PROVE  u.neighbor[f][e] # None
    OBVIOUS
  <2>1. stl.number_of_facets \in Nat /\ i < stl.number_of_facets
    BY <1>2, MaxFacetsAssumption DEF StlFiles, Facets
  <2>2. f \in Nat
    BY <1>2, <1>10, <2>1
  <2>3. Behind(f, e) \/ (f = i /\ e = j)
    BY <1>1, <1>2, <2>2, PassesOneEdge
  <2>4. f \in Facets(stl)
    <3>1. f # stl.number_of_facets
      BY <1>2, <2>1, <2>2, <2>3 DEF Behind
    <3>2. QED
      BY <1>10, <3>1
  <2>5. QED
    BY <1>3, <1>10, <2>3, <2>4 DEF LinksAdded
<1>12. j = 2 => j' = 0
  BY <1>1 DEF Next3
<1>13. QED
  BY <1>1, <1>10, <1>11, <1>12 DEF CloseInv

(* Each step of the filling of holes.                                       *)
LEMMA FillHolesHoles ==
  ASSUME TypeInv, PendingInv, Sound(stl), EdgesRight(stl), HolesInv, FillHoles
  PROVE  HolesInv'
<1>1. phase = "fill_holes" /\ phase' = "fill_holes" /\ Fill!Next /\ options' = options
  BY DEF FillHoles, callVars
<1> DEFINE Result == /\ pc' = "load" => LoadInv'
                     /\ pc' \in {"facet", "edge", "walk"} => CloseInv'
                     /\ pc' = "done" => Whole(stl') /\ Proper(stl')
                     /\ pc' \notin {"test", "start"}
                     /\ warned' = warned
<1>2. ASSUME Fill!Begin PROVE Result
  <2>1. pc = "start" /\ pc' = "load" /\ warned' = warned
    BY <1>2 DEF Fill!Begin
  <2>2. Proper(stl)
    BY <1>1, <2>1 DEF HolesInv
  <2>3. LoadInv'
    BY <1>2, <2>2, BeginHoles
  <2>4. QED
    BY <2>1, <2>3
<1>3. ASSUME Fill!LoadUnconnected PROVE Result
  <2>1. pc = "load" /\ pc' = "load" /\ warned' = warned
    BY <1>3, FillOperators DEF Fill!LoadUnconnected, Fill!Advance
  <2>2. LoadInv
    BY <1>1, <2>1 DEF HolesInv
  <2>3. LoadInv'
    BY <1>1, <1>3, <2>2, LoadHoles
  <2>4. QED
    BY <2>1, <2>3
<1>4. ASSUME Fill!EndLoad PROVE Result
  <2>1. pc = "load" /\ pc' = "facet" /\ warned' = warned
    BY <1>4 DEF Fill!EndLoad
  <2>2. LoadInv
    BY <1>1, <2>1 DEF HolesInv
  <2>3. CloseInv'
    BY <1>4, <2>2, EndLoadHoles
  <2>4. QED
    BY <2>1, <2>3
<1>5. ASSUME Fill!ScanFacet \/ Fill!SkipEdge \/ Fill!StartWalk \/ Fill!CrossEdge PROVE Result
  <2>1. /\ pc \in {"facet", "edge", "walk"} /\ pc' \in {"facet", "edge", "walk"}
        /\ warned' = warned
    BY <1>5 DEF Fill!ScanFacet, Fill!SkipEdge, Fill!StartWalk, Fill!CrossEdge, Fill!Advance
  <2>2. CloseInv
    BY <1>1, <2>1 DEF HolesInv
  <2>3. CloseInv'
    BY <1>5, <2>2, ScanHoles
  <2>4. QED
    BY <2>1, <2>3
<1>6. ASSUME Fill!BackAtFirst PROVE Result
  <2>1. pc = "walk" /\ Fill!Across = i /\ i \in Nat
    BY <1>6, MaxFacetsAssumption DEF Fill!BackAtFirst, TypeInv, MeshTyped
  <2>2. Fill!Across # None
    BY <2>1 DEF None
  <2>3. CloseInv
    BY <1>1, <2>1 DEF HolesInv
  <2>4. QED
    BY <2>1, <2>2, <2>3, WalkGoesOn
<1>7. ASSUME Fill!CloseHole PROVE Result
  <2>1. pc = "walk" /\ pc' \in {"facet", "edge"} /\ warned' = warned
    BY <1>7 DEF Fill!CloseHole, Fill!Advance
  <2>2. CloseInv
    BY <1>1, <2>1 DEF HolesInv
  <2>3. CloseInv'
    BY <1>7, <2>2, CloseHoles
  <2>4. QED
    BY <2>1, <2>3
<1>8. ASSUME Fill!FreeEdges PROVE Result
  <2>1. pc = "facet" /\ pc' = "done" /\ warned' = warned
    BY <1>8 DEF Fill!FreeEdges
  <2>2. CloseInv
    BY <1>1, <2>1 DEF HolesInv
  <2>3. Whole(stl') /\ Proper(stl')
    BY <1>8, <2>2, FreeEdgesHoles
  <2>4. QED
    BY <2>1, <2>3
<1> HIDE DEF Result
<1>9. Result
  BY <1>1, <1>2, <1>3, <1>4, <1>5, <1>6, <1>7, <1>8 DEF Fill!Next
<1>10. QED
  BY <1>1, <1>9 DEF HolesInv, Result, AfterFilling

-----------------------------------------------------------------------------
(****************************************************************************)
(* The other passes.                                                        *)
(****************************************************************************)
(* The first loop of stl_remove_unconnected_facets looks at every facet, so *)
(* when it joins no neighbours no facet is degenerate, and the second one   *)
(* adds none.                                                               *)
LEMMA RemoveUnconnectedHoles ==
  ASSUME TypeInv, Sound(stl), HolesInv, RemoveUnconnected, ~ Remove!RemoveDegenerateFacet
  PROVE  HolesInv'
<1>1. /\ phase = "remove_unconnected" /\ phase' = "remove_unconnected" /\ warned' = warned
      /\ Remove!Next /\ ~ warned
  BY DEF RemoveUnconnected, callVars, HolesInv
<1>2. stl.number_of_facets \in Nat /\ i \in Nat /\ Facets(stl) = 0 .. stl.number_of_facets - 1
  BY MaxFacetsAssumption DEF TypeInv, MeshTyped, StlFiles, Facets
<1> DEFINE Result == /\ pc' = "degenerate" => \A f \in Facets(stl') :
                          f < i' => ~ IsDegenerate(stl'.facet_start[f])
                     /\ pc' \in {"unconnected", "done"} => Proper(stl')
<1>3. ASSUME Remove!Begin PROVE Result
  BY <1>2, <1>3 DEF Remove!Begin
<1>4. ASSUME Remove!KeepFacet PROVE Result
  <2>1. /\ i \in Facets(stl) /\ i' = i + 1 /\ stl' = stl /\ pc' = pc
        /\ \/ pc = "degenerate" /\ ~ IsDegenerate(stl.facet_start[i])
           \/ pc = "unconnected"
    BY <1>4, RemoveOperators DEF Remove!KeepFacet
  <2>2. \A f \in Facets(stl) : f < i + 1 => f < i \/ f = i
    BY <1>2
  <2>3. QED
    BY <1>1, <2>1, <2>2 DEF HolesInv
<1>5. ASSUME Remove!EndDegenerate PROVE Result
  <2>1. /\ pc = "degenerate" /\ pc' \in {"unconnected", "done"} /\ i \notin Facets(stl)
        /\ stl' = stl
    BY <1>5, RemoveOperators DEF Remove!EndDegenerate
  <2>2. \A f \in Facets(stl) : f < i
    BY <1>2, <2>1
  <2>3. QED
    BY <1>1, <2>1, <2>2 DEF HolesInv, Proper
<1>6. ASSUME Remove!RemoveUnconnectedFacet PROVE Result
  <2>1. pc = "unconnected" /\ pc' = "unconnected"
    BY <1>6 DEF Remove!RemoveUnconnectedFacet
  <2>2. Proper(stl)
    BY <1>1, <2>1 DEF HolesInv
  <2>3. QED
    BY <2>1, <2>2, RemoveUnconnectedLinks
<1>7. ASSUME Remove!EndUnconnected PROVE Result
  BY <1>1, <1>7 DEF Remove!EndUnconnected, HolesInv
<1> HIDE DEF Result
<1>8. Result
  BY <1>1, <1>3, <1>4, <1>5, <1>6, <1>7 DEF Remove!Next
<1>9. QED
  BY <1>1, <1>8 DEF HolesInv, Result, AfterFilling

(* A facet that is turned stays connected, and does not become degenerate.  *)
LEMMA ReverseFacetWhole ==
  ASSUME NEW s \in StlFiles, NEW f \in Slot
  PROVE  /\ Proper(s) => Proper(ReverseFacet(s, f))
         /\ Whole(s) => Whole(ReverseFacet(s, f))
<1> DEFINE t == ReverseFacet(s, f)
<1>1. /\ t.number_of_facets = s.number_of_facets
      /\ t.facet_start = [s.facet_start EXCEPT ![f] = SwapCorners(s.facet_start[f])]
      /\ t.neighbor = [s.neighbor EXCEPT ![f] = [s.neighbor[f] EXCEPT
                         ![1] = s.neighbor[f][2], ![2] = s.neighbor[f][1]]]
  BY ReverseFacetFields
<1> HIDE DEF t
<1>2. Facets(t) = Facets(s) /\ Facets(s) \subseteq Slot
  BY <1>1, FacetsAreSlots DEF Facets
<1>3. /\ s.facet_start \in [Slot -> Facet]
      /\ s.neighbor \in [Slot -> [Corner -> Slot \cup {None}]]
      /\ 0 \in Corner /\ 1 \in Corner /\ 2 \in Corner
  BY DEF StlFiles, Corner
<1>4. ASSUME Whole(s), NEW g \in Facets(t), NEW e \in Corner PROVE t.neighbor[g][e] # None
  <2>1. CASE g # f
    BY <1>1, <1>2, <1>3, <1>4, <2>1 DEF Whole
  <2>2. CASE g = f
    <3>1. t.neighbor[f] = [s.neighbor[f] EXCEPT ![1] = s.neighbor[f][2], ![2] = s.neighbor[f][1]]
      BY <1>1, <1>3
    <3>2. s.neighbor[f] \in [Corner -> Slot \cup {None}]
      BY <1>3
    <3>3. t.neighbor[f][e] \in {s.neighbor[f][e], s.neighbor[f][1], s.neighbor[f][2]}
      BY <3>1, <3>2
    <3>4. QED
      BY <1>2, <1>3, <1>4, <2>2, <3>3 DEF Whole
  <2>3. QED
    BY <2>1, <2>2
<1>5. ASSUME Proper(s) PROVE Proper(t)
  <2> SUFFICES ASSUME NEW g \in Facets(s) PROVE ~ IsDegenerate(t.facet_start[g])
    BY <1>2 DEF Proper
  <2>1. ~ IsDegenerate(s.facet_start[g])
    BY <1>5 DEF Proper
  <2>2. CASE g # f
    BY <1>1, <1>2, <1>3, <2>1, <2>2
  <2>3. CASE g = f
    <3>1. t.facet_start[g] = SwapCorners(s.facet_start[g])
      BY <1>1, <1>3, <2>3
    <3>2. s.facet_start[g] \in [Corner -> Vertex]
      BY <1>2, <1>3 DEF Facet
    <3>3. QED
      BY <1>3, <2>1, <3>1, <3>2 DEF SwapCorners, IsDegenerate
  <2>4. QED
    BY <2>2, <2>3
<1>6. QED
  BY <1>4, <1>5 DEF Whole, t

(* Each step of the passes that turn facets.                                *)
LEMMA FixDirectionsHoles ==
  ASSUME TypeInv, FixDirections
  PROVE  (Proper(stl) => Proper(stl')) /\ (Whole(stl) => Whole(stl'))
<1>1. Directions!FixDirections /\ stl \in StlFiles /\ j \in Corner /\ facet_num \in Slot
  BY DEF FixDirections, TypeInv, MeshTyped, PassTyped
<1>2. ASSUME NEW f \in Slot, Directions!StartPart(f)
      PROVE  (Proper(stl) => Proper(stl')) /\ (Whole(stl) => Whole(stl'))
  <2>1. stl' \in {stl, ReverseFacet(stl, f)}
    BY <1>2, DirectionsOperators DEF Directions!StartPart
  <2>2. QED
    BY <1>1, <2>1, ReverseFacetWhole
<1>3. CASE Directions!Begin
  <2>1. Directions!StartPart(0) /\ 0 \in Slot
    BY <1>3, MaxFacetsAssumption DEF Directions!Begin, Slot
  <2>2. QED
    BY <1>2, <2>1
<1>4. CASE Directions!NextPart
  <2>1. PICK f \in Facets(stl) : Directions!StartPart(f)
    BY <1>4, DirectionsOperators DEF Directions!NextPart
  <2>2. f \in Slot
    BY <1>1, FacetsAreSlots
  <2>3. QED
    BY <1>2, <2>1, <2>2
<1>5. CASE Directions!NextOfList \/ Directions!LastPart
  <2>1. stl' = stl
    BY <1>5 DEF Directions!NextOfList, Directions!LastPart
  <2>2. QED
    BY <2>1
<1>6. CASE Directions!SpreadAcrossEdge
  <2> DEFINE n == stl.neighbor[facet_num][j]
  <2>1. stl' = IF Directions!IsBackwards(facet_num, j) THEN ReverseFacet(stl, n) ELSE stl
    BY <1>6, DirectionsOperators DEF Directions!SpreadAcrossEdge
  <2>2. Directions!IsBackwards(facet_num, j) => n \in Slot
    <3>1. n \in Slot \cup {None}
      BY <1>1 DEF StlFiles
    <3>2. Directions!IsBackwards(facet_num, j) => n # None
      BY DirectionsOperators DEF Directions!IsBackwards
    <3>3. QED
      BY <3>1, <3>2
  <2> HIDE DEF n
  <2>3. QED
    BY <1>1, <2>1, <2>2, ReverseFacetWhole
<1>7. QED
  BY <1>1, <1>3, <1>4, <1>5, <1>6 DEF Directions!FixDirections

(* So does each step of a pass that turns every facet.                      *)
LEMMA ReverseAllHoles ==
  ASSUME TypeInv, ReverseAll
  PROVE  (Proper(stl) => Proper(stl')) /\ (Whole(stl) => Whole(stl'))
<1>1. Directions!ReverseAll /\ stl \in StlFiles
  BY DEF ReverseAll, TypeInv, MeshTyped
<1>2. CASE Directions!ReverseNext
  <2> DEFINE r == ReverseFacet(stl, i)
  <2>1. i \in Facets(stl) /\ stl' = ReverseWithNormal(stl, i)
    BY <1>2, DirectionsOperators DEF Directions!ReverseNext
  <2>2. i \in Slot
    BY <1>1, <2>1, FacetsAreSlots
  <2>3. r \in StlFiles /\ (Proper(stl) => Proper(r)) /\ (Whole(stl) => Whole(r))
    BY <1>1, <2>2, ReverseFacetFields, ReverseFacetWhole
  <2>4. PICK n : stl' = [r EXCEPT !.normal = n]
    BY <1>1, <2>1, <2>2, ReverseWithNormalFields
  <2> HIDE DEF r
  <2>5. /\ stl'.facet_start = r.facet_start /\ stl'.neighbor = r.neighbor
        /\ stl'.number_of_facets = r.number_of_facets
    BY <2>3, <2>4 DEF StlFiles
  <2>6. QED
    BY <2>3, <2>5 DEF Whole, Proper, Facets
<1>3. CASE ~ Directions!ReverseNext
  <2>1. stl' = stl
    BY <1>1, <1>3 DEF Directions!ReverseAll, Directions!BeginReverseAll, Directions!EndReverseAll
  <2>2. QED
    BY <2>1
<1>4. QED
  BY <1>2, <1>3

(* And what writes no links.                                                *)
LEMMA ValuesHoles ==
  ASSUME TypeInv, FixNormalValues \/ CalculateVolume \/ GenerateSharedVertices
  PROVE  (Proper(stl) => Proper(stl')) /\ (Whole(stl) => Whole(stl'))
<1>1. CASE FixNormalValues
  <2>1. PICK n : stl' = [stl EXCEPT !.normal = n]
    BY <1>1 DEF FixNormalValues, Values!FixNormalValues
  <2>2. /\ stl'.facet_start = stl.facet_start /\ stl'.neighbor = stl.neighbor
        /\ stl'.number_of_facets = stl.number_of_facets
    BY <2>1 DEF TypeInv, MeshTyped, StlFiles
  <2>3. QED
    BY <2>2 DEF Whole, Proper, Facets
<1>2. CASE CalculateVolume \/ GenerateSharedVertices
  <2>1. stl' = stl
    BY <1>2 DEF CalculateVolume, Values!CalculateVolume, GenerateSharedVertices, Shared!Next,
       Shared!Begin, Shared!StartTour, Shared!SkipCorner, Shared!CrossEdge, Shared!TurnBack,
       Shared!EndTour, Shared!Finish
  <2>2. QED
    BY <2>1
<1>3. QED
  BY <1>1, <1>2

(* The counter that lets stl_repair skip the filling of holes says that all *)
(* facets have three neighbours.                                            *)
LEMMA AllFacetsConnected ==
  ASSUME NEW s \in StlFiles, CountersAgree(s), s.connected_facets[3] >= s.number_of_facets
  PROVE  \A f \in Facets(s), e \in Corner : s.neighbor[f][e] # None
<1> DEFINE n == s.number_of_facets
           S == Facets(s)
           T == {f \in S : 3 - Unconnected(s, f) >= 3}
<1>1. n \in Nat /\ S = 0 .. n - 1 /\ n - 1 \in Int /\ 0 \in Int
  BY MaxFacetsAssumption DEF StlFiles, Facets
<1>2. s.connected_facets[3] = Cardinality(T)
  BY DEF CountersAgree
<1>3. T \in SUBSET S
  OBVIOUS
<1>4. \A f \in T : Unconnected(s, f) = 0
  BY UnconnectedType
<1>5. T = S
  <2>1. Cardinality(T) >= n
    BY <1>2
  <2> HIDE DEF T, n
  <2> DEFINE m == n - 1
  <2>2. m \in Int /\ 0 \in Int /\ S = 0 .. m
    BY <1>1
  <2> HIDE DEF S, m
  <2>3. /\ IsFiniteSet(0 .. m)
        /\ Cardinality(0 .. m) = IF 0 > m THEN 0 ELSE m - 0 + 1
    BY <2>2, FS_Interval
  <2>4. IsFiniteSet(S) /\ Cardinality(S) = n
    BY <1>1, <2>2, <2>3 DEF m
  <2>5. /\ IsFiniteSet(T)
        /\ Cardinality(T) <= Cardinality(S)
        /\ Cardinality(S) = Cardinality(T) => S = T
    BY <1>3, <2>4, FS_Subset
  <2>6. Cardinality(T) \in Nat
    BY <2>5, FS_CardinalityType
  <2>7. QED
    BY <1>1, <2>1, <2>4, <2>5, <2>6
<1>6. \A f \in S : Unconnected(s, f) = 0
  BY <1>4, <1>5
<1>7. \A f : Unconnected(s, f) = 0 => \A e \in Corner : s.neighbor[f][e] # None
  BY DEF Unconnected, Corner
<1>8. QED
  BY <1>6, <1>7

(* A mesh whose holes need not be filled has none.                          *)
LEMMA SkippedHoles ==
  ASSUME TypeInv, MeshInv, phase = "fill_holes",
         Given({"fill_holes", "fixall"}), ~ Called("fill_holes")
  PROVE  Whole(stl)
<1>1. ~ Unfinished
  BY DEF Called
<1>2. stl \in StlFiles /\ stl.connected_facets[3] \in Int /\ stl.number_of_facets \in Int
  BY MaxFacetsAssumption DEF TypeInv, MeshTyped, StlFiles
<1>3. stl.connected_facets[3] >= stl.number_of_facets
  BY <1>1, <1>2 DEF Unfinished
<1>4. CountersAgree(stl)
  BY DEF MeshInv, Sound
<1>5. QED
  BY <1>2, <1>3, <1>4, AllFacetsConnected DEF Whole

-----------------------------------------------------------------------------
(****************************************************************************)
(* The steps of stl_repair.                                                 *)
(****************************************************************************)
(* What stays true where no pass is in the middle of its work.              *)
LEMMA HolesBetween ==
  ASSUME pc' \in {"test", "start"}, ~ warned',
         phase' = "fill_holes" /\ (pc' = "test" => Called("fill_holes")') => Proper(stl'),
         phase' \in AfterFilling /\ Given({"fill_holes", "fixall"})' => Whole(stl')
  PROVE  HolesInv'
  BY DEF HolesInv

(* A call changes no mesh.                                                  *)
LEMMA CallHoles ==
  ASSUME HolesInv, Call
  PROVE  HolesInv'
<1>1. /\ pc = "test" /\ pc' = "start" /\ phase' = phase /\ stl' = stl /\ options' = options
      /\ warned' = warned /\ Called(phase)
  BY DEF Call
<1>2. /\ phase = "fill_holes" => Proper(stl)
      /\ phase \in AfterFilling /\ Given({"fill_holes", "fixall"}) => Whole(stl)
      /\ ~ warned
  BY <1>1 DEF HolesInv
<1>3. Given({"fill_holes", "fixall"})' = Given({"fill_holes", "fixall"})
  BY <1>1 DEF Given
<1>4. QED
  BY <1>1, <1>2, <1>3, HolesBetween

(* Holes are filled only after the degenerate facets are removed: the two   *)
(* are called under the same condition.                                     *)
LEMMA FilledAfterRemoval ==
  Called("fill_holes") => Called("remove_unconnected")
  BY DEF Called, Given

(* From one pass to the next: the removal has left no degenerate facet, the *)
(* filling no hole, and it is skipped only if there is none.                *)
LEMMA NextPassHoles ==
  ASSUME TypeInv, Idle, LinkInv, HolesInv, Skip \/ Return
  PROVE  HolesInv'
<1>1. /\ pc' = "test" /\ stl' = stl /\ options' = options /\ warned' = warned
      /\ phase \in Named /\ phase # "done" /\ MeshInv /\ ~ warned
      /\ Called("exact")
  BY PhaseNames DEF TypeInv, CallTyped, Idle, Skip, Return, meshVars, LinkInv, HolesInv
<1>2. Given({"fill_holes", "fixall"})' = Given({"fill_holes", "fixall"})
  BY <1>1 DEF Given
<1>3. Called("fill_holes")' => Called("fill_holes")
  BY <1>1 DEF Called, Given, Unfinished
<1>4. phase' = Following(phase) \/ (phase = "nearby" /\ phase' = phase)
  BY DEF Skip, Return
<1>5. phase' = "fill_holes" /\ Called("fill_holes") => Proper(stl)
  <2> SUFFICES ASSUME phase' = "fill_holes", Called("fill_holes") PROVE Proper(stl)
    OBVIOUS
  <2>1. phase = "remove_unconnected"
    BY <1>1, <1>4, FollowingPhases DEF Named
  <2>2. ~ Skip
    BY <2>1, FilledAfterRemoval DEF Skip
  <2>3. pc = "done"
    BY <2>2 DEF Return
  <2>4. QED
    BY <2>1, <2>3 DEF HolesInv
<1>6. phase' \in AfterFilling /\ Given({"fill_holes", "fixall"}) => Whole(stl)
  <2> SUFFICES ASSUME phase' \in AfterFilling, Given({"fill_holes", "fixall"})
               PROVE  Whole(stl)
    OBVIOUS
  <2>1. phase \in AfterFilling \/ phase = "fill_holes"
    BY <1>1, <1>4, FollowingPhases DEF Named, AfterFilling
  <2>2. CASE phase \in AfterFilling
    BY <2>2 DEF HolesInv
  <2>3. CASE phase = "fill_holes" /\ Skip
    BY <1>1, <2>3, SkippedHoles DEF Skip
  <2>4. CASE phase = "fill_holes" /\ Return
    BY <2>4 DEF HolesInv, Return
  <2>5. QED
    BY <2>1, <2>2, <2>3, <2>4
<1>7. QED
  BY <1>1, <1>2, <1>3, <1>5, <1>6, HolesBetween

(* Each step of a pass, when the nearby check prints no warning.            *)
LEMMA PassHoles ==
  ASSUME TypeInv, PendingInv, LinkInv, phase = "fill_holes" => EdgesRight(stl), ~ DegenerateJoined,
         CheckNearby => ~ warned', HolesInv, Pass
  PROVE  HolesInv'
<1>1. MeshInv /\ ~ warned
  BY DEF LinkInv, HolesInv
<1>2. CASE CheckExact
  <2>1. phase' = "exact" /\ warned' = warned
    BY <1>2 DEF CheckExact
  <2>2. QED
    BY <1>1, <2>1 DEF HolesInv, AfterFilling
<1>3. CASE CheckNearby
  <2>1. phase' = "nearby" /\ ~ warned'
    BY <1>3 DEF CheckNearby, callVars
  <2>2. QED
    BY <2>1 DEF HolesInv, AfterFilling
<1>4. CASE RemoveUnconnected
  <2>1. Sound(stl) /\ ~ Remove!RemoveDegenerateFacet
    BY <1>1, <1>4 DEF MeshInv, RemoveUnconnected, DegenerateJoined
  <2>2. QED
    BY <1>4, <2>1, RemoveUnconnectedHoles
<1>5. CASE FillHoles
  <2>1. Sound(stl) /\ EdgesRight(stl)
    BY <1>1, <1>5 DEF FillHoles, MeshInv
  <2>2. QED
    BY <1>5, <2>1, FillHolesHoles
<1>6. CASE FixDirections \/ ReverseAll \/ FixNormalValues \/ CalculateVolume
           \/ GenerateSharedVertices
  <2>1. /\ phase \in AfterFilling /\ phase' = phase /\ options' = options /\ warned' = warned
    BY <1>6 DEF FixDirections, ReverseAll, FixNormalValues, CalculateVolume,
       GenerateSharedVertices, callVars, AfterFilling
  <2>2. Given({"fill_holes", "fixall"})' = Given({"fill_holes", "fixall"})
    BY <2>1 DEF Given
  <2>3. Given({"fill_holes", "fixall"}) => Whole(stl)
    BY <2>1 DEF HolesInv
  <2>4. Whole(stl) => Whole(stl')
    BY <1>6, FixDirectionsHoles, ReverseAllHoles, ValuesHoles
  <2>5. QED
    BY <1>1, <2>1, <2>2, <2>3, <2>4 DEF HolesInv, AfterFilling
<1>7. QED
  BY <1>2, <1>3, <1>4, <1>5, <1>6 DEF Pass

(* The invariant of the holes, step by step.                                *)
LEMMA HolesInvStep ==
  ASSUME TypeInv, Idle, PendingInv, LinkInv, phase = "fill_holes" => EdgesRight(stl),
         ~ DegenerateJoined, CheckNearby => ~ warned', HolesInv, [Next]_vars
  PROVE  HolesInv'
<1>1. CASE Call
  BY <1>1, CallHoles
<1>2. CASE Pass
  BY <1>2, PassHoles
<1>3. CASE Skip \/ Return
  BY <1>3, NextPassHoles
<1>4. CASE Repaired \/ UNCHANGED vars
  <2>1. /\ stl' = stl /\ i' = i /\ j' = j /\ pc' = pc /\ phase' = phase /\ options' = options
        /\ walk' = walk /\ warned' = warned
    BY <1>4 DEF Repaired, vars, meshVars, fillVars, callVars
  <2>2. /\ Given({"fill_holes", "fixall"})' = Given({"fill_holes", "fixall"})
        /\ Called("fill_holes")' <=> Called("fill_holes")
    BY <2>1 DEF Given, Called, Unfinished
  <2>3. LoadInv' <=> LoadInv
    BY <2>1 DEF LoadInv, Behind
  <2>4. Leaving' = Leaving
    BY <2>1 DEF Leaving
  <2>5. CloseInv' <=> CloseInv
    BY <2>1, <2>4 DEF CloseInv, Behind
  <2>6. QED
    BY <2>1, <2>2, <2>3, <2>5 DEF HolesInv
<1>5. QED
  BY <1>1, <1>2, <1>3, <1>4 DEF Next

-----------------------------------------------------------------------------
(****************************************************************************)
(* Theorems about the holes.                                                *)
(****************************************************************************)
(* The passes Past("fill_holes") speaks of.                                 *)
LEMMA PastFilling ==
  ASSUME phase \in Named
  PROVE  Past("fill_holes") <=> phase \in AfterFilling
<1>1. DOMAIN Phases = 1 .. 11
  BY DEF Phases
<1>2. \A k \in 1 .. 11 : Phases[k] = "fill_holes" <=> k = 4
  BY DEF Phases
<1>3. PICK l \in 1 .. 11 : Phases[l] = phase /\ \A k \in 1 .. 11 : Phases[k] = phase => k = l
  BY DEF Named, Phases
<1>4. Past("fill_holes") <=> 4 < l
  BY <1>1, <1>2, <1>3 DEF Past
<1>5. 4 < l <=> phase \in AfterFilling
  BY <1>3 DEF Phases, AfterFilling
<1>6. QED
  BY <1>4, <1>5

(* What the invariant says of the properties.                               *)
LEMMA HolesInvImplies ==
  ASSUME TypeInv, HolesInv
  PROVE  HolesFilled /\ ~ warned
<1>1. phase \in Named
  BY PhaseNames DEF TypeInv, CallTyped
<1>2. Past("fill_holes") /\ Given({"fill_holes", "fixall"}) => Whole(stl)
  BY <1>1, PastFilling DEF HolesInv
<1>3. QED
  BY <1>2 DEF HolesFilled, Whole, HolesInv

(* The nearby check has not printed the warning about a Moebius facet.      *)
NearbyUnwarned == phase = "nearby" => ~ warned

(* The invariant of the holes, when the nearby check prints no warning and  *)
(* no neighbours of a degenerate facet are joined.                          *)
LEMMA HolesInvariant ==
  Spec /\ Called("exact") /\ [][~ DegenerateJoined]_vars /\ []NearbyUnwarned
  => [](TypeInv /\ HolesInv)
<1>1. Init => PendingInv /\ HolesInv
  BY DEF Init, PendingInv, HolesInv, AfterFilling
<1>2. TypeInv /\ PendingInv /\ [Next]_vars => PendingInv'
  BY PendingInvStep
<1> DEFINE Matched == warned \/ (SweepInv /\ MatchInv)
<1>3. /\ TypeInv /\ Idle /\ PendingInv /\ LinkInv /\ Matched /\ NearbyUnwarned' /\ HolesInv
      /\ [Next]_vars /\ [~ DegenerateJoined]_vars
      => HolesInv'
  <2> SUFFICES ASSUME TypeInv, Idle, PendingInv, LinkInv, Matched, NearbyUnwarned', HolesInv,
                      [Next]_vars, [~ DegenerateJoined]_vars
               PROVE  HolesInv'
    OBVIOUS
  <2>1. ~ DegenerateJoined
    BY JoinsAreSteps
  <2>2. phase = "fill_holes" => EdgesRight(stl)
    BY DEF HolesInv, MatchInv
  <2>3. CheckNearby => ~ warned'
    BY DEF CheckNearby, NearbyUnwarned
  <2>4. QED
    BY <2>1, <2>2, <2>3, HolesInvStep
<1>4. Spec /\ Called("exact") /\ [][~ DegenerateJoined]_vars => []Matched
  BY EdgesInvariant
<1> HIDE DEF Matched
<1>5. QED
  BY <1>1, <1>2, <1>3, <1>4, LinkInvariant, TypedInvariant, PTL DEF Spec

(* Without the nearby check no facet is degenerate after the exact check:   *)
(* the passes add none.                                                     *)
NoneDegenerate == phase # "exact" => Proper(stl)

(* Each step of a pass.                                                     *)
LEMMA PassNoneDegenerate ==
  ASSUME TypeInv, LinkInv, iteration = 0, NoneDegenerate, HolesInv', Pass
  PROVE  NoneDegenerate'
<1>1. MeshInv
  BY DEF LinkInv
<1>2. CASE CheckExact
  BY <1>2 DEF CheckExact, NoneDegenerate
<1>3. CASE CheckNearby
  <2>1. phase = "nearby" /\ pc # "test"
    BY <1>3 DEF CheckNearby, Nearby!Next, Nearby!Begin, Nearby!LoadFacet, Nearby!SkipEdge,
       Nearby!PendEdge, Nearby!MatchEdge, Nearby!ChangeVertex, Nearby!FinishMatch,
       Nearby!FreeEdges, Nearby!Loadable
  <2>2. QED
    BY <1>1, <2>1 DEF MeshInv
<1>4. CASE RemoveUnconnected
  <2>1. phase = "remove_unconnected" /\ Sound(stl) /\ Proper(stl)
    BY <1>1, <1>4 DEF RemoveUnconnected, MeshInv, NoneDegenerate
  <2>2. QED
    BY <1>4, <2>1, ProperNotJoined, RemoveUnconnectedLinks DEF NoneDegenerate
<1>5. CASE FillHoles
  <2>1. phase' = "fill_holes" /\ pc' \in {"load", "facet", "edge", "walk", "done"}
    BY <1>5 DEF FillHoles, callVars, Fill!Next, Fill!Begin, Fill!LoadUnconnected, Fill!EndLoad,
       Fill!ScanFacet, Fill!SkipEdge, Fill!StartWalk, Fill!CrossEdge, Fill!BackAtFirst,
       Fill!CloseHole, Fill!FreeEdges, Fill!Advance
  <2>2. QED
    BY <2>1 DEF HolesInv, LoadInv, CloseInv, Tabled, NoneDegenerate
<1>6. CASE FixDirections \/ ReverseAll \/ FixNormalValues \/ CalculateVolume
           \/ GenerateSharedVertices
  <2>1. phase # "exact"
    BY <1>6 DEF FixDirections, ReverseAll, FixNormalValues, CalculateVolume,
       GenerateSharedVertices
  <2>2. QED
    BY <1>6, <2>1, FixDirectionsHoles, ReverseAllHoles, ValuesHoles DEF NoneDegenerate
<1>7. QED
  BY <1>2, <1>3, <1>4, <1>5, <1>6 DEF Pass

(* Each step of stl_repair.                                                 *)
LEMMA NoneDegenerateStep ==
  ASSUME TypeInv, Idle, LinkInv, iteration = 0, NoneDegenerate, HolesInv', [Next]_vars
  PROVE  NoneDegenerate'
<1>1. CASE Call \/ Repaired \/ UNCHANGED vars
  BY <1>1 DEF Call, Repaired, vars, meshVars, callVars, NoneDegenerate
<1>2. CASE Skip \/ Return
  <2>1. stl' = stl /\ (Skip => phase # "exact") /\ (phase = "exact" /\ Return => pc = "done")
    BY <1>2 DEF Skip, Return, meshVars, LinkInv
  <2>2. phase = "exact" /\ Return => Proper(stl)
    BY <2>1, ExactDone DEF LinkInv
  <2>3. QED
    BY <1>2, <2>1, <2>2 DEF NoneDegenerate
<1>3. CASE Pass
  BY <1>3, PassNoneDegenerate
<1>4. QED
  BY <1>1, <1>2, <1>3 DEF Next

(* All this holds without the nearby check.                                 *)
LEMMA WithoutNearbyInvariant ==
  Spec /\ Called("exact") /\ WithoutNearby =>
    [](TypeInv /\ LinkInv /\ iteration = 0 /\ HolesInv /\ NoneDegenerate)
<1>1. Init => PendingInv /\ iteration = 0 /\ HolesInv /\ NoneDegenerate
  BY DEF Init, PendingInv, HolesInv, AfterFilling, NoneDegenerate
<1>2. TypeInv /\ PendingInv /\ [Next]_vars => PendingInv'
  BY PendingInvStep
<1>3. TypeInv /\ (WithoutNearby /\ iteration = 0) /\ [Next]_vars
      => (WithoutNearby /\ iteration = 0)'
  BY NoIteration
<1>4. TypeInv /\ Idle /\ PendingInv /\ iteration = 0 /\ LinkInv /\ [Next]_vars => LinkInv'
  BY LinkInvStep
<1>5. TypeInv /\ Idle /\ PendingInv /\ LinkInv /\ iteration = 0 /\ HolesInv /\ NoneDegenerate
      /\ [Next]_vars => HolesInv'
  <2> SUFFICES ASSUME TypeInv, Idle, PendingInv, LinkInv, iteration = 0, HolesInv,
                      NoneDegenerate, [Next]_vars
               PROVE  HolesInv'
    OBVIOUS
  <2>1. MeshInv
    BY DEF LinkInv
  <2>2. phase = "fill_holes" => EdgesRight(stl)
    BY <2>1 DEF MeshInv
  <2>3. ~ DegenerateJoined
    BY ProperNotJoined DEF NoneDegenerate, DegenerateJoined
  <2>4. ~ CheckNearby
    BY <2>1 DEF MeshInv, CheckNearby, Nearby!Next, Nearby!Begin, Nearby!LoadFacet,
       Nearby!SkipEdge, Nearby!PendEdge, Nearby!MatchEdge, Nearby!ChangeVertex,
       Nearby!FinishMatch, Nearby!FreeEdges, Nearby!Loadable
  <2>5. QED
    BY <2>2, <2>3, <2>4, HolesInvStep
<1>6. TypeInv /\ Idle /\ LinkInv /\ iteration = 0 /\ NoneDegenerate /\ HolesInv' /\ [Next]_vars
      => NoneDegenerate'
  BY NoneDegenerateStep
<1>7. QED
  BY <1>1, <1>2, <1>3, <1>4, <1>5, <1>6, LinkInvInit, TypedInvariant, PTL DEF Spec

(* The options do not change.                                               *)
LEMMA NeverCalled == ~ Called("exact") /\ [Next]_vars => ~ Called("exact")'
<1> SUFFICES ASSUME ~ Called("exact"), [Next]_vars PROVE ~ Called("exact")'
  OBVIOUS
<1>1. options' = options
  BY DEF Next, Call, Pass, Skip, Return, Repaired, CheckExact, CheckNearby, RemoveUnconnected,
         FillHoles, FixDirections, ReverseAll, FixNormalValues, CalculateVolume,
         GenerateSharedVertices, callVars, vars
<1>2. QED
  BY <1>1 DEF Called

(* Without an exact check the holes are not to be filled.                   *)
LEMMA FillingNotAsked == Spec /\ ~ Called("exact") => [](HolesFilled /\ NoDegenerateLeft)
<1>1. ~ Called("exact") => HolesFilled /\ NoDegenerateLeft
  <2> SUFFICES ASSUME ~ Called("exact") PROVE HolesFilled /\ NoDegenerateLeft
    OBVIOUS
  <2>1. options.flags \ {"reverse_all", "normal_values", "generate_shared_vertices"} = {}
    BY DEF Called
  <2>2. ~ Given({"fill_holes", "fixall"})
    BY <2>1 DEF Given
  <2>3. QED
    BY <2>2 DEF HolesFilled, NoDegenerateLeft
<1>2. QED
  BY <1>1, NeverCalled, PTL DEF Spec

(* When the nearby check has printed no warning, and no neighbours of a     *)
(* degenerate facet were joined, the filling of holes leaves no edge        *)
(* unconnected, as the documentation promises: the edges that matched are   *)
(* connected first, so the walk from an unconnected edge reaches another    *)
(* end of the hole, and the triangle put there matches all edges it meets.  *)
(* No walk comes back to the facet it started from, so stl_fill_holes       *)
(* prints no warning either.                                                *)
THEOREM HolesAreFilled ==
  Spec /\ [][~ DegenerateJoined]_vars /\ []NearbyUnwarned => []HolesFilled
<1>1. TypeInv /\ HolesInv => HolesFilled
  BY HolesInvImplies
<1>2. QED
  BY <1>1, HolesInvariant, FillingNotAsked, PTL

(* Without the nearby check no condition is needed.                         *)
THEOREM HolesFilledWithoutNearby == Spec /\ WithoutNearby => []HolesFilled
<1>1. TypeInv /\ HolesInv => HolesFilled
  BY HolesInvImplies
<1>2. QED
  BY <1>1, WithoutNearbyInvariant, FillingNotAsked, PTL

(* And no triangle the filling adds is degenerate, nor any facet.           *)
THEOREM NoneLeftDegenerate == Spec /\ WithoutNearby => []NoDegenerateLeft
<1>1. TypeInv /\ NoneDegenerate => NoDegenerateLeft
  <2> SUFFICES ASSUME TypeInv, NoneDegenerate PROVE NoDegenerateLeft
    OBVIOUS
  <2>1. phase \in Named
    BY PhaseNames DEF TypeInv, CallTyped
  <2>2. Past("fill_holes") => Proper(stl)
    BY <2>1, PastFilling DEF NoneDegenerate, AfterFilling
  <2>3. QED
    BY <2>2 DEF NoDegenerateLeft, Proper
<1>2. QED
  BY <1>1, WithoutNearbyInvariant, FillingNotAsked, PTL

(* Without the nearby check no walk comes back to the facet it started      *)
(* from, so the warning about a Moebius facet is never printed and all      *)
(* neighbours share their edges.                                            *)
THEOREM NeverWarned ==
  Spec /\ Called("exact") /\ WithoutNearby => [](~ warned /\ EdgesMatchUnlessWarned)
<1>1. TypeInv /\ HolesInv => ~ warned
  BY HolesInvImplies
<1>2. QED
  BY <1>1, WithoutNearbyInvariant, SoundWithoutNearby, PTL

=============================================================================
