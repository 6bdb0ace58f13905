--------------------------- MODULE NormalDirections ---------------------------
(****************************************************************************)
(* stl_fix_normal_directions and stl_reverse_all_facets (normals.c): the    *)
(* first spreads the orientation of one facet to its whole part, through a  *)
(* list used as a stack, part after part; the second turns every facet.     *)
(****************************************************************************)
EXTENDS FacetNormals

VARIABLES
  stl,
  i, j,
  pc,
  facet_num,       \* the facet whose neighbours are looked at
  list,            \* head->next ... : the facets to go on from
  norm_sw,         \* the facets marked as fixed
  checked,
  number_of_parts

(* The part goes on from facet f, reversed first if its normal is           *)
(* backwards.  In an empty mesh row 0 is not the mesh's, and may hold       *)
(* anything.                                                                *)
StartPart(f) ==
  /\ \E backwards \in IF f \in Facets(stl) THEN {BackwardsNormal(stl, f)} ELSE BOOLEAN :
       stl' = IF backwards THEN ReverseFacet(stl, f) ELSE stl
  /\ facet_num' = f
  /\ pc' = "spread"

-----------------------------------------------------------------------------
(* Facet 0 is taken for granted, even if there is none: the rows of the     *)
(* arrays are there.                                                        *)
Begin ==
  /\ pc = "start"
  /\ StartPart(0)
  /\ j' = 0
  /\ list' = <<>>
  /\ norm_sw' = {0}
  /\ checked' = 1
  /\ UNCHANGED <<i, number_of_parts>>

(* Mutation of IsBackwards: off by one.                                     *)
IsBackwardsPastThree(f, e) ==
  stl.which_vertex_not[f][e] > 3 /\ stl.neighbor[f][e] # None

IsBackwards(f, e) ==
  stl.which_vertex_not[f][e] > 2 /\ stl.neighbor[f][e] # None

(* The neighbour on edge j is reversed if it is oriented oppositely, fixed  *)
(* or not, and put on the list if it is not fixed.                          *)
SpreadAcrossEdge ==
  /\ pc = "spread"
  /\ LET n == stl.neighbor[facet_num][j]
         turned == IF IsBackwards(facet_num, j) THEN ReverseFacet(stl, n) ELSE stl
         m == turned.neighbor[facet_num][j]
     IN  /\ stl' = turned
         /\ list' = IF m # None /\ m \notin norm_sw THEN <<m>> \o list ELSE list
  /\ j' = Next3(j)
  /\ pc' = IF j = 2 THEN "next" ELSE "spread"
  /\ UNCHANGED <<i, facet_num, norm_sw, checked, number_of_parts>>

NextOfList ==
  /\ pc = "next"
  /\ list # <<>>
  /\ facet_num' = Head(list)
  /\ list' = Tail(list)
  /\ norm_sw' = norm_sw \cup {Head(list)}
  /\ checked' = IF Head(list) \in norm_sw THEN checked ELSE checked + 1
  /\ pc' = "spread"
  /\ UNCHANGED <<stl, i, j, number_of_parts>>

NextPart ==
  /\ pc = "next"
  /\ list = <<>>
  /\ checked < stl.number_of_facets
  /\ number_of_parts' = number_of_parts + 1
  /\ \E f \in Facets(stl) \ norm_sw :
       /\ \A g \in Facets(stl) \ norm_sw : f <= g
       /\ StartPart(f)
       /\ norm_sw' = norm_sw \cup {f}
  /\ checked' = checked + 1
  /\ UNCHANGED <<i, j, list>>

(* Mutation of LastPart: the last part is not counted.                      *)
LastPartUncounted ==
  /\ pc = "next"
  /\ list = <<>>
  /\ checked >= stl.number_of_facets
  /\ pc' = "done"
  /\ UNCHANGED <<stl, i, j, facet_num, list, norm_sw, checked, number_of_parts>>

LastPart ==
  /\ pc = "next"
  /\ list = <<>>
  /\ checked >= stl.number_of_facets
  /\ number_of_parts' = number_of_parts + 1
  /\ pc' = "done"
  /\ UNCHANGED <<stl, i, j, facet_num, list, norm_sw, checked>>

FixDirections == Begin \/ SpreadAcrossEdge \/ NextOfList \/ NextPart \/ LastPart

-----------------------------------------------------------------------------
BeginReverseAll ==
  /\ pc = "start"
  /\ i' = 0
  /\ pc' = "reverse"
  /\ UNCHANGED <<stl, j, facet_num, list, norm_sw, checked, number_of_parts>>

ReverseNext ==
  /\ pc = "reverse"
  /\ i \in Facets(stl)
  /\ stl' = ReverseWithNormal(stl, i)
  /\ i' = i + 1
  /\ UNCHANGED <<j, pc, facet_num, list, norm_sw, checked, number_of_parts>>

EndReverseAll ==
  /\ pc = "reverse"
  /\ i \notin Facets(stl)
  /\ pc' = "done"
  /\ UNCHANGED <<stl, i, j, facet_num, list, norm_sw, checked, number_of_parts>>

ReverseAll == BeginReverseAll \/ ReverseNext \/ EndReverseAll

=============================================================================
