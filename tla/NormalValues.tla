----------------------------- MODULE NormalValues -----------------------------
(****************************************************************************)
(* stl_fix_normal_values (normals.c) and stl_calculate_volume (util.c): two *)
(* loops over the facets that look at one facet at a time, each a step.     *)
(****************************************************************************)
EXTENDS FacetNormals

VARIABLES
  stl,
  pc,
  volume   \* stats.volume: <<six times the volume>>, or <<>>

(* stl_check_normal_vector with normal_fix_flag: every normal is set.       *)
FixNormalValues ==
  /\ pc = "start"
  /\ stl' = [stl EXCEPT !.normal =
       [f \in Slot |-> IF f \in Facets(stl) THEN FacetNormal(stl.facet_start[f]) ELSE @[f]]]
  /\ pc' = "done"
  /\ UNCHANGED volume

CalculateVolume ==
  /\ pc = "start"
  /\ volume' = Volume(stl)
  /\ pc' = "done"
  /\ UNCHANGED stl

=============================================================================
