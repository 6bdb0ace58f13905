---------------------------- MODULE SharedVertices ----------------------------
(****************************************************************************)
(* stl_generate_shared_vertices (shared.c), which the OFF and VRML writers   *)
(* need: every corner is given the index of a shared vertex, by walking     *)
(* around the vertex from the first corner without an index, first one way, *)
(* and the other way if an unconnected edge stops the walk.  One step per   *)
(* facet of a walk; pc runs from "start" to "done".                         *)
(****************************************************************************)
EXTENDS MeshProperties

VARIABLES
  stl,
  i, j,
  pc,
  v_indices,  \* the index of each corner, None if it has none yet
  v_shared,   \* the shared vertices; index n is v_shared[n + 1]
  tour        \* facet_num, vnot, direction and reversed of the walk

Begin ==
  /\ pc = "start"
  /\ v_indices' = [f \in Slot |-> [c \in Corner |-> None]]
  /\ v_shared' = <<>>
  /\ i' = 0
  /\ j' = 0
  /\ pc' = "corner"
  /\ UNCHANGED <<stl, tour>>

NextCorner ==
  /\ j' = Next3(j)
  /\ i' = IF j = 2 THEN i + 1 ELSE i
  /\ pc' = "corner"

SkipCorner ==
  /\ pc = "corner"
  /\ i \in Facets(stl)
  /\ v_indices[i][j] # None
  /\ NextCorner
  /\ UNCHANGED <<stl, v_indices, v_shared, tour>>

StartTour ==
  /\ pc = "corner"
  /\ i \in Facets(stl)
  /\ v_indices[i][j] = None
  /\ v_shared' = Append(v_shared, stl.facet_start[i][j])
  /\ tour' = [facet_num |-> i, vnot |-> Prev3(j), direction |-> 0, reversed |-> FALSE]
  /\ pc' = "tour"
  /\ UNCHANGED <<stl, i, j, v_indices>>

Turned == Turn(tour.vnot, tour.direction)
Across == stl.neighbor[tour.facet_num][Turned.next_edge]

(* The corner the walk turns around gets the index of the walk.             *)
IndexPivot ==
  v_indices' = [v_indices EXCEPT ![tour.facet_num][Turned.pivot_vertex] = Len(v_shared) - 1]

CrossEdge ==
  /\ pc = "tour"
  /\ Across \notin {None, i}
  /\ IndexPivot
  /\ tour' = [tour EXCEPT
       !.facet_num = Across,
       !.vnot      = stl.which_vertex_not[tour.facet_num][Turned.next_edge],
       !.direction = Turned.direction]
  /\ UNCHANGED <<stl, i, j, pc, v_shared>>

(* Mutation of TurnBack: the walk goes the other way around the next corner. *)
TurnBackPastCorner ==
  /\ pc = "tour"
  /\ Across = None
  /\ ~ tour.reversed
  /\ IndexPivot
  /\ tour' = [facet_num |-> i, vnot |-> Prev3(j), direction |-> 1, reversed |-> TRUE]
  /\ UNCHANGED <<stl, i, j, pc, v_shared>>

(* An unconnected edge: back to the first facet, and the other way around.  *)
TurnBack ==
  /\ pc = "tour"
  /\ Across = None
  /\ ~ tour.reversed
  /\ IndexPivot
  /\ tour' = [facet_num |-> i, vnot |-> Next3(j), direction |-> 1, reversed |-> TRUE]
  /\ UNCHANGED <<stl, i, j, pc, v_shared>>

(* Back at the first facet, or unconnected on both sides.                   *)
EndTour ==
  /\ pc = "tour"
  /\ Across = i \/ (Across = None /\ tour.reversed)
  /\ IndexPivot
  /\ NextCorner
  /\ UNCHANGED <<stl, v_shared, tour>>

Finish ==
  /\ pc = "corner"
  /\ i \notin Facets(stl)
  /\ pc' = "done"
  /\ UNCHANGED <<stl, i, j, v_indices, v_shared, tour>>

Next ==
  \/ Begin \/ SkipCorner \/ StartTour \/ CrossEdge \/ TurnBack \/ EndTour \/ Finish

=============================================================================
