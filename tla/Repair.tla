-------------------------------- MODULE Repair --------------------------------
(****************************************************************************)
(* stl_repair (util.c) as main of admesh.c calls it on an opened file: the  *)
(* passes one after another on the same structure, each run or skipped by   *)
(* the command line's flags and by the counters the earlier ones left.      *)
(*                                                                          *)
(* Then main generates the shared vertices if they are to be written.       *)
(*                                                                          *)
(* Left out: the surface, and the final verification, which is the property *)
(* EdgesMatchUnlessWarned.                                                  *)
(****************************************************************************)
EXTENDS FacetNormals
LOCAL Sets == INSTANCE FiniteSetsExt

CONSTANTS
  Inputs,   \* the files read: a sequence of facets, and the normal of each row
  Options   \* the command lines

Flag == {"fixall", "exact", "nearby", "remove_unconnected", "fill_holes",
         "normal_directions", "normal_values", "reverse_all", "generate_shared_vertices"}

Meshes == {input.facets : input \in Inputs}

ASSUME InputsAssumption ==
  \A input \in Inputs :
    /\ input.facets \in Seq(Facet) /\ Len(input.facets) <= MaxFacets
    /\ input.normals \in [Slot -> Point]

(* tolerance is None when the option is not given.                          *)
ASSUME OptionsAssumption ==
  \A o \in Options :
    /\ o.flags \subseteq Flag
    /\ o.tolerance \in Nat \cup {None}
    /\ o.increment \in Nat
    /\ o.iterations \in Nat

VARIABLES
  options, phase, iteration,
  stl, i, j, pc, file,               \* common to the passes
  tolerance, facet, walks,           \* FacetCheckNearby
  initial, walk,                     \* FillHoles
  warned,                            \* both of these
  facet_num, list, norm_sw, checked, number_of_parts, \* NormalDirections
  volume,                            \* NormalValues
  v_indices, v_shared, tour          \* SharedVertices

meshVars      == <<stl, i, j, pc>>
nearbyVars    == <<facet, walks>>
fillVars      == <<initial, walk>>
directionVars == <<facet_num, list, norm_sw, checked, number_of_parts>>
sharedVars    == <<v_indices, v_shared, tour>>
callVars      == <<options, phase, iteration, file, tolerance>>
vars == <<meshVars, nearbyVars, fillVars, directionVars, volume, sharedVars, callVars, warned>>

Exact      == INSTANCE FacetCheckExact WITH Inputs <- Meshes
Nearby     == INSTANCE FacetCheckNearby
Remove     == INSTANCE UnconnectedFacets
Fill       == INSTANCE FillHoles
Directions == INSTANCE NormalDirections
Values     == INSTANCE NormalValues
Shared     == INSTANCE SharedVertices

(* The order of the passes in stl_repair and main.                          *)
Phases == <<"exact", "nearby", "remove_unconnected", "fill_holes", "reverse_all",
            "normal_directions", "normal_values", "volume", "reverse_negative",
            "shared_vertices", "done">>

Following(p) == CHOOSE q \in {Phases[k] : k \in 2 .. Len(Phases)} :
                  \E k \in 1 .. Len(Phases) - 1 : Phases[k] = p /\ Phases[k + 1] = q

Given(flags) == options.flags \cap flags # {}

Unfinished == stl.connected_facets[3] < stl.number_of_facets

(* The condition under which the pass p is called.                          *)
Called(p) ==
  CASE p = "exact" -> options.flags \ {"reverse_all", "normal_values",
                                       "generate_shared_vertices"} # {}
    [] p = "nearby"     -> /\ Given({"nearby", "fixall"})
                           /\ Unfinished
                           /\ iteration < options.iterations
    [] p = "remove_unconnected" ->
         Given({"remove_unconnected", "fixall", "fill_holes"}) /\ Unfinished
    [] p = "fill_holes"  -> Given({"fill_holes", "fixall"}) /\ Unfinished
    [] p = "reverse_all" -> Given({"reverse_all"})
    [] p = "normal_directions" -> Given({"normal_directions", "fixall"})
    [] p = "normal_values" -> Given({"normal_values", "fixall"})
    [] p = "volume"        -> TRUE
    [] p = "reverse_negative" -> Given({"fixall"}) /\ volume # <<>> /\ volume[1] < 0
    [] p = "shared_vertices"  -> Given({"generate_shared_vertices"})
    [] OTHER -> FALSE

Init ==
  /\ options \in Options
  /\ \E input \in Inputs : /\ file = input.facets
                            /\ stl = StlOpen(input.facets, input.normals)
  /\ phase = "exact"
  /\ pc = "test"
  /\ iteration = 0 /\ i = 0 /\ j = 0
  /\ tolerance = 0
  /\ facet = [c \in Corner |-> CHOOSE v \in Vertex : TRUE]
  /\ walks = <<>>
  /\ initial = [e \in Corner |-> None]
  /\ walk = [facet_num |-> 0, vnot |-> 0, direction |-> 0]
  /\ facet_num = 0 /\ list = <<>> /\ norm_sw = {} /\ checked = 0
  /\ number_of_parts = 0
  /\ volume = <<>>
  /\ v_indices = [f \in Slot |-> [c \in Corner |-> None]]
  /\ v_shared = <<>>
  /\ tour = [facet_num |-> 0, vnot |-> 0, direction |-> 0, reversed |-> FALSE]
  /\ warned = FALSE

(* Mutation of Call: the calls of the nearby check are not counted.         *)
CallUncounted ==
  /\ pc = "test"
  /\ Called(phase)
  /\ pc' = "start"
  /\ tolerance' = IF phase # "nearby" THEN tolerance
                  ELSE IF options.tolerance = None THEN stl.shortest_edge
                  ELSE options.tolerance
  /\ UNCHANGED <<options, phase, iteration, file, stl, i, j,
                 nearbyVars, fillVars, directionVars, volume, sharedVars, warned>>

(* The tolerance of the first nearby check is the option or the shortest    *)
(* edge; that of the next ones grows.                                       *)
Call ==
  /\ pc = "test"
  /\ Called(phase)
  /\ pc' = "start"
  /\ IF phase = "nearby"
     THEN /\ iteration' = iteration + 1
          /\ tolerance' = IF iteration > 0 THEN tolerance + options.increment
                          ELSE IF options.tolerance = None THEN stl.shortest_edge
                          ELSE options.tolerance
     ELSE UNCHANGED <<iteration, tolerance>>
  /\ UNCHANGED <<options, phase, file, stl, i, j, nearbyVars, fillVars, directionVars, volume,
                 sharedVars, warned>>

Skip ==
  /\ pc = "test"
  /\ phase # "done"
  /\ ~ Called(phase)
  /\ phase' = Following(phase)
  /\ UNCHANGED <<meshVars, nearbyVars, fillVars, directionVars, volume, sharedVars,
                 options, iteration, file, tolerance, warned>>

(* Mutation of Return: the volume keeps its sign.                           *)
ReturnSigned ==
  /\ pc = "done"
  /\ pc' = "test"
  /\ phase' = IF phase = "nearby" THEN phase ELSE Following(phase)
  /\ UNCHANGED <<stl, i, j, nearbyVars, fillVars, directionVars, volume, sharedVars,
                 options, iteration, file, tolerance, warned>>

(* A pass has returned.  The nearby check may be called again; when the     *)
(* facets have been reversed because the volume is negative, it is negated. *)
Return ==
  /\ pc = "done"
  /\ pc' = "test"
  /\ phase' = IF phase = "nearby" THEN phase ELSE Following(phase)
  /\ volume' = IF phase = "reverse_negative" THEN <<- volume[1]>> ELSE volume
  /\ UNCHANGED <<stl, i, j, nearbyVars, fillVars, directionVars, sharedVars,
                 options, iteration, file, tolerance, warned>>

CheckExact ==
  /\ phase = "exact"
  /\ Exact!Initialize \/ Exact!RemoveDegenerateFacet \/ Exact!InsertEdge \/ Exact!FreeEdges
  /\ UNCHANGED <<nearbyVars, fillVars, directionVars, volume, sharedVars,
                 options, phase, iteration, tolerance, warned>>

CheckNearby ==
  /\ phase = "nearby"
  /\ Nearby!Next
  /\ UNCHANGED <<fillVars, directionVars, volume, sharedVars, options, phase, iteration>>

RemoveUnconnected ==
  /\ phase = "remove_unconnected"
  /\ Remove!Next
  /\ UNCHANGED <<j, nearbyVars, fillVars, directionVars, volume, sharedVars, callVars, warned>>

FillHoles ==
  /\ phase = "fill_holes"
  /\ Fill!Next
  /\ UNCHANGED <<nearbyVars, directionVars, volume, sharedVars, callVars>>

FixDirections ==
  /\ phase = "normal_directions"
  /\ Directions!FixDirections
  /\ UNCHANGED <<nearbyVars, fillVars, volume, sharedVars, callVars, warned>>

ReverseAll ==
  /\ phase \in {"reverse_all", "reverse_negative"}
  /\ Directions!ReverseAll
  /\ UNCHANGED <<nearbyVars, fillVars, volume, sharedVars, callVars, warned>>

FixNormalValues ==
  /\ phase = "normal_values"
  /\ Values!FixNormalValues
  /\ UNCHANGED <<i, j, nearbyVars, fillVars, directionVars, sharedVars, callVars, warned>>

CalculateVolume ==
  /\ phase = "volume"
  /\ Values!CalculateVolume
  /\ UNCHANGED <<i, j, nearbyVars, fillVars, directionVars, sharedVars, callVars, warned>>

GenerateSharedVertices ==
  /\ phase = "shared_vertices"
  /\ Shared!Next
  /\ UNCHANGED <<nearbyVars, fillVars, directionVars, volume, callVars, warned>>

Repaired ==
  /\ phase = "done"
  /\ UNCHANGED vars

Pass ==
  \/ CheckExact \/ CheckNearby \/ RemoveUnconnected \/ FillHoles
  \/ FixDirections \/ ReverseAll \/ FixNormalValues \/ CalculateVolume
  \/ GenerateSharedVertices

Next == Call \/ Pass \/ Skip \/ Return \/ Repaired

Spec == Init /\ [][Next]_vars

(* stl_repair is sequential code, which runs until it returns: weak fairness *)
(* of Next, ENABLED written as "not returned".                              *)
FairSpec == Spec /\ ([]<>(phase = "done") \/ []<><<Next>>_vars)

-----------------------------------------------------------------------------
(****************************************************************************)
(* Properties.                                                              *)
(****************************************************************************)
TypeOK ==
  /\ options \in Options
  /\ phase \in {Phases[k] : k \in DOMAIN Phases}
  /\ stl \in StlFiles
  /\ file \in Seq(Facet)
  /\ i \in 0 .. MaxFacets /\ j \in Corner
  /\ iteration \in 0 .. options.iterations
  /\ tolerance \in Nat
  /\ facet \in Facet
  /\ \A k \in DOMAIN walks : /\ {walks[k].first, walks[k].facet_num} \subseteq Slot
                            /\ walks[k].vnot \in 0 .. 5
                            /\ walks[k].direction \in {0, 1}
                            /\ walks[k].vertex \in Vertex
  /\ initial \in [Corner -> Slot \cup {None}]
  /\ walk \in [facet_num : Slot, vnot : 0 .. 5, direction : {0, 1}]
  /\ warned \in BOOLEAN
  /\ facet_num \in Slot
  /\ list \in Seq(Slot) /\ norm_sw \subseteq Slot /\ checked \in Nat
  /\ number_of_parts \in Nat
  /\ volume \in Seq(Int) /\ Len(volume) <= 1
  /\ v_indices \in [Slot -> [Corner -> Nat \cup {None}]]
  /\ v_shared \in Seq(Vertex)
  /\ tour \in [facet_num : Slot, vnot : 0 .. 5, direction : {0, 1}, reversed : BOOLEAN]

Between == pc = "test" /\ phase # "exact"   \* from one pass to the next
Past(p) == \E k, l \in DOMAIN Phases : Phases[k] = p /\ Phases[l] = phase /\ k < l

(* The neighbour list stays symmetric through the passes, step by step,     *)
(* although each of them updates the two sides of a link by arithmetic on   *)
(* which_vertex_not (stl_record_neighbors, stl_reverse_facet).              *)
LinksMutual == phase # "exact" => Mutual(stl)

(* When a pass has returned, two neighbours share their edge, as            *)
(* stl_verify_neighbors tests at the end: the walks that moved the corners  *)
(* reached every facet around them, unless a walk came back to the facet it *)
(* started from and the warning about it was printed.                       *)
EdgesMatchUnlessWarned ==
  Between /\ ~ warned =>
    \A f \in Facets(stl), e \in Corner : EdgeMatches(stl, f, e)

(* The counters that decide which passes stl_repair calls, and that are     *)
(* printed, count what the neighbour list holds.                            *)
CountersExact == Between => CountersAgree(stl)

(* Once connected, an edge keeps its neighbour through the nearby check and *)
(* the filling of holes: no pending edge that matches later is one that was *)
(* connected in the meantime.                                               *)
KeepsLink(f, e) ==
  stl.neighbor[f][e] # None =>
    /\ stl'.neighbor[f][e] = stl.neighbor[f][e]
    /\ stl'.which_vertex_not[f][e] = stl.which_vertex_not[f][e]

LinksKept ==
  [][(phase \in {"nearby", "fill_holes"}) =>
       \A f \in Facets(stl), e \in Corner : KeepsLink(f, e)]_vars

(* The nearby check moves no corner out of its cell of the grid, so no      *)
(* farther than the tolerance along each axis, however many walks move it;  *)
(* and the keys of the pending edges stay right.                            *)
CornersKeepCells ==
  [][phase = "nearby" =>
       \A f \in Facets(stl), c \in Corner :
         Nearby!Cell(stl'.facet_start[f][c]) = Nearby!Cell(stl.facet_start[f][c])]_vars

(* When the holes have been filled every edge has a neighbour               *)
(* (admesh-doc.txt: "guaranteed to completely completely fix all            *)
(* unconnected facets").                                                    *)
HolesFilled ==
  Past("fill_holes") /\ Given({"fill_holes", "fixall"}) =>
    \A f \in Facets(stl), e \in Corner : stl.neighbor[f][e] # None

(* No facet is degenerate when the holes have been filled: the exact check  *)
(* removes those of the file and filling adds none.  Those the nearby check *)
(* creates are to be removed too (connect.c, on                             *)
(* stl_remove_unconnected_facets), but stl_repair may skip that pass.       *)
NoDegenerateLeft ==
  Past("fill_holes") /\ Given({"fill_holes", "fixall"}) =>
    \A f \in Facets(stl) : ~ IsDegenerate(stl.facet_start[f])

(* Some choice of facets to reverse makes all neighbours agree.             *)
Orientable ==
  \E reversed \in SUBSET Facets(stl) : \A f \in Facets(stl), e \in Corner :
    LET g == stl.neighbor[f][e]
    IN  g # None =>
          ((f \in reversed) = (g \in reversed)) = (stl.which_vertex_not[f][e] < 3)

(* After the directions are fixed no edge is backwards, unless no choice of *)
(* directions makes it so (admesh-doc.txt, "Backwards edges": otherwise a   *)
(* mobius part has been created).                                           *)
DirectionsAgree ==
  Between /\ Past("normal_directions") /\ Given({"normal_directions", "fixall"})
  /\ Orientable =>
    \A f \in Facets(stl), e \in Corner :
      stl.neighbor[f][e] # None => stl.which_vertex_not[f][e] < 3

(* The parts of a mesh: the smallest sets of facets closed under            *)
(* neighbourhood.                                                           *)
Closed(S) == \A f \in S, e \in Corner : stl.neighbor[f][e] \in S \cup {None}
IsPart(S) ==
  S # {} /\ Closed(S) /\ \A T \in (SUBSET S) \ {{}, S} : ~ Closed(T)

(* The number of parts printed is the number of connected parts of the mesh, *)
(* however the list of facets to visit, where a facet may stand several     *)
(* times, was worked off.  (An empty mesh counts as one part.)              *)
PartsCounted ==
  Past("normal_directions") /\ Given({"normal_directions", "fixall"})
  /\ stl.number_of_facets > 0 =>
    number_of_parts = Cardinality({S \in SUBSET Facets(stl) : IsPart(S)})

(* When the normal values have been checked every stored normal is right,   *)
(* also after facets are reversed because the volume is negative            *)
(* (admesh-doc.txt: "will point outward for a counterclockwise facet").     *)
NormalsRight ==
  Past("normal_values") /\ Given({"normal_values", "fixall"}) =>
    \A f \in Facets(stl) : RightNormal(stl, f)

(* The mesh with the facets in S turned: neighbours agree and every facet   *)
(* has the side its stored normal says.                                     *)
AgreesWithNormals(S) ==
  \A f \in Facets(stl) :
    /\ IF f \in S THEN BackwardsNormal(stl, f) ELSE RightNormal(stl, f)
    /\ \A e \in Corner :
         stl.neighbor[f][e] # None =>
           ((f \in S) = (stl.neighbor[f][e] \in S)) = (stl.which_vertex_not[f][e] < 3)

(* A mesh whose normals are consistent gets the directions they say: each   *)
(* part is turned as its first facet says, and nothing is turned if the     *)
(* normals were right (admesh-doc.txt: "tries to get a clue of which        *)
(* direction is inside and outside by checking the value of the normal").   *)
DirectionsFollowNormals ==
  phase = "normal_values" /\ pc = "test" /\ Given({"normal_directions", "fixall"})
  /\ (\E S \in SUBSET Facets(stl) : AgreesWithNormals(S)) =>
    AgreesWithNormals({})

(* The edges of the mesh are all connected, to neighbours that agree.       *)
Solid ==
  /\ \A f \in Facets(stl), e \in Corner :
       stl.neighbor[f][e] # None /\ stl.which_vertex_not[f][e] < 3
  /\ ~ warned

(* Six times the volume the facets enclose, by their signed tetrahedra from *)
(* the origin.                                                              *)
Enclosed ==
  Sets!MapThenSumSet(LAMBDA f : Dot(stl.facet_start[f][0],
                               Cross(stl.facet_start[f][1], stl.facet_start[f][2])),
                Facets(stl))

(* The volume printed for a solid whose normals have been checked is the    *)
(* one its facets enclose, whichever point it is measured from and however  *)
(* the facets were reversed; by default it is not negative (util.c, "because *)
(* volume is negative").                                                    *)
VolumeEnclosed ==
  Past("reverse_negative") /\ Given({"normal_values", "fixall"}) /\ Solid =>
    /\ volume = <<Enclosed>>
    /\ Given({"fixall"}) => volume[1] >= 0

(* The facets are reversed, and the vertices walked around, only along the  *)
(* links of a check, if anything is to be checked (admesh-doc.txt: "An      *)
(* exact check is always done before any of the other checking and          *)
(* repairing options even if --exact isn't specified").                     *)
ExactCheckDone ==
  phase \in {"reverse_all", "shared_vertices"} /\ pc # "test"
  /\ options.flags \ {"normal_values", "generate_shared_vertices"} # {} =>
    Mutual(stl)

(* Two corners have the same index exactly if the walks around a vertex     *)
(* connect them: the corners on both sides of a connected edge share their  *)
(* indices, the vertex of the index is the corner, no index is skipped, and *)
(* no two fans of facets share one.                                         *)
FanClosed(C) ==
  \A f \in Facets(stl), e \in Corner :
    LET g    == stl.neighbor[f][e]
        vnot == stl.which_vertex_not[f][e]
        \* the corners of g at the start and at the end of edge e of f
        start == IF vnot < 3 THEN Prev3(vnot) ELSE Next3(vnot)
        end   == IF vnot < 3 THEN Next3(vnot) ELSE Prev3(vnot)
    IN  g # None =>
          /\ (<<f, e>> \in C) = (<<g, start>> \in C)
          /\ (<<f, Next3(e)>> \in C) = (<<g, end>> \in C)

Indexed(n) == {c \in Facets(stl) \X Corner : v_indices[c[1]][c[2]] = n}

SharedVerticesExact ==
  phase = "done" /\ Given({"generate_shared_vertices"})
  /\ Past("exact") /\ Called("exact") /\ ~ warned =>
    /\ \A n \in 0 .. Len(v_shared) - 1 :
         /\ Indexed(n) # {}
         /\ FanClosed(Indexed(n))
         /\ \A C \in SUBSET Indexed(n) : FanClosed(C) => C \in {{}, Indexed(n)}
         /\ \A c \in Indexed(n) : stl.facet_start[c[1]][c[2]] = v_shared[n + 1]
    /\ UNION {Indexed(n) : n \in 0 .. Len(v_shared) - 1} = Facets(stl) \X Corner

(* The repair ends, whatever the mesh: no walk around a vertex goes round   *)
(* forever, also in a mesh whose links an earlier pass left inconsistent,   *)
(* and no loop that tests the same row again after a removal.               *)
Termination == <>(phase = "done")

=============================================================================
