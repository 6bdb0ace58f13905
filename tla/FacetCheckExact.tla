--------------------------- MODULE FacetCheckExact ---------------------------
(****************************************************************************)
(* stl_check_facets_exact (connect.c): builds the neighbour list of a mesh  *)
(* by matching edges with identical end points, removing the degenerate     *)
(* facets on the way.  One step per facet removed and per edge inserted.    *)
(****************************************************************************)
EXTENDS MeshProperties

CONSTANT Inputs   \* the meshes, as sequences of facets, the check is run on

ASSUME InputsAssumption ==
  Inputs \subseteq {file \in Seq(Facet) : Len(file) <= MaxFacets}

VARIABLES
  stl,    \* the mesh and its neighbour list
  i, j,   \* the loop variables: the facet and the edge to load next
  pc,     \* "start", "facet" inside the loop, "done"
  file    \* what was read; no step changes it

vars == <<stl, i, j, pc, file>>

TypeOK ==
  /\ stl \in StlFiles
  /\ i \in 0 .. MaxFacets
  /\ j \in Corner
  /\ pc \in {"start", "facet", "done"}
  /\ file \in Inputs

(* The check does not read the normals.                                     *)
NoNormals == [f \in Slot |-> Zero]

Init ==
  /\ file \in Inputs
  /\ stl = StlOpen(file, NoNormals)
  /\ i = 0
  /\ j = 0
  /\ pc = "start"

(* The counters are zeroed and stl_initialize_facet_check_exact marks every *)
(* edge of every facet unconnected.                                         *)
Initialize ==
  /\ pc = "start"
  /\ stl' = [stl EXCEPT
       !.connected_edges  = 0,
       !.connected_facets = [k \in 1 .. 3 |-> 0],
       !.neighbor = [f \in Slot |-> IF f \in Facets(stl) THEN [e \in Corner |-> None]
                                    ELSE @[f]],
       !.heads = {}]
  /\ pc' = "facet"
  /\ UNCHANGED <<i, j, file>>

(* The facet under test has two equal corners: it goes, and the facet moved *)
(* to its row is tested next.                                               *)
RemoveDegenerateFacet ==
  /\ pc = "facet"
  /\ i \in Facets(stl)
  /\ IsDegenerate(stl.facet_start[i])
  /\ stl' = RemoveFacet([stl EXCEPT !.degenerate_facets = @ + 1], i)
  /\ UNCHANGED <<i, j, pc, file>>

(* Mutation of InsertEdge: the loop goes back to the facet it has loaded.   *)
InsertEdgeAgain ==
  /\ pc = "facet"
  /\ i \in Facets(stl)
  /\ ~ IsDegenerate(stl.facet_start[i])
  /\ stl' = InsertEdgeExact(stl, i, j, stl.facet_start[i])
  /\ j' = Next3(j)
  /\ UNCHANGED <<i, pc, file>>

(* Edge j of facet i is loaded and matched with a pending edge or left      *)
(* pending.                                                                 *)
InsertEdge ==
  /\ pc = "facet"
  /\ i \in Facets(stl)
  /\ ~ IsDegenerate(stl.facet_start[i])
  /\ stl' = InsertEdgeExact(stl, i, j, stl.facet_start[i])
  /\ j' = Next3(j)
  /\ i' = IF j = 2 THEN i + 1 ELSE i
  /\ UNCHANGED <<pc, file>>

(* Past the last facet: the edges still pending are freed.                  *)
FreeEdges ==
  /\ pc = "facet"
  /\ i \notin Facets(stl)
  /\ stl' = [stl EXCEPT !.heads = {}]
  /\ pc' = "done"
  /\ UNCHANGED <<i, j, file>>

(* The function has returned.                                               *)
Returned ==
  /\ pc = "done"
  /\ UNCHANGED vars

Next == Initialize \/ RemoveDegenerateFacet \/ InsertEdge \/ FreeEdges \/ Returned

Spec == Init /\ [][Next]_vars

(* The check is sequential code, which runs until it returns: this is weak  *)
(* fairness of Next, ENABLED written as "not returned" (deadlock checking   *)
(* shows that some action is enabled until then).                           *)
FairSpec == Spec /\ ([]<>(pc = "done") \/ []<><<Next>>_vars)

-----------------------------------------------------------------------------
(****************************************************************************)
(* Properties.                                                              *)
(****************************************************************************)
Checked == pc \in {"facet", "done"}    \* the neighbour list is meaningful

(* Edge e of facet f has been through the table.                            *)
Loaded(f, e) == f < i \/ (f = i /\ e < j)

(* The neighbour list is symmetric: the facet across an edge names this     *)
(* facet across the same edge, and both agree on the relative orientation.  *)
(* stl_remove_facet, the walks around a vertex and the direction fix follow *)
(* these links in both ways.                                                *)
NeighborsMutual ==
  Checked => Mutual(stl)

(* Two facets are neighbours only across an edge with the same two end      *)
(* points, run through in the directions which_vertex_not says: what        *)
(* stl_verify_neighbors tests when the repair is over.                      *)
EdgesMatch ==
  Checked => \A f \in Facets(stl), e \in Corner : EdgeMatches(stl, f, e)

(* No match is missed: once the check is over, an edge left unconnected has *)
(* no unconnected counterpart in another facet, whichever facets were       *)
(* removed and moved meanwhile.                                             *)
NoMatchMissed ==
  pc = "done" =>
    \A f, g \in Facets(stl), e, d \in Corner :
      /\ f # g
      /\ stl.neighbor[f][e] = None
      /\ stl.neighbor[g][d] = None
      => EndPoints(stl, f, e) # EndPoints(stl, g, d)

(* The statistics printed by stl_stats_out, and tested by stl_repair to     *)
(* decide which passes to run, count what the neighbour list holds.         *)
CountersExact ==
  Checked =>
    /\ CountersAgree(stl)
    /\ stl.connected_edges = Cardinality(ConnectedEdges(stl))

(* The check takes the degenerate facets out and leaves every other facet   *)
(* as it was read, although removal moves facets about: each facet occurs   *)
(* as often in the mesh as it did in the file.                              *)
OnlyDegenerateRemoved ==
  LET occurs(t) == Cardinality({f \in Facets(stl) : stl.facet_start[f] = t})
      read(t)   == Cardinality({k \in DOMAIN file : file[k] = t})
      gone      == Len(file) - stl.number_of_facets
  IN  pc = "done" =>
        /\ \A k \in DOMAIN file :
             occurs(file[k]) = IF IsDegenerate(file[k]) THEN 0 ELSE read(file[k])
        /\ stl.degenerate_facets = gone
        /\ stl.facets_removed = gone

(* The check ends, although removing a facet makes it test the same row     *)
(* again.                                                                   *)
Termination == <>(pc = "done")

(****************************************************************************)
(* The check implements EdgeMatching: seen from the pairs of end points, it *)
(* takes the edges of the facets that are not degenerate one at a time.     *)
(* Freeing the table, removing a degenerate facet and moving the last facet *)
(* into its row change nothing there.                                       *)
(****************************************************************************)
Segments == {{a, b} : a, b \in Vertex}

EdgesOn(s) == {edge \in Facets(stl) \X Corner : EndPoints(stl, edge[1], edge[2]) = s}

NotTaken(s) ==
  {edge \in EdgesOn(s) : ~ Loaded(edge[1], edge[2]) /\ ~ IsDegenerate(stl.facet_start[edge[1]])}

Matching == INSTANCE EdgeMatching WITH
  Segment  <- Segments,
  left     <- [s \in Segments |-> Cardinality(NotTaken(s))],
  waiting  <- [s \in Segments |->
                Cardinality({edge \in EdgesOn(s) : /\ Loaded(edge[1], edge[2])
                                                   /\ stl.neighbor[edge[1]][edge[2]] = None})],
  joined   <- [s \in Segments |->
                Cardinality({edge \in EdgesOn(s) : /\ Loaded(edge[1], edge[2])
                                                   /\ stl.neighbor[edge[1]][edge[2]] # None})
                \div 2],
  finished <- pc = "done"

(* Whatever the order of the facets in the file and whichever of them are   *)
(* removed and moved on the way, the check takes each edge once, joins two  *)
(* edges as soon as both have been taken, and never parts or joins others.  *)
EdgesMatched == Matching!Spec

(* The tolerance the nearby check starts from is the least extent of an     *)
(* edge of the mesh: the greatest of its differences along the three axes.  *)
(* The document calls it the length of the shortest edge (admesh-doc.txt:   *)
(* "The default value for tolerance is the length of the shortest edge of   *)
(* the mesh"); it is that only if this edge lies along an axis.  Otherwise  *)
(* it is less, though not less than the length divided by the root of 3,    *)
(* and no edge is shorter.  The search for it starts in one function and    *)
(* goes on in another.  Not if the first facet of the file is degenerate:   *)
(* it starts from an edge of that.                                          *)
ShortestEdgeExact ==
  pc = "done" /\ file # <<>> /\ ~ IsDegenerate(file[1]) =>
    LET edges == Facets(stl) \X Corner
        diff(edge, axis) == Diff(stl.facet_start[edge[1]][edge[2]],
                                 stl.facet_start[edge[1]][Next3(edge[2])], axis)
        square(edge) == diff(edge, 1) * diff(edge, 1) + diff(edge, 2) * diff(edge, 2)
                        + diff(edge, 3) * diff(edge, 3)
        tolerance == stl.shortest_edge
    IN  /\ \E edge \in edges : \A axis \in 1 .. 3 : diff(edge, axis) <= tolerance
        /\ \E edge \in edges : square(edge) <= 3 * tolerance * tolerance
        /\ \A edge \in edges : \E axis \in 1 .. 3 : tolerance <= diff(edge, axis)
        /\ \A edge \in edges : tolerance * tolerance <= square(edge)

-----------------------------------------------------------------------------
(****************************************************************************)
(* The inductive invariant behind the safety properties.                    *)
(****************************************************************************)
(* The facets ahead of the loop are unconnected, so that removing one of    *)
(* them, and moving another into its row, leaves no link astray; those      *)
(* behind it are not degenerate.                                            *)
LoopProgress ==
  /\ j # 0 => pc = "facet" /\ i \in Facets(stl)
  /\ \A f \in Facets(stl), e \in Corner :
       IF Loaded(f, e)
       THEN ~ IsDegenerate(stl.facet_start[f])
       ELSE Checked => stl.neighbor[f][e] = None

(* The table holds the loaded edges that have no neighbour yet, as they are *)
(* in the mesh, and no two with the same key.                               *)
PendingExact ==
  /\ pc = "start" => i = 0 /\ j = 0
  /\ pc = "facet" =>
       /\ \A p \in stl.heads :
            /\ IsEdgeOf(stl, p)
            /\ Loaded(p.facet_number, p.which_edge % 3)
            /\ stl.neighbor[p.facet_number][p.which_edge % 3] = None
       /\ \A f \in Facets(stl), e \in Corner :
            Loaded(f, e) /\ stl.neighbor[f][e] = None =>
              \E p \in stl.heads : p.facet_number = f /\ p.which_edge % 3 = e
       /\ \A p, q \in stl.heads : p.key = q.key => p = q

IInv ==
  /\ TypeOK
  /\ LoopProgress
  /\ PendingExact
  /\ NeighborsMutual
  /\ EdgesMatch
  /\ NoMatchMissed

=============================================================================
