# TLA+ specifications of tessellator and its mesh repair

`tessellator` reads a STEP or STL file, has OpenCascade tessellate it, and hands
the raw STL to ADMesh (`tex.exe`, built from `admesh-master/`), which repairs it.
These modules model the repair, all of ADMesh around it but the texts it prints,
the program that calls it, and both command lines; TLC checks them on small
instances. TLAPS proves, for every set of meshes, the exact check safe and an
implementation of an abstract matching of edges; types and normals right through the
whole repair; links, counters, filled holes, directions and shared vertices right for
every mesh when no nearby check is made, and after one under the conditions section 4
names; that ADMesh keeps its dimensions and writes whole outputs for any files and
options, where the links it follows are set; and the program and its command line for
any number of runs. Paths below are relative to the source tree.

## 1. Inventory

| Component | Source | State | Operations | Module |
|---|---|---|---|---|
| Mesh structure | `stl.h`, `connect.c` | `stl_file`: facets, neighbour list, hash table, statistics | load and insert an edge, record neighbours, remove and add a facet, turn around a vertex | `StlFile`, `MeshProperties` |
| Exact check | `connect.c` | the loop over facets and edges | `stl_check_facets_exact` | `FacetCheckExact` |
| Nearby check | `connect.c` | the copy of a facet, pending walks | `stl_check_facets_nearby`, `stl_change_vertices` | `FacetCheckNearby` |
| Removal of unconnected facets | `connect.c` | the two loops | `stl_remove_unconnected_facets`, `stl_remove_degenerate` | `UnconnectedFacets` |
| Hole filling | `connect.c` | the walk along a hole | `stl_fill_holes`, `stl_add_facet` | `FillHoles` |
| Normal directions | `normals.c` | list of facets to visit, `norm_sw` | `stl_fix_normal_directions`, `stl_reverse_all_facets` | `NormalDirections`, `FacetNormals` |
| Normal values, volume | `normals.c`, `util.c` | the normals, `stats.volume` | `stl_fix_normal_values`, `stl_calculate_volume` | `NormalValues`, `FacetNormals` |
| Shared vertices | `shared.c` | `v_indices`, `v_shared`, the walk | `stl_generate_shared_vertices` | `SharedVertices` |
| Repair | `util.c`, `admesh.c` | flags, tolerance, iteration | `stl_repair` calling the passes, shared vertices | `Repair` |
| STL reading | `stlinit.c` | `stl_file`, `error`, the dimensions | `stl_open`, `stl_open_merge` | `StlInput` |
| Transformations | `util.c` | the corners and the dimensions | rotate, mirror, scale, translate, stretch | `Transformations` |
| ADMesh command line | `admesh.c` | options, the mesh, `ret`, the outputs | parse, open, transform, merge, repair, write | `Admesh` |
| Output formats | `shared.c`, `stl_io.c` | - | OFF, DXF, VRML, STL writers, statistics | only when they are called and fail |
| Program | `tessellator.cpp`, `stlwriter.cpp`, `admesh.c` | raw file, healed file, `out.txt`, the child process | import, write, start, wait, read the output | `Tessellator` |
| Command line | `main.cpp`, `meshingparameters.h` | `argv`, parameters | one case per argument count | `CommandLine` |

Interaction: the user runs the program (`CommandLine`), which imports the file,
writes the raw STL and starts ADMesh as a child process; the child opens the raw
file, runs `stl_repair`, writes the healed file and prints statistics into
`out.txt`, which the program reads back (`Tessellator`). ADMesh by itself can do
more: it parses its options, reads a file, moves and merges meshes, repairs and
writes several outputs, in a fixed order (`Admesh`). In the repair the passes run
one after another on one `stl_file` and decide from its counters whether the
next one runs (`Repair`).

What is hard here:

- **Long-lived structure, local arithmetic.** The neighbour list is symmetric
  only because every operation updates both sides of a link, encoding relative
  orientation as `which_vertex_not` modulo 3 plus 3. One wrong side is noticed
  several passes later, by a walk that turns the wrong way or never ends.
- **Row numbers as references.** Removing a facet moves the last one into its
  row while the loop, the hash table and the neighbours name facets by row.
- **Stale copies.** The nearby check loads edges from a copy of a facet whose
  corners it is moving, and the pending edges carry keys made of old corners.
- **Termination.** Walks around a vertex or along a hole stop at an unconnected
  edge or at their first facet; a cycle that misses that facet would be endless.
- **Redundant state.** Each facet has a normal beside its corners, and the mesh
  its dimensions, volume and shortest edge beside its facets; every function
  adjusts some of them in its own way, and some are used before the next one does.
- **Errors that wait.** In ADMesh an error is a flag in the structure, tested at
  the start of most functions and reported by the first output that looks.
- **Two processes and files that outlive them.** The program can be killed while
  its child works on; the child can crash; `out.txt` and the raw file are there
  in the next run.

What makes each component correct: the neighbour list is mutual, its edges match
and no match is missed (exact check); corners that are moved together stay
together and in their cell (nearby check); holes are closed without disturbing
what is connected (filling); neighbours agree on the direction where the mesh is
orientable and follow the normals read (directions); normals and volume are
those of the facets (values); two corners share an index exactly if walks connect
them (shared vertices); the counters are those of the list (repair); the
dimensions are those of the mesh and its outside stays outside (transformations);
the exit code tells whether every output is whole (ADMesh); what is printed and
written belongs to this run and this input (program); the parameters used are
those given (command line).

## 2. The modules and the code

**StlFile** is the record `stl` and the operations the passes share. The hash
table is the set `heads` of pending edges; `Oldest` picks the match, as the
chains of the table do when keys are distinct. Its order of insertion only
matters when keys coincide, which `PendingExact` shows they never do in the exact
check. A facet's row keeps its contents after the mesh shrank, as in the arrays.
`LoadEdgeExact` orients the key along the axis of largest extent (`Forward`), and
`which_edge >= 3` marks an edge loaded backwards. `Turn` is the case distinction
`stl_change_vertices` and `stl_fill_holes` both contain.

**EdgeMatching** is what the exact check promises without facets, rows, hash table
or removals: per pair of end points, how many edges have not been taken, wait, or
are joined in pairs. The refinement mapping (`FacetCheckExact!Matching`) counts the
edges of the facets that are not degenerate; `EdgesMatched` is `EdgeMatching!Spec`
under it. Initialization, removals and freeing the table are stuttering steps.

**FacetCheckExact** has one action per facet removed (`RemoveDegenerateFacet`, after
which the same row is tested again) and per edge inserted (`InsertEdge`).
**FacetCheckNearby** has one per facet loaded, per edge skipped, left pending or
matched, and per corner a walk moves. **UnconnectedFacets** and **FillHoles** have one
per facet and per step of the walk; **NormalDirections** one per edge, list element and
part; **SharedVertices** one per corner and per facet of a walk; **NormalValues** one
per loop, whose rounds do not meet. **FacetNormals** has the comparison of a facet with
its normal, `stl_reverse_facet` and the volume. The passes have no further state. They
have no `Spec` of their own: **Repair** instantiates all passes on one set of variables,
with `phase` naming the pass and `pc` its position. `Called` is the condition under
which `stl_repair` makes the call.

**Tessellator** has the program (`Step`), one child per run (`ChildStep(c)`) and the
files. A file's content is the version of the input it was made from, whether it
is whole, and who wrote it. `Start`, `Kill` and `ChildCrash` are the environment.
What the repair computes is in `Repair`; here it is one step that ends.

**CommandLine** has one action per `case` of `main`'s switch.

The modules named `...Proofs` hold the theorems about the module they are named
for. `FacetCheckExactProofs` ends with the refinement of `EdgeMatching`;
`RepairProofs`, `RepairLinksProofs` and `RepairFixesProofs` are about `Repair`, each going
on from the one before; `StlFileProofs` has the lemmas on the operators all of them use.

**Admesh** is `main` of `admesh.c`: `ParseOption` takes one option, then `phase` goes
through what `main` does in its order. **StlInput** has what decides how a file is
read - size, a high byte, how it was really written, ends and lengths of lines -
and computes the guessed type, the number of facets, what is found, and the
dimensions; **Transformations** has the functions that move the mesh. `stl_repair` is
one step of `Admesh` that only notes the passes it goes through (`passes`), since they
are in `Repair`; that it ends is `Termination` there. So is the generation of shared
vertices, which is `SharedVertices` there, if an exact check has set the links. If none
has, as with `--no-check --write-off`, the links are 0, and the walk of `shared.c:97`
never ends for two facets or more: `WalkForever` is then the only step. In the rows by
which a merge extends the mesh they are garbage (`GarbageLinks`), with which a walk or a
reversal may also crash: `WalkCrash`, `RepairCrash`. `mesh.error` is the flag; what
happens after it is set is the code's: transformations cannot be reached with it,
a merge and the repair return at once, an output reports and clears it.

Abstractions:

- Corners are integer points. Differences of coordinates, the dominant axis and
  cells of the nearby grid are computed as the code does; rounding, overflow and
  the second zero of floats are not modelled. With tolerance 0 all corners fall in
  one cell, which is what the conversion of an infinite or undefined quotient to
  `unsigned` yields on x86.
- Normals are exact directions, equal where the code allows 0.001 after
  normalizing; the volume is six times the real one, an integer if every stored
  normal is right, backwards or zero, and left open (`<<>>`) otherwise. The surface
  and the printed counts of reversed facets and fixed normals decide nothing and
  are left out.
- Rotations are by quarters of a turn, the bounding diameter is squared, and the
  numbers of an option are read as a whole.
- What is uninitialized in the code may be anything: the dimensions before the
  first facet is read (`Garbage`), row 0 of an empty mesh (`StartPart`), the type of
  a file too short to have one (`TypeUnset`).
- The increment of the tolerance is always given (the default depends on the
  size of the bounding box) and two iterations are made, which is the default.
- `MaxFacets` bounds the rows; the code grows its arrays.
- A definition headed "Mutation of ..." is not part of the model: it is an
  altered form of the definition that follows it, and shows that the property
  named in `PROJECT.json` would notice such a bug.

## 3. Runs

All runs check for deadlock. The self-loops `Returned`, `Repaired`, `Rest` and `Exited`
stand for a program that has ended.

| Run | Instance | States | Shows |
|---|---|---|---|
| `FacetCheckExact` | all sequences of up to 3 of 12 facets, tetrahedra with flipped faces, duplicates and degenerate facets in front, amid and behind | 25,987 | the list is mutual, matching and maximal; counters and least extent of an edge exact; only degenerate facets go; it implements `EdgeMatching`; it ends |
| `Repair_passes` | sequences of up to 3 of seven facets and 2 of twelve, tetrahedra with up to three corners off, facets around a short edge, twisted tetrahedra, Moebius strips, two parts, with right, wrong, missing and exchanged normals; nearby checks with three choices of tolerance, or directions and shared vertices after filling or after reversing | 586,283 | links stay mutual through every match and turn, corners of connected edges move together, no corner leaves its cell, counters exact; holes are closed, no facet degenerate, directions follow consistent normals, parts counted, shared vertices exact |
| `Repair_fix` | every pass, as the program itself calls ADMesh and with shared vertices, also on four facets around a short edge | 781,984 | types; directions agree where they can; normals and volume right; links kept by matching and filling; the repair always ends |
| `Admesh` | fifteen files, good, damaged, too small or of a misleading kind; every one option with each, every two with a solid and an open mesh, every three that move, every three that merge or write; outputs and merges without an exact check on four facets, one and none | 328,432 | dimensions exact, a solid stays one, `main` ends and its exit code is right where links are set, order of options irrelevant but for one pair |
| `Tessellator_step` | two runs on a STEP file with kills and crashes | 13,492 | statistics and healed file belong to this run; the wait ends |
| `CommandLine` | all command lines of up to three options | 19,452 | parameters honoured, no negative deflection, usage accepted but for one order |

The bounds: three facets suffice for an edge with a third candidate, for a
removal that moves the last facet, and for a walk over one facet; the tetrahedra
add closed fans around a vertex; four facets around a short edge are where the
nearby check makes facets degenerate and where they are joined. Two runs of the
program are enough for everything an earlier run can leave to a later one (with
`MaxRuns = 3`, 1.36 million states, the same properties hold).

For `Admesh`, three moving options are enough for each kind of adjustment of
the dimensions (measured again, moved along, only widened) to meet each other
before and after; a file is good, too short, of a wrong size, cut off, with an
unended last line, or taken for the other type, which is every branch of
`stl_count_facets` and `stl_read`.

Qualifications belong to some statements; the cases they exclude are real ones,
and in the model.

- `EdgesMatchUnlessWarned` and `SharedVerticesExact` hold where no walk printed its
  warning.
- `StatisticsOwn` and `HealedByThisRun` assume that no child of an earlier run was
  alive when the run started; with one, both processes write the same files.
- `ShortestEdgeExact` is about the least extent of an edge, its greatest difference along
  an axis, which `stl_load_edge_exact` compares (`connect.c:122`), not about its length;
  the two are the same only along an axis (see below). The property bounds the one by the
  other. It excludes a degenerate first facet: `stl_facet_stats` starts the search from
  an edge of it, which can be 0 or be removed.
- `LinksMutual` and `CountersExact` are checked with the nearby check or with
  the removal of degenerate facets, but not with both (see section 4).
- `NoDegenerateLeft` holds without the nearby check. With it degenerate facets
  can stay, which `Repair_degenerate` shows.
- `UsageAccepted` excludes `-ir N -ad <value>`, which the usage allows and
  `main.cpp:273` refuses: the test of the first value looks at the second for `N`.
- `BoundsExact` and `TranslatedToPlace` exclude negative factors, after which the
  least coordinates are called the greatest (`util.c:184`), and an empty first file,
  whose dimensions are never set. After `--stretch` the dimensions only enclose
  the mesh.
- `OutputsWhole` is about files as programs write them and whose type is
  recognized; binary files of less than four facets are not among them, since
  `stl_count_facets` (`stlinit.c:118`) refuses what is shorter than
  `STL_MIN_FILE_SIZE`. For others `main` may crash, read forever, or return 0 without the
  merged facets; the actions `MergeCrash`, `WriteCrash` and `ReadForever` are these cases.
  It also leaves out command lines that follow links (`FollowsLinks`: OFF and VRML outputs,
  and the reversal of merged facets) and ask for no exact check, `--no-check`,
  `--reverse-all` and `--normal-values` alone: `main` then hangs or crashes, by
  `WalkForever`, `WalkCrash` and `RepairCrash`. `--no-check` with the other outputs is in.

### Where the code does not do what is said of it

| Run | What TLC shows |
|---|---|
| `Repair_holes` | After the nearby check and the removal of a degenerate facet a hole can remain: `stl_remove_degenerate` copies `which_vertex_not` without accounting for the orientation of the facet that goes, a walk then turns the wrong way, and filling stops when it returns to its first facet. |
| `Repair_degenerate` | Four edges are open, and two corners of the hole are near each other and joined by an edge elsewhere. The nearby check moves one to the other and connects all four: two facets are degenerate, but nothing is unconnected, so `stl_repair` (`util.c:575`) skips `stl_remove_unconnected_facets`, on which `connect.c:712` counts for their removal. |
| `Repair_unchecked` | With `--reverse-all` alone no exact check is done, against `admesh-doc.txt:235`; facets are reversed and vertices walked around along neighbours that are all 0. For a solid the walk never ends, as TLC finds when `Termination` is asked of this instance; the same holds of `--no-check` with an OFF or VRML output. |
| `Admesh_order` | `--translate` and `--translate-rel` read into the same variables, so their order matters, against `admesh.1:125`. |
| `Tessellator_directory` | `out.txt` is written in the working directory and read in the executable's. |
| `Tessellator_outputs` | "Mesh healing completed" is printed although the child could not read its input or write the result. |

More, seen in reading and not run: `admesh-doc.txt:35`, `admesh-doc.txt:257` and
`admesh.1:23` say that the tolerance is by default the length of the shortest edge, but
`shortest_edge` is the least extent along an axis, so that from (0,0,0) to (8,8,0) an
edge counts 8 and not 11.3, less than a shorter one along an axis, of length 9; `admesh -fundev`
is not the default, as `admesh-doc.txt:62` says, since only the default reverses a mesh
of negative volume (`util.c:621`); with `--normal-directions` alone the volume printed
is measured along normals that were not turned with their facets; `README.md` spells the
angular option `-la`, which the program does not know; and the misplaced parenthesis at
`main.cpp:158` accepts a line with two options that does not begin with `-i` (`Listed7`
models it).

### Fairness

`FacetCheckExact` and `Repair` are sequential code that runs until it returns:
weak fairness of `Next`, written out with "not returned" for its being enabled
(deadlock checking shows it is). In `Tessellator` the system schedules both
processes, so `Step` and every `ChildStep(c)` are weakly fair. Nothing makes a
user start the program, or a process be killed or crash. That the child itself
ends is what `Termination` of `Repair` shows.

## 4. Proofs

`StlFileProofs` holds the lemmas about the operators of `StlFile`: their types,
`EqualKeys` (two edges with equal keys have the same end points in the same
direction), `RecordNeighborsMutual` and `RecordNeighborsEdges` (connecting two
unconnected edges keeps the list mutual; if they match, edges go on matching), and
`RemoveFacetUnlinked` (what is left when an unlinked facet is removed).

### The exact check

`FacetCheckExactProofs` proves `Spec => []IInv` (`Inductive`) and from it

- `TypeCorrect`: `TypeOK`; no row or corner out of range is used;
- `NeighborsAreMutual`: `NeighborsMutual`;
- `ConnectedEdgesMatch`: `EdgesMatch`;
- `MatchingIsMaximal`: `NoMatchMissed`.

The assumptions are those of the modules: `VertexAssumption` (corners are integer
points), `MaxFacetsAssumption` and `InputsAssumption` (a mesh has at most
`MaxFacets` facets, which are its rows).

None of the properties is inductive alone. `LoopProgress` says that the facets
ahead of the loop are unlinked: so the facet removed has no neighbours to tell, and
the one moved into its row brings none. `PendingExact` says that the table holds
exactly the unconnected edges behind the loop, as they are in the mesh, with
distinct keys: so a match connects unconnected edges with the same end
points, and when the loop is over two unconnected edges with the same end points
would be two pending edges with the same key. `IInv` is these, `TypeOK` and the
three properties.

Further on it proves what the check counts and measures, by what one step adds to a
finite set or takes from it:

- `StatisticsExact`: `CountersExact`, which is inductive together with `IInv`: the
  facet removed is unlinked, so it takes nothing out of the counts;
- `ShortestEdgeIsExact`: `ShortestEdgeExact`, by `ShortestSoFar`, that the first facet
  stays in the first row, no loaded edge has a smaller extent than `shortest_edge`, and that
  is the extent of a loaded edge or of the one `stl_facet_stats` starts with. By
  `ExtentOfEdge` the extent squared lies between a third of the squared length and all of it;
- `OnlyDegenerateAreRemoved`: `OnlyDegenerateRemoved`, by `OthersKept`, that every
  facet of the file that is not degenerate is in the mesh as often as in the file.
  Moving the last facet into the freed row is a permutation of the rest.

At its end stands `ImplementsEdgeMatching`: `Spec => EdgesMatched`, the
refinement of `EdgeMatching`. A removal changes no count, since it takes a degenerate
facet; inserting an edge takes it, and leaves it waiting or joins it with one that waits,
which needs `PendingExact` and `EqualKeys` (the match has the same end points) and the
table's being complete (an edge waits only if no other does); the rest stutters.

### The repair

`RepairProofs` proves for every set of meshes and options, also when no exact check is
called,

- `TypeCorrect`: `TypeOK`. The invariant is `TypeInv /\ Idle` (`TypedInvariant`): per
  pass, which facet, corner, pending edge or position of a walk exists at which `pc`,
  where links point into the mesh, and that there is a volume when it is negated;
- `NormalsAreRight`: `NormalsRight`, by `NormalsInv`, which says it of the states from
  the end of `stl_fix_normal_values` on, reversal of all facets for a negative
  volume included;
- `LinksAreKept`: `LinksKept`, an action property: the nearby check and the filling of
  holes connect no edge that is connected. `PendingInv` is why: whatever is
  pending is unconnected and was loaded before the edge at hand.

Its second half takes up the links where the exact check leaves them:

- `LinksAreMutual` and `CountersAreExact`: `LinksMutual` and `CountersExact` in every
  behaviour in which the exact check is called and no step joins the neighbours
  of a degenerate facet (`DegenerateJoined`);
- `SoundWithoutNearby`: with options that do not call the nearby check, mutual links, exact
  counters and matching edges with no other condition than the call of the exact check.

The conditions are the code's. `Repair_unchecked` shows what happens without the
exact check. The nearby check is what makes facets degenerate after it, and
`stl_remove_degenerate` joins their neighbours without regard to the orientation of the
facet that goes, as `Repair_holes` shows. The condition cannot be dropped: asked of the
four facets around a short edge that `Repair_fix` has, with `fixall`, TLC finds
`LinksMutual` and `CountersExact` violated after such a join. The run that checks the two,
`Repair_passes`, calls the nearby check or passes that turn and fill, not the nearby check
and the removal together.

The invariant `LinkInv` has four parts besides the call of the exact check. `ExactInv`
has the invariants of the exact check, instantiated at the files of `Repair`, while that
pass runs, so its theorems are used and not proved again. `MeshInv` says that the links
are mutual and counted (`Sound`) in all later passes, that edges match and no facet is
degenerate while no nearby check was made. `KeysInv` says that the keys pending while
holes are filled are those of the mesh, which is what makes a match there one of edges
with the same end points. `DirInv` says that the facets to be turned exist, since
turning one changes its neighbours' records. Under it are lemmas on what the operations
do to the links: `MatchSound`, `AddFacetSound`, `RenamedSound` (a removed facet's row
goes to the last one, and every neighbour is told), and `ReversedSound`
(`stl_reverse_facet` exchanges two edges and turns the orientation on both sides of
every link), which rests on a table of six values (`ReversalArithmetic`).

`RepairLinksProofs` is about the passes that connect edges the exact check did not find
equal. Its first part is about the nearby check:

- `NeighborsShareEdges`: `EdgesMatchUnlessWarned` under the same condition as `LinksAreMutual`,
  whichever passes are called;
- `CornersStayInCells`: `CornersKeepCells`, an action property, if no nearby check is called
  again after a warning (`CheckedAfterWarning`): neighbours then need not share their
  edges, and a walk may take a corner along that lies elsewhere.

The keys pending are here of corners that have moved, and the facet at hand is a copy,
so `SweepInv` goes by the cells of the grid: connected edges have their ends in the same
cells (`CellsRight`), also while walks have moved one side and not yet the other; the
key of a pending edge is the cells of its ends (`CellEdge`), and so are those of the
copied facet; and the walks still to be made (`WalkSet`) carry a point of the cell they
move a corner in, each in another cell (`Walking`), so no walk disturbs what another one
relies on. `MatchInv` says that connected edges match but for the ends by which these
walks come in, where the facet they come from has the point they carry (`MatchedBut`). A
walk stands at a *dart*, an edge of a facet and one of its ends (`Darts`), and turns
there (`Around`) and crosses (`Over`). One step moves one corner, which sets the edge it
came by right, and leaves the next one to be set right; the walk ends at an open edge,
where nothing is left, or comes back to the facet it started from and warns. So no
induction over the path of a walk is needed.

The second part is about the holes:

- `HolesAreFilled`: `HolesFilled`, as the documentation promises, also after nearby checks, if
  these print no warning (`NearbyUnwarned`) and no neighbours of a degenerate facet are joined;
- `HolesFilledWithoutNearby` and `NoneLeftDegenerate`: `HolesFilled` and `NoDegenerateLeft`
  for options that do not call the nearby check, without another condition;
- `NeverWarned`: with such options no walk comes back to the facet it started from, so no
  warning is printed and `EdgesMatchUnlessWarned` has no exception.

The invariant is `HolesInv`. When `stl_remove_unconnected_facets` has been through its
first loop no facet is degenerate (`Proper`), and when it is not called there is nothing
to fill. The first loop of `stl_fill_holes` connects the edges that match, so those it
has passed and left unconnected are pending, with distinct keys (`LoadInv`); while holes
are closed, all unconnected edges are pending and none is behind the loop (`CloseInv`).
That a walk from an unconnected edge ends at another one, and that the facet put there
closes both, would need an induction over the path; it is shown by a set: `OnTheWay`
says that the darts passed form a set closed under going on, except at the edge the walk
has come to (`Passed`). As `Around` and `Over` are their own inverses (`AroundTwice`,
`OverBack`), a walk cannot enter the set again (`WalkCrosses`), hence not return to its
first facet, and the edge it ends at is not the one it began with (`WalkEnds`). No two
pending edges match (`TabledApart`), so the far corner is a third point and the new
facet is not degenerate; and its three edges are matched with whatever pending edge has
their end points (`InsertFills`, `CloseHoleFills`), so none of them is left for the loop
behind it. When the loop ends nothing is unconnected (`Whole`), which turning facets
does not change.

`RepairFixesProofs` is about the passes over the connected mesh. Its first part is about
`stl_fix_normal_directions` and what later passes leave of its work. Under the same
condition as `LinksAreMutual`, but whatever options are given, it proves

- `PartsAreCounted`: `PartsCounted`;
- `DirectionsAgreeOnceFixed`: `DirectionsAgree`;
- `DirectionsFollowTheNormals`: `DirectionsFollowNormals`;
- `DirectionsFixedWithoutNearby`: the three together, without that condition, for options
  that do not call the nearby check.

The invariant is `DirectionsInv`; TLC checked it on instances like those of
`Repair_passes` and `Repair_fix` before it was proved. While facets are visited,
`SpreadInv` says six things: `Visited` and `Reached`, a link of a marked facet leads to
one that is marked or listed, unless the edge is still to be looked at; `Together`, the
list is in the part of the facet at hand; `Counted`, the parts reached before it are
counted; `Settled`, if the mesh can be oriented at all, some orientation turns no facet
that was reached; `Seeded`, every part reached has a facet whose normal is not
backwards. A part is a smallest closed set (`Parts`), and because links are mutual the
complement of a closed set is closed, so a closed set that meets a part contains it
(`OnePart`): this is the induction over paths that the count would otherwise need. An
orientation is a set of facets still to be turned (`OrientedBy`); turning a facet
toggles its membership (`TurnedOriented`), and an orientation may be exchanged for its
complement on a closed set (`TurnTheRest`), which is why the first facet of a part can
be settled either way. `DirectedInv` carries the result through `stl_fix_normal_values`
and the reversal for a negative volume, where `TurnedSoFar` says how far that loop is.

The second part is about `stl_generate_shared_vertices`:

- `SharedVerticesAreExact`: `SharedVerticesExact`, if no facet is degenerate when the pass
  runs (`ProperWhenShared`) and no neighbours of a degenerate facet were joined;
- `SharedVerticesWithoutNearby`: the same for options that do not call the nearby check,
  without another condition.

No facet may be degenerate because a walk takes the facet it started from for its
end, and could come back to a degenerate one at another of its corners; edges have to
match because a walk follows the links. The invariant `SharedInv`
says of a walk that the darts it has passed are a `Strip`: all turn around one point, no two
are of one corner, and each but the two at its ends leads to another and comes from
one. When the walk ends, at its first facet or after it has turned back once at an
open edge, the strip has no ends left: it is a `Fan`, from which no connected edge leads
out. Every closed set with the first corner has all corners of the strip (`Spanned`), so
the corners indexed are a smallest closed set; and since no fan that is done can be
entered, the corner the next walk begins with, and all it meets, has no index yet.

### ADMesh

`AdmeshProofs` proves, for every set of files and command lines and every size of
mesh,

- `TypeCorrect`: `TypeOK`;
- `DimensionsKept`: `BoundsExact`;
- `PlaceReached`: `TranslatedToPlace`;
- `OutputsComplete`: `OutputsWhole`;
- `OrderIsIrrelevant`: `OrderIrrelevantElsewhere`.

The assumptions are what `FilesAssumption`, `CommandLinesAssumption` and
`GarbageAssumption` say: two files that can be counted fit in the rows together, a file
with a line in it has the end of a line, an option has as many numbers as `main` reads,
`--merge` names a file, and what is uninitialized is a point.

`TypeInv` strengthens `TypeOK` by what the later functions rely on: an option asked
for has its numbers or its file (`WithValues`), and from the opening to the merge
there is no error and the mesh has as many rows as were counted in the input, so
the merge has room for its facets.

`BoxInv` says that the dimensions are the tight box of the corners (`TightBox`) until
something is stretched and a box around them (`InBox`) afterwards, and that
`opts.trans` is the place of `--translate` unless `--translate-rel` has overwritten it. Each
transformation is shown to move the corners by one map (`MovedCorners`); a map that
is monotone in every coordinate takes the ends of the box along (`MappedBox`: scaling,
translating), one that reverses a coordinate exchanges its two ends
(`OpposedBox`: mirroring), and a rotation measures again. Turning all facets
after a mirror changes no corner (`ReverseAllKeeps`). Reading widens a box facet by facet
(`WidenedMeasures`), from the first facet of the file on if the mesh was
empty. A box is tight for at most one pair of points (`BoxOf`), which is what `Least`
and `Greatest` compute.

`OutInv` is about the command lines whose files are readable and that follow links only
after an exact check (`Workable`): nothing
is written and `ret` is 0 before the first output; from the merge on there is
no error and the mesh has the facets of both files (`ReadableFiles`: what is counted
in such a file, and what is found, is all of it); the shared vertices are
there when an output needs them, so that `WriteCrash` cannot happen; the passes gone through
are those asked for, so that `WalkForever` and `WalkCrash` cannot either, nor `RepairCrash`
without merged facets; and every output that is
past holds the mesh or has made `ret` 1 (`WrittenInv`).

`ParseInv` says that flags and values follow from the set of the options parsed so far
(`Described`), if no name is repeated and there is one translation at most. One step of
parsing adds one option to the set (`ParsedDescribed`), and a set describes one
outcome only (`DescribedOnce`); reordered options are the same set.

### The program and its command line

`TessellatorProofs` proves, for any number of runs and both formats, `TypeCorrect`
(`TypeOK`), and for programs started in their own directory (`Directories = {"app"}`,
which the theorems assume) `Spec => []Inv` (`Inductive`) and from it

- `StatisticsAreOwn`: `StatisticsOwn`;
- `StatisticsAreRead`: `StatisticsRead`;
- `HealedIsThisRuns`: `HealedByThisRun`.

The properties speak of a run that has returned. `Inv` says what led there:
`Progress`, where the run and its child can be at the same time; `Children`, that no
other child is alive in a run that started alone; `OutTxtOwn`, that `out.txt` holds no
statistics but this run's while it waits, and does hold them when the child has
ended well; `HealedOwn`, that the child's mesh is the raw file, and the healed file
what the child has made of it so far. The assumption is needed: from another
directory `StatisticsRead` fails, as `Tessellator_directory` shows.

`CommandLineProofs` proves, for every set of command lines, input files and
numerals, `DeflectionsNotNegative` (`NoNegativeDeflection`), `ParametersAreHonoured`
(`ParametersHonoured`) and `UsageIsAccepted` (`UsageAccepted`). The program decides in
one step, so the invariant (`Undecided`) only says that this step starts from the
default parameters; `Running` lists what a step that runs the program has tested and
set, and the lemmas after it go through the orders of the options.

### Only model-checked

- Liveness: `Termination` of the passes and of the program, under fairness, is out
  of the prover's reach, and so is `ENABLED`.
- `VolumeEnclosed` and `SolidKept`, sums over facets: the library's induction theorems
  take operators as parameters and cannot be instantiated, so nothing is known of
  its folds. Where a recursive function of the model has to keep something
  (`ReverseAllFacets` types, links and corners, `ParseAll` its description), that is
  proved by the least round that does not.
- What the repair does after a warning of the nearby check, or after it has joined the
  neighbours of a degenerate facet: `HolesFilled` then fails in `Repair_holes`, and links
  need not be mutual. `TypeOK`, `NormalsRight`, `LinksKept` (proved) and `Termination`
  (checked) hold there too. `NoDegenerateLeft` fails with the nearby check.

## 5. Not modelled

- The formats of the OFF, DXF, VRML and STL writers and of the statistics
  (`shared.c`, `stl_io.c`), and the tokens and numbers of a text STL file: formatting
  and scanning without state. When each output is written, skipped or fails is in
  `Admesh` and `Tessellator`; `stl_write_obj` is never called.
- Floating point: rounding, overflow, the second zero, the tolerance of normals.
- The surface, `facets_reversed`, `normals_fixed` and the header, which decide nothing.
- Two programs at once in one directory. Nothing promises that this works, and it
  does not: they share `out.txt`.
- `networkcheck.*` is not compiled, `mesh.h` and `macro.h` serve commented-out code.
- `OpenCascade/`, a vendored library in headers and binaries, and
  `tessellator_build/`, build output. They are some 99 per cent of the lines in the
  tree, which is why the lines the map covers are a small share of them; of the
  some 5,500 lines that are ADMesh and the program, the map covers about 3,600,
  and the rest are writers, declarations and includes, and code that is not built.

## 6. Plan

Done, in this order: `StlFile`, `MeshProperties`, `FacetCheckExact` and its proofs;
the other passes and `Repair`, which composes them; `Tessellator`; `CommandLine`;
`EdgeMatching` and the refinement; normals, volume and shared vertices;
`StlInput`, `Transformations` and `Admesh`; the proofs about `Tessellator` and
`CommandLine`.

Then the theorems of section 4 on counters, shortest edge and removals, the
refinement of `EdgeMatching`, the types, normals, links, directions, holes, nearby checks
and shared vertices of `Repair`, and the properties of `Admesh`.

Left to prove: `VolumeEnclosed` and `SolidKept`, when sums over facets can be reasoned
about; and how far the links are right after neighbours of a degenerate facet were
joined.
