-------------------------------- MODULE Admesh --------------------------------
(****************************************************************************)
(* main of admesh.c: the options are parsed one by one, the file is read,   *)
(* and what was asked is done in a fixed order, an error on the way staying *)
(* in the structure until an output that was not written reports it.        *)
(*                                                                          *)
(* stl_repair is a single step here, which only says which passes it goes   *)
(* through: what they do is in the module Repair.  So is the generation of  *)
(* the shared vertices, which is in SharedVertices for links that are set;  *)
(* where they are not, it is said here what becomes of it.                  *)
(****************************************************************************)
EXTENDS Transformations

Maps == INSTANCE Functions

CONSTANTS
  CommandLines,  \* the command lines tried: options and input files
  Files,         \* file name |-> what the file is
  Unwritable,    \* the files that cannot be opened for writing
  Garbage        \* what stats.min and stats.max may be before they are set

(* The options that are switches, those with numbers and with a file.       *)
Checks    == {"exact", "nearby", "remove-unconnected", "fill-holes", "normal-directions",
              "normal-values", "no-check", "reverse-all"}
Moves     == {"x-rotate", "y-rotate", "z-rotate", "xy-mirror", "yz-mirror", "xz-mirror",
              "scale", "scale-xyz", "translate", "stretch", "translate-rel"}
Outputs   == {"write-off", "write-dxf", "write-vrml", "write-ascii-stl", "write-binary-stl"}
Option    == [name   : Checks \cup Moves \cup Outputs \cup {"merge", "help", "version", "?"},
              points : Seq(Point),
              file   : STRING]

(* A line is counted where it ends, and the meshes of any two files         *)
(* together have a row for every facet.                                     *)
ASSUME FilesAssumption ==
  /\ \A name \in DOMAIN Files :
       Files[name] \in InputFiles /\ (Files[name].lines > 0 => Files[name].newline)
  /\ \A a, b \in DOMAIN Files :
       CanCount(Files[a]) /\ CanCount(Files[b]) =>
         NumFacets(Files[a]) + NumFacets(Files[b]) <= MaxFacets

(* The points in an option: factors, a place, or the ends of a box and an   *)
(* offset.                                                                  *)
PointsIn(name) ==
  CASE name \in {"scale", "scale-xyz", "translate", "translate-rel"} -> 1
    [] name = "stretch" -> 3
    [] OTHER -> 0

ASSUME CommandLinesAssumption ==
  \A line \in CommandLines :
    /\ line.options \in Seq(Option)
    /\ \A k \in DOMAIN line.options :
         /\ Len(line.options[k].points) = PointsIn(line.options[k].name)
         /\ line.options[k].name = "merge" => line.options[k].file \in DOMAIN Files
    /\ line.file \in DOMAIN Files

ASSUME GarbageAssumption == Garbage \subseteq [min : Point, max : Point] /\ Garbage # {}

VARIABLES
  argv, optind,   \* the command line, and how many options are parsed
  opts,           \* the flags and values
  phase,
  mesh,
  passes,         \* the passes stl_repair has gone through
  shared,         \* the shared vertices have been generated
  written,        \* output |-> what was written
  ret

vars == <<argv, optind, opts, phase, mesh, passes, shared, written, ret>>

(* What main does when the options are parsed, in order.                    *)
Phases ==
  <<"open", "x-rotate", "y-rotate", "z-rotate", "xy-mirror", "yz-mirror", "xz-mirror",
    "scale", "scale-xyz", "translate", "stretch", "translate-rel", "merge", "repair",
    "shared-vertices", "write-off", "write-dxf", "write-vrml", "write-ascii-stl",
    "write-binary-stl", "done">>

Index(p) == CHOOSE k \in DOMAIN Phases : Phases[k] = p
Following(p) == Phases[Index(p) + 1]

Nothing == [facets |-> <<>>, passes |-> {}]

(* By default all is checked, nothing moved and nothing written.            *)
NoOptions ==
  [fixall |-> TRUE, asked |-> {}, points |-> [m \in Moves |-> <<>>],
   trans |-> Zero, file |-> [o \in Outputs \cup {"merge"} |-> ""]]

Init ==
  /\ argv \in CommandLines
  /\ optind = 0
  /\ opts = NoOptions
  /\ phase = "parse"
  /\ \E garbage \in Garbage :
       mesh = [stl   |-> StlOpen(<<>>, [s \in Slot |-> Zero]),
               stats |-> [min |-> garbage.min, max |-> garbage.max, size |-> Zero, diameter |-> 0],
               error |-> FALSE]
  /\ passes = {} /\ shared = FALSE
  /\ written = [o \in Outputs |-> Nothing]
  /\ ret = 0

(* Mutation of Parsed: --no-check takes back the checks before it.          *)
ParsedNoCheckLast(o, option) ==
  [o EXCEPT !.asked  = IF option.name = "no-check" THEN @ \ Checks ELSE @ \cup {option.name},
            !.fixall = @ /\ option.name \notin Checks,
            !.points = IF option.name \in Moves THEN [@ EXCEPT ![option.name] = option.points] ELSE @,
            !.trans  = IF option.name \in {"translate", "translate-rel"} THEN option.points[1] ELSE @,
            !.file   = IF option.name \in DOMAIN @ THEN [@ EXCEPT ![option.name] = option.file] ELSE @]

(* One option.  A check turns the default, all of them, off; --translate    *)
(* and --translate-rel have one set of variables.                           *)
Parsed(o, option) ==
  [o EXCEPT !.asked  = @ \cup {option.name},
            !.fixall = @ /\ option.name \notin Checks,
            !.points = IF option.name \in Moves THEN [@ EXCEPT ![option.name] = option.points] ELSE @,
            !.trans  = IF option.name \in {"translate", "translate-rel"} THEN option.points[1] ELSE @,
            !.file   = IF option.name \in DOMAIN @ THEN [@ EXCEPT ![option.name] = option.file] ELSE @]

Asked(name) == name \in opts.asked

ParseOption ==
  /\ phase = "parse"
  /\ optind < Len(argv.options)
  /\ argv.options[optind + 1].name # "?"
  /\ opts' = Parsed(opts, argv.options[optind + 1])
  /\ optind' = optind + 1
  /\ UNCHANGED <<argv, phase, mesh, passes, shared, written, ret>>

Crashed == -1

Exit(code) ==
  /\ phase' = "exit"
  /\ ret' = code
  /\ UNCHANGED <<argv, optind, opts, mesh, passes, shared, written>>

(* An unknown option, or --stretch with other than nine numbers.            *)
RefuseOption ==
  /\ phase = "parse"
  /\ optind < Len(argv.options)
  /\ argv.options[optind + 1].name = "?"
  /\ Exit(1)

EndOptions ==
  /\ phase = "parse"
  /\ optind = Len(argv.options)
  /\ ~ Asked("help") /\ ~ Asked("version")
  /\ phase' = "open"
  /\ UNCHANGED <<argv, optind, opts, mesh, passes, shared, written, ret>>

HelpOrVersion ==
  /\ phase = "parse"
  /\ optind = Len(argv.options)
  /\ Asked("help") \/ Asked("version")
  /\ Exit(0)

-----------------------------------------------------------------------------
Input == Files[argv.file]

Open ==
  /\ phase = "open"
  /\ ~ Endless(Input)
  /\ ~ OpenFile(Input, mesh.stats).error
  /\ mesh' = OpenFile(Input, mesh.stats)
  /\ phase' = Following(phase)
  /\ UNCHANGED <<argv, optind, opts, passes, shared, written, ret>>

(* stl_exit_on_error.                                                       *)
OpenFails ==
  /\ phase = "open"
  /\ ~ Endless(Input)
  /\ OpenFile(Input, mesh.stats).error
  /\ Exit(1)

Value == opts.points[phase][1]

(* The mesh after the transformation of the phase.                          *)
Transformed ==
  CASE phase = "x-rotate"  -> RotateX(mesh)
    [] phase = "y-rotate"  -> RotateY(mesh)
    [] phase = "z-rotate"  -> RotateZ(mesh)
    [] phase = "xy-mirror" -> Mirror(mesh, 3)
    [] phase = "yz-mirror" -> Mirror(mesh, 1)
    [] phase = "xz-mirror" -> Mirror(mesh, 2)
    [] phase \in {"scale", "scale-xyz"} -> ScaleVersor(mesh, Value)
    [] phase = "translate" -> Translate(mesh, opts.trans)
    [] phase = "stretch"   -> Stretch(mesh, Value, opts.points[phase][2], opts.points[phase][3])
    [] phase = "translate-rel" -> TranslateRelative(mesh, opts.trans)

Transform ==
  /\ phase \in Moves
  /\ mesh' = IF Asked(phase) THEN Transformed ELSE mesh
  /\ phase' = Following(phase)
  /\ UNCHANGED <<argv, optind, opts, passes, shared, written, ret>>

ToMerge == Files[opts.file["merge"]]

Merge ==
  /\ phase = "merge"
  /\ Asked("merge") => ToMerge.exists /\ ~ Endless(ToMerge)
  /\ mesh' = IF Asked("merge") THEN OpenMerge(mesh, ToMerge) ELSE mesh
  /\ phase' = Following(phase)
  /\ UNCHANGED <<argv, optind, opts, passes, shared, written, ret>>

(* stl_open_merge goes on to read from the file it could not open.          *)
MergeCrash ==
  /\ phase = "merge"
  /\ Asked("merge")
  /\ ~ ToMerge.exists
  /\ Exit(Crashed)

(* getc goes on returning EOF.                                              *)
ReadsForever ==
  \/ phase = "open" /\ Endless(Input)
  \/ /\ phase = "merge" /\ Asked("merge")
     /\ Endless(ToMerge) \/ (TypeUnset(ToMerge) /\ ~ ToMerge.newline)

ReadForever ==
  /\ ReadsForever
  /\ UNCHANGED vars

(* The passes of stl_repair that are asked for, by name, by default or by   *)
(* another that needs them; it goes through them as far as facets are       *)
(* unconnected.                                                             *)
Passes ==
  {name \in Checks \ {"no-check"} :
    \/ Asked(name)
    \/ opts.fixall /\ name # "reverse-all"
    \/ name = "remove-unconnected" /\ Asked("fill-holes")
    \/ /\ name = "exact"
       /\ {"nearby", "remove-unconnected", "fill-holes", "normal-directions"} \cap opts.asked # {}}

(* The links no pass has set are 0 in the rows that stl_open allocates, and *)
(* anything in those by which stl_open_merge extends them.                  *)
ZeroRows     == NumFacets(Input)
GarbageLinks == mesh.stl.number_of_facets > ZeroRows

(* stl_repair returns at once if there is an error.                         *)
StlRepair ==
  /\ phase = "repair"
  /\ passes' = IF mesh.error THEN {} ELSE Passes
  /\ phase' = Following(phase)
  /\ UNCHANGED <<argv, optind, opts, mesh, shared, written, ret>>

(* Reversing a facet writes to its neighbours, wherever they are.           *)
RepairCrash ==
  /\ phase = "repair"
  /\ ~ mesh.error
  /\ "reverse-all" \in Passes /\ "exact" \notin Passes
  /\ GarbageLinks
  /\ Exit(Crashed)

SharesVertices == ~ mesh.error /\ (Asked("write-off") \/ Asked("write-vrml"))

(* Along links that are 0 the walk from the second facet on goes to the     *)
(* first facet, which is its own neighbour, and never comes back.           *)
GenerateSharedVertices ==
  /\ phase = "shared-vertices"
  /\ SharesVertices /\ "exact" \notin passes => ZeroRows <= 1
  /\ shared' = SharesVertices
  /\ phase' = Following(phase)
  /\ UNCHANGED <<argv, optind, opts, mesh, passes, written, ret>>

WalksForever ==
  /\ phase = "shared-vertices"
  /\ SharesVertices /\ "exact" \notin passes
  /\ ZeroRows > 1 \/ GarbageLinks

WalkForever ==
  /\ WalksForever
  /\ UNCHANGED vars

WalkCrash ==
  /\ phase = "shared-vertices"
  /\ SharesVertices /\ "exact" \notin passes
  /\ ZeroRows <= 1 /\ GarbageLinks
  /\ Exit(Crashed)

Mesh == [k \in 1 .. mesh.stl.number_of_facets |-> mesh.stl.facet_start[k - 1]]

(* An error that --write-off has cleared leaves no shared vertices for      *)
(* --write-vrml, which reads them all the same.                             *)
VerticesMissing ==
  /\ phase = "write-vrml" /\ Asked(phase)
  /\ ~ shared /\ ~ mesh.error /\ opts.file[phase] \notin Unwritable

(* Mutation of Write: each output sets the return code anew.                *)
WriteOverReturn ==
  /\ phase \in Outputs
  /\ LET fails == mesh.error \/ opts.file[phase] \in Unwritable
     IN  /\ written' = IF Asked(phase) /\ ~ fails
                       THEN [written EXCEPT ![phase] = [facets |-> Mesh, passes |-> passes]]
                       ELSE written
         /\ mesh' = IF Asked(phase) THEN [mesh EXCEPT !.error = FALSE] ELSE mesh
         /\ ret' = IF Asked(phase) THEN IF fails THEN 1 ELSE 0 ELSE ret
  /\ phase' = Following(phase)
  /\ UNCHANGED <<argv, optind, opts, passes, shared>>

(* An output is written unless there is an error, from before or from       *)
(* opening the file; an error is reported and cleared.                      *)
Write ==
  /\ phase \in Outputs
  /\ ~ VerticesMissing
  /\ LET fails == mesh.error \/ opts.file[phase] \in Unwritable
     IN  /\ written' = IF Asked(phase) /\ ~ fails
                       THEN [written EXCEPT ![phase] = [facets |-> Mesh, passes |-> passes]]
                       ELSE written
         /\ mesh' = IF Asked(phase) THEN [mesh EXCEPT !.error = FALSE] ELSE mesh
         /\ ret' = IF Asked(phase) /\ fails THEN 1 ELSE ret
  /\ phase' = Following(phase)
  /\ UNCHANGED <<argv, optind, opts, passes, shared>>

WriteCrash ==
  /\ VerticesMissing
  /\ Exit(Crashed)

Exited ==
  /\ phase \in {"done", "exit"}
  /\ UNCHANGED vars

Next ==
  \/ ParseOption \/ RefuseOption \/ EndOptions \/ HelpOrVersion
  \/ Open \/ OpenFails
  \/ Transform \/ Merge \/ MergeCrash \/ ReadForever
  \/ StlRepair \/ RepairCrash
  \/ GenerateSharedVertices \/ WalkForever \/ WalkCrash
  \/ Write \/ WriteCrash
  \/ Exited

Spec == Init /\ [][Next]_vars

-----------------------------------------------------------------------------
(****************************************************************************)
(* Properties.                                                              *)
(****************************************************************************)
TypeOK ==
  /\ optind \in 0 .. Len(argv.options)
  /\ opts.fixall \in BOOLEAN
  /\ phase \in {"parse", "exit"} \cup {Phases[k] : k \in DOMAIN Phases}
  /\ mesh.stl.number_of_facets \in 0 .. MaxFacets
  /\ \A f \in Facets(mesh.stl), e \in Corner :
       /\ mesh.stl.facet_start[f][e] \in Point
       /\ mesh.stl.which_vertex_not[f][e] \in 0 .. 5
  /\ {mesh.stats.min, mesh.stats.max, mesh.stats.size} \subseteq Point
  /\ mesh.stats.diameter \in Nat
  /\ {mesh.error, shared} \subseteq BOOLEAN
  /\ passes \subseteq Checks
  /\ \A o \in Outputs : written[o].passes \subseteq Checks
  /\ ret \in {0, 1, Crashed}

(* A file as a program writes it, with two lines around those of the facets *)
(* if it is text, the last one ended or not, and whose type is recognized.  *)
(* Binary files of less than four facets are refused.                       *)
Readable(f) ==
  /\ f.exists
  /\ f.size >= HEADER_SIZE + ProbedBytes
  /\ f.facets # <<>>
  /\ Type(f) = f.written
  /\ IF f.written = "ascii"
     THEN f.lines - ASCII_LINES_PER_FACET * Len(f.facets) \in {1, 2}
     ELSE /\ f.size = HEADER_SIZE + SIZEOF_STL_FACET * Len(f.facets)
          /\ f.size >= STL_MIN_FILE_SIZE

MovingOrMoved == phase \in Moves \cup {"merge", "repair"}

Factor(name) == IF Asked(name) THEN opts.points[name][1] ELSE <<1, 1, 1>>
Factors      == {Factor(name)[a] : name \in {"scale", "scale-xyz"}, a \in Axis}

(* The printed dimensions, which --translate goes by and which most         *)
(* functions adjust without looking at the mesh, stay those of the mesh,    *)
(* whatever is done to it one after another and whatever is merged into it; *)
(* after --stretch, which only widens them, they still enclose it           *)
(* (admesh-doc.txt: "The mesh will fit just inside a box of this size").    *)
(* Not if a factor is negative, or the first file is without facets.        *)
BoundsExact ==
  MovingOrMoved /\ Found(Input) # <<>> /\ ~ mesh.error /\ (\A x \in Factors : x >= 0) =>
    LET corners == AllCorners(mesh.stl)
    IN  /\ \A p \in corners, a \in Axis : mesh.stats.min[a] <= p[a] /\ p[a] <= mesh.stats.max[a]
        /\ ~ Asked("stretch") =>
             mesh.stats.min = Least(corners) /\ mesh.stats.max = Greatest(corners)

(* --translate puts the least coordinates of the mesh where it says, after  *)
(* whatever was done before it (admesh-doc.txt: "This moves the minimum x,  *)
(* y, and z values of the mesh to the specified position").  Not with a     *)
(* negative factor, or if --translate-rel is given too.                     *)
TranslatedToPlace ==
  phase = "stretch" /\ Asked("translate") /\ ~ Asked("translate-rel")
  /\ Found(Input) # <<>> /\ (\A x \in Factors : x >= 0) =>
    Least(AllCorners(mesh.stl)) = opts.points["translate"][1]

(* Every edge of a solid is run through once in each direction.             *)
Solid(facets) ==
  \A k \in DOMAIN facets, e \in Corner :
    Cardinality({edge \in (DOMAIN facets) \X Corner :
                  /\ facets[edge[1]][edge[2]] = facets[k][Next3(e)]
                  /\ facets[edge[1]][Next3(edge[2])] = facets[k][e]}) = 1

(* Six times the volume a solid encloses: negative if it is inside out.     *)
Enclosed(facets) ==
  Sets!MapThenSumSet(LAMBDA k : Dot(facets[k][0], Cross(facets[k][1], facets[k][2])), DOMAIN facets)

(* Rotating, mirroring, scaling and translating a solid keep its outside    *)
(* outside: its volume is multiplied by the factors, with its sign, also    *)
(* when it was mirrored.  The normals stay right unless the scale is uneven *)
(* ("will point outward for a counterclockwise facet").                     *)
SolidKept ==
  phase = "merge" /\ Solid(Found(Input)) /\ (\A x \in Factors : x > 0) /\ ~ Asked("stretch") =>
    /\ Enclosed(Mesh) = LET product(p) == p[1] * p[2] * p[3]
                        IN  product(Factor("scale")) * product(Factor("scale-xyz"))
                            * Enclosed(Found(Input))
    /\ ~ Asked("scale-xyz") => \A f \in Facets(mesh.stl) : RightNormal(mesh.stl, f)

(* An output or a reversal goes along links: the shared vertices of OFF and *)
(* VRML, and the reversal of facets that were merged.                       *)
FollowsLinks ==
  Asked("write-off") \/ Asked("write-vrml") \/ (Asked("merge") /\ Asked("reverse-all"))

(* From files that programs have written main comes to its end: it neither  *)
(* crashes nor reads or walks forever.  Then it returns 0 if and only if    *)
(* every output asked for holds the whole of them, after the passes asked   *)
(* for, however many are written after one that failed ("Some part of the   *)
(* procedure failed, see the above log").  Not if it is to follow links     *)
(* and no exact check is asked for, as in `--no-check --write-off`: then    *)
(* WalkForever is all that is left to it if the file has two facets.  Nor   *)
(* if a type is taken for the other, or a file to merge cannot be read:     *)
(* then main may return 0 all the same.                                     *)
OutputsWhole ==
  optind = Len(argv.options) /\ ~ Asked("help") /\ ~ Asked("version")
  /\ Readable(Input) /\ (Asked("merge") => Readable(ToMerge))
  /\ (FollowsLinks => "exact" \in Passes) =>
    LET merged == IF Asked("merge") THEN ToMerge.facets ELSE <<>>
        whole(o) == /\ written[o] = [facets |-> Mesh, passes |-> Passes]
                    /\ Len(Mesh) = Len(Input.facets) + Len(merged)
    IN  /\ phase # "exit" /\ ~ ReadsForever /\ ~ WalksForever
        /\ phase = "done" => (ret = 0 <=> \A o \in Outputs : Asked(o) => whole(o))

(* What the options mean does not depend on their order (admesh.1: "The     *)
(* order of the options specified on the command line is not important").   *)
ParseAll(options) ==
  LET parsed[k \in 0 .. Len(options)] ==
        IF k = 0 THEN NoOptions ELSE Parsed(parsed[k - 1], options[k])
  IN  parsed[Len(options)]

Reordered == {[k \in DOMAIN argv.options |-> argv.options[p[k]]] :
                p \in Maps!Bijection(DOMAIN argv.options, DOMAIN argv.options)}

NoneRepeated ==
  \A k, l \in DOMAIN argv.options : argv.options[k].name = argv.options[l].name => k = l

OrderIrrelevant ==
  phase = "open" /\ NoneRepeated => \A options \in Reordered : ParseAll(options) = opts

(* It depends on it only if both translations are given.                    *)
OrderIrrelevantElsewhere ==
  phase = "open" /\ NoneRepeated /\ ~ {"translate", "translate-rel"} \subseteq opts.asked =>
    \A options \in Reordered : ParseAll(options) = opts

=============================================================================
