------------------------------- MODULE StlInput -------------------------------
(****************************************************************************)
(* Reading an STL file (stlinit.c): its type and the number of its facets   *)
(* are guessed first, then as many facets are read.                         *)
(*                                                                          *)
(* A file is what decides the guess, and the facets it holds: whether it    *)
(* exists, its size in bytes, whether one of the bytes 84 to 211 is above   *)
(* 127, how it was really written, and, as it is read as text, whether a    *)
(* line of it ends and how many of those are longer than four characters.   *)
(*                                                                          *)
(* The structure is read into a record with the StlFile structure in stl    *)
(* and the printed dimensions in stats.  Left out: the header, and lengths  *)
(* (bounding_diameter is kept squared).                                     *)
(****************************************************************************)
EXTENDS FacetNormals

Sets == INSTANCE FiniteSetsExt

StlType == {"ascii", "binary"}

InputFiles ==
  [exists : BOOLEAN, size : Nat, high : BOOLEAN, written : StlType,
   newline : BOOLEAN, lines : Nat, facets : Seq(Facet)]

HEADER_SIZE           == 84
SIZEOF_STL_FACET      == 50
STL_MIN_FILE_SIZE     == 284
ASCII_LINES_PER_FACET == 7
ProbedBytes           == 128

-----------------------------------------------------------------------------
(* stl_count_facets.                                                        *)
Type(f) == IF f.high THEN "binary" ELSE "ascii"

RightSize(f) ==
  /\ (f.size - HEADER_SIZE) % SIZEOF_STL_FACET = 0
  /\ f.size >= STL_MIN_FILE_SIZE

CanCount(f) ==
  /\ f.exists
  /\ f.size >= HEADER_SIZE + ProbedBytes
  /\ Type(f) = "binary" => RightSize(f)

(* num_lines starts from 1.                                                 *)
NumFacets(f) ==
  IF Type(f) = "binary" THEN (f.size - HEADER_SIZE) \div SIZEOF_STL_FACET
  ELSE (f.lines + 1) \div ASCII_LINES_PER_FACET

(* stl_read looks for the end of the first line of text.                    *)
Endless(f) == CanCount(f) /\ Type(f) = "ascii" /\ ~ f.newline

(* The type is left uninitialized: a merge may take the file for text.      *)
TypeUnset(f) == f.exists /\ f.size < HEADER_SIZE + ProbedBytes

(* The facets stl_read finds: those of a file of the right type, as far as  *)
(* they go, and none in binary data taken for text.                         *)
Found(f) ==
  IF Type(f) = f.written
  THEN SubSeq(f.facets, 1, Sets!Min({NumFacets(f), Len(f.facets)}))
  ELSE <<>>

-----------------------------------------------------------------------------
Axis == 1 .. 3

Least(points)    == <<Sets!Min({p[1] : p \in points}), Sets!Min({p[2] : p \in points}), Sets!Min({p[3] : p \in points})>>
Greatest(points) == <<Sets!Max({p[1] : p \in points}), Sets!Max({p[2] : p \in points}), Sets!Max({p[3] : p \in points})>>

CornersOf(facets) == {facets[k][c] : k \in DOMAIN facets, c \in Corner}

(* stl_facet_stats over the facets read: `first` starts min and max from    *)
(* them, otherwise they widen.                                              *)
Widened(stats, facets, first) ==
  IF facets = <<>> THEN stats
  ELSE LET points == CornersOf(facets) \cup (IF first THEN {} ELSE {stats.min, stats.max})
       IN  [stats EXCEPT !.min = Least(points), !.max = Greatest(points)]

(* size and bounding_diameter (squared) from min and max.                   *)
Sized(stats) ==
  LET size == Minus(stats.max, stats.min)
  IN  [stats EXCEPT !.size = size, !.diameter = Dot(size, size)]

(* stl_read, from the row number_of_facets on: it stops with an error at    *)
(* the first facet it does not find, leaving the size as it was.            *)
StlRead(mesh, f, first) ==
  LET n     == mesh.stl.number_of_facets
      found == Found(f)
      stl   == [mesh.stl EXCEPT
                 !.number_of_facets = n + NumFacets(f),
                 !.facet_start = [s \in Slot |-> IF s - n + 1 \in DOMAIN found
                                                 THEN found[s - n + 1] ELSE @[s]],
                 !.normal = [s \in Slot |-> IF s - n + 1 \in DOMAIN found
                                            THEN FacetNormal(found[s - n + 1]) ELSE @[s]],
                 !.shortest_edge = IF first /\ found # <<>>
                                   THEN MaxDiff(found[1][0], found[1][1]) ELSE @]
      stats == Widened(mesh.stats, found, first)
  IN  IF Len(found) < NumFacets(f)
      THEN [stl |-> stl, stats |-> stats, error |-> TRUE]
      ELSE [stl |-> stl, stats |-> Sized(stats), error |-> FALSE]

(* stl_open, into a structure whose dimensions are whatever was there.      *)
OpenFile(f, stats) ==
  LET empty == [stl   |-> StlOpen(<<>>, [s \in Slot |-> Zero]),
                stats |-> stats,
                error |-> TRUE]
  IN  IF CanCount(f) THEN StlRead(empty, f, TRUE) ELSE empty

(* stl_open_merge: a file that cannot be counted adds no facet, and its     *)
(* error stays in the structure that is thrown away.                        *)
OpenMerge(mesh, f) ==
  IF mesh.error THEN mesh
  ELSE IF CanCount(f) THEN StlRead(mesh, f, FALSE)
  ELSE [mesh EXCEPT !.stats = Sized(@)]

=============================================================================
