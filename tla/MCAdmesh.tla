------------------------------- MODULE MCAdmesh -------------------------------
(****************************************************************************)
(* Instance of Admesh: every two options, and every three of those that     *)
(* move the mesh, on files with a tetrahedron, with other meshes, and with  *)
(* something wrong.                                                         *)
(****************************************************************************)
EXTENDS Admesh

MCMaxFacets == 8

A == <<1, 2, 3>>
B == <<5, 2, 3>>
C == <<1, 7, 3>>
D == <<1, 2, 9>>

MCVertex == {A, B, C, D}

Tri(a, b, c) == [corner \in Corner |-> <<a, b, c>>[corner + 1]]

Tetrahedron == <<Tri(A, C, B), Tri(A, B, D), Tri(B, C, D), Tri(C, A, D)>>

(* A file as a program writes it: two lines around those of the facets, the *)
(* last one ended or not.                                                   *)
Text(facets, lines) ==
  [exists |-> TRUE, size |-> 400, high |-> FALSE, written |-> "ascii",
   newline |-> TRUE, lines |-> lines, facets |-> facets]

Binary(facets, high, lines, extra) ==
  [exists |-> TRUE, size |-> 84 + 50 * Len(facets) + extra, high |-> high,
   written |-> "binary", newline |-> lines > 0, lines |-> lines, facets |-> facets]

MCFiles ==
  [name \in {"solid.stl", "unended.stl", "binary.stl", "open.stl", "one.stl", "none.stl",
             "cut.stl", "low.stl", "lowline.stl", "lowlines.stl", "odd.stl", "short.stl",
             "tiny.stl", "missing.stl", "small.stl"} |->
    CASE name = "solid.stl"   -> Text(Tetrahedron, 30)
      [] name = "unended.stl" -> Text(Tetrahedron, 29)
      [] name = "open.stl"    -> Text(SubSeq(Tetrahedron, 2, 3), 16)
      [] name = "one.stl"     -> Text(SubSeq(Tetrahedron, 1, 1), 9)
      [] name = "none.stl"    -> Text(<<>>, 2)
      [] name = "cut.stl"     -> Text(SubSeq(Tetrahedron, 1, 3), 27)
      [] name = "binary.stl"  -> Binary(Tetrahedron, TRUE, 3, 0)
      [] name = "odd.stl"     -> Binary(Tetrahedron, TRUE, 3, 1)
      \* below the least size of a binary file
      [] name = "small.stl"   -> Binary(SubSeq(Tetrahedron, 1, 3), TRUE, 3, 0)
      \* no byte above 127: taken for text
      [] name = "low.stl"      -> Binary(Tetrahedron, FALSE, 0, 0)
      [] name = "lowline.stl"  -> Binary(Tetrahedron, FALSE, 3, 0)
      [] name = "lowlines.stl" -> Binary(Tetrahedron, FALSE, 9, 0)
      [] name = "short.stl"   -> [Text(<<>>, 2) EXCEPT !.size = 90]
      [] name = "tiny.stl"    -> [Text(<<>>, 0) EXCEPT !.size = 3, !.newline = FALSE]
      [] name = "missing.stl" -> [Text(<<>>, 0) EXCEPT !.exists = FALSE]]

MCUnwritable == {"readonly"}
MCGarbage    == {[min |-> Zero, max |-> Zero], [min |-> <<9, -9, 3>>, max |-> <<0, 4, 0>>]}

Switch(name)         == [name |-> name, points |-> <<>>, file |-> ""]
Numbers(name, point) == [name |-> name, points |-> <<point>>, file |-> ""]
Naming(name, file)   == [name |-> name, points |-> <<>>, file |-> file]
Stretches(low, high, offset) ==
  [name |-> "stretch", points |-> <<low, high, offset>>, file |-> ""]

Far == 1000

Movings ==
  {Switch(name) : name \in {"x-rotate", "y-rotate", "z-rotate", "xy-mirror", "yz-mirror", "xz-mirror"}}
  \cup {Numbers("scale", <<2, 2, 2>>), Numbers("scale", <<-1, -1, -1>>),
        Numbers("scale-xyz", <<1, 2, 3>>), Numbers("scale-xyz", <<2, 0, 1>>),
        Numbers("translate", <<0, 0, 0>>), Numbers("translate", <<4, -5, 6>>),
        Numbers("translate-rel", <<-7, 1, 2>>),
        Stretches(<<-Far, -Far, 4>>, <<Far, Far, Far>>, <<0, 0, 5>>),
        Stretches(<<2, -Far, -Far>>, <<Far, Far, Far>>, <<-8, 1, 0>>),
        Naming("merge", "solid.stl")}

Others ==
  {Switch(name) : name \in {"exact", "no-check", "reverse-all", "normal-values", "help", "version", "?"}}
  \cup {Naming("merge", name) : name \in DOMAIN MCFiles}
  \cup {Naming(name, file) : name \in Outputs, file \in {"out", "readonly"}}

Writings ==
  {Naming("merge", name) : name \in {"solid.stl", "cut.stl", "odd.stl", "lowline.stl"}}
  \cup {Naming(name, file) : name \in Outputs, file \in {"out", "readonly"}}

(* Outputs along links that no check has set.                               *)
Unchecked ==
  {<<Switch(check), Naming("merge", "solid.stl"), Naming(output, "out")>> :
     check \in {"no-check", "reverse-all", "normal-values"}, output \in {"write-off", "write-dxf"}}

Line(options, file) == [options |-> options, file |-> file]

MCCommandLines ==
  {Line(<<>>, file) : file \in DOMAIN MCFiles} \cup
  {Line(<<o>>, file) : o \in Movings \cup Others, file \in DOMAIN MCFiles} \cup
  {Line(<<o, q>>, file) : o \in Movings \cup Others, q \in Movings \cup Others,
                          file \in {"solid.stl", "open.stl"}} \cup
  {Line(<<o, q, r>>, "binary.stl") : o \in Movings, q \in Movings, r \in Movings} \cup
  {Line(<<o, q, r>>, "unended.stl") : o \in Writings, q \in Writings, r \in Writings} \cup
  {Line(options, file) : options \in Unchecked, file \in {"solid.stl", "one.stl", "none.stl"}}

=============================================================================
