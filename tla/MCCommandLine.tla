---------------------------- MODULE MCCommandLine ----------------------------
(****************************************************************************)
(* Instance of CommandLine: every command line of up to three options.      *)
(****************************************************************************)
EXTENDS CommandLine

MCNumber == [w \in {"-0.5", "0", "0.5"} |->
               CASE w = "-0.5" -> -5 [] w = "0" -> 0 [] w = "0.5" -> 5]

MCInputFiles == {"part.stp"}

OptionPairs ==
  {"-ld", "-ad", "-la", "-ir"} \X {"-0.5", "0", "0.5", "Y", "N"}

Prefixes == {"-i", "-o"} \X {"part.stp", "part.txt"}

(* No argument, -i alone, and -i with up to three options, the last of      *)
(* which may lack its value.                                                *)
MCCommandLines ==
  {<<>>, <<"-i">>} \cup Prefixes \cup
  {p \o o : p \in Prefixes, o \in OptionPairs} \cup
  {p \o o \o q : p \in Prefixes, o \in OptionPairs, q \in OptionPairs} \cup
  {<<"-i", "part.stp">> \o o \o q \o r :
     o \in OptionPairs, q \in OptionPairs, r \in OptionPairs} \cup
  {<<"-i", "part.stp">> \o o \o <<f>> : o \in OptionPairs, f \in {"-ld", "-ir"}}

=============================================================================
