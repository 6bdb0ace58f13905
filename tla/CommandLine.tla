----------------------------- MODULE CommandLine -----------------------------
(****************************************************************************)
(* main of main.cpp: the command line decides whether the tessellator is run *)
(* and with which meshing parameters.  There is one case per argument count, *)
(* each with its own tests, and each an action here.                        *)
(*                                                                          *)
(* argv is the sequence of arguments without the program's name.  A word is *)
(* a string TLC only compares; what atof makes of it is a constant.         *)
(****************************************************************************)
EXTENDS Integers, Sequences, FiniteSets

CONSTANTS
  CommandLines,  \* the command lines tried: sequences of words
  InputFiles,    \* words that name an existing file with a known extension
  Number         \* the numerals: word |-> value, in tenths

ASSUME NumberAssumption == \A w \in DOMAIN Number : Number[w] \in Int

VARIABLES argv, done, run, code, mp

vars == <<argv, done, run, code, mp>>

(* The default meshing parameters: 0.1, 0.1, relative.                      *)
Default == [ld |-> 1, ad |-> 1, ir |-> TRUE]

Init ==
  /\ argv \in CommandLines
  /\ done = FALSE /\ run = FALSE /\ code = 0
  /\ mp = Default

Atof(w) == IF w \in DOMAIN Number THEN Number[w] ELSE 0

(* inputFileNameToOutputFileName: the file exists and has one of the six    *)
(* known extensions.                                                        *)
IsInputFile(w) == w \in InputFiles

Set(p, flag, w) ==
  CASE flag = "-ld" -> [p EXCEPT !.ld = Atof(w)]
    [] flag = "-ad" -> [p EXCEPT !.ad = Atof(w)]
    [] flag = "-ir" -> [p EXCEPT !.ir = (w = "Y")]

Deflection(w) == Atof(w) >= 0
YesNo(w) == w \in {"Y", "N"}

Exit(c) == /\ done' = TRUE
           /\ code' = c
           /\ UNCHANGED argv

(* perform is called; its result is not looked at.                          *)
Run(p) == Exit(0) /\ run' = TRUE /\ mp' = p

Refuse == Exit(1) /\ UNCHANGED <<run, mp>>

(* The switch is left, or there is no case: the program ends with 0.        *)
Ignore == Exit(0) /\ UNCHANGED <<run, mp>>

Parse(accepted, p) ==
  IF accepted /\ IsInputFile(argv[2]) THEN Run(p) ELSE Refuse

-----------------------------------------------------------------------------
(* -i <input file>                                                          *)
Case3 ==
  /\ ~ done /\ Len(argv) = 2
  /\ Parse(argv[1] = "-i", mp)

(* One option.  A linear deflection of 0 is refused here.                   *)
Case5 ==
  /\ ~ done /\ Len(argv) = 4
  /\ IF argv[1] = "-i" /\ argv[3] \in {"-ld", "-ad", "-ir"}
     THEN Parse(CASE argv[3] = "-ld" -> Atof(argv[4]) > 0
                  [] argv[3] = "-ad" -> Deflection(argv[4])
                  [] argv[3] = "-ir" -> YesNo(argv[4]),
                Set(mp, argv[3], argv[4]))
     ELSE Ignore

(* Mutation of Listed7: the last pair is not listed.                        *)
Listed7TwoPairs ==
  argv[1] = "-i" /\ {argv[3], argv[5]} \in {{"-ld", "-ad"}, {"-ld", "-ir"}}

(* Two options.  A misplaced parenthesis negates the last two alternatives  *)
(* of the test, and takes the last one out of the conjunction.              *)
Listed7 ==
  \/ /\ argv[1] = "-i"
     /\ \/ {argv[3], argv[5]} \in {{"-ld", "-ad"}, {"-ld", "-ir"}}
        \/ ~ (argv[3] = "-ad" /\ argv[5] # "-ir")
  \/ ~ (argv[3] = "-ir" /\ argv[5] # "-ad")

(* Mutation of Valid7: the negative second deflection is let through.       *)
Valid7FirstOnly ==
  CASE {argv[3], argv[5]} = {"-ld", "-ad"} -> Deflection(argv[4])
    [] argv[3] = "-ld" /\ argv[5] = "-ir"  -> Deflection(argv[4]) /\ YesNo(argv[6])
    [] argv[3] = "-ir" /\ argv[5] = "-ld"  -> YesNo(argv[4]) /\ Deflection(argv[6])
    [] argv[3] = "-ad" /\ argv[5] = "-ir"  -> Deflection(argv[4]) /\ YesNo(argv[6])
    [] argv[3] = "-ir" /\ argv[5] = "-ad"  ->
         (argv[4] = "Y" \/ argv[6] = "N") /\ Deflection(argv[6])
    [] OTHER -> TRUE

(* The tests of the two values.  The last one looks at argv[6] for "N"      *)
(* where argv[4] is the value of -ir.                                       *)
Valid7 ==
  CASE {argv[3], argv[5]} = {"-ld", "-ad"} -> Deflection(argv[4]) /\ Deflection(argv[6])
    [] argv[3] = "-ld" /\ argv[5] = "-ir"  -> Deflection(argv[4]) /\ YesNo(argv[6])
    [] argv[3] = "-ir" /\ argv[5] = "-ld"  -> YesNo(argv[4]) /\ Deflection(argv[6])
    [] argv[3] = "-ad" /\ argv[5] = "-ir"  -> Deflection(argv[4]) /\ YesNo(argv[6])
    [] argv[3] = "-ir" /\ argv[5] = "-ad"  ->
         (argv[4] = "Y" \/ argv[6] = "N") /\ Deflection(argv[6])
    [] OTHER -> TRUE

Pairs7 == {{"-ld", "-ad"}, {"-ld", "-ir"}, {"-ad", "-ir"}}

Case7 ==
  /\ ~ done /\ Len(argv) = 6
  /\ Parse(Listed7 /\ Valid7,
           IF {argv[3], argv[5]} \in Pairs7
           THEN Set(Set(mp, argv[3], argv[4]), argv[5], argv[6]) ELSE mp)

(* Three options.                                                           *)
Valid9 ==
  \A k \in {3, 5, 7} :
    IF argv[k] = "-ir" THEN YesNo(argv[k + 1]) ELSE Deflection(argv[k + 1])

(* Mutation of ValueOf: the option is looked for in the first two places.   *)
ValueOfTwo(flag) == IF argv[3] = flag THEN argv[4] ELSE argv[6]

ValueOf(flag) ==
  IF argv[3] = flag THEN argv[4] ELSE IF argv[5] = flag THEN argv[6] ELSE argv[8]

Case9 ==
  /\ ~ done /\ Len(argv) = 8
  /\ Parse(/\ argv[1] = "-i"
           /\ {argv[3], argv[5], argv[7]} = {"-ld", "-ad", "-ir"}
           /\ Valid9,
           Set(Set(Set(mp, "-ld", ValueOf("-ld")), "-ad", ValueOf("-ad")),
               "-ir", ValueOf("-ir")))

(* No argument (the usage is printed), or a count without a case.           *)
NoCase ==
  /\ ~ done /\ Len(argv) \notin {2, 4, 6, 8}
  /\ Ignore

Exited == done /\ UNCHANGED vars

Next == Case3 \/ Case5 \/ Case7 \/ Case9 \/ NoCase \/ Exited

Spec == Init /\ [][Next]_vars

-----------------------------------------------------------------------------
(****************************************************************************)
(* The reference: the usage text (printUsage in main.cpp).                  *)
(****************************************************************************)
OptionFlags == {"-ld", "-ad", "-ir"}

Options == {k \in 3 .. Len(argv) : k % 2 = 1}   \* where the options stand

(* -i and an input file, then every option at most once, in any order, with *)
(* a positive deflection or with Y or N.                                    *)
AsUsage ==
  /\ Len(argv) \in {2, 4, 6, 8}
  /\ argv[1] = "-i" /\ IsInputFile(argv[2])
  /\ \A k \in Options :
       /\ argv[k] \in OptionFlags
       /\ \A l \in Options : argv[k] = argv[l] => k = l
       /\ IF argv[k] = "-ir" THEN YesNo(argv[k + 1])
          ELSE argv[k + 1] \in DOMAIN Number /\ Number[argv[k + 1]] > 0

Given(flag) == \E k \in Options : argv[k] = flag
Documented(flag) == argv[(CHOOSE k \in Options : argv[k] = flag) + 1]

(* Every parameter is what the option for it says, wherever among the       *)
(* others it stands, and the default when it is not given.                  *)
DocumentedParameters ==
  [ld |-> IF Given("-ld") THEN Atof(Documented("-ld")) ELSE Default.ld,
   ad |-> IF Given("-ad") THEN Atof(Documented("-ad")) ELSE Default.ad,
   ir |-> IF Given("-ir") THEN Documented("-ir") = "Y" ELSE Default.ir]

-----------------------------------------------------------------------------
(****************************************************************************)
(* Properties.                                                              *)
(****************************************************************************)
(* A command line written as the usage says, if the program runs with it at *)
(* all, gives the parameters it names, in whatever order the options stand, *)
(* although the cases of the switch parse each order separately.            *)
ParametersHonoured == run /\ AsUsage => mp = DocumentedParameters

(* No command line, not even one the faulty test for two options lets       *)
(* through, makes the mesher run with a negative deflection.                *)
NoNegativeDeflection == run => mp.ld >= 0 /\ mp.ad >= 0

(* A command line written as the usage says runs the program, whichever     *)
(* case of the switch parses it (printUsage: "-ir Y/N [is relative          *)
(* parameter - optional]").  Not `-ir N -ad <value>`: the test of the first *)
(* value looks at the second one, and refuses it.                           *)
UsageAccepted ==
  done /\ AsUsage /\ ~ (Len(argv) = 6 /\ argv[3] = "-ir" /\ argv[4] = "N" /\ argv[5] = "-ad") => run

=============================================================================
