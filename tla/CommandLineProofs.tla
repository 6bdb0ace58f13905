-------------------------- MODULE CommandLineProofs --------------------------
(****************************************************************************)
(* Proofs about CommandLine, for every set of command lines and numerals.   *)
(* The program decides in one step, so the invariant needs no more than     *)
(* that a step starts from the default parameters.                          *)
(****************************************************************************)
EXTENDS CommandLine, TLAPS

LEMMA AtofInt == \A w : Atof(w) \in Int
BY NumberAssumption DEF Atof

(* What Set does to parameters: one of them changes.                        *)
LEMMA SetOne ==
  ASSUME NEW p, NEW w, p = [ld |-> p.ld, ad |-> p.ad, ir |-> p.ir]
  PROVE  /\ Set(p, "-ld", w) = [ld |-> Atof(w), ad |-> p.ad, ir |-> p.ir]
         /\ Set(p, "-ad", w) = [ld |-> p.ld, ad |-> Atof(w), ir |-> p.ir]
         /\ Set(p, "-ir", w) = [ld |-> p.ld, ad |-> p.ad, ir |-> (w = "Y")]
BY DEF Set

LEMMA SetDefault ==
  ASSUME NEW w
  PROVE  /\ Set(Default, "-ld", w) = [ld |-> Atof(w), ad |-> 1, ir |-> TRUE]
         /\ Set(Default, "-ad", w) = [ld |-> 1, ad |-> Atof(w), ir |-> TRUE]
         /\ Set(Default, "-ir", w) = [ld |-> 1, ad |-> 1, ir |-> (w = "Y")]
BY DEF Set, Default

(* The parameters after two options, in the orders Case7 sets them.         *)
LEMMA SetTwo ==
  ASSUME NEW v, NEW w
  PROVE  /\ Set(Set(Default, "-ld", v), "-ad", w) = [ld |-> Atof(v), ad |-> Atof(w), ir |-> TRUE]
         /\ Set(Set(Default, "-ad", w), "-ld", v) = [ld |-> Atof(v), ad |-> Atof(w), ir |-> TRUE]
         /\ Set(Set(Default, "-ld", v), "-ir", w) = [ld |-> Atof(v), ad |-> 1, ir |-> (w = "Y")]
         /\ Set(Set(Default, "-ir", v), "-ld", w) = [ld |-> Atof(w), ad |-> 1, ir |-> (v = "Y")]
         /\ Set(Set(Default, "-ad", v), "-ir", w) = [ld |-> 1, ad |-> Atof(v), ir |-> (w = "Y")]
         /\ Set(Set(Default, "-ir", v), "-ad", w) = [ld |-> 1, ad |-> Atof(w), ir |-> (v = "Y")]
BY SetDefault, SetOne

LEMMA SetThree ==
  ASSUME NEW u, NEW v, NEW w
  PROVE  Set(Set(Set(Default, "-ld", u), "-ad", v), "-ir", w)
           = [ld |-> Atof(u), ad |-> Atof(v), ir |-> (w = "Y")]
BY SetTwo, SetOne

-----------------------------------------------------------------------------
(****************************************************************************)
(* The invariant.                                                           *)
(****************************************************************************)
Undecided == ~ done => ~ run /\ mp = Default

LEMMA UndecidedStep == Undecided /\ [Next]_vars => Undecided'
<1> SUFFICES ASSUME Undecided, [Next]_vars PROVE Undecided'
  OBVIOUS
<1>1. \A p : Run(p) \/ Refuse \/ Ignore => done'
  BY DEF Run, Refuse, Ignore, Exit
<1>2. Case3 \/ Case5 \/ Case7 \/ Case9 \/ NoCase => done'
  BY <1>1 DEF Case3, Case5, Case7, Case9, NoCase, Parse
<1>3. CASE UNCHANGED vars
  BY <1>3 DEF Undecided, vars
<1> QED BY <1>2, <1>3 DEF Next, Exited, Undecided

LEMMA UndecidedInit == Init => Undecided
BY DEF Init, Undecided

(* A step that runs the program, seen from the decision it takes.           *)
LEMMA Running ==
  ASSUME Undecided, Next, ~ done, run'
  PROVE  \/ Len(argv) = 2 /\ mp' = Default
         \/ /\ Len(argv) = 4
            /\ \/ argv[3] = "-ld" /\ Atof(argv[4]) > 0
               \/ argv[3] = "-ad" /\ Deflection(argv[4])
               \/ argv[3] = "-ir" /\ YesNo(argv[4])
            /\ mp' = Set(Default, argv[3], argv[4])
         \/ /\ Len(argv) = 6 /\ Valid7
            /\ mp' = IF {argv[3], argv[5]} \in Pairs7
                     THEN Set(Set(Default, argv[3], argv[4]), argv[5], argv[6]) ELSE Default
         \/ /\ Len(argv) = 8 /\ Valid9
            /\ {argv[3], argv[5], argv[7]} = {"-ld", "-ad", "-ir"}
            /\ mp' = Set(Set(Set(Default, "-ld", ValueOf("-ld")), "-ad", ValueOf("-ad")),
                         "-ir", ValueOf("-ir"))
<1>1. CASE Case3
  BY <1>1 DEF Undecided, Case3, Parse, Run, Refuse, Exit
<1>2. CASE Case5
  BY <1>2 DEF Undecided, Case5, Parse, Run, Refuse, Ignore, Exit
<1>3. CASE Case7
  BY <1>3 DEF Undecided, Case7, Parse, Run, Refuse, Exit
<1>4. CASE Case9
  BY <1>4 DEF Undecided, Case9, Parse, Run, Refuse, Exit
<1>5. CASE NoCase
  BY <1>5 DEF Undecided, NoCase, Ignore, Exit
<1> QED BY <1>1, <1>2, <1>3, <1>4, <1>5 DEF Next, Exited

(* The pairs of options Case7 looks for, one order after another.           *)
LEMMA PairOrders ==
  ASSUME NEW a, NEW b
  PROVE  {a, b} \in Pairs7 <=>
           \/ (a = "-ld" /\ b = "-ad") \/ (a = "-ad" /\ b = "-ld")
           \/ (a = "-ld" /\ b = "-ir") \/ (a = "-ir" /\ b = "-ld")
           \/ (a = "-ad" /\ b = "-ir") \/ (a = "-ir" /\ b = "-ad")
<1>1. \A c, d : {a, b} = {c, d} <=> (a = c /\ b = d) \/ (a = d /\ b = c)
  <2> SUFFICES ASSUME NEW c, NEW d, {a, b} = {c, d}
               PROVE  (a = c /\ b = d) \/ (a = d /\ b = c)
    OBVIOUS
  <2>1. a \in {c, d} /\ b \in {c, d} /\ c \in {a, b} /\ d \in {a, b}
    OBVIOUS
  <2> QED BY <2>1
<1>2. {a, b} \in Pairs7 <=>
        \/ {a, b} = {"-ld", "-ad"} \/ {a, b} = {"-ld", "-ir"} \/ {a, b} = {"-ad", "-ir"}
  BY DEF Pairs7
<1>3. {a, b} = {"-ld", "-ad"} <=> (a = "-ld" /\ b = "-ad") \/ (a = "-ad" /\ b = "-ld")
  BY <1>1
<1>4. {a, b} = {"-ld", "-ir"} <=> (a = "-ld" /\ b = "-ir") \/ (a = "-ir" /\ b = "-ld")
  BY <1>1
<1>5. {a, b} = {"-ad", "-ir"} <=> (a = "-ad" /\ b = "-ir") \/ (a = "-ir" /\ b = "-ad")
  BY <1>1
<1> QED BY <1>2, <1>3, <1>4, <1>5

LEMMA PairValues ==
  ASSUME Valid7
  PROVE  /\ argv[3] = "-ld" /\ argv[5] = "-ad" => Deflection(argv[4]) /\ Deflection(argv[6])
         /\ argv[3] = "-ad" /\ argv[5] = "-ld" => Deflection(argv[4]) /\ Deflection(argv[6])
         /\ argv[3] = "-ld" /\ argv[5] = "-ir" => Deflection(argv[4])
         /\ argv[3] = "-ir" /\ argv[5] = "-ld" => Deflection(argv[6])
         /\ argv[3] = "-ad" /\ argv[5] = "-ir" => Deflection(argv[4])
         /\ argv[3] = "-ir" /\ argv[5] = "-ad" => Deflection(argv[6])
BY DEF Valid7

(* Three options in any order: each flag is in one of the three places.     *)
LEMMA TripleValues ==
  ASSUME Valid9, {argv[3], argv[5], argv[7]} = {"-ld", "-ad", "-ir"}
  PROVE  Deflection(ValueOf("-ld")) /\ Deflection(ValueOf("-ad"))
<1>1. /\ argv[3] # "-ir" => Deflection(argv[4])
      /\ argv[5] # "-ir" => Deflection(argv[6])
      /\ argv[7] # "-ir" => Deflection(argv[8])
  BY DEF Valid9
<1>2. \A f \in {"-ld", "-ad"} : argv[3] = f \/ argv[5] = f \/ argv[7] = f
  OBVIOUS
<1> QED BY <1>1, <1>2 DEF ValueOf

LEMMA DeflectionStep ==
  ASSUME Undecided, NoNegativeDeflection, [Next]_vars
  PROVE  NoNegativeDeflection'
<1>1. CASE Next /\ ~ done /\ run'
  <2>1. CASE Len(argv) = 2 /\ mp' = Default
    BY <2>1 DEF NoNegativeDeflection, Default
  <2>2. CASE /\ Len(argv) = 4
             /\ \/ argv[3] = "-ld" /\ Atof(argv[4]) > 0
                \/ argv[3] = "-ad" /\ Deflection(argv[4])
                \/ argv[3] = "-ir" /\ YesNo(argv[4])
             /\ mp' = Set(Default, argv[3], argv[4])
    BY <2>2, SetDefault, AtofInt DEF NoNegativeDeflection, Deflection
  <2>3. CASE /\ Len(argv) = 6 /\ Valid7
             /\ mp' = IF {argv[3], argv[5]} \in Pairs7
                      THEN Set(Set(Default, argv[3], argv[4]), argv[5], argv[6]) ELSE Default
    <3>1. CASE {argv[3], argv[5]} \in Pairs7
      <4>0. mp' = Set(Set(Default, argv[3], argv[4]), argv[5], argv[6])
        BY <2>3, <3>1
      <4>1. CASE argv[3] = "-ld" /\ argv[5] = "-ad"
        BY <2>3, <4>0, <4>1, PairValues, SetTwo DEF NoNegativeDeflection, Deflection
      <4>2. CASE argv[3] = "-ad" /\ argv[5] = "-ld"
        BY <2>3, <4>0, <4>2, PairValues, SetTwo DEF NoNegativeDeflection, Deflection
      <4>3. CASE argv[3] = "-ld" /\ argv[5] = "-ir"
        BY <2>3, <4>0, <4>3, PairValues, SetTwo DEF NoNegativeDeflection, Deflection
      <4>4. CASE argv[3] = "-ir" /\ argv[5] = "-ld"
        BY <2>3, <4>0, <4>4, PairValues, SetTwo DEF NoNegativeDeflection, Deflection
      <4>5. CASE argv[3] = "-ad" /\ argv[5] = "-ir"
        BY <2>3, <4>0, <4>5, PairValues, SetTwo DEF NoNegativeDeflection, Deflection
      <4>6. CASE argv[3] = "-ir" /\ argv[5] = "-ad"
        BY <2>3, <4>0, <4>6, PairValues, SetTwo DEF NoNegativeDeflection, Deflection
      <4>7. \/ (argv[3] = "-ld" /\ argv[5] = "-ad") \/ (argv[3] = "-ad" /\ argv[5] = "-ld")
           \/ (argv[3] = "-ld" /\ argv[5] = "-ir") \/ (argv[3] = "-ir" /\ argv[5] = "-ld")
           \/ (argv[3] = "-ad" /\ argv[5] = "-ir") \/ (argv[3] = "-ir" /\ argv[5] = "-ad")
        BY <3>1, PairOrders
      <4> QED BY <4>1, <4>2, <4>3, <4>4, <4>5, <4>6, <4>7
    <3>2. CASE {argv[3], argv[5]} \notin Pairs7
      BY <2>3, <3>2 DEF NoNegativeDeflection, Default
    <3> QED BY <3>1, <3>2
  <2>4. CASE /\ Len(argv) = 8 /\ Valid9
             /\ {argv[3], argv[5], argv[7]} = {"-ld", "-ad", "-ir"}
             /\ mp' = Set(Set(Set(Default, "-ld", ValueOf("-ld")), "-ad", ValueOf("-ad")),
                          "-ir", ValueOf("-ir"))
    BY <2>4, TripleValues, SetThree DEF NoNegativeDeflection, Deflection
  <2> QED BY <1>1, <2>1, <2>2, <2>3, <2>4, Running
<1>2. CASE Next /\ (done \/ ~ run')
  BY <1>2 DEF Next, NoNegativeDeflection, Case3, Case5, Case7, Case9, NoCase, Exited, vars
<1>3. CASE UNCHANGED vars
  BY <1>3 DEF NoNegativeDeflection, vars
<1> QED BY <1>1, <1>2, <1>3

(* main.cpp: whatever words stand on the command line, the mesher is not    *)
(* run with a negative deflection.                                          *)
THEOREM DeflectionsNotNegative == Spec => []NoNegativeDeflection
<1>1. Init => NoNegativeDeflection
  BY DEF Init, NoNegativeDeflection
<1>2. Undecided /\ NoNegativeDeflection /\ [Next]_vars => Undecided' /\ NoNegativeDeflection'
  BY UndecidedStep, DeflectionStep
<1> QED BY <1>1, <1>2, UndecidedInit, PTL DEF Spec

-----------------------------------------------------------------------------
(****************************************************************************)
(* The command lines the usage allows.                                      *)
(****************************************************************************)
LEMMA OptionPlaces ==
  /\ Len(argv) = 2 => Options = {}
  /\ Len(argv) = 4 => Options = {3}
  /\ Len(argv) = 6 => Options = {3, 5}
  /\ Len(argv) = 8 => Options = {3, 5, 7}
<1>1. 3 % 2 = 1 /\ 4 % 2 = 0 /\ 5 % 2 = 1 /\ 6 % 2 = 0 /\ 7 % 2 = 1 /\ 8 % 2 = 0
  OBVIOUS
<1>2. 3 .. 2 = {} /\ 3 .. 4 = {3, 4} /\ 3 .. 6 = {3, 4, 5, 6} /\ 3 .. 8 = {3, 4, 5, 6, 7, 8}
  OBVIOUS
<1> QED BY ZenonT(40), <1>1, <1>2 DEF Options

(* Each option is given once, so what is documented for its flag is the     *)
(* value after it.                                                          *)
LEMMA GivenOnce ==
  ASSUME AsUsage, NEW k \in Options
  PROVE  Given(argv[k]) /\ Documented(argv[k]) = argv[k + 1]
<1>1. \A l \in Options : argv[l] = argv[k] => l = k
  BY DEF AsUsage
<1>2. (CHOOSE l \in Options : argv[l] = argv[k]) = k
  BY <1>1
<1> QED BY <1>2 DEF Given, Documented

(* A value the usage allows passes every test of a value.                   *)
LEMMA ValueAllowed ==
  ASSUME AsUsage, NEW k \in Options
  PROVE  /\ argv[k] \in OptionFlags
         /\ argv[k] = "-ir" => YesNo(argv[k + 1])
         /\ argv[k] # "-ir" => Atof(argv[k + 1]) > 0 /\ Deflection(argv[k + 1])
<1>1. argv[k] # "-ir" => argv[k + 1] \in DOMAIN Number /\ Number[argv[k + 1]] > 0
  BY DEF AsUsage
<1>2. argv[k] # "-ir" => Atof(argv[k + 1]) \in Int /\ Atof(argv[k + 1]) > 0
  BY <1>1, AtofInt DEF Atof
<1> QED BY <1>2 DEF AsUsage, Deflection

LEMMA TwoFlags ==
  ASSUME AsUsage, Len(argv) = 6
  PROVE  {argv[3], argv[5]} \in Pairs7
<1>1. 3 \in Options /\ 5 \in Options
  BY OptionPlaces
<1>2. argv[3] # argv[5] /\ argv[3] \in OptionFlags /\ argv[5] \in OptionFlags
  BY <1>1 DEF AsUsage
<1>3. \/ (argv[3] = "-ld" /\ argv[5] = "-ad") \/ (argv[3] = "-ad" /\ argv[5] = "-ld")
      \/ (argv[3] = "-ld" /\ argv[5] = "-ir") \/ (argv[3] = "-ir" /\ argv[5] = "-ld")
      \/ (argv[3] = "-ad" /\ argv[5] = "-ir") \/ (argv[3] = "-ir" /\ argv[5] = "-ad")
  BY <1>2 DEF OptionFlags
<1> QED BY <1>3, PairOrders

LEMMA ThreeFlags ==
  ASSUME AsUsage, Len(argv) = 8
  PROVE  /\ argv[3] # argv[5] /\ argv[3] # argv[7] /\ argv[5] # argv[7]
         /\ {argv[3], argv[5], argv[7]} = {"-ld", "-ad", "-ir"}
<1>1. 3 \in Options /\ 5 \in Options /\ 7 \in Options
  BY OptionPlaces
<1>2. argv[3] # argv[5] /\ argv[3] # argv[7] /\ argv[5] # argv[7]
  BY <1>1 DEF AsUsage
<1>3. argv[3] \in OptionFlags /\ argv[5] \in OptionFlags /\ argv[7] \in OptionFlags
  BY <1>1 DEF AsUsage
<1> QED BY <1>2, <1>3 DEF OptionFlags

(* Whatever their order, ParametersHonoured is about what Running says.     *)
LEMMA HonouredStep ==
  ASSUME Undecided, ParametersHonoured, [Next]_vars
  PROVE  ParametersHonoured'
<1>0. argv' = argv
  BY DEF Next, vars, Case3, Case5, Case7, Case9, NoCase, Exited, Parse, Run, Refuse, Ignore, Exit
<1>a. (AsUsage' <=> AsUsage) /\ DocumentedParameters' = DocumentedParameters
  BY <1>0 DEF AsUsage, DocumentedParameters, Given, Documented, Options
<1>1. CASE done \/ UNCHANGED vars
  <2>1. UNCHANGED vars
    BY <1>1 DEF Next, Case3, Case5, Case7, Case9, NoCase, Exited
  <2> QED BY <1>a, <2>1 DEF ParametersHonoured, vars
<1>2. ASSUME Next, ~ done, run', AsUsage
      PROVE  mp' = DocumentedParameters
  <2>1. CASE Len(argv) = 2
    <3>1. \A f : ~ Given(f)
      BY <2>1, OptionPlaces DEF Given
    <3>2. mp' = Default
      BY <1>2, <2>1, Running
    <3> QED BY <3>1, <3>2 DEF DocumentedParameters, Default
  <2>2. CASE Len(argv) = 4
    <3>1. mp' = Set(Default, argv[3], argv[4])
      BY <1>2, <2>2, Running
    <3>2. argv[3] \in OptionFlags /\ Given(argv[3]) /\ Documented(argv[3]) = argv[4]
      BY <1>2, <2>2, OptionPlaces, GivenOnce, ValueAllowed
    <3>3. \A f \in OptionFlags : /\ Given(f) <=> f = argv[3]
                                 /\ f = argv[3] => Documented(f) = argv[4]
      BY <2>2, <3>2, OptionPlaces DEF Given
    <3>4. CASE argv[3] = "-ld"
      BY <3>1, <3>3, <3>4, SetDefault DEF DocumentedParameters, Default, OptionFlags
    <3>5. CASE argv[3] = "-ad"
      BY <3>1, <3>3, <3>5, SetDefault DEF DocumentedParameters, Default, OptionFlags
    <3>6. CASE argv[3] = "-ir"
      BY <3>1, <3>3, <3>6, SetDefault DEF DocumentedParameters, Default, OptionFlags
    <3> QED BY <3>2, <3>4, <3>5, <3>6 DEF OptionFlags
  <2>3. CASE Len(argv) = 6
    <3>1. mp' = Set(Set(Default, argv[3], argv[4]), argv[5], argv[6])
      BY <1>2, <2>3, Running, TwoFlags
    <3>2. /\ Given(argv[3]) /\ Documented(argv[3]) = argv[4]
          /\ Given(argv[5]) /\ Documented(argv[5]) = argv[6]
      BY <1>2, <2>3, OptionPlaces, GivenOnce
    <3>3. \A f \in OptionFlags : /\ Given(f) <=> f = argv[3] \/ f = argv[5]
                                 /\ f = argv[3] => Documented(f) = argv[4]
                                 /\ f = argv[5] => Documented(f) = argv[6]
      BY <2>3, <3>2, OptionPlaces DEF Given
    <3>a. {argv[3], argv[5]} \in Pairs7
      BY <1>2, <2>3, TwoFlags
    <3>4. \/ (argv[3] = "-ld" /\ argv[5] = "-ad") \/ (argv[3] = "-ad" /\ argv[5] = "-ld")
          \/ (argv[3] = "-ld" /\ argv[5] = "-ir") \/ (argv[3] = "-ir" /\ argv[5] = "-ld")
          \/ (argv[3] = "-ad" /\ argv[5] = "-ir") \/ (argv[3] = "-ir" /\ argv[5] = "-ad")
      BY <3>a, PairOrders
    <3>5. CASE argv[3] = "-ld" /\ argv[5] = "-ad"
      <4>1. mp' = Set(Set(Default, "-ld", argv[4]), "-ad", argv[6])
        BY <3>1, <3>5
      <4>2. @ = [ld |-> Atof(argv[4]), ad |-> Atof(argv[6]), ir |-> TRUE]
        BY SetTwo
      <4> QED BY <3>3, <3>5, <4>1, <4>2 DEF DocumentedParameters, Default, OptionFlags
    <3>6. CASE argv[3] = "-ad" /\ argv[5] = "-ld"
      <4>1. mp' = Set(Set(Default, "-ad", argv[4]), "-ld", argv[6])
        BY <3>1, <3>6
      <4>2. @ = [ld |-> Atof(argv[6]), ad |-> Atof(argv[4]), ir |-> TRUE]
        BY SetTwo
      <4> QED BY <3>3, <3>6, <4>1, <4>2 DEF DocumentedParameters, Default, OptionFlags
    <3>7. CASE argv[3] = "-ld" /\ argv[5] = "-ir"
      <4>1. mp' = Set(Set(Default, "-ld", argv[4]), "-ir", argv[6])
        BY <3>1, <3>7
      <4>2. @ = [ld |-> Atof(argv[4]), ad |-> 1, ir |-> (argv[6] = "Y")]
        BY SetTwo
      <4> QED BY <3>3, <3>7, <4>1, <4>2 DEF DocumentedParameters, Default, OptionFlags
    <3>8. CASE argv[3] = "-ir" /\ argv[5] = "-ld"
      <4>1. mp' = Set(Set(Default, "-ir", argv[4]), "-ld", argv[6])
        BY <3>1, <3>8
      <4>2. @ = [ld |-> Atof(argv[6]), ad |-> 1, ir |-> (argv[4] = "Y")]
        BY SetTwo
      <4> QED BY <3>3, <3>8, <4>1, <4>2 DEF DocumentedParameters, Default, OptionFlags
    <3>9. CASE argv[3] = "-ad" /\ argv[5] = "-ir"
      <4>1. mp' = Set(Set(Default, "-ad", argv[4]), "-ir", argv[6])
        BY <3>1, <3>9
      <4>2. @ = [ld |-> 1, ad |-> Atof(argv[4]), ir |-> (argv[6] = "Y")]
        BY SetTwo
      <4> QED BY <3>3, <3>9, <4>1, <4>2 DEF DocumentedParameters, Default, OptionFlags
    <3>10. CASE argv[3] = "-ir" /\ argv[5] = "-ad"
      <4>1. mp' = Set(Set(Default, "-ir", argv[4]), "-ad", argv[6])
        BY <3>1, <3>10
      <4>2. @ = [ld |-> 1, ad |-> Atof(argv[6]), ir |-> (argv[4] = "Y")]
        BY SetTwo
      <4> QED BY <3>3, <3>10, <4>1, <4>2 DEF DocumentedParameters, Default, OptionFlags
    <3> QED BY <3>4, <3>5, <3>6, <3>7, <3>8, <3>9, <3>10
  <2>4. CASE Len(argv) = 8
    <3>1. mp' = Set(Set(Set(Default, "-ld", ValueOf("-ld")), "-ad", ValueOf("-ad")),
                    "-ir", ValueOf("-ir"))
      BY <1>2, <2>4, Running
    <3>2. /\ Given(argv[3]) /\ Documented(argv[3]) = argv[4]
          /\ Given(argv[5]) /\ Documented(argv[5]) = argv[6]
          /\ Given(argv[7]) /\ Documented(argv[7]) = argv[8]
      BY <1>2, <2>4, OptionPlaces, GivenOnce
    <3>3. \A f \in {"-ld", "-ad", "-ir"} : f = argv[3] \/ f = argv[5] \/ f = argv[7]
      BY <1>2, <2>4, ThreeFlags
    <3>4. \A f \in {"-ld", "-ad", "-ir"} : Given(f) /\ Documented(f) = ValueOf(f)
      BY <3>2, <3>3 DEF ValueOf
    <3> QED BY <3>1, <3>4, SetThree DEF DocumentedParameters
  <2> QED BY <1>2, <2>1, <2>2, <2>3, <2>4, Running
<1> QED BY <1>1, <1>2, <1>a DEF ParametersHonoured

(* main.cpp: every order of the options is parsed by its own tests, and     *)
(* each gives the mesher the parameters the usage says.                     *)
THEOREM ParametersAreHonoured == Spec => []ParametersHonoured
<1>1. Init => ParametersHonoured
  BY DEF Init, ParametersHonoured
<1>2. Undecided /\ ParametersHonoured /\ [Next]_vars => Undecided' /\ ParametersHonoured'
  BY UndecidedStep, HonouredStep
<1> QED BY <1>1, <1>2, UndecidedInit, PTL DEF Spec

(* The tests of a step accept what the usage allows.                        *)
LEMMA AcceptedStep ==
  ASSUME Undecided, UsageAccepted, [Next]_vars
  PROVE  UsageAccepted'
<1>0. argv' = argv
  BY DEF Next, vars, Case3, Case5, Case7, Case9, NoCase, Exited, Parse, Run, Refuse, Ignore, Exit
<1>1. CASE done \/ UNCHANGED vars
  <2>1. UNCHANGED vars
    BY <1>1 DEF Next, Case3, Case5, Case7, Case9, NoCase, Exited
  <2> QED BY <2>1 DEF UsageAccepted, vars, AsUsage, Options
<1> DEFINE Refused == Len(argv) = 6 /\ argv[3] = "-ir" /\ argv[4] = "N" /\ argv[5] = "-ad"
<1>2. ASSUME Next, ~ done, AsUsage, ~ Refused
      PROVE  run'
  <2>0. argv[1] = "-i" /\ IsInputFile(argv[2])
    BY <1>2 DEF AsUsage
  <2>1. CASE Len(argv) = 2
    BY <1>2, <2>0, <2>1 DEF Next, Case3, Case5, Case7, Case9, NoCase, Exited, Parse, Run
  <2>2. CASE Len(argv) = 4
    <3>1. /\ argv[3] \in OptionFlags
          /\ argv[3] = "-ir" => YesNo(argv[4])
          /\ argv[3] # "-ir" => Atof(argv[4]) > 0 /\ Deflection(argv[4])
      BY <1>2, <2>2, OptionPlaces, ValueAllowed
    <3>2. Case5
      BY <1>2, <2>2 DEF Next, Case3, Case7, Case9, NoCase, Exited
    <3> QED BY <2>0, <3>1, <3>2 DEF Case5, Parse, Run, OptionFlags
  <2>3. CASE Len(argv) = 6
    <3>1. /\ argv[3] = "-ir" => YesNo(argv[4])
          /\ argv[3] # "-ir" => Deflection(argv[4])
          /\ argv[5] = "-ir" => YesNo(argv[6])
          /\ argv[5] # "-ir" => Deflection(argv[6])
      BY <1>2, <2>3, OptionPlaces, ValueAllowed
    <3>2. {argv[3], argv[5]} \in Pairs7
      BY <1>2, <2>3, TwoFlags
    <3>3. Listed7
      BY <2>0, <3>2, PairOrders DEF Listed7
    <3>4. Valid7
      BY <1>2, <2>3, <3>1, <3>2, PairOrders DEF Valid7, YesNo
    <3>5. Case7
      BY <1>2, <2>3 DEF Next, Case3, Case5, Case9, NoCase, Exited
    <3> QED BY <2>0, <3>3, <3>4, <3>5 DEF Case7, Parse, Run
  <2>4. CASE Len(argv) = 8
    <3>1. Valid9
      BY <1>2, <2>4, OptionPlaces, ValueAllowed DEF Valid9
    <3>2. Case9
      BY <1>2, <2>4 DEF Next, Case3, Case5, Case7, NoCase, Exited
    <3> QED BY <1>2, <2>0, <2>4, <3>1, <3>2, ThreeFlags DEF Case9, Parse, Run
  <2> QED BY <1>2, <2>1, <2>2, <2>3, <2>4 DEF AsUsage
<1>3. AsUsage' <=> AsUsage
  BY <1>0 DEF AsUsage, Options
<1> QED BY <1>0, <1>1, <1>2, <1>3 DEF UsageAccepted

(* main.cpp: what the usage allows is run, but for the one order whose test *)
(* looks at the other option's value.                                       *)
THEOREM UsageIsAccepted == Spec => []UsageAccepted
<1>1. Init => UsageAccepted
  BY DEF Init, UsageAccepted
<1>2. Undecided /\ UsageAccepted /\ [Next]_vars => Undecided' /\ UsageAccepted'
  BY UndecidedStep, AcceptedStep
<1> QED BY <1>1, <1>2, UndecidedInit, PTL DEF Spec

=============================================================================
