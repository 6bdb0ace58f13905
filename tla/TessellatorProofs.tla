-------------------------- MODULE TessellatorProofs --------------------------
(****************************************************************************)
(* Proofs about Tessellator, for any number of runs: types are kept, and,   *)
(* when the program is always started in its own directory, the statistics  *)
(* printed and the healed file are those of the run that reports them.      *)
(****************************************************************************)
EXTENDS Tessellator, TLAPS

-----------------------------------------------------------------------------
(****************************************************************************)
(* Type correctness.                                                        *)
(****************************************************************************)
Child == [pc : {"none", "open", "write", "writing", "stats", "exited", "crashed"},
          code : {0, 1}, dir : {"app", "other"}, mesh : [of : Version, whole : BOOLEAN]]

(* What a child reads is a version of the input: the empty version None is  *)
(* not read.                                                                *)
LEMMA MeshRead ==
  ASSUME TypeOK, raw.of # None
  PROVE  raw \in [of : Version, whole : BOOLEAN]
BY DEF TypeOK, Raw, None

(* A child may get another state and exit code, an output file or a mesh.   *)
LEMMA ChildUpdate ==
  ASSUME NEW h \in [Run -> Child], NEW c, NEW r, c \in Run => r \in Child
  PROVE  [h EXCEPT ![c] = r] \in [Run -> Child]
OBVIOUS

LEMMA ChildFields ==
  ASSUME NEW x \in Child,
         NEW p \in {"none", "open", "write", "writing", "stats", "exited", "crashed"}
  PROVE  /\ [x EXCEPT !.pc = p] \in Child
         /\ [x EXCEPT !.pc = p, !.code = 1] \in Child
         /\ \A d \in {"app", "other"} : [x EXCEPT !.pc = p, !.dir = d] \in Child
         /\ \A m \in [of : Version, whole : BOOLEAN] : [x EXCEPT !.pc = p, !.mesh = m] \in Child
BY DEF Child

(* Every action leaves every variable in its type.                          *)
LEMMA TypeStep == TypeOK /\ [Next]_vars => TypeOK'
<1> SUFFICES ASSUME TypeOK, [Next]_vars PROVE TypeOK'
  OBVIOUS
<1> USE MaxRunsAssumption, DirectoriesAssumption
<1>t. /\ run \in 0 .. MaxRuns /\ cwd \in {"app", "other"} /\ input \in Version
      /\ alone \in BOOLEAN /\ said \in BOOLEAN /\ result \in BOOLEAN
      /\ raw \in Raw /\ healed \in Healed
      /\ out \in [{"app", "other"} -> OutTxt]
      /\ child \in [Run -> Child]
      /\ printed \subseteq Run
  BY DEF TypeOK, Child
<1>1. CASE Start
  <2>1. run' \in Run /\ run' \in 0 .. MaxRuns /\ input' \in Version /\ cwd' \in {"app", "other"}
    BY <1>1, <1>t DEF Start, Run, Version
  <2>2. raw' \in Raw
    BY <1>1, <1>t, <2>1 DEF Start, Raw
  <2>3. alone' \in BOOLEAN
    BY <1>1 DEF Start
  <2> QED BY <1>1, <1>t, <2>1, <2>2, <2>3 DEF Start, TypeOK, Child
<1>2. CASE Import
  BY <1>2, <1>t DEF Import, Return, files, TypeOK, Child
<1>3. CASE OpenRaw
  <2>1. raw' \in Raw
    <3>1. [of |-> input, whole |-> FALSE] \in Raw
      BY <1>t DEF Raw
    <3> QED BY <1>3, <1>t, <3>1 DEF OpenRaw
  <2> QED BY <1>3, <1>t, <2>1 DEF OpenRaw, TypeOK, Child
<1>4. CASE CloseRaw
  <2>1. raw' \in Raw
    BY <1>4, <1>t DEF CloseRaw, Raw
  <2> QED BY <1>4, <1>t, <2>1 DEF CloseRaw, TypeOK, Child
<1>5. CASE StartChild
  <2>1. out' \in [{"app", "other"} -> OutTxt]
    BY <1>5, <1>t DEF StartChild, OutTxt
  <2>2. child' \in [Run -> Child]
    <3>1. run \in Run => [child[run] EXCEPT !.pc = "open", !.dir = cwd] \in Child
      BY <1>t, ChildFields
    <3>2. [child EXCEPT ![run] = [child[run] EXCEPT !.pc = "open", !.dir = cwd]] \in [Run -> Child]
      BY <1>t, <3>1, ChildUpdate
    <3> QED BY <1>5, <1>t, <3>2 DEF StartChild
  <2> QED BY <1>5, <1>t, <2>1, <2>2 DEF StartChild, Return, TypeOK, Child
<1>6. CASE Wait
  BY <1>6, <1>t DEF Wait, files, TypeOK, Child
<1>7. CASE ReadOutput
  <2>1. out' \in [{"app", "other"} -> OutTxt]
    <3>1. NoOutTxt \in OutTxt
      BY DEF OutTxt, NoOutTxt
    <3> QED BY <1>7, <1>t, <3>1 DEF ReadOutput
  <2>2. printed' \subseteq Run
    BY <1>7, <1>t DEF ReadOutput, OutTxt
  <2>3. pc' = "returned" /\ result' \in BOOLEAN
    BY <1>7 DEF ReadOutput, Return
  <2> QED BY <1>7, <1>t, <2>1, <2>2, <2>3 DEF ReadOutput, TypeOK, Child
<1>8. CASE Kill
  BY <1>8, <1>t DEF Kill, files, TypeOK, Child
<1>9. ASSUME NEW c \in Run, ChildStep(c) \/ ChildCrash(c)
      PROVE  TypeOK'
  <2>0. child[c] \in Child
    BY <1>t
  <2>1. child' \in [Run -> Child]
    <3> DEFINE Updated(r) == [child EXCEPT ![c] = r] \in [Run -> Child]
    <3>0. \A r \in Child : Updated(r)
      BY <1>t, ChildUpdate
    <3>1. \A p \in {"write", "writing", "stats", "exited", "crashed"} :
            /\ Updated([child[c] EXCEPT !.pc = p])
            /\ Updated([child[c] EXCEPT !.pc = p, !.code = 1])
            /\ raw.of # None => Updated([child[c] EXCEPT !.pc = p, !.mesh = raw])
      BY <2>0, <3>0, MeshRead, ChildFields
    <3>2. CASE ChildOpen(c)
      BY <3>1, <3>2 DEF ChildOpen
    <3>3. CASE ChildWrite(c)
      BY <3>1, <3>3 DEF ChildWrite
    <3>4. CASE ChildClose(c) \/ ChildExit(c) \/ ChildCrash(c)
      BY <3>1, <3>4 DEF ChildClose, ChildExit, ChildCrash
    <3> QED BY <1>9, <3>2, <3>3, <3>4 DEF ChildStep
  <2>2. healed' \in Healed
    <3>1. child[c].mesh \in [of : Version, whole : BOOLEAN]
      BY <1>t DEF Child
    <3>2. CASE ChildWrite(c)
      <4>1. [of |-> child[c].mesh.of, whole |-> FALSE, by |-> {c}] \in Healed
        BY <3>1 DEF Healed
      <4> QED BY <1>t, <3>2, <4>1 DEF ChildWrite
    <3>3. CASE ChildClose(c)
      BY <1>t, <3>1, <3>3 DEF ChildClose, Healed
    <3> QED BY <1>9, <1>t, <3>2, <3>3 DEF ChildStep, ChildOpen, ChildExit, ChildCrash, files
  <2>3. out' \in [{"app", "other"} -> OutTxt]
    <3>1. child[c].dir \in {"app", "other"}
      BY <1>t DEF Child
    <3>2. ASSUME PrintStats(c) PROVE out' \in [{"app", "other"} -> OutTxt]
      BY <1>t, <3>1, <3>2 DEF PrintStats, OutTxt
    <3> QED BY <1>9, <1>t, <3>2 DEF ChildStep, ChildOpen, ChildWrite, ChildClose, ChildExit,
                                 ChildCrash, files
  <2>4. UNCHANGED <<pc, run, cwd, alone, input, raw, said, printed, result>>
    BY <1>9 DEF ChildStep, ChildOpen, ChildWrite, ChildClose, ChildExit, ChildCrash, files
  <2> QED BY <1>t, <2>1, <2>2, <2>3, <2>4 DEF TypeOK, Child
<1>10. CASE UNCHANGED vars
  BY <1>10, <1>t DEF vars, files, TypeOK, Child
<1> QED
  BY <1>1, <1>2, <1>3, <1>4, <1>5, <1>6, <1>7, <1>8, <1>9, <1>10 DEF Next, Step, Rest

LEMMA TypeInit == Init => TypeOK
<1> SUFFICES ASSUME Init PROVE TypeOK
  OBVIOUS
<1>1. 0 \in Version /\ 0 \in 0 .. MaxRuns
  BY MaxRunsAssumption DEF Version
<1>2. raw \in Raw /\ healed \in Healed
  BY <1>1 DEF Init, Raw, Healed
<1>3. out \in [{"app", "other"} -> OutTxt]
  BY DEF Init, OutTxt, NoOutTxt
<1>4. child \in [Run -> Child]
  BY <1>1 DEF Init, Child
<1> QED BY <1>1, <1>2, <1>3, <1>4 DEF Init, TypeOK, Child

(* No run and no child of it ever leaves the states and files it may be in  *)
(* (tessellator.cpp, and main of admesh.c), whatever is killed or crashes.  *)
THEOREM TypeCorrect == Spec => []TypeOK
BY TypeInit, TypeStep, PTL DEF Spec

-----------------------------------------------------------------------------
(****************************************************************************)
(* The inductive invariant.  None of the three properties is inductive: they *)
(* speak of a run that has returned, and follow from where its child was.   *)
(****************************************************************************)
Preparing == {"import", "write", "writing", "heal"}

Ended == child[run].pc \in {"exited", "crashed"}

(* A run has a child only from StartChild on, which has ended when the run  *)
(* has seen it end.                                                         *)
Progress ==
  /\ pc # "idle" => run \in Run
  /\ cwd = "app"
  /\ \A c \in Run : c > run => child[c].pc = "none"
  /\ pc \in Preparing => child[run].pc = "none"
  /\ pc \in Preparing \cup {"wait"} => ~ said /\ ~ result
  /\ pc = "read" \/ (pc = "returned" /\ (said \/ result)) => Ended

(* A child that crashes has an exit code; in a run that started alone no    *)
(* other child is alive.                                                    *)
Children ==
  /\ \A c \in Run : child[c].pc = "crashed" => child[c].code = 1
  /\ alone => \A c \in Run : Alive(c) => c = run

(* out.txt waits for this run's statistics: no other child writes to it in  *)
(* a run that started alone, and nobody removes it.                         *)
OutTxtOwn ==
  pc \in {"wait", "read"} =>
    /\ out["app"].exists
    /\ child[run].dir = "app"
    /\ child[run].pc = "exited" /\ child[run].code = 0 => run \in out["app"].sizes
    /\ alone => out["app"].sizes \subseteq {run}

(* The healed file becomes, step by step, what this run's child made of the *)
(* raw file.                                                                *)
HealedOwn ==
  alone /\ (pc \in {"wait", "read"} \/ (pc = "returned" /\ result)) =>
    /\ child[run].pc \in {"write", "writing"} => child[run].mesh = raw
    /\ child[run].pc = "writing" => healed.of = raw.of /\ healed.by = {run}
    /\ child[run].pc \in {"stats", "exited"} /\ child[run].code = 0 =>
         healed = [of |-> raw.of, whole |-> raw.whole, by |-> {run}]

Inv ==
  /\ TypeOK
  /\ Progress
  /\ Children
  /\ OutTxtOwn
  /\ HealedOwn
  /\ StatisticsOwn
  /\ StatisticsRead

-----------------------------------------------------------------------------
(****************************************************************************)
(* Its proof, one lemma per process.                                        *)
(****************************************************************************)
LEMMA InvInit == Init => Inv
<1> SUFFICES ASSUME Init PROVE Inv
  OBVIOUS
<1>1. \A c \in Run : child[c].pc = "none"
  BY DEF Init
<1> QED
  BY <1>1, TypeInit DEF Init, Inv, Progress, Children, Alive, OutTxtOwn, HealedOwn,
                        StatisticsOwn, StatisticsRead, Preparing, None

(* The types the proofs below use.                                          *)
LEMMA Typed ==
  ASSUME TypeOK
  PROVE  /\ run \in 0 .. MaxRuns
         /\ child \in [Run -> Child]
         /\ out \in [{"app", "other"} -> OutTxt]
         /\ raw \in Raw /\ healed \in Healed
BY DEF TypeOK, Child

(* The program's own steps.                                                 *)
LEMMA ProgramStep ==
  ASSUME Directories = {"app"}, Inv, Start \/ Step \/ Kill
  PROVE  Inv'
<1>t. /\ MaxRuns \in Nat \ {0} /\ run \in 0 .. MaxRuns
      /\ child \in [Run -> Child] /\ out \in [{"app", "other"} -> OutTxt]
  BY Typed, MaxRunsAssumption DEF Inv
<1>i. Progress /\ Children /\ OutTxtOwn /\ HealedOwn /\ StatisticsOwn /\ StatisticsRead
  BY DEF Inv
<1>0. TypeOK'
  BY TypeStep DEF Inv, Next
<1>1. CASE Start
  <2>1. /\ run' = run + 1 /\ run' \in Run /\ cwd' = "app" /\ pc' = "import"
        /\ said' = FALSE /\ result' = FALSE /\ child' = child
    BY <1>1, <1>t DEF Start, Run
  <2>2. child[run'].pc = "none" /\ \A c \in Run : c > run' => child[c].pc = "none"
    BY <1>i, <1>t, <2>1 DEF Progress, Run
  <2>3. Children'
    BY <1>1, <1>i, <2>1 DEF Start, Children, Alive
  <2> QED BY <1>0, <2>1, <2>2, <2>3 DEF Inv, Progress, Preparing, OutTxtOwn, HealedOwn,
                                       StatisticsOwn, StatisticsRead
<1>2. CASE Import \/ OpenRaw \/ CloseRaw
  <2>1. /\ pc \in Preparing /\ pc' \in Preparing \cup {"returned"}
        /\ UNCHANGED <<run, cwd, alone, child, said>> /\ result' = FALSE
    BY <1>2, <1>i DEF Import, OpenRaw, CloseRaw, Return, Preparing, Progress
  <2>2. Children'
    BY <1>i, <2>1 DEF Children, Alive
  <2> QED BY <1>0, <1>i, <2>1, <2>2 DEF Inv, Progress, Preparing, OutTxtOwn, HealedOwn,
                                       StatisticsOwn, StatisticsRead
<1>3. CASE StartChild
  <2>1. /\ pc = "heal" /\ run \in Run /\ cwd = "app" /\ child[run].pc = "none"
        /\ ~ said /\ ~ result /\ out' = [out EXCEPT !["app"] = [exists |-> TRUE, sizes |-> {}]]
        /\ UNCHANGED <<run, cwd, alone, said>>
    BY <1>3, <1>i DEF StartChild, Progress, Preparing
  <2>2. out'["app"].exists /\ out'["app"].sizes = {}
    BY <1>t, <2>1
  <2>3. CASE child' = child /\ pc' = "returned" /\ result' = FALSE
    <3>1. Children'
      BY <1>i, <2>1, <2>3 DEF Children, Alive
    <3> QED BY <1>0, <1>i, <2>1, <2>3, <3>1 DEF Inv, Progress, Preparing, OutTxtOwn, HealedOwn,
                                            StatisticsOwn, StatisticsRead
  <2>4. CASE /\ child' = [child EXCEPT ![run].pc = "open", ![run].dir = cwd]
             /\ pc' = "wait" /\ UNCHANGED result
    <3>1. /\ child'[run].pc = "open" /\ child'[run].dir = "app"
          /\ \A c \in Run \ {run} : child'[c] = child[c]
      BY <1>t, <2>1, <2>4 DEF Child
    <3>2. Children'
      BY <1>i, <2>1, <3>1 DEF Children, Alive
    <3>3. Progress'
      BY <1>i, <1>t, <2>1, <2>4, <3>1 DEF Progress, Preparing, Run
    <3> QED BY <1>0, <2>1, <2>2, <2>4, <3>1, <3>2, <3>3 DEF Inv, OutTxtOwn, HealedOwn,
                                                          StatisticsOwn, StatisticsRead
  <2> QED BY <1>3, <2>3, <2>4 DEF StartChild, Return
<1>4. CASE Wait
  <2>1. /\ pc = "wait" /\ pc' = "read" /\ Ended
        /\ UNCHANGED <<run, cwd, alone, raw, healed, out, child, result>>
    BY <1>4 DEF Wait, files, Ended
  <2>2. Children'
    BY <1>i, <2>1 DEF Children, Alive
  <2> QED BY <1>0, <1>i, <2>1, <2>2 DEF Inv, Progress, Preparing, Ended, OutTxtOwn, HealedOwn,
                                       StatisticsOwn, StatisticsRead
<1>5. CASE ReadOutput
  <2>1. /\ pc = "read" /\ pc' = "returned" /\ Ended
        /\ UNCHANGED <<run, cwd, alone, raw, healed, child, said>>
    BY <1>5, <1>i DEF ReadOutput, Return, Progress
  <2>2. Children'
    BY <1>i, <2>1 DEF Children, Alive
  <2>3. Progress'
    BY <1>i, <2>1 DEF Progress, Preparing, Ended
  <2>4. HealedOwn'
    BY <1>i, <2>1 DEF HealedOwn
  <2>5. StatisticsOwn'
    <3>1. result' => out["app"].sizes # {} /\ printed' = out["app"].sizes
      BY <1>5 DEF ReadOutput, Return
    <3>2. alone => out["app"].sizes \subseteq {run}
      BY <1>i, <2>1 DEF OutTxtOwn
    <3> QED BY <2>1, <3>1, <3>2 DEF StatisticsOwn
  <2>6. StatisticsRead'
    <3>1. ~ result' => out["app"].sizes = {}
      BY <1>5 DEF ReadOutput, Return
    <3>2. child[run].code = 0 => run \in out["app"].sizes
      <4>1. run \in Run /\ (child[run].pc = "crashed" => child[run].code = 1)
        BY <1>i, <2>1 DEF Progress, Children
      <4> QED BY <1>i, <2>1, <4>1 DEF OutTxtOwn, Ended
    <3> QED BY <2>1, <3>1, <3>2 DEF StatisticsRead
  <2> QED BY <1>0, <2>1, <2>2, <2>3, <2>4, <2>5, <2>6 DEF Inv, OutTxtOwn
<1>6. CASE Kill
  <2>1. pc' = "idle" /\ UNCHANGED <<run, cwd, alone, child>>
    BY <1>6 DEF Kill
  <2>2. Children'
    BY <1>i, <2>1 DEF Children, Alive
  <2> QED BY <1>0, <1>i, <2>1, <2>2 DEF Inv, Progress, Preparing, OutTxtOwn, HealedOwn,
                                       StatisticsOwn, StatisticsRead
<1> QED BY <1>1, <1>2, <1>3, <1>4, <1>5, <1>6 DEF Step

(* The steps of a child, of this run or of an earlier one.                  *)
LEMMA ChildrenStep ==
  ASSUME Inv, NEW c \in Run, ChildStep(c) \/ ChildCrash(c)
  PROVE  Inv'
<1>t. /\ run \in 0 .. MaxRuns /\ child \in [Run -> Child] /\ child[c] \in Child
      /\ out \in [{"app", "other"} -> OutTxt] /\ healed \in Healed
  BY Typed DEF Inv
<1>i. Progress /\ Children /\ OutTxtOwn /\ HealedOwn /\ StatisticsOwn /\ StatisticsRead
  BY DEF Inv
<1>0. TypeOK'
  BY TypeStep DEF Inv, Next
<1>1. /\ Alive(c)
      /\ UNCHANGED <<pc, run, cwd, alone, input, raw, said, printed, result>>
  BY DEF ChildStep, ChildOpen, ChildWrite, ChildClose, ChildExit, ChildCrash, Alive, files
<1>2. /\ \A d \in Run \ {c} : child'[d] = child[d]
      /\ child'[c].dir = child[c].dir
      /\ child'[c].pc \in {"write", "writing", "stats", "exited", "crashed"}
      /\ child'[c].code = 0 => child[c].code = 0
  BY <1>t DEF ChildStep, ChildOpen, ChildWrite, ChildClose, ChildExit, ChildCrash, Child
<1>3. child'[c].pc = "crashed" => child'[c].code = 1
  BY <1>t DEF ChildStep, ChildOpen, ChildWrite, ChildClose, ChildExit, ChildCrash, Child
(* What happens to out.txt: only the Size section of c may be added.        *)
<1>4. /\ out'["app"].exists = out["app"].exists
      /\ out["app"].sizes \subseteq out'["app"].sizes
      /\ out'["app"].sizes \subseteq out["app"].sizes \cup {c}
  <2>1. CASE PrintStats(c)
    BY <1>t, <2>1 DEF PrintStats, Child, OutTxt
  <2> QED BY <2>1 DEF ChildStep, ChildOpen, ChildWrite, ChildClose, ChildExit, ChildCrash, files
<1>5. /\ ~ Ended => pc # "read" /\ ~ (pc = "returned" /\ (said \/ result))
      /\ c = run => ~ Ended /\ pc \notin Preparing
      /\ c <= run
  BY <1>1, <1>i, <1>t DEF Progress, Alive, Ended, Run
<1>6. Progress'
  BY <1>i, <1>1, <1>2, <1>5, <1>t DEF Progress, Ended, Run
<1>7. Children'
  BY <1>i, <1>1, <1>2, <1>3 DEF Children, Alive
<1>8. OutTxtOwn'
  <2> SUFFICES ASSUME pc \in {"wait", "read"}
               PROVE  /\ out'["app"].exists
                      /\ child'[run].dir = "app"
                      /\ child'[run].pc = "exited" /\ child'[run].code = 0 =>
                           run \in out'["app"].sizes
                      /\ alone => out'["app"].sizes \subseteq {run}
    BY <1>1 DEF OutTxtOwn
  <2>1. run \in Run /\ (c # run => child'[run] = child[run])
    BY <1>i, <1>2 DEF Progress
  <2>2. out'["app"].exists /\ child'[run].dir = "app"
    BY <1>i, <1>2, <1>4, <2>1 DEF OutTxtOwn
  <2>3. alone => out'["app"].sizes \subseteq {run}
    BY <1>i, <1>1, <1>4 DEF OutTxtOwn, Children
  <2>4. ASSUME child'[run].pc = "exited", child'[run].code = 0
        PROVE  run \in out'["app"].sizes
    <3>1. CASE c # run
      BY <1>i, <1>4, <2>1, <2>4, <3>1 DEF OutTxtOwn
    <3>2. CASE c = run
      <4>1. ChildExit(c)
        BY <1>t, <2>4, <3>2 DEF ChildStep, ChildOpen, ChildWrite, ChildClose, ChildCrash, Child
      <4>2. child[c].dir = "app" /\ out["app"].exists
        BY <1>i, <3>2 DEF OutTxtOwn
      <4> QED BY <1>t, <3>2, <4>1, <4>2 DEF ChildExit, PrintStats, OutTxt
    <3> QED BY <3>1, <3>2
  <2> QED BY <2>2, <2>3, <2>4
<1>9. HealedOwn'
  <2> SUFFICES ASSUME alone, pc \in {"wait", "read"} \/ (pc = "returned" /\ result)
               PROVE  /\ child'[run].pc \in {"write", "writing"} => child'[run].mesh = raw
                      /\ child'[run].pc = "writing" => healed'.of = raw.of /\ healed'.by = {run}
                      /\ child'[run].pc \in {"stats", "exited"} /\ child'[run].code = 0 =>
                           healed' = [of |-> raw.of, whole |-> raw.whole, by |-> {run}]
    BY <1>1 DEF HealedOwn
  <2>1. c = run
    BY <1>i, <1>1 DEF Children
  <2>2. /\ child[c].pc \in {"write", "writing"} => child[c].mesh = raw
        /\ child[c].pc = "writing" => healed.of = raw.of /\ healed.by = {c}
        /\ child[c].pc \in {"stats", "exited"} /\ child[c].code = 0 =>
             healed = [of |-> raw.of, whole |-> raw.whole, by |-> {c}]
    BY <1>i, <2>1 DEF HealedOwn
  <2>3. CASE ChildOpen(c)
    BY <1>t, <2>1, <2>3 DEF ChildOpen, Child
  <2>4. CASE ChildWrite(c)
    BY <1>t, <2>1, <2>2, <2>4 DEF ChildWrite, Child
  <2>5. CASE ChildClose(c)
    <3>1. child'[c].pc = "stats"
      BY <1>t, <2>5 DEF ChildClose, Child
    <3>2. child[c].mesh = raw /\ healed.of = raw.of /\ healed.by = {c}
      BY <2>2, <2>5 DEF ChildClose
    <3>3. healed'.of = raw.of /\ healed'.by = {c} /\ (healed'.whole <=> raw.whole)
      BY <1>t, <2>5, <3>2 DEF ChildClose, Healed
    <3>4. healed' = [of |-> healed'.of, whole |-> healed'.whole, by |-> healed'.by]
      BY <1>0 DEF TypeOK, Healed
    <3>5. healed'.whole = raw.whole
      BY <1>0, <1>1, <3>3 DEF TypeOK, Healed, Raw
    <3> QED BY <2>1, <3>1, <3>3, <3>4, <3>5
  <2>6. CASE ChildExit(c)
    BY <1>t, <2>1, <2>2, <2>6 DEF ChildExit, Child
  <2>7. CASE ChildCrash(c)
    BY <1>t, <2>1, <2>7 DEF ChildCrash, Child
  <2> QED BY <2>3, <2>4, <2>5, <2>6, <2>7 DEF ChildStep
<1>10. StatisticsOwn'
  BY <1>i, <1>1 DEF StatisticsOwn
<1>11. StatisticsRead'
  <2>1. pc = "returned" /\ said => c # run
    BY <1>5
  <2>2. pc = "returned" => run \in Run
    BY <1>i DEF Progress
  <2> QED BY <1>i, <1>1, <1>2, <2>1, <2>2 DEF StatisticsRead
<1> QED BY <1>0, <1>6, <1>7, <1>8, <1>9, <1>10, <1>11 DEF Inv

LEMMA InvStutters == Inv /\ UNCHANGED vars => Inv'
<1> SUFFICES ASSUME Inv, UNCHANGED vars PROVE Inv'
  OBVIOUS
<1>1. TypeOK'
  BY TypeStep DEF Inv
<1>2. Progress' /\ Children'
  BY DEF Inv, vars, files, Progress, Ended, Children, Alive
<1>3. OutTxtOwn' /\ HealedOwn'
  BY DEF Inv, vars, files, OutTxtOwn, HealedOwn
<1>4. StatisticsOwn' /\ StatisticsRead'
  BY DEF Inv, vars, files, StatisticsOwn, StatisticsRead
<1> QED BY <1>1, <1>2, <1>3, <1>4 DEF Inv

(* However often the program is run in its own directory, killed, or left   *)
(* with a crashed child, the invariant holds.                               *)
THEOREM Inductive ==
  ASSUME Directories = {"app"}
  PROVE  Spec => []Inv
<1>1. Inv /\ [Next]_vars => Inv'
  BY ProgramStep, ChildrenStep, InvStutters DEF Next, Rest
<1> QED BY <1>1, InvInit, PTL DEF Spec

-----------------------------------------------------------------------------
(****************************************************************************)
(* The properties, for any number of runs.                                  *)
(****************************************************************************)
(* tessellator.cpp, readOutput: the statistics printed are this run's own.  *)
THEOREM StatisticsAreOwn ==
  ASSUME Directories = {"app"}
  PROVE  Spec => []StatisticsOwn
<1>1. Inv => StatisticsOwn
  BY DEF Inv
<1> QED BY <1>1, Inductive, PTL

(* tessellator.cpp, perform: a child that has done all its work makes       *)
(* perform return true.                                                     *)
THEOREM StatisticsAreRead ==
  ASSUME Directories = {"app"}
  PROVE  Spec => []StatisticsRead
<1>1. Inv => StatisticsRead
  BY DEF Inv
<1> QED BY <1>1, Inductive, PTL

(* tessellator.cpp, perform: if it returns true and its child has found     *)
(* nothing wrong, the healed file is complete, and made of the raw file     *)
(* beside it.                                                               *)
THEOREM HealedIsThisRuns ==
  ASSUME Directories = {"app"}
  PROVE  Spec => []HealedByThisRun
<1>1. ASSUME Inv, pc = "returned", result, alone, child[run].code = 0
      PROVE  healed = [of |-> raw.of, whole |-> raw.whole, by |-> {run}]
  <2>1. run \in Run /\ Ended /\ (child[run].pc = "crashed" => child[run].code = 1)
    BY <1>1 DEF Inv, Progress, Children
  <2>2. child[run].pc = "exited"
    BY <1>1, <2>1 DEF Ended
  <2> QED BY <1>1, <2>2 DEF Inv, HealedOwn
<1>2. Inv => HealedByThisRun
  BY <1>1 DEF HealedByThisRun
<1> QED BY <1>2, Inductive, PTL

=============================================================================
