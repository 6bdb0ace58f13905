----------------------------- MODULE Tessellator -----------------------------
(****************************************************************************)
(* The program itself (tessellator.cpp): it imports the input file, writes   *)
(* its tessellation, starts ADMesh (tex.exe) on it as a child process whose *)
(* output goes to out.txt, waits for the child and reads out.txt back.      *)
(*                                                                          *)
(* The program is run again and again on the same input, which may change   *)
(* between runs; it may be killed at any moment, and its child then goes on *)
(* alone; the child may crash.  The files outlive the processes.  The       *)
(* content of a file is the version of the input it was made from.  What    *)
(* happens inside the child's repair is the module Repair; here it ends.    *)
(****************************************************************************)
EXTENDS Integers, FiniteSets

CONSTANTS
  Format,       \* of the input file: "STL" or "STEP"
  Directories,  \* the working directories used: "app" is the executable's own
  MaxRuns       \* bound: how often the program is run

ASSUME FormatAssumption == Format \in {"STL", "STEP"}
ASSUME DirectoriesAssumption == Directories \subseteq {"app", "other"} /\ Directories # {}
ASSUME MaxRunsAssumption == MaxRuns \in Nat \ {0}

Run == 1 .. MaxRuns
Version == 0 .. MaxRuns
None == -1   \* the version of a file that does not exist

VARIABLES
  pc, run,  \* where the program is, and which run of it this is
  cwd,      \* its working directory
  alone,    \* no child of an earlier run was alive when this run started
  input,    \* the version of the input file
  raw,      \* <input>.stl, which for an STL input is the input file
  healed,   \* <input>_H.stl
  out,      \* out.txt in each directory: whose Size sections it holds
  child,    \* the child process of each run
  said,     \* "Mesh healing completed" was printed
  printed,  \* whose statistics were printed
  result    \* what perform returned

files == <<raw, healed, out>>
vars == <<pc, run, cwd, alone, input, files, child, said, printed, result>>

Raw == [of : Version \cup {None}, whole : BOOLEAN]
Healed == [of : Version \cup {None}, whole : BOOLEAN, by : SUBSET Run]
OutTxt == [exists : BOOLEAN, sizes : SUBSET Run]

TypeOK ==
  /\ pc \in {"idle", "import", "write", "writing", "heal", "wait", "read", "returned"}
  /\ run \in 0 .. MaxRuns
  /\ cwd \in {"app", "other"}
  /\ {alone, said, result} \subseteq BOOLEAN
  /\ input \in Version
  /\ raw \in Raw
  /\ healed \in Healed
  /\ out \in [{"app", "other"} -> OutTxt]
  /\ child \in [Run -> [pc : {"none", "open", "write", "writing", "stats", "exited", "crashed"},
                        code : {0, 1}, dir : {"app", "other"},
                        mesh : [of : Version, whole : BOOLEAN]]]
  /\ printed \subseteq Run

NoOutTxt == [exists |-> FALSE, sizes |-> {}]

Alive(c) == child[c].pc \in {"open", "write", "writing", "stats"}

Init ==
  /\ pc = "idle" /\ run = 0 /\ cwd = "app" /\ alone = TRUE
  /\ input = 0
  /\ raw = IF Format = "STL" THEN [of |-> 0, whole |-> TRUE] ELSE [of |-> None, whole |-> FALSE]
  /\ healed = [of |-> None, whole |-> FALSE, by |-> {}]
  /\ out = [d \in {"app", "other"} |-> NoOutTxt]
  /\ child = [c \in Run |-> [pc |-> "none", code |-> 0, dir |-> "app",
                             mesh |-> [of |-> 0, whole |-> FALSE]]]
  /\ said = FALSE /\ printed = {} /\ result = FALSE

-----------------------------------------------------------------------------
(****************************************************************************)
(* The program.                                                             *)
(****************************************************************************)
Return(value) == pc' = "returned" /\ result' = value

(* The user, who may have edited the input, runs the program.               *)
Start ==
  /\ pc \in {"idle", "returned"}
  /\ run < MaxRuns
  /\ run' = run + 1
  /\ cwd' \in Directories
  /\ input' \in {input, run + 1}
  /\ raw' = IF Format = "STL" THEN [of |-> input', whole |-> TRUE] ELSE raw
  /\ alone' = \A c \in Run : ~ Alive(c)
  /\ pc' = "import"
  /\ said' = FALSE /\ printed' = {} /\ result' = FALSE
  /\ UNCHANGED <<healed, out, child>>

(* The constructor.  The shape is not loaded when the program has expired,  *)
(* or the STEP file cannot be read; perform then returns at once.           *)
Import ==
  /\ pc = "import"
  /\ \/ pc' = (IF Format = "STEP" THEN "write" ELSE "heal") /\ UNCHANGED result
     \/ Return(FALSE)
  /\ UNCHANGED <<run, cwd, alone, input, files, child, said, printed>>

(* STLWriter::Write; perform does not look at what it returns.              *)
OpenRaw ==
  /\ pc = "write"
  /\ \/ raw' = [of |-> input, whole |-> FALSE] /\ pc' = "writing"
     \/ UNCHANGED raw /\ pc' = "heal"
  /\ UNCHANGED <<run, cwd, alone, input, healed, out, child, said, printed, result>>

CloseRaw ==
  /\ pc = "writing"
  /\ raw' = [raw EXCEPT !.whole = TRUE]
  /\ pc' = "heal"
  /\ UNCHANGED <<run, cwd, alone, input, healed, out, child, said, printed, result>>

(* Mutation of StartChild: out.txt is appended to.                          *)
StartChildAppending ==
  /\ pc = "heal"
  /\ out' = [out EXCEPT ![cwd].exists = TRUE]
  /\ \/ pc' = "wait" /\ child' = [child EXCEPT ![run].pc = "open", ![run].dir = cwd]
        /\ UNCHANGED result
     \/ Return(FALSE) /\ UNCHANGED child
  /\ UNCHANGED <<run, cwd, alone, input, raw, healed, said, printed>>

(* QProcess::start empties out.txt of the working directory.  The child may *)
(* fail to start; waitForFinished then is false.                            *)
StartChild ==
  /\ pc = "heal"
  /\ out' = [out EXCEPT ![cwd] = [exists |-> TRUE, sizes |-> {}]]
  /\ \/ pc' = "wait" /\ child' = [child EXCEPT ![run].pc = "open", ![run].dir = cwd]
        /\ UNCHANGED result
     \/ Return(FALSE) /\ UNCHANGED child
  /\ UNCHANGED <<run, cwd, alone, input, raw, healed, said, printed>>

(* Mutation of Wait: only a child that exits is noticed.                    *)
WaitForExit ==
  /\ pc = "wait"
  /\ child[run].pc = "exited"
  /\ said' = TRUE
  /\ pc' = "read"
  /\ UNCHANGED <<run, cwd, alone, input, files, child, printed, result>>

(* Mutation of Wait: as waitForStarted.                                     *)
WaitForStarted ==
  /\ pc = "wait"
  /\ said' = TRUE
  /\ pc' = "read"
  /\ UNCHANGED <<run, cwd, alone, input, files, child, printed, result>>

(* waitForFinished(-1): however the child ended, the healing is completed.  *)
Wait ==
  /\ pc = "wait"
  /\ child[run].pc \in {"exited", "crashed"}
  /\ said' = TRUE
  /\ pc' = "read"
  /\ UNCHANGED <<run, cwd, alone, input, files, child, printed, result>>

(* readOutput, of the out.txt beside the executable.  A file without a Size *)
(* section is left there; one with it is removed, unless somebody holds it. *)
ReadOutput ==
  /\ pc = "read"
  /\ IF out["app"].sizes = {}
     THEN Return(FALSE) /\ UNCHANGED <<printed, out>>
     ELSE /\ printed' = out["app"].sizes
          /\ \/ out' = [out EXCEPT !["app"] = NoOutTxt]
             \/ (\E c \in Run : Alive(c) /\ child[c].dir = "app") /\ UNCHANGED out
          /\ Return(TRUE)
  /\ UNCHANGED <<run, cwd, alone, input, raw, healed, child, said>>

(* The program is killed; its child is not.                                 *)
Kill ==
  /\ pc \notin {"idle", "returned"}
  /\ pc' = "idle"
  /\ UNCHANGED <<run, cwd, alone, input, files, child, said, printed, result>>

Step == Import \/ OpenRaw \/ CloseRaw \/ StartChild \/ Wait \/ ReadOutput

-----------------------------------------------------------------------------
(****************************************************************************)
(* The child: main of admesh.c, called with the raw file, -a and the healed *)
(* file.                                                                    *)
(****************************************************************************)
(* Mutation of ChildOpen: stl_exit_on_error is forgotten.                   *)
ChildOpenUnchecked(c) ==
  /\ child[c].pc = "open"
  /\ child' = [child EXCEPT ![c].pc = "write", ![c].mesh = raw]
  /\ UNCHANGED <<pc, run, cwd, alone, input, files, said, printed, result>>

(* stl_open fails (then exit(1)), or reads the mesh, as far as it is there. *)
ChildOpen(c) ==
  /\ child[c].pc = "open"
  /\ \/ child' = [child EXCEPT ![c].pc = "exited", ![c].code = 1]
     \/ raw.of # None /\ child' = [child EXCEPT ![c].pc = "write", ![c].mesh = raw]
  /\ UNCHANGED <<pc, run, cwd, alone, input, files, said, printed, result>>

(* Mutation of ChildWrite: the failure does not reach the exit code.        *)
ChildWriteUnchecked(c) ==
  /\ child[c].pc = "write"
  /\ \/ /\ healed' = [of |-> child[c].mesh.of, whole |-> FALSE, by |-> {c}]
        /\ child' = [child EXCEPT ![c].pc = "writing"]
     \/ /\ child' = [child EXCEPT ![c].pc = "stats"]
        /\ UNCHANGED healed
  /\ UNCHANGED <<pc, run, cwd, alone, input, raw, out, said, printed, result>>

(* stl_write_ascii opens the healed file, or fails to: then the exit code   *)
(* will be 1, but the statistics are printed nevertheless.                  *)
ChildWrite(c) ==
  /\ child[c].pc = "write"
  /\ \/ /\ healed' = [of |-> child[c].mesh.of, whole |-> FALSE, by |-> {c}]
        /\ child' = [child EXCEPT ![c].pc = "writing"]
     \/ /\ child' = [child EXCEPT ![c].pc = "stats", ![c].code = 1]
        /\ UNCHANGED healed
  /\ UNCHANGED <<pc, run, cwd, alone, input, raw, out, said, printed, result>>

(* Two children at once leave a mixture.                                    *)
ChildClose(c) ==
  /\ child[c].pc = "writing"
  /\ healed' = [healed EXCEPT !.by = @ \cup {c},
                              !.whole = healed.by = {c} /\ child[c].mesh.whole]
  /\ child' = [child EXCEPT ![c].pc = "stats"]
  /\ UNCHANGED <<pc, run, cwd, alone, input, raw, out, said, printed, result>>

(* The Size section gets into the file the child's output goes to, if that  *)
(* file is still there.                                                     *)
PrintStats(c) ==
  out' = [out EXCEPT ![child[c].dir].sizes = IF out[child[c].dir].exists THEN @ \cup {c} ELSE @]

(* stl_stats_out, and the end of main.                                      *)
ChildExit(c) ==
  /\ child[c].pc = "stats"
  /\ PrintStats(c)
  /\ child' = [child EXCEPT ![c].pc = "exited"]
  /\ UNCHANGED <<pc, run, cwd, alone, input, raw, healed, said, printed, result>>

(* The output is buffered: the Size section may be lost.                    *)
ChildCrash(c) ==
  /\ Alive(c)
  /\ UNCHANGED out \/ (child[c].pc = "stats" /\ PrintStats(c))
  /\ child' = [child EXCEPT ![c].pc = "crashed", ![c].code = 1]
  /\ UNCHANGED <<pc, run, cwd, alone, input, raw, healed, said, printed, result>>

ChildStep(c) == ChildOpen(c) \/ ChildWrite(c) \/ ChildClose(c) \/ ChildExit(c)

(* Nobody runs the program any more.                                        *)
Rest ==
  /\ pc \in {"idle", "returned"}
  /\ run = MaxRuns
  /\ \A c \in Run : ~ Alive(c)
  /\ UNCHANGED vars

Next ==
  \/ Start \/ Step \/ Kill \/ Rest
  \/ \E c \in Run : ChildStep(c) \/ ChildCrash(c)

Spec == Init /\ [][Next]_vars

(* The operating system runs both processes; nothing obliges a user to      *)
(* start the program or a process to be killed or to crash.                 *)
FairSpec == Spec /\ WF_vars(Step) /\ \A c \in Run : WF_vars(ChildStep(c))

-----------------------------------------------------------------------------
(****************************************************************************)
(* Properties.                                                              *)
(****************************************************************************)
(* The statistics printed are those of this run's child, not of an earlier  *)
(* run that was killed or whose child crashed, although out.txt has the     *)
(* same name in every run: provided no child of an earlier run was still at *)
(* work.                                                                    *)
StatisticsOwn ==
  pc = "returned" /\ result /\ alone => printed = {run}

(* perform returned true and the child's exit code, which nobody reads, is  *)
(* 0: then the healed file is complete, and was made by this run from the   *)
(* raw file that stands beside it.                                          *)
HealedByThisRun ==
  pc = "returned" /\ result /\ alone /\ child[run].code = 0 =>
    healed = [of |-> raw.of, whole |-> raw.whole, by |-> {run}]

(* If the child has done all its work, its statistics are printed and       *)
(* perform returns true (tessellator.cpp: the output is redirected "for     *)
(* futher reading").                                                        *)
StatisticsRead ==
  pc = "returned" /\ said /\ child[run].code = 0 => result

(* What "Mesh healing completed" and the usage text say: the output files   *)
(* are then the tessellation of the input and its healed form.              *)
OutputsOfInput ==
  pc = "returned" /\ said /\ alone =>
    /\ raw = [of |-> input, whole |-> TRUE]
    /\ healed = [of |-> input, whole |-> TRUE, by |-> {run}]

(* The program does not wait for its child forever: however the child ends, *)
(* perform returns, unless the program is killed.                           *)
WaitEnds == pc = "wait" ~> pc \in {"idle", "returned"}

=============================================================================
