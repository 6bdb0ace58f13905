----------------------------- MODULE EdgeMatching -----------------------------
(****************************************************************************)
(* What the exact check promises, without facets, rows, hash table or        *)
(* removals: the edges of a mesh are taken one at a time in any order, an   *)
(* edge without a counterpart waits for one, and the second edge between    *)
(* the same two points is joined to the first.  When no edge is left, each  *)
(* pair of points has as many joined pairs as it can have.                  *)
(*                                                                          *)
(* FacetCheckExact implements this specification (FacetCheckExact!Matching).*)
(****************************************************************************)
EXTENDS Naturals

CONSTANT Segment   \* the pairs of points an edge can run between

VARIABLES
  left,      \* how many edges on each segment have not been taken yet
  waiting,   \* how many taken edges wait for a counterpart
  joined,    \* how many pairs of edges have been joined
  finished

vars == <<left, waiting, joined, finished>>

Init ==
  /\ left \in [Segment -> Nat]
  /\ waiting = [s \in Segment |-> 0]
  /\ joined = [s \in Segment |-> 0]
  /\ finished = FALSE

(* No edge on the segment waits: the one taken does.                        *)
Wait(s) ==
  /\ left[s] > 0
  /\ waiting[s] = 0
  /\ left' = [left EXCEPT ![s] = @ - 1]
  /\ waiting' = [waiting EXCEPT ![s] = 1]
  /\ UNCHANGED <<joined, finished>>

Join(s) ==
  /\ left[s] > 0
  /\ waiting[s] = 1
  /\ left' = [left EXCEPT ![s] = @ - 1]
  /\ waiting' = [waiting EXCEPT ![s] = 0]
  /\ joined' = [joined EXCEPT ![s] = @ + 1]
  /\ UNCHANGED finished

Finish ==
  /\ \A s \in Segment : left[s] = 0
  /\ finished' = TRUE
  /\ UNCHANGED <<left, waiting, joined>>

Next == (\E s \in Segment : Wait(s) \/ Join(s)) \/ Finish

Spec == Init /\ [][Next]_vars

=============================================================================
