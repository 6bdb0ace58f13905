---------------------------- MODULE MCTessellator ----------------------------
(****************************************************************************)
(* Instances of Tessellator: two runs on the same input.                  *)
(****************************************************************************)
EXTENDS Tessellator

OwnDirectory == {"app"}
OtherDirectory == {"other"}

=============================================================================
