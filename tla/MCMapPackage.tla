---------------------------- MODULE MCMapPackage ----------------------------
(***************************************************************************)
(* Two artifacts, so that a package can be half there, and three saves of  *)
(* one map ID: one leaves something behind, the next meets it, and the     *)
(* last publishes again what a reader may be looking at.                   *)
(***************************************************************************)
EXTENDS MapPackage, TLC

ArtifactSymmetry == Permutations(Artifacts)

=============================================================================
