---------------------------- MODULE MCMotionGate ----------------------------
(* Instances of MotionGate for TLC. *)
EXTENDS MotionGate, TLC

Symmetry == Permutations(RequestId) \cup Permutations(Writer)
=============================================================================
