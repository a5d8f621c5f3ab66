-------------------------- MODULE MCMissionRuntime --------------------------
(* MissionRuntime for TLC. *)
EXTENDS MissionRuntime
=============================================================================
