-------------------------- MODULE MCUnlockedWrappers --------------------------
(***************************************************************************)
(* The three wrappers, each with calibrations that hold an unusable number *)
(* and sensors on both sides of every limit.                               *)
(***************************************************************************)
EXTENDS UnlockedWrappers, MCSpeedDensity, MCPressureOpenLoop, MCRotationalIdle
=============================================================================
