----------------------------- MODULE MCCutTask -----------------------------
(***************************************************************************)
(* CutTask with an unmasked and a masked caller, an interrupt the added    *)
(* lock masks, one it lets through and one that nests in that, and the     *)
(* kernel's own capacity of two activations.                               *)
(***************************************************************************)
EXTENDS CutTask

MCCallerMasks == {0, 7}
MCLevels == {1, 2, 9}
=============================================================================
