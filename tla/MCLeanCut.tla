----------------------------- MODULE MCLeanCut -----------------------------
(***************************************************************************)
(* LeanCut on a small scale: pressures in steps around a barometer of 10,  *)
(* lambda and thresholds in steps of a tenth, a 2-bit counter so that the  *)
(* largest limit is the last value the counter can hold.                   *)
(***************************************************************************)
EXTENDS LeanCut

MCCounterMod == 4

(* below the window, vacuum, and 0, 2, 3 and 4 above the barometer, over   *)
(* the window                                                              *)
MCMap == {-1, 7, 10, 12, 13, 14, 30, NaN}
MCBaro == {10, NaN}
MCReady == {50, NaN}
MCLambda == {0, 8, 9, 12, NaN}

(* main build: arms above and releases below the barometer *)
Main == [leanOn |-> TRUE, overboostOn |-> TRUE, overboost |-> 13,
         mapMin |-> 0, mapMax |-> 20, baroMin |-> 5, baroMax |-> 15,
         arm |-> 2, reset |-> -1, readyThreshold |-> 35, threshold |-> 9,
         transport |-> 3, confirm |-> 2]

(* second build: hysteresis wholly in boost *)
V2 == [Main EXCEPT !.arm = 3, !.reset = 2]

MCCalibrations ==
  { Main, V2,
    [Main EXCEPT !.leanOn = FALSE],
    [Main EXCEPT !.transport = 0, !.confirm = 0, !.overboostOn = FALSE],
    [Main EXCEPT !.transport = 1, !.confirm = 3],
    [V2 EXCEPT !.reset = 3], [V2 EXCEPT !.reset = 4],
    [V2 EXCEPT !.reset = NaN], [V2 EXCEPT !.arm = NaN],
    [Main EXCEPT !.arm = 0], [Main EXCEPT !.threshold = NaN],
    [Main EXCEPT !.mapMax = NaN], [Main EXCEPT !.overboost = NaN] }
=============================================================================
