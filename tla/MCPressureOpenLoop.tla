------------------------- MODULE MCPressureOpenLoop -------------------------
(***************************************************************************)
(* PressureOpenLoop with a margin and an arm threshold of one and two      *)
(* steps around barometers of 10 and 12, and malformed calibrations.       *)
(***************************************************************************)
EXTENDS PressureOpenLoop

MCPressures == {-1, 8, 9, 10, 11, 12, 13, 14, 30, NaN}
MCBarometers == {10, 12, 20, NaN}

ShippedGuard == [openLoopOn |-> TRUE, margin |-> 1, mapMin |-> 0, mapMax |-> 20,
            baroMin |-> 5, baroMax |-> 15, arm |-> 2]

MCOpenLoop ==
  { ShippedGuard,
    [ShippedGuard EXCEPT !.openLoopOn = FALSE],
    [ShippedGuard EXCEPT !.margin = 0], [ShippedGuard EXCEPT !.margin = -3],
    [ShippedGuard EXCEPT !.margin = NaN], [ShippedGuard EXCEPT !.baroMax = NaN],
    [ShippedGuard EXCEPT !.arm = NaN], [ShippedGuard EXCEPT !.arm = -1] }
=============================================================================
