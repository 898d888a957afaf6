--------------------------- MODULE MCWidebandFeed ---------------------------
(***************************************************************************)
(* WidebandFeed with one volt per count: counts below, at, inside, at and  *)
(* above the plausibility window, a rising and a falling transfer, one     *)
(* that leaves the positive range, and NaN constants.                      *)
(***************************************************************************)
EXTENDS WidebandFeed

MCRaw == {0, 1, 3, 5, 6}

Shipped == [rawToVolts |-> 1, minVolts |-> 1, maxVolts |-> 5,
            slope |-> 2, offset |-> 4, fltMax |-> 1000,
            readyValue |-> 50, readyThreshold |-> 35, threshold |-> 9]

MCCalibrations ==
  { Shipped,
    [Shipped EXCEPT !.slope = -2, !.offset = 6],
    [Shipped EXCEPT !.fltMax = 9],
    [Shipped EXCEPT !.rawToVolts = NaN],
    [Shipped EXCEPT !.maxVolts = NaN],
    [Shipped EXCEPT !.slope = NaN],
    [Shipped EXCEPT !.readyThreshold = NaN] }
=============================================================================
