--------------------------- MODULE MCSpeedDensity ---------------------------
(***************************************************************************)
(* SpeedDensity with two usable pressures and speeds, one value outside    *)
(* each window, and surfaces that tell every pressure, speed and lift      *)
(* apart; then calibrations in which a limit, a table entry or a product   *)
(* is not a usable number.                                                 *)
(***************************************************************************)
EXTENDS SpeedDensity

MCMap == {1, 2, 9}
MCIat == {1, 3, NaN}
MCRpm == {-1, 0, 2, 3, NaN}
MCModes == {1, 3}
MCSeeds == {7}

Surfaces == [high \in BOOLEAN |-> [m \in MCMap |-> [r \in MCRpm |->
              IF ~IsNumber(r) THEN NaN ELSE (IF high THEN 5 ELSE 1) + m + 2 * r]]]

(* The first build: its fail-safe airflow is its ceiling.                  *)
Main == [fltMax |-> 1000, failsafe |-> 90, multiplier |-> 1, litres |-> 1,
         maxAir |-> 90, constant |-> 1, mapMin |-> 1, mapMax |-> 5,
         rpmMin |-> 1, rpmMax |-> 8, iatMin |-> 0, iatMax |-> 5,
         ve |-> Surfaces, density |-> [i \in MCIat |-> IF i = 1 THEN 2 ELSE 1]]

(* The second build lowers it to a fortieth of the ceiling.                *)
V2 == [Main EXCEPT !.failsafe = 2]

Zeroed == [Surfaces EXCEPT ![FALSE][2][2] = 0, ![TRUE][1][3] = NaN]

MCCalibrations ==
  { Main, V2,
    [Main EXCEPT !.fltMax = 60, !.maxAir = 60],
    [Main EXCEPT !.maxAir = NaN], [Main EXCEPT !.multiplier = -1],
    [V2 EXCEPT !.ve = Zeroed], [V2 EXCEPT !.density[3] = NaN],
    [Main EXCEPT !.rpmMax = NaN], [Main EXCEPT !.iatMax = 2000],
    [Main EXCEPT !.mapMin = -2000], [Main EXCEPT !.rpmMin = -2] }

SecondBuild == {V2}
=============================================================================
