----------------------------- MODULE LeanRules -----------------------------
(***************************************************************************)
(* The decisions of build_lean_cut_wrapper as operators on a calibration   *)
(* record c and the values one call reads, each with its tests in the      *)
(* order the emitted code makes them.                                      *)
(***************************************************************************)
EXTENDS SH2E

(* Both pressures inside their calibrated windows. *)
Usable(c, map, baro) ==
  /\ InWindow(map, c.mapMin, c.mapMax)
  /\ InWindow(baro, c.baroMin, c.baroMax)

(* Boost at or above a positive arm threshold. *)
Arms(c, map, baro) ==
  /\ Usable(c, map, baro)
  /\ IsNumber(c.arm) /\ Greater(c.arm, 0)
  /\ ~Greater(c.arm, Minus(map, baro))

(* Faults: a release that trusts the hysteresis, and one that also demands *)
(* a negative reset delta.                                                 *)
ReleasesUnordered(c, map, baro) ==
  Usable(c, map, baro) /\ ~Greater(Minus(map, baro), c.reset)

ReleasesBelowZero(c, map, baro) ==
  /\ Usable(c, map, baro)
  /\ Greater(0, c.reset)
  /\ ~Greater(Minus(map, baro), c.reset)

(* Releasing a latched cut needs usable pressure, a reset strictly below   *)
(* the arm threshold and a delta not above the reset.                      *)
Releases(c, map, baro) ==
  /\ Usable(c, map, baro)
  /\ Greater(c.arm, c.reset)
  /\ ~Greater(Minus(map, baro), c.reset)

(* Fault: a stale-ready pair with the logger's zero passes as rich.        *)
RichOrZero(c, ready, lambda) ==
  /\ Greater(ready, c.readyThreshold)
  /\ Greater(c.threshold, 0) /\ ~Greater(lambda, c.threshold)

(* The only sample that resets the confirmation count: a ready sensor and  *)
(* a positive lambda at or richer than a positive threshold.               *)
Rich(c, ready, lambda) ==
  /\ Greater(ready, c.readyThreshold)
  /\ Greater(lambda, 0)
  /\ IsNumber(c.threshold) /\ Greater(c.threshold, 0)
  /\ ~Greater(lambda, c.threshold)
=============================================================================
