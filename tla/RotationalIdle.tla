--------------------------- MODULE RotationalIdle ---------------------------
(***************************************************************************)
(* The rotational-idle wrapper of patches/core/patch_rotational_idle.py:   *)
(* the stock task computes one final ignition angle per cylinder, then the *)
(* wrapper retards some of them in place, cylinder by cylinder, while the  *)
(* crank-synchronous interrupts go on reading the array.                   *)
(***************************************************************************)
EXTENDS SH2E

CONSTANTS Cylinders,     \* 6 in the engine
          IdleCalibrations,  \* calibration records the image may hold
          Angles,        \* what the stock task may compute
          Readings       \* the five inputs of the idle window

IdleCalibration ==
  [enable : 0..255, ectMin : Float, ectMax : Float, rpmMin : Float, rpmMax : Float,
   throttleMax : Float, speedMax : Float, mapMin : Float, mapMax : Float,
   maxRetard : Float, minFinal : Float, offsets : [1..Cylinders -> Float]]

Reading == [ect : Float, rpm : Float, throttle : Float, speed : Float, map : Float]

ASSUME RotationalIdleAssumption ==
  /\ Cylinders \in Nat \ {0}
  /\ IdleCalibrations \subseteq IdleCalibration
  /\ Angles \subseteq Float
  /\ Readings \subseteq Reading

VARIABLES idleCal,
          cyl,     \* 0 between calls, else the cylinder the loop is at
          timing,  \* FINAL_TIMING_ARRAY
          stockTiming    \* history: what the stock task wrote there in this call

idleVars == <<idleCal, cyl, timing, stockTiming>>
-----------------------------------------------------------------------------
(* emit_max_gate, and with emit_min_gate the two-sided window.             *)
AtMost(x, high) == IsNumber(x) /\ IsNumber(high) /\ ~Greater(x, high)

(* Exact enable and a warm, stationary, closed-throttle, high-vacuum idle. *)
Gates(c, r) ==
  /\ c.enable = 1
  /\ InWindow(r.ect, c.ectMin, c.ectMax)
  /\ InWindow(r.rpm, c.rpmMin, c.rpmMax)
  /\ AtMost(r.throttle, c.throttleMax)
  /\ AtMost(r.speed, c.speedMax)
  /\ InWindow(r.map, c.mapMin, c.mapMax)

(* A request becomes an offset between minus a positive maximum and zero.  *)
Offset(c, request) ==
  IF ~IsNumber(request) \/ Greater(request, 0) \/ ~Greater(c.maxRetard, 0) THEN 0
  ELSE IF Greater(0 - c.maxRetard, request) THEN 0 - c.maxRetard
  ELSE request

(* Fault: the floor is not capped by the stock angle.                      *)
RetardedToFloor(c, angle, request) ==
  LET result == Plus(angle, Offset(c, request))
  IN IF Greater(c.minFinal, result) THEN c.minFinal ELSE result

(* The floor, if it is a number, and never above the stock angle.          *)
Retarded(c, angle, request) ==
  LET result == Plus(angle, Offset(c, request))
      floored == IF Greater(c.minFinal, result) THEN c.minFinal ELSE result
  IN IF ~IsNumber(c.minFinal) \/ Greater(floored, angle) THEN angle ELSE floored
-----------------------------------------------------------------------------
IdleInit ==
  /\ idleCal \in IdleCalibrations
  /\ cyl = 0
  /\ timing \in [1..Cylinders -> Angles] /\ stockTiming = timing

(* The stock calculation and the gates.                                    *)
StockTiming(angles, reading) ==
  /\ cyl = 0
  /\ timing' = angles /\ stockTiming' = angles
  /\ cyl' = IF Gates(idleCal, reading) THEN 1 ELSE 0
  /\ UNCHANGED idleCal

(* One turn of cylinder_loop. *)
Retard ==
  /\ cyl # 0
  /\ timing' = [timing EXCEPT ![cyl] = Retarded(idleCal, @, idleCal.offsets[cyl])]
  /\ cyl' = IF cyl < Cylinders THEN cyl + 1 ELSE 0
  /\ UNCHANGED <<idleCal, stockTiming>>

IdleNext == \/ \E a \in [1..Cylinders -> Angles], r \in Readings : StockTiming(a, r)
        \/ Retard

IdleSpec == IdleInit /\ [][IdleNext]_idleVars
-----------------------------------------------------------------------------
IdleTypeOK ==
  /\ idleCal \in IdleCalibrations
  /\ cyl \in 0..Cylinders
  /\ timing \in [1..Cylinders -> Float] /\ stockTiming \in [1..Cylinders -> Float]

(* An angle between stock and stock less the allowed retard, not below the *)
(* floor unless stock itself was.                                          *)
InBand(c, angle, base) ==
  \/ angle = base
  \/ /\ Greater(base, angle)
     /\ Greater(c.maxRetard, 0) /\ ~Greater(base - c.maxRetard, angle)
     /\ IsNumber(c.minFinal) /\ ~Greater(c.minFinal, angle)

(* Whenever an interrupt looks at the array, in the middle of the loop and *)
(* after any number of calls, each cylinder's angle is the stock one or a  *)
(* bounded retard of it: never an advance, never two retards of one angle, *)
(* whatever calibration bytes the flash holds.                             *)
RetardBounded == \A i \in 1..Cylinders : InBand(idleCal, timing[i], stockTiming[i])
=============================================================================
