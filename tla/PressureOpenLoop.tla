-------------------------- MODULE PressureOpenLoop --------------------------
(***************************************************************************)
(* The pressure guard around the stock open-loop target routine            *)
(* (build_pressure_ol_wrapper): the stock routine decides whether closed   *)
(* loop is allowed, then the wrapper revokes the permission near and above *)
(* atmospheric pressure.  The wrapper holds no lock, so the sensor task    *)
(* may publish new pressures between any two of its loads.                 *)
(***************************************************************************)
EXTENDS LeanRules

CONSTANTS OpenLoopCalibrations, Pressures, Barometers

OpenLoopCalibration ==
  [openLoopOn : BOOLEAN, margin : Float,
   mapMin : Float, mapMax : Float, baroMin : Float, baroMax : Float, arm : Float]

ASSUME OpenLoopAssumption ==
  /\ OpenLoopCalibrations \subseteq OpenLoopCalibration
  /\ Pressures \subseteq Float /\ Barometers \subseteq Float

VARIABLES guardCal, mapP, baro,
          guardPc,        \* "idle" between calls, else the next load of a call
          limit,     \* barometer less margin, once computed
          decided,     \* what the stock routine decided in this call
          allowed,   \* closed-loop permission, CL_OL_STATE_FLAGS bit 80
          boost,     \* history: armed for the lean cut, against one barometer
                     \* reading, all through the latest call
          vacuum     \* history: below the guard's limit all through it

sensors == <<mapP, baro>>
history == <<boost, vacuum>>
openLoopVars == <<guardCal, sensors, guardPc, limit, decided, allowed, history>>
-----------------------------------------------------------------------------
(* Fault: a margin below zero is trusted. *)
LimitAnyMargin(c, b) ==
  InWindow(b, c.baroMin, c.baroMax) /\ IsNumber(c.margin)

(* The barometer and the margin can be relied on ...                       *)
LimitUsable(c, b) ==
  /\ InWindow(b, c.baroMin, c.baroMax)
  /\ IsNumber(c.margin) /\ Greater(c.margin, 0)

(* ... and manifold pressure is below the limit they give.                 *)
Below(map, l) == IsNumber(map) /\ Greater(l, map)

(* For the history: the readings of one instant.                           *)
InBoost(c, map, b) == Arms(c, map, b)
InVacuum(c, map, b) == LimitUsable(c, b) /\ Below(map, Minus(b, c.margin))

OpenLoopInit ==
  /\ guardCal \in OpenLoopCalibrations /\ mapP \in Pressures /\ baro \in Barometers
  /\ guardPc = "idle" /\ limit = 0
  /\ decided = FALSE /\ allowed = FALSE
  /\ boost = FALSE /\ vacuum = FALSE

DecideStock ==
  /\ guardPc = "idle"
  /\ decided' \in BOOLEAN
  /\ allowed' = decided'
  /\ guardPc' = IF guardCal.openLoopOn THEN "baro" ELSE "idle"
  /\ boost' = InBoost(guardCal, mapP, baro) /\ vacuum' = InVacuum(guardCal, mapP, baro)
  /\ UNCHANGED <<guardCal, sensors, limit>>

LoadBaro ==
  /\ guardPc = "baro"
  /\ limit' = Minus(baro, guardCal.margin)
  /\ guardPc' = IF LimitUsable(guardCal, baro) THEN "map" ELSE "revoke"
  /\ UNCHANGED <<guardCal, sensors, decided, allowed, history>>

(* Fault: the stock decision is never kept. *)
LoadMapRevokes ==
  /\ guardPc = "map"
  /\ guardPc' = "revoke"
  /\ UNCHANGED <<guardCal, sensors, limit, decided, allowed, history>>

LoadMap ==
  /\ guardPc = "map"
  /\ guardPc' = IF Below(mapP, limit) THEN "idle" ELSE "revoke"
  /\ UNCHANGED <<guardCal, sensors, limit, decided, allowed, history>>

Revoke ==
  /\ guardPc = "revoke"
  /\ allowed' = FALSE
  /\ guardPc' = "idle"
  /\ UNCHANGED <<guardCal, sensors, limit, decided, history>>

(* A pressure published during a call extends or ends the history; one     *)
(* published between two calls is the next call's business.                *)
During(was, now) == IF guardPc = "idle" THEN was ELSE was /\ now

SenseMap ==
  /\ mapP' \in Pressures
  /\ boost' = During(boost, InBoost(guardCal, mapP', baro))
  /\ vacuum' = During(vacuum, InVacuum(guardCal, mapP', baro))
  /\ UNCHANGED <<guardCal, baro, guardPc, limit, decided, allowed>>

SenseBaro ==
  /\ baro' \in Barometers
  /\ boost' = During(boost, FALSE)
  /\ vacuum' = During(vacuum, FALSE)
  /\ UNCHANGED <<guardCal, mapP, guardPc, limit, decided, allowed>>

OpenLoopNext == DecideStock \/ LoadBaro \/ LoadMap \/ Revoke \/ SenseMap \/ SenseBaro

OpenLoopSpec == OpenLoopInit /\ [][OpenLoopNext]_openLoopVars
-----------------------------------------------------------------------------
OpenLoopTypeOK ==
  /\ guardCal \in OpenLoopCalibrations /\ mapP \in Float /\ baro \in Float
  /\ guardPc \in {"idle", "baro", "map", "revoke"} /\ limit \in Float
  /\ decided \in BOOLEAN /\ allowed \in BOOLEAN
  /\ boost \in BOOLEAN /\ vacuum \in BOOLEAN

(* The two guards agree: a call during which the lean cut could arm, at    *)
(* whatever changing manifold pressures, ends in open loop, so the lean    *)
(* samples are judged against the open-loop target.  Nothing relates the   *)
(* two calibrations: each guard tests its own.                             *)
ArmedIsOpenLoop ==
  guardCal.openLoopOn /\ guardPc = "idle" /\ boost => ~allowed

(* And the guard is no wider than its margin: a call below its limit       *)
(* throughout leaves the stock decision as it was.                         *)
VacuumKeepsStock ==
  guardPc = "idle" /\ vacuum => (allowed <=> decided)
=============================================================================
