------------------------------- MODULE LeanCut -------------------------------
(***************************************************************************)
(* The pressure-armed, time-qualified lean fuel cut of                     *)
(* patches/fueling_safety/fueling_safety_component.py, one wrapper call at *)
(* a time.  The wrapper runs in the periodic rev-limiter slot, so each     *)
(* action below is one complete call, from the retained limiter to the     *)
(* unlock; CutTask.tla opens a call up and interleaves it with interrupts  *)
(* and with the injector task.                                             *)
(*                                                                         *)
(* The four state values are the code's bytes: 0 idle, 1 transport delay,  *)
(* 2 monitor, 3 latched.  The calibration is flash data, chosen once from  *)
(* Calibrations and never changed, so that one run covers the shipped      *)
(* values as well as the malformed ones the code defends against.          *)
(***************************************************************************)
EXTENDS LeanRules

CONSTANTS Calibrations,    \* calibration records the image may hold
          CounterMod,      \* 2^16 in the ECU: width of LEAN_COUNTER_RAM
          MapValues, BaroValues, ReadyValues, LambdaValues

VARIABLES cal,                           \* the installed calibration
          mapP, baro, ready, lambda, rpmCut, \* RAM other tasks publish
          leanState, leanCounter,        \* LEAN_STATE_RAM, LEAN_COUNTER_RAM
          fuelCut,                       \* FUELCUT_FLAG as the last call left it
          armedRun, leanRun              \* history: see Remember

inputs == <<mapP, baro, ready, lambda, rpmCut>>
guard  == <<leanState, leanCounter, fuelCut, armedRun, leanRun>>
vars   == <<cal, inputs, guard>>

Idle == 0
Delay == 1
Monitor == 2
Latched == 3

Calibration ==
  [leanOn : BOOLEAN, overboostOn : BOOLEAN, overboost : Float,
   mapMin : Float, mapMax : Float, baroMin : Float, baroMax : Float,
   arm : Float, reset : Float, readyThreshold : Float, threshold : Float,
   transport : 0..(CounterMod - 1), confirm : 0..(CounterMod - 1)]

ASSUME LeanCutAssumption ==
  /\ CounterMod \in Nat \ {0}
  /\ Calibrations \subseteq Calibration
  /\ MapValues \subseteq Float /\ BaroValues \subseteq Float
  /\ ReadyValues \subseteq Float /\ LambdaValues \subseteq Float
-----------------------------------------------------------------------------
(* The gates on what the call reads; LeanRules holds their definitions.    *)
PressureUsable == Usable(cal, mapP, baro)
PressureArmed == Arms(cal, mapP, baro)
PressureReleases == Releases(cal, mapP, baro)
RichSample == Rich(cal, ready, lambda)

(* The two cuts composed before the lean decision. *)
OverboostCut == cal.overboostOn /\ Greater(mapP, cal.overboost)
PriorCut == rpmCut \/ OverboostCut

(* Fault: the count is compared with higher instead of higher-or-same. *)
ReachedLate(n, limit) == n + 1 > limit

(* _increment_counter_and_test: the low word is stored, the full register  *)
(* is compared with the limit.                                             *)
Stored(n) == (n + 1) % CounterMod
Reached(n, limit) == n + 1 >= limit
-----------------------------------------------------------------------------
(* History variables.  armedRun and leanRun count the latest calls that    *)
(* were all armed (not latched), and all armed and not rich; both stop at  *)
(* RunCap, beyond which no property tells them apart.                      *)
Atleast1(n) == IF n = 0 THEN 1 ELSE n
Qualify == Atleast1(cal.transport) + 1
RunCap == Qualify + Atleast1(cal.confirm)
Longer(n) == IF n < RunCap THEN n + 1 ELSE n

Remember(armed, rich) ==
  /\ armedRun' = IF armed THEN Longer(armedRun) ELSE 0
  /\ leanRun' = IF armed /\ ~rich THEN Longer(leanRun) ELSE 0

(* Leave the guard in state s with count n, and publish the cut. *)
Leave(s, n, cut) ==
  /\ leanState' = s
  /\ leanCounter' = n
  /\ fuelCut' = (PriorCut \/ cut)
  /\ UNCHANGED <<cal, inputs>>

Init ==
  /\ cal \in Calibrations
  /\ mapP \in MapValues /\ baro \in BaroValues
  /\ ready \in ReadyValues /\ lambda \in LambdaValues
  /\ rpmCut \in BOOLEAN
  /\ leanState = Idle /\ leanCounter = 0 /\ fuelCut = FALSE
  /\ armedRun = 0 /\ leanRun = 0

Disabled ==
  /\ ~cal.leanOn
  /\ Leave(Idle, 0, FALSE)
  /\ Remember(FALSE, FALSE)

(* disarm: unusable or unarmed pressure clears a guard that has not tripped *)
Disarm ==
  /\ cal.leanOn /\ leanState # Latched /\ ~PressureArmed
  /\ Leave(Idle, 0, FALSE)
  /\ Remember(FALSE, FALSE)

Armed(s) == cal.leanOn /\ leanState = s /\ PressureArmed

StartDelay ==
  /\ Armed(Idle)
  /\ Leave(Delay, 0, FALSE)
  /\ Remember(TRUE, RichSample)

DelayTick ==
  /\ Armed(Delay) /\ ~Reached(leanCounter, cal.transport)
  /\ Leave(Delay, Stored(leanCounter), FALSE)
  /\ Remember(TRUE, RichSample)

(* Fault: the state byte is not advanced. *)
DelayDoneStuck ==
  /\ Armed(Delay) /\ Reached(leanCounter, cal.transport)
  /\ Leave(Delay, 0, FALSE)
  /\ Remember(TRUE, RichSample)

DelayDone ==
  /\ Armed(Delay) /\ Reached(leanCounter, cal.transport)
  /\ Leave(Monitor, 0, FALSE)
  /\ Remember(TRUE, RichSample)

(* Fault: a rich sample does not restart the confirmation. *)
MonitorRichKeeps ==
  /\ Armed(Monitor) /\ RichSample
  /\ Leave(Monitor, leanCounter, FALSE)
  /\ Remember(TRUE, TRUE)

MonitorRich ==
  /\ Armed(Monitor) /\ RichSample
  /\ Leave(Monitor, 0, FALSE)
  /\ Remember(TRUE, TRUE)

MonitorLean ==
  /\ Armed(Monitor) /\ ~RichSample /\ ~Reached(leanCounter, cal.confirm)
  /\ Leave(Monitor, Stored(leanCounter), FALSE)
  /\ Remember(TRUE, FALSE)

Trip ==
  /\ Armed(Monitor) /\ ~RichSample /\ Reached(leanCounter, cal.confirm)
  /\ Leave(Latched, 0, TRUE)
  /\ Remember(TRUE, FALSE)

(* latched: lambda is ignored, the cut itself makes the sensor read lean *)
Hold ==
  /\ cal.leanOn /\ leanState = Latched /\ ~PressureReleases
  /\ Leave(Latched, leanCounter, TRUE)
  /\ Remember(FALSE, FALSE)

Release ==
  /\ cal.leanOn /\ leanState = Latched /\ PressureReleases
  /\ Leave(Idle, 0, FALSE)
  /\ Remember(FALSE, FALSE)

Wrapper == \/ Disabled \/ Disarm \/ StartDelay \/ DelayTick \/ DelayDone
           \/ MonitorRich \/ MonitorLean \/ Trip \/ Hold \/ Release
-----------------------------------------------------------------------------
(* The other tasks, each publishing its own RAM words between two calls. *)
SenseMap == /\ mapP' \in MapValues
            /\ UNCHANGED <<cal, baro, ready, lambda, rpmCut, guard>>

SenseBaro == /\ baro' \in BaroValues
             /\ UNCHANGED <<cal, mapP, ready, lambda, rpmCut, guard>>

SenseWideband == /\ ready' \in ReadyValues
                 /\ lambda' \in LambdaValues
                 /\ UNCHANGED <<cal, mapP, baro, rpmCut, guard>>

LimiterChange == /\ rpmCut' = ~rpmCut
                 /\ UNCHANGED <<cal, mapP, baro, ready, lambda, guard>>

(* build_lean_state_initialize after a reset; the native start-up clears   *)
(* the cut flag with the rest of the RAM.                                  *)
Restart ==
  /\ leanState' = Idle /\ leanCounter' = 0 /\ fuelCut' = FALSE
  /\ armedRun' = 0 /\ leanRun' = 0
  /\ UNCHANGED <<cal, inputs>>

Next == \/ Wrapper \/ SenseMap \/ SenseBaro \/ SenseWideband
        \/ LimiterChange \/ Restart

Spec == Init /\ [][Next]_vars

(* The wrapper sits in a periodic slot, so calls never stop. *)
FairSpec == Spec /\ WF_vars(Wrapper)
-----------------------------------------------------------------------------
(* The types of the RAM words; the history counts stay below their cap.    *)
TypeOK ==
  /\ cal \in Calibrations
  /\ mapP \in Float /\ baro \in Float /\ ready \in Float /\ lambda \in Float
  /\ rpmCut \in BOOLEAN /\ fuelCut \in BOOLEAN
  /\ leanState \in 0..3
  /\ leanCounter \in 0..(CounterMod - 1)
  /\ armedRun \in Nat /\ leanRun \in Nat

(* The guard trips in exactly one situation: the transport delay and then  *)
(* the confirmation count have elapsed over calls that were all armed, and *)
(* the last confirm of them were all lean.  It is neither early (samples   *)
(* taken during the transport delay, or before a rich sample or a dip in   *)
(* pressure, earn nothing) nor late (an armed lean run never goes uncut),  *)
(* although the code keeps one 16-bit count for both phases.               *)
ConfirmedLean == armedRun' >= RunCap /\ leanRun' >= Atleast1(cal.confirm)
TripWhenConfirmed ==
  [][Wrapper => ((leanState # Latched /\ leanState' = Latched) <=> ConfirmedLean)]_vars

(* A count that reaches its limit leaves the phase in the same call, so    *)
(* the 16-bit count never reaches the limit in RAM and never wraps, even   *)
(* for the largest calibratable limit.                                     *)
CountBelowLimit ==
  /\ leanState = Delay => leanCounter < Atleast1(cal.transport)
  /\ leanState = Monitor => leanCounter < Atleast1(cal.confirm)
  /\ leanState \in {Idle, Latched} => leanCounter = 0

(* A tripped cut is never given up at a pressure at which the guard would  *)
(* arm again, whatever the calibrated hysteresis: fuel does not come back  *)
(* in boost to be cut again a delay later.                                 *)
NoReleaseInBoost ==
  [][leanState = Latched /\ leanState' # Latched => Restart \/ ~PressureArmed]_vars

(* The published cut is the disjunction of the three decisions: the guard  *)
(* neither suppresses the limiter's or the overboost cut, in any of its    *)
(* states or on its way out of one, nor cuts before it has tripped.        *)
CutIsUnion ==
  [][Wrapper => (fuelCut' <=> (PriorCut \/ leanState' = Latched))]_vars

(* Protection happens: an engine that stays in boost and stays lean, by    *)
(* whatever mix of bad samples, is cut.                                    *)
LeanBoost == cal.leanOn /\ PressureArmed /\ ~RichSample
PersistentLeanIsCut ==
  (<>[]LeanBoost /\ <>[][~Restart]_vars) => <>[](leanState = Latched)

(* The latch is not a trap: once pressure stays where the calibration      *)
(* releases, fuel comes back.                                              *)
VacuumReleases ==
  <>[](/\ PressureUsable /\ Greater(cal.arm, cal.reset)
       /\ ~Greater(Minus(mapP, baro), cal.reset))
  => []<>(leanState # Latched)
=============================================================================
