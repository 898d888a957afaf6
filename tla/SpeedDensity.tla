---------------------------- MODULE SpeedDensity ----------------------------
(***************************************************************************)
(* The speed-density airflow helper of                                     *)
(* patches/speed_density/patch_speed_density.py (and its second build's    *)
(* variant) inside the stock airflow task that calls it, load by load and  *)
(* store by store, while other tasks publish new sensor values.            *)
(*                                                                         *)
(* Any sensor may change between any two loads, so that a load reads any   *)
(* value of its sensor.  The native table lookups are functions of the     *)
(* calibration record.  FR12, FR13 and FR15 belong to the callers outside  *)
(* a call, where they and the dead FR0 are kept at zero.                   *)
(***************************************************************************)
EXTENDS SH2E

CONSTANTS Calibrations,   \* calibration records the image may hold
          MapValues, IatValues, RpmValues,
          Modes,          \* committed AVLS modes, 3 is high lift
          Seeds           \* airflows the native start-up may publish

VARIABLES cal,
          pc,                   \* next step of the task, "idle" between calls
          fr12, fr13, fr15,     \* captured MAP, IAT and RPM
          air,                  \* FR0: the helper's result
          words                 \* the four published airflow words

vars == <<cal, pc, fr12, fr13, fr15, air, words>>

AvlsHighMode == 3
Words == {"final", "raw", "filterA", "filterB"}

Calibration ==
  [fltMax : Int, failsafe : Int, multiplier : Float, litres : Float,
   maxAir : Float, constant : Int, mapMin : Float, mapMax : Float,
   rpmMin : Float, rpmMax : Float, iatMin : Float, iatMax : Float,
   ve : [BOOLEAN -> [MapValues -> [RpmValues -> Float]]], density : [IatValues -> Float]]

ASSUME SpeedDensityAssumption ==
  /\ Calibrations \subseteq Calibration
  /\ MapValues \subseteq Float /\ IatValues \subseteq Float
  /\ RpmValues \subseteq Float /\ Modes \subseteq 0..255 /\ Modes # {}
  /\ Seeds \subseteq Int /\ \A s \in Seeds : s > 0
-----------------------------------------------------------------------------
(* emit_float_register_range_gate: a finite value inside finite limits.    *)
FiniteWindow(c, x, low, high) ==
  /\ InWindow(x, low, high)
  /\ ~Greater(-c.fltMax, low) /\ ~Greater(high, c.fltMax)

(* emit_positive_finite_value_gate *)
PositiveFinite(c, x) == IsNumber(x) /\ Greater(x, 0) /\ ~Greater(x, c.fltMax)

InputsUsable(c, m, i, r) ==
  /\ FiniteWindow(c, m, c.mapMin, c.mapMax)
  /\ FiniteWindow(c, r, c.rpmMin, c.rpmMax)
  /\ FiniteWindow(c, i, c.iatMin, c.iatMax)
  /\ PositiveFinite(c, c.multiplier)
  /\ PositiveFinite(c, c.litres)
  /\ PositiveFinite(c, c.maxAir)

(* The two-dimensional surface of the committed lift, and the product.     *)
VolumetricEfficiency(c, d, m, r) == c.ve[d = AvlsHighMode][m][r]
Product(c, v, m, r) ==
  Times(Times(Times(Times(Times(v, m), r), c.litres), c.constant), c.multiplier)

(* Fault: the ceiling is only tested, not applied. *)
Unclamped(c, x) == x
Clamped(c, x) == IF Greater(x, c.maxAir) THEN c.maxAir ELSE x

(* What the helper computes from one set of inputs.                        *)
Airflow(c, d, m, i, r) ==
  LET ve == VolumetricEfficiency(c, d, m, r)
      product == Times(c.density[i], Product(c, ve, m, r))
  IN IF ~IsNumber(r) THEN c.failsafe
     ELSE IF r = 0 THEN 0
     ELSE IF /\ InputsUsable(c, m, i, r)
             /\ PositiveFinite(c, ve) /\ PositiveFinite(c, c.density[i])
             /\ PositiveFinite(c, product)
     THEN Clamped(c, product)
     ELSE c.failsafe
-----------------------------------------------------------------------------
Init ==
  /\ cal \in Calibrations
  /\ pc = "idle"
  /\ fr12 = 0 /\ fr13 = 0 /\ fr15 = 0 /\ air = 0
  /\ \E s \in Seeds : words = [w \in Words |-> s]

At(step) == pc = step

(* 172CE: the stock caller captures RPM, and the helper tests it first.    *)
Capture(rpm) ==
  /\ At("idle")
  /\ fr15' = rpm
  /\ IF ~IsNumber(rpm) THEN air' = cal.failsafe /\ pc' = "final"
     ELSE IF rpm = 0 THEN air' = 0 /\ pc' = "final"
     ELSE pc' = "map" /\ UNCHANGED air
  /\ UNCHANGED <<cal, fr12, fr13, words>>

CaptureMap(map) ==
  /\ At("map")
  /\ fr12' = map
  /\ pc' = "iat"
  /\ UNCHANGED <<cal, fr13, fr15, air, words>>

(* The last load is followed by the gates. *)
CaptureIat(iat) ==
  /\ At("iat")
  /\ fr13' = iat
  /\ IF InputsUsable(cal, fr12, iat, fr15)
     THEN pc' = "surface" /\ UNCHANGED air
     ELSE pc' = "final" /\ air' = cal.failsafe
  /\ UNCHANGED <<cal, fr12, fr15, words>>

(* Fault: pressure is loaded again after the lookup. *)
SurfaceReloads(mode) ==
  /\ At("surface")
  /\ LET ve == VolumetricEfficiency(cal, mode, fr12, fr15) IN
       IF PositiveFinite(cal, ve)
       THEN /\ \E map \in MapValues : air' = Product(cal, ve, map, fr15)
            /\ pc' = "density"
       ELSE air' = cal.failsafe /\ pc' = "final"
  /\ UNCHANGED <<cal, fr12, fr13, fr15, words>>

(* The committed lift mode is loaded here.                                 *)
Surface(mode) ==
  /\ At("surface")
  /\ LET ve == VolumetricEfficiency(cal, mode, fr12, fr15) IN
       IF PositiveFinite(cal, ve)
       THEN air' = Product(cal, ve, fr12, fr15) /\ pc' = "density"
       ELSE air' = cal.failsafe /\ pc' = "final"
  /\ UNCHANGED <<cal, fr12, fr13, fr15, words>>

Density ==
  /\ At("density")
  /\ LET factor == cal.density[fr13]
         product == Times(factor, air)
     IN air' = IF PositiveFinite(cal, factor) /\ PositiveFinite(cal, product)
               THEN Clamped(cal, product) ELSE cal.failsafe
  /\ pc' = "final"
  /\ UNCHANGED <<cal, fr12, fr13, fr15, words>>

(* store_all, one word at a time *)
After(word) ==
  CASE word = "final" -> "raw" [] word = "raw" -> "filterA"
    [] word = "filterA" -> "filterB" [] word = "filterB" -> "caller"

StoreWord ==
  /\ pc \in Words
  /\ words' = [words EXCEPT ![pc] = air]
  /\ pc' = After(pc)
  /\ UNCHANGED <<cal, fr12, fr13, fr15, air>>

(* The stock caller stores the result again, and derives the load by       *)
(* dividing it by the RPM it captured, if that is positive.                *)
CallerLoad ==
  /\ At("caller")
  /\ words' = [words EXCEPT !["final"] = air]
  /\ fr12' = 0 /\ fr13' = 0 /\ fr15' = 0 /\ air' = 0
  /\ pc' = "idle"
  /\ UNCHANGED cal

Next == \/ \E rpm \in RpmValues : Capture(rpm)
        \/ \E map \in MapValues : CaptureMap(map)
        \/ \E iat \in IatValues : CaptureIat(iat)
        \/ \E mode \in Modes : Surface(mode)
        \/ Density \/ StoreWord \/ CallerLoad

Spec == Init /\ [][Next]_vars
-----------------------------------------------------------------------------
TypeOK ==
  /\ cal \in Calibrations
  /\ pc \in {"idle", "map", "iat", "surface", "density", "caller"} \cup Words
  /\ fr12 \in Float /\ fr13 \in Float /\ fr15 \in Float /\ air \in Float
  /\ words \in [Words -> Float]

(* Readers of the published airflow, the next call's history included,     *)
(* only ever see a start-up seed, zero, the fail-safe or a positive value  *)
(* not above the calibrated ceiling: no NaN, infinity or negative airflow  *)
(* gets out of malformed tables, overflowing products or bad sensors.      *)
Sane(x) ==
  \/ x \in Seeds \cup {0, cal.failsafe}
  \/ PositiveFinite(cal, x) /\ ~Greater(x, cal.maxAir)
AirflowSane == \A w \in Words : Sane(words[w])

(* The load the fuel tables are looked up with belongs to one engine       *)
(* speed: what the caller divides by its captured RPM is the airflow of    *)
(* exactly that RPM and of one reading each of pressure, temperature and   *)
(* lift, for gates, lookup and product alike, although any of them may     *)
(* change between the loads; the fail-safe where one of the readings is    *)
(* unusable, whatever the tables hold.                                     *)
LoadOfOneSpeed ==
  At("caller") => \E mode \in Modes : air = Airflow(cal, mode, fr12, fr13, fr15)

(* An input of the call is outside its window or not a number.             *)
Unusable == fr15 # 0 /\ (~IsNumber(fr15) \/ ~InputsUsable(cal, fr12, fr13, fr15))

(* "invokes the fixed 500 g/s rich/high-load fail-safe": the airflow such  *)
(* a call publishes is at least the calibrated ceiling, so that the error  *)
(* is on the side of more fuel.                                            *)
InvalidIsHighLoad ==
  At("caller") /\ Unusable /\ PositiveFinite(cal, cal.maxAir)
    => ~Greater(cal.maxAir, air)
=============================================================================
