------------------------ MODULE UnlockedWrappersProofs ------------------------
(***************************************************************************)
(* The three wrappers that run in a stock task without a lock, proved one  *)
(* after the other for every calibration, table and sequence of readings,  *)
(* and then together: a behaviour of the three is a behaviour of each, so  *)
(* what is proved of one holds beside the others.                          *)
(***************************************************************************)
EXTENDS UnlockedWrappers, TLAPS

-----------------------------------------------------------------------------
(***************************************************************************)
(* 1. Speed density.  No airflow outside the promised values is ever       *)
(* published, and what the caller divides by its engine speed is the       *)
(* airflow of that speed.  The first invariant carries the gates' verdict  *)
(* on the ceiling to the place where the product is clamped by it, two     *)
(* native lookups later, and the result from there to the last of the four *)
(* stores; the second carries how much of the reference definition has     *)
(* been computed.                                                          *)
(***************************************************************************)
Computing == {"surface", "density"}
Storing == Words \cup {"caller"}

(* What a step may rely on: captured values index the surfaces, the        *)
(* ceiling has passed its gate, the result is fit to be stored.            *)
Progress ==
  /\ pc \in {"iat"} \cup Computing => fr12 \in MapValues /\ fr15 \in RpmValues
  /\ pc = "map" => fr15 \in RpmValues
  /\ pc \in Computing => fr13 \in IatValues
  /\ pc \in Computing => PositiveFinite(cal, cal.maxAir)
  /\ pc \in Storing => Sane(air)

AirflowInv == TypeOK /\ AirflowSane /\ Progress
-----------------------------------------------------------------------------
(* Multiplication stays in the type. *)
LEMMA TimesType == ASSUME NEW x \in Float, NEW y \in Float
                   PROVE  Times(x, y) \in Float
BY NaNAssumption DEF Times, Float

LEMMA ProductType ==
  ASSUME NEW c \in Calibration, NEW v \in Float, NEW m \in Float, NEW r \in Float
  PROVE  Product(c, v, m, r) \in Float
<1>1. c.litres \in Float /\ c.constant \in Float /\ c.multiplier \in Float
  BY DEF Calibration, Float
<1> DEFINE a == Times(v, m)
           b == Times(a, r)
           d == Times(b, c.litres)
           e == Times(d, c.constant)
<1>2. a \in Float                          BY TimesType
<1>3. b \in Float                          BY <1>2, TimesType
<1>4. d \in Float                          BY <1>1, <1>3, TimesType
<1>5. e \in Float                          BY <1>1, <1>4, TimesType
<1>6. Times(e, c.multiplier) \in Float     BY <1>1, <1>5, TimesType
<1> QED  BY <1>6 DEF Product

(* A positive finite product, clamped by a ceiling that passed its own     *)
(* gate, is positive, finite and not above it.                             *)
LEMMA ClampedSane ==
  ASSUME NEW c \in Calibration, NEW x \in Float,
         PositiveFinite(c, x), PositiveFinite(c, c.maxAir)
  PROVE  /\ Clamped(c, x) \in Float
         /\ PositiveFinite(c, Clamped(c, x))
         /\ ~Greater(Clamped(c, x), c.maxAir)
<1>1. c.maxAir \in Int /\ c.fltMax \in Int /\ x \in Int
  BY DEF PositiveFinite, IsNumber, Float, Calibration
<1>2. NaN \notin Int
  BY NaNAssumption
<1> QED  BY <1>1, <1>2 DEF Clamped, PositiveFinite, IsNumber, Greater, Float
-----------------------------------------------------------------------------
LEMMA InitAirflowInv == Init => AirflowInv
<1> SUFFICES ASSUME Init PROVE AirflowInv
  OBVIOUS
<1>1. PICK s \in Seeds : words = [w \in Words |-> s]
  BY DEF Init
<1>2. s \in Float
  BY SpeedDensityAssumption DEF Float
<1>3. TypeOK
  BY <1>1, <1>2 DEF Init, TypeOK, Float
<1>4. AirflowSane
  BY <1>1 DEF AirflowSane, Sane
<1>5. Progress
  BY DEF Init, Progress, Computing, Storing, Words
<1> QED  BY <1>3, <1>4, <1>5 DEF AirflowInv

LEMMA AirflowStep == AirflowInv /\ [Next]_vars => AirflowInv'
<1> SUFFICES ASSUME AirflowInv, [Next]_vars PROVE AirflowInv'
  OBVIOUS
<1> USE DEF AirflowInv, TypeOK, At
<1>c. cal \in Calibration /\ cal.failsafe \in Float
  BY SpeedDensityAssumption DEF Calibration, Float
<1>s. Sane(0) /\ Sane(cal.failsafe) /\ 0 \in Float
  BY DEF Sane, Float
<1>1. ASSUME NEW rpm \in RpmValues, Capture(rpm) PROVE AirflowInv'
  <2>1. TypeOK'
    BY <1>1, <1>c, SpeedDensityAssumption DEF Capture, Words, Float
  <2>2. AirflowSane'
    BY <1>1 DEF Capture, AirflowSane, Sane
  <2>3. Progress'
    BY <1>1, <1>s DEF Capture, Progress, Computing, Storing, Words, Sane
  <2> QED  BY <2>1, <2>2, <2>3
<1>2. ASSUME NEW map \in MapValues, CaptureMap(map) PROVE AirflowInv'
  <2>1. TypeOK'
    BY <1>2, SpeedDensityAssumption DEF CaptureMap
  <2>2. AirflowSane'
    BY <1>2 DEF CaptureMap, AirflowSane, Sane
  <2>3. Progress'
    BY <1>2 DEF CaptureMap, Progress, Computing, Storing, Words
  <2> QED  BY <2>1, <2>2, <2>3
<1>3. ASSUME NEW iat \in IatValues, CaptureIat(iat) PROVE AirflowInv'
  <2>1. TypeOK'
    BY <1>3, <1>c, SpeedDensityAssumption DEF CaptureIat, Words
  <2>2. AirflowSane'
    BY <1>3 DEF CaptureIat, AirflowSane, Sane
  <2>3. Progress'
    BY <1>3, <1>s DEF CaptureIat, InputsUsable, Progress, Computing, Storing, Words, Sane
  <2> QED  BY <2>1, <2>2, <2>3
<1>4. ASSUME NEW mode \in Modes, Surface(mode) PROVE AirflowInv'
  <2> DEFINE ve == VolumetricEfficiency(cal, mode, fr12, fr15)
  <2>1. fr12 \in MapValues /\ fr15 \in RpmValues /\ pc = "surface"
    BY <1>4 DEF Surface, Progress, Computing
  <2>2. ve \in Float
    <3>1. (mode = AvlsHighMode) \in BOOLEAN
      OBVIOUS
    <3>2. cal.ve \in [BOOLEAN -> [MapValues -> [RpmValues -> Float]]]
      BY <1>c DEF Calibration
    <3>3. cal.ve[mode = AvlsHighMode] \in [MapValues -> [RpmValues -> Float]]
      BY <3>1, <3>2
    <3> QED  BY <2>1, <3>3 DEF VolumetricEfficiency
  <2>3. Product(cal, ve, fr12, fr15) \in Float
    BY <1>c, <2>2, ProductType
  <2>4. TypeOK'
    <3>1. air' \in Float
      BY <1>4, <1>c, <2>3 DEF Surface
    <3> QED  BY <1>4, <3>1 DEF Surface, Words
  <2>5. AirflowSane'
    BY <1>4 DEF Surface, AirflowSane, Sane
  <2>6. Progress'
    <3>1. CASE PositiveFinite(cal, ve)
      <4>1. pc' = "density"
        BY <1>4, <3>1 DEF Surface
      <4>2. fr13 \in IatValues
        BY <2>1 DEF Progress, Computing
      <4> QED  BY <1>4, <4>1, <4>2, <2>1
               DEF Surface, Progress, Computing, Storing, Words
    <3>2. CASE ~PositiveFinite(cal, ve)
      <4>1. pc' = "final" /\ air' = cal.failsafe
        BY <1>4, <3>2 DEF Surface
      <4> QED  BY <1>4, <4>1, <1>s
               DEF Surface, Progress, Computing, Storing, Words, Sane
    <3> QED  BY <3>1, <3>2
  <2> QED  BY <2>4, <2>5, <2>6
<1>5. CASE Density
  <2> DEFINE factor == cal.density[fr13]
             product == Times(factor, air)
  <2>1. PositiveFinite(cal, cal.maxAir) /\ fr13 \in IatValues
    BY <1>5 DEF Density, Progress, Computing
  <2>2. product \in Float
    <3>1. factor \in Float
      BY <1>c, <2>1 DEF Calibration
    <3> QED  BY <3>1, TimesType
  <2>3. Sane(air') /\ air' \in Float /\ pc' = "final"
    <3>1. CASE PositiveFinite(cal, factor) /\ PositiveFinite(cal, product)
      <4>1. air' = Clamped(cal, product) /\ pc' = "final"
        BY <1>5, <3>1 DEF Density
      <4> HIDE DEF product
      <4>2. /\ Clamped(cal, product) \in Float
            /\ PositiveFinite(cal, Clamped(cal, product))
            /\ ~Greater(Clamped(cal, product), cal.maxAir)
        BY <1>c, <2>1, <2>2, <3>1, ClampedSane
      <4> QED  BY <4>1, <4>2 DEF Sane
    <3>2. CASE ~(PositiveFinite(cal, factor) /\ PositiveFinite(cal, product))
      <4>1. air' = cal.failsafe /\ pc' = "final"
        BY <1>5, <3>2 DEF Density
      <4> QED  BY <4>1, <1>c, <1>s
    <3> QED  BY <3>1, <3>2
  <2>4. TypeOK'
    BY <1>5, <2>3 DEF Density, Words
  <2>5. AirflowSane'
    BY <1>5 DEF Density, AirflowSane, Sane
  <2>6. Progress'
    BY <1>5, <2>3 DEF Density, Progress, Computing, Storing, Words, Sane
  <2> QED  BY <2>4, <2>5, <2>6
<1>6. CASE StoreWord
  <2>1. Sane(air)
    BY <1>6 DEF StoreWord, Progress, Storing
  <2>2. pc' \in Storing
    BY <1>6 DEF StoreWord, After, Storing, Words
  <2>3. TypeOK'
    BY <1>6, <2>2 DEF StoreWord, Storing
  <2>4. AirflowSane'
    BY <1>6, <2>1 DEF StoreWord, AirflowSane, Sane
  <2>5. Progress'
    BY <1>6, <2>1, <2>2 DEF StoreWord, Progress, Computing, Storing, Words, Sane
  <2> QED  BY <2>3, <2>4, <2>5
<1>7. CASE CallerLoad
  <2>1. Sane(air)
    BY <1>7 DEF CallerLoad, Progress, Storing
  <2>2. TypeOK'
    BY <1>7, <1>s DEF CallerLoad
  <2>3. AirflowSane'
    BY <1>7, <2>1 DEF CallerLoad, AirflowSane, Sane
  <2>4. Progress'
    BY <1>7 DEF CallerLoad, Progress, Computing, Storing, Words
  <2> QED  BY <2>2, <2>3, <2>4
<1>8. CASE UNCHANGED vars
  BY <1>8 DEF vars, AirflowSane, Sane, Progress, Computing, Storing
<1> QED  BY <1>1, <1>2, <1>3, <1>4, <1>5, <1>6, <1>7, <1>8 DEF Next
-----------------------------------------------------------------------------
(* The strengthened invariant holds of the helper in its task.             *)
THEOREM AirflowInvariance == Spec => []AirflowInv
<1> QED  BY InitAirflowInv, AirflowStep, PTL DEF Spec

(* Every captured value, register and published word keeps its type.       *)
THEOREM AirflowTypeCorrect == Spec => []TypeOK
<1>1. AirflowInv => TypeOK
  BY DEF AirflowInv
<1> QED  BY AirflowInvariance, <1>1, PTL

(* No NaN, infinite, negative or over-ceiling airflow is ever published by *)
(* the wrapper, whatever the tables, limits and sensors say.               *)
THEOREM SaneAirflow == Spec => []AirflowSane
<1>1. AirflowInv => AirflowSane
  BY DEF AirflowInv
<1> QED  BY AirflowInvariance, <1>1, PTL
-----------------------------------------------------------------------------
(* How far the helper has come with the airflow of its captured readings.  *)
Gated == {"surface", "density"}
SpeedUsable == IsNumber(fr15) /\ fr15 # 0

OneSpeed ==
  /\ pc \in {"map", "iat"} \cup Gated => SpeedUsable
  /\ pc \in Gated => InputsUsable(cal, fr12, fr13, fr15)
  /\ pc = "density" =>
       \E mode \in Modes :
         LET ve == VolumetricEfficiency(cal, mode, fr12, fr15)
         IN PositiveFinite(cal, ve) /\ air = Product(cal, ve, fr12, fr15)
  /\ pc \in Storing => \E mode \in Modes : air = Airflow(cal, mode, fr12, fr13, fr15)

LEMMA InitOneSpeed == Init => OneSpeed
BY DEF Init, OneSpeed, Gated, Storing, Words

LEMMA OneSpeedPreserved == TypeOK /\ OneSpeed /\ [Next]_vars => OneSpeed'
<1> SUFFICES ASSUME TypeOK, OneSpeed, [Next]_vars PROVE OneSpeed'
  OBVIOUS
<1> USE DEF At
<1>m. PICK any \in Modes : TRUE
  BY SpeedDensityAssumption
<1>1. ASSUME NEW rpm \in RpmValues, Capture(rpm) PROVE OneSpeed'
  <2>1. CASE IsNumber(rpm) /\ rpm # 0
    BY <1>1, <2>1 DEF Capture, OneSpeed, SpeedUsable, Gated, Storing, Words
  <2>2. CASE ~(IsNumber(rpm) /\ rpm # 0)
    <3>1. /\ pc' = "final" /\ fr15' = rpm /\ cal' = cal
          /\ air' = IF IsNumber(rpm) THEN 0 ELSE cal.failsafe
      BY <1>1, <2>2 DEF Capture
    <3>2. air' = Airflow(cal', any, fr12', fr13', fr15')
      BY <2>2, <3>1 DEF Airflow
    <3> QED  BY <3>1, <3>2, <1>m DEF OneSpeed, Gated, Storing, Words
  <2> QED  BY <2>1, <2>2
<1>2. ASSUME NEW map \in MapValues, CaptureMap(map) PROVE OneSpeed'
  BY <1>2 DEF CaptureMap, OneSpeed, SpeedUsable, Gated, Storing, Words
<1>3. ASSUME NEW iat \in IatValues, CaptureIat(iat) PROVE OneSpeed'
  <2>1. SpeedUsable
    BY <1>3 DEF CaptureIat, OneSpeed
  <2>2. CASE InputsUsable(cal, fr12, iat, fr15)
    BY <1>3, <2>1, <2>2 DEF CaptureIat, OneSpeed, SpeedUsable, Gated, Storing, Words
  <2>3. CASE ~InputsUsable(cal, fr12, iat, fr15)
    <3>1. /\ pc' = "final" /\ air' = cal.failsafe
          /\ fr12' = fr12 /\ fr13' = iat /\ fr15' = fr15 /\ cal' = cal
      BY <1>3, <2>3 DEF CaptureIat
    <3>2. air' = Airflow(cal', any, fr12', fr13', fr15')
      BY <2>1, <2>3, <3>1 DEF Airflow, SpeedUsable
    <3> QED  BY <3>1, <3>2, <1>m DEF OneSpeed, Gated, Storing, Words
  <2> QED  BY <2>2, <2>3
<1>4. ASSUME NEW mode \in Modes, Surface(mode) PROVE OneSpeed'
  <2> DEFINE ve == VolumetricEfficiency(cal, mode, fr12, fr15)
  <2>1. SpeedUsable /\ InputsUsable(cal, fr12, fr13, fr15)
    BY <1>4 DEF Surface, OneSpeed, Gated
  <2>2. cal' = cal /\ fr12' = fr12 /\ fr13' = fr13 /\ fr15' = fr15
    BY <1>4 DEF Surface
  <2>3. CASE PositiveFinite(cal, ve)
    <3>1. pc' = "density" /\ air' = Product(cal, ve, fr12, fr15)
      BY <1>4, <2>3 DEF Surface
    <3>2. SpeedUsable' /\ InputsUsable(cal, fr12, fr13, fr15)'
      BY <2>1, <2>2 DEF SpeedUsable
    <3> QED  BY <2>2, <2>3, <3>1, <3>2 DEF OneSpeed, Gated, Storing, Words
  <2>4. CASE ~PositiveFinite(cal, ve)
    <3>1. pc' = "final" /\ air' = cal.failsafe
      BY <1>4, <2>4 DEF Surface
    <3>2. air' = Airflow(cal', mode, fr12', fr13', fr15')
      BY <2>1, <2>2, <2>4, <3>1 DEF Airflow, SpeedUsable
    <3> QED  BY <3>1, <3>2 DEF OneSpeed, Gated, Storing, Words
  <2> QED  BY <2>3, <2>4
<1>5. CASE Density
  <2>1. PICK mode \in Modes :
          /\ PositiveFinite(cal, VolumetricEfficiency(cal, mode, fr12, fr15))
          /\ air = Product(cal, VolumetricEfficiency(cal, mode, fr12, fr15), fr12, fr15)
    BY <1>5 DEF Density, OneSpeed
  <2>2. SpeedUsable /\ InputsUsable(cal, fr12, fr13, fr15)
    BY <1>5 DEF Density, OneSpeed, Gated
  <2>3. pc' = "final" /\ cal' = cal /\ fr12' = fr12 /\ fr13' = fr13 /\ fr15' = fr15
    BY <1>5 DEF Density
  <2>4. air' = IF PositiveFinite(cal, cal.density[fr13])
                  /\ PositiveFinite(cal, Times(cal.density[fr13], air))
               THEN Clamped(cal, Times(cal.density[fr13], air)) ELSE cal.failsafe
    BY <1>5 DEF Density
  <2>5. air' = Airflow(cal', mode, fr12', fr13', fr15')
    BY <2>1, <2>2, <2>3, <2>4 DEF Airflow, SpeedUsable
  <2> QED  BY <2>3, <2>5 DEF OneSpeed, Gated, Storing, Words
<1>6. CASE StoreWord
  <2>1. PICK mode \in Modes : air = Airflow(cal, mode, fr12, fr13, fr15)
    BY <1>6 DEF StoreWord, OneSpeed, Storing
  <2>2. pc' \in Storing
    BY <1>6 DEF StoreWord, After, Storing, Words
  <2>3. air' = Airflow(cal', mode, fr12', fr13', fr15')
    BY <1>6, <2>1 DEF StoreWord
  <2> QED  BY <2>2, <2>3 DEF OneSpeed, Gated, Storing, Words
<1>7. CASE CallerLoad
  BY <1>7 DEF CallerLoad, OneSpeed, Gated, Storing, Words
<1>8. CASE UNCHANGED vars
  BY <1>8 DEF vars, OneSpeed, SpeedUsable
<1> QED  BY <1>1, <1>2, <1>3, <1>4, <1>5, <1>6, <1>7, <1>8 DEF Next

(* The load is the airflow of one engine speed and one reading of each     *)
(* sensor divided by that speed, whatever changes between the loads.       *)
THEOREM OneSpeedLoad == Spec => []LoadOfOneSpeed
<1>1. AirflowInv => TypeOK
  BY DEF AirflowInv
<1>2. OneSpeed => LoadOfOneSpeed
  BY DEF OneSpeed, LoadOfOneSpeed, At, Storing
<1> QED  BY AirflowInvariance, InitOneSpeed, OneSpeedPreserved, <1>1, <1>2, PTL DEF Spec
-----------------------------------------------------------------------------
(***************************************************************************)
(* 2. Pressure-forced open loop.  What makes the two promises of the guard *)
(* inductive is that, while the history says boost (or vacuum), the limit  *)
(* the call carries is the one the present barometer gives, so the         *)
(* pressure it loads next is judged against the readings the history       *)
(* speaks of.                                                              *)
(***************************************************************************)
(* The limit in hand is the present barometer's. *)
LimitCurrent ==
  guardPc = "map" => LimitUsable(guardCal, baro) /\ limit = Minus(baro, guardCal.margin)

BoostInv ==
  /\ boost /\ guardPc # "idle" => InBoost(guardCal, mapP, baro)
  /\ boost /\ guardPc # "idle" => LimitCurrent
  /\ boost /\ guardPc = "idle" /\ guardCal.openLoopOn => ~allowed

VacuumInv ==
  /\ vacuum /\ guardPc # "idle" => InVacuum(guardCal, mapP, baro)
  /\ vacuum /\ guardPc # "idle" => LimitCurrent /\ guardPc # "revoke"
  /\ vacuum => (allowed <=> decided)

OpenLoopInv == OpenLoopTypeOK /\ BoostInv /\ VacuumInv
-----------------------------------------------------------------------------
(* Subtraction stays in the type. *)
LEMMA MinusType == ASSUME NEW x \in Float, NEW y \in Float
                   PROVE  Minus(x, y) \in Float
BY NaNAssumption DEF Minus, Float

(* Boost and a pressure below the guard's limit exclude each other: a      *)
(* positive arm threshold lies above the barometer, a positive margin      *)
(* below it.                                                               *)
LEMMA BoostNotBelow ==
  ASSUME NEW c \in OpenLoopCalibration, NEW m \in Float, NEW b \in Float,
         InBoost(c, m, b), LimitUsable(c, b)
  PROVE  ~Below(m, Minus(b, c.margin))
<1>1. m \in Int /\ b \in Int /\ c.arm \in Int /\ c.margin \in Int
  BY DEF InBoost, Arms, Usable, InWindow, LimitUsable, IsNumber, Greater,
         Float, OpenLoopCalibration
<1>2. NaN \notin Int
  BY NaNAssumption
<1>3. c.arm > 0 /\ c.margin > 0 /\ ~(c.arm > m - b)
  BY <1>1, <1>2 DEF InBoost, Arms, LimitUsable, IsNumber, Greater, Minus
<1>4. Minus(b, c.margin) = b - c.margin
  BY <1>1, <1>2 DEF Minus
<1>5. ~(b - c.margin > m)
  BY <1>1, <1>3
<1> QED  BY <1>4, <1>5 DEF Below, Greater
-----------------------------------------------------------------------------
(* The initial states satisfy the invariant. *)
LEMMA InitOpenLoopInv == OpenLoopInit => OpenLoopInv
<1> SUFFICES ASSUME OpenLoopInit PROVE OpenLoopInv
  OBVIOUS
<1>1. OpenLoopTypeOK
  <2>1. mapP \in Float /\ baro \in Float /\ limit \in Float
    BY OpenLoopAssumption DEF OpenLoopInit, Float
  <2> QED  BY <2>1 DEF OpenLoopInit, OpenLoopTypeOK
<1>2. BoostInv /\ VacuumInv
  BY DEF OpenLoopInit, BoostInv, VacuumInv
<1> QED  BY <1>1, <1>2 DEF OpenLoopInv

(* Every step preserves the typing. *)
LEMMA OpenLoopTypeStep == OpenLoopTypeOK /\ [OpenLoopNext]_openLoopVars => OpenLoopTypeOK'
<1> SUFFICES ASSUME OpenLoopTypeOK, [OpenLoopNext]_openLoopVars PROVE OpenLoopTypeOK'
  OBVIOUS
<1>1. Minus(baro, guardCal.margin) \in Float
  BY MinusType, OpenLoopAssumption DEF OpenLoopTypeOK, OpenLoopCalibration
<1>2. CASE DecideStock
  BY <1>2 DEF OpenLoopTypeOK, DecideStock, sensors, InBoost, InVacuum, Arms, Below
<1>3. CASE LoadBaro
  BY <1>1, <1>3 DEF OpenLoopTypeOK, LoadBaro, sensors, history
<1>4. CASE LoadMap
  BY <1>4 DEF OpenLoopTypeOK, LoadMap, sensors, history
<1>5. CASE Revoke
  BY <1>5 DEF OpenLoopTypeOK, Revoke, sensors, history
<1>6. CASE SenseMap
  BY <1>6, OpenLoopAssumption
     DEF OpenLoopTypeOK, SenseMap, During, InBoost, InVacuum, Arms, Below
<1>7. CASE SenseBaro
  BY <1>7, OpenLoopAssumption DEF OpenLoopTypeOK, SenseBaro, During
<1>8. CASE UNCHANGED openLoopVars
  BY <1>8 DEF OpenLoopTypeOK, openLoopVars, sensors, history
<1> QED  BY <1>2, <1>3, <1>4, <1>5, <1>6, <1>7, <1>8 DEF OpenLoopNext

(* Every step preserves what is known of a call in boost. *)
LEMMA BoostStep == OpenLoopTypeOK /\ BoostInv /\ [OpenLoopNext]_openLoopVars => BoostInv'
<1> SUFFICES ASSUME OpenLoopTypeOK, BoostInv, [OpenLoopNext]_openLoopVars PROVE BoostInv'
  OBVIOUS
<1>1. CASE DecideStock
  BY <1>1 DEF DecideStock, BoostInv, OpenLoopTypeOK, LimitCurrent, sensors
<1>2. CASE LoadBaro
  BY <1>2 DEF LoadBaro, BoostInv, LimitCurrent, sensors, history
<1>3. CASE LoadMap
  <2>1. boost /\ guardPc = "map" => ~Below(mapP, limit)
    BY BoostNotBelow, <1>3, OpenLoopAssumption DEF BoostInv, LimitCurrent, OpenLoopTypeOK
  <2> QED  BY <1>3, <2>1 DEF LoadMap, BoostInv, LimitCurrent, sensors, history
<1>4. CASE Revoke
  BY <1>4 DEF Revoke, BoostInv, LimitCurrent, sensors, history
<1>5. CASE SenseMap
  BY <1>5 DEF SenseMap, During, BoostInv, LimitCurrent, OpenLoopTypeOK
<1>6. CASE SenseBaro
  BY <1>6 DEF SenseBaro, During, BoostInv, LimitCurrent, OpenLoopTypeOK
<1>7. CASE UNCHANGED openLoopVars
  BY <1>7 DEF openLoopVars, sensors, history, BoostInv, LimitCurrent
<1> QED  BY <1>1, <1>2, <1>3, <1>4, <1>5, <1>6, <1>7 DEF OpenLoopNext

(* Every step preserves what is known of a call in vacuum. *)
LEMMA VacuumStep == OpenLoopTypeOK /\ VacuumInv /\ [OpenLoopNext]_openLoopVars => VacuumInv'
<1> SUFFICES ASSUME OpenLoopTypeOK, VacuumInv, [OpenLoopNext]_openLoopVars PROVE VacuumInv'
  OBVIOUS
<1>1. CASE DecideStock
  BY <1>1 DEF DecideStock, VacuumInv, OpenLoopTypeOK, LimitCurrent, sensors
<1>2. CASE LoadBaro
  BY <1>2 DEF LoadBaro, VacuumInv, LimitCurrent, InVacuum, sensors, history
<1>3. CASE LoadMap
  <2>1. vacuum /\ guardPc = "map" => Below(mapP, limit)
    BY <1>3 DEF VacuumInv, LimitCurrent, InVacuum
  <2> QED  BY <1>3, <2>1 DEF LoadMap, VacuumInv, LimitCurrent, sensors, history
<1>4. CASE Revoke
  BY <1>4 DEF Revoke, VacuumInv, LimitCurrent, sensors, history
<1>5. CASE SenseMap
  BY <1>5 DEF SenseMap, During, VacuumInv, LimitCurrent, OpenLoopTypeOK
<1>6. CASE SenseBaro
  BY <1>6 DEF SenseBaro, During, VacuumInv, LimitCurrent, OpenLoopTypeOK
<1>7. CASE UNCHANGED openLoopVars
  BY <1>7 DEF openLoopVars, sensors, history, VacuumInv, LimitCurrent
<1> QED  BY <1>1, <1>2, <1>3, <1>4, <1>5, <1>6, <1>7 DEF OpenLoopNext

(* The inductive invariant holds in every reachable state. *)
THEOREM OpenLoopInvariance == OpenLoopSpec => []OpenLoopInv
<1>1. OpenLoopInv /\ [OpenLoopNext]_openLoopVars => OpenLoopInv'
  BY OpenLoopTypeStep, BoostStep, VacuumStep DEF OpenLoopInv
<1> QED  BY InitOpenLoopInv, <1>1, PTL DEF OpenLoopSpec

(* Type correctness of the guard's state. *)
THEOREM OpenLoopTypeCorrect == OpenLoopSpec => []OpenLoopTypeOK
<1>1. OpenLoopInv => OpenLoopTypeOK
  BY DEF OpenLoopInv
<1> QED  BY OpenLoopInvariance, <1>1, PTL

(* A call during which the lean cut could arm ends in open loop.           *)
THEOREM BoostForcesOpenLoop == OpenLoopSpec => []ArmedIsOpenLoop
<1>1. OpenLoopInv => ArmedIsOpenLoop
  BY DEF OpenLoopInv, BoostInv, ArmedIsOpenLoop
<1> QED  BY OpenLoopInvariance, <1>1, PTL

(* A call below the guard's limit leaves the stock decision alone.         *)
THEOREM VacuumIsStock == OpenLoopSpec => []VacuumKeepsStock
<1>1. OpenLoopInv => VacuumKeepsStock
  BY DEF OpenLoopInv, VacuumInv, VacuumKeepsStock
<1> QED  BY OpenLoopInvariance, <1>1, PTL
-----------------------------------------------------------------------------
(***************************************************************************)
(* 3. Rotational idle.  The retard bound is inductive once it is known     *)
(* that the cylinders the loop has still to visit hold exactly their stock *)
(* angles: a second retard of one angle would leave the band.              *)
(***************************************************************************)
Untouched == cyl # 0 => \A i \in cyl..Cylinders : timing[i] = stockTiming[i]

IdleInv == IdleTypeOK /\ RetardBounded /\ Untouched
-----------------------------------------------------------------------------
(* The offset is a number between minus a positive maximum and zero.       *)
LEMMA OffsetBounded ==
  ASSUME NEW c \in IdleCalibration, NEW request \in Float
  PROVE  /\ Offset(c, request) \in Int /\ Offset(c, request) <= 0
         /\ \/ Offset(c, request) = 0
            \/ /\ c.maxRetard \in Int /\ c.maxRetard > 0
               /\ Offset(c, request) >= 0 - c.maxRetard
<1>1. c.maxRetard \in Float
  BY DEF IdleCalibration
<1> QED  BY <1>1, NaNAssumption DEF Offset, IsNumber, Greater, Float

(* One turn of the loop leaves the cylinder in its band.                   *)
LEMMA RetardedInBand ==
  ASSUME NEW c \in IdleCalibration, NEW angle \in Float, NEW request \in Float
  PROVE  /\ Retarded(c, angle, request) \in Float
         /\ InBand(c, Retarded(c, angle, request), angle)
<1> DEFINE off == Offset(c, request)
           result == Plus(angle, off)
<1>1. c.maxRetard \in Float /\ c.minFinal \in Float
  BY DEF IdleCalibration
<1>2. /\ off \in Int /\ off <= 0
      /\ off = 0 \/ (c.maxRetard \in Int /\ c.maxRetard > 0 /\ off >= 0 - c.maxRetard)
  BY OffsetBounded
<1> HIDE DEF off
<1>3. CASE angle = NaN \/ c.minFinal = NaN
  <2>1. Retarded(c, angle, request) = angle
    BY <1>3, <1>2, NaNAssumption DEF Retarded, Plus, Greater, IsNumber, Float, off
  <2> QED  BY <2>1 DEF InBand
<1>4. CASE angle # NaN /\ c.minFinal # NaN
  <2>1. angle \in Int /\ c.minFinal \in Int
    BY <1>1, <1>4 DEF Float
  <2>2. result = angle + off
    BY <1>2, <2>1, NaNAssumption DEF Plus
  <2>3. Retarded(c, angle, request) =
          LET floored == IF c.minFinal > angle + off THEN c.minFinal ELSE angle + off
          IN IF floored > angle THEN angle ELSE floored
    BY <1>2, <2>1, <2>2, NaNAssumption DEF Retarded, Greater, IsNumber, off
  <2>4. Retarded(c, angle, request) \in Int
    BY <1>2, <2>1, <2>3
  <2>5. CASE Retarded(c, angle, request) = angle
    BY <2>1, <2>5 DEF InBand, Float
  <2>6. CASE Retarded(c, angle, request) # angle
    <3>1. /\ Retarded(c, angle, request) < angle
          /\ Retarded(c, angle, request) >= c.minFinal
          /\ Retarded(c, angle, request) >= angle + off
          /\ off # 0
      BY <1>2, <2>1, <2>3, <2>6
    <3>2. c.maxRetard \in Int /\ c.maxRetard > 0 /\ off >= 0 - c.maxRetard
      BY <1>2, <3>1
    <3>3. ~(angle - c.maxRetard > Retarded(c, angle, request))
      BY <1>2, <2>1, <2>4, <3>1, <3>2
    <3> QED  BY <2>1, <2>4, <3>1, <3>2, <3>3, NaNAssumption
             DEF InBand, Greater, IsNumber, Float
  <2> QED  BY <2>5, <2>6
<1> QED  BY <1>3, <1>4
-----------------------------------------------------------------------------
LEMMA InitIdleInv == IdleInit => IdleInv
<1> SUFFICES ASSUME IdleInit PROVE IdleInv
  OBVIOUS
<1>1. IdleTypeOK
  BY RotationalIdleAssumption DEF IdleInit, IdleTypeOK
<1>2. RetardBounded /\ Untouched
  BY DEF IdleInit, RetardBounded, Untouched, InBand
<1> QED  BY <1>1, <1>2 DEF IdleInv

(* A new call starts from fresh stock angles.                              *)
LEMMA BeginStep ==
  ASSUME IdleInv, NEW a \in [1..Cylinders -> Angles], NEW r \in Readings, StockTiming(a, r)
  PROVE  IdleInv'
<1>1. IdleTypeOK'
  BY RotationalIdleAssumption DEF IdleInv, IdleTypeOK, StockTiming
<1>2. RetardBounded' /\ Untouched'
  BY DEF StockTiming, RetardBounded, Untouched, InBand
<1> QED  BY <1>1, <1>2 DEF IdleInv

(* A turn of the loop starts from a stock angle, and leaves the others.    *)
LEMMA RetardStep ==
  ASSUME IdleInv, Retard
  PROVE  IdleInv'
<1> USE DEF IdleInv, IdleTypeOK
<1> DEFINE new == Retarded(idleCal, timing[cyl], idleCal.offsets[cyl])
<1>1. cyl \in 1..Cylinders /\ Cylinders \in Nat \ {0}
  BY RotationalIdleAssumption DEF Retard
<1>2. idleCal \in IdleCalibration /\ idleCal.offsets[cyl] \in Float
  BY <1>1, RotationalIdleAssumption DEF IdleCalibration
<1>3. timing[cyl] = stockTiming[cyl] /\ timing[cyl] \in Float
  BY <1>1 DEF Retard, Untouched
<1>4. new \in Float /\ InBand(idleCal, new, stockTiming[cyl])
  BY <1>2, <1>3, RetardedInBand
<1> HIDE DEF new
<1>5. timing' = [timing EXCEPT ![cyl] = new]
  BY DEF Retard, new
<1>6. IdleTypeOK'
  BY <1>1, <1>4, <1>5 DEF Retard
<1>7. RetardBounded'
  BY <1>4, <1>5 DEF Retard, RetardBounded, InBand
<1>8. Untouched'
  BY <1>1, <1>5 DEF Retard, Untouched
<1> QED  BY <1>6, <1>7, <1>8

(* The strengthened invariant holds of every sequence of calls.            *)
THEOREM IdleInvariance == IdleSpec => []IdleInv
<1>1. IdleInv /\ [IdleNext]_idleVars => IdleInv'
  <2> SUFFICES ASSUME IdleInv, [IdleNext]_idleVars PROVE IdleInv'
    OBVIOUS
  <2>1. ASSUME NEW a \in [1..Cylinders -> Angles], NEW r \in Readings, StockTiming(a, r)
        PROVE  IdleInv'
    BY <2>1, BeginStep
  <2>2. CASE Retard
    BY <2>2, RetardStep
  <2>3. CASE UNCHANGED idleVars
    BY <2>3 DEF idleVars, IdleInv, IdleTypeOK, RetardBounded, Untouched, InBand
  <2> QED  BY <2>1, <2>2, <2>3 DEF IdleNext
<1> QED  BY InitIdleInv, <1>1, PTL DEF IdleSpec

(* Angles and loop counter keep their types for any number of cylinders.   *)
THEOREM IdleTypeCorrect == IdleSpec => []IdleTypeOK
<1>1. IdleInv => IdleTypeOK
  BY DEF IdleInv
<1> QED  BY IdleInvariance, <1>1, PTL

(* No interrupt ever reads an advanced, doubly retarded or unbounded       *)
(* angle.                                                                  *)
THEOREM BoundedRetard == IdleSpec => []RetardBounded
<1>1. IdleInv => RetardBounded
  BY DEF IdleInv
<1> QED  BY IdleInvariance, <1>1, PTL
-----------------------------------------------------------------------------
(***************************************************************************)
(* 4. The three together.  A step of one wrapper is a stutter of the other *)
(* two, so the composition implements each of them.                        *)
(***************************************************************************)
LEMMA WrapperInitialEach == WrapperInit => Init /\ OpenLoopInit /\ IdleInit
BY DEF WrapperInit

LEMMA WrapperStepEach ==
  [WrapperNext]_<<wrapper, vars, openLoopVars, idleVars>>
    => [Next]_vars /\ [OpenLoopNext]_openLoopVars /\ [IdleNext]_idleVars
BY DEF WrapperNext

(* Every behaviour of the composition is one of each wrapper alone.        *)
THEOREM WrappersImplementEach == WrapperSpec => Spec /\ OpenLoopSpec /\ IdleSpec
BY WrapperInitialEach, WrapperStepEach, PTL DEF WrapperSpec, Spec, OpenLoopSpec, IdleSpec

(* The typing and the five promises hold of the wrappers side by side.     *)
THEOREM WrappersTypeCorrect == WrapperSpec => [](TypeOK /\ OpenLoopTypeOK /\ IdleTypeOK)
BY WrappersImplementEach, AirflowTypeCorrect, OpenLoopTypeCorrect, IdleTypeCorrect, PTL

THEOREM WrappersKeepPromises ==
  WrapperSpec => [](AirflowSane /\ LoadOfOneSpeed /\ ArmedIsOpenLoop
                    /\ VacuumKeepsStock /\ RetardBounded)
BY WrappersImplementEach, SaneAirflow, OneSpeedLoad, BoostForcesOpenLoop, VacuumIsStock,
   BoundedRetard, PTL
===============================================================================
