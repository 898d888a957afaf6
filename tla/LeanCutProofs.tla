---------------------------- MODULE LeanCutProofs ----------------------------
(***************************************************************************)
(* Proofs about LeanCut for every calibration, counter width and set of    *)
(* readings.  The invariant ties the single count the code keeps to the    *)
(* two runs of calls that the promise is about.                            *)
(***************************************************************************)
EXTENDS LeanCut, TLAPS

(* In the delay the count is the armed run less the arming call; in the    *)
(* monitor it is the part of the lean run that lies after the delay.       *)
CountIsHistory ==
  /\ armedRun <= RunCap /\ leanRun <= RunCap
  /\ leanState = Idle => armedRun = 0
  /\ leanState = Delay => armedRun = leanCounter + 1
  /\ leanState = Monitor =>
       /\ armedRun >= Qualify
       /\ leanCounter <= leanRun /\ leanCounter <= armedRun - Qualify
       /\ leanCounter = leanRun \/ leanCounter = armedRun - Qualify

EnabledWhenActive == leanState # Idle => cal.leanOn

IInv == TypeOK /\ CountBelowLimit /\ CountIsHistory /\ EnabledWhenActive

(* The calibrated limits are naturals below the counter's modulus, and the *)
(* derived run lengths are ordered.                                        *)
LEMMA Limits ==
  ASSUME cal \in Calibrations
  PROVE  /\ cal.transport \in 0..(CounterMod - 1)
         /\ cal.confirm \in 0..(CounterMod - 1)
         /\ cal.leanOn \in BOOLEAN /\ cal.overboostOn \in BOOLEAN
         /\ Atleast1(cal.transport) \in Nat /\ Atleast1(cal.transport) >= 1
         /\ Atleast1(cal.transport) >= cal.transport
         /\ Atleast1(cal.confirm) \in Nat /\ Atleast1(cal.confirm) >= 1
         /\ Atleast1(cal.confirm) >= cal.confirm
         /\ Qualify = Atleast1(cal.transport) + 1
         /\ RunCap = Qualify + Atleast1(cal.confirm)
         /\ Qualify \in Nat /\ RunCap \in Nat
<1>1. cal \in Calibration
  BY LeanCutAssumption
<1>2. /\ cal.transport \in 0..(CounterMod - 1)
      /\ cal.confirm \in 0..(CounterMod - 1)
      /\ cal.leanOn \in BOOLEAN /\ cal.overboostOn \in BOOLEAN
  BY <1>1 DEF Calibration
<1>3. QED
  BY <1>2, LeanCutAssumption DEF Atleast1, Qualify, RunCap

(* Below a limit the stored low word is the incremented count itself.      *)
LEMMA NoWrap ==
  ASSUME NEW n \in Nat, NEW limit \in 0..(CounterMod - 1), ~Reached(n, limit)
  PROVE  Stored(n) = n + 1 /\ n + 1 < limit /\ Stored(n) \in 0..(CounterMod - 1)
BY LeanCutAssumption DEF Stored, Reached

LEMMA LongerFact ==
  ASSUME cal \in Calibrations, NEW n \in Nat, n <= RunCap
  PROVE  /\ Longer(n) \in Nat /\ Longer(n) <= RunCap
         /\ n < RunCap => Longer(n) = n + 1
         /\ n = RunCap => Longer(n) = RunCap
BY Limits DEF Longer

LEMMA InitIInv == Init => IInv
<1> SUFFICES ASSUME Init PROVE IInv
  OBVIOUS
<1>1. TypeOK
  <2>1. /\ mapP \in Float /\ baro \in Float /\ ready \in Float /\ lambda \in Float
        /\ cal \in Calibrations /\ rpmCut \in BOOLEAN /\ fuelCut \in BOOLEAN
    BY LeanCutAssumption, Zenon DEF Init
  <2>2. /\ leanState \in 0..3 /\ leanCounter \in 0..(CounterMod - 1)
        /\ armedRun \in Nat /\ leanRun \in Nat
    BY LeanCutAssumption DEF Init, Idle
  <2>3. QED
    BY <2>1, <2>2 DEF TypeOK
<1>2. CountBelowLimit /\ CountIsHistory /\ EnabledWhenActive
  BY Limits DEF Init, CountBelowLimit, CountIsHistory, EnabledWhenActive,
                Idle, Delay, Monitor, Latched
<1>3. QED
  BY <1>1, <1>2 DEF IInv

(* Only the guard's own words and the history enter the counting part of   *)
(* the invariant, so it survives whatever the other tasks publish.         *)
LEMMA SensorStep ==
  ASSUME IInv, SenseMap \/ SenseBaro \/ SenseWideband \/ LimiterChange
  PROVE  IInv'
<1>1. cal' = cal /\ UNCHANGED guard
  BY DEF SenseMap, SenseBaro, SenseWideband, LimiterChange
<1>2. TypeOK'
  <2>1. mapP' \in Float /\ baro' \in Float /\ ready' \in Float /\ lambda' \in Float
    BY LeanCutAssumption
       DEF IInv, TypeOK, SenseMap, SenseBaro, SenseWideband, LimiterChange
  <2>2. rpmCut' \in BOOLEAN
    BY Zenon DEF IInv, TypeOK, SenseMap, SenseBaro, SenseWideband, LimiterChange
  <2>3. QED
    BY <1>1, <2>1, <2>2 DEF IInv, TypeOK, guard
<1>3. (CountBelowLimit /\ CountIsHistory /\ EnabledWhenActive)'
  BY <1>1 DEF IInv, CountBelowLimit, CountIsHistory, EnabledWhenActive, guard,
              Qualify, RunCap, Atleast1
<1>4. QED
  BY <1>2, <1>3 DEF IInv

(* What every branch of the wrapper has in common: it leaves the inputs    *)
(* alone, and moves the two history counts under their cap.                *)
LEMMA BranchFrame ==
  ASSUME IInv, Wrapper
  PROVE  /\ cal' = cal /\ UNCHANGED inputs /\ fuelCut' \in BOOLEAN
         /\ Qualify' = Qualify /\ RunCap' = RunCap
         /\ Atleast1(cal.transport)' = Atleast1(cal.transport)
         /\ Atleast1(cal.confirm)' = Atleast1(cal.confirm)
         /\ armedRun' \in Nat /\ armedRun' <= RunCap
         /\ leanRun' \in Nat /\ leanRun' <= RunCap
<1>1. /\ cal' = cal /\ UNCHANGED inputs /\ fuelCut' \in BOOLEAN
      /\ armedRun' = Longer(armedRun) \/ armedRun' = 0
      /\ leanRun' = Longer(leanRun) \/ leanRun' = 0
  BY Zenon DEF Wrapper, Disabled, Disarm, StartDelay, DelayTick, DelayDone,
               MonitorRich, MonitorLean, Trip, Hold, Release, Leave, Remember
<1>2. /\ Longer(armedRun) \in Nat /\ Longer(armedRun) <= RunCap
      /\ Longer(leanRun) \in Nat /\ Longer(leanRun) <= RunCap
      /\ 0 <= RunCap
  BY LongerFact, Limits DEF IInv, TypeOK, CountIsHistory
<1>3. /\ armedRun' \in Nat /\ armedRun' <= RunCap
      /\ leanRun' \in Nat /\ leanRun' <= RunCap
  BY <1>1, <1>2
<1>4. QED
  BY <1>1, <1>3 DEF Qualify, RunCap, Atleast1

LEMMA BranchTypes ==
  ASSUME IInv, Wrapper, leanState' \in 0..3, leanCounter' \in 0..(CounterMod - 1)
  PROVE  TypeOK'
<1>1. IInv
  OBVIOUS
<1>2. QED
  BY <1>1, BranchFrame DEF IInv, TypeOK, inputs

(* The count starts, grows with and is cleared with the runs it stands for *)
LEMMA WrapperStep == ASSUME IInv, Wrapper PROVE IInv'
<1> USE DEF IInv
<1>0. /\ cal \in Calibrations /\ leanCounter \in 0..(CounterMod - 1)
      /\ armedRun \in Nat /\ leanRun \in Nat /\ leanState \in 0..3
      /\ armedRun <= RunCap /\ leanRun <= RunCap
      /\ 0 \in 0..(CounterMod - 1)
  BY LeanCutAssumption DEF TypeOK, CountIsHistory
<1> DEFINE T == Atleast1(cal.transport)
           C == Atleast1(cal.confirm)
<1>1. /\ cal.transport \in 0..(CounterMod - 1) /\ cal.confirm \in 0..(CounterMod - 1)
      /\ T \in Nat /\ T >= 1 /\ T >= cal.transport
      /\ C \in Nat /\ C >= 1 /\ C >= cal.confirm
      /\ Qualify = T + 1 /\ RunCap = Qualify + C
  BY <1>0, Limits
<1>2. /\ armedRun < RunCap => Longer(armedRun) = armedRun + 1
      /\ armedRun = RunCap => Longer(armedRun) = RunCap
      /\ leanRun < RunCap => Longer(leanRun) = leanRun + 1
      /\ leanRun = RunCap => Longer(leanRun) = RunCap
  BY <1>0, LongerFact
<1>a. /\ cal' = cal /\ Qualify' = Qualify /\ RunCap' = RunCap
      /\ Atleast1(cal.transport)' = T /\ Atleast1(cal.confirm)' = C
      /\ armedRun' \in Nat /\ armedRun' <= RunCap
      /\ leanRun' \in Nat /\ leanRun' <= RunCap
  BY BranchFrame
<1>b. ASSUME leanState' \in 0..3, leanCounter' \in 0..(CounterMod - 1)
      PROVE  TypeOK'
  BY <1>b, BranchTypes
<1> HIDE DEF T, C
<1>3. CASE Disabled \/ Disarm \/ Release
  <2>1. leanState' = 0 /\ leanCounter' = 0 /\ armedRun' = 0 /\ leanRun' = 0
    BY <1>3 DEF Disabled, Disarm, Release, Leave, Remember, Idle
  <2>2. QED
    BY <2>1, <1>0, <1>1, <1>a, <1>b
       DEF CountBelowLimit, CountIsHistory, EnabledWhenActive,
           Idle, Delay, Monitor, Latched
<1>4. CASE StartDelay
  <2>1. /\ leanState = 0 /\ leanState' = 1 /\ leanCounter' = 0 /\ cal.leanOn
        /\ armedRun' = Longer(armedRun)
    BY <1>4 DEF StartDelay, Armed, Leave, Remember, Idle, Delay
  <2>2. armedRun' = 1
    BY <2>1, <1>0, <1>1, <1>2 DEF CountIsHistory, Idle
  <2>3. QED
    BY <2>1, <2>2, <1>0, <1>1, <1>a, <1>b
       DEF CountBelowLimit, CountIsHistory, EnabledWhenActive,
           Idle, Delay, Monitor, Latched
<1>5. CASE DelayTick
  <2>1. /\ leanState = 1 /\ leanState' = 1 /\ leanCounter' = Stored(leanCounter)
        /\ cal.leanOn /\ ~Reached(leanCounter, cal.transport)
        /\ armedRun' = Longer(armedRun)
    BY <1>5 DEF DelayTick, Armed, Leave, Remember, Delay
  <2>2. /\ leanCounter' = leanCounter + 1 /\ leanCounter + 1 < cal.transport
        /\ leanCounter' \in 0..(CounterMod - 1)
    BY <2>1, <1>0, <1>1, NoWrap
  <2>3. armedRun' = leanCounter + 2
    BY <2>1, <2>2, <1>0, <1>1, <1>2 DEF CountIsHistory, Delay
  <2>4. QED
    BY <2>1, <2>2, <2>3, <1>0, <1>1, <1>a, <1>b
       DEF CountBelowLimit, CountIsHistory, EnabledWhenActive,
           Idle, Delay, Monitor, Latched
<1>6. CASE DelayDone
  <2>1. /\ leanState = 1 /\ leanState' = 2 /\ leanCounter' = 0
        /\ cal.leanOn /\ Reached(leanCounter, cal.transport)
        /\ armedRun' = Longer(armedRun)
    BY <1>6 DEF DelayDone, Armed, Leave, Remember, Delay, Monitor
  <2>2. leanCounter + 1 = T
    BY <2>1, <1>0, <1>1 DEF Reached, CountBelowLimit, Delay, Atleast1, T
  <2>3. armedRun' = Qualify
    BY <2>1, <2>2, <1>0, <1>1, <1>2 DEF CountIsHistory, Delay
  <2>4. QED
    BY <2>1, <2>3, <1>0, <1>1, <1>a, <1>b
       DEF CountBelowLimit, CountIsHistory, EnabledWhenActive,
           Idle, Delay, Monitor, Latched
<1>7. CASE MonitorRich
  <2>1. /\ leanState = 2 /\ leanState' = 2 /\ leanCounter' = 0 /\ cal.leanOn
        /\ armedRun' = Longer(armedRun) /\ leanRun' = 0
    BY <1>7 DEF MonitorRich, Armed, Leave, Remember, Monitor
  <2>2. armedRun' >= Qualify
    BY <2>1, <1>0, <1>1, <1>2 DEF CountIsHistory, Monitor
  <2>3. QED
    BY <2>1, <2>2, <1>0, <1>1, <1>a, <1>b
       DEF CountBelowLimit, CountIsHistory, EnabledWhenActive,
           Idle, Delay, Monitor, Latched
<1>8. CASE MonitorLean
  <2>1. /\ leanState = 2 /\ leanState' = 2 /\ leanCounter' = Stored(leanCounter)
        /\ cal.leanOn /\ ~Reached(leanCounter, cal.confirm)
        /\ armedRun' = Longer(armedRun) /\ leanRun' = Longer(leanRun)
    BY <1>8 DEF MonitorLean, Armed, Leave, Remember, Monitor
  <2>2. /\ leanCounter' = leanCounter + 1 /\ leanCounter + 1 < cal.confirm
        /\ leanCounter' \in 0..(CounterMod - 1)
    BY <2>1, <1>0, <1>1, NoWrap
  <2>3. /\ armedRun >= Qualify
        /\ leanCounter <= leanRun /\ leanCounter <= armedRun - Qualify
        /\ leanCounter = leanRun \/ leanCounter = armedRun - Qualify
    BY <2>1 DEF CountIsHistory, Monitor
  <2>4. /\ armedRun' >= Qualify
        /\ leanCounter' <= leanRun' /\ leanCounter' <= armedRun' - Qualify
        /\ leanCounter' = leanRun' \/ leanCounter' = armedRun' - Qualify
    BY <2>1, <2>2, <2>3, <1>0, <1>1, <1>2
  <2>5. QED
    BY <2>1, <2>2, <2>4, <1>0, <1>1, <1>a, <1>b
       DEF CountBelowLimit, CountIsHistory, EnabledWhenActive,
           Idle, Delay, Monitor, Latched
<1>9. CASE Trip \/ Hold
  <2>1. leanState' = 3 /\ cal.leanOn
    BY <1>9 DEF Trip, Hold, Armed, Leave, Latched
  <2>2. leanCounter' = 0
    BY <1>9, <1>0 DEF Trip, Hold, Leave, CountBelowLimit, Latched
  <2>3. QED
    BY <2>1, <2>2, <1>0, <1>1, <1>a, <1>b
       DEF CountBelowLimit, CountIsHistory, EnabledWhenActive,
           Idle, Delay, Monitor, Latched
<1>10. QED
  BY <1>3, <1>4, <1>5, <1>6, <1>7, <1>8, <1>9 DEF Wrapper

LEMMA StepIInv == IInv /\ [Next]_vars => IInv'
<1> SUFFICES ASSUME IInv, [Next]_vars PROVE IInv'
  OBVIOUS
<1>1. CASE Wrapper
  BY <1>1, WrapperStep
<1>2. CASE SenseMap \/ SenseBaro \/ SenseWideband \/ LimiterChange
  BY <1>2, SensorStep
<1>3. CASE Restart
  <2>1. TypeOK'
    <3>1. fuelCut' \in BOOLEAN /\ UNCHANGED <<cal, inputs>>
      BY <1>3, Zenon DEF Restart
    <3>2. /\ leanState' \in 0..3 /\ leanCounter' \in 0..(CounterMod - 1)
          /\ armedRun' \in Nat /\ leanRun' \in Nat
      BY <1>3, LeanCutAssumption DEF Restart, Idle
    <3>3. QED
      BY <3>1, <3>2 DEF IInv, TypeOK, inputs
  <2>2. (CountBelowLimit /\ CountIsHistory /\ EnabledWhenActive)'
    BY <1>3, Limits DEF IInv, TypeOK, Restart, CountBelowLimit, CountIsHistory,
                        EnabledWhenActive, Idle, Delay, Monitor, Latched,
                        Qualify, RunCap, Atleast1
  <2>3. QED
    BY <2>1, <2>2 DEF IInv
<1>4. CASE UNCHANGED vars
  <2>1. TypeOK'
    BY <1>4 DEF IInv, TypeOK, vars, inputs, guard
  <2>2. (CountBelowLimit /\ CountIsHistory /\ EnabledWhenActive)'
    BY <1>4 DEF IInv, CountBelowLimit, CountIsHistory, EnabledWhenActive, vars,
                inputs, guard, Qualify, RunCap, Atleast1
  <2>3. QED
    BY <2>1, <2>2 DEF IInv
<1>5. QED
  BY <1>1, <1>2, <1>3, <1>4 DEF Next

(* The inductive invariant: the one count of the code determines, and is   *)
(* determined by, the runs of armed and lean calls.                        *)
THEOREM Invariance == Spec => []IInv
BY InitIInv, StepIInv, PTL DEF Spec

(* Type correctness of the guard's RAM words (TypeOK).                     *)
THEOREM TypeCorrect == Spec => []TypeOK
<1>1. IInv => TypeOK
  BY DEF IInv
<1>2. QED
  BY <1>1, Invariance, PTL

(* The 16-bit count stays below the limit of its phase, for every          *)
(* calibratable limit, so the increment never wraps (CountBelowLimit).     *)
THEOREM CountNeverWraps == Spec => []CountBelowLimit
<1>1. IInv => CountBelowLimit
  BY DEF IInv
<1>2. QED
  BY <1>1, Invariance, PTL

(* The step that trips is the step on which the two runs are long enough.  *)
LEMMA TripStep ==
  ASSUME IInv, Wrapper
  PROVE  (leanState # Latched /\ leanState' = Latched) <=> ConfirmedLean
<1> DEFINE T == Atleast1(cal.transport)
           C == Atleast1(cal.confirm)
<1>1. /\ cal.confirm \in 0..(CounterMod - 1)
      /\ T \in Nat /\ T >= 1 /\ T >= cal.transport
      /\ C \in Nat /\ C >= 1 /\ C >= cal.confirm
      /\ Qualify = T + 1 /\ RunCap = Qualify + C
      /\ leanCounter \in 0..(CounterMod - 1)
      /\ armedRun \in Nat /\ leanRun \in Nat
      /\ armedRun <= RunCap /\ leanRun <= RunCap
  BY Limits DEF IInv, TypeOK, CountIsHistory
<1>2. /\ armedRun < RunCap => Longer(armedRun) = armedRun + 1
      /\ armedRun = RunCap => Longer(armedRun) = RunCap
      /\ leanRun < RunCap => Longer(leanRun) = leanRun + 1
      /\ leanRun = RunCap => Longer(leanRun) = RunCap
  BY <1>1, LongerFact DEF IInv, TypeOK
<1>3. ConfirmedLean <=> armedRun' >= RunCap /\ leanRun' >= C
  <2>1. RunCap' = RunCap /\ Atleast1(cal.confirm)' = Atleast1(cal.confirm)
    BY BranchFrame
  <2>2. QED
    BY <2>1 DEF ConfirmedLean
<1>4. CountBelowLimit /\ CountIsHistory
  BY DEF IInv
<1> HIDE DEF T
<1>5. CASE Disabled \/ Disarm \/ Release \/ Hold
  <2>1. armedRun' = 0 /\ (leanState' = Latched => leanState = Latched)
    BY <1>5 DEF Disabled, Disarm, Release, Hold, Leave, Remember, Idle, Latched
  <2>2. QED
    BY <2>1, <1>1, <1>3
<1>6. CASE StartDelay \/ DelayTick \/ DelayDone
  <2>1. leanState' # Latched /\ armedRun' = Longer(armedRun)
    BY <1>6 DEF StartDelay, DelayTick, DelayDone, Leave, Remember,
                Delay, Monitor, Latched
  <2>2. armedRun <= T
    <3>1. leanState = Idle \/ leanState = Delay
      BY <1>6 DEF StartDelay, DelayTick, DelayDone, Armed
    <3>2. leanState = Delay => leanCounter < T
      BY <1>4 DEF CountBelowLimit, T
    <3>3. QED
      BY <3>1, <3>2, <1>1, <1>4 DEF CountIsHistory
  <2>3. QED
    BY <2>1, <2>2, <1>1, <1>2, <1>3
<1>7. CASE MonitorRich
  <2>1. leanState' # Latched /\ leanRun' = 0
    BY <1>7 DEF MonitorRich, Leave, Remember, Monitor, Latched
  <2>2. QED
    BY <2>1, <1>1, <1>3
<1>8. CASE MonitorLean \/ Trip
  <2>1. /\ leanState = Monitor
        /\ armedRun' = Longer(armedRun) /\ leanRun' = Longer(leanRun)
        /\ leanState' = Latched <=> Reached(leanCounter, cal.confirm)
    BY <1>8 DEF MonitorLean, Trip, Armed, Leave, Remember, Monitor, Latched
  <2>2. /\ leanCounter < C /\ armedRun >= Qualify
        /\ leanCounter <= leanRun /\ leanCounter <= armedRun - Qualify
        /\ leanCounter = leanRun \/ leanCounter = armedRun - Qualify
    BY <2>1, <1>4 DEF CountBelowLimit, CountIsHistory
  <2>3. Reached(leanCounter, cal.confirm) <=> leanCounter + 1 = C
    BY <2>2, <1>1 DEF Reached, Atleast1
  <2>4. leanCounter + 1 = C <=> armedRun' >= RunCap /\ leanRun' >= C
    <3> HIDE DEF C
    <3>1. QED
      BY <2>1, <2>2, <1>1, <1>2
  <2>5. leanState # Latched
    BY <2>1 DEF Monitor, Latched
  <2>6. QED
    BY <2>1, <2>3, <2>4, <2>5, <1>3
<1>9. QED
  BY <1>5, <1>6, <1>7, <1>8 DEF Wrapper

(* The guard trips exactly when the transport delay and then the           *)
(* confirmation count have elapsed over armed calls, the last of them all  *)
(* lean: never early, never late, for every calibration.                   *)
THEOREM TripsExactly == Spec => TripWhenConfirmed
<1>1. IInv /\ [Next]_vars =>
        [Wrapper => ((leanState # Latched /\ leanState' = Latched) <=> ConfirmedLean)]_vars
  BY TripStep
<1>2. QED
  BY <1>1, Invariance, PTL DEF Spec, TripWhenConfirmed

(* Pressure that releases a latched cut is pressure that does not arm:     *)
(* delta <= reset < arm once all four are numbers.                         *)
LEMMA ReleaseExcludesArm ==
  ASSUME TypeOK, PressureReleases
  PROVE  ~PressureArmed
<1> DEFINE delta == Minus(mapP, baro)
<1>1. /\ mapP \in Int /\ baro \in Int
      /\ cal.arm # NaN /\ cal.reset # NaN /\ cal.arm > cal.reset
  BY DEF TypeOK, PressureReleases, Releases, Usable, InWindow, Greater, IsNumber, Float
<1>2. cal.arm \in Int /\ cal.reset \in Int
  <2>1. cal \in Calibration
    BY LeanCutAssumption DEF TypeOK
  <2>2. cal.arm \in Float /\ cal.reset \in Float
    BY <2>1 DEF Calibration
  <2>3. QED
    BY <1>1, <2>2 DEF Float
<1>3. delta = mapP - baro /\ delta \in Int
  BY <1>1, NaNAssumption DEF Minus
<1>4. ~(delta > cal.reset)
  BY <1>1, <1>2, <1>3, NaNAssumption DEF PressureReleases, Releases, Greater
<1>5. cal.arm > delta
  BY <1>1, <1>2, <1>3, <1>4
<1>6. Greater(cal.arm, delta)
  BY <1>1, <1>3, <1>5, NaNAssumption DEF Greater
<1>7. QED
  BY <1>6 DEF PressureArmed, Arms

(* Which branches can leave, and which reach, the latched state.           *)
LEMMA LatchedBranches ==
  ASSUME IInv, Wrapper
  PROVE  /\ leanState = Latched => Hold \/ Release
         /\ leanState' = Latched <=> Hold \/ Trip
         /\ Hold \/ Trip => fuelCut' = (PriorCut \/ TRUE)
         /\ ~(Hold \/ Trip) => fuelCut' = (PriorCut \/ FALSE)
<1>1. CASE Disabled
  <2>1. /\ leanState # Latched /\ leanState' # Latched
    BY <1>1 DEF Disabled, Leave, IInv, EnabledWhenActive, Idle, Latched
  <2>2. fuelCut' = (PriorCut \/ FALSE) /\ ~cal.leanOn
    BY <1>1, Zenon DEF Disabled, Leave
  <2>3. QED
    BY <2>1, <2>2 DEF Hold, Trip, Armed
<1>2. CASE Disarm \/ StartDelay \/ DelayTick \/ DelayDone \/ MonitorRich \/ MonitorLean
  <2>a. leanState # Latched
    <3>1. leanState # Latched \/ leanState \in {Idle, Delay, Monitor}
      BY <1>2, Zenon DEF Disarm, StartDelay, DelayTick, DelayDone, MonitorRich,
                         MonitorLean, Armed
    <3>2. QED
      BY <3>1 DEF Idle, Delay, Monitor, Latched
  <2>b. leanState' \in {Idle, Delay, Monitor}
    BY <1>2, Zenon DEF Disarm, StartDelay, DelayTick, DelayDone, MonitorRich,
                       MonitorLean, Leave
  <2>1. leanState # Latched /\ leanState' # Latched
    BY <2>a, <2>b DEF Idle, Delay, Monitor, Latched
  <2>2. fuelCut' = (PriorCut \/ FALSE)
    BY <1>2, Zenon DEF Disarm, StartDelay, DelayTick, DelayDone, MonitorRich,
                       MonitorLean, Leave
  <2>3. ~Hold /\ ~Trip
    BY <2>1 DEF Hold, Trip, Leave
  <2>4. QED
    BY <2>1, <2>2, <2>3
<1>3. CASE Release
  <2>1. /\ leanState' # Latched
    BY <1>3 DEF Release, Leave, Idle, Latched
  <2>2. fuelCut' = (PriorCut \/ FALSE)
    BY <1>3, Zenon DEF Release, Leave
  <2>3. ~Hold /\ ~Trip
    BY <2>1 DEF Hold, Trip, Leave
  <2>4. QED
    BY <1>3, <2>1, <2>2, <2>3
<1>4. CASE Hold \/ Trip
  <2>1. leanState' = Latched
    BY <1>4, Zenon DEF Hold, Trip, Leave
  <2>a. Trip => leanState # Latched
    BY DEF Trip, Armed, Monitor, Latched
  <2>2. fuelCut' = (PriorCut \/ TRUE)
    BY <1>4, Zenon DEF Hold, Trip, Leave
  <2>3. QED
    BY <1>4, <2>1, <2>a, <2>2
<1>5. QED
  BY <1>1, <1>2, <1>3, <1>4 DEF Wrapper

(* A tripped cut is never given up at a pressure at which the guard would  *)
(* arm again, whatever hysteresis the image holds.                         *)
THEOREM NoBoostRelease == Spec => NoReleaseInBoost
<1>1. ASSUME IInv, [Next]_vars, leanState = Latched, leanState' # Latched
      PROVE  Restart \/ ~PressureArmed
  <2>1. Release \/ Restart
    <3>1. Wrapper \/ Restart
      BY <1>1 DEF Next, SenseMap, SenseBaro, SenseWideband, LimiterChange, guard, vars
    <3>2. QED
      BY <1>1, <3>1, LatchedBranches
  <2>2. CASE Release
    BY <1>1, <2>2, ReleaseExcludesArm DEF Release, IInv
  <2>3. QED
    BY <2>1, <2>2
<1>2. IInv /\ [Next]_vars =>
        [leanState = Latched /\ leanState' # Latched => Restart \/ ~PressureArmed]_vars
  BY <1>1
<1>3. QED
  BY <1>2, Invariance, PTL DEF Spec, NoReleaseInBoost

(* The published cut is exactly the union of the limiter's, the overboost  *)
(* and the lean decision.                                                  *)
THEOREM CutComposes == Spec => CutIsUnion
<1>1. ASSUME IInv, Wrapper
      PROVE  fuelCut' <=> (PriorCut \/ leanState' = Latched)
  <2>1. CASE Hold \/ Trip
    BY <1>1, <2>1, LatchedBranches, Zenon
  <2>2. CASE ~(Hold \/ Trip)
    BY <1>1, <2>2, LatchedBranches, Zenon
  <2>3. QED
    BY <2>1, <2>2
<1>2. IInv /\ [Next]_vars =>
        [Wrapper => (fuelCut' <=> (PriorCut \/ leanState' = Latched))]_vars
  BY <1>1
<1>3. QED
  BY <1>2, Invariance, PTL DEF Spec, CutIsUnion
=============================================================================
