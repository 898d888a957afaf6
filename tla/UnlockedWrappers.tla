--------------------------- MODULE UnlockedWrappers ---------------------------
(***************************************************************************)
(* The three wrappers that run in a stock task without a lock: the airflow *)
(* helper, the pressure-forced open loop and the rotational idle.  They    *)
(* share no word of RAM and no calibration, so a behaviour follows one of  *)
(* them, between the publications of the sensors it reads.                 *)
(***************************************************************************)
EXTENDS SpeedDensity, PressureOpenLoop, RotationalIdle

VARIABLE wrapper   \* the wrapper this behaviour follows

Wrappers == {"airflow", "open loop", "idle"}

\* The wrappers not followed rest in one of their initial states.
WrapperInit ==
  /\ wrapper \in Wrappers
  /\ Init /\ OpenLoopInit /\ IdleInit
  /\ wrapper # "airflow" =>
       /\ cal = CHOOSE c \in Calibrations : TRUE
       /\ words = [w \in Words |-> CHOOSE s \in Seeds : TRUE]
  /\ wrapper # "open loop" =>
       /\ guardCal = CHOOSE c \in OpenLoopCalibrations : TRUE
       /\ mapP = CHOOSE m \in Pressures : TRUE
       /\ baro = CHOOSE b \in Barometers : TRUE
  /\ wrapper # "idle" =>
       /\ idleCal = CHOOSE c \in IdleCalibrations : TRUE
       /\ timing = [i \in 1..Cylinders |-> CHOOSE a \in Angles : TRUE]

WrapperNext ==
  /\ UNCHANGED wrapper
  /\ \/ wrapper = "airflow" /\ Next /\ UNCHANGED <<openLoopVars, idleVars>>
     \/ wrapper = "open loop" /\ OpenLoopNext /\ UNCHANGED <<vars, idleVars>>
     \/ wrapper = "idle" /\ IdleNext /\ UNCHANGED <<vars, openLoopVars>>

WrapperSpec == WrapperInit /\ [][WrapperNext]_<<wrapper, vars, openLoopVars, idleVars>>
=============================================================================
