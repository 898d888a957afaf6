---------------------------- MODULE DefinitionRules ----------------------------
(***************************************************************************)
(* What the two master definition builders know by name: the tables they   *)
(* drop, rename and add, and where each goes in the menu.  A category is   *)
(* its menu number once it is assigned; names are shortened.               *)
(***************************************************************************)
EXTENDS Integers, Sequences, SequencesExt, TLC

Versions == {1, 2}

CategoryOrder1 ==
  <<"01.1", "01.2", "01.3", "01.4", "01.5", "02.1", "02.2", "02.3", "02.4", "02.5", "02.6",
    "02.7", "02.8", "03", "04.1", "04.2", "04.3", "05.1", "05.2", "06.2", "07.1", "07.2",
    "08", "09.1", "09.2", "09.3", "10.1", "10.2", "99">>
CategoryOrder2 == RemoveAt(CategoryOrder1, 26) \* without "09.3"

CategoryRenames1 ==
     "MAP Sensor" :> "01.1" @@ "Airflow / Load" :> "01.5" @@ "Speed Density" :> "01.3"
  @@ "AVLS VE" :> "01.4" @@ "Injectors" :> "02.1" @@ "Primary Open Loop" :> "02.2"
  @@ "Closed Loop" :> "02.3" @@ "CL/OL Transition" :> "02.4" @@ "Cranking" :> "02.5"
  @@ "Tip-in" :> "02.6" @@ "Learning" :> "02.7" @@ "Wideband Input" :> "03"
  @@ "Advance" :> "04.1" @@ "Compensation" :> "04.2" @@ "Knock Control" :> "04.3"
  @@ "AVLS" :> "05.1" @@ "AVCS" :> "05.2" @@ "Boost Control" :> "06.2"
  @@ "Overboost Protection" :> "06.2" @@ "Pressure/Lean Safety" :> "07.1" @@ "Limits" :> "07.2"
  @@ "DBW" :> "08" @@ "Idle Control" :> "09.1" @@ "Rotational Idle" :> "09.3"
  @@ "Sensor Scalings" :> "10.1" @@ "Thresholds" :> "10.2" @@ "Checksum Fix" :> "99"
CategoryRenames2 == [c \in DOMAIN CategoryRenames1 \ {"Rotational Idle"} |-> CategoryRenames1[c]]

\* The new names, by version.
TimingRenames1 ==
     "Base Timing A" :> "Normal Cam, Ratio 1" @@ "Base Timing C" :> "High Cam, Ratio 1"
  @@ "Base Timing D" :> "Normal Cam, Ratio 0" @@ "Base Timing F" :> "High Cam, Ratio 0"
  @@ "Knock Advance A" :> "Knock Advance - Normal Cam" @@ "Knock Advance B" :> "Knock Advance - High Cam"
TimingRenames2 ==
     "Base Timing A" :> "Base Timing A (Normal Cam)" @@ "Base Timing C" :> "Base Timing C (High Cam)"
  @@ "Base Timing D" :> "Base Timing D (Normal Cam)" @@ "Base Timing F" :> "Base Timing F (High Cam)"
  @@ "Knock Advance A" :> "Knock Advance A (Normal Cam)" @@ "Knock Advance B" :> "Knock Advance B (High Cam)"
AvcsRenames1 == "Cam Advance A" :> "AVCS Target - Low Cam" @@ "Cam Advance B" :> "AVCS Target - High Cam"
AvcsRenames2 == "Cam Advance A" :> "AVCS Target A (Low Cam)" @@ "Cam Advance B" :> "AVCS Target B (High Cam)"
MapRenames == "MAP Scaling" :> "Omni MAP Scaling" @@ "MAP Limits" :> "Omni MAP Limits"
           @@ "MAP Delays" :> "Omni MAP Delays"
Renames1 == TimingRenames1 @@ AvcsRenames1 @@ MapRenames
Renames2 == TimingRenames2 @@ AvcsRenames2 @@ MapRenames
Renames(v) == IF v = 1 THEN Renames1 ELSE Renames2

\* The categories some tables have by their own name.
TableOverrides1 ==
     "IAT Scaling" :> "01.2" @@ "SD IAT Correction" :> "01.2" @@ "SD Load Filter" :> "01.5"
  @@ "Knock Advance - Normal Cam" :> "04.3" @@ "Knock Advance - High Cam" :> "04.3"
  @@ "Base Timing Idle" :> "09.2" @@ "Overboost Enable" :> "06.2" @@ "Overboost Limit" :> "06.2"
TableOverrides2 ==
     "IAT Scaling" :> "01.2" @@ "SD IAT Correction" :> "01.2" @@ "SD Load Filter" :> "01.5"
  @@ "Knock Advance A (Normal Cam)" :> "04.3" @@ "Knock Advance B (High Cam)" :> "04.3"
  @@ "Base Timing Idle" :> "09.2" @@ "Overboost Enable" :> "06.2" @@ "Overboost Limit" :> "06.2"
  @@ "Dashpot Decrement" :> "09.1" @@ "Falling Load Filter" :> "02.7"
  @@ "Coolant Timing Minimum" :> "04.2" @@ "RPM Timing Minimum" :> "04.2"
  @@ [n \in {TimingRenames2[b] : b \in {"Base Timing A", "Base Timing C", "Base Timing D", "Base Timing F"}}
        |-> "04.1"]

HiddenAvls == {"AVLS Pedal Threshold", "AVLS Minimum RPM"}
RetiredActuator == {"Wastegate Duty", "Boost Target"}
DropNames == {"MAF Scaling", "Front Oxygen Scaling", "Base Timing B", "Base Timing E",
              "Fuel Temp Scaling", "Pass Readiness"} \cup HiddenAvls \cup RetiredActuator
DropCategories == {"Trouble Codes", "OBD-II"}

\* The added tables: name, category given, address.
SdTables ==
  << <<"SD Multiplier", "Speed Density", \h7DD04>>, <<"SD Displacement", "Speed Density", \h7DD08>>,
     <<"SD Maximum Airflow", "Speed Density", \h7DD0C>>, <<"SD Load Filter", "Speed Density", \h73968>>,
     <<"SD MAP Range", "Speed Density", \h7DD10>>, <<"SD RPM Range", "Speed Density", \h7DD18>>,
     <<"SD IAT Range", "Speed Density", \h7DD20>>, <<"VE Low Lift", "AVLS VE", \h7E6B8>>,
     <<"VE High Lift", "AVLS VE", \h7E88C>>, <<"SD IAT Correction", "Speed Density", \h7E160>> >>
OverboostTables == << <<"Overboost Enable", "Overboost Protection", \h7D80D>>,
                  <<"Overboost Limit", "Overboost Protection", \h7D8C0>> >>
WidebandTables == << <<"Wideband Transfer", "03", \h7E404>>, <<"Wideband Range", "03", \h7E40C>> >>
FuelingSafetyTables ==
  << <<"Pressure OL Enable", "07.1", \h7EACC>>, <<"Pressure OL Margin", "07.1", \h7EAD0>>,
     <<"Lean Cut Enable", "07.1", \h7EACD>>, <<"Lean Cut Arm", "07.1", \h7EAD4>>,
     <<"Lean Cut Reset", "07.1", \h7EAD8>>, <<"Lean Cut AFR", "07.1", \h7EADC>>,
     <<"Lean Cut Delay", "07.1", \h7EAE8>>, <<"Lean Cut Count", "07.1", \h7EAEA>> >>
FuelPumpTables == << <<"Pump Low Command", "02.8", \h2A610>>, <<"Pump Medium Command", "02.8", \h2A60C>>,
                     <<"Injector Coefficient", "02.8", \h72D54>> >>
RotationalTables ==
  [i \in 1..12 |-> <<<<"RI Enable", "RI Minimum Coolant", "RI Maximum Coolant", "RI Minimum RPM",
                       "RI Maximum RPM", "RI Maximum Throttle", "RI Maximum Speed", "RI Minimum MAP",
                       "RI Maximum MAP", "RI Maximum Retard", "RI Minimum Timing", "RI Offsets">>[i],
                     "09.3", \h7DB40 + 4 * (i - 1)>>]
RepairTables == << <<"Dashpot Decrement", "07.1", \h7963C>>, <<"Falling Load Filter", "07.1", \h76050>> >>
TimingMinimumTables == << <<"RPM Timing Minimum", "04.2", \h78240>>,
                          <<"Coolant Timing Minimum", "04.2", \h78268>> >>
AvlsNames == {"AVLS Engage", "AVLS Release"}

NamesOf(list) == {list[i][1] : i \in DOMAIN list}
ExpectedCustom(v) ==
  NamesOf(SdTables) \cup NamesOf(OverboostTables) \cup NamesOf(WidebandTables)
  \cup NamesOf(FuelingSafetyTables) \cup {"Pump Low Command", "Pump Medium Command"} \cup AvlsNames
  \cup IF v = 1 THEN NamesOf(RotationalTables) ELSE NamesOf(RepairTables) \cup NamesOf(TimingMinimumTables)

\* The pinned categories and addresses of the finished definition.
ExpectedCategories1 ==
  { <<"Omni MAP Scaling", "01.1">>, <<"IAT Scaling", "01.2">>, <<"SD Multiplier", "01.3">>,
    <<"VE Low Lift", "01.4">>, <<"SD Load Filter", "01.5">>, <<"Load Compensation", "01.5">>,
    <<"Pump Low Command", "02.8">>, <<"Wideband Transfer", "03">>, <<"Normal Cam, Ratio 1", "04.1">>,
    <<"Knock Advance - Normal Cam", "04.3">>, <<"AVLS Engage", "05.1">>,
    <<"AVCS Target - Low Cam", "05.2">>, <<"Overboost Enable", "06.2">>, <<"Lean Cut Enable", "07.1">>,
    <<"Idle Speed Target", "09.1">>, <<"Base Timing Idle", "09.2">>, <<"RI Enable", "09.3">>,
    <<"Oil Temp Scaling", "10.1">> }
ExpectedCategories2 ==
  { <<"Omni MAP Scaling", "01.1">>, <<"IAT Scaling", "01.2">>, <<"SD Multiplier", "01.3">>,
    <<"VE Low Lift", "01.4">>, <<"SD Load Filter", "01.5">>, <<"Load Compensation", "01.5">>,
    <<"Pump Low Command", "02.8">>, <<"Wideband Transfer", "03">>,
    <<"Base Timing A (Normal Cam)", "04.1">>, <<"Knock Advance A (Normal Cam)", "04.3">>,
    <<"AVLS Engage", "05.1">>, <<"AVCS Target A (Low Cam)", "05.2">>, <<"Overboost Enable", "06.2">>,
    <<"Lean Cut Enable", "07.1">>, <<"Idle Speed Target", "09.1">>, <<"Base Timing Idle", "09.2">>,
    <<"Oil Temp Scaling", "10.1">> }

PinnedStock == << <<"Base Timing A", \h78AA0>>, <<"Base Timing C", \h78CD0>>, <<"Base Timing D", \h78E34>>,
                  <<"Base Timing F", \h79064>>, <<"Knock Advance A", \h7924C>>, <<"Knock Advance B", \h793AC>>,
                  <<"Cam Advance A", \h7C5B0>>, <<"Cam Advance B", \h7C764>>, <<"MAP Scaling", \h72810>> >>
Pinned(tables) == {<<tables[i][1], tables[i][3]>> : i \in DOMAIN tables}
ExpectedAddresses(v) ==
  {<<Renames(v)[PinnedStock[i][1]], PinnedStock[i][2]>> : i \in DOMAIN PinnedStock}
  \cup {<<"Overboost Enable", \h7D80D>>} \cup Pinned(WidebandTables) \cup Pinned(FuelingSafetyTables)
  \cup {<<"Pump Low Command", \h2A610>>, <<"Pump Medium Command", \h2A60C>>}
  \cup IF v = 1 THEN Pinned(RotationalTables) ELSE {}
=============================================================================
