----------------------------- MODULE OfflineTools -----------------------------
(***************************************************************************)
(* The tools that run beside the builders, each on its own inputs: the     *)
(* calibration maps, the assembler, the definition generators, the logger  *)
(* tools and the diagnostics reader.  A behaviour is one tool at work.     *)
(***************************************************************************)
EXTENDS CalibrationMaps, Sh2Asm, DefinitionBuild, LoggerTools, DiagnosticsReader

VARIABLE tool

Init == /\ tool \in {"calibration", "assembler", "definition", "logger", "reader"}
        /\ CalInit
        /\ AsmInit /\ (tool # "assembler" => base = Min(Bases))
        /\ DefInit /\ (tool # "definition" => boost = BoostDefinition)
        /\ LoggerInit
        /\ ReaderInit /\ (tool # "reader" => devices = <<>> /\ requested = None /\ watch = 1)

Next ==
  /\ UNCHANGED tool
  /\ \/ tool = "calibration" /\ CalNext /\ UNCHANGED <<asmVars, defVars, loggerVars, readerVars>>
     \/ tool = "assembler" /\ AsmNext /\ UNCHANGED <<built, defVars, loggerVars, readerVars>>
     \/ tool = "definition" /\ DefNext /\ UNCHANGED <<built, asmVars, loggerVars, readerVars>>
     \/ tool = "logger" /\ LoggerNext /\ UNCHANGED <<built, asmVars, defVars, readerVars>>
     \/ tool = "reader" /\ ReaderNext /\ UNCHANGED <<built, asmVars, defVars, loggerVars>>

Spec == Init /\ [][Next]_<<tool, built, asmVars, defVars, loggerVars, readerVars>>
=============================================================================
