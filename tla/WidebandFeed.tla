---------------------------- MODULE WidebandFeed ----------------------------
(***************************************************************************)
(* The external wideband sensor's publisher                                *)
(* (patches/wideband_o2/wideband_component.py) store by store, against the *)
(* lean guard's rich test, which loads readiness and lambda separately.    *)
(*                                                                         *)
(* In the ECU the sensor task's caller B62A raises the interrupt mask to 9 *)
(* around the publisher and the lean wrapper holds the task lock.  The     *)
(* rich test is written not to depend on that (the comment on its          *)
(* positive-lambda compare), so the model lets the two interleave freely;  *)
(* the behaviours with mutual exclusion are among those it has.            *)
(***************************************************************************)
EXTENDS LeanRules, Sequences

CONSTANTS Calibrations,   \* decoder and lean guard calibration records
          RawValues       \* ADC counts

ASSUME WidebandAssumption == RawValues \subseteq Nat

VARIABLES cal, raw,
          ram,       \* the eight published words
          script,    \* stores the running publication still has to make
          loaded,    \* what the rich test has loaded: <<>> or <<ready>>
          sample,    \* <<ready, lambda>> of the last complete rich test
          measured,  \* history: what the latest publication decoded, or NaN
          previous,  \* history: what the one before it decoded, or NaN
          honest,    \* history: lambdas a reader may have loaded as measured
          published  \* history: a publication has completed since start-up

history == <<measured, previous, honest, published>>
vars == <<cal, raw, ram, script, loaded, sample, history>>

Words == {"lambda1", "lambda2", "log1", "log2",
          "current1", "current2", "ready1", "ready2"}
-----------------------------------------------------------------------------
(* build_wideband_update's decoder: volts inside an inclusive window, then *)
(* a linear transfer that must give a positive finite lambda; NaN stands   *)
(* for the branch to "invalid".                                            *)
Volts(c, count) == Times(count, c.rawToVolts)
Transfer(c, volts) == Plus(Times(volts, c.slope), c.offset)

Decode(c, count) ==
  LET volts == Volts(c, count)
      value == Transfer(c, volts)
      valid == /\ InWindow(volts, c.minVolts, c.maxVolts)
               /\ IsNumber(value) /\ Greater(value, 0)
               /\ ~Greater(value, c.fltMax)
  IN IF valid THEN value ELSE NaN

Store(words, value) == [i \in 1..Len(words) |-> <<words[i], value>>]

(* Fault: bank 2 is forgotten. *)
StoresOneBank(c, value) ==
  IF IsNumber(value)
  THEN Store(<<"lambda1", "log1">>, value) \o Store(<<"ready1", "ready2">>, c.readyValue)
  ELSE Store(<<"lambda1">>, 1) \o Store(<<"log1", "ready1", "ready2">>, 0)

(* The stores of one publication, in the order they are emitted.           *)
Stores(c, value) ==
  IF IsNumber(value)
  THEN Store(<<"lambda1", "lambda2", "log1", "log2">>, value)
       \o Store(<<"current1", "current2">>, 0)
       \o Store(<<"ready1", "ready2">>, c.readyValue)
  ELSE Store(<<"lambda1", "lambda2">>, 1)
       \o Store(<<"log1", "log2", "current1", "current2", "ready1", "ready2">>, 0)

(* build_inhibit_helper: 0 lets the stock consumers use the sensor.        *)
InhibitStatus ==
  IF Greater(ram["ready1"], cal.readyThreshold) THEN 0 ELSE 2
-----------------------------------------------------------------------------
(* The native start-up seeds readiness with 16384 and the logger words     *)
(* with zero; the words nobody vouches for are taken to be zero as well.   *)
StartupReady == 16384
StartupRam == [w \in Words |-> IF w \in {"ready1", "ready2"} THEN StartupReady ELSE 0]

Init ==
  /\ cal \in Calibrations /\ raw \in RawValues
  /\ ram = StartupRam
  /\ script = <<>> /\ loaded = <<>> /\ sample = <<0, 0>>
  /\ measured = NaN /\ previous = NaN /\ honest = {} /\ published = FALSE

Convert == /\ raw' \in RawValues
           /\ UNCHANGED <<cal, ram, script, loaded, sample, history>>

Begin ==
  /\ script = <<>>
  /\ LET value == Decode(cal, raw) IN
       /\ script' = Stores(cal, value)
       /\ measured' = value /\ previous' = measured
  /\ UNCHANGED <<cal, raw, ram, loaded, sample, honest, published>>

StoreNext ==
  /\ script # <<>>
  /\ ram' = [ram EXCEPT ![Head(script)[1]] = Head(script)[2]]
  /\ script' = Tail(script)
  /\ published' = (published \/ Len(script) = 1)
  /\ UNCHANGED <<cal, raw, loaded, sample, measured, previous, honest>>

LoadReady ==
  /\ loaded = <<>>
  /\ loaded' = <<ram["ready1"]>>
  /\ UNCHANGED <<cal, raw, ram, script, sample, history>>

(* The rich test's second load completes the sample.  While a publication  *)
(* runs the logger word may still be the previous one's.                   *)
LoadLambda ==
  /\ loaded # <<>>
  /\ sample' = <<loaded[1], ram["log1"]>>
  /\ loaded' = <<>>
  /\ honest' = IF script = <<>> THEN {measured} ELSE {measured, previous}
  /\ UNCHANGED <<cal, raw, ram, script, measured, previous, published>>

Restart ==
  /\ ram' = StartupRam
  /\ script' = <<>> /\ loaded' = <<>> /\ sample' = <<0, 0>>
  /\ measured' = NaN /\ previous' = NaN /\ honest' = {} /\ published' = FALSE
  /\ UNCHANGED <<cal, raw>>

Next == Convert \/ Begin \/ StoreNext \/ LoadReady \/ LoadLambda \/ Restart

Spec == Init /\ [][Next]_vars
-----------------------------------------------------------------------------
TypeOK ==
  /\ cal \in Calibrations /\ raw \in RawValues
  /\ ram \in [Words -> Float]
  /\ script \in Seq(Words \X Float) /\ Len(script) <= 8
  /\ loaded \in Seq(Float) /\ Len(loaded) <= 1
  /\ sample \in Float \X Float
  /\ measured \in Float /\ previous \in Float
  /\ honest \subseteq Float /\ published \in BOOLEAN

(* Only a measured lambda can reset the lean confirmation count: whatever  *)
(* the interleaving, and from the native start-up seeds on, a sample that  *)
(* passes the rich test carries the lambda the latest publication decoded  *)
(* (or the one before, while one is running), never the placeholder or the *)
(* logger's zero sentinel.                                                 *)
RichIsMeasured ==
  Rich(cal, sample[1], sample[2]) => sample[2] \in honest \ {NaN}

(* Between publications the inhibit helper lets the stock consumers in     *)
(* exactly when the sensor's last reading was valid, and then every lambda *)
(* word they or the logger read holds that reading.                        *)
ReadyMeansMeasured ==
  published /\ script = <<>> /\ Greater(cal.readyValue, cal.readyThreshold)
            /\ ~Greater(0, cal.readyThreshold) =>
    /\ (InhibitStatus = 0) <=> IsNumber(measured)
    /\ InhibitStatus = 0 =>
         \A w \in {"lambda1", "lambda2", "log1", "log2"} : ram[w] = measured
=============================================================================
