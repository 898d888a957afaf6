-------------------------------- MODULE SH2E --------------------------------
(***************************************************************************)
(* The part of SH-2E single precision arithmetic the emitted routines rely *)
(* on.  A float is an integer (the properties only compare and subtract)   *)
(* or NaN; an infinity is an integer beyond every calibrated limit.  Every *)
(* ordered comparison with NaN is false, which is what sends a bad reading *)
(* or a bad calibration down the fail-safe branch of the routines.         *)
(***************************************************************************)
EXTENDS Integers

CONSTANT NaN

ASSUME NaNAssumption == NaN \notin Int

Float == Int \cup {NaN}

(* fcmpeq(n, n): false only for NaN. *)
IsNumber(x) == x # NaN

(* fcmpgt(m, n) sets T when FRn > FRm; written here FRn first. *)
Greater(x, y) == x # NaN /\ y # NaN /\ x > y

Minus(x, y) == IF x = NaN \/ y = NaN THEN NaN ELSE x - y
Plus(x, y) == IF x = NaN \/ y = NaN THEN NaN ELSE x + y
Times(x, y) == IF x = NaN \/ y = NaN THEN NaN ELSE x * y

(* The gate pattern every routine uses on a reading and its two limits:    *)
(* an unordered limit closes it.                                           *)
InWindow(x, low, high) ==
  /\ IsNumber(x)
  /\ IsNumber(low)  /\ ~Greater(low, x)
  /\ IsNumber(high) /\ ~Greater(x, high)
=============================================================================
