-------------------------- MODULE MCRotationalIdle --------------------------
(***************************************************************************)
(* RotationalIdle with two cylinders: angles above, below and near the     *)
(* floor, requests within and beyond the limit, positive and NaN ones, and *)
(* calibrations with a limit or a floor that is no limit at all.           *)
(***************************************************************************)
EXTENDS RotationalIdle

MCAngles == {-10, 3, 6, 20, NaN}

IdleNow == [ect |-> 90, rpm |-> 800, throttle |-> 1, speed |-> 0, map |-> 300]
MCReadings ==
  { IdleNow, [IdleNow EXCEPT !.ect = NaN], [IdleNow EXCEPT !.rpm = 2000],
    [IdleNow EXCEPT !.throttle = 2], [IdleNow EXCEPT !.speed = NaN] }

ShippedIdle ==
  [enable |-> 1, ectMin |-> 80, ectMax |-> 105, rpmMin |-> 600, rpmMax |-> 1050,
   throttleMax |-> 1, speedMax |-> 1, mapMin |-> 150, mapMax |-> 550,
   maxRetard |-> 8, minFinal |-> 5, offsets |-> <<-6, 0>>]

MCIdle ==
  { ShippedIdle,
    [ShippedIdle EXCEPT !.enable = 0], [ShippedIdle EXCEPT !.enable = 255],
    [ShippedIdle EXCEPT !.offsets = <<-12, 4>>],
    [ShippedIdle EXCEPT !.offsets = <<NaN, -9>>, !.minFinal = -30],
    [ShippedIdle EXCEPT !.offsets = <<-12, -3>>, !.maxRetard = NaN],
    [ShippedIdle EXCEPT !.offsets = <<-12, -3>>, !.maxRetard = -4],
    [ShippedIdle EXCEPT !.minFinal = NaN], [ShippedIdle EXCEPT !.minFinal = 15],
    [ShippedIdle EXCEPT !.mapMax = NaN] }
=============================================================================
