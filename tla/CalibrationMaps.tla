--------------------------- MODULE CalibrationMaps ---------------------------
(***************************************************************************)
(* The calibration maps of the two master builds: how a stock table        *)
(* becomes a tuned one.  Most are resampled onto axes that reach 4.0 g/rev *)
(* and then bounded cell by cell; the second build also sets some cells    *)
(* outright.  The tables are arguments, the axes and the bounds are those  *)
(* of the source.                                                          *)
(*                                                                         *)
(* Loads are in hundredths of a gram per revolution, angles in tenths of a *)
(* degree, lambda in hundredths.  A quotient is kept as a numerator and a  *)
(* positive denominator until it is rounded, as the sources round once,    *)
(* with an allowance for the error of their floating-point arithmetic.     *)
(***************************************************************************)
EXTENDS CalibrationRegions

CONSTANTS Levels8, Levels16, \* raw values a stock cell may have
          Ratios             \* injector ratios, as <<numerator, denominator>>

Width(bits) == IF bits = 8 THEN 255 ELSE 65535
ASSUME CalAssumption == /\ Levels8 \subseteq 0..Width(8)
                        /\ Levels16 \subseteq 0..Width(16)
                        /\ \A r \in Ratios : r[1] \in Nat /\ r[2] \in Nat /\ 0 < r[1] /\ r[1] < r[2]

VARIABLE built \* the map built: what it is, from which stock tables, the tuned ones

-----------------------------------------------------------------------------
\* Rounding.

Least(a, b) == IF a <= b THEN a ELSE b
Greatest(a, b) == IF a <= b THEN b ELSE a
Ceil(n, d) == -((-n) \div d)
Nearest(n, d) == (2 * n + d) \div (2 * d)

Clamp(v, bits) == Greatest(0, Least(Width(bits), v))
Quantize(rounding, bits, n, d) ==
  Clamp(CASE rounding = "ceil" -> Ceil(n, d)
          [] rounding = "floor" -> n \div d
          [] rounding = "nearest" -> Nearest(n, d), bits)

-----------------------------------------------------------------------------
\* Resampling.

\* The knots around v, and how far v is from the left one to the right one.
Bracket(axis, v) ==
  IF v <= axis[1] THEN [left |-> 1, right |-> 1, num |-> 0, den |-> 1]
  ELSE IF v >= axis[Len(axis)] THEN [left |-> Len(axis), right |-> Len(axis), num |-> 0, den |-> 1]
  ELSE LET i == CHOOSE k \in 1..(Len(axis) - 1) :
                  /\ axis[k] <= v /\ v <= axis[k + 1]
                  /\ \A j \in 1..(k - 1) : ~ (axis[j] <= v /\ v <= axis[j + 1])
       IN [left |-> i, right |-> i + 1, num |-> v - axis[i], den |-> axis[i + 1] - axis[i]]

\* The bilinear value between four cells, its numerator over bx.den * by.den.
Bilinear(src, bx, by) ==
  LET row(y) == src[y][bx.left] * bx.den + (src[y][bx.right] - src[y][bx.left]) * bx.num
  IN row(by.left) * by.den + (row(by.right) - row(by.left)) * by.num

Resample(src, sx, sy, tx, ty, bits, rounding) ==
  LET bx == [x \in 1..Len(tx) |-> Bracket(sx, tx[x])]
      by == [y \in 1..Len(ty) |-> Bracket(sy, ty[y])]
  IN [y \in 1..Len(ty) |-> [x \in 1..Len(tx) |->
        Quantize(rounding, bits, Bilinear(src, bx[x], by[y]), bx[x].den * by[y].den)]]

\* A point list read at v, over the second component.
Interpolate(points, v) ==
  LET b == Bracket([i \in 1..Len(points) |-> points[i][1]], v)
  IN [num |-> points[b.left][2] * b.den + (points[b.right][2] - points[b.left][2]) * b.num,
      den |-> b.den]

-----------------------------------------------------------------------------
\* Primary open loop fuel: lambda = 128 / (128 + raw).

StockFuelLoads == <<15, 35, 55, 70, 83, 96, 109, 122, 135, 148, 161, 174, 187, 200>>
FuelLoads == <<15, 35, 55, 70, 83, 96, 109, 122, 140, 160, 200, 250, 320, 400>>
StockFuelRpms == <<3200, 3600, 4000, 4400, 4800, 5200, 5600, 6000, 6400, 6800>>
FuelRpms == <<1000, 1500, 2000, 2500, 3000, 3500, 4000, 5000, 6000, 6800>>

\* The leanest lambda of a column, zero where the column is not bounded.
LambdaCaps1 == <<0, 0, 0, 0, 0, 93, 88, 83, 80, 78, 78, 78, 78, 78>>
LambdaCaps2 == <<0, 0, 0, 0, 0, 95, 91, 89, 88, 87, 85, 78, 78, 78>>

LambdaCap(caps, y, x) ==
  IF FuelRpms[y] >= 6000 /\ FuelLoads[x] >= 122 THEN caps[x] - 1 ELSE caps[x]

FuelRaw(lambda) == Ceil((100 - lambda) * 128, lambda)

ResampleFuel(bank) ==
  Resample(bank, StockFuelLoads, StockFuelRpms, FuelLoads, FuelRpms, 8, "ceil")

FuelCell(a, b, cap) == Greatest(Greatest(a, b), FuelRaw(cap))

\* A mistake: each bank keeps its own richer value.
OpenLoopOwnBank(caps, a, b) ==
  LET tuned(bank) == [y \in 1..Len(FuelRpms) |-> [x \in 1..Len(FuelLoads) |->
                        IF caps[x] = 0 THEN bank[y][x]
                        ELSE Greatest(bank[y][x], FuelRaw(LambdaCap(caps, y, x)))]]
  IN [a |-> tuned(ResampleFuel(a)), b |-> tuned(ResampleFuel(b))]
\* Both banks; a bounded cell is the same in each.
OpenLoop(caps, a, b) ==
  LET ra == ResampleFuel(a)
      rb == ResampleFuel(b)
      tuned(bank) == [y \in 1..Len(FuelRpms) |-> [x \in 1..Len(FuelLoads) |->
                        IF caps[x] = 0 THEN bank[y][x]
                        ELSE FuelCell(ra[y][x], rb[y][x], LambdaCap(caps, y, x))]]
  IN [a |-> tuned(ra), b |-> tuned(rb)]
PrimaryOpenLoop1(a, b) == OpenLoop(LambdaCaps1, a, b)
PrimaryOpenLoop2(a, b) == OpenLoop(LambdaCaps2, a, b)

\* Closed-loop compensation: 16 bits, its own load axis, no bound.
StockClLoads == <<20, 40, 60, 80, 100, 120, 140, 160, 180>>
ClLoads == <<20, 40, 60, 80, 100, 120, 160, 250, 400>>
ClFuelCompensation(old, rpms) ==
  Resample(old, StockClLoads, rpms, ClLoads, rpms, 16, "nearest")

-----------------------------------------------------------------------------
\* Ignition: degrees = raw * 45/128 - 20, and the knock advance without the 20.

StockTimingLoads == <<15, 35, 45, 55, 70, 83, 96, 109, 122, 135, 148, 161, 174, 187, 200>>
TimingLoads == <<15, 35, 45, 55, 70, 83, 96, 109, 122, 140, 160, 200, 250, 320, 400>>
\* The stock speed axis of every timing and knock map; the short maps end at 4400.
TimingRpms(rows) ==
  SubSeq(<<400, 600, 800, 900, 1000, 1200, 1600, 2000, 2400, 2800, 3200, 3600, 4000, 4400,
           4800, 5200, 5600, 6000, 6400, 6800>>, 1, rows)

FullBoost1 == <<<<2000, -20>>, <<2400, 0>>, <<2800, 20>>, <<3200, 40>>, <<3600, 50>>,
                <<4000, 60>>, <<4400, 70>>, <<4800, 80>>, <<5200, 90>>, <<5600, 100>>,
                <<6000, 110>>, <<6400, 120>>, <<6800, 130>>>>
FullBoost2 == <<<<400, 80>>, <<600, 80>>, <<800, 80>>, <<900, 80>>, <<1000, 80>>, <<1200, 85>>,
                <<1600, 90>>, <<2000, 95>>, <<2400, 105>>, <<2800, 115>>, <<3200, 120>>,
                <<3600, 125>>, <<4000, 130>>, <<4400, 135>>, <<4800, 135>>, <<5200, 138>>,
                <<5600, 140>>, <<6000, 142>>, <<6400, 145>>, <<6800, 145>>>>
\* The columns from 1.09 g/rev on.
Onset == 8
Offsets1 == [x \in Onset..15 |-> <<80, 40, 20, 0, 0, 0, 0, 0>>[x - Onset + 1]]
Offsets2 == [x \in Onset..15 |-> <<100, 75, 50, 30, 15, 0, -20, -35>>[x - Onset + 1]]
LowRpmFloor == <<150, 150, 150, 140, 135, 130, 125>>

TimingRaw(num, den) == Clamp(((num + 200 * den) * 128) \div (450 * den), 8)
KcaRaw(tenths) == Clamp((tenths * 128) \div 450, 8)

ResampleTiming(old, rows) ==
  Resample(old, StockTimingLoads, TimingRpms(rows), TimingLoads, TimingRpms(rows), 8, "floor")

\* A mistake: the bound replaces the cell.
Timing1Set(old, rows, label) ==
  LET new == ResampleTiming(old, rows)
      cap(y) == Interpolate(FullBoost1, TimingRpms(rows)[y])
  IN [y \in 1..rows |-> [x \in 1..15 |->
        IF TimingRpms(rows)[y] < 2000 \/ x < Onset THEN new[y][x]
        ELSE TimingRaw(cap(y).num + Offsets1[x] * cap(y).den, cap(y).den)]]
Timing1(old, rows, label) ==
  LET new == ResampleTiming(old, rows)
      cap(y) == Interpolate(FullBoost1, TimingRpms(rows)[y])
  IN [y \in 1..rows |-> [x \in 1..15 |->
        IF TimingRpms(rows)[y] < 2000 \/ x < Onset THEN new[y][x]
        ELSE Least(new[y][x], TimingRaw(cap(y).num + Offsets1[x] * cap(y).den, cap(y).den))]]
\* The second build sets the bounded columns, and lifts the idle cells of A and D.
Timing2(old, rows, label) ==
  LET new == ResampleTiming(old, rows)
      cap(y) == Interpolate(FullBoost2, TimingRpms(rows)[y])
  IN [y \in 1..rows |-> [x \in 1..15 |->
        IF x >= Onset
        THEN TimingRaw(Greatest(80 * cap(y).den, cap(y).num + Offsets2[x] * cap(y).den), cap(y).den)
        ELSE IF TimingRpms(rows)[y] <= 2000 /\ label \in {"A", "D"}
        THEN Greatest(new[y][x], TimingRaw(LowRpmFloor[x], 1))
        ELSE new[y][x]]]

\* Knock advance.
Kca1(old, rows) ==
  LET new == ResampleTiming(old, rows)
  IN [y \in 1..rows |-> [x \in 1..15 |->
        IF TimingRpms(rows)[y] < 2000 \/ x < Onset THEN new[y][x]
        ELSE Least(new[y][x], IF x = Onset THEN KcaRaw(20) ELSE 0)]]
KcaCaps == [x \in Onset..15 |-> <<70, 60, 50, 45, 40, 35, 30, 25>>[x - Onset + 1]]
Kca2(old, rows) ==
  LET new == ResampleTiming(old, rows)
  IN [y \in 1..rows |-> [x \in 1..15 |->
        IF x < Onset THEN new[y][x] ELSE Least(new[y][x], KcaRaw(KcaCaps[x]))]]

-----------------------------------------------------------------------------
\* Intake cam: degrees = raw * 90/16384.

StockAvcsLoads == SubSeq(StockTimingLoads, 2, 15)
AvcsLoads == SubSeq(TimingLoads, 2, 15)
LowCamRpms == <<500, 800, 1000, 1200, 1600, 2000, 2400, 2800, 3200, 3600, 4000>>
HighCamRpms == <<1000, 1200, 1600, 2000, 2400, 2800, 3200, 3600, 4000, 4200, 4400, 4800,
                 5200, 5600, 6000, 6400, 6600, 6800>>
Avcs1(old, rpms) == Resample(old, StockAvcsLoads, rpms, AvcsLoads, rpms, 16, "nearest")

\* The largest advance at a speed, in degrees, 25 where the source lists none.
AdvanceLimits == {<<500, 0>>, <<800, 0>>, <<1000, 0>>, <<1200, 15>>, <<1600, 20>>, <<2000, 25>>,
                  <<2400, 25>>, <<2800, 25>>, <<3000, 25>>, <<3200, 25>>, <<3500, 22>>, <<3600, 22>>,
                  <<4000, 20>>, <<4200, 18>>, <<4400, 16>>, <<4800, 14>>, <<5200, 12>>, <<5600, 10>>,
                  <<6000, 8>>, <<6400, 6>>, <<6600, 4>>, <<6800, 0>>}
MaxAdvance(rpm) == LET listed == {p \in AdvanceLimits : p[1] = rpm}
                   IN IF listed = {} THEN 25 ELSE (CHOOSE p \in listed : TRUE)[2]
LoadRetard(load) == IF load >= 200 THEN 7 ELSE IF load >= 160 THEN 5 ELSE IF load >= 140 THEN 3 ELSE 0
AvcsRaw(degrees) == Nearest(degrees * 8192, 45)
Avcs2(old, rpms) ==
  LET new == Avcs1(old, rpms)
  IN [y \in 1..Len(rpms) |-> [x \in 1..Len(AvcsLoads) |->
        Greatest(0, Least(new[y][x], AvcsRaw(MaxAdvance(rpms[y]) - LoadRetard(AvcsLoads[x]))))]]

-----------------------------------------------------------------------------
\* The air temperature sensor: volts in thousandths, degrees, the published points.

IatVoltages == <<450, 515, 591, 679, 780, 870, 970, 1098, 1242, 1402, 1580, 1775, 1986, 2212, 2450,
                 2694, 2942, 3189, 3430, 3649, 3853, 4041, 4210, 4348, 4468, 4572, 4660, 4794,
                 4881, 4936>>
IatTemperatures == [i \in 1..27 |-> 125 - 5 * i] \o <<-20, -30, -40>>
IatPublished == {<<120, 450>>, <<100, 780>>, <<90, 970>>, <<70, 1580>>, <<50, 2450>>,
                 <<30, 3430>>, <<10, 4210>>, <<-10, 4660>>}

Ascending(axis) == \A i \in 1..(Len(axis) - 1) : axis[i] < axis[i + 1]
\* The firmware searches an axis from below: every axis written ascends, and
\* the sensor curve passes through the published points.
ASSUME AxesAscend == /\ Ascending(FuelLoads) /\ Ascending(FuelRpms) /\ Ascending(ClLoads)
                     /\ Ascending(TimingLoads) /\ Ascending(AvcsLoads) /\ Ascending(IatVoltages)
                     /\ IatPublished \subseteq {<<IatTemperatures[i], IatVoltages[i]>> : i \in 1..30}

-----------------------------------------------------------------------------
\* Tables of the second build that are raised, and air floors; 16 bits.

\* Python's round, of a quotient that is never a tie here.
Throttle2(old) ==
  LET openings == <<35, 60, 90, 120, 150, 180, 210>>
  IN [y \in 1..20 |-> [x \in 1..15 |->
        IF x - 1 \in 1..7 THEN Greatest(old[y][x], Nearest(openings[x - 1] * 65536, 1250))
        ELSE old[y][x]]]

TorqueFloors == <<<<20, 42, 80>>, <<20, 40, 75>>, <<20, 40, 70>>, <<20, 40, 70>>,
                  <<18, 36, 65>>, <<16, 32, 55>>, <<12, 24, 40>>, <<8, 16, 28>>>>
RequestedTorque2(old) ==
  [y \in 1..20 |-> [x \in 1..19 |->
     IF y <= 8 /\ x - 1 \in 1..3 THEN Greatest(old[y][x], TorqueFloors[y][x - 1] * 128)
     ELSE old[y][x]]]

IdleSpeed2(old) == [i \in 1..16 |-> Greatest(old[i], 4352)]

\* The warm half is compared in grams per second with a raw floor, which is
\* never the smaller: a warm cell becomes the floor whatever it was.
BaseAir2(old) ==
  [i \in 1..16 |->
     IF i < 10 THEN old[i]
     ELSE LET floor == Nearest((IF i = 10 THEN 72 ELSE 68) * 16384, 250)
          IN IF old[i] * 25 <= floor * 16384 THEN floor ELSE (old[i] * 25) \div 16384]

\* The two tables of the stock image, the only ones the code is ever given.
StockBaseAir ==
  {<<11796, 11796, 10846, 9437, 8716, 8323, 7766, 6423,
       5571, 3932, 2851, 2621, 2294, 2130, 2130, 2130>>,
   <<10158, 10158, 9175, 7930, 7209, 6881, 6357, 5112,
       4588, 3441, 2851, 2621, 2294, 2130, 2130, 2130>>}

\* Pulse widths for larger injectors: the ratio n/d is below one.
Scaled(old, n, d) == [i \in DOMAIN old |-> Ceil(old[i] * n, d)]

-----------------------------------------------------------------------------
\* One call of a builder on a stock table.

\* Four levels in a checkered surface are every way the corners of a cell can lie.
Surfaces(levels, rows, cols) ==
  {[y \in 1..rows |-> [x \in 1..cols |-> p[<<y % 2, x % 2>>]]] : p \in [{0, 1} \X {0, 1} -> levels]}
Flat(levels, rows, cols) == {[y \in 1..rows |-> [x \in 1..cols |-> v]] : v \in levels}

NoMap == [map |-> "none"]
CalInit == built = NoMap

BuildFuel == \E a \in Surfaces(Levels8, 10, 14), b \in Flat(Levels8, 10, 14) :
  \/ built' = [map |-> "fuel", caps |-> LambdaCaps1, stock |-> <<a, b>>, tuned |-> PrimaryOpenLoop1(a, b)]
  \/ built' = [map |-> "fuel", caps |-> LambdaCaps2, stock |-> <<a, b>>, tuned |-> PrimaryOpenLoop2(a, b)]
ClFuelRpms == [i \in 1..13 |-> 400 + 400 * i]
BuildClFuel == \E old \in Surfaces(Levels16, 13, 9) :
  built' = [map |-> "clFuel", stock |-> old, tuned |-> ClFuelCompensation(old, ClFuelRpms)]
BuildTiming == \E rows \in {14, 20}, label \in {"A", "B"} : \E old \in Surfaces(Levels8, rows, 15) :
  \/ built' = [map |-> "timing1", rows |-> rows, stock |-> old, tuned |-> Timing1(old, rows, label)]
  \/ built' = [map |-> "timing2", rows |-> rows, label |-> label, stock |-> old,
               tuned |-> Timing2(old, rows, label)]
BuildKca == \E rows \in {14, 20} : \E old \in Surfaces(Levels8, rows, 15) :
  \/ built' = [map |-> "kca", rows |-> rows, stock |-> old, tuned |-> Kca1(old, rows)]
  \/ built' = [map |-> "kca", rows |-> rows, stock |-> old, tuned |-> Kca2(old, rows)]
BuildAvcs == \E rpms \in {LowCamRpms, HighCamRpms} : \E old \in Surfaces(Levels16, Len(rpms), 14) :
  \/ built' = [map |-> "avcs", rpms |-> rpms, stock |-> old, tuned |-> Avcs1(old, rpms)]
  \/ built' = [map |-> "avcs", rpms |-> rpms, stock |-> old, tuned |-> Avcs2(old, rpms)]
BuildFloors ==
  \/ \E old \in Flat(Levels16, 20, 15) :
       built' = [map |-> "floor", stock |-> old, tuned |-> Throttle2(old)]
  \/ \E old \in Flat(Levels16, 20, 19) :
       built' = [map |-> "floor", stock |-> old, tuned |-> RequestedTorque2(old)]
  \/ \E old \in Flat(Levels16, 1, 16) :
       built' = [map |-> "floor", stock |-> old, tuned |-> <<IdleSpeed2(old[1])>>]
  \/ \E old \in StockBaseAir :
       built' = [map |-> "floor", stock |-> <<old>>, tuned |-> <<BaseAir2(old)>>]
BuildPulses == \E old \in [1..2 -> Levels16], r \in Ratios :
  built' = [map |-> "pulse", ratio |-> r, stock |-> old, tuned |-> Scaled(old, r[1], r[2])]

CalNext == /\ built = NoMap
           /\ BuildFuel \/ BuildClFuel \/ BuildTiming \/ BuildKca \/ BuildAvcs \/ BuildFloors \/ BuildPulses
CalSpec == CalInit /\ [][CalNext]_built

-----------------------------------------------------------------------------
\* Properties.

\* The exact stock value at a knot of the tuned map, as a numerator and a denominator.
StockAt(src, sx, sy, x, y) ==
  [num |-> Bilinear(src, Bracket(sx, x), Bracket(sy, y)),
   den |-> Bracket(sx, x).den * Bracket(sy, y).den]

PulsesReach == \A i \in DOMAIN built.stock :
  LET exact == built.stock[i] * built.ratio[1]
  IN /\ built.tuned[i] * built.ratio[2] >= exact
     /\ (built.tuned[i] - 1) * built.ratio[2] < exact
ClFuelKept == \A y \in 1..13, x \in 1..9 :
  LET at == StockAt(built.stock, StockClLoads, ClFuelRpms, ClLoads[x], ClFuelRpms[y])
  IN 2 * built.tuned[y][x] * at.den - 2 * at.num \in (-at.den)..at.den
FuelRich == \A y \in 1..Len(FuelRpms), x \in 1..Len(FuelLoads) :
  LET at(i) == StockAt(built.stock[i], StockFuelLoads, StockFuelRpms, FuelLoads[x], FuelRpms[y])
      a == built.tuned.a[y][x]
      b == built.tuned.b[y][x]
  IN /\ a * at(1).den >= at(1).num
     /\ b * at(2).den >= at(2).num
     /\ built.caps[x] # 0 => a = b /\ 12800 <= (128 + a) * LambdaCap(built.caps, y, x)

\* No tuned fuel cell is leaner than the stock surface of its bank at that
\* knot; a bounded cell is the same in both banks, as rich as the richer stock
\* bank and no leaner than the bound; the closed-loop compensation is the stock
\* surface to half a count; and a pulse scaled to larger injectors is never
\* shorter than the exact ratio, nor longer by a whole count
\* (build_primary_open_loop, fuel_raw_for_lambda, build_cl_fuel_compensation,
\* scale_u16_table).
FuelNeverLeaner == /\ built.map = "fuel" => FuelRich
                   /\ built.map = "clFuel" => ClFuelKept
                   /\ built.map = "pulse" => PulsesReach

\* The stock surface of an ignition or knock map at a knot of the tuned one.
TimingStockAt(y, x) == StockAt(built.stock, StockTimingLoads, TimingRpms(built.rows),
                               TimingLoads[x], TimingRpms(built.rows)[y])
NotRaised(y, x) == built.tuned[y][x] * TimingStockAt(y, x).den <= TimingStockAt(y, x).num

\* Tuned maps move one way.  The first build's ignition, and both builds' knock
\* advance and cam advance, never exceed the stock surface at any knot: rounding
\* included, and the ignition cap between two listed speeds.  The second build's
\* ignition exceeds it only in the bounded columns, which never advance as the load grows, and
\* in the idle cells of its floor; its air floors never lower a cell
\* (build_timing_map, build_kca_map, build_avcs_map, build_target_throttle_map,
\* build_requested_torque_map, build_idle_speed_target, build_base_air).
MovesOneWay ==
  /\ built.map = "floor" => \A y \in DOMAIN built.stock : \A x \in DOMAIN built.stock[y] :
       built.tuned[y][x] \in built.stock[y][x]..Width(16)
  /\ built.map \in {"timing1", "kca"} =>
       \A y \in 1..built.rows, x \in 1..15 : NotRaised(y, x)
  /\ built.map = "timing2" =>
       \A y \in 1..built.rows, x \in 1..15 :
         \/ x >= Onset /\ (x > Onset => built.tuned[y][x] <= built.tuned[y][x - 1])
         \/ x < Onset /\ TimingRpms(built.rows)[y] <= 2000 /\ built.label \in {"A", "D"}
         \/ x < Onset /\ NotRaised(y, x)
  /\ built.map = "avcs" =>
       \A y \in 1..Len(built.rpms), x \in 1..14 :
         LET at == StockAt(built.stock, StockAvcsLoads, built.rpms, AvcsLoads[x], built.rpms[y])
         IN /\ built.tuned[y][x] \in 0..Width(16)
            /\ 2 * built.tuned[y][x] * at.den <= 2 * at.num + at.den

===============================================================================
