--------------------------- MODULE OfflineToolsProofs ---------------------------
(***************************************************************************)
(* What is proved of the tools that run beside the builders.  The tools    *)
(* share no variable, so a theorem about one holds of all of them at work. *)
(*                                                                         *)
(* A tuned calibration map is its stock surface at each knot, rounded once *)
(* and then bounded.  The value between four cells lies within the width   *)
(* of a cell, so the rounding decides on which side of the surface the     *)
(* tuned cell falls and the bounds only move it further that way.  The     *)
(* inductive invariant says whose work on which kind of table the map is.  *)
(*                                                                         *)
(* What is assembled reads back. Every item has an even address, so a      *)
(* displacement that fits its field loses nothing by the division and the  *)
(* sign; the slot of a literal is the number of first uses before its own, *)
(* so two literals never share one.                                        *)
(*                                                                         *)
(* Synchronizing the boost definition twice is synchronizing it once.  The *)
(* two counts of the oil scaling, in the sections the tool keeps and in    *)
(* the whole, leave none for the copied block and for what follows it; so  *)
(* the sections read back are the sections written.  Sections are read by  *)
(* a recursive function, hence the lemmas by induction over the places.    *)
(*                                                                         *)
(* Installing a logger definition twice is installing it once: what the    *)
(* installer made has exactly the parts it would make of it again.         *)
(*                                                                         *)
(* The diagnostics reader lets go of what it opened.  It visits the        *)
(* candidates in the order of the list, so those before the one at hand    *)
(* are settled: closed again, or the one that is held.                     *)
(***************************************************************************)
EXTENDS OfflineTools, SequenceTheorems, FiniteSetTheorems, FunctionTheorems, WellFoundedInduction, TLAPS

(* A set of numbers that is not empty has a least member. *)
LEMMA LeastMember ==
  ASSUME NEW N, N \subseteq Nat, N # {}
  PROVE  \E j \in N : \A k \in N : j <= k
<1>1. PICK j \in N : \A k \in N : <<k, j>> \notin OpToRel(<, Nat)
  BY NatLessThanWellFounded, WFMin
<1>2. \A x, y \in Nat : y < x => <<y, x>> \in OpToRel(<, Nat)
  BY Zenon DEF OpToRel
<1>3. \A k \in N : ~(k < j)
  BY <1>1, <1>2
<1> QED  BY <1>3
-----------------------------------------------------------------------------
(* The calibration maps. *)

(* Division by a positive number.                                          *)
LEMMA Division ==
  ASSUME NEW n \in Int, NEW d \in Nat \ {0}
  PROVE  /\ n \div d \in Int
         /\ d * (n \div d) <= n /\ n < d * (n \div d) + d
OBVIOUS

(* A product with a natural number keeps the order.                        *)
LEMMA TimesBelow ==
  ASSUME NEW a \in Int, NEW b \in Int, NEW c \in Nat, a <= b
  PROVE  a * c <= b * c
OBVIOUS

(* And a product with a positive one gives it back.                        *)
LEMMA TimesRefl ==
  ASSUME NEW a \in Int, NEW b \in Int, NEW c \in Nat \ {0}, a * c <= b * c
  PROVE  a <= b
OBVIOUS

(* The same of the strict order.                                           *)
LEMMA TimesStrict ==
  ASSUME NEW a \in Int, NEW b \in Int, NEW c \in Nat \ {0}, a * c < b * c
  PROVE  a < b
OBVIOUS

(* Rounding up to a multiple of d: the least that is not below n (Ceil).   *)
LEMMA CeilBounds ==
  ASSUME NEW n \in Int, NEW d \in Nat \ {0}
  PROVE  /\ Ceil(n, d) \in Int
         /\ Ceil(n, d) * d >= n /\ (Ceil(n, d) - 1) * d < n
<1> DEFINE q == (-n) \div d
<1>1. q \in Int /\ d * q <= -n /\ -n < d * q + d
  BY Division
<1>2. Ceil(n, d) = -q
  BY DEF Ceil
<1> HIDE DEF q
<1> QED  BY <1>1, <1>2

(* Two positive denominators have a positive product.                      *)
LEMMA ProductOf ==
  ASSUME NEW d \in Nat \ {0}, NEW e \in Nat \ {0}
  PROVE  d * e \in Nat \ {0} /\ \A w \in Nat : w * d \in Nat /\ w * d * e = w * (d * e)
OBVIOUS

(* A value between two cells is between zero and the width.                *)
LEMMA MixBounds ==
  ASSUME NEW W \in Nat, NEW a \in 0..W, NEW b \in 0..W, NEW num \in Nat, NEW den \in Nat, num <= den
  PROVE  a * den + (b - a) * num \in 0..W * den
<1>1. a * (den - num) <= W * (den - num) /\ 0 <= a * (den - num)
  BY TimesBelow
<1>2. b * num <= W * num /\ 0 <= b * num
  BY TimesBelow
<1>3. a * den + (b - a) * num = a * (den - num) + b * num
  OBVIOUS
<1>4. W * (den - num) + W * num = W * den
  OBVIOUS
<1> QED  BY <1>1, <1>2, <1>3, <1>4

(* What each kind of rounding computes (quantize).                         *)
LEMMA QuantizeBy ==
  ASSUME NEW bits, NEW n, NEW d
  PROVE  /\ Quantize("ceil", bits, n, d) = Clamp(Ceil(n, d), bits)
         /\ Quantize("floor", bits, n, d) = Clamp(n \div d, bits)
         /\ Quantize("nearest", bits, n, d) = Clamp(Nearest(n, d), bits)
BY Zenon DEF Quantize

(* The advance listed for a speed is a number (TURBO_AVCS_MAX_ADVANCE).    *)
LEMMA AdvanceType == ASSUME NEW rpm PROVE MaxAdvance(rpm) \in Int
<1> DEFINE entries == {p \in AdvanceLimits : p[1] = rpm}
           chosen == CHOOSE p \in entries : TRUE
<1>1. entries # {} => chosen \in AdvanceLimits
  OBVIOUS
<1>2. \A p \in AdvanceLimits : p[2] \in Int
  BY DEF AdvanceLimits
<1> QED BY <1>1, <1>2 DEF MaxAdvance

(* An axis: at least one knot, each above the one before.                  *)
Axis(s) == s \in Seq(Int) /\ Len(s) # 0 /\ Ascending(s)
(* A bracket within an axis of n knots.                                    *)
Between(b, n) == /\ b.left \in 1..n /\ b.right \in 1..n
                 /\ b.num \in Nat /\ b.den \in Nat \ {0} /\ b.num <= b.den

(* The knots around a value are knots of the axis, and the value lies      *)
(* between them (axis_bracket).                                            *)
LEMMA BracketBetween ==
  ASSUME NEW s, Axis(s), NEW v \in Int
  PROVE  Between(Bracket(s, v), Len(s))
<1>1. Len(s) \in Nat \ {0} /\ \A i \in 1..Len(s) : s[i] \in Int
  BY DEF Axis
<1>2. CASE v <= s[1] \/ v >= s[Len(s)]
  BY <1>1, <1>2 DEF Bracket, Between
<1>3. CASE s[1] < v /\ v < s[Len(s)]
  <2> DEFINE above == {k \in 1..(Len(s) - 1) : v <= s[k + 1]}
             within(k) == s[k] <= v /\ v <= s[k + 1]
             fits(k) == within(k) /\ \A j \in 1..(k - 1) : ~within(j)
  <2>1. Len(s) - 1 \in above
    BY <1>1, <1>3
  <2>2. PICK k \in above : \A j \in above : k <= j
    <3>1. above \subseteq Nat
      BY <1>1
    <3> HIDE DEF above
    <3> QED  BY <2>1, <3>1, LeastMember
  <2>3. k \in 1..(Len(s) - 1) /\ fits(k)
    <3>1. k # 1 => ~(v <= s[k])
      BY <2>2
    <3>2. s[k] <= v
      BY <1>1, <1>3, <2>2, <3>1
    <3> QED  BY <2>2, <3>2
  <2> DEFINE i == CHOOSE m \in 1..(Len(s) - 1) : fits(m)
  <2>4. i \in 1..(Len(s) - 1) /\ fits(i)
    BY <2>3
  <2>5. s[i] < s[i + 1]
    BY <2>4 DEF Axis, Ascending
  <2>6. Bracket(s, v) = [left |-> i, right |-> i + 1, num |-> v - s[i], den |-> s[i + 1] - s[i]]
    BY <1>1, <1>3 DEF Bracket
  <2> HIDE DEF i
  <2> QED  BY <1>1, <2>4, <2>5, <2>6 DEF Between
<1> QED  BY <1>1, <1>2, <1>3

(* The value between four cells, over the product of the denominators, is  *)
(* within the width of a cell.                                             *)
LEMMA BilinearBounds ==
  ASSUME NEW W \in Nat, NEW m, NEW n, NEW src \in [1..n -> [1..m -> 0..W]],
         NEW bx, Between(bx, m), NEW by, Between(by, n)
  PROVE  Bilinear(src, bx, by) \in 0..W * (bx.den * by.den)
<1> DEFINE row(y) == src[y][bx.left] * bx.den + (src[y][bx.right] - src[y][bx.left]) * bx.num
<1>1. \A y \in 1..n : src[y][bx.left] \in 0..W /\ src[y][bx.right] \in 0..W
  BY DEF Between
<1>2. \A y \in 1..n : row(y) \in 0..W * bx.den
  BY <1>1, MixBounds DEF Between
<1>3. W * bx.den \in Nat /\ W * bx.den * by.den = W * (bx.den * by.den)
  BY ProductOf DEF Between
<1>4. Bilinear(src, bx, by) = row(by.left) * by.den + (row(by.right) - row(by.left)) * by.num
  BY DEF Bilinear
<1> HIDE DEF row
<1>5. row(by.left) \in 0..W * bx.den /\ row(by.right) \in 0..W * bx.den
  BY <1>2 DEF Between
<1>6. row(by.left) * by.den + (row(by.right) - row(by.left)) * by.num \in 0..W * bx.den * by.den
  BY <1>3, <1>5, MixBounds DEF Between
<1> QED  BY <1>3, <1>4, <1>6

(* Every table over two axes.                                              *)
Surface(sx, sy, bits) == [1..Len(sy) -> [1..Len(sx) -> 0..Width(bits)]]

(* A cell is the rounded quotient of a value within the width.             *)
IsKnot(r, rounding, bits, at) == /\ r = Quantize(rounding, bits, at.num, at.den)
                                 /\ at.den \in Nat \ {0} /\ at.num \in 0..Width(bits) * at.den

(* A resampled cell is the stock surface at that knot, rounded once        *)
(* (resample_integer_surface).                                             *)
LEMMA Resampled ==
  ASSUME NEW sx, NEW sy, Axis(sx), Axis(sy), NEW bits \in {8, 16}, NEW rounding,
         NEW src \in Surface(sx, sy, bits), NEW tx \in Seq(Int), NEW ty \in Seq(Int),
         NEW x \in 1..Len(tx), NEW y \in 1..Len(ty)
  PROVE  IsKnot(Resample(src, sx, sy, tx, ty, bits, rounding)[y][x], rounding, bits,
                StockAt(src, sx, sy, tx[x], ty[y]))
<1> DEFINE bx == Bracket(sx, tx[x])
           by == Bracket(sy, ty[y])
<1>1. tx[x] \in Int /\ ty[y] \in Int
  OBVIOUS
<1>2. Between(bx, Len(sx)) /\ Between(by, Len(sy))
  BY <1>1, BracketBetween
<1>3. Width(bits) \in Nat
  BY DEF Width
<1> DEFINE at == StockAt(src, sx, sy, tx[x], ty[y])
<1>4. at.num = Bilinear(src, bx, by) /\ at.den = bx.den * by.den
  BY DEF StockAt
<1>5. Resample(src, sx, sy, tx, ty, bits, rounding)[y][x]
        = Quantize(rounding, bits, Bilinear(src, bx, by), bx.den * by.den)
  BY DEF Resample
<1> HIDE DEF bx, by, at
<1>6. Bilinear(src, bx, by) \in 0..Width(bits) * (bx.den * by.den)
  BY <1>2, <1>3, BilinearBounds DEF Surface
<1>7. bx.den * by.den \in Nat \ {0}
  BY <1>2, ProductOf DEF Between
<1> QED  BY <1>4, <1>5, <1>6, <1>7 DEF IsKnot, at

(* Rounding up stays within the width, so the bound of quantize changes    *)
(* nothing, and is never below.                                            *)
LEMMA RoundedUp ==
  ASSUME NEW bits \in {8, 16}, NEW d \in Nat \ {0}, NEW n \in 0..Width(bits) * d
  PROVE  LET q == Quantize("ceil", bits, n, d) IN q \in 0..Width(bits) /\ q * d >= n
<1>1. Width(bits) \in Nat
  BY DEF Width
<1>2. n \in Nat /\ n <= Width(bits) * d
  BY <1>1
<1> DEFINE q == Ceil(n, d)
<1>3. q \in Int /\ q * d >= n /\ (q - 1) * d < n
  BY <1>2, CeilBounds
<1> HIDE DEF q
<1>4. q - 1 < Width(bits)
  BY <1>1, <1>2, <1>3, TimesStrict
<1>5. 0 * d <= q * d
  BY <1>2, <1>3
<1>6. 0 <= q
  BY <1>3, <1>5, TimesRefl
<1>7. Clamp(q, bits) = q
  BY <1>1, <1>3, <1>4, <1>6 DEF Clamp, Least, Greatest
<1> QED  BY <1>1, <1>3, <1>4, <1>6, <1>7, QuantizeBy DEF q

(* Rounding down stays within the width and is never above.                *)
LEMMA RoundedDown ==
  ASSUME NEW bits \in {8, 16}, NEW d \in Nat \ {0}, NEW n \in 0..Width(bits) * d
  PROVE  LET q == Quantize("floor", bits, n, d) IN q \in 0..Width(bits) /\ q * d <= n
<1>1. Width(bits) \in Nat
  BY DEF Width
<1>2. n \in Nat /\ n <= Width(bits) * d
  BY <1>1
<1> DEFINE q == n \div d
<1>3. q \in Int /\ q * d <= n /\ n < (q + 1) * d
  BY <1>2, Division
<1> HIDE DEF q
<1>4. q <= Width(bits)
  BY <1>1, <1>2, <1>3, TimesRefl
<1>5. 0 * d < (q + 1) * d
  BY <1>2, <1>3
<1>6. 0 < q + 1
  BY <1>3, <1>5, TimesStrict
<1>7. Clamp(q, bits) = q
  BY <1>1, <1>3, <1>4, <1>6 DEF Clamp, Least, Greatest
<1> QED  BY <1>1, <1>3, <1>4, <1>6, <1>7, QuantizeBy DEF q

(* Rounding to the nearest is within half a count.                         *)
LEMMA RoundedNearest ==
  ASSUME NEW bits \in {8, 16}, NEW d \in Nat \ {0}, NEW n \in 0..Width(bits) * d
  PROVE  LET q == Quantize("nearest", bits, n, d)
         IN q \in 0..Width(bits) /\ 2 * q * d - 2 * n \in (-d)..d
<1>1. Width(bits) \in Nat
  BY DEF Width
<1>2. n \in Nat /\ n <= Width(bits) * d
  BY <1>1
<1> DEFINE q == Nearest(n, d)
<1>3. q \in Int /\ (2 * q) * d <= 2 * n + d /\ 2 * n + d < (2 * q + 2) * d
  <2>1. 2 * d \in Nat \ {0} /\ 2 * n + d \in Int
    BY <1>2
  <2>2. q = (2 * n + d) \div (2 * d)
    BY DEF Nearest
  <2> HIDE DEF q
  <2>3. q \in Int /\ (2 * d) * q <= 2 * n + d /\ 2 * n + d < (2 * d) * q + 2 * d
    BY <2>1, <2>2, Division
  <2> QED  BY <1>2, <2>3
<1> HIDE DEF q
<1>4. (2 * q) * d <= (2 * Width(bits) + 1) * d
  BY <1>1, <1>2, <1>3
<1>5. 2 * q <= 2 * Width(bits) + 1
  BY <1>1, <1>3, <1>4, TimesRefl
<1>6. 0 * d < (2 * q + 2) * d
  BY <1>2, <1>3
<1>7. 0 < 2 * q + 2
  BY <1>3, <1>6, TimesStrict
<1>8. q \in 0..Width(bits)
  BY <1>1, <1>3, <1>5, <1>7
<1>9. Clamp(q, bits) = q
  BY <1>1, <1>8 DEF Clamp, Least, Greatest
<1>10. 2 * q * d - 2 * n \in (-d)..d
  BY <1>2, <1>3
<1> QED  BY <1>8, <1>9, <1>10, QuantizeBy DEF q

(* A part of an axis, from place m to place n, is an axis.                 *)
LEMMA PartOfAxis ==
  ASSUME NEW s, Axis(s), NEW m \in 1..Len(s), NEW n \in m..Len(s)
  PROVE  Axis(SubSeq(s, m, n)) /\ Len(SubSeq(s, m, n)) = n - m + 1
<1>1. Len(s) \in Nat /\ m \in Nat /\ n \in Nat /\ m <= n /\ n <= Len(s) /\ 1 <= m
  BY DEF Axis
<1>2. \A i \in m..n : s[i] \in Int
  BY <1>1 DEF Axis
<1> DEFINE t == SubSeq(s, m, n)
<1>3. t \in Seq(Int) /\ Len(t) = n - m + 1 /\ \A i \in 1..n - m + 1 : t[i] = s[m + i - 1]
  BY <1>1, <1>2, SubSeqProperties
<1> HIDE DEF t
<1>4. \A j \in 1..(Len(s) - 1) : s[j] < s[j + 1]
  BY DEF Axis, Ascending
<1>5. ASSUME NEW i \in 1..(Len(t) - 1) PROVE t[i] < t[i + 1]
  <2>0. i \in 1..n - m + 1 /\ i + 1 \in 1..n - m + 1 /\ m + (i + 1) - 1 = m + i
    BY <1>1, <1>3
  <2>1. t[i] = s[m + i - 1] /\ t[i + 1] = s[m + i]
    BY <1>3, <2>0
  <2>2. m + i - 1 \in 1..(Len(s) - 1) /\ m + i - 1 + 1 = m + i
    BY <1>1, <1>3
  <2> QED  BY <1>4, <2>1, <2>2
<1>6. Ascending(t)
  BY <1>5 DEF Ascending
<1> QED  BY <1>1, <1>3, <1>6 DEF Axis, t

(* The axes of the fuel maps.                                              *)
LEMMA FuelAxes ==
  /\ Axis(StockFuelLoads) /\ Len(StockFuelLoads) = 14
  /\ Axis(StockFuelRpms) /\ Len(StockFuelRpms) = 10
  /\ FuelLoads \in Seq(Int) /\ Len(FuelLoads) = 14
  /\ FuelRpms \in Seq(Int) /\ Len(FuelRpms) = 10
<1>1. Axis(StockFuelLoads) /\ Len(StockFuelLoads) = 14
  BY DEF StockFuelLoads, Axis, Ascending
<1>2. Axis(StockFuelRpms) /\ Len(StockFuelRpms) = 10
  BY DEF StockFuelRpms, Axis, Ascending
<1>3. FuelLoads \in Seq(Int) /\ Len(FuelLoads) = 14 /\ FuelRpms \in Seq(Int) /\ Len(FuelRpms) = 10
  BY DEF FuelLoads, FuelRpms
<1> QED  BY <1>1, <1>2, <1>3

(* The axes of the closed-loop compensation.                               *)
LEMMA ClAxes ==
  /\ Axis(StockClLoads) /\ Len(StockClLoads) = 9
  /\ Axis(ClFuelRpms) /\ Len(ClFuelRpms) = 13
  /\ ClLoads \in Seq(Int) /\ Len(ClLoads) = 9
<1>1. Axis(StockClLoads) /\ Len(StockClLoads) = 9 /\ ClLoads \in Seq(Int) /\ Len(ClLoads) = 9
  BY DEF StockClLoads, ClLoads, Axis, Ascending
<1>2. Axis(ClFuelRpms) /\ Len(ClFuelRpms) = 13
  <2>1. ClFuelRpms = [i \in 1..13 |-> 400 + 400 * i]
    BY DEF ClFuelRpms
  <2>2. ClFuelRpms \in Seq(Int) /\ Len(ClFuelRpms) = 13
    BY <2>1
  <2>3. \A i \in 1..12 : ClFuelRpms[i] < ClFuelRpms[i + 1]
    BY <2>1
  <2> QED  BY <2>2, <2>3 DEF Axis, Ascending
<1> QED  BY <1>1, <1>2

(* The axes of the ignition and knock maps.                                *)
LEMMA TimingAxes ==
  /\ Axis(StockTimingLoads) /\ Len(StockTimingLoads) = 15
  /\ Axis(TimingLoads) /\ Len(TimingLoads) = 15
  /\ \A rows \in {14, 20} : Axis(TimingRpms(rows)) /\ Len(TimingRpms(rows)) = rows
<1>1. Axis(StockTimingLoads) /\ Len(StockTimingLoads) = 15
  BY DEF StockTimingLoads, Axis, Ascending
<1>2. Axis(TimingLoads) /\ Len(TimingLoads) = 15
  BY DEF TimingLoads, Axis, Ascending
<1> DEFINE speeds == <<400, 600, 800, 900, 1000, 1200, 1600, 2000, 2400, 2800, 3200, 3600, 4000,
                       4400, 4800, 5200, 5600, 6000, 6400, 6800>>
<1>3. /\ speeds \in Seq(Int) /\ Len(speeds) = 20
      /\ \A i \in 1..19 : speeds[i] < speeds[i + 1]
  OBVIOUS
<1>4. \A rows : TimingRpms(rows) = SubSeq(speeds, 1, rows)
  BY DEF TimingRpms
<1> HIDE DEF speeds
<1>5. Axis(speeds)
  BY <1>3 DEF Axis, Ascending
<1>6. ASSUME NEW rows \in {14, 20} PROVE Axis(TimingRpms(rows)) /\ Len(TimingRpms(rows)) = rows
  <2>1. 1 \in 1..Len(speeds) /\ rows \in 1..Len(speeds) /\ rows - 1 + 1 = rows
    BY <1>3
  <2>2. Axis(SubSeq(speeds, 1, rows)) /\ Len(SubSeq(speeds, 1, rows)) = rows - 1 + 1
    BY <1>5, <2>1, PartOfAxis
  <2> QED  BY <1>4, <2>1, <2>2
<1> QED  BY <1>1, <1>2, <1>6

(* The axes of the cam maps.                                               *)
LEMMA CamAxes ==
  /\ Axis(StockAvcsLoads) /\ Len(StockAvcsLoads) = 14
  /\ Axis(AvcsLoads) /\ Len(AvcsLoads) = 14
  /\ Axis(LowCamRpms) /\ Axis(HighCamRpms)
<1>1. Axis(LowCamRpms)
  BY DEF LowCamRpms, Axis, Ascending
<1>2. Axis(HighCamRpms)
  BY DEF HighCamRpms, Axis, Ascending
<1>3. Axis(StockAvcsLoads) /\ Len(StockAvcsLoads) = 14
  <2>1. 2 \in 1..Len(StockTimingLoads) /\ 15 \in 2..Len(StockTimingLoads)
    BY TimingAxes
  <2>2. Axis(SubSeq(StockTimingLoads, 2, 15)) /\ Len(SubSeq(StockTimingLoads, 2, 15)) = 15 - 2 + 1
    BY TimingAxes, <2>1, PartOfAxis
  <2> QED  BY <2>2 DEF StockAvcsLoads
<1>4. Axis(AvcsLoads) /\ Len(AvcsLoads) = 14
  <2>1. 2 \in 1..Len(TimingLoads) /\ 15 \in 2..Len(TimingLoads)
    BY TimingAxes
  <2>2. Axis(SubSeq(TimingLoads, 2, 15)) /\ Len(SubSeq(TimingLoads, 2, 15)) = 15 - 2 + 1
    BY TimingAxes, <2>1, PartOfAxis
  <2> QED  BY <2>2 DEF AvcsLoads
<1> QED  BY <1>1, <1>2, <1>3, <1>4

FuelSurface == Surface(StockFuelLoads, StockFuelRpms, 8)
FuelAt(bank, y, x) == StockAt(bank, StockFuelLoads, StockFuelRpms, FuelLoads[x], FuelRpms[y])

(* The widths of a cell.                                                   *)
LEMMA Widths == Width(8) = 255 /\ Width(16) = 65535 /\ \A bits \in {8, 16} : Width(bits) \in Nat
BY DEF Width

(* A resampled fuel cell is no leaner than the stock surface of its bank.  *)
LEMMA FuelResampled ==
  ASSUME NEW bank \in FuelSurface, NEW y \in 1..10, NEW x \in 1..14
  PROVE  /\ ResampleFuel(bank)[y][x] \in Nat
         /\ ResampleFuel(bank)[y][x] * FuelAt(bank, y, x).den >= FuelAt(bank, y, x).num
         /\ FuelAt(bank, y, x).den \in Nat /\ FuelAt(bank, y, x).num \in Nat
<1>1. y \in 1..Len(FuelRpms) /\ x \in 1..Len(FuelLoads)
  BY FuelAxes
<1> DEFINE at == FuelAt(bank, y, x)
           r == ResampleFuel(bank)[y][x]
<1>2. /\ r = Quantize("ceil", 8, at.num, at.den)
      /\ at.den \in Nat \ {0} /\ at.num \in 0..Width(8) * at.den
  <2>1. /\ Axis(StockFuelLoads) /\ Axis(StockFuelRpms) /\ 8 \in {8, 16}
        /\ bank \in Surface(StockFuelLoads, StockFuelRpms, 8)
        /\ FuelLoads \in Seq(Int) /\ FuelRpms \in Seq(Int)
    BY FuelAxes DEF FuelSurface
  <2>2. IsKnot(Resample(bank, StockFuelLoads, StockFuelRpms, FuelLoads, FuelRpms, 8, "ceil")[y][x],
                "ceil", 8,
                StockAt(bank, StockFuelLoads, StockFuelRpms, FuelLoads[x], FuelRpms[y]))
    BY <1>1, <2>1, Resampled
  <2> QED  BY <1>1, <2>1, <2>2 DEF ResampleFuel, FuelAt, IsKnot
<1> HIDE DEF at, r
<1>3. r \in 0..Width(8) /\ r * at.den >= at.num
  BY <1>2, RoundedUp
<1>4. r \in Nat /\ at.den \in Nat /\ at.num \in Nat
  BY <1>2, <1>3, Widths
<1> QED  BY <1>3, <1>4 DEF at, r

(* The bounds on lambda of the two builds, one percent richer at high      *)
(* speed and load.                                                         *)
LEMMA CapRange ==
  ASSUME NEW caps \in {LambdaCaps1, LambdaCaps2}, NEW y \in 1..10, NEW x \in 1..14, caps[x] # 0
  PROVE  LambdaCap(caps, y, x) \in 77..95
<1>1. caps[x] \in 78..95
  BY DEF LambdaCaps1, LambdaCaps2
<1> QED  BY <1>1 DEF LambdaCap

(* The raw value of a bound on lambda is no leaner than the bound          *)
(* (fuel_raw_for_lambda).                                                  *)
LEMMA FuelRawBound ==
  ASSUME NEW lambda \in 77..95
  PROVE  FuelRaw(lambda) \in Int /\ 12800 <= (128 + FuelRaw(lambda)) * lambda
<1>1. (100 - lambda) * 128 \in Int /\ lambda \in Nat \ {0}
  OBVIOUS
<1>2. FuelRaw(lambda) \in Int /\ FuelRaw(lambda) * lambda >= (100 - lambda) * 128
  BY <1>1, CeilBounds DEF FuelRaw
<1> QED  BY <1>2

(* What a cell of the two fuel banks must be.                              *)
RichEnough(tuned, caps, a, b, y, x) ==
  /\ tuned.a[y][x] * FuelAt(a, y, x).den >= FuelAt(a, y, x).num
  /\ tuned.b[y][x] * FuelAt(b, y, x).den >= FuelAt(b, y, x).num
  /\ caps[x] # 0 => /\ tuned.a[y][x] = tuned.b[y][x]
                    /\ 12800 <= (128 + tuned.a[y][x]) * LambdaCap(caps, y, x)

(* For every pair of stock banks, not only those a run tries, no cell of   *)
(* either build's open loop map is leaner than its bank's stock surface at *)
(* that knot, and a bounded cell is the same in both and no leaner than    *)
(* the bound (build_primary_open_loop).                                    *)
THEOREM FuelAnySurface ==
  ASSUME NEW caps \in {LambdaCaps1, LambdaCaps2}, NEW a \in FuelSurface, NEW b \in FuelSurface,
         NEW y \in 1..10, NEW x \in 1..14
  PROVE  RichEnough(OpenLoop(caps, a, b), caps, a, b, y, x)
<1> DEFINE tuned == OpenLoop(caps, a, b)
           p == ResampleFuel(a)[y][x]
           q == ResampleFuel(b)[y][x]
           richest == FuelCell(p, q, LambdaCap(caps, y, x))
<1>1. /\ tuned.a[y][x] = IF caps[x] = 0 THEN p ELSE richest
      /\ tuned.b[y][x] = IF caps[x] = 0 THEN q ELSE richest
  BY FuelAxes DEF OpenLoop
<1>2. /\ p \in Nat /\ p * FuelAt(a, y, x).den >= FuelAt(a, y, x).num
      /\ q \in Nat /\ q * FuelAt(b, y, x).den >= FuelAt(b, y, x).num
      /\ FuelAt(a, y, x).den \in Nat /\ FuelAt(a, y, x).num \in Nat
      /\ FuelAt(b, y, x).den \in Nat /\ FuelAt(b, y, x).num \in Nat
  BY FuelResampled
<1> HIDE DEF tuned, p, q
<1>3. CASE caps[x] = 0
  BY <1>1, <1>2, <1>3 DEF tuned, RichEnough
<1>4. CASE caps[x] # 0
  <2> DEFINE cap == LambdaCap(caps, y, x)
  <2>1. cap \in 77..95 /\ FuelRaw(cap) \in Int /\ 12800 <= (128 + FuelRaw(cap)) * cap
    BY <1>4, CapRange, FuelRawBound
  <2> HIDE DEF cap
  <2>2. richest \in Int /\ p <= richest /\ q <= richest /\ FuelRaw(cap) <= richest
    BY <1>2, <2>1 DEF FuelCell, Greatest, cap
  <2> HIDE DEF richest
  <2>3. /\ p * FuelAt(a, y, x).den <= richest * FuelAt(a, y, x).den
        /\ q * FuelAt(b, y, x).den <= richest * FuelAt(b, y, x).den
    BY <1>2, <2>2, TimesBelow
  <2>4. (128 + FuelRaw(cap)) * cap <= (128 + richest) * cap
    BY <2>1, <2>2, TimesBelow
  <2> DEFINE atA == FuelAt(a, y, x)
             atB == FuelAt(b, y, x)
  <2>5. atA.num <= richest * atA.den /\ atB.num <= richest * atB.den /\ 12800 <= (128 + richest) * cap
    <3> DEFINE pa == p * atA.den
               ra == richest * atA.den
               qb == q * atB.den
               rb == richest * atB.den
               fc == (128 + FuelRaw(cap)) * cap
               rc == (128 + richest) * cap
    <3>1. pa \in Int /\ ra \in Int /\ qb \in Int /\ rb \in Int /\ fc \in Int /\ rc \in Int
      BY <1>2, <2>1, <2>2
    <3>2. pa <= ra /\ qb <= rb /\ fc <= rc /\ 12800 <= fc /\ pa >= atA.num /\ qb >= atB.num
          /\ atA.num \in Int /\ atB.num \in Int
      BY <1>2, <2>1, <2>3, <2>4
    <3> HIDE DEF pa, ra, qb, rb, fc, rc, atA, atB
    <3>3. atA.num <= ra /\ atB.num <= rb /\ 12800 <= rc
      BY <3>1, <3>2
    <3> QED  BY <3>3 DEF ra, rb, rc
  <2> QED  BY <1>1, <1>4, <2>5 DEF tuned, cap, RichEnough
<1> QED  BY <1>3, <1>4 DEF tuned

(* For every stock table, each cell of the closed-loop compensation is     *)
(* within half a count of the stock surface at that knot                   *)
(* (build_cl_fuel_compensation).                                           *)
THEOREM ClFuelAnySurface ==
  ASSUME NEW old \in Surface(StockClLoads, ClFuelRpms, 16), NEW y \in 1..13, NEW x \in 1..9
  PROVE  LET at == StockAt(old, StockClLoads, ClFuelRpms, ClLoads[x], ClFuelRpms[y])
         IN 2 * ClFuelCompensation(old, ClFuelRpms)[y][x] * at.den - 2 * at.num \in (-at.den)..at.den
<1> DEFINE at == StockAt(old, StockClLoads, ClFuelRpms, ClLoads[x], ClFuelRpms[y])
<1>2. y \in 1..Len(ClFuelRpms) /\ x \in 1..Len(ClLoads) /\ ClFuelRpms \in Seq(Int)
  BY ClAxes DEF Axis
<1>3. /\ ClFuelCompensation(old, ClFuelRpms)[y][x] = Quantize("nearest", 16, at.num, at.den)
      /\ at.den \in Nat \ {0} /\ at.num \in 0..Width(16) * at.den
  <2>1. /\ Axis(StockClLoads) /\ Axis(ClFuelRpms) /\ 16 \in {8, 16}
        /\ ClLoads \in Seq(Int)
    BY ClAxes
  <2>2. IsKnot(Resample(old, StockClLoads, ClFuelRpms, ClLoads, ClFuelRpms, 16, "nearest")[y][x],
                "nearest", 16,
                StockAt(old, StockClLoads, ClFuelRpms, ClLoads[x], ClFuelRpms[y]))
    BY <1>2, <2>1, Resampled
  <2> QED  BY <1>2, <2>1, <2>2 DEF ClFuelCompensation, IsKnot
<1> HIDE DEF at
<1> QED  BY <1>3, RoundedNearest DEF at

(* A scaled pulse is the exact ratio rounded up (scale_u16_table).         *)
LEMMA PulseLength ==
  ASSUME NEW old \in [1..2 -> Nat], NEW n \in Nat, NEW d \in Nat, 0 < d, NEW i \in 1..2
  PROVE  /\ Scaled(old, n, d)[i] * d >= old[i] * n
         /\ (Scaled(old, n, d)[i] - 1) * d < old[i] * n
<1>2. old[i] * n \in Int /\ d \in Nat \ {0}
  OBVIOUS
<1>3. Scaled(old, n, d)[i] = Ceil(old[i] * n, d)
  BY DEF Scaled
<1> QED  BY <1>2, <1>3, CeilBounds

(* A quotient keeps the order.                                             *)
LEMMA DivMonotone ==
  ASSUME NEW a \in Int, NEW b \in Int, a <= b, NEW d \in Nat \ {0}
  PROVE  a \div d <= b \div d
<1> DEFINE p == a \div d
           q == b \div d
<1>1. p \in Int /\ q \in Int /\ d * p <= a /\ b < d * q + d
  BY Division
<1> HIDE DEF p, q
<1>2. p * d < (q + 1) * d
  BY <1>1
<1>3. p < q + 1
  BY <1>1, <1>2, TimesStrict
<1> QED  BY <1>1, <1>3 DEF p, q

(* A bounded value is within the width.                                    *)
LEMMA ClampType ==
  ASSUME NEW v \in Int, NEW bits \in {8, 16}
  PROVE  Clamp(v, bits) \in Nat /\ Clamp(v, bits) <= Width(bits)
BY Widths DEF Clamp, Least, Greatest

(* The bound keeps the order.                                              *)
LEMMA ClampMonotone ==
  ASSUME NEW v \in Int, NEW w \in Int, v <= w, NEW bits \in {8, 16}
  PROVE  Clamp(v, bits) <= Clamp(w, bits)
BY Widths DEF Clamp, Least, Greatest

(* The raw value of an angle keeps the order of the angles                 *)
(* (timing_raw_at_or_below).                                               *)
LEMMA TimingRawMonotone ==
  ASSUME NEW m \in Int, NEW n \in Int, NEW d \in Nat \ {0}, m <= n
  PROVE  TimingRaw(m, d) \in Nat /\ TimingRaw(m, d) <= TimingRaw(n, d)
<1>1. 450 * d \in Nat \ {0}
  OBVIOUS
<1> DEFINE a == (m + 200 * d) * 128
           b == (n + 200 * d) * 128
<1>2. a \in Int /\ b \in Int /\ a <= b
  OBVIOUS
<1>3. TimingRaw(m, d) = Clamp(a \div (450 * d), 8) /\ TimingRaw(n, d) = Clamp(b \div (450 * d), 8)
  BY DEF TimingRaw
<1> HIDE DEF a, b
<1>4. a \div (450 * d) \in Int /\ b \div (450 * d) \in Int
  BY <1>1, <1>2, Division
<1>5. a \div (450 * d) <= b \div (450 * d)
  BY <1>1, <1>2, DivMonotone
<1> QED  BY <1>3, <1>4, <1>5, ClampType, ClampMonotone

(* A point list read at a value gives a quotient (interpolate).            *)
LEMMA CurvePoint ==
  ASSUME NEW points \in Seq(Int \X Int), Len(points) # 0,
         \A i \in 1..(Len(points) - 1) : points[i][1] < points[i + 1][1], NEW v \in Int
  PROVE  Interpolate(points, v).num \in Int /\ Interpolate(points, v).den \in Nat \ {0}
<1> DEFINE axis == [i \in 1..Len(points) |-> points[i][1]]
           b == Bracket(axis, v)
<1>1. \A i \in 1..Len(points) : points[i][1] \in Int /\ points[i][2] \in Int
  OBVIOUS
<1>2. axis \in Seq(Int) /\ Len(axis) = Len(points)
  BY <1>1
<1>3. \A i \in 1..(Len(axis) - 1) : axis[i] < axis[i + 1]
  <2>1. \A i \in 1..(Len(points) - 1) : i \in 1..Len(points) /\ i + 1 \in 1..Len(points)
    OBVIOUS
  <2>2. \A i \in 1..Len(points) : axis[i] = points[i][1]
    OBVIOUS
  <2> HIDE DEF axis
  <2> QED  BY <1>2, <2>1, <2>2
<1>4. Axis(axis)
  BY <1>2, <1>3 DEF Axis, Ascending
<1>5. Between(b, Len(points))
  BY <1>2, <1>4, BracketBetween
<1>6. /\ Interpolate(points, v).den = b.den
      /\ Interpolate(points, v).num
           = points[b.left][2] * b.den + (points[b.right][2] - points[b.left][2]) * b.num
  BY DEF Interpolate
<1> HIDE DEF b
<1>7. points[b.left][2] \in Int /\ points[b.right][2] \in Int /\ b.num \in Nat /\ b.den \in Nat \ {0}
  BY <1>1, <1>5 DEF Between
<1>8. \A p, q \in Int, n \in Nat, d \in Nat : p * d + (q - p) * n \in Int
  OBVIOUS
<1> QED  BY <1>6, <1>7, <1>8

(* So do the two full-boost curves.                                        *)
LEMMA BoostCurves ==
  ASSUME NEW points \in {FullBoost1, FullBoost2}, NEW v \in Int
  PROVE  Interpolate(points, v).num \in Int /\ Interpolate(points, v).den \in Nat \ {0}
<1>1. /\ FullBoost1 \in Seq(Int \X Int) /\ Len(FullBoost1) # 0
      /\ \A i \in 1..(Len(FullBoost1) - 1) : FullBoost1[i][1] < FullBoost1[i + 1][1]
  BY DEF FullBoost1
<1>2. /\ FullBoost2 \in Seq(Int \X Int) /\ Len(FullBoost2) # 0
      /\ \A i \in 1..(Len(FullBoost2) - 1) : FullBoost2[i][1] < FullBoost2[i + 1][1]
  BY DEF FullBoost2
<1> QED  BY <1>1, <1>2, CurvePoint

TimingSurface(rows) == Surface(StockTimingLoads, TimingRpms(rows), 8)
TimingAt(old, rows, y, x) ==
  StockAt(old, StockTimingLoads, TimingRpms(rows), TimingLoads[x], TimingRpms(rows)[y])

(* A resampled ignition cell is not above the stock surface.               *)
LEMMA TimingResampled ==
  ASSUME NEW rows \in {14, 20}, NEW old \in TimingSurface(rows), NEW y \in 1..rows, NEW x \in 1..15
  PROVE  /\ ResampleTiming(old, rows)[y][x] \in Nat
         /\ ResampleTiming(old, rows)[y][x] * TimingAt(old, rows, y, x).den
              <= TimingAt(old, rows, y, x).num
         /\ TimingAt(old, rows, y, x).den \in Nat /\ TimingAt(old, rows, y, x).num \in Nat
<1> DEFINE at == TimingAt(old, rows, y, x)
           r == ResampleTiming(old, rows)[y][x]
           rpms == TimingRpms(rows)
<1>1. /\ y \in 1..Len(rpms) /\ x \in 1..Len(TimingLoads) /\ 8 \in {8, 16}
      /\ Axis(StockTimingLoads) /\ Axis(rpms)
      /\ TimingLoads \in Seq(Int) /\ rpms \in Seq(Int)
  BY TimingAxes DEF Axis
<1>2. r = Quantize("floor", 8, at.num, at.den) /\ at.den \in Nat \ {0} /\ at.num \in 0..Width(8) * at.den
  <2>1. old \in Surface(StockTimingLoads, rpms, 8)
    BY DEF TimingSurface
  <2> HIDE DEF rpms
  <2>2. IsKnot(Resample(old, StockTimingLoads, rpms, TimingLoads, rpms, 8, "floor")[y][x], "floor", 8,
               StockAt(old, StockTimingLoads, rpms, TimingLoads[x], rpms[y]))
    BY <1>1, <2>1, Resampled
  <2> QED  BY <2>2 DEF ResampleTiming, TimingAt, IsKnot, rpms
<1> HIDE DEF at, r
<1>3. r \in 0..Width(8) /\ r * at.den <= at.num
  BY <1>2, RoundedDown
<1>4. r \in Nat /\ at.den \in Nat /\ at.num \in Nat
  BY <1>2, <1>3, Widths
<1> QED  BY <1>3, <1>4 DEF at, r

(* A cell lowered to a bound stays below what the cell was below.          *)
LEMMA Lowered ==
  ASSUME NEW r \in Nat, NEW n \in Nat, NEW d \in Nat, r * d <= n, NEW cap \in Int
  PROVE  Least(r, cap) * d <= n
<1>1. CASE r <= cap
  BY <1>1 DEF Least
<1>2. CASE cap < r
  <2>1. cap * d <= r * d
    BY <1>2, TimesBelow
  <2>2. cap * d \in Int /\ r * d \in Int
    OBVIOUS
  <2> QED  BY <1>2, <2>1, <2>2 DEF Least
<1> QED  BY <1>1, <1>2

(* A cell that is not above the stock ignition surface.                    *)
Unraised(value, old, rows, y, x) ==
  value * TimingAt(old, rows, y, x).den <= TimingAt(old, rows, y, x).num

(* The first build's ignition and both builds' knock advance: whichever    *)
(* side of the onset and of 2000 rpm the cell is on, it is not above the   *)
(* stock surface.                                                          *)
LEMMA IgnitionLowered ==
  ASSUME NEW rows \in {14, 20}, NEW old \in TimingSurface(rows), NEW label,
         NEW y \in 1..rows, NEW x \in 1..15
  PROVE  /\ Unraised(Timing1(old, rows, label)[y][x], old, rows, y, x)
         /\ Unraised(Kca1(old, rows)[y][x], old, rows, y, x)
         /\ Unraised(Kca2(old, rows)[y][x], old, rows, y, x)
<1> DEFINE r == ResampleTiming(old, rows)[y][x]
           cap == Interpolate(FullBoost1, TimingRpms(rows)[y])
           ign == TimingRaw(cap.num + Offsets1[x] * cap.den, cap.den)
<1>1. /\ r \in Nat /\ r * TimingAt(old, rows, y, x).den <= TimingAt(old, rows, y, x).num
      /\ TimingAt(old, rows, y, x).den \in Nat /\ TimingAt(old, rows, y, x).num \in Nat
  BY TimingResampled
<1>2. TimingRpms(rows)[y] \in Int
  <2>1. TimingRpms(rows) \in Seq(Int) /\ y \in 1..Len(TimingRpms(rows))
    BY TimingAxes DEF Axis
  <2> QED  BY <2>1
<1>3. x >= Onset => ign \in Int
  <2>1. x >= Onset => Offsets1[x] \in Int
    BY DEF Offsets1, Onset
  <2>2. cap.num \in Int /\ cap.den \in Nat \ {0}
    BY <1>2, BoostCurves
  <2> HIDE DEF cap
  <2>3. x >= Onset => cap.num + Offsets1[x] * cap.den \in Int
    BY <2>1, <2>2
  <2> QED  BY <2>2, <2>3, TimingRawMonotone
<1>4. KcaRaw(20) \in Int /\ (x >= Onset => KcaRaw(KcaCaps[x]) \in Int)
  <2>1. 450 \in Nat \ {0} /\ 20 * 128 \in Int
    OBVIOUS
  <2>2. \A t \in Int : KcaRaw(t) \in Int
    BY <2>1, Division, ClampType DEF KcaRaw
  <2>3. x >= Onset => KcaCaps[x] \in Int
    BY DEF KcaCaps, Onset
  <2> QED  BY <2>2, <2>3
<1>5. /\ Timing1(old, rows, label)[y][x] \in {r, Least(r, ign)}
      /\ x < Onset => Timing1(old, rows, label)[y][x] = r
  BY DEF Timing1
<1>6. Kca1(old, rows)[y][x] \in {r, Least(r, KcaRaw(20)), Least(r, 0)}
  BY DEF Kca1
<1>7. Kca2(old, rows)[y][x] = IF x < Onset THEN r ELSE Least(r, KcaRaw(KcaCaps[x]))
  BY DEF Kca2
<1>8. Onset \in Int
  BY DEF Onset
<1> HIDE DEF r, cap, ign
<1>9. \A c \in Int : Least(r, c) * TimingAt(old, rows, y, x).den <= TimingAt(old, rows, y, x).num
  BY <1>1, Lowered
<1>10. Unraised(Timing1(old, rows, label)[y][x], old, rows, y, x)
  BY <1>1, <1>3, <1>5, <1>8, <1>9 DEF Unraised
<1>11. Unraised(Kca1(old, rows)[y][x], old, rows, y, x)
  BY <1>1, <1>4, <1>6, <1>9 DEF Unraised
<1>12. Unraised(Kca2(old, rows)[y][x], old, rows, y, x)
  BY <1>1, <1>4, <1>7, <1>8, <1>9 DEF Unraised
<1> QED  BY <1>10, <1>11, <1>12

(* What a cell of the second build's ignition must be.                     *)
HeldOrSet(tuned, old, rows, label, y, x) ==
  \/ x >= Onset /\ (x > Onset => tuned[y][x] <= tuned[y][x - 1])
  \/ x < Onset /\ TimingRpms(rows)[y] <= 2000 /\ label \in {"A", "D"}
  \/ x < Onset /\ Unraised(tuned[y][x], old, rows, y, x)

(* The second build's ignition: above the stock surface only where it is   *)
(* set, and there without advance as the load grows.                       *)
LEMMA Timing2OneWay ==
  ASSUME NEW rows \in {14, 20}, NEW old \in TimingSurface(rows), NEW label,
         NEW y \in 1..rows, NEW x \in 1..15
  PROVE  HeldOrSet(Timing2(old, rows, label), old, rows, label, y, x)
<1> DEFINE r == ResampleTiming(old, rows)[y][x]
           cap == Interpolate(FullBoost2, TimingRpms(rows)[y])
           bound(c) == Greatest(80 * cap.den, cap.num + Offsets2[c] * cap.den)
           tuned == Timing2(old, rows, label)
<1>1. r * TimingAt(old, rows, y, x).den <= TimingAt(old, rows, y, x).num
  BY TimingResampled
<1>2. TimingRpms(rows)[y] \in Int
  <2>1. TimingRpms(rows) \in Seq(Int) /\ y \in 1..Len(TimingRpms(rows))
    BY TimingAxes DEF Axis
  <2> QED  BY <2>1
<1>3. \A c \in 1..15 : c >= Onset => tuned[y][c] = TimingRaw(bound(c), cap.den)
  BY DEF Timing2
<1>4. x < Onset => tuned[y][x] = r \/ (TimingRpms(rows)[y] <= 2000 /\ label \in {"A", "D"})
  BY DEF Timing2, Onset
<1>5. cap.num \in Int /\ cap.den \in Nat \ {0}
  BY <1>2, BoostCurves
<1>6. Onset = 8
  BY DEF Onset
<1> HIDE DEF r, cap, tuned
<1>7. ASSUME x > Onset PROVE tuned[y][x] <= tuned[y][x - 1]
  <2>1. x \in 9..15 /\ x - 1 \in 8..15 /\ x - 1 \in 1..15 /\ x - 1 >= Onset /\ x >= Onset
    BY <1>6, <1>7
  <2>2. Offsets2[x] \in Int /\ Offsets2[x - 1] \in Int /\ Offsets2[x] <= Offsets2[x - 1]
    BY <1>6, <2>1 DEF Offsets2
  <2>3. Offsets2[x] * cap.den <= Offsets2[x - 1] * cap.den
    BY <1>5, <2>2, TimesBelow
  <2> DEFINE m == Offsets2[x] * cap.den
             n == Offsets2[x - 1] * cap.den
  <2>4. m \in Int /\ n \in Int /\ m <= n
    BY <1>5, <2>2, <2>3
  <2> HIDE DEF m, n
  <2>5. /\ Greatest(80 * cap.den, cap.num + m) \in Int /\ Greatest(80 * cap.den, cap.num + n) \in Int
        /\ Greatest(80 * cap.den, cap.num + m) <= Greatest(80 * cap.den, cap.num + n)
    BY <1>5, <2>4 DEF Greatest
  <2>6. bound(x) \in Int /\ bound(x - 1) \in Int /\ bound(x) <= bound(x - 1)
    BY <2>5 DEF m, n
  <2> HIDE DEF bound
  <2>7. tuned[y][x] = TimingRaw(bound(x), cap.den) /\ tuned[y][x - 1] = TimingRaw(bound(x - 1), cap.den)
    BY <1>3, <2>1
  <2> QED  BY <1>5, <2>6, <2>7, TimingRawMonotone
<1> QED  BY <1>1, <1>4, <1>6, <1>7 DEF Unraised, HeldOrSet, tuned

CamSurface(rpms) == Surface(StockAvcsLoads, rpms, 16)
CamAt(old, rpms, y, x) == StockAt(old, StockAvcsLoads, rpms, AvcsLoads[x], rpms[y])
(* A cell that is not above the stock cam surface, to half a count.        *)
CamHeld(value, old, rpms, y, x) ==
  /\ value \in 0..Width(16)
  /\ 2 * value * CamAt(old, rpms, y, x).den
       <= 2 * CamAt(old, rpms, y, x).num + CamAt(old, rpms, y, x).den

(* The cam advance of both builds, to half a count of the stock surface    *)
(* (build_avcs_map).                                                       *)
LEMMA CamAdvanceHeld ==
  ASSUME NEW rpms \in {LowCamRpms, HighCamRpms}, NEW old \in CamSurface(rpms),
         NEW y \in 1..Len(rpms), NEW x \in 1..14
  PROVE  /\ CamHeld(Avcs1(old, rpms)[y][x], old, rpms, y, x)
         /\ CamHeld(Avcs2(old, rpms)[y][x], old, rpms, y, x)
<1> DEFINE at == CamAt(old, rpms, y, x)
           r == Avcs1(old, rpms)[y][x]
           cap == AvcsRaw(MaxAdvance(rpms[y]) - LoadRetard(AvcsLoads[x]))
<1>1. /\ x \in 1..Len(AvcsLoads) /\ 16 \in {8, 16} /\ old \in Surface(StockAvcsLoads, rpms, 16)
      /\ Axis(StockAvcsLoads) /\ Axis(rpms) /\ AvcsLoads \in Seq(Int) /\ rpms \in Seq(Int)
  BY CamAxes DEF Axis, CamSurface
<1>2. r = Quantize("nearest", 16, at.num, at.den) /\ at.den \in Nat \ {0}
      /\ at.num \in 0..Width(16) * at.den
  <2>2. IsKnot(Resample(old, StockAvcsLoads, rpms, AvcsLoads, rpms, 16, "nearest")[y][x],
                "nearest", 16,
               StockAt(old, StockAvcsLoads, rpms, AvcsLoads[x], rpms[y]))
    BY <1>1, Resampled
  <2> QED  BY <2>2 DEF Avcs1, CamAt, IsKnot
<1>3. cap \in Int
  <2>1. MaxAdvance(rpms[y]) \in Int /\ LoadRetard(AvcsLoads[x]) \in Int
    BY AdvanceType DEF LoadRetard
  <2> DEFINE degrees == MaxAdvance(rpms[y]) - LoadRetard(AvcsLoads[x])
  <2>2. degrees \in Int
    BY <2>1
  <2> HIDE DEF degrees
  <2>3. 2 * (degrees * 8192) + 45 \in Int /\ 2 * 45 \in Nat \ {0}
    BY <2>2
  <2>4. AvcsRaw(degrees) \in Int
    BY <2>3, Division DEF AvcsRaw, Nearest
  <2> QED  BY <2>4 DEF degrees
<1>4. Avcs2(old, rpms)[y][x] = Greatest(0, Least(r, cap))
  BY <1>1, CamAxes DEF Avcs2
<1> HIDE DEF at, r, cap
<1>5. r \in 0..Width(16) /\ 2 * r * at.den - 2 * at.num \in (-at.den)..at.den
  BY <1>2, RoundedNearest
<1>6. r \in Nat /\ r <= Width(16) /\ at.den \in Nat /\ at.num \in Nat /\ Width(16) \in Nat
  BY <1>2, <1>5, Widths
<1>7. r * at.den \in Int /\ 2 * (r * at.den) <= 2 * at.num + at.den
  <2> DEFINE t == r * at.den
  <2>1. t \in Int /\ 2 * r * at.den = 2 * t
    BY <1>6
  <2>2. 2 * t - 2 * at.num <= at.den
    BY <1>5, <1>6, <2>1
  <2> HIDE DEF t
  <2>3. 2 * t <= 2 * at.num + at.den
    BY <1>6, <2>1, <2>2
  <2> QED  BY <2>1, <2>3 DEF t
<1>8. ASSUME NEW v \in Nat, v <= r PROVE v \in 0..Width(16) /\ 2 * v * at.den <= 2 * at.num + at.den
  <2>1. v * at.den <= r * at.den
    BY <1>6, <1>8, TimesBelow
  <2>2. v * at.den \in Int /\ 2 * v * at.den = 2 * (v * at.den)
    BY <1>6
  <2> DEFINE u == v * at.den
             t == r * at.den
  <2>3. u \in Int /\ t \in Int /\ u <= t /\ 2 * t <= 2 * at.num + at.den /\ 2 * v * at.den = 2 * u
    BY <1>7, <2>1, <2>2
  <2> HIDE DEF u, t
  <2>4. 2 * u <= 2 * at.num + at.den
    BY <1>6, <2>3
  <2> QED  BY <1>6, <1>8, <2>3, <2>4
<1>9. Greatest(0, Least(r, cap)) \in Nat /\ Greatest(0, Least(r, cap)) <= r
  BY <1>3, <1>6 DEF Greatest, Least
<1>10. CamHeld(r, old, rpms, y, x)
  BY <1>6, <1>8 DEF CamHeld, at
<1>11. CamHeld(Avcs2(old, rpms)[y][x], old, rpms, y, x)
  BY <1>4, <1>8, <1>9 DEF CamHeld, at
<1> QED  BY <1>10, <1>11 DEF r

(* Every table of a size.                                                  *)
Cells(rows, cols, bits) == [1..rows -> [1..cols -> 0..Width(bits)]]

(* The stock tables a run tries are tables of cells.                       *)
LEMMA SurfaceCells ==
  ASSUME NEW levels, NEW bits, levels \subseteq 0..Width(bits), NEW rows \in Nat, NEW cols \in Nat
  PROVE  Surfaces(levels, rows, cols) \subseteq Cells(rows, cols, bits)
         /\ Flat(levels, rows, cols) \subseteq Cells(rows, cols, bits)
<1>1. \A y \in Nat : y % 2 \in {0, 1}
  OBVIOUS
<1>2. ASSUME NEW p \in [{0, 1} \X {0, 1} -> levels]
      PROVE  [y \in 1..rows |-> [x \in 1..cols |-> p[<<y % 2, x % 2>>]]] \in Cells(rows, cols, bits)
  <2>1. \A y \in 1..rows, x \in 1..cols : p[<<y % 2, x % 2>>] \in 0..Width(bits)
    <3>1. \A y \in 1..rows, x \in 1..cols : y % 2 \in {0, 1} /\ x % 2 \in {0, 1}
      BY <1>1
    <3> QED  BY <3>1, Zenon
  <2> QED  BY <2>1, Zenon DEF Cells
<1>3. Surfaces(levels, rows, cols) \subseteq Cells(rows, cols, bits)
  BY <1>2, Zenon DEF Surfaces
<1>4. Flat(levels, rows, cols) \subseteq Cells(rows, cols, bits)
  BY Zenon DEF Flat, Cells
<1> QED  BY <1>3, <1>4

(* And those of each builder are the surfaces of its axes.                 *)
LEMMA LevelCells ==
  /\ Surfaces(Levels8, 10, 14) \subseteq FuelSurface
  /\ Flat(Levels8, 10, 14) \subseteq FuelSurface
  /\ Surfaces(Levels16, 13, 9) \subseteq Surface(StockClLoads, ClFuelRpms, 16)
  /\ \A rows \in {14, 20} : Surfaces(Levels8, rows, 15) \subseteq TimingSurface(rows)
  /\ \A rpms \in {LowCamRpms, HighCamRpms} : Surfaces(Levels16, Len(rpms), 14) \subseteq CamSurface(rpms)
  /\ \A cols \in {15, 19} : Flat(Levels16, 20, cols) \subseteq Cells(20, cols, 16)
  /\ Flat(Levels16, 1, 16) \subseteq Cells(1, 16, 16)
<1>0. Levels8 \subseteq 0..Width(8) /\ Levels16 \subseteq 0..Width(16)
  BY CalAssumption
<1>1. Surfaces(Levels8, 10, 14) \subseteq FuelSurface /\ Flat(Levels8, 10, 14) \subseteq FuelSurface
  <2>1. FuelSurface = Cells(10, 14, 8)
    BY FuelAxes DEF FuelSurface, Surface, Cells
  <2>2. 10 \in Nat /\ 14 \in Nat
    OBVIOUS
  <2> QED  BY <1>0, <2>1, <2>2, SurfaceCells
<1>2. Surfaces(Levels16, 13, 9) \subseteq Surface(StockClLoads, ClFuelRpms, 16)
  <2>1. Surface(StockClLoads, ClFuelRpms, 16) = Cells(13, 9, 16)
    BY ClAxes DEF Surface, Cells
  <2>2. 13 \in Nat /\ 9 \in Nat
    OBVIOUS
  <2> QED  BY <1>0, <2>1, <2>2, SurfaceCells
<1>3. ASSUME NEW rows \in {14, 20} PROVE Surfaces(Levels8, rows, 15) \subseteq TimingSurface(rows)
  <2>1. TimingSurface(rows) = Cells(rows, 15, 8)
    BY TimingAxes DEF TimingSurface, Surface, Cells
  <2>2. rows \in Nat /\ 15 \in Nat
    OBVIOUS
  <2> QED  BY <1>0, <2>1, <2>2, SurfaceCells, Zenon
<1>4. ASSUME NEW rpms \in {LowCamRpms, HighCamRpms}
      PROVE  Surfaces(Levels16, Len(rpms), 14) \subseteq CamSurface(rpms)
  <2>1. CamSurface(rpms) = Cells(Len(rpms), 14, 16)
    BY CamAxes DEF CamSurface, Surface, Cells
  <2>2. Len(rpms) \in Nat /\ 14 \in Nat
    BY CamAxes DEF Axis
  <2> QED  BY <1>0, <2>1, <2>2, SurfaceCells
<1>5. /\ \A cols \in {15, 19} : Flat(Levels16, 20, cols) \subseteq Cells(20, cols, 16)
      /\ Flat(Levels16, 1, 16) \subseteq Cells(1, 16, 16)
  <2>1. 20 \in Nat /\ 15 \in Nat /\ 19 \in Nat /\ 1 \in Nat /\ 16 \in Nat
    OBVIOUS
  <2> QED  BY <1>0, <2>1, SurfaceCells
<1> QED  BY <1>1, <1>2, <1>3, <1>4, <1>5

(* No cell lowered.                                                        *)
Raised(old, tuned) ==
  \A y \in DOMAIN old : \A x \in DOMAIN old[y] : tuned[y][x] \in old[y][x]..Width(16)

(* A cell raised to a floor within the width.                              *)
LEMMA GreaterOf ==
  ASSUME NEW v \in 0..Width(16), NEW f \in Int, f <= Width(16)
  PROVE  Greatest(v, f) \in v..Width(16) /\ v \in v..Width(16)
BY Widths DEF Greatest

(* The tables with a floor are raised or left (build_target_throttle_map   *)
(* and the three after it).                                                *)
LEMMA FloorsRaise ==
  /\ \A old \in Cells(20, 15, 16) : Raised(old, Throttle2(old))
  /\ \A old \in Cells(20, 19, 16) : Raised(old, RequestedTorque2(old))
  /\ \A old \in Cells(1, 16, 16) : Raised(old, <<IdleSpeed2(old[1])>>)
  /\ \A old \in StockBaseAir : Raised(<<old>>, <<BaseAir2(old)>>)
<1>1. ASSUME NEW old \in Cells(20, 15, 16) PROVE Raised(old, Throttle2(old))
  <2> SUFFICES ASSUME NEW y \in 1..20, NEW x \in 1..15
               PROVE  Throttle2(old)[y][x] \in old[y][x]..Width(16)
    BY Zenon DEF Raised, Cells
  <2> DEFINE openings == <<35, 60, 90, 120, 150, 180, 210>>
             floor == Nearest(openings[x - 1] * 65536, 1250)
  <2>1. old[y][x] \in 0..Width(16)
    BY DEF Cells
  <2>2. Throttle2(old)[y][x] = IF x - 1 \in 1..7 THEN Greatest(old[y][x], floor) ELSE old[y][x]
    BY DEF Throttle2
  <2>3. x - 1 \in 1..7 => floor \in Int /\ floor <= Width(16)
    <3> SUFFICES ASSUME x - 1 \in 1..7 PROVE floor \in Int /\ floor <= Width(16)
      OBVIOUS
    <3>1. openings[x - 1] \in 35..210
      OBVIOUS
    <3> DEFINE n == 2 * (openings[x - 1] * 65536) + 1250
    <3>2. n \in Int /\ n <= 420 * 65536 + 1250 /\ floor = n \div (2 * 1250)
      BY <3>1 DEF Nearest
    <3> HIDE DEF n, floor
    <3>3. 2 * 1250 \in Nat \ {0}
      OBVIOUS
    <3>4. floor \in Int /\ 2500 * floor <= n
      BY <3>2, <3>3, Division
    <3> QED  BY <3>2, <3>4, Widths
  <2> HIDE DEF floor
  <2> QED  BY <2>1, <2>2, <2>3, GreaterOf
<1>2. ASSUME NEW old \in Cells(20, 19, 16) PROVE Raised(old, RequestedTorque2(old))
  <2> SUFFICES ASSUME NEW y \in 1..20, NEW x \in 1..19
               PROVE  RequestedTorque2(old)[y][x] \in old[y][x]..Width(16)
    BY Zenon DEF Raised, Cells
  <2> DEFINE floor == TorqueFloors[y][x - 1] * 128
  <2>1. old[y][x] \in 0..Width(16)
    BY DEF Cells
  <2>2. RequestedTorque2(old)[y][x]
          = IF y <= 8 /\ x - 1 \in 1..3 THEN Greatest(old[y][x], floor) ELSE old[y][x]
    BY DEF RequestedTorque2
  <2>3. y <= 8 /\ x - 1 \in 1..3 => floor \in Int /\ floor <= Width(16)
    BY Widths DEF TorqueFloors
  <2> HIDE DEF floor
  <2> QED  BY <2>1, <2>2, <2>3, GreaterOf
<1>3. ASSUME NEW old \in Cells(1, 16, 16) PROVE Raised(old, <<IdleSpeed2(old[1])>>)
  <2> SUFFICES ASSUME NEW x \in 1..16 PROVE IdleSpeed2(old[1])[x] \in old[1][x]..Width(16)
    BY DEF Raised, Cells
  <2>1. old[1][x] \in 0..Width(16)
    BY DEF Cells
  <2>2. IdleSpeed2(old[1])[x] = Greatest(old[1][x], 4352)
    BY DEF IdleSpeed2
  <2> DEFINE floor == 4352
  <2>3. floor \in Int /\ floor <= Width(16)
    BY Widths
  <2> HIDE DEF floor
  <2>4. Greatest(old[1][x], floor) \in old[1][x]..Width(16)
    BY <2>1, <2>3, GreaterOf
  <2> QED  BY <2>2, <2>4 DEF floor
<1>4. ASSUME NEW old \in StockBaseAir PROVE Raised(<<old>>, <<BaseAir2(old)>>)
  <2>1. /\ DOMAIN old = 1..16
        /\ \A i \in 1..16 : old[i] \in Nat /\ old[i] <= 11796 /\ (i >= 10 => old[i] <= 3932)
    BY DEF StockBaseAir
  <2> SUFFICES ASSUME NEW i \in 1..16 PROVE BaseAir2(old)[i] \in old[i]..Width(16)
    BY <2>1 DEF Raised
  <2> DEFINE floor == Nearest((IF i = 10 THEN 72 ELSE 68) * 16384, 250)
  <2>2. BaseAir2(old)[i] = IF i < 10 THEN old[i]
                           ELSE IF old[i] * 25 <= floor * 16384 THEN floor ELSE (old[i] * 25) \div 16384
    BY DEF BaseAir2
  <2>3. floor \in Int /\ 4456 <= floor /\ floor <= 4719
    BY DEF Nearest
  <2> HIDE DEF floor
  <2>4. CASE i < 10
    BY <2>1, <2>2, <2>4, Widths
  <2>5. CASE i >= 10
    <3>1. old[i] * 25 <= floor * 16384
      BY <2>1, <2>3, <2>5
    <3>2. BaseAir2(old)[i] = floor
      BY <2>2, <2>5, <3>1
    <3> QED  BY <2>1, <2>3, <2>5, <3>2, Widths
  <2> QED  BY <2>4, <2>5
<1> QED  BY <1>1, <1>2, <1>3, <1>4

(* One builder's work.                                                     *)
FuelBuilt == \E caps \in {LambdaCaps1, LambdaCaps2}, a, b \in FuelSurface :
  built = [map |-> "fuel", caps |-> caps, stock |-> <<a, b>>, tuned |-> OpenLoop(caps, a, b)]
ClFuelBuilt == \E old \in Surface(StockClLoads, ClFuelRpms, 16) :
  built = [map |-> "clFuel", stock |-> old, tuned |-> ClFuelCompensation(old, ClFuelRpms)]
TimingBuilt == \E rows \in {14, 20}, label \in {"A", "B"} : \E old \in TimingSurface(rows) :
  \/ built = [map |-> "timing1", rows |-> rows, stock |-> old, tuned |-> Timing1(old, rows, label)]
  \/ built = [map |-> "timing2", rows |-> rows, label |-> label, stock |-> old,
              tuned |-> Timing2(old, rows, label)]
KcaBuilt == \E rows \in {14, 20} : \E old \in TimingSurface(rows) :
  \/ built = [map |-> "kca", rows |-> rows, stock |-> old, tuned |-> Kca1(old, rows)]
  \/ built = [map |-> "kca", rows |-> rows, stock |-> old, tuned |-> Kca2(old, rows)]
AvcsBuilt == \E rpms \in {LowCamRpms, HighCamRpms} : \E old \in CamSurface(rpms) :
  \/ built = [map |-> "avcs", rpms |-> rpms, stock |-> old, tuned |-> Avcs1(old, rpms)]
  \/ built = [map |-> "avcs", rpms |-> rpms, stock |-> old, tuned |-> Avcs2(old, rpms)]
FloorBuilt == \E old, new : Raised(old, new) /\ built = [map |-> "floor", stock |-> old, tuned |-> new]
PulsesBuilt == \E old, r :
  /\ old \in [1..2 -> Nat] /\ r[1] \in Nat /\ r[2] \in Nat \ {0}
  /\ built = [map |-> "pulse", ratio |-> r, stock |-> old, tuned |-> Scaled(old, r[1], r[2])]

(* What the map built is: nothing yet, or a builder's work on some stock   *)
(* table.                                                                  *)
CalInv == \/ built = NoMap
          \/ FuelBuilt \/ ClFuelBuilt \/ TimingBuilt \/ KcaBuilt \/ AvcsBuilt \/ FloorBuilt \/ PulsesBuilt

(* Every builder leaves a map of its own kind.                             *)
LEMMA CalStep == [CalNext]_built /\ CalInv => CalInv'
<1> SUFFICES ASSUME CalInv, [CalNext]_built PROVE CalInv'
  OBVIOUS
<1>1. CASE BuildFuel
  BY <1>1, LevelCells DEF BuildFuel, PrimaryOpenLoop1, PrimaryOpenLoop2, CalInv, FuelBuilt
<1>2. CASE BuildClFuel
  BY <1>2, LevelCells DEF BuildClFuel, CalInv, ClFuelBuilt
<1>3. CASE BuildTiming
  BY <1>3, LevelCells DEF BuildTiming, CalInv, TimingBuilt
<1>4. CASE BuildKca
  BY <1>4, LevelCells DEF BuildKca, CalInv, KcaBuilt
<1>5. CASE BuildAvcs
  BY <1>5, LevelCells DEF BuildAvcs, CalInv, AvcsBuilt
<1>6. CASE BuildFloors
  BY <1>6, LevelCells, FloorsRaise DEF BuildFloors, CalInv, FloorBuilt
<1>7. CASE BuildPulses
  <2>1. PICK old \in [1..2 -> Levels16], r \in Ratios :
          built' = [map |-> "pulse", ratio |-> r, stock |-> old, tuned |-> Scaled(old, r[1], r[2])]
    BY <1>7 DEF BuildPulses
  <2>2. /\ old \in [1..2 -> Nat] /\ r[1] \in Nat /\ r[2] \in Nat \ {0}
    <3>1. Levels16 \subseteq Nat
      BY CalAssumption, Widths
    <3>2. \A q \in Ratios : q[1] \in Nat /\ q[2] \in Nat \ {0}
      BY CalAssumption
    <3> QED  BY <3>1, <3>2, Zenon
  <2> QED  BY <2>1, <2>2 DEF CalInv, PulsesBuilt
<1>8. CASE UNCHANGED built
  BY <1>8 DEF CalInv, FuelBuilt, ClFuelBuilt, TimingBuilt, KcaBuilt, AvcsBuilt, FloorBuilt, PulsesBuilt
<1> QED  BY <1>1, <1>2, <1>3, <1>4, <1>5, <1>6, <1>7, <1>8 DEF CalNext

(* The map built is what its builder makes of a stock table.               *)
THEOREM CalInvariance == CalSpec => []CalInv
<1>1. CalInit => CalInv
  BY DEF CalInit, CalInv
<1> QED  BY <1>1, CalStep, PTL DEF CalSpec

(* No tuned cell is leaner than the stock surface, kind by kind.           *)
LEMMA InvNeverLeaner == CalInv => FuelNeverLeaner
<1> SUFFICES ASSUME CalInv PROVE FuelNeverLeaner
  OBVIOUS
<1>1. CASE built.map = "fuel"
  <2>1. FuelBuilt
    BY <1>1 DEF CalInv, NoMap, ClFuelBuilt, TimingBuilt, KcaBuilt, AvcsBuilt, FloorBuilt, PulsesBuilt
  <2>2. PICK caps \in {LambdaCaps1, LambdaCaps2}, a \in FuelSurface, b \in FuelSurface :
          built = [map |-> "fuel", caps |-> caps, stock |-> <<a, b>>, tuned |-> OpenLoop(caps, a, b)]
    BY <2>1 DEF FuelBuilt
  <2>3. built.caps = caps /\ built.stock[1] = a /\ built.stock[2] = b
        /\ built.tuned = OpenLoop(caps, a, b)
    BY <2>2
  <2>4. \A y \in 1..Len(FuelRpms), x \in 1..Len(FuelLoads) : RichEnough(built.tuned, caps, a, b, y, x)
    BY <2>3, FuelAxes, FuelAnySurface, Zenon
  <2> QED  BY <1>1, <2>3, <2>4 DEF FuelNeverLeaner, FuelRich, FuelAt, RichEnough
<1>2. CASE built.map = "clFuel"
  <2>1. ClFuelBuilt
    BY <1>2 DEF CalInv, NoMap, FuelBuilt, TimingBuilt, KcaBuilt, AvcsBuilt, FloorBuilt, PulsesBuilt
  <2>2. PICK old \in Surface(StockClLoads, ClFuelRpms, 16) :
          built = [map |-> "clFuel", stock |-> old, tuned |-> ClFuelCompensation(old, ClFuelRpms)]
    BY <2>1 DEF ClFuelBuilt
  <2>3. built.stock = old /\ built.tuned = ClFuelCompensation(old, ClFuelRpms)
    BY <2>2
  <2> QED  BY <1>2, <2>3, ClFuelAnySurface, Zenon DEF FuelNeverLeaner, ClFuelKept
<1>3. CASE built.map = "pulse"
  <2>1. PulsesBuilt
    BY <1>3 DEF CalInv, NoMap, FuelBuilt, ClFuelBuilt, TimingBuilt, KcaBuilt, AvcsBuilt, FloorBuilt
  <2>2. PICK old, r :
          /\ old \in [1..2 -> Nat] /\ r[1] \in Nat /\ r[2] \in Nat \ {0}
          /\ built = [map |-> "pulse", ratio |-> r, stock |-> old, tuned |-> Scaled(old, r[1], r[2])]
    BY <2>1 DEF PulsesBuilt
  <2>3. /\ built.stock = old /\ DOMAIN built.stock = 1..2
        /\ built.ratio = r /\ built.tuned = Scaled(old, r[1], r[2])
    BY <2>2
  <2>4. \A i \in 1..2 : /\ Scaled(old, r[1], r[2])[i] * r[2] >= old[i] * r[1]
                        /\ (Scaled(old, r[1], r[2])[i] - 1) * r[2] < old[i] * r[1]
    <3>1. r[2] \in Nat /\ 0 < r[2]
      BY <2>2
    <3> QED  BY <2>2, <3>1, PulseLength
  <2>5. \A i \in DOMAIN built.stock :
          /\ built.tuned[i] * built.ratio[2] >= built.stock[i] * built.ratio[1]
          /\ (built.tuned[i] - 1) * built.ratio[2] < built.stock[i] * built.ratio[1]
    BY <2>3, <2>4, Zenon
  <2>6. built.map # "clFuel" /\ built.map # "fuel"
    BY <1>3
  <2> QED  BY <2>5, <2>6 DEF FuelNeverLeaner, PulsesReach
<1> QED  BY <1>1, <1>2, <1>3 DEF FuelNeverLeaner

(* And the maps that move one way, kind by kind.                           *)
LEMMA InvOneWay == CalInv => MovesOneWay
<1> SUFFICES ASSUME CalInv PROVE MovesOneWay
  OBVIOUS
<1>1. CASE built.map = "floor"
  <2>1. FloorBuilt
    BY <1>1 DEF CalInv, NoMap, FuelBuilt, ClFuelBuilt, TimingBuilt, KcaBuilt, AvcsBuilt, PulsesBuilt
  <2>2. Raised(built.stock, built.tuned)
    BY <2>1 DEF FloorBuilt
  <2> QED  BY <1>1, <2>2 DEF MovesOneWay, Raised
<1>2. CASE built.map \in {"timing1", "kca"}
  <2>1. TimingBuilt \/ KcaBuilt
    BY <1>2 DEF CalInv, NoMap, FuelBuilt, ClFuelBuilt, AvcsBuilt, FloorBuilt, PulsesBuilt
  <2>2. PICK rows, old, label :
          /\ rows \in {14, 20} /\ old \in TimingSurface(rows)
          /\ built.rows = rows /\ built.stock = old
          /\ built.tuned \in {Timing1(old, rows, label), Kca1(old, rows), Kca2(old, rows)}
    BY <1>2, <2>1 DEF TimingBuilt, KcaBuilt
  <2>3. ASSUME NEW y \in 1..rows, NEW x \in 1..15 PROVE NotRaised(y, x)
    <3>1. Unraised(built.tuned[y][x], old, rows, y, x)
      BY <2>2, IgnitionLowered
    <3> QED  BY <2>2, <3>1 DEF NotRaised, Unraised, TimingStockAt, TimingAt
  <2> QED  BY <1>2, <2>2, <2>3 DEF MovesOneWay
<1>3. CASE built.map = "timing2"
  <2>1. TimingBuilt
    BY <1>3 DEF CalInv, NoMap, FuelBuilt, ClFuelBuilt, KcaBuilt, AvcsBuilt, FloorBuilt, PulsesBuilt
  <2>2. PICK rows, old, label :
          /\ rows \in {14, 20} /\ old \in TimingSurface(rows)
          /\ built.rows = rows /\ built.stock = old /\ built.label = label
          /\ built.tuned = Timing2(old, rows, label)
    BY <1>3, <2>1 DEF TimingBuilt
  <2>3. ASSUME NEW y \in 1..rows, NEW x \in 1..15
        PROVE  \/ x >= Onset /\ (x > Onset => built.tuned[y][x] <= built.tuned[y][x - 1])
               \/ x < Onset /\ TimingRpms(built.rows)[y] <= 2000 /\ built.label \in {"A", "D"}
               \/ x < Onset /\ NotRaised(y, x)
    <3>1. Unraised(built.tuned[y][x], old, rows, y, x) => NotRaised(y, x)
      BY <2>2 DEF NotRaised, Unraised, TimingStockAt, TimingAt
    <3>2. HeldOrSet(built.tuned, old, rows, label, y, x)
      BY <2>2, Timing2OneWay
    <3> QED  BY <2>2, <3>1, <3>2 DEF HeldOrSet
  <2> QED  BY <1>3, <2>2, <2>3 DEF MovesOneWay
<1>4. CASE built.map = "avcs"
  <2>1. AvcsBuilt
    BY <1>4 DEF CalInv, NoMap, FuelBuilt, ClFuelBuilt, TimingBuilt, KcaBuilt, FloorBuilt, PulsesBuilt
  <2>2. PICK rpms, old :
          /\ rpms \in {LowCamRpms, HighCamRpms} /\ old \in CamSurface(rpms)
          /\ built.rpms = rpms /\ built.stock = old
          /\ built.tuned \in {Avcs1(old, rpms), Avcs2(old, rpms)}
    BY <1>4, <2>1 DEF AvcsBuilt
  <2>3. \A y \in 1..Len(rpms), x \in 1..14 : CamHeld(built.tuned[y][x], old, rpms, y, x)
    BY <2>2, CamAdvanceHeld
  <2> QED  BY <1>4, <2>2, <2>3 DEF MovesOneWay, CamHeld, CamAt
<1> QED  BY <1>1, <1>2, <1>3, <1>4 DEF MovesOneWay

(* For every choice of levels and ratios the builders leave no fuel cell   *)
(* leaner.                                                                 *)
THEOREM NeverLeaner == CalSpec => []FuelNeverLeaner
BY CalInvariance, InvNeverLeaner, PTL
(* And every tuned map moves one way.                                      *)
THEOREM OneWay == CalSpec => []MovesOneWay
BY CalInvariance, InvOneWay, PTL

(* The same holds while the other tools are at work.                       *)
LEMMA MapsAmongTools == Spec => CalSpec
<1>1. Init => CalInit
  BY DEF Init
<1>2. [Next]_<<tool, built, asmVars, defVars, loggerVars, readerVars>> => [CalNext]_built
  BY DEF Next
<1> QED  BY <1>1, <1>2, PTL DEF Spec, CalSpec

(* No tuned fuel cell is leaner than the stock surface, a bounded cell is  *)
(* no leaner than its bound, and a scaled pulse is not short, for every    *)
(* raw value a stock cell may have and every injector ratio below one      *)
(* (build_primary_open_loop, build_cl_fuel_compensation, scale_u16_table). *)
THEOREM FuelStaysRich == Spec => []FuelNeverLeaner
  BY MapsAmongTools, NeverLeaner, PTL

(* Ignition, knock and cam advance never exceed the stock surface but in   *)
(* the cells the second build sets or lifts, which keep their order, and   *)
(* no floor lowers a cell (build_timing_map, build_kca_map,                *)
(* build_avcs_map, build_base_air and the other floors).                   *)
THEOREM MapsMoveOneWay == Spec => []MovesOneWay
  BY MapsAmongTools, OneWay, PTL
-----------------------------------------------------------------------------
(* The assembler. *)

(* An item of a routine.                                                   *)
Item == [kind : {"plain"}, count : Runs] \cup [kind : {"label"}, name : LabelSet]
          \cup [kind : {"pool"}, value : Literals] \cup [kind : Branches, name : LabelSet]

(* Nothing is assembled yet, or the listing is that of the items.          *)
AsmInv == /\ base \in Bases /\ items \in Seq(Item)
          /\ listing = NoListing \/ listing = Listing(base, items)

(* A set of places has a first and a last.                                 *)
LEMMA MinOf ==
  ASSUME NEW N, N \subseteq Nat, N # {}
  PROVE  Min(N) \in N /\ \A k \in N : Min(N) <= k
BY LeastMember DEF Min

LEMMA MaxOf ==
  ASSUME NEW n \in Nat, NEW N, N \subseteq 0..n, N # {}
  PROVE  Max(N) \in N
<1> DEFINE M == {n - k : k \in N}
<1>0. \A k \in N : k \in Int /\ 0 <= k /\ k <= n
  OBVIOUS
<1>1. M \subseteq Nat /\ M # {}
  <2>1. \A k \in N : n - k \in Nat
    BY <1>0
  <2> QED  BY <2>1
<1>2. PICK j \in M : \A k \in M : j <= k
  BY <1>1, LeastMember, Zenon
<1>3. PICK m \in N : j = n - m
  BY <1>2
<1>4. \A k \in N : n - k \in M
  OBVIOUS
<1> HIDE DEF M
<1>5. \A k \in N : m >= k
  BY <1>2, <1>3, <1>4
<1> QED  BY <1>3, <1>5 DEF Max

(* A sum that is defined from one place to the next is a function of the   *)
(* places.                                                                 *)
SumFrom(g, start, b, n) == g = [i \in 1..n |-> IF i = 1 THEN start ELSE g[i - 1] + b[i - 1]]
(* It exists for every number of places: the least without one would       *)
(* follow one with.                                                        *)
LEMMA SumExists ==
  ASSUME NEW start, NEW b, NEW n \in Nat \ {0}
  PROVE  \E g : SumFrom(g, start, b, n)
<1> DEFINE bad == {m \in Nat \ {0} : ~\E g : SumFrom(g, start, b, m)}
<1>1. SUFFICES bad = {}
  OBVIOUS
<1>2. SUFFICES ASSUME bad # {} PROVE FALSE
  OBVIOUS
<1>3. PICK m \in bad : \A k \in bad : m <= k
  <2>1. bad \subseteq Nat
    OBVIOUS
  <2> HIDE DEF bad
  <2> QED  BY <1>2, <2>1, LeastMember
<1>4. CASE m = 1
  <2>1. SumFrom([i \in 1..1 |-> start], start, b, 1)
    BY DEF SumFrom
  <2> QED  BY <1>3, <1>4, <2>1
<1>5. CASE m # 1
  <2>1. m \in Nat /\ m - 1 \in Nat \ {0} /\ m - 1 \notin bad
    BY <1>3, <1>5
  <2>2. PICK g : SumFrom(g, start, b, m - 1)
    BY <2>1
  <2> DEFINE h == [i \in 1..m |-> IF i = m THEN g[m - 1] + b[m - 1] ELSE g[i]]
  <2>3. \A i \in 1..m : h[i] = IF i = 1 THEN start ELSE h[i - 1] + b[i - 1]
    <3> SUFFICES ASSUME NEW i \in 1..m PROVE h[i] = IF i = 1 THEN start ELSE h[i - 1] + b[i - 1]
      OBVIOUS
    <3>1. CASE i = m
      BY <1>5, <2>1, <3>1
    <3>2. CASE i # m
      <4>1. i \in 1..(m - 1) /\ h[i] = g[i] /\ (i # 1 => h[i - 1] = g[i - 1])
        BY <2>1, <3>2
      <4> QED  BY <2>2, <4>1 DEF SumFrom
    <3> QED  BY <3>1, <3>2
  <2>4. SumFrom(h, start, b, m)
    BY <2>3 DEF SumFrom
  <2> QED  BY <1>3, <2>4
<1> QED  BY <1>4, <1>5

(* An item takes an even number of bytes.                                  *)
LEMMA BytesOf ==
  ASSUME NEW item \in Item
  PROVE  Bytes(item) \in Nat /\ Bytes(item) % 2 = 0
<1>1. /\ item.kind = "label" => Bytes(item) = 0
      /\ item.kind = "plain" => Bytes(item) = 2 * item.count
      /\ item.kind # "label" /\ item.kind # "plain" => Bytes(item) = 2
  BY Zenon DEF Bytes
<1>2. item.kind = "plain" => item.count \in Nat
  BY AsmAssumption DEF Item, Branches
<1> QED  BY <1>1, <1>2

(* Pass 1 gives every item, and the end of the code, an even address.      *)
LEMMA Places ==
  ASSUME NEW start \in Nat, start % 2 = 0, NEW list \in Seq(Item)
  PROVE  \A i \in 1..(Len(list) + 1) : Place(start, list)[i] \in Nat /\ Place(start, list)[i] % 2 = 0
<1> DEFINE at == Place(start, list)
           n == Len(list) + 1
           b == [i \in 1..Len(list) |-> Bytes(list[i])]
           rec(g) == g = [i \in 1..n |-> IF i = 1 THEN start ELSE g[i - 1] + Bytes(list[i - 1])]
<1>0. Len(list) \in Nat /\ n \in Nat \ {0}
  OBVIOUS
<1>1. PICK g : SumFrom(g, start, b, n)
  BY <1>0, SumExists
<1>2. rec(g)
  <2>1. \A i \in 1..n : i # 1 => b[i - 1] = Bytes(list[i - 1])
    BY <1>0
  <2> HIDE DEF b, n
  <2> QED  BY <1>1, <2>1 DEF SumFrom
<1>3. rec(at)
  <2>1. at = CHOOSE f : rec(f)
    BY DEF Place
  <2> HIDE DEF at, rec
  <2> QED  BY <1>2, <2>1
<1>4. \A i \in 1..n : at[i] = IF i = 1 THEN start ELSE at[i - 1] + Bytes(list[i - 1])
  <2> HIDE DEF at, n
  <2> QED  BY <1>3
<1> DEFINE bad == {i \in 1..n : ~(at[i] \in Nat /\ at[i] % 2 = 0)}
<1> HIDE DEF at
<1>5. SUFFICES ASSUME bad # {} PROVE FALSE
  BY DEF at
<1>6. PICK m \in bad : \A k \in bad : m <= k
  <2>1. bad \subseteq Nat
    BY <1>0
  <2> HIDE DEF bad
  <2> QED  BY <1>5, <2>1, LeastMember
<1>7. CASE m = 1
  BY <1>4, <1>6, <1>7
<1>8. CASE m # 1
  <2>1. m \in 1..n /\ m - 1 \in 1..n /\ m - 1 \in 1..Len(list) /\ m - 1 \notin bad
    BY <1>0, <1>6, <1>8
  <2>2. at[m - 1] \in Nat /\ at[m - 1] % 2 = 0
    BY <2>1
  <2>3. list[m - 1] \in Item
    BY <2>1
  <2>4. Bytes(list[m - 1]) \in Nat /\ Bytes(list[m - 1]) % 2 = 0
    BY <2>3, BytesOf
  <2>5. at[m] = at[m - 1] + Bytes(list[m - 1])
    BY <1>4, <1>8, <2>1
  <2>6. \A u, v \in Nat : u % 2 = 0 /\ v % 2 = 0 => u + v \in Nat /\ (u + v) % 2 = 0
    OBVIOUS
  <2>7. at[m] \in Nat /\ at[m] % 2 = 0
    BY <2>2, <2>4, <2>5, <2>6
  <2> QED  BY <1>6, <2>7
<1> QED  BY <1>7, <1>8

(* The pool starts on a multiple of four, at the end of the code or after  *)
(* it.                                                                     *)
LEMMA PoolStarts ==
  ASSUME NEW c \in Nat
  PROVE  PoolStart(c) \in Nat /\ PoolStart(c) % 4 = 0 /\ PoolStart(c) >= c
BY DEF PoolStart

(* The loads of a literal, and the first uses before a place.              *)
Uses(list, value) == {i \in 1..Len(list) : list[i].kind = "pool" /\ list[i].value = value}
Earlier(list, n) == {j \in FirstUses(list) : j < n}

(* The first load of a literal is a first use.                             *)
LEMMA FirstOf ==
  ASSUME NEW list \in Seq(Item), NEW i \in 1..Len(list), list[i].kind = "pool"
  PROVE  LET first == Min(Uses(list, list[i].value))
         IN first \in FirstUses(list) /\ first \in Nat /\ list[first].value = list[i].value
<1> DEFINE uses == Uses(list, list[i].value)
           first == Min(uses)
<1>1. uses \subseteq Nat /\ uses # {}
  BY DEF Uses
<1> HIDE DEF uses
<1>2. first \in uses /\ \A k \in uses : first <= k
  BY <1>1, MinOf
<1> HIDE DEF first
<1>3. /\ first \in 1..Len(list) /\ list[first].kind = "pool" /\ list[first].value = list[i].value
      /\ \A k \in 1..(first - 1) : k \notin uses
  BY <1>2 DEF uses, Uses
<1>4. \A k \in 1..(first - 1) : list[k] # list[first]
  BY <1>3 DEF uses, Uses
<1> QED  BY <1>3, <1>4 DEF FirstUses, first, uses

(* Two first uses have different numbers of first uses before them.        *)
LEMMA EarlierCount ==
  ASSUME NEW list \in Seq(Item), NEW m \in Nat
  PROVE  /\ Cardinality(Earlier(list, m)) \in Nat
         /\ m \in FirstUses(list) => \A n \in Nat :
              m < n => Cardinality(Earlier(list, m)) # Cardinality(Earlier(list, n))
<1>1. Len(list) \in Nat
  OBVIOUS
<1>2. IsFiniteSet(1..Len(list))
  BY <1>1, FS_Interval
<1>3. \A n : Earlier(list, n) \subseteq 1..Len(list)
  BY DEF Earlier, FirstUses
<1>4. \A n : IsFiniteSet(Earlier(list, n))
  BY <1>2, <1>3, FS_Subset
<1>5. Cardinality(Earlier(list, m)) \in Nat
  BY <1>4, FS_CardinalityType
<1>6. ASSUME m \in FirstUses(list), NEW n \in Nat, m < n,
             Cardinality(Earlier(list, m)) = Cardinality(Earlier(list, n))
      PROVE  FALSE
  <2>1. Earlier(list, m) \subseteq Earlier(list, n)
    <3>1. FirstUses(list) \subseteq Nat
      BY DEF FirstUses
    <3> QED  BY <1>6, <3>1 DEF Earlier
  <2>2. Earlier(list, n) = Earlier(list, m)
    BY <1>4, <1>6, <2>1, FS_Subset
  <2>3. m \in Earlier(list, n) /\ m \notin Earlier(list, m)
    BY <1>6 DEF Earlier
  <2> QED  BY <2>2, <2>3
<1> QED  BY <1>5, <1>6

(* A slot is aligned and after the code, and two literals have two slots.  *)
LEMMA Slots ==
  ASSUME NEW list \in Seq(Item), NEW c \in Nat, NEW i \in 1..Len(list), list[i].kind = "pool"
  PROVE  /\ Slot(list, c, list[i].value) \in Nat
         /\ Slot(list, c, list[i].value) % 4 = 0 /\ Slot(list, c, list[i].value) >= c
         /\ \A j \in 1..Len(list) : list[j].kind = "pool" /\ list[j].value # list[i].value =>
              Slot(list, c, list[j].value) # Slot(list, c, list[i].value)
<1> DEFINE first(k) == Min(Uses(list, list[k].value))
           count(k) == Cardinality(Earlier(list, first(k)))
<1>1. \A k \in 1..Len(list) : Slot(list, c, list[k].value) = PoolStart(c) + 4 * count(k)
  BY DEF Slot, Uses, Earlier
<1>2. \A k \in 1..Len(list) : list[k].kind = "pool" =>
        first(k) \in FirstUses(list) /\ first(k) \in Nat /\ list[first(k)].value = list[k].value
  BY FirstOf
<1> HIDE DEF first
<1>3. \A k \in 1..Len(list) : list[k].kind = "pool" => count(k) \in Nat
  BY <1>2, EarlierCount
<1>4. ASSUME NEW j \in 1..Len(list), list[j].kind = "pool", list[j].value # list[i].value
      PROVE  count(j) # count(i)
  <2>1. first(i) # first(j)
    BY <1>2, <1>4
  <2>2. first(i) < first(j) \/ first(j) < first(i)
    BY <1>2, <1>4, <2>1
  <2> QED  BY <1>2, <1>4, <2>2, EarlierCount
<1> HIDE DEF count
<1>5. PoolStart(c) \in Nat /\ PoolStart(c) % 4 = 0 /\ PoolStart(c) >= c
  BY PoolStarts
<1>6. \A p, k \in Nat : p % 4 = 0 /\ p >= c =>
        p + 4 * k \in Nat /\ (p + 4 * k) % 4 = 0 /\ p + 4 * k >= c
  OBVIOUS
<1>7. /\ Slot(list, c, list[i].value) \in Nat
      /\ Slot(list, c, list[i].value) % 4 = 0 /\ Slot(list, c, list[i].value) >= c
  BY <1>1, <1>3, <1>5, <1>6
<1>8. ASSUME NEW j \in 1..Len(list), list[j].kind = "pool", list[j].value # list[i].value
      PROVE  Slot(list, c, list[j].value) # Slot(list, c, list[i].value)
  BY <1>1, <1>3, <1>4, <1>5, <1>8
<1> QED  BY <1>7, <1>8

(* The last place of a label is an even address.                           *)
LEMMA Labelled ==
  ASSUME NEW start \in Nat, start % 2 = 0, NEW list \in Seq(Item), NEW name, Defined(list, name) # {}
  PROVE  LET t == LabelAddress(list, Place(start, list), name) IN t \in Nat /\ t % 2 = 0
<1>1. Len(list) \in Nat /\ Defined(list, name) \subseteq 0..Len(list)
  BY DEF Defined
<1>2. Max(Defined(list, name)) \in Defined(list, name)
  BY <1>1, MaxOf
<1>3. Max(Defined(list, name)) \in 1..(Len(list) + 1)
  BY <1>1, <1>2 DEF Defined
<1> QED  BY <1>3, Places DEF LabelAddress

(* What each kind of displacement may be.                                  *)
LEMMA FitsBy ==
  ASSUME NEW d
  PROVE  /\ Fits("pool", d) <=> d \in Int /\ 0 <= d /\ d <= 255
         /\ \A k \in {"bt", "bf"} : Fits(k, d) <=> d \in Int /\ -128 <= d /\ d <= 127
         /\ Fits("bra", d) <=> d \in Int /\ -2048 <= d /\ d <= 2047
<1>1. Fits("pool", d) <=> d \in 0..255
  BY DEF Fits
<1>2. d \in 0..255 <=> d \in Int /\ 0 <= d /\ d <= 255
  OBVIOUS
<1>3. \A k \in {"bt", "bf"} : Fits(k, d) <=> d \in -128..127
  BY DEF Fits
<1>4. d \in -128..127 <=> d \in Int /\ -128 <= d /\ d <= 127
  OBVIOUS
<1>5. Fits("bra", d) <=> d \in -2048..2047
  BY DEF Fits
<1>6. d \in -2048..2047 <=> d \in Int /\ -2048 <= d /\ d <= 2047
  <2> DEFINE low == -2048
             high == 2047
  <2>1. low \in Int /\ high \in Int
    OBVIOUS
  <2> HIDE DEF low, high
  <2>2. d \in low..high <=> d \in Int /\ low <= d /\ d <= high
    BY <2>1
  <2> QED  BY <2>2, Zenon DEF low, high
<1> HIDE DEF Fits
<1>7. Fits("pool", d) <=> d \in Int /\ 0 <= d /\ d <= 255
  BY <1>1, <1>2
<1>8. \A k \in {"bt", "bf"} : Fits(k, d) <=> d \in Int /\ -128 <= d /\ d <= 127
  BY <1>3, <1>4
<1>9. Fits("bra", d) <=> d \in Int /\ -2048 <= d /\ d <= 2047
  BY <1>5, <1>6
<1> QED  BY <1>7, <1>8, <1>9

(* Where the disassembler says each kind leads.                            *)
LEMMA TargetBy ==
  ASSUME NEW a, NEW k \in Branches \cup {"pool"}, NEW d
  PROVE  LET target == BranchTarget([at |-> a, kind |-> k, field |-> d])
         IN /\ k = "pool" => target = (a - (a % 4)) + 4 + 4 * d
            /\ k \in {"bt", "bf"} => target = a + 4 + 2 * Signed(d, 256)
            /\ k = "bra" => target = a + 4 + 2 * Signed(d, 4096)
BY DEF BranchTarget

(* A displacement that fits its field is what the disassembler reads, sign *)
(* and all.                                                                *)
SignedBack(t, a, d) == /\ d \in Int /\ t = a + 4 + 2 * d
                       /\ -128 <= d /\ d <= 127 => Signed(d % 256, 256) = d
                       /\ -2048 <= d /\ d <= 2047 => Signed(d % 4096, 4096) = d
LEMMA ReadSigned ==
  ASSUME NEW t \in Nat, t % 2 = 0, NEW a \in Nat, a % 2 = 0
  PROVE  SignedBack(t, a, (t - (a + 4)) \div 2)
BY DEF Signed, SignedBack

(* The same of a load, which counts in words from an aligned address.      *)
LEMMA ReadPool ==
  ASSUME NEW t \in Nat, t % 4 = 0, NEW a \in Nat
  PROVE  LET d == (t - ((a - (a % 4)) + 4)) \div 4
         IN /\ d \in Int /\ t = (a - (a % 4)) + 4 + 4 * d
            /\ 0 <= d /\ d <= 255 => d % 256 = d
OBVIOUS

(* The addresses of the routine, its displacements and its two mistakes.   *)
Code == Place(base, items)
End == Code[Len(items) + 1]
Moved(i) == Displacement(items, Code, i)
Unlabelled == \E i \in Relative(items) : items[i].kind \in Branches /\ Defined(items, items[i].name) = {}
Unencodable == \E i \in Relative(items) : ~Fits(items[i].kind, Moved(i))

(* The listing of the items, case by case.                                 *)
LEMMA ListingIs ==
  /\ Unlabelled => Listing(base, items) = [status |-> "undefined"]
  /\ ~Unlabelled /\ Unencodable => Listing(base, items) = [status |-> "range"]
  /\ ~Unlabelled /\ ~Unencodable =>
       Listing(base, items) =
         [status |-> "ok", codeEnd |-> End,
          words |-> [i \in Relative(items) |->
                       [at |-> Code[i], kind |-> items[i].kind,
                        field |-> Field(items[i].kind, Moved(i))]],
          pool |-> {<<Slot(items, End, items[i].value), items[i].value>> : i \in FirstUses(items)}]
<1> DEFINE ok == [status |-> "ok", codeEnd |-> End,
          words |-> [i \in Relative(items) |->
                       [at |-> Code[i], kind |-> items[i].kind,
                        field |-> Field(items[i].kind, Moved(i))]],
          pool |-> {<<Slot(items, End, items[i].value), items[i].value>> : i \in FirstUses(items)}]
<1>1. Listing(base, items) = IF Unlabelled THEN [status |-> "undefined"]
                             ELSE IF Unencodable THEN [status |-> "range"] ELSE ok
  BY Zenon DEF Listing, Unlabelled, Unencodable, Code, End, Moved
<1> HIDE DEF ok
<1>2. /\ Unlabelled => Listing(base, items) = [status |-> "undefined"]
      /\ ~Unlabelled /\ Unencodable => Listing(base, items) = [status |-> "range"]
      /\ ~Unlabelled /\ ~Unencodable => Listing(base, items) = ok
  BY <1>1, Zenon
<1> QED  BY <1>2, Zenon DEF ok

(* What pass 2 may rely on.                                                *)
LEMMA ItemKinds ==
  ASSUME AsmInv, NEW i \in Relative(items)
  PROVE  /\ base \in Nat /\ base % 2 = 0 /\ items \in Seq(Item) /\ i \in 1..Len(items)
         /\ Code[i] \in Nat /\ Code[i] % 2 = 0 /\ End \in Nat
         /\ items[i].kind \in Branches \cup {"pool"}
<1>1. base \in Nat /\ base % 2 = 0 /\ items \in Seq(Item)
  BY AsmAssumption DEF AsmInv
<1>2. \A k \in 1..(Len(items) + 1) : Code[k] \in Nat /\ Code[k] % 2 = 0
  BY <1>1, Places DEF Code
<1>3. Len(items) \in Nat
  BY <1>1
<1> QED  BY <1>1, <1>2, <1>3 DEF Relative, End

(* A load leads to its slot when its displacement fits, which it does when *)
(* the slot is in reach.                                                   *)
LEMMA LoadReadBack ==
  ASSUME AsmInv, NEW i \in Relative(items), items[i].kind = "pool"
  PROVE  /\ Fits("pool", Moved(i)) =>
              BranchTarget([at |-> Code[i], kind |-> "pool", field |-> Field("pool", Moved(i))])
                = Goal(i)
         /\ Goal(i) \in Reach(i) => Fits("pool", Moved(i))
<1> DEFINE t == Slot(items, End, items[i].value)
           a == Code[i]
           d == (t - ((a - (a % 4)) + 4)) \div 4
<1>1. t \in Nat /\ t % 4 = 0 /\ a \in Nat
  BY ItemKinds, Slots, Zenon
<1>2. Goal(i) = t /\ Moved(i) = d
  BY DEF Goal, Moved, Displacement, Code, End
<1>3. Goal(i) \in Reach(i) => \E f \in 0..255 : t = (a - (a % 4)) + 4 + 4 * f
  BY <1>2, Zenon DEF Reach, Code
<1> HIDE DEF t, a
<1>4. d \in Int /\ t = (a - (a % 4)) + 4 + 4 * d /\ (0 <= d /\ d <= 255 => d % 256 = d)
  BY <1>1, ReadPool
<1> HIDE DEF d
<1>5. "pool" \in Branches \cup {"pool"} /\ "pool" # "bra" /\ "pool" \notin {"bt", "bf"}
  OBVIOUS
<1>6. Fits("pool", d) <=> d \in Int /\ 0 <= d /\ d <= 255
  BY FitsBy
<1>7. ASSUME Fits("pool", d)
      PROVE  BranchTarget([at |-> a, kind |-> "pool", field |-> Field("pool", d)]) = t
  <2>1. Field("pool", d) = d
    BY <1>4, <1>6, <1>7 DEF Field
  <2>2. BranchTarget([at |-> a, kind |-> "pool", field |-> d]) = (a - (a % 4)) + 4 + 4 * d
    BY <1>5, TargetBy
  <2> QED  BY <1>4, <2>1, <2>2, Zenon
<1>8. ASSUME NEW f \in 0..255, t = (a - (a % 4)) + 4 + 4 * f
      PROVE  Fits("pool", d)
  <2>1. f \in Int /\ 0 <= f /\ f <= 255
    OBVIOUS
  <2>2. d = f
    <3>1. \A x, y, z \in Int : x + 4 + 4 * y = x + 4 + 4 * z => y = z
      OBVIOUS
    <3>2. a - (a % 4) \in Int
      BY <1>1
    <3> QED  BY <1>4, <1>8, <2>1, <3>1, <3>2
  <2> QED  BY <1>6, <2>1, <2>2, Zenon
<1> QED  BY <1>2, <1>3, <1>7, <1>8, Zenon DEF a

(* A branch leads to its label when its displacement fits, which it does   *)
(* when the label is in reach.                                             *)
LEMMA BranchReadBack ==
  ASSUME AsmInv, NEW i \in Relative(items), items[i].kind \in Branches,
         Defined(items, items[i].name) # {}
  PROVE  /\ Fits(items[i].kind, Moved(i)) =>
              BranchTarget([at |-> Code[i], kind |-> items[i].kind,
                            field |-> Field(items[i].kind, Moved(i))])
                = Goal(i)
         /\ Goal(i) \in Reach(i) => Fits(items[i].kind, Moved(i))
<1> DEFINE k == items[i].kind
           t == LabelAddress(items, Code, items[i].name)
           a == Code[i]
           d == (t - (a + 4)) \div 2
           fields == IF k = "bra" THEN -2048..2047 ELSE -128..127
<1>k. k \in Branches \cup {"pool"} /\ k # "pool" /\ (k \in {"bt", "bf"} \/ k = "bra")
      /\ (k = "bra" => k \notin {"bt", "bf"})
  BY DEF Branches
<1>1. t \in Nat /\ t % 2 = 0 /\ a \in Nat /\ a % 2 = 0
  BY ItemKinds, Labelled DEF Code
<1>2. Goal(i) = t /\ Moved(i) = d
  BY <1>k DEF Goal, Moved, Displacement, Code
<1>3. Goal(i) \in Reach(i) => \E f \in fields : t = a + 4 + 2 * f
  <2>1. Reach(i) = {a + 4 + 2 * f : f \in fields}
    BY <1>k DEF Reach, Code
  <2> HIDE DEF fields
  <2> QED  BY <1>2, <2>1
<1> HIDE DEF t, a, k
<1>4. /\ d \in Int /\ t = a + 4 + 2 * d
      /\ -128 <= d /\ d <= 127 => Signed(d % 256, 256) = d
      /\ -2048 <= d /\ d <= 2047 => Signed(d % 4096, 4096) = d
  <2>1. SignedBack(t, a, d)
    BY <1>1, ReadSigned
  <2> HIDE DEF d
  <2> QED  BY <2>1 DEF SignedBack
<1> HIDE DEF d
<1>6. /\ k \in {"bt", "bf"} => (Fits(k, d) <=> d \in Int /\ -128 <= d /\ d <= 127)
      /\ k = "bra" => (Fits(k, d) <=> d \in Int /\ -2048 <= d /\ d <= 2047)
  BY <1>k, FitsBy
<1>7. ASSUME Fits(k, d)
      PROVE  BranchTarget([at |-> a, kind |-> k, field |-> Field(k, d)]) = t
  <2>1. CASE k = "bra"
    <3>1. Field(k, d) = d % 4096
      BY <2>1 DEF Field
    <3>2. BranchTarget([at |-> a, kind |-> k, field |-> d % 4096]) = a + 4 + 2 * Signed(d % 4096, 4096)
      BY <1>k, <2>1, TargetBy
    <3> QED  BY <1>4, <1>6, <1>7, <2>1, <3>1, <3>2
  <2>2. CASE k \in {"bt", "bf"}
    <3>1. Field(k, d) = d % 256
      BY <2>2 DEF Field
    <3>2. BranchTarget([at |-> a, kind |-> k, field |-> d % 256]) = a + 4 + 2 * Signed(d % 256, 256)
      BY <1>k, <2>2, TargetBy
    <3> QED  BY <1>4, <1>6, <1>7, <2>2, <3>1, <3>2
  <2> QED  BY <1>k, <2>1, <2>2
<1>8. ASSUME NEW f \in fields, t = a + 4 + 2 * f
      PROVE  Fits(k, d)
  <2>1. f \in Int /\ (k = "bra" => -2048 <= f /\ f <= 2047) /\ (k # "bra" => -128 <= f /\ f <= 127)
    BY <1>8
  <2>2. d = f
    <3>1. \A x, y, z \in Int : x + 4 + 2 * y = x + 4 + 2 * z => y = z
      OBVIOUS
    <3> QED  BY <1>1, <1>4, <1>8, <2>1, <3>1
  <2> QED  BY <1>k, <1>6, <2>1, <2>2
<1> HIDE DEF fields
<1> QED  BY <1>2, <1>3, <1>7, <1>8, Zenon DEF a, k

(* Every load of a literal leads to the slot of its first use, which is in *)
(* the pool.                                                               *)
LEMMA InPool ==
  ASSUME AsmInv, NEW i \in Relative(items), items[i].kind = "pool"
  PROVE  <<Goal(i), items[i].value>> \in
           {<<Slot(items, End, items[j].value), items[j].value>> : j \in FirstUses(items)}
<1> DEFINE first == Min(Uses(items, items[i].value))
<1>1. first \in FirstUses(items) /\ items[first].value = items[i].value
  BY ItemKinds, FirstOf
<1>2. Goal(i) = Slot(items, End, items[i].value)
  BY DEF Goal, Code, End
<1> HIDE DEF first
<1> QED  BY <1>1, <1>2

(* Two entries of the pool are two literals in two slots.                  *)
LEMMA SlotsApart ==
  ASSUME AsmInv, NEW i \in FirstUses(items), NEW j \in FirstUses(items)
  PROVE  /\ Slot(items, End, items[i].value) % 4 = 0 /\ Slot(items, End, items[i].value) >= End
         /\ items[i].value # items[j].value =>
              Slot(items, End, items[i].value) # Slot(items, End, items[j].value)
<1>1. /\ i \in 1..Len(items) /\ items[i].kind = "pool"
      /\ j \in 1..Len(items) /\ items[j].kind = "pool"
  BY DEF FirstUses
<1>2. i \in Relative(items)
  BY <1>1 DEF Relative
<1>3. items \in Seq(Item) /\ End \in Nat
  BY <1>2, ItemKinds
<1> QED  BY <1>1, <1>3, Slots

(* What is assembled reads back.                                           *)
LEMMA ListingDecodes ==
  ASSUME AsmInv
  PROVE  DecodesBack
<1>1. CASE listing = NoListing
  BY <1>1 DEF NoListing, DecodesBack
<1>2. CASE listing = Listing(base, items) /\ Unlabelled
  <2>1. listing.status = "undefined"
    BY <1>2, ListingIs
  <2>2. PICK i \in Relative(items) : items[i].kind \in Branches /\ Defined(items, items[i].name) = {}
    BY <1>2 DEF Unlabelled
  <2>3. ASSUME NEW j \in 1..Len(items), items[j] = [kind |-> "label", name |-> items[i].name] PROVE FALSE
    <3>1. items[j].kind = "label" /\ items[j].name = items[i].name
      BY <2>3
    <3> QED  BY <2>2, <3>1 DEF Defined
  <2>4. LabelMissing
    BY <2>2, <2>3 DEF LabelMissing
  <2> QED  BY <2>1, <2>4 DEF DecodesBack
<1>3. CASE listing = Listing(base, items) /\ ~Unlabelled /\ Unencodable
  <2>1. listing.status = "range"
    BY <1>3, ListingIs
  <2>2. PICK i \in Relative(items) : ~Fits(items[i].kind, Moved(i))
    BY <1>3 DEF Unencodable
  <2>3. items[i].kind \in Branches => Defined(items, items[i].name) # {}
    BY <1>3 DEF Unlabelled
  <2>4. Goal(i) \notin Reach(i)
    BY <2>2, <2>3, ItemKinds, LoadReadBack, BranchReadBack
  <2>5. OutOfReach
    BY <2>4 DEF OutOfReach
  <2> QED  BY <2>1, <2>5 DEF DecodesBack
<1>4. CASE listing = Listing(base, items) /\ ~Unlabelled /\ ~Unencodable
  <2>1. /\ listing.status = "ok" /\ listing.codeEnd = End
        /\ \A i \in Relative(items) : listing.words[i] =
             [at |-> Code[i], kind |-> items[i].kind, field |-> Field(items[i].kind, Moved(i))]
        /\ listing.pool = {<<Slot(items, End, items[i].value), items[i].value>> : i \in FirstUses(items)}
    BY <1>4, ListingIs
  <2>2. ReadsBack
    <3> SUFFICES ASSUME NEW i \in Relative(items)
                 PROVE  /\ BranchTarget(listing.words[i]) = Goal(i)
                        /\ items[i].kind = "pool" => <<Goal(i), items[i].value>> \in listing.pool
      BY DEF ReadsBack
    <3>1. Fits(items[i].kind, Moved(i))
          /\ (items[i].kind \in Branches => Defined(items, items[i].name) # {})
      BY <1>4 DEF Unlabelled, Unencodable
    <3>2. CASE items[i].kind = "pool"
      BY <2>1, <3>1, <3>2, LoadReadBack, InPool
    <3>3. CASE items[i].kind \in Branches
      <4>1. items[i].kind # "pool"
        BY <3>3 DEF Branches
      <4> QED  BY <2>1, <3>1, <3>3, <4>1, BranchReadBack
    <3> QED  BY <3>2, <3>3, ItemKinds
  <2>3. PoolApart
    <3> SUFFICES ASSUME NEW p \in listing.pool, NEW q \in listing.pool
                 PROVE  p[1] % 4 = 0 /\ p[1] >= listing.codeEnd /\ (p # q => p[1] # q[1] /\ p[2] # q[2])
      BY DEF PoolApart
    <3>1. PICK i \in FirstUses(items) : p = <<Slot(items, End, items[i].value), items[i].value>>
      BY <2>1
    <3>2. PICK j \in FirstUses(items) : q = <<Slot(items, End, items[j].value), items[j].value>>
      BY <2>1
    <3> QED  BY <2>1, <3>1, <3>2, SlotsApart
  <2> QED  BY <2>1, <2>2, <2>3 DEF DecodesBack
<1> QED  BY <1>1, <1>2, <1>3, <1>4 DEF AsmInv

(* An item is added, or the items are assembled.                           *)
LEMMA AsmStep == AsmInv /\ [AsmNext]_asmVars => AsmInv'
<1> SUFFICES ASSUME AsmInv, [AsmNext]_asmVars PROVE AsmInv'
  OBVIOUS
<1>1. ASSUME NEW item \in Item, Emit(item) PROVE AsmInv'
  BY <1>1 DEF Emit, AsmInv
<1>2. CASE Plain
  BY <1>1, <1>2 DEF Plain, Item
<1>3. CASE Label
  BY <1>1, <1>3 DEF Label, Item
<1>4. CASE MovlPool
  BY <1>1, <1>4 DEF MovlPool, Item
<1>5. CASE Branch
  BY <1>1, <1>5 DEF Branch, Item
<1>6. CASE Assemble
  BY <1>6 DEF Assemble, AsmInv
<1>7. CASE UNCHANGED asmVars
  BY <1>7 DEF asmVars, AsmInv
<1> QED  BY <1>2, <1>3, <1>4, <1>5, <1>6, <1>7 DEF AsmNext

(* The listing is that of the items.                                       *)
THEOREM AsmInvariance == AsmSpec => []AsmInv
<1>1. AsmInit => AsmInv
  BY DEF AsmInit, AsmInv
<1> QED  BY <1>1, AsmStep, PTL DEF AsmSpec

(* The same holds while the other tools are at work.                       *)
LEMMA AssemblerAmongTools == Spec => AsmSpec
<1>1. Init => AsmInit
  BY DEF Init
<1>2. [Next]_<<tool, built, asmVars, defVars, loggerVars, readerVars>> => [AsmNext]_asmVars
  BY DEF Next
<1> QED  BY <1>1, <1>2, PTL DEF Spec, AsmSpec

(* Read back, every branch of every routine leads to the last place of its *)
(* label and every load to the one aligned slot with its literal after the *)
(* code, and only a routine with a missing label or an operand out of      *)
(* reach is refused (Asm.assemble, dis_one).                               *)
THEOREM RoutinesReadBack == Spec => []DecodesBack
<1>1. AsmInv => DecodesBack
  BY ListingDecodes
<1> QED  BY <1>1, AsmInvariance, AssemblerAmongTools, PTL
-----------------------------------------------------------------------------
(* The definition generators. *)

(* Of the stock tables the fuel scaling is the 21st and the oil scaling    *)
(* the last, and none is the speed-density multiplier.                     *)
LEMMA StockTables ==
  /\ Len(Stock) = 23
  /\ \A i \in 1..23 : Stock[i][1] = "Oil Temp Scaling" <=> i = 23
  /\ \A i \in 1..23 : Stock[i][1] = "Fuel Temp Scaling" <=> i = 21
  /\ \A i \in 1..23 : Stock[i][1] # "SD Multiplier"
<1>1. Len(Stock) = 23
  BY DEF Stock
<1>2. /\ Stock[1][1] = "MAF Scaling" /\ Stock[2][1] = "MAP Scaling" /\ Stock[3][1] = "Load Compensation"
      /\ Stock[4][1] = "IAT Scaling" /\ Stock[5][1] = "Tip-in Minimum" /\ Stock[6][1] = "Tip-in MRP"
      /\ Stock[7][1] = "Cranking IPW" /\ Stock[8][1] = "OL Delay" /\ Stock[9][1] = "Base Timing A"
      /\ Stock[10][1] = "Base Timing B" /\ Stock[11][1] = "Base Timing C"
      /\ Stock[12][1] = "Base Timing D"
      /\ Stock[13][1] = "Base Timing F" /\ Stock[14][1] = "Base Timing Idle"
      /\ Stock[15][1] = "Knock Advance A"
      /\ Stock[16][1] = "Knock Advance B" /\ Stock[17][1] = "Cam Advance A"
      /\ Stock[18][1] = "Cam Advance B"
      /\ Stock[19][1] = "Idle Speed Target" /\ Stock[20][1] = "Fan Modes"
      /\ Stock[21][1] = "Fuel Temp Scaling"
      /\ Stock[22][1] = "P0102" /\ Stock[23][1] = "Oil Temp Scaling"
  BY DEF Stock
<1>3. \A i \in 1..23 : \/ i = 1 \/ i = 2 \/ i = 3 \/ i = 4 \/ i = 5 \/ i = 6 \/ i = 7 \/ i = 8
        \/ i = 9 \/ i = 10 \/ i = 11 \/ i = 12 \/ i = 13 \/ i = 14 \/ i = 15 \/ i = 16
        \/ i = 17 \/ i = 18 \/ i = 19 \/ i = 20 \/ i = 21 \/ i = 22 \/ i = 23
  OBVIOUS
<1>4. \A i \in 1..23 : Stock[i][1] = "Oil Temp Scaling" <=> i = 23
  BY <1>2, <1>3
<1>5. \A i \in 1..23 : Stock[i][1] = "Fuel Temp Scaling" <=> i = 21
  BY <1>2, <1>3
<1>6. \A i \in 1..23 : Stock[i][1] # "SD Multiplier"
  BY <1>2, <1>3
<1> QED  BY <1>1, <1>4, <1>5, <1>6, Zenon


(* Counting up to m.                                                       *)
LEMMA UpTo ==
  ASSUME NEW m \in Nat, NEW T, 0 \in T, \A n \in 0..m : n \in T /\ n # m => n + 1 \in T
  PROVE  0..m \subseteq T
<1> DEFINE bad == {n \in 0..m : n \notin T}
<1> SUFFICES ASSUME bad # {} PROVE FALSE
  OBVIOUS
<1>1. PICK n \in bad : \A k \in bad : n <= k
  <2>1. bad \subseteq Nat
    OBVIOUS
  <2> HIDE DEF bad
  <2> QED  BY <2>1, LeastMember
<1>2. n \in 1..m /\ n - 1 \in 0..m /\ n - 1 \notin bad
  BY <1>1
<1> QED  BY <1>1, <1>2

(* Induction over sequences: what holds of the empty one and is kept by    *)
(* one more element holds of all.                                          *)
LEMMA OnSequences ==
  ASSUME NEW Rows, NEW T, <<>> \in T, \A s \in Seq(Rows) : s \in T => \A x \in Rows : Append(s, x) \in T
  PROVE  Seq(Rows) \subseteq T
<1> DEFINE N == {n \in Nat : \A s \in Seq(Rows) : Len(s) = n => s \in T}
<1>1. SUFFICES ASSUME NEW t \in Seq(Rows) PROVE t \in T
  OBVIOUS
<1>2. Len(t) \in Nat
  OBVIOUS
<1>3. 0 \in N
  <2>1. \A s \in Seq(Rows) : Len(s) = 0 => s = <<>>
    OBVIOUS
  <2> QED  BY <2>1
<1>4. ASSUME NEW n \in Nat, n \in N PROVE n + 1 \in N
  <2> SUFFICES ASSUME NEW s \in Seq(Rows), Len(s) = n + 1 PROVE s \in T
    OBVIOUS
  <2> DEFINE r == [i \in 1..n |-> s[i]]
  <2>1. r \in Seq(Rows) /\ Len(r) = n
    OBVIOUS
  <2>2. s[n + 1] \in Rows
    OBVIOUS
  <2>3. s = Append(r, s[n + 1])
    OBVIOUS
  <2>4. r \in T
    BY <1>4, <2>1
  <2> HIDE DEF r
  <2> QED  BY <2>1, <2>2, <2>3, <2>4
<1> HIDE DEF N
<1>5. 0..Len(t) \subseteq N
  <2>1. \A n \in 0..Len(t) : n \in N /\ n # Len(t) => n + 1 \in N
    BY <1>4
  <2> QED  BY <1>2, <1>3, <2>1, UpTo
<1>6. Len(t) \in N
  BY <1>2, <1>5
<1> QED  BY <1>6 DEF N

(* What Only computes, up to place m.                                    *)
Filters(f, doc, tables, m) ==
  f = [n \in 0..m |-> IF n = 0 THEN <<>>
                      ELSE IF doc[n] \in tables THEN Append(f[n - 1], doc[n]) ELSE f[n - 1]]

(* There is such a function, so that Only reads one.                     *)
LEMMA FilterExists ==
  ASSUME NEW doc, NEW tables, NEW m \in Nat
  PROVE  \E f : Filters(f, doc, tables, m)
<1> DEFINE T == {n \in Nat : \E f : Filters(f, doc, tables, n)}
<1>1. 0 \in T
  <2>1. Filters([n \in 0..0 |-> <<>>], doc, tables, 0)
    BY DEF Filters
  <2> QED  BY <2>1
<1>2. ASSUME NEW n \in Nat, n \in T PROVE n + 1 \in T
  <2>1. PICK f : Filters(f, doc, tables, n)
    BY <1>2
  <2> DEFINE g == [k \in 0..(n + 1) |-> IF k = n + 1
                                        THEN IF doc[k] \in tables THEN Append(f[n], doc[k])
                                             ELSE f[n]
                                        ELSE f[k]]
  <2>2. ASSUME NEW k \in 0..(n + 1)
        PROVE  g[k] = IF k = 0 THEN <<>>
                      ELSE IF doc[k] \in tables THEN Append(g[k - 1], doc[k]) ELSE g[k - 1]
    <3>1. CASE k = n + 1
      BY <3>1
    <3>2. CASE k # n + 1
      <4>1. k \in 0..n /\ g[k] = f[k] /\ (k # 0 => g[k - 1] = f[k - 1])
        BY <3>2
      <4>2. f[k] = IF k = 0 THEN <<>>
                   ELSE IF doc[k] \in tables THEN Append(f[k - 1], doc[k]) ELSE f[k - 1]
        BY <2>1, <4>1 DEF Filters
      <4> HIDE DEF g
      <4> QED  BY <4>1, <4>2
    <3> QED  BY <3>1, <3>2
  <2>3. g = [k \in 0..(n + 1) |-> g[k]]
    OBVIOUS
  <2>4. Filters(g, doc, tables, n + 1)
    <3> HIDE DEF g
    <3> QED  BY <2>2, <2>3 DEF Filters
  <2> QED  BY <2>4
<1> HIDE DEF T
<1>3. 0..m \subseteq T
  BY <1>1, <1>2, UpTo
<1>4. m \in T
  BY <1>3
<1> QED  BY <1>4 DEF T

LEMMA OnlyFilters ==
  ASSUME NEW doc, NEW tables, Len(doc) \in Nat
  PROVE  \E f : Filters(f, doc, tables, Len(doc)) /\ Only(doc, tables) = f[Len(doc)]
<1> DEFINE f == CHOOSE g : Filters(g, doc, tables, Len(doc))
<1>1. Filters(f, doc, tables, Len(doc))
  BY FilterExists
<1>2. Only(doc, tables) = f[Len(doc)]
  BY Zenon DEF Only, Filters
<1> HIDE DEF f
<1> QED  BY <1>1, <1>2

(* Nothing lies in the tables of the empty definition.                   *)
LEMMA OnlyEmpty == \A tables : Only(<<>>, tables) = <<>>
<1>1. Len(<<>>) = 0
  OBVIOUS
<1> QED  BY <1>1, OnlyFilters DEF Filters

(* One more table at the end.                                              *)
LEMMA OnlyAppend ==
  ASSUME NEW Rows, NEW doc \in Seq(Rows), NEW x \in Rows, NEW tables
  PROVE  Only(Append(doc, x), tables)
           = IF x \in tables THEN Append(Only(doc, tables), x) ELSE Only(doc, tables)
<1> DEFINE n == Len(doc)
           more == Append(doc, x)
<1>1. n \in Nat /\ Len(more) = n + 1 /\ more[n + 1] = x /\ \A k \in 1..n : more[k] = doc[k]
  OBVIOUS
<1> HIDE DEF n, more
<1>2. PICK f : Filters(f, doc, tables, n) /\ Only(doc, tables) = f[n]
  BY <1>1, OnlyFilters DEF n
<1>3. PICK g : Filters(g, more, tables, n + 1) /\ Only(more, tables) = g[n + 1]
  BY <1>1, OnlyFilters
<1> DEFINE T == {k \in 0..n : g[k] = f[k]}
<1>a. \A k \in 0..n : f[k] = IF k = 0 THEN <<>>
                           ELSE IF doc[k] \in tables THEN Append(f[k - 1], doc[k]) ELSE f[k - 1]
  <2>1. f = [k \in 0..n |-> IF k = 0 THEN <<>>
                            ELSE IF doc[k] \in tables THEN Append(f[k - 1], doc[k]) ELSE f[k - 1]]
    BY <1>2 DEF Filters
  <2> QED  BY Zenon, <2>1
<1>b. \A k \in 0..(n + 1) : g[k] = IF k = 0 THEN <<>>
                           ELSE IF more[k] \in tables THEN Append(g[k - 1], more[k]) ELSE g[k - 1]
  <2>1. g = [k \in 0..(n + 1) |-> IF k = 0 THEN <<>>
                           ELSE IF more[k] \in tables THEN Append(g[k - 1], more[k]) ELSE g[k - 1]]
    BY <1>3 DEF Filters
  <2> QED  BY Zenon, <2>1
<1>4. 0 \in T
  BY <1>1, <1>a, <1>b
<1>5. ASSUME NEW k \in 0..n, k \in T, k # n PROVE k + 1 \in T
  <2>1. k + 1 \in 1..n /\ k + 1 \in 0..n /\ k + 1 \in 0..(n + 1) /\ k + 1 # 0 /\ (k + 1) - 1 = k
    BY <1>1, <1>5
  <2>2. f[k + 1] = IF doc[k + 1] \in tables THEN Append(f[k], doc[k + 1]) ELSE f[k]
    BY <1>a, <2>1
  <2>3. g[k + 1] = IF more[k + 1] \in tables THEN Append(g[k], more[k + 1]) ELSE g[k]
    BY <1>b, <2>1
  <2> QED  BY <1>1, <1>5, <2>1, <2>2, <2>3
<1> HIDE DEF T
<1>6. 0..n \subseteq T
  BY <1>1, <1>4, <1>5, UpTo
<1>7. g[n] = f[n]
  BY <1>1, <1>6 DEF T
<1>8. g[n + 1] = IF x \in tables THEN Append(g[n], x) ELSE g[n]
  <2>1. n + 1 \in 0..(n + 1) /\ n + 1 # 0 /\ (n + 1) - 1 = n
    BY <1>1
  <2>2. g[n + 1] = IF more[n + 1] \in tables THEN Append(g[n], more[n + 1]) ELSE g[n]
    BY <1>b, <2>1
  <2> QED  BY <1>1, <2>2
<1>9. Only(more, tables) = g[n + 1] /\ Only(doc, tables) = f[n]
  BY <1>2, <1>3
<1> QED  BY <1>7, <1>8, <1>9 DEF more

(* A sequence over a set is one over a larger set.                         *)
LEMMA SeqWidens ==
  ASSUME NEW Rows, NEW T, Rows \subseteq T, NEW s \in Seq(Rows) PROVE s \in Seq(T)
OBVIOUS

(* The tables in some tables are tables of the definition.               *)
LEMMA OnlyType ==
  ASSUME NEW Rows, NEW doc \in Seq(Rows), NEW tables PROVE Only(doc, tables) \in Seq(Rows)
<1> DEFINE T == {s \in Seq(Rows) : Only(s, tables) \in Seq(Rows)}
<1>1. <<>> \in T
  <2>1. <<>> \in Seq(Rows)
    OBVIOUS
  <2> QED  BY <2>1, OnlyEmpty
<1>2. ASSUME NEW s \in Seq(Rows), s \in T, NEW x \in Rows PROVE Append(s, x) \in T
  <2>1. Only(Append(s, x), tables)
          = IF x \in tables THEN Append(Only(s, tables), x) ELSE Only(s, tables)
    BY OnlyAppend
  <2>2. Only(s, tables) \in Seq(Rows) /\ Append(s, x) \in Seq(Rows)
    BY <1>2
  <2>3. Only(Append(s, x), tables) \in Seq(Rows)
    BY <2>1, <2>2
  <2> QED  BY <2>2, <2>3
<1> HIDE DEF T
<1>3. Seq(Rows) \subseteq T
  BY <1>1, <1>2, OnSequences
<1>4. doc \in T
  BY <1>3
<1> QED  BY <1>4 DEF T

LEMMA AppendAfter ==
  ASSUME NEW Rows, NEW s \in Seq(Rows), NEW t \in Seq(Rows), NEW x \in Rows
  PROVE  s \o Append(t, x) = Append(s \o t, x)
OBVIOUS

(* The tables in some tables of two definitions, one after the other.    *)
LEMMA OnlyConcat ==
  ASSUME NEW Rows, NEW doc \in Seq(Rows), NEW more \in Seq(Rows), NEW tables
  PROVE  Only(doc \o more, tables) = Only(doc, tables) \o Only(more, tables)
<1> DEFINE T == {s \in Seq(Rows) :
                   Only(doc \o s, tables) = Only(doc, tables) \o Only(s, tables)}
<1>0. Only(doc, tables) \in Seq(Rows)
  BY OnlyType
<1>1. <<>> \in T
  <2>1. <<>> \in Seq(Rows) /\ doc \o <<>> = doc
    OBVIOUS
  <2>2. Only(doc, tables) \o <<>> = Only(doc, tables)
    BY <1>0
  <2> QED  BY <2>1, <2>2, OnlyEmpty
<1>2. ASSUME NEW s \in Seq(Rows), s \in T, NEW x \in Rows PROVE Append(s, x) \in T
  <2>1. Only(Append(s, x), tables)
          = IF x \in tables THEN Append(Only(s, tables), x) ELSE Only(s, tables)
    BY OnlyAppend
  <2>2. doc \o s \in Seq(Rows) /\ doc \o Append(s, x) = Append(doc \o s, x)
    BY AppendAfter
  <2>3. Only(doc \o Append(s, x), tables)
          = IF x \in tables THEN Append(Only(doc \o s, tables), x)
            ELSE Only(doc \o s, tables)
    <3> DEFINE whole == doc \o s
    <3>1. whole \in Seq(Rows)
      BY <2>2
    <3> HIDE DEF whole
    <3>2. Only(Append(whole, x), tables)
            = IF x \in tables THEN Append(Only(whole, tables), x) ELSE Only(whole, tables)
      BY <3>1, OnlyAppend
    <3> QED  BY <2>2, <3>2 DEF whole
  <2>4. Only(s, tables) \in Seq(Rows)
    BY OnlyType
  <2>5. Only(doc, tables) \o Append(Only(s, tables), x)
          = Append(Only(doc, tables) \o Only(s, tables), x)
    BY <1>0, <2>4, AppendAfter
  <2>6. Only(doc \o s, tables) = Only(doc, tables) \o Only(s, tables)
    BY <1>2
  <2>7. Only(doc \o Append(s, x), tables) = Only(doc, tables) \o Only(Append(s, x), tables)
    BY <2>1, <2>3, <2>5, <2>6, Zenon
  <2>8. Append(s, x) \in Seq(Rows)
    OBVIOUS
  <2> QED  BY <2>7, <2>8
<1> HIDE DEF T
<1>3. Seq(Rows) \subseteq T
  BY <1>1, <1>2, OnSequences
<1>4. more \in T
  BY <1>3
<1> QED  BY <1>4 DEF T

(* Choosing twice is choosing what is in both.                             *)
LEMMA OnlyTwice ==
  ASSUME NEW Rows, NEW doc \in Seq(Rows), NEW first, NEW second
  PROVE  Only(Only(doc, first), second) = Only(doc, first \cap second)
<1> DEFINE T == {s \in Seq(Rows) : Only(Only(s, first), second) = Only(s, first \cap second)}
<1>1. <<>> \in T
  <2>1. <<>> \in Seq(Rows)
    OBVIOUS
  <2> QED  BY <2>1, OnlyEmpty
<1>2. ASSUME NEW s \in Seq(Rows), s \in T, NEW x \in Rows PROVE Append(s, x) \in T
  <2> DEFINE inner == Only(s, first)
             both == first \cap second
  <2>1. Only(Append(s, x), first) = IF x \in first THEN Append(inner, x) ELSE inner
    BY OnlyAppend
  <2>2. Only(Append(s, x), both) = IF x \in both THEN Append(Only(s, both), x)
                                     ELSE Only(s, both)
    BY OnlyAppend
  <2>3. inner \in Seq(Rows)
    BY OnlyType
  <2>4. Only(Append(inner, x), second)
          = IF x \in second THEN Append(Only(inner, second), x) ELSE Only(inner, second)
    BY <2>3, OnlyAppend
  <2>5. Only(inner, second) = Only(s, both)
    BY <1>2
  <2>6. x \in both <=> x \in first /\ x \in second
    OBVIOUS
  <2>7. Append(s, x) \in Seq(Rows)
    OBVIOUS
  <2> HIDE DEF inner, both
  <2>8. Only(Only(Append(s, x), first), second) = Only(Append(s, x), both)
    <3>1. CASE x \in first /\ x \in second
      BY <3>1, <2>1, <2>2, <2>4, <2>5, <2>6
    <3>2. CASE x \in first /\ x \notin second
      BY <3>2, <2>1, <2>2, <2>4, <2>5, <2>6
    <3>3. CASE x \notin first
      BY <3>3, <2>1, <2>2, <2>5, <2>6
    <3> QED  BY <3>1, <3>2, <3>3
  <2> QED  BY <2>7, <2>8 DEF both
<1> HIDE DEF T
<1>3. Seq(Rows) \subseteq T
  BY <1>1, <1>2, OnSequences
<1>4. doc \in T
  BY <1>3
<1> QED  BY <1>4 DEF T

(* No table lies in the tables.                                          *)
LEMMA OnlyNone ==
  ASSUME NEW Rows, NEW doc \in Seq(Rows), NEW tables, \A x \in Rows : x \notin tables
  PROVE  Only(doc, tables) = <<>>
<1> DEFINE T == {s \in Seq(Rows) : Only(s, tables) = <<>>}
<1>1. <<>> \in T
  <2>1. <<>> \in Seq(Rows)
    OBVIOUS
  <2> QED  BY <2>1, OnlyEmpty
<1>2. ASSUME NEW s \in Seq(Rows), s \in T, NEW x \in Rows PROVE Append(s, x) \in T
  <2>1. Only(Append(s, x), tables) = Only(s, tables)
    BY OnlyAppend
  <2>2. Append(s, x) \in Seq(Rows)
    OBVIOUS
  <2> QED  BY <1>2, <2>1, <2>2
<1> HIDE DEF T
<1>3. Seq(Rows) \subseteq T
  BY <1>1, <1>2, OnSequences
<1>4. doc \in T
  BY <1>3
<1> QED  BY <1>4 DEF T

(* Every table lies in the tables.                                       *)
LEMMA OnlyAll ==
  ASSUME NEW Rows, NEW doc \in Seq(Rows), NEW tables, \A x \in Rows : x \in tables
  PROVE  Only(doc, tables) = doc
<1> DEFINE T == {s \in Seq(Rows) : Only(s, tables) = s}
<1>1. <<>> \in T
  <2>1. <<>> \in Seq(Rows)
    OBVIOUS
  <2> QED  BY <2>1, OnlyEmpty
<1>2. ASSUME NEW s \in Seq(Rows), s \in T, NEW x \in Rows PROVE Append(s, x) \in T
  <2>1. Only(Append(s, x), tables) = Append(Only(s, tables), x)
    BY OnlyAppend
  <2>2. Append(s, x) \in Seq(Rows)
    OBVIOUS
  <2> QED  BY <1>2, <2>1, <2>2
<1> HIDE DEF T
<1>3. Seq(Rows) \subseteq T
  BY <1>1, <1>2, OnSequences
<1>4. doc \in T
  BY <1>3
<1> QED  BY <1>4 DEF T

(* A sequence is one over its own elements.                                *)
LEMMA OverItsOwn ==
  ASSUME NEW Rows, NEW doc \in Seq(Rows) PROVE doc \in Seq(ToSet(doc)) /\ ToSet(doc) \subseteq Rows
<1>1. Len(doc) \in Nat /\ DOMAIN doc = 1..Len(doc) /\ \A i \in 1..Len(doc) : doc[i] \in Rows
  OBVIOUS
<1>2. \A i \in 1..Len(doc) : doc[i] \in ToSet(doc)
  BY <1>1 DEF ToSet
<1>3. doc \in Seq(ToSet(doc))
  BY <1>2
<1> QED  BY <1>1, <1>3 DEF ToSet

(* What is chosen depends on the choice among the tables there are.        *)
LEMMA OnlySame ==
  ASSUME NEW Rows, NEW doc \in Seq(Rows), NEW A, NEW B, \A x \in Rows : x \in A <=> x \in B
  PROVE  Only(doc, A) = Only(doc, B)
<1> DEFINE T == {s \in Seq(Rows) : Only(s, A) = Only(s, B)}
<1>1. <<>> \in T
  <2>1. <<>> \in Seq(Rows)
    OBVIOUS
  <2> QED  BY <2>1, OnlyEmpty
<1>2. ASSUME NEW s \in Seq(Rows), s \in T, NEW x \in Rows PROVE Append(s, x) \in T
  <2>1. Only(Append(s, x), A) = IF x \in A THEN Append(Only(s, A), x) ELSE Only(s, A)
    BY OnlyAppend
  <2>2. Only(Append(s, x), B) = IF x \in B THEN Append(Only(s, B), x) ELSE Only(s, B)
    BY OnlyAppend
  <2>3. Append(s, x) \in Seq(Rows)
    OBVIOUS
  <2>4. Only(s, A) = Only(s, B) /\ (x \in A <=> x \in B)
    BY <1>2
  <2>5. Only(Append(s, x), A) = Only(Append(s, x), B)
    BY <2>1, <2>2, <2>4, Zenon
  <2> QED  BY <2>3, <2>5
<1> HIDE DEF T
<1>3. Seq(Rows) \subseteq T
  BY <1>1, <1>2, OnSequences
<1>4. doc \in T
  BY <1>3
<1> QED  BY <1>4 DEF T

(* Reading sections is choosing the tables in them.                        *)
In(Rows, sections) == {t \in Rows : t.rom \in sections}

LEMMA WithinOnly ==
  ASSUME NEW Rows, NEW doc \in Seq(Rows), NEW sections
  PROVE  Within(doc, sections) = Only(doc, In(Rows, sections))
<1>1. doc \in Seq(ToSet(doc)) /\ ToSet(doc) \subseteq Rows
  BY OverItsOwn
<1> DEFINE A == {t \in ToSet(doc) : t.rom \in sections}
           B == In(Rows, sections)
<1>2. \A x \in ToSet(doc) : x \in A <=> x \in B
  BY <1>1 DEF In
<1> HIDE DEF A, B
<1>3. Only(doc, A) = Only(doc, B)
  BY <1>1, <1>2, OnlySame
<1> QED  BY <1>3 DEF A, B, Within

(* Nothing lies in the sections of the empty definition.                   *)
LEMMA WithinEmpty == \A sections : Within(<<>>, sections) = <<>>
BY OnlyEmpty DEF Within

(* One more table at the end.                                              *)
LEMMA WithinAppend ==
  ASSUME NEW Rows, NEW doc \in Seq(Rows), NEW x \in Rows, NEW sections
  PROVE  Within(Append(doc, x), sections)
           = IF x.rom \in sections THEN Append(Within(doc, sections), x) ELSE Within(doc, sections)
<1>1. Append(doc, x) \in Seq(Rows)
  OBVIOUS
<1>2. Within(Append(doc, x), sections) = Only(Append(doc, x), In(Rows, sections))
  BY <1>1, WithinOnly
<1>3. Within(doc, sections) = Only(doc, In(Rows, sections))
  BY WithinOnly
<1>4. Only(Append(doc, x), In(Rows, sections))
        = IF x \in In(Rows, sections) THEN Append(Only(doc, In(Rows, sections)), x)
          ELSE Only(doc, In(Rows, sections))
  BY OnlyAppend
<1>5. x \in In(Rows, sections) <=> x.rom \in sections
  BY DEF In
<1> QED  BY <1>2, <1>3, <1>4, <1>5

(* The tables in some sections are tables of the definition.               *)
LEMMA WithinType ==
  ASSUME NEW Rows, NEW doc \in Seq(Rows), NEW sections PROVE Within(doc, sections) \in Seq(Rows)
BY WithinOnly, OnlyType

(* The tables in some sections of two definitions, one after the other.    *)
LEMMA WithinConcat ==
  ASSUME NEW Rows, NEW doc \in Seq(Rows), NEW more \in Seq(Rows), NEW sections
  PROVE  Within(doc \o more, sections) = Within(doc, sections) \o Within(more, sections)
<1>1. doc \o more \in Seq(Rows)
  OBVIOUS
<1>2. Within(doc \o more, sections) = Only(doc \o more, In(Rows, sections))
  BY <1>1, WithinOnly
<1>3. /\ Within(doc, sections) = Only(doc, In(Rows, sections))
      /\ Within(more, sections) = Only(more, In(Rows, sections))
  BY WithinOnly
<1>4. Only(doc \o more, In(Rows, sections))
        = Only(doc, In(Rows, sections)) \o Only(more, In(Rows, sections))
  BY OnlyConcat
<1> QED  BY <1>2, <1>3, <1>4

(* Choosing twice is choosing what is in both.                             *)
LEMMA WithinTwice ==
  ASSUME NEW Rows, NEW doc \in Seq(Rows), NEW first, NEW second
  PROVE  Within(Within(doc, first), second) = Within(doc, first \cap second)
<1> DEFINE A == In(Rows, first)
           B == In(Rows, second)
           inner == Within(doc, first)
<1>1. inner \in Seq(Rows) /\ inner = Only(doc, A)
  BY WithinType, WithinOnly
<1> HIDE DEF inner
<1>2. Within(inner, second) = Only(inner, B)
  BY <1>1, WithinOnly
<1>3. Only(Only(doc, A), B) = Only(doc, A \cap B)
  BY OnlyTwice
<1>4. A \cap B = In(Rows, first \cap second)
  BY DEF In
<1>5. Within(doc, first \cap second) = Only(doc, In(Rows, first \cap second))
  BY WithinOnly
<1> QED  BY <1>1, <1>2, <1>3, <1>4, <1>5 DEF inner

(* No table lies in the sections.                                          *)
LEMMA WithinNone ==
  ASSUME NEW Rows, NEW doc \in Seq(Rows), NEW sections, \A x \in Rows : x.rom \notin sections
  PROVE  Within(doc, sections) = <<>>
<1>1. \A x \in Rows : x \notin In(Rows, sections)
  BY DEF In
<1> QED  BY <1>1, WithinOnly, OnlyNone

(* Every table lies in the sections.                                       *)
LEMMA WithinAll ==
  ASSUME NEW Rows, NEW doc \in Seq(Rows), NEW sections, \A x \in Rows : x.rom \in sections
  PROVE  Within(doc, sections) = doc
<1>1. \A x \in Rows : x \in In(Rows, sections)
  BY DEF In
<1> QED  BY <1>1, WithinOnly, OnlyAll

(* The places of a name are finitely many.                                 *)
LEMMA NamedFinite ==
  ASSUME NEW Rows, NEW doc \in Seq(Rows), NEW name
  PROVE  IsFiniteSet(Named(doc, name)) /\ Count(doc, name) \in Nat
           /\ (Count(doc, name) = 0 <=> Named(doc, name) = {})
<1>1. Len(doc) \in Nat /\ Named(doc, name) \subseteq 1..Len(doc)
  BY DEF Named
<1>2. IsFiniteSet(1..Len(doc))
  BY <1>1, FS_Interval
<1>3. IsFiniteSet(Named(doc, name))
  BY <1>1, <1>2, FS_Subset
<1> QED  BY <1>3, FS_CardinalityType, FS_EmptySet DEF Count

(* A name is counted in each part.                                         *)
LEMMA CountConcat ==
  ASSUME NEW Rows, NEW doc \in Seq(Rows), NEW more \in Seq(Rows), NEW name
  PROVE  Count(doc \o more, name) = Count(doc, name) + Count(more, name)
<1> DEFINE n == Len(doc)
           A == Named(doc, name)
           B == Named(more, name)
           C == {n + i : i \in B}
<1>1. n \in Nat /\ Len(more) \in Nat /\ Len(doc \o more) = n + Len(more) /\ doc \o more \in Seq(Rows)
  OBVIOUS
<1>2. \A i \in 1..n : (doc \o more)[i] = doc[i]
  OBVIOUS
<1>3. \A i \in 1..Len(more) : (doc \o more)[n + i] = more[i]
  OBVIOUS
<1>4. A \subseteq 1..n /\ B \subseteq 1..Len(more)
  BY DEF Named
<1>5. Named(doc \o more, name) = A \cup C
  <2>1. DOMAIN (doc \o more) = 1..(n + Len(more)) /\ DOMAIN doc = 1..n /\ DOMAIN more = 1..Len(more)
    BY <1>1
  <2>2. \A k \in 1..(n + Len(more)) : k \in 1..n \/ (k - n \in 1..Len(more) /\ k = n + (k - n))
    BY <1>1
  <2>3. ASSUME NEW k \in Named(doc \o more, name) PROVE k \in A \cup C
    <3>1. k \in 1..(n + Len(more)) /\ (doc \o more)[k].name = name
      BY <2>1 DEF Named
    <3>2. CASE k \in 1..n
      BY <3>1, <3>2, <1>2, <2>1 DEF Named
    <3>3. CASE k - n \in 1..Len(more) /\ k = n + (k - n)
      <4>1. more[k - n].name = name
        BY <3>1, <3>3, <1>3
      <4>2. k - n \in B
        BY <4>1, <3>3, <2>1 DEF Named
      <4> QED  BY <3>3, <4>2
    <3> QED  BY <2>2, <3>1, <3>2, <3>3
  <2>4. ASSUME NEW k \in A PROVE k \in Named(doc \o more, name)
    <3>1. k \in 1..n /\ doc[k].name = name
      BY <2>1 DEF Named
    <3>2. k \in 1..(n + Len(more))
      BY <1>1, <3>1
    <3> QED  BY <1>2, <2>1, <3>1, <3>2 DEF Named
  <2>5. ASSUME NEW i \in B PROVE n + i \in Named(doc \o more, name)
    <3>1. i \in 1..Len(more) /\ more[i].name = name
      BY <2>1 DEF Named
    <3>2. n + i \in 1..(n + Len(more))
      BY <1>1, <3>1
    <3> QED  BY <1>3, <2>1, <3>1, <3>2 DEF Named
  <2> QED  BY <2>3, <2>4, <2>5
<1>6. IsFiniteSet(A) /\ IsFiniteSet(B) /\ Cardinality(A) \in Nat /\ Cardinality(B) \in Nat
  BY NamedFinite DEF Count
<1>7. IsFiniteSet(C) /\ Cardinality(C) = Cardinality(B)
  <2> DEFINE f == [i \in B |-> n + i]
  <2>1. f \in Bijection(B, C)
    <3>1. \A i, j \in B : n + i = n + j => i = j
      BY <1>1, <1>4
    <3>2. f \in [B -> C]
      OBVIOUS
    <3>3. \A i, j \in B : f[i] = f[j] => i = j
      BY <3>1
    <3>4. \A c \in C : \E i \in B : f[i] = c
      OBVIOUS
    <3> HIDE DEF f, C
    <3> QED  BY <3>2, <3>3, <3>4, Fun_IsBij
  <2> HIDE DEF f, C
  <2> QED  BY <1>6, <2>1, FS_Bijection DEF ExistsBijection
<1>8. A \cap C = {}
  <2>1. \A i \in B : n + i \notin 1..n
    BY <1>1, <1>4
  <2> QED  BY <1>4, <2>1
<1> HIDE DEF A, B, C
<1>9. Cardinality(A \cup C) = Cardinality(A) + Cardinality(B)
  <2>1. Cardinality(A \cup C) = Cardinality(A) + Cardinality(C) - Cardinality(A \cap C)
    BY <1>6, <1>7, FS_Union
  <2>2. Cardinality(A \cap C) = 0
    BY <1>8, FS_EmptySet
  <2> QED  BY <1>6, <1>7, <2>1, <2>2
<1> QED  BY <1>5, <1>9 DEF Count, A, B

(* A name no table has counts nothing, and the other way round.            *)
LEMMA CountAbsent ==
  ASSUME NEW Rows, NEW doc \in Seq(Rows), NEW name, \A x \in Rows : x.name # name
  PROVE  Count(doc, name) = 0
<1>1. \A i \in DOMAIN doc : doc[i] \in Rows
  OBVIOUS
<1>2. Named(doc, name) = {}
  BY <1>1 DEF Named
<1> QED  BY <1>2, NamedFinite

(* A name in one table, and with one more table.                           *)
LEMMA CountOne ==
  ASSUME NEW x, NEW name PROVE Count(<<x>>, name) = IF x.name = name THEN 1 ELSE 0
<1>1. DOMAIN <<x>> = {1} /\ <<x>>[1] = x
  OBVIOUS
<1>2. Named(<<x>>, name) = IF x.name = name THEN {1} ELSE {}
  BY <1>1 DEF Named
<1>3. Cardinality({1}) = 1
  BY FS_Singleton
<1>4. Cardinality({}) = 0
  BY FS_EmptySet
<1>5. CASE x.name = name
  <2>1. Named(<<x>>, name) = {1}
    BY <1>2, <1>5
  <2> QED  BY <2>1, <1>3, <1>5 DEF Count
<1>6. CASE x.name # name
  <2>1. Named(<<x>>, name) = {}
    BY <1>2, <1>6
  <2> QED  BY <2>1, <1>4, <1>6 DEF Count
<1> QED  BY <1>5, <1>6

LEMMA CountAppend ==
  ASSUME NEW Rows, NEW doc \in Seq(Rows), NEW x \in Rows, NEW name
  PROVE  Count(Append(doc, x), name) = Count(doc, name) + IF x.name = name THEN 1 ELSE 0
<1>1. Append(doc, x) = doc \o <<x>> /\ <<x>> \in Seq(Rows)
  OBVIOUS
<1>2. Count(doc \o <<x>>, name) = Count(doc, name) + Count(<<x>>, name)
  BY <1>1, CountConcat
<1> QED  BY <1>1, <1>2, CountOne

(* Tables apart: a name counts in one or in the other.                   *)
LEMMA CountEither ==
  ASSUME NEW Rows, NEW doc \in Seq(Rows), NEW name, NEW first, NEW second, first \cap second = {}
  PROVE  Count(Only(doc, first \cup second), name)
           = Count(Only(doc, first), name) + Count(Only(doc, second), name)
<1> DEFINE all == first \cup second
           T == {s \in Seq(Rows) : Count(Only(s, all), name)
                                  = Count(Only(s, first), name) + Count(Only(s, second), name)}
<1>0. <<>> \in Seq(Rows)
  OBVIOUS
<1>1. <<>> \in T
  <2>1. Named(<<>>, name) = {}
    BY DEF Named
  <2>2. Count(<<>>, name) = 0
    BY <1>0, <2>1, NamedFinite
  <2> QED  BY <1>0, <2>2, OnlyEmpty
<1>2. ASSUME NEW s \in Seq(Rows), s \in T, NEW x \in Rows PROVE Append(s, x) \in T
  <2> DEFINE w(Q) == Count(Only(s, Q), name)
             one == IF x.name = name THEN 1 ELSE 0
  <2>1. ASSUME NEW Q
        PROVE  Count(Only(Append(s, x), Q), name) = w(Q) + IF x \in Q THEN one ELSE 0
    <3>1. Only(Append(s, x), Q) = IF x \in Q THEN Append(Only(s, Q), x) ELSE Only(s, Q)
      BY OnlyAppend
    <3>2. Only(s, Q) \in Seq(Rows)
      BY OnlyType
    <3>3. Count(Append(Only(s, Q), x), name) = w(Q) + one
      BY <3>2, CountAppend
    <3>4. w(Q) \in Nat
      BY <3>2, NamedFinite
    <3> HIDE DEF one
    <3> QED  BY <3>1, <3>3, <3>4
  <2>2. \A Q : w(Q) \in Nat
    <3> SUFFICES ASSUME NEW Q PROVE w(Q) \in Nat
      OBVIOUS
    <3>1. Only(s, Q) \in Seq(Rows)
      BY OnlyType
    <3> QED  BY <3>1, NamedFinite
  <2>3. w(all) = w(first) + w(second)
    BY <1>2
  <2>4. x \in all <=> x \in first \/ x \in second
    OBVIOUS
  <2>5. ~ (x \in first /\ x \in second)
    OBVIOUS
  <2>6. /\ Count(Only(Append(s, x), all), name) = w(all) + IF x \in all THEN one ELSE 0
        /\ Count(Only(Append(s, x), first), name) = w(first) + IF x \in first THEN one ELSE 0
        /\ Count(Only(Append(s, x), second), name) = w(second) + IF x \in second THEN one ELSE 0
    BY <2>1
  <2>7. Append(s, x) \in Seq(Rows)
    OBVIOUS
  <2>8. w(all) \in Nat /\ w(first) \in Nat /\ w(second) \in Nat /\ one \in Nat
    BY <2>2
  <2> HIDE DEF w, one, all
  <2>9. Count(Only(Append(s, x), all), name)
          = Count(Only(Append(s, x), first), name) + Count(Only(Append(s, x), second), name)
    BY <2>3, <2>4, <2>5, <2>6, <2>8
  <2> QED  BY <2>7, <2>9
<1> HIDE DEF T
<1>3. Seq(Rows) \subseteq T
  BY <1>1, <1>2, OnSequences
<1>4. doc \in T
  BY <1>3
<1> QED  BY <1>4 DEF T

(* Sections apart: a name counts in one or in the other.                   *)
LEMMA CountSplit ==
  ASSUME NEW Rows, NEW doc \in Seq(Rows), NEW name, NEW first, NEW second, first \cap second = {}
  PROVE  Count(Within(doc, first \cup second), name)
           = Count(Within(doc, first), name) + Count(Within(doc, second), name)
<1>1. In(Rows, first) \cap In(Rows, second) = {}
        /\ In(Rows, first \cup second) = In(Rows, first) \cup In(Rows, second)
  BY DEF In
<1>2. /\ Within(doc, first) = Only(doc, In(Rows, first))
      /\ Within(doc, second) = Only(doc, In(Rows, second))
      /\ Within(doc, first \cup second) = Only(doc, In(Rows, first \cup second))
  BY WithinOnly
<1>3. Count(Only(doc, In(Rows, first) \cup In(Rows, second)), name)
        = Count(Only(doc, In(Rows, first)), name) + Count(Only(doc, In(Rows, second)), name)
  BY <1>1, CountEither
<1> QED  BY <1>1, <1>2, <1>3

(* Tables apart: each is chosen with one or with the other.                *)
LEMMA LengthEither ==
  ASSUME NEW Rows, NEW doc \in Seq(Rows), NEW A, NEW B, A \cap B = {}
  PROVE  Len(Only(doc, A \cup B)) = Len(Only(doc, A)) + Len(Only(doc, B))
<1> DEFINE T == {s \in Seq(Rows) : Len(Only(s, A \cup B)) = Len(Only(s, A)) + Len(Only(s, B))}
<1>1. <<>> \in T
  <2>1. <<>> \in Seq(Rows) /\ Len(<<>>) = 0
    OBVIOUS
  <2> QED  BY <2>1, OnlyEmpty
<1>2. ASSUME NEW s \in Seq(Rows), s \in T, NEW x \in Rows PROVE Append(s, x) \in T
  <2> DEFINE w(Q) == Len(Only(s, Q))
  <2>1. ASSUME NEW Q
        PROVE  w(Q) \in Nat /\ Len(Only(Append(s, x), Q)) = IF x \in Q THEN w(Q) + 1 ELSE w(Q)
    <3>1. Only(Append(s, x), Q) = IF x \in Q THEN Append(Only(s, Q), x) ELSE Only(s, Q)
      BY OnlyAppend
    <3>2. Only(s, Q) \in Seq(Rows)
      BY OnlyType
    <3> QED  BY <3>1, <3>2
  <2>2. w(A \cup B) = w(A) + w(B)
    BY <1>2
  <2>3. Append(s, x) \in Seq(Rows)
    OBVIOUS
  <2>4. (x \in A \cup B <=> x \in A \/ x \in B) /\ ~ (x \in A /\ x \in B)
    OBVIOUS
  <2>5. /\ w(A) \in Nat /\ w(B) \in Nat
        /\ Len(Only(Append(s, x), A)) = IF x \in A THEN w(A) + 1 ELSE w(A)
        /\ Len(Only(Append(s, x), B)) = IF x \in B THEN w(B) + 1 ELSE w(B)
        /\ Len(Only(Append(s, x), A \cup B)) = IF x \in A \cup B THEN w(A \cup B) + 1 ELSE w(A \cup B)
    BY <2>1
  <2> HIDE DEF w
  <2>6. Len(Only(Append(s, x), A \cup B)) = Len(Only(Append(s, x), A)) + Len(Only(Append(s, x), B))
    BY <2>2, <2>4, <2>5
  <2> QED  BY <2>3, <2>6
<1> HIDE DEF T
<1>3. Seq(Rows) \subseteq T
  BY <1>1, <1>2, OnSequences
<1>4. doc \in T
  BY <1>3
<1> QED  BY <1>4 DEF T

(* The tables of two parts.                                                *)
LEMMA TablesConcat ==
  ASSUME NEW Rows, NEW s \in Seq(Rows), NEW t \in Seq(Rows)
  PROVE  ToSet(s \o t) = ToSet(s) \cup ToSet(t)
<1> DEFINE m == Len(s)
           n == Len(t)
           u == s \o t
<1>1. /\ m \in Nat /\ n \in Nat /\ DOMAIN s = 1..m /\ DOMAIN t = 1..n /\ DOMAIN u = 1..(m + n)
      /\ \A i \in 1..m : u[i] = s[i]
  OBVIOUS
<1>2. \A i \in 1..n : u[m + i] = t[i]
  OBVIOUS
<1> HIDE DEF m, n, u
<1>3. ASSUME NEW x \in ToSet(u) PROVE x \in ToSet(s) \cup ToSet(t)
  <2>1. PICK i \in 1..(m + n) : x = u[i]
    BY <1>1 DEF ToSet
  <2>2. CASE i \in 1..m
    BY <1>1, <2>1, <2>2 DEF ToSet
  <2>3. CASE i \notin 1..m
    <3>1. i - m \in 1..n /\ m + (i - m) = i
      BY <1>1, <2>3
    <3> QED  BY <1>1, <1>2, <2>1, <3>1 DEF ToSet
  <2> QED  BY <2>2, <2>3
<1>4. ASSUME NEW x \in ToSet(s) PROVE x \in ToSet(u)
  <2>1. PICK i \in 1..m : x = s[i]
    BY <1>1 DEF ToSet
  <2>2. i \in 1..(m + n) /\ u[i] = x
    BY <1>1, <2>1
  <2> QED  BY <1>1, <2>2 DEF ToSet
<1>5. ASSUME NEW x \in ToSet(t) PROVE x \in ToSet(u)
  <2>1. PICK i \in 1..n : x = t[i]
    BY <1>1 DEF ToSet
  <2>2. m + i \in 1..(m + n) /\ u[m + i] = x
    BY <1>1, <1>2, <2>1
  <2> QED  BY <1>1, <2>2 DEF ToSet
<1>6. ToSet(u) = ToSet(s) \cup ToSet(t)
  BY <1>3, <1>4, <1>5
<1> QED  BY <1>6 DEF u

(* What is chosen are the tables chosen from.                              *)
LEMMA OnlyTables ==
  ASSUME NEW Rows, NEW doc \in Seq(Rows), NEW A PROVE ToSet(Only(doc, A)) = ToSet(doc) \cap A
<1> DEFINE T == {s \in Seq(Rows) : ToSet(Only(s, A)) = ToSet(s) \cap A}
<1>0. ToSet(<<>>) = {}
  BY DEF ToSet
<1>1. <<>> \in T
  <2>1. <<>> \in Seq(Rows)
    OBVIOUS
  <2> QED  BY <1>0, <2>1, OnlyEmpty
<1>2. ASSUME NEW s \in Seq(Rows), s \in T, NEW x \in Rows PROVE Append(s, x) \in T
  <2>1. Only(Append(s, x), A) = IF x \in A THEN Append(Only(s, A), x) ELSE Only(s, A)
    BY OnlyAppend
  <2>2. Only(s, A) \in Seq(Rows) /\ <<x>> \in Seq(Rows) /\ Append(s, x) \in Seq(Rows)
    BY OnlyType
  <2>3. ToSet(<<x>>) = {x}
    <3>1. DOMAIN <<x>> = {1} /\ <<x>>[1] = x
      OBVIOUS
    <3> QED  BY <3>1 DEF ToSet
  <2>4. ASSUME NEW q \in Seq(Rows) PROVE ToSet(Append(q, x)) = ToSet(q) \cup {x}
    <3>1. Append(q, x) = q \o <<x>>
      OBVIOUS
    <3>2. ToSet(q \o <<x>>) = ToSet(q) \cup ToSet(<<x>>)
      BY <2>2, TablesConcat, Zenon
    <3> QED  BY <2>3, <3>1, <3>2
  <2>5. ToSet(Append(s, x)) = ToSet(s) \cup {x} /\ ToSet(Append(Only(s, A), x)) = ToSet(Only(s, A)) \cup {x}
    BY <2>2, <2>4
  <2>6. ToSet(Only(s, A)) = ToSet(s) \cap A
    BY <1>2
  <2>7. ToSet(Only(Append(s, x), A)) = ToSet(Append(s, x)) \cap A
    <3>1. CASE x \in A
      BY <2>1, <2>5, <2>6, <3>1
    <3>2. CASE x \notin A
      BY <2>1, <2>5, <2>6, <3>2
    <3> QED  BY <3>1, <3>2
  <2> QED  BY <2>2, <2>7
<1> HIDE DEF T
<1>3. Seq(Rows) \subseteq T
  BY <1>1, <1>2, OnSequences
<1>4. doc \in T
  BY <1>3
<1> QED  BY <1>4 DEF T

LEMMA AbsentNarrows ==
  ASSUME NEW Rows, NEW doc \in Seq(Rows), NEW name, Count(doc, name) = 0
  PROVE  doc \in Seq({x \in Rows : x.name # name})
<1> DEFINE R == {x \in Rows : x.name # name}
<1>1. \A i \in 1..Len(doc) : doc[i] \in Rows /\ doc[i].name # name
  <2>1. Named(doc, name) = {}
    BY NamedFinite
  <2>2. DOMAIN doc = 1..Len(doc)
    OBVIOUS
  <2> QED  BY <2>1, <2>2 DEF Named
<1>2. \A i \in 1..Len(doc) : doc[i] \in R
  BY <1>1
<1>3. doc = [i \in 1..Len(doc) |-> doc[i]] /\ Len(doc) \in Nat
  OBVIOUS
<1> HIDE DEF R
<1>4. [i \in 1..Len(doc) |-> doc[i]] \in Seq(R)
  BY <1>2, <1>3, IsASeq
<1> QED  BY <1>3, <1>4 DEF R

(* One part after the other, as an operator of its own.                    *)
Joint(s, t) == s \o t

(* What is known of two parts, one after the other.                        *)
LEMMA JointFacts ==
  ASSUME NEW Rows, NEW s \in Seq(Rows), NEW t \in Seq(Rows)
  PROVE  /\ Joint(s, t) \in Seq(Rows)
         /\ \A Q : Within(Joint(s, t), Q) = Joint(Within(s, Q), Within(t, Q))
         /\ \A n : Count(Joint(s, t), n) = Count(s, n) + Count(t, n)
<1>1. Joint(s, t) \in Seq(Rows)
  BY DEF Joint
<1>2. ASSUME NEW Q PROVE Within(Joint(s, t), Q) = Joint(Within(s, Q), Within(t, Q))
  <2>1. Within(s \o t, Q) = Within(s, Q) \o Within(t, Q)
    BY WithinConcat
  <2> QED  BY <2>1 DEF Joint
<1>3. ASSUME NEW n PROVE Count(Joint(s, t), n) = Count(s, n) + Count(t, n)
  <2>1. Count(s \o t, n) = Count(s, n) + Count(t, n)
    BY CountConcat
  <2> QED  BY <2>1 DEF Joint
<1> QED  BY <1>1, <1>2, <1>3

LEMMA JointEmpty ==
  ASSUME NEW Rows, NEW s \in Seq(Rows) PROVE Joint(s, <<>>) = s /\ Joint(<<>>, s) = s
BY DEF Joint

(* What the tool writes.                                                   *)
Joined(oiled, source) ==
  Joint(Joint(Within(oiled, {"parent", "stock"}), Within(source, {"avls"})), Within(oiled, {"after"}))

(* The sections and the names of what is written.                          *)
LEMMA JoinedType ==
  ASSUME NEW Rows, NEW oiled \in Seq(Rows), NEW source \in Seq(Rows)
  PROVE  /\ Joined(oiled, source) \in Seq(Rows)
         /\ \A Q : Within(Joined(oiled, source), Q)
                     = Joint(Joint(Within(oiled, {"parent", "stock"} \cap Q),
                                   Within(source, {"avls"} \cap Q)),
                             Within(oiled, {"after"} \cap Q))
         /\ \A n : Count(Joined(oiled, source), n)
                     = Count(Within(oiled, {"parent", "stock"}), n) + Count(Within(source, {"avls"}), n)
                         + Count(Within(oiled, {"after"}), n)
<1> DEFINE K == Within(oiled, {"parent", "stock"})
           A == Within(source, {"avls"})
           F == Within(oiled, {"after"})
<1>1. K \in Seq(Rows) /\ A \in Seq(Rows) /\ F \in Seq(Rows)
  BY WithinType
<1>2. \A Q : /\ Within(K, Q) = Within(oiled, {"parent", "stock"} \cap Q)
             /\ Within(A, Q) = Within(source, {"avls"} \cap Q)
             /\ Within(F, Q) = Within(oiled, {"after"} \cap Q)
  BY WithinTwice
<1>3. Joined(oiled, source) = Joint(Joint(K, A), F)
  BY DEF Joined
<1> HIDE DEF K, A, F
<1>4. Joint(K, A) \in Seq(Rows)
  BY <1>1, JointFacts
<1>5. Joint(Joint(K, A), F) \in Seq(Rows)
  BY <1>1, <1>4, JointFacts
<1>6. \A Q : Within(Joint(Joint(K, A), F), Q) = Joint(Within(Joint(K, A), Q), Within(F, Q))
  BY <1>1, <1>4, JointFacts
<1>7. \A Q : Within(Joint(K, A), Q) = Joint(Within(K, Q), Within(A, Q))
  BY <1>1, JointFacts
<1>8. \A n : Count(Joint(Joint(K, A), F), n) = Count(Joint(K, A), n) + Count(F, n)
  BY <1>1, <1>4, JointFacts
<1>9. \A n : Count(Joint(K, A), n) = Count(K, n) + Count(A, n)
  BY <1>1, JointFacts
<1>a. \A Q : Within(Joined(oiled, source), Q)
              = Joint(Joint(Within(oiled, {"parent", "stock"} \cap Q), Within(source, {"avls"} \cap Q)),
                      Within(oiled, {"after"} \cap Q))
  BY <1>2, <1>3, <1>6, <1>7
<1>b. \A n : Count(Joined(oiled, source), n) = Count(K, n) + Count(A, n) + Count(F, n)
  BY <1>3, <1>8, <1>9
<1> QED  BY <1>3, <1>5, <1>a, <1>b DEF K, A, F

LEMMA WithinNowhere ==
  ASSUME NEW Rows, NEW doc \in Seq(Rows) PROVE Within(doc, {}) = <<>>
<1>1. \A x \in Rows : x.rom \notin {}
  OBVIOUS
<1> QED  BY <1>1, WithinNone

(* Read back, it has the sections it was made of.                          *)
LEMMA JoinedParts ==
  ASSUME NEW Rows, NEW oiled \in Seq(Rows), NEW source \in Seq(Rows)
  PROVE  LET r == Joined(oiled, source)
         IN /\ Within(r, {"parent"}) = Within(oiled, {"parent"})
            /\ Within(r, {"stock"}) = Within(oiled, {"stock"})
            /\ Within(r, {"parent", "stock"}) = Within(oiled, {"parent", "stock"})
            /\ Within(r, {"avls"}) = Within(source, {"avls"})
            /\ Within(r, {"after"}) = Within(oiled, {"after"})
            /\ Within(r, {"stock", "avls", "after"})
                 = Joint(Joint(Within(oiled, {"stock"}), Within(source, {"avls"})),
                         Within(oiled, {"after"}))
<1> DEFINE r == Joined(oiled, source)
           PS == {"parent", "stock"}
<1>0. \A Q : Within(r, Q) = Joint(Joint(Within(oiled, PS \cap Q), Within(source, {"avls"} \cap Q)),
                                   Within(oiled, {"after"} \cap Q))
  BY JoinedType
<1>1. Within(oiled, {}) = <<>> /\ Within(source, {}) = <<>>
  BY WithinNowhere
<1>2. \A Q : Within(oiled, Q) \in Seq(Rows) /\ Within(source, Q) \in Seq(Rows)
  BY WithinType
<1>3. \A s \in Seq(Rows) : Joint(s, <<>>) = s /\ Joint(<<>>, s) = s
  BY JointEmpty
<1>4. PS \cap {"parent"} = {"parent"} /\ {"avls"} \cap {"parent"} = {} /\ {"after"} \cap {"parent"} = {}
  OBVIOUS
<1>5. PS \cap {"stock"} = {"stock"} /\ {"avls"} \cap {"stock"} = {} /\ {"after"} \cap {"stock"} = {}
  OBVIOUS
<1>6. PS \cap PS = PS /\ {"avls"} \cap PS = {} /\ {"after"} \cap PS = {}
  OBVIOUS
<1>7. PS \cap {"avls"} = {} /\ {"avls"} \cap {"avls"} = {"avls"} /\ {"after"} \cap {"avls"} = {}
  OBVIOUS
<1>8. PS \cap {"after"} = {} /\ {"avls"} \cap {"after"} = {} /\ {"after"} \cap {"after"} = {"after"}
  OBVIOUS
<1>9. /\ PS \cap {"stock", "avls", "after"} = {"stock"}
      /\ {"avls"} \cap {"stock", "avls", "after"} = {"avls"}
      /\ {"after"} \cap {"stock", "avls", "after"} = {"after"}
  OBVIOUS
<1> HIDE DEF r, PS
<1>a. Within(r, {"parent"}) = Within(oiled, {"parent"})
  <2>1. Within(r, {"parent"}) = Joint(Joint(Within(oiled, {"parent"}), <<>>), <<>>)
    BY <1>0, <1>1, <1>4
  <2> QED  BY <1>2, <1>3, <2>1
<1>b. Within(r, {"stock"}) = Within(oiled, {"stock"})
  <2>1. Within(r, {"stock"}) = Joint(Joint(Within(oiled, {"stock"}), <<>>), <<>>)
    BY <1>0, <1>1, <1>5
  <2> QED  BY <1>2, <1>3, <2>1
<1>c. Within(r, PS) = Within(oiled, PS)
  <2>1. Within(r, PS) = Joint(Joint(Within(oiled, PS), <<>>), <<>>)
    BY <1>0, <1>1, <1>6
  <2> QED  BY <1>2, <1>3, <2>1
<1>d. Within(r, {"avls"}) = Within(source, {"avls"})
  <2>1. Within(r, {"avls"}) = Joint(Joint(<<>>, Within(source, {"avls"})), <<>>)
    BY <1>0, <1>1, <1>7
  <2> QED  BY <1>2, <1>3, <2>1
<1>e. Within(r, {"after"}) = Within(oiled, {"after"})
  <2>1. Within(r, {"after"}) = Joint(Joint(<<>>, <<>>), Within(oiled, {"after"}))
    BY <1>0, <1>1, <1>8
  <2>2. Joint(<<>>, <<>>) = <<>>
    BY DEF Joint
  <2> QED  BY <1>2, <1>3, <2>1, <2>2
<1>f. Within(r, {"stock", "avls", "after"})
        = Joint(Joint(Within(oiled, {"stock"}), Within(source, {"avls"})), Within(oiled, {"after"}))
  BY <1>0, <1>9
<1> QED  BY <1>a, <1>b, <1>c, <1>d, <1>e, <1>f DEF r, PS

(* The two scalings.                                                       *)
Oil == "Oil Temp Scaling"
Fuel == "Fuel Temp Scaling"

(* With the oil scaling once in the templates and once in the stock        *)
(* tables, and twice in all, what is written has it nowhere else, and      *)
(* writing it again writes the same.                                       *)
LEMMA SyncResult ==
  ASSUME NEW Rows, NEW source \in Seq(Rows), NEW oiled \in Seq(Rows),
         NEW r, r = Joined(oiled, source),
         Count(Within(oiled, {"parent"}), Oil) = 1, Count(Within(oiled, {"stock"}), Oil) = 1,
         Count(r, Oil) = 2
  PROVE  /\ r \in Seq(Rows)
         /\ Within(r, {"avls"}) = Within(source, {"avls"})
         /\ Within(r, {"after"}) = Within(oiled, {"after"})
         /\ Count(Within(r, {"parent"}), Oil) = 1
         /\ Count(Within(r, {"stock"}), Oil) = 1
         /\ Count(Within(r, {"stock", "avls", "after"}), Oil) = 1
         /\ Joined(r, source) = r
<1> DEFINE PS == {"parent", "stock"}
           A == Within(source, {"avls"})
           F == Within(oiled, {"after"})
           PT == Within(oiled, {"parent"})
           K == Within(oiled, {"stock"})
<1>1. r \in Seq(Rows)
  BY JoinedType
<1>2. /\ Within(r, {"parent"}) = PT
      /\ Within(r, {"stock"}) = K
      /\ Within(r, PS) = Within(oiled, PS)
      /\ Within(r, {"avls"}) = A
      /\ Within(r, {"after"}) = F
      /\ Within(r, {"stock", "avls", "after"}) = Joint(Joint(K, A), F)
  BY JoinedParts
<1>3. Count(r, Oil) = Count(Within(oiled, PS), Oil) + Count(A, Oil) + Count(F, Oil)
  BY JoinedType
<1>4. PS = {"parent"} \cup {"stock"} /\ {"parent"} \cap {"stock"} = {}
  OBVIOUS
<1>5. Count(Within(oiled, PS), Oil) = Count(PT, Oil) + Count(K, Oil)
  <2> DEFINE p == {"parent"}
             k == {"stock"}
  <2>1. PS = p \cup k /\ p \cap k = {}
    BY <1>4
  <2> HIDE DEF p, k, PS
  <2>2. Count(Within(oiled, p \cup k), Oil) = Count(Within(oiled, p), Oil) + Count(Within(oiled, k), Oil)
    BY <2>1, CountSplit
  <2> QED  BY <2>1, <2>2 DEF p, k
<1>6. A \in Seq(Rows) /\ F \in Seq(Rows) /\ PT \in Seq(Rows) /\ K \in Seq(Rows)
  BY WithinType
<1>7. Count(A, Oil) \in Nat /\ Count(F, Oil) \in Nat
  BY <1>6, NamedFinite
<1>8. Count(A, Oil) = 0 /\ Count(F, Oil) = 0
  BY <1>3, <1>5, <1>7
<1>9. Count(PT, Oil) = 1 /\ Count(K, Oil) = 1
  OBVIOUS
<1>a. Joined(r, source) = r
  BY <1>2 DEF Joined
<1> HIDE DEF A, F, PT, K
<1>b. Count(Joint(Joint(K, A), F), Oil) = 1
  <2>1. Joint(K, A) \in Seq(Rows)
    BY <1>6, JointFacts
  <2>2. Count(Joint(Joint(K, A), F), Oil) = Count(Joint(K, A), Oil) + Count(F, Oil)
    BY <1>6, <2>1, JointFacts
  <2>3. Count(Joint(K, A), Oil) = Count(K, Oil) + Count(A, Oil)
    BY <1>6, JointFacts
  <2> QED  BY <1>8, <1>9, <2>2, <2>3
<1> QED  BY <1>1, <1>2, <1>9, <1>a, <1>b DEF A, F

LEMMA WithinOne ==
  ASSUME NEW x, NEW sections
  PROVE  Within(<<x>>, sections) = IF x.rom \in sections THEN <<x>> ELSE <<>>
<1>1. <<>> \in Seq({x}) /\ x \in {x} /\ Append(<<>>, x) = <<x>>
  OBVIOUS
<1>2. Within(Append(<<>>, x), sections)
        = IF x.rom \in sections THEN Append(Within(<<>>, sections), x) ELSE Within(<<>>, sections)
  BY <1>1, WithinAppend
<1> QED  BY <1>1, <1>2, WithinEmpty

LEMMA CountNothing == \A name : Count(<<>>, name) = 0
<1> TAKE name
<1>1. Named(<<>>, name) = {}
  BY DEF Named
<1> QED  BY <1>1, FS_EmptySet DEF Count

(* A set of places has a first and a last one.                             *)
LEMMA Extremes ==
  ASSUME NEW m \in Nat, NEW N, N \subseteq 1..m, N # {}
  PROVE  Min(N) \in N /\ Max(N) \in N
<1>1. N \subseteq Nat
  OBVIOUS
<1>2. \E j \in N : \A k \in N : j <= k
  BY <1>1, LeastMember
<1> DEFINE M == {m - i : i \in N}
<1>3. M \subseteq Nat /\ M # {}
  <2>1. \A i \in 1..m : m - i \in Nat
    OBVIOUS
  <2> QED  BY <2>1
<1> HIDE DEF M
<1>4. PICK j \in M : \A k \in M : j <= k
  BY <1>3, LeastMember
<1>5. PICK i \in N : j = m - i
  BY <1>4 DEF M
<1>6. \A k \in N : m - k \in M
  BY DEF M
<1>7. \A k \in N : k <= i
  BY <1>1, <1>4, <1>5, <1>6
<1>8. Min(N) \in N
  BY <1>2 DEF Min
<1>9. Max(N) \in N
  BY <1>7 DEF Max
<1> QED  BY <1>8, <1>9

LEMMA ExtremesOfTwo ==
  ASSUME NEW a \in Nat, NEW b \in Nat, a < b PROVE Min({a, b}) = a /\ Max({a, b}) = b
<1>1. Min({a, b}) = a
  BY DEF Min
<1>2. Max({a, b}) = b
  BY DEF Max
<1> QED  BY <1>1, <1>2

(* The places of two parts, one after the other.                           *)
LEMMA ConcatReads ==
  ASSUME NEW Rows, NEW s \in Seq(Rows), NEW t \in Seq(Rows), NEW m, NEW n, m = Len(s), n = m + Len(t)
  PROVE  /\ s \o t \in Seq(Rows)
         /\ Len(s \o t) = n
         /\ \A i \in 1..n : (s \o t)[i] = IF i <= m THEN s[i] ELSE t[i - m]
<1>1. m \in Nat /\ n \in Nat
  OBVIOUS
<1>2. s \o t \in Seq(Rows) /\ Len(s \o t) = Len(s) + Len(t)
  OBVIOUS
<1>3. \A i \in 1..(Len(s) + Len(t)) : (s \o t)[i] = IF i <= Len(s) THEN s[i] ELSE t[i - Len(s)]
  OBVIOUS
<1> QED  BY <1>1, <1>2, <1>3

(* A definition cut at two places.                                         *)
LEMMA CutInThree ==
  ASSUME NEW Rows, NEW doc \in Seq(Rows), NEW a \in 1..Len(doc), NEW b \in 1..Len(doc), a < b
  PROVE  /\ SubSeq(doc, 1, a) \in Seq(Rows) /\ SubSeq(doc, a + 1, b) \in Seq(Rows)
         /\ SubSeq(doc, b + 1, Len(doc)) \in Seq(Rows)
         /\ doc = Joint(Joint(SubSeq(doc, 1, a), SubSeq(doc, a + 1, b)), SubSeq(doc, b + 1, Len(doc)))
<1>1. SubSeq(doc, 1, a) \in Seq(Rows) /\ SubSeq(doc, a + 1, b) \in Seq(Rows)
      /\ SubSeq(doc, b + 1, Len(doc)) \in Seq(Rows)
  OBVIOUS
<1> DEFINE p == SubSeq(doc, 1, a)
           q == SubSeq(doc, a + 1, b)
           t == SubSeq(doc, b + 1, Len(doc))
           n == Len(doc)
<1>2. n \in Nat /\ Len(p) = a /\ Len(q) = b - a /\ Len(t) = n - b
  OBVIOUS
<1>3. \A i \in 1..a : p[i] = doc[i]
  OBVIOUS
<1>4. \A i \in 1..(b - a) : q[i] = doc[a + i]
  OBVIOUS
<1>5. \A i \in 1..(n - b) : t[i] = doc[b + i]
  OBVIOUS
<1>6. doc = [i \in 1..n |-> doc[i]] /\ a \in 1..n /\ b \in 1..n /\ a < b
  OBVIOUS
<1> HIDE DEF p, q, t, n
<1> DEFINE w == p \o q
<1>7. w \in Seq(Rows) /\ Len(w) = b /\ \A i \in 1..b : w[i] = doc[i]
  <2>0. p \in Seq(Rows) /\ q \in Seq(Rows) /\ a = Len(p) /\ b = a + Len(q)
    <3>1. p \in Seq(Rows) /\ q \in Seq(Rows)
      BY <1>1 DEF p, q
    <3> QED  BY <1>2, <1>6, <3>1
  <2>1. w \in Seq(Rows) /\ Len(w) = b
    BY <2>0, ConcatReads
  <2>2. \A i \in 1..b : w[i] = IF i <= a THEN p[i] ELSE q[i - a]
    BY <2>0, ConcatReads
  <2>3. \A i \in 1..b : i <= a \/ (i - a \in 1..(b - a) /\ a + (i - a) = i)
    BY <1>2, <1>6
  <2>4. \A i \in 1..b : i <= a => i \in 1..a
    BY <1>2, <1>6
  <2> HIDE DEF w
  <2> QED  BY <1>3, <1>4, <2>1, <2>2, <2>3, <2>4
<1> HIDE DEF w
<1> DEFINE z == w \o t
<1>8. z \in Seq(Rows) /\ Len(z) = n /\ \A i \in 1..n : z[i] = doc[i]
  <2>0. t \in Seq(Rows)
    BY <1>1 DEF t, n
  <2>a. w \in Seq(Rows) /\ b = Len(w) /\ n = b + Len(t)
    BY <1>2, <1>6, <1>7
  <2>1. z \in Seq(Rows) /\ Len(z) = n
    BY <2>0, <2>a, ConcatReads
  <2>2. \A i \in 1..n : z[i] = IF i <= b THEN w[i] ELSE t[i - b]
    BY <2>0, <2>a, ConcatReads
  <2>3. \A i \in 1..n : i <= b \/ (i - b \in 1..(n - b) /\ b + (i - b) = i)
    BY <1>2, <1>6
  <2>4. \A i \in 1..n : i <= b => i \in 1..b
    BY <1>2, <1>6
  <2> HIDE DEF z
  <2> QED  BY <1>5, <1>7, <2>1, <2>2, <2>3, <2>4
<1>9. z = [i \in 1..n |-> z[i]]
  <2> HIDE DEF z
  <2> QED  BY <1>8
<1>a. z = doc
  <2> HIDE DEF z
  <2> QED  BY <1>6, <1>8, <1>9
<1> QED  BY <1>1, <1>a DEF Joint, w, p, q, t, n

(* The oil scaling inserted after the two fuel tables stands once in the   *)
(* templates and once in the stock tables, and what comes after is as it   *)
(* was.                                                                    *)
LEMMA OilInserted ==
  ASSUME NEW Rows, NEW source \in Seq(Rows), NEW doc \in Seq(Rows),
         Count(source, Oil) = 2, Count(doc, Oil) = 0,
         NEW a \in 1..Len(doc), NEW b \in 1..Len(doc), a < b, Named(doc, Fuel) = {a, b},
         doc[a].rom = "parent", doc[b].rom = "stock"
  PROVE  \E T : /\ Rows \subseteq T
                /\ InsertOil(source, doc) \in Seq(T)
                /\ Count(Within(InsertOil(source, doc), {"parent"}), Oil) = 1
                /\ Count(Within(InsertOil(source, doc), {"stock"}), Oil) = 1
                /\ Within(InsertOil(source, doc), {"after"}) = Within(doc, {"after"})
<1> DEFINE N == Named(source, Oil)
           x == InSection(source[Min(N)], "parent")
           y == InSection(source[Max(N)], "stock")
           T == Rows \cup {x, y}
           P1 == SubSeq(doc, 1, a)
           P2 == SubSeq(doc, a + 1, b)
           P3 == SubSeq(doc, b + 1, Len(doc))
           X == <<x>>
           Y == <<y>>
           J1 == Joint(P1, X)
           J2 == Joint(J1, P2)
           J3 == Joint(J2, Y)
           J4 == Joint(J3, P3)
<1>1. Min(N) \in N /\ Max(N) \in N
  <2>1. N # {}
    BY NamedFinite
  <2>2. N \subseteq 1..Len(source) /\ Len(source) \in Nat
    BY DEF Named
  <2> QED  BY <2>1, <2>2, Extremes
<1>2. x.rom = "parent" /\ x.name = Oil /\ y.rom = "stock" /\ y.name = Oil
  BY <1>1 DEF Named, InSection
<1>3. InsertOil(source, doc) = J4
  <2>1. Min({a, b}) = a /\ Max({a, b}) = b
    <3>1. a \in Nat /\ b \in Nat /\ a < b
      OBVIOUS
    <3> QED  BY <3>1, ExtremesOfTwo
  <2>2. Named(doc, "Fuel Temp Scaling") = {a, b} /\ Named(source, "Oil Temp Scaling") = N
    BY DEF Fuel, Oil
  <2> HIDE DEF N
  <2> QED  BY <2>1, <2>2 DEF InsertOil, Joint
<1> DEFINE R == {t \in Rows : t.name # Oil}
<1>4. doc \in Seq(R)
  BY AbsentNarrows
<1>5. P1 \in Seq(R) /\ P2 \in Seq(R) /\ P3 \in Seq(R) /\ doc = Joint(Joint(P1, P2), P3)
  BY <1>4, CutInThree
<1>6. \A t \in R : t.name # Oil
  OBVIOUS
<1>7. R \subseteq T /\ Rows \subseteq T /\ x \in T /\ y \in T
  OBVIOUS
<1> HIDE DEF N, x, y, T, R, P1, P2, P3
<1>x. X = <<x>> /\ Y = <<y>>
  OBVIOUS
<1> HIDE DEF X, Y
<1>8. P1 \in Seq(T) /\ P2 \in Seq(T) /\ P3 \in Seq(T) /\ X \in Seq(T) /\ Y \in Seq(T)
  BY <1>5, <1>7, <1>x, SeqWidens
<1>9. J1 \in Seq(T) /\ J2 \in Seq(T) /\ J3 \in Seq(T) /\ J4 \in Seq(T)
  <2>1. J1 \in Seq(T)
    BY <1>8, JointFacts
  <2> HIDE DEF J1
  <2>2. J2 \in Seq(T)
    BY <1>8, <2>1, JointFacts
  <2> HIDE DEF J2
  <2>3. J3 \in Seq(T)
    BY <1>8, <2>2, JointFacts
  <2> HIDE DEF J3
  <2>4. J4 \in Seq(T)
    BY <1>8, <2>3, JointFacts
  <2> QED  BY <2>1, <2>2, <2>3, <2>4
<1>a. \A Q : Within(J1, Q) = Joint(Within(P1, Q), Within(X, Q))
  BY <1>8, JointFacts
<1>b. \A Q : Within(J2, Q) = Joint(Within(J1, Q), Within(P2, Q))
  <2> HIDE DEF J1
  <2> QED  BY <1>8, <1>9, JointFacts
<1>c. \A Q : Within(J3, Q) = Joint(Within(J2, Q), Within(Y, Q))
  <2> HIDE DEF J2
  <2> QED  BY <1>8, <1>9, JointFacts
<1>d. \A Q : Within(J4, Q) = Joint(Within(J3, Q), Within(P3, Q))
  <2> HIDE DEF J3
  <2> QED  BY <1>8, <1>9, JointFacts
<1> HIDE DEF J1, J2, J3, J4
<1>e. \A Q : /\ Within(P1, Q) \in Seq(T) /\ Within(P2, Q) \in Seq(T) /\ Within(P3, Q) \in Seq(T)
             /\ Within(X, Q) \in Seq(T) /\ Within(Y, Q) \in Seq(T)
             /\ Within(J1, Q) \in Seq(T) /\ Within(J2, Q) \in Seq(T) /\ Within(J3, Q) \in Seq(T)
  BY <1>8, <1>9, WithinType
<1>f. \A Q : Count(Within(P1, Q), Oil) = 0 /\ Count(Within(P2, Q), Oil) = 0
      /\ Count(Within(P3, Q), Oil) = 0
  <2> SUFFICES ASSUME NEW Q
               PROVE Count(Within(P1, Q), Oil) = 0 /\ Count(Within(P2, Q), Oil) = 0
                     /\ Count(Within(P3, Q), Oil) = 0
    OBVIOUS
  <2>1. Within(P1, Q) \in Seq(R) /\ Within(P2, Q) \in Seq(R) /\ Within(P3, Q) \in Seq(R)
    BY <1>5, WithinType
  <2> QED  BY <1>6, <2>1, CountAbsent
<1>g. ASSUME NEW Q
      PROVE  Count(Within(J4, Q), Oil) = Count(Within(X, Q), Oil) + Count(Within(Y, Q), Oil)
  <2>1. Count(Within(J4, Q), Oil) = Count(Within(J3, Q), Oil) + Count(Within(P3, Q), Oil)
    BY <1>d, <1>e, JointFacts
  <2>2. Count(Within(J3, Q), Oil) = Count(Within(J2, Q), Oil) + Count(Within(Y, Q), Oil)
    BY <1>c, <1>e, JointFacts
  <2>3. Count(Within(J2, Q), Oil) = Count(Within(J1, Q), Oil) + Count(Within(P2, Q), Oil)
    BY <1>b, <1>e, JointFacts
  <2>4. Count(Within(J1, Q), Oil) = Count(Within(P1, Q), Oil) + Count(Within(X, Q), Oil)
    BY <1>a, <1>e, JointFacts
  <2>5. Count(Within(X, Q), Oil) \in Nat /\ Count(Within(Y, Q), Oil) \in Nat
    BY <1>e, NamedFinite
  <2> QED  BY <1>f, <2>1, <2>2, <2>3, <2>4, <2>5
<1>h. Count(Within(J4, {"parent"}), Oil) = 1 /\ Count(Within(J4, {"stock"}), Oil) = 1
  <2>1. /\ Within(X, {"parent"}) = X /\ Within(X, {"stock"}) = <<>>
        /\ Within(Y, {"stock"}) = Y /\ Within(Y, {"parent"}) = <<>>
    BY <1>2, <1>x, WithinOne
  <2>2. Count(X, Oil) = 1 /\ Count(Y, Oil) = 1 /\ Count(<<>>, Oil) = 0
    BY <1>2, <1>x, CountOne, CountNothing
  <2> QED  BY <1>g, <2>1, <2>2
<1>i. Within(J4, {"after"}) = Within(doc, {"after"})
  <2> DEFINE w(p) == Within(p, {"after"})
  <2>1. w(X) = <<>> /\ w(Y) = <<>>
    BY <1>2, <1>x, WithinOne
  <2>2. w(J1) = Joint(w(P1), <<>>) /\ w(J2) = Joint(w(J1), w(P2)) /\ w(J3) = Joint(w(J2), <<>>)
          /\ w(J4) = Joint(w(J3), w(P3))
    BY <1>a, <1>b, <1>c, <1>d, <2>1
  <2>3. w(P1) \in Seq(T) /\ w(J2) \in Seq(T)
    BY <1>e
  <2>4. w(doc) = Joint(w(Joint(P1, P2)), w(P3)) /\ w(Joint(P1, P2)) = Joint(w(P1), w(P2))
    <3> DEFINE H == Joint(P1, P2)
    <3>1. H \in Seq(T) /\ \A Q : Within(H, Q) = Joint(Within(P1, Q), Within(P2, Q))
      BY <1>8, JointFacts
    <3> HIDE DEF H
    <3>2. \A Q : Within(Joint(H, P3), Q) = Joint(Within(H, Q), Within(P3, Q))
      BY <1>8, <3>1, JointFacts
    <3> QED  BY <1>5, <3>1, <3>2 DEF H
  <2> HIDE DEF w
  <2>5. w(J4) = w(doc)
    BY <2>2, <2>3, <2>4, JointEmpty
  <2> QED  BY <2>5 DEF w
<1> QED  BY <1>3, <1>7, <1>9, <1>h, <1>i

(* A definition with some tables, from its parts.                          *)
TemplatesOf(tables) == [i \in 1..Len(tables) |-> Template(tables[i][1], tables[i][2])]
ReferencesOf(tables) == [i \in 1..Len(tables) |-> Reference(tables[i][1], tables[i][3])]
Filled(tables) == Joint(Joint(Joint(TemplatesOf(tables), ReferencesOf(tables)), AvlsBlock), Overboost)

(* A sequence is known by its places.                                      *)
LEMMA ByPlaces ==
  ASSUME NEW Rows, NEW n \in Nat, NEW s, s = [i \in 1..n |-> s[i]], \A i \in 1..n : s[i] \in Rows
  PROVE  s \in Seq(Rows) /\ Len(s) = n
<1>1. [i \in 1..n |-> s[i]] \in Seq(Rows)
  BY IsASeq
<1> QED  BY <1>1

(* The two blocks lie in their sections and have neither scaling.          *)
LEMMA Blocks ==
  /\ AvlsBlock \in Seq({t \in {AvlsBlock[i] : i \in 1..4} :
                          t.rom = "avls" /\ t.name \notin {Oil, Fuel}})
  /\ Len(AvlsBlock) = 4
  /\ Overboost \in Seq({t \in {Overboost[i] : i \in 1..2} :
                          t.rom = "after" /\ t.name \notin {Oil, Fuel}})
  /\ Len(Overboost) = 2
<1> DEFINE A == {t \in {AvlsBlock[i] : i \in 1..4} : t.rom = "avls" /\ t.name \notin {Oil, Fuel}}
           O == {t \in {Overboost[i] : i \in 1..2} : t.rom = "after" /\ t.name \notin {Oil, Fuel}}
<1> DEFINE t1 == Typed("avls", "AVLS Pedal Threshold", "AVLS", \h7D480)
           t2 == Typed("avls", "AVLS Engage", "AVLS", \h7D4BC)
           t3 == Typed("avls", "AVLS Release", "AVLS", \h7D4B8)
           t4 == Typed("avls", "AVLS Minimum RPM", "AVLS", \h7D4AC)
<1>t. /\ t1.rom = "avls" /\ t1.name = "AVLS Pedal Threshold"
      /\ t2.rom = "avls" /\ t2.name = "AVLS Engage"
      /\ t3.rom = "avls" /\ t3.name = "AVLS Release"
      /\ t4.rom = "avls" /\ t4.name = "AVLS Minimum RPM"
  BY SMT DEF Typed
<1>u. AvlsBlock = << t1, t2, t3, t4 >>
  BY DEF AvlsBlock
<1> HIDE DEF t1, t2, t3, t4
<1>1. /\ AvlsBlock = [i \in 1..4 |-> AvlsBlock[i]]
      /\ AvlsBlock[1] = t1 /\ AvlsBlock[2] = t2 /\ AvlsBlock[3] = t3 /\ AvlsBlock[4] = t4
  BY SMT, <1>u
<1>2. \A i \in 1..4 : i = 1 \/ i = 2 \/ i = 3 \/ i = 4
  OBVIOUS
<1>3. \A i \in 1..4 : AvlsBlock[i].rom = "avls" /\ AvlsBlock[i].name \notin {Oil, Fuel}
  BY <1>t, <1>1, <1>2 DEF Oil, Fuel
<1>4. \A i \in 1..4 : AvlsBlock[i] \in A
  BY <1>3
<1>5. AvlsBlock = [i \in 1..4 |-> AvlsBlock[i]]
  BY <1>1
<1>6. OverboostTables[1][1] = "Overboost Enable" /\ OverboostTables[2][1] = "Overboost Limit"
  BY DEF OverboostTables
<1>7. \A i \in 1..2 : Overboost[i].rom = "after" /\ Overboost[i].name = OverboostTables[i][1]
  BY DEF Overboost, Typed
<1>8. \A i \in 1..2 : i = 1 \/ i = 2
  OBVIOUS
<1>9. \A i \in 1..2 : Overboost[i] \in O
  BY <1>6, <1>7, <1>8 DEF Oil, Fuel
<1>a. Overboost = [i \in 1..2 |-> Overboost[i]]
  BY DEF Overboost
<1> HIDE DEF A, O
<1>b. AvlsBlock \in Seq(A) /\ Len(AvlsBlock) = 4
  BY <1>4, <1>5, ByPlaces
<1>c. Overboost \in Seq(O) /\ Len(Overboost) = 2
  BY <1>9, <1>a, ByPlaces
<1> QED  BY <1>b, <1>c DEF A, O

(* The templates and the references of some tables.                        *)
LEMMA BodyParts ==
  ASSUME NEW tables, NEW n \in Nat, Len(tables) = n
  PROVE  \E PT, R : /\ TemplatesOf(tables) \in Seq(PT) /\ \A t \in PT : t.rom = "parent"
                   /\ ReferencesOf(tables) \in Seq(R) /\ \A t \in R : t.rom = "stock"
                   /\ Len(TemplatesOf(tables)) = n /\ Len(ReferencesOf(tables)) = n
                   /\ \A i \in 1..n : /\ TemplatesOf(tables)[i].rom = "parent"
                                      /\ TemplatesOf(tables)[i].name = tables[i][1]
                                      /\ ReferencesOf(tables)[i].rom = "stock"
                                      /\ ReferencesOf(tables)[i].name = tables[i][1]
<1> DEFINE p == TemplatesOf(tables)
           r == ReferencesOf(tables)
           PT == {p[i] : i \in 1..n}
           R == {r[i] : i \in 1..n}
<1>1. \A i \in 1..n : p[i].rom = "parent" /\ p[i].name = tables[i][1]
  BY DEF TemplatesOf, Template
<1>2. \A i \in 1..n : r[i].rom = "stock" /\ r[i].name = tables[i][1]
  BY DEF ReferencesOf, Reference
<1>3. p = [i \in 1..n |-> p[i]] /\ r = [i \in 1..n |-> r[i]]
  BY DEF TemplatesOf, ReferencesOf
<1>4. (\A t \in PT : t.rom = "parent") /\ (\A t \in R : t.rom = "stock")
  BY <1>1, <1>2
<1>5. \A i \in 1..n : p[i] \in PT /\ r[i] \in R
  OBVIOUS
<1> HIDE DEF p, r, PT, R
<1>6. p \in Seq(PT) /\ Len(p) = n /\ r \in Seq(R) /\ Len(r) = n
  BY <1>3, <1>5, ByPlaces
<1>7. \E PP, RR : /\ p \in Seq(PP) /\ \A t \in PP : t.rom = "parent"
                  /\ r \in Seq(RR) /\ \A t \in RR : t.rom = "stock"
  BY <1>4, <1>6
<1> QED  BY <1>1, <1>2, <1>6, <1>7 DEF p, r

LEMMA BodyNames ==
  ASSUME NEW tables, Len(tables) \in Nat
  PROVE  /\ Len(TemplatesOf(tables)) = Len(tables) /\ Len(ReferencesOf(tables)) = Len(tables)
         /\ \A i \in 1..Len(tables) : /\ TemplatesOf(tables)[i].rom = "parent"
                                      /\ TemplatesOf(tables)[i].name = tables[i][1]
                                      /\ ReferencesOf(tables)[i].rom = "stock"
                                      /\ ReferencesOf(tables)[i].name = tables[i][1]
<1> DEFINE n == Len(tables)
           p == TemplatesOf(tables)
           r == ReferencesOf(tables)
           PT == {p[i] : i \in 1..n}
           R == {r[i] : i \in 1..n}
<1>1. \A i \in 1..n : p[i].rom = "parent" /\ p[i].name = tables[i][1]
  BY DEF TemplatesOf, Template
<1>2. \A i \in 1..n : r[i].rom = "stock" /\ r[i].name = tables[i][1]
  BY DEF ReferencesOf, Reference
<1>3. p = [i \in 1..n |-> p[i]] /\ r = [i \in 1..n |-> r[i]]
  BY DEF TemplatesOf, ReferencesOf
<1>4. n \in Nat /\ n = Len(tables) /\ \A i \in 1..n : p[i] \in PT /\ r[i] \in R
  OBVIOUS
<1> HIDE DEF p, r, PT, R, n
<1>5. Len(p) = n /\ Len(r) = n
  BY <1>3, <1>4, ByPlaces
<1> QED  BY <1>1, <1>2, <1>4, <1>5 DEF p, r

LEMMA Reads ==
  ASSUME NEW Rows, NEW s \in Seq(Rows), NEW t \in Seq(Rows)
  PROVE  /\ Joint(s, t) \in Seq(Rows) /\ Len(Joint(s, t)) = Len(s) + Len(t)
         /\ \A i \in 1..Len(s) : Joint(s, t)[i] = s[i]
         /\ \A i \in 1..Len(t) : Joint(s, t)[Len(s) + i] = t[i]
<1>1. s \o t \in Seq(Rows) /\ Len(s \o t) = Len(s) + Len(t)
  OBVIOUS
<1>2. \A i \in 1..Len(s) : (s \o t)[i] = s[i]
  OBVIOUS
<1>3. \A i \in 1..Len(t) : (s \o t)[Len(s) + i] = t[i]
  OBVIOUS
<1> QED  BY <1>1, <1>2, <1>3 DEF Joint

(* The sections and the counts of a definition with some tables.           *)
LEMMA FilledParts ==
  ASSUME NEW tables, NEW n \in Nat, Len(tables) = n
  PROVE  \E Rows : /\ Filled(tables) \in Seq(Rows)
                /\ TemplatesOf(tables) \in Seq(Rows) /\ ReferencesOf(tables) \in Seq(Rows)
                /\ Within(Filled(tables), {"parent"}) = TemplatesOf(tables)
                /\ Within(Filled(tables), {"stock"}) = ReferencesOf(tables)
                /\ Within(Filled(tables), {"after"}) = Overboost
                /\ \A name : Count(Filled(tables), name)
                               = Count(TemplatesOf(tables), name) + Count(ReferencesOf(tables), name)
                                   + Count(AvlsBlock, name) + Count(Overboost, name)
                /\ AvlsBlock \in Seq(Rows) /\ Overboost \in Seq(Rows)
<1>1. PICK PT, R : /\ TemplatesOf(tables) \in Seq(PT) /\ \A t \in PT : t.rom = "parent"
                  /\ ReferencesOf(tables) \in Seq(R) /\ \A t \in R : t.rom = "stock"
  BY BodyParts
<1> DEFINE A == {t \in {AvlsBlock[i] : i \in 1..4} : t.rom = "avls" /\ t.name \notin {Oil, Fuel}}
           O == {t \in {Overboost[i] : i \in 1..2} : t.rom = "after" /\ t.name \notin {Oil, Fuel}}
           Rows == PT \cup R \cup A \cup O
           p == TemplatesOf(tables)
           r == ReferencesOf(tables)
           a == AvlsBlock
           o == Overboost
           J1 == Joint(p, r)
           J2 == Joint(J1, a)
<1>2. (\A t \in A : t.rom = "avls") /\ (\A t \in O : t.rom = "after")
  OBVIOUS
<1>3. a \in Seq(A) /\ o \in Seq(O)
  BY Blocks
<1>4. PT \subseteq Rows /\ R \subseteq Rows /\ A \subseteq Rows /\ O \subseteq Rows
  OBVIOUS
<1> HIDE DEF A, O, Rows, p, r, a, o
<1>5. p \in Seq(PT) /\ r \in Seq(R)
  BY <1>1 DEF p, r
<1>6. p \in Seq(Rows) /\ r \in Seq(Rows) /\ a \in Seq(Rows) /\ o \in Seq(Rows)
  BY <1>3, <1>4, <1>5, SeqWidens
<1>7. /\ J1 \in Seq(Rows)
      /\ \A Q : Within(J1, Q) = Joint(Within(p, Q), Within(r, Q))
      /\ \A name : Count(J1, name) = Count(p, name) + Count(r, name)
  BY <1>6, JointFacts
<1> HIDE DEF J1
<1>8. /\ J2 \in Seq(Rows)
      /\ \A Q : Within(J2, Q) = Joint(Within(J1, Q), Within(a, Q))
      /\ \A name : Count(J2, name) = Count(J1, name) + Count(a, name)
  BY <1>6, <1>7, JointFacts
<1> HIDE DEF J2
<1>9. /\ Joint(J2, o) \in Seq(Rows)
      /\ \A Q : Within(Joint(J2, o), Q) = Joint(Within(J2, Q), Within(o, Q))
      /\ \A name : Count(Joint(J2, o), name) = Count(J2, name) + Count(o, name)
  BY <1>6, <1>8, JointFacts
<1>a. Filled(tables) = Joint(J2, o)
  BY DEF Filled, J2, J1, p, r, a, o
<1>b. /\ Within(p, {"parent"}) = p /\ Within(p, {"stock"}) = <<>> /\ Within(p, {"after"}) = <<>>
  BY <1>1, <1>5, WithinAll, WithinNone
<1>c. /\ Within(r, {"parent"}) = <<>> /\ Within(r, {"stock"}) = r /\ Within(r, {"after"}) = <<>>
  BY <1>1, <1>5, WithinAll, WithinNone
<1>d. /\ Within(a, {"parent"}) = <<>> /\ Within(a, {"stock"}) = <<>> /\ Within(a, {"after"}) = <<>>
  BY <1>2, <1>3, WithinAll, WithinNone
<1>e. /\ Within(o, {"parent"}) = <<>> /\ Within(o, {"stock"}) = <<>> /\ Within(o, {"after"}) = o
  BY <1>2, <1>3, WithinAll, WithinNone
<1>f. Joint(<<>>, <<>>) = <<>> /\ Joint(p, <<>>) = p /\ Joint(<<>>, r) = r /\ Joint(r, <<>>) = r
      /\ Joint(<<>>, o) = o
  BY <1>6, JointEmpty DEF Joint
<1>g. Within(Joint(J2, o), {"parent"}) = p
  <2>1. Within(J1, {"parent"}) = p
    BY <1>7, <1>b, <1>c, <1>f
  <2>2. Within(J2, {"parent"}) = p
    BY <1>8, <1>d, <1>f, <2>1
  <2> QED  BY <1>9, <1>e, <1>f, <2>2
<1>h. Within(Joint(J2, o), {"stock"}) = r
  <2>1. Within(J1, {"stock"}) = r
    BY <1>7, <1>b, <1>c, <1>f
  <2>2. Within(J2, {"stock"}) = r
    BY <1>8, <1>d, <1>f, <2>1
  <2> QED  BY <1>9, <1>e, <1>f, <2>2
<1>i. Within(Joint(J2, o), {"after"}) = o
  <2>1. Within(J1, {"after"}) = <<>>
    BY <1>7, <1>b, <1>c, <1>f
  <2>2. Within(J2, {"after"}) = <<>>
    BY <1>8, <1>d, <1>f, <2>1
  <2> QED  BY <1>9, <1>e, <1>f, <2>2
<1>j. \A name : Count(Joint(J2, o), name)
              = Count(p, name) + Count(r, name) + Count(a, name) + Count(o, name)
  BY <1>7, <1>8, <1>9
<1> WITNESS Rows
<1> QED  BY <1>6, <1>9, <1>a, <1>g, <1>h, <1>i, <1>j DEF p, r, a, o

(* A table that is there once is once in the templates and once in the     *)
(* references.                                                             *)
LEMMA PartCounts ==
  ASSUME NEW tables, NEW n \in Nat, Len(tables) = n, NEW name, NEW k \in 1..n,
         \A i \in 1..n : tables[i][1] = name <=> i = k
  PROVE  Count(TemplatesOf(tables), name) = 1 /\ Count(ReferencesOf(tables), name) = 1
<1> DEFINE p == TemplatesOf(tables)
           r == ReferencesOf(tables)
<1>1. /\ \A i \in 1..n : p[i].name = tables[i][1] /\ r[i].name = tables[i][1]
      /\ DOMAIN p = 1..n /\ DOMAIN r = 1..n
  BY DEF TemplatesOf, ReferencesOf, Template, Reference
<1> HIDE DEF p, r
<1>2. Named(p, name) = {k} /\ Named(r, name) = {k}
  BY <1>1 DEF Named
<1>3. Cardinality({k}) = 1
  BY FS_Singleton
<1> QED  BY <1>2, <1>3 DEF Count, p, r

LEMMA PartCountsNone ==
  ASSUME NEW tables, NEW n \in Nat, Len(tables) = n, NEW name, \A i \in 1..n : tables[i][1] # name
  PROVE  Count(TemplatesOf(tables), name) = 0 /\ Count(ReferencesOf(tables), name) = 0
<1> DEFINE p == TemplatesOf(tables)
           r == ReferencesOf(tables)
<1>1. /\ \A i \in 1..n : p[i].name = tables[i][1] /\ r[i].name = tables[i][1]
      /\ DOMAIN p = 1..n /\ DOMAIN r = 1..n
  BY DEF TemplatesOf, ReferencesOf, Template, Reference
<1> HIDE DEF p, r
<1>2. Named(p, name) = {} /\ Named(r, name) = {}
  BY <1>1 DEF Named
<1> QED  BY <1>2, FS_EmptySet DEF Count, p, r

LEMMA BlockCounts ==
  /\ Count(AvlsBlock, Oil) = 0 /\ Count(Overboost, Oil) = 0
<1> DEFINE A == {t \in {AvlsBlock[i] : i \in 1..4} : t.rom = "avls" /\ t.name \notin {Oil, Fuel}}
           O == {t \in {Overboost[i] : i \in 1..2} : t.rom = "after" /\ t.name \notin {Oil, Fuel}}
<1>1. (\A t \in A : t.name # Oil) /\ (\A t \in O : t.name # Oil)
  OBVIOUS
<1>2. AvlsBlock \in Seq(A) /\ Overboost \in Seq(O)
  BY Blocks
<1> HIDE DEF A, O
<1> QED  BY <1>1, <1>2, CountAbsent

(* The boost definition has the oil scaling in both.                       *)
LEMMA NewBoost ==
  /\ BoostDefinition = Filled(Stock)
  /\ \E Rows : BoostDefinition \in Seq(Rows)
  /\ Count(BoostDefinition, Oil) # 0
  /\ Count(Within(BoostDefinition, {"parent"}), Oil) = 1
  /\ Count(Within(BoostDefinition, {"stock"}), Oil) = 1
  /\ Within(BoostDefinition, {"after"}) = Overboost
<1>1. BoostDefinition = Filled(Stock)
  BY DEF BoostDefinition, Filled, Body, Joint, TemplatesOf, ReferencesOf
<1>2. Len(Stock) = 23 /\ 23 \in Nat /\ 23 \in 1..23 /\ \A i \in 1..23 : Stock[i][1] = Oil <=> i = 23
  <2>1. Len(Stock) = 23
    BY StockTables
  <2>2. \A i \in 1..23 : Stock[i][1] = "Oil Temp Scaling" <=> i = 23
    BY StockTables
  <2>3. 23 \in Nat /\ 23 \in 1..23
    OBVIOUS
  <2> QED  BY Zenon, <2>1, <2>2, <2>3 DEF Oil
<1>3. Count(TemplatesOf(Stock), Oil) = 1 /\ Count(ReferencesOf(Stock), Oil) = 1
  BY <1>2, PartCounts
<1>4. PICK Rows : /\ Filled(Stock) \in Seq(Rows)
               /\ Within(Filled(Stock), {"parent"}) = TemplatesOf(Stock)
               /\ Within(Filled(Stock), {"stock"}) = ReferencesOf(Stock)
               /\ Within(Filled(Stock), {"after"}) = Overboost
               /\ Count(Filled(Stock), Oil)
                    = Count(TemplatesOf(Stock), Oil) + Count(ReferencesOf(Stock), Oil)
                        + Count(AvlsBlock, Oil) + Count(Overboost, Oil)
  BY <1>2, FilledParts
<1>5. Count(Filled(Stock), Oil) = 2
  BY <1>3, <1>4, BlockCounts
<1> QED  BY <1>1, <1>3, <1>4, <1>5

(* Without the last table.                                                 *)
LEMMA FrontStock ==
  /\ Len(Front(Stock)) = 22
  /\ \A i \in 1..22 : Front(Stock)[i][1] # Oil
  /\ \A i \in 1..22 : Front(Stock)[i][1] = Fuel <=> i = 21
<1> DEFINE s == Stock
           f == SubSeq(s, 1, 22)
<1>0. s = [i \in 1..23 |-> s[i]]
  BY DEF Stock
<1>1. Len(s) = 23 /\ (\A i \in 1..23 : s[i][1] = Oil <=> i = 23)
      /\ \A i \in 1..23 : s[i][1] = Fuel <=> i = 21
  BY StockTables DEF Oil, Fuel
<1>2. Front(Stock) = f
  BY <1>1 DEF Front
<1> HIDE DEF s
<1> DEFINE Rows == {s[i] : i \in 1..23}
<1>3. s \in Seq(Rows)
  <2>1. \A i \in 1..23 : s[i] \in Rows
    OBVIOUS
  <2> HIDE DEF Rows
  <2> QED  BY <1>0, <2>1, ByPlaces
<1> HIDE DEF Rows
<1>4. Len(f) = 22 /\ \A i \in 1..22 : f[i] = s[i]
  BY <1>1, <1>3
<1>5. \A i \in 1..22 : i \in 1..23 /\ i # 23
  OBVIOUS
<1> QED  BY <1>1, <1>2, <1>4, <1>5

(* The older one has it in neither, and the fuel scaling at two places.    *)
LEMMA OldBoost ==
  /\ OlderBoost = Filled(Front(Stock))
  /\ \E Rows : OlderBoost \in Seq(Rows)
  /\ Count(OlderBoost, Oil) = 0
  /\ 21 \in 1..Len(OlderBoost) /\ 43 \in 1..Len(OlderBoost)
  /\ Named(OlderBoost, Fuel) = {21, 43}
  /\ OlderBoost[21].rom = "parent" /\ OlderBoost[43].rom = "stock"
  /\ Within(OlderBoost, {"after"}) = Overboost
<1> DEFINE f == Front(Stock)
           p == TemplatesOf(f)
           r == ReferencesOf(f)
<1>1. OlderBoost = Filled(f)
  BY DEF OlderBoost, Filled, Body, Joint, TemplatesOf, ReferencesOf
<1>2. Len(f) = 22 /\ 22 \in Nat /\ (\A i \in 1..22 : f[i][1] # Oil)
      /\ \A i \in 1..22 : f[i][1] = Fuel <=> i = 21
  BY FrontStock
<1> HIDE DEF f
<1>3. Count(p, Oil) = 0 /\ Count(r, Oil) = 0
  BY <1>2, PartCountsNone
<1>4. PICK Rows : /\ Filled(f) \in Seq(Rows)
               /\ p \in Seq(Rows) /\ r \in Seq(Rows) /\ AvlsBlock \in Seq(Rows)
               /\ Overboost \in Seq(Rows)
               /\ Within(Filled(f), {"after"}) = Overboost
               /\ Count(Filled(f), Oil)
                    = Count(p, Oil) + Count(r, Oil) + Count(AvlsBlock, Oil) + Count(Overboost, Oil)
  BY <1>2, FilledParts
<1>5. Count(Filled(f), Oil) = 0
  BY <1>3, <1>4, BlockCounts
<1>6. /\ Len(p) = 22 /\ Len(r) = 22
      /\ \A i \in 1..22 : /\ p[i].rom = "parent" /\ p[i].name = f[i][1]
                          /\ r[i].rom = "stock" /\ r[i].name = f[i][1]
  <2> HIDE DEF p, r
  <2>1. /\ Len(p) = Len(f) /\ Len(r) = Len(f)
        /\ \A i \in 1..Len(f) : /\ p[i].rom = "parent" /\ p[i].name = f[i][1]
                                /\ r[i].rom = "stock" /\ r[i].name = f[i][1]
    BY <1>2, BodyNames DEF p, r
  <2> QED  BY <1>2, <2>1
<1> HIDE DEF p, r
<1> DEFINE J1 == Joint(p, r)
           J2 == Joint(J1, AvlsBlock)
           J3 == Joint(J2, Overboost)
<1>7. Filled(f) = J3
  BY DEF Filled, p, r
<1>s. p \in Seq(Rows) /\ r \in Seq(Rows)
  BY <1>4
<1>8. J1 \in Seq(Rows) /\ Len(J1) = 44 /\ (\A i \in 1..22 : J1[i] = p[i])
      /\ \A i \in 1..22 : J1[22 + i] = r[i]
  <2> HIDE DEF J1
  <2>1. J1 = Joint(p, r)
    BY DEF J1
  <2>2. /\ J1 \in Seq(Rows) /\ Len(J1) = Len(p) + Len(r)
        /\ \A i \in 1..Len(p) : J1[i] = p[i]
        /\ \A i \in 1..Len(r) : J1[Len(p) + i] = r[i]
    <3>1. Joint(p, r) \in Seq(Rows)
      BY <1>s, Reads
    <3>2. Len(Joint(p, r)) = Len(p) + Len(r)
      BY <1>s, Reads
    <3>3. \A i \in 1..Len(p) : Joint(p, r)[i] = p[i]
      BY <1>s, Reads
    <3>4. \A i \in 1..Len(r) : Joint(p, r)[Len(p) + i] = r[i]
      BY <1>s, Reads
    <3> QED  BY <2>1, <3>1, <3>2, <3>3, <3>4
  <2> QED  BY <1>6, <2>2
<1> HIDE DEF J1
<1>9. J2 \in Seq(Rows) /\ Len(J2) = 48 /\ (\A i \in 1..44 : J2[i] = J1[i])
      /\ \A i \in 1..4 : J2[44 + i] = AvlsBlock[i]
  <2> HIDE DEF J2
  <2>0. J1 \in Seq(Rows) /\ AvlsBlock \in Seq(Rows)
    BY <1>4, <1>8
  <2>1. J2 = Joint(J1, AvlsBlock) /\ Len(AvlsBlock) = 4
    BY Blocks DEF J2
  <2>2. /\ J2 \in Seq(Rows) /\ Len(J2) = Len(J1) + Len(AvlsBlock)
        /\ \A i \in 1..Len(J1) : J2[i] = J1[i]
        /\ \A i \in 1..Len(AvlsBlock) : J2[Len(J1) + i] = AvlsBlock[i]
    <3>1. Joint(J1, AvlsBlock) \in Seq(Rows)
      BY <2>0, Reads
    <3>2. Len(Joint(J1, AvlsBlock)) = Len(J1) + Len(AvlsBlock)
      BY <2>0, Reads
    <3>3. \A i \in 1..Len(J1) : Joint(J1, AvlsBlock)[i] = J1[i]
      BY <2>0, Reads
    <3>4. \A i \in 1..Len(AvlsBlock) : Joint(J1, AvlsBlock)[Len(J1) + i] = AvlsBlock[i]
      BY <2>0, Reads
    <3> QED  BY <2>1, <3>1, <3>2, <3>3, <3>4
  <2>3. Len(AvlsBlock) = 4
    BY <2>1
  <2> QED  BY <1>8, <2>2, <2>3
<1> HIDE DEF J2
<1>a. J3 \in Seq(Rows) /\ Len(J3) = 50 /\ (\A i \in 1..48 : J3[i] = J2[i])
      /\ \A i \in 1..2 : J3[48 + i] = Overboost[i]
  <2> HIDE DEF J3
  <2>0. J2 \in Seq(Rows) /\ Overboost \in Seq(Rows)
    BY <1>4, <1>9
  <2>1. J3 = Joint(J2, Overboost) /\ Len(Overboost) = 2
    BY Blocks DEF J3
  <2>2. /\ J3 \in Seq(Rows) /\ Len(J3) = Len(J2) + Len(Overboost)
        /\ \A i \in 1..Len(J2) : J3[i] = J2[i]
        /\ \A i \in 1..Len(Overboost) : J3[Len(J2) + i] = Overboost[i]
    <3>1. Joint(J2, Overboost) \in Seq(Rows)
      BY <2>0, Reads
    <3>2. Len(Joint(J2, Overboost)) = Len(J2) + Len(Overboost)
      BY <2>0, Reads
    <3>3. \A i \in 1..Len(J2) : Joint(J2, Overboost)[i] = J2[i]
      BY <2>0, Reads
    <3>4. \A i \in 1..Len(Overboost) : Joint(J2, Overboost)[Len(J2) + i] = Overboost[i]
      BY <2>0, Reads
    <3> QED  BY <2>1, <3>1, <3>2, <3>3, <3>4
  <2>3. Len(Overboost) = 2
    BY <2>1
  <2> QED  BY <1>9, <2>2, <2>3
<1> HIDE DEF J3
<1>b. (\A i \in 1..4 : AvlsBlock[i].name # Fuel) /\ (\A i \in 1..2 : Overboost[i].name # Fuel)
  <2> DEFINE A == {t \in {AvlsBlock[i] : i \in 1..4} : t.rom = "avls" /\ t.name \notin {Oil, Fuel}}
             O == {t \in {Overboost[i] : i \in 1..2} : t.rom = "after" /\ t.name \notin {Oil, Fuel}}
  <2>1. (\A t \in A : t.name # Fuel) /\ (\A t \in O : t.name # Fuel)
    OBVIOUS
  <2>2. AvlsBlock \in Seq(A) /\ Overboost \in Seq(O) /\ Len(AvlsBlock) = 4 /\ Len(Overboost) = 2
    BY Blocks
  <2> HIDE DEF A, O
  <2> DEFINE a == AvlsBlock
             o == Overboost
  <2>a. a \in Seq(A) /\ o \in Seq(O) /\ Len(a) = 4 /\ Len(o) = 2
    BY <2>2
  <2> HIDE DEF a, o
  <2>b. (\A i \in 1..4 : a[i] \in A) /\ (\A i \in 1..2 : o[i] \in O)
    <3>1. (\A i \in 1..Len(a) : a[i] \in A) /\ (\A i \in 1..Len(o) : o[i] \in O)
      BY <2>a, ElementOfSeq
    <3> QED  BY <2>a, <3>1
  <2>3. (\A i \in 1..4 : AvlsBlock[i] \in A) /\ (\A i \in 1..2 : Overboost[i] \in O)
    BY <2>b DEF a, o
  <2> QED  BY <2>1, <2>3
<1>c. \A i \in 1..50 :
        \/ i \in 1..22 /\ J3[i] = p[i]
        \/ i - 22 \in 1..22 /\ J3[i] = r[i - 22]
        \/ i - 44 \in 1..4 /\ J3[i] = AvlsBlock[i - 44]
        \/ i - 48 \in 1..2 /\ J3[i] = Overboost[i - 48]
  <2> SUFFICES ASSUME NEW i \in 1..50
               PROVE  \/ i \in 1..22 /\ J3[i] = p[i]
                      \/ i - 22 \in 1..22 /\ J3[i] = r[i - 22]
                      \/ i - 44 \in 1..4 /\ J3[i] = AvlsBlock[i - 44]
                      \/ i - 48 \in 1..2 /\ J3[i] = Overboost[i - 48]
    OBVIOUS
  <2>1. CASE i \in 1..22
    <3>1. i \in 1..44 /\ i \in 1..48
      BY <2>1
    <3> QED  BY <2>1, <3>1, <1>8, <1>9, <1>a
  <2>2. CASE i \in 23..44
    <3>1. i - 22 \in 1..22 /\ 22 + (i - 22) = i /\ i \in 1..44 /\ i \in 1..48
      BY <2>2
    <3>2. J1[22 + (i - 22)] = r[i - 22]
      BY <3>1, <1>8
    <3> QED  BY <3>1, <3>2, <1>9, <1>a
  <2>3. CASE i \in 45..48
    <3>1. i - 44 \in 1..4 /\ 44 + (i - 44) = i /\ i \in 1..48
      BY <2>3
    <3>2. J2[44 + (i - 44)] = AvlsBlock[i - 44]
      BY <3>1, <1>9
    <3> QED  BY <3>1, <3>2, <1>a, Zenon
  <2>4. CASE i \in 49..50
    <3>1. i - 48 \in 1..2 /\ 48 + (i - 48) = i
      BY <2>4
    <3>2. J3[48 + (i - 48)] = Overboost[i - 48]
      BY <3>1, <1>a
    <3> QED  BY <3>1, <3>2
  <2>5. i \in 1..22 \/ i \in 23..44 \/ i \in 45..48 \/ i \in 49..50
    OBVIOUS
  <2> QED  BY <2>1, <2>2, <2>3, <2>4, <2>5
<1>d. J3[21] = p[21] /\ J3[43] = r[21]
  <2>1. 21 \in 1..22 /\ 21 \in 1..44 /\ 21 \in 1..48 /\ 43 \in 1..44 /\ 43 \in 1..48 /\ 22 + 21 = 43
    OBVIOUS
  <2>2. J1[22 + 21] = r[21] /\ J1[21] = p[21]
    BY <1>8, <2>1
  <2>3. J2[21] = J1[21] /\ J2[43] = J1[43] /\ J3[21] = J2[21] /\ J3[43] = J2[43]
    BY <1>9, <1>a, <2>1
  <2> QED  BY <2>1, <2>2, <2>3
<1>e. \A i \in 1..50 : J3[i].name = Fuel <=> i = 21 \/ i = 43
  <2> SUFFICES ASSUME NEW i \in 1..50 PROVE J3[i].name = Fuel <=> i = 21 \/ i = 43
    OBVIOUS
  <2>1. CASE i \in 1..22 /\ J3[i] = p[i]
    BY <2>1, <1>2, <1>6
  <2>2. CASE i - 22 \in 1..22 /\ J3[i] = r[i - 22]
    <3>1. J3[i].name = Fuel <=> i - 22 = 21
      BY <2>2, <1>2, <1>6
    <3> QED  BY <3>1, <2>2
  <2>3. CASE i - 44 \in 1..4 /\ J3[i] = AvlsBlock[i - 44]
    <3>1. J3[i].name # Fuel
      BY <2>3, <1>b
    <3> QED  BY <3>1, <2>3
  <2>4. CASE i - 48 \in 1..2 /\ J3[i] = Overboost[i - 48]
    <3>1. J3[i].name # Fuel
      BY <2>4, <1>b
    <3> QED  BY <3>1, <2>4
  <2> QED  BY <1>c, <2>1, <2>2, <2>3, <2>4
<1>f. DOMAIN J3 = 1..50
  BY <1>a
<1>g. Named(J3, Fuel) = {21, 43}
  BY <1>e, <1>f DEF Named
<1>h. J3[21].rom = "parent" /\ J3[43].rom = "stock"
  BY <1>6, <1>d
<1> QED  BY <1>1, <1>4, <1>5, <1>7, <1>a, <1>g, <1>h DEF f

(* A definition is a sequence of tables.                                   *)
IsDoc(s) == \E Rows : s \in Seq(Rows)


(* What FlattenSeq computes, up to part m.                                 *)
Joins(f, parts, m) == f = [i \in 1..m |-> IF i = 1 THEN parts[i] ELSE f[i - 1] \o parts[i]]

(* There is such a function, so that FlattenSeq reads one.                 *)
LEMMA JoinExists ==
  ASSUME NEW parts, NEW m \in Nat PROVE \E f : Joins(f, parts, m)
<1> DEFINE T == {n \in Nat : \E f : Joins(f, parts, n)}
<1>1. 0 \in T
  <2> DEFINE f == [i \in 1..0 |-> <<>>]
  <2>1. f = [i \in 1..0 |-> IF i = 1 THEN parts[i] ELSE f[i - 1] \o parts[i]]
    OBVIOUS
  <2>2. Joins(f, parts, 0)
    BY <2>1 DEF Joins
  <2> QED  BY <2>2
<1>2. ASSUME NEW n \in Nat, n \in T PROVE n + 1 \in T
  <2>1. PICK f : Joins(f, parts, n)
    BY <1>2
  <2> DEFINE next == IF n + 1 = 1 THEN parts[n + 1] ELSE f[n] \o parts[n + 1]
             g == [k \in 1..(n + 1) |-> IF k = n + 1 THEN next ELSE f[k]]
  <2>2. ASSUME NEW k \in 1..(n + 1)
        PROVE  g[k] = IF k = 1 THEN parts[k] ELSE g[k - 1] \o parts[k]
    <3>1. CASE k = n + 1
      <4>1. g[k] = next /\ (n + 1 # 1 => g[n] = f[n]) /\ k - 1 = n
        BY <3>1
      <4> HIDE DEF g
      <4> QED  BY <3>1, <4>1
    <3>2. CASE k # n + 1
      <4>1. k \in 1..n /\ g[k] = f[k] /\ (k # 1 => g[k - 1] = f[k - 1])
        BY <3>2
      <4>2. f[k] = IF k = 1 THEN parts[k] ELSE f[k - 1] \o parts[k]
        BY <2>1, <4>1 DEF Joins
      <4> HIDE DEF g
      <4> QED  BY <4>1, <4>2
    <3> QED  BY <3>1, <3>2
  <2>3. g = [k \in 1..(n + 1) |-> g[k]]
    OBVIOUS
  <2>4. Joins(g, parts, n + 1)
    <3> HIDE DEF g
    <3> QED  BY <2>2, <2>3 DEF Joins
  <2> QED  BY <2>4
<1> HIDE DEF T
<1>3. 0..m \subseteq T
  BY <1>1, <1>2, UpTo
<1>4. m \in T
  BY <1>3
<1> QED  BY <1>4 DEF T

LEMMA FlattenJoins ==
  ASSUME NEW parts, Len(parts) \in Nat, Len(parts) # 0
  PROVE  \E f : Joins(f, parts, Len(parts)) /\ FlattenSeq(parts) = f[Len(parts)]
<1> DEFINE f == CHOOSE g : Joins(g, parts, Len(parts))
<1>1. Joins(f, parts, Len(parts))
  BY JoinExists
<1>2. FlattenSeq(parts) = f[Len(parts)]
  BY Zenon DEF FlattenSeq, Joins
<1> HIDE DEF f
<1> QED  BY <1>1, <1>2

(* An equation with a concatenation, kept whole for the provers.            *)
Appended(whole, front, back) == whole = front \o back

LEMMA OnlyAppended ==
  ASSUME NEW Rows, NEW doc \in Seq(Rows), NEW more \in Seq(Rows), NEW tables
  PROVE  Appended(Only(doc \o more, tables), Only(doc, tables), Only(more, tables))
BY OnlyConcat DEF Appended

LEMMA AppendedEmpty ==
  ASSUME NEW Rows, NEW part \in Seq(Rows), NEW whole,
         Appended(whole, <<>>, part) \/ Appended(whole, part, <<>>)
  PROVE  whole = part
<1>1. <<>> \o part = part /\ part \o <<>> = part
  OBVIOUS
<1> QED  BY <1>1 DEF Appended

(* The first i of some groups.                                             *)
First(groups, i) == UNION {groups[k] : k \in 1..i}

LEMMA OneMoreGroup ==
  ASSUME NEW groups, NEW i \in Nat, NEW m \in Nat, i < m,
         \A j, k \in 1..m : j # k => groups[j] \cap groups[k] = {}
  PROVE  /\ First(groups, i + 1) = First(groups, i) \cup groups[i + 1]
         /\ First(groups, i) \cap groups[i + 1] = {}
<1>1. \A k \in 1..i : k \in 1..(i + 1) /\ k \in 1..m /\ k # i + 1
  OBVIOUS
<1>2. i + 1 \in 1..(i + 1) /\ i + 1 \in 1..m
  OBVIOUS
<1>3. \A k \in 1..(i + 1) : k \in 1..i \/ k = i + 1
  OBVIOUS
<1>4. First(groups, i + 1) = First(groups, i) \cup groups[i + 1]
  BY <1>1, <1>2, <1>3 DEF First
<1>5. First(groups, i) \cap groups[i + 1] = {}
  BY <1>1, <1>2 DEF First
<1> QED  BY <1>4, <1>5

(* The tables of the first i of m groups, in the order of the groups.      *)
Gathered(doc, groups, m, i, w) ==
  /\ Len(w) = Len(Only(doc, First(groups, i)))
  /\ ToSet(w) = ToSet(doc) \cap First(groups, i)
  /\ \A n : Count(w, n) = Count(Only(doc, First(groups, i)), n)
  /\ \A k \in 1..m : Only(w, groups[k]) = IF k <= i THEN Only(doc, groups[k]) ELSE <<>>

LEMMA GatherOne ==
  ASSUME NEW Rows, NEW doc \in Seq(Rows), NEW m \in Nat, NEW groups,
         \A j, k \in 1..m : j # k => groups[j] \cap groups[k] = {},
         NEW i \in Nat, i < m, NEW s \in Seq(Rows), Gathered(doc, groups, m, i, s)
  PROVE  Gathered(doc, groups, m, i + 1, s \o Only(doc, groups[i + 1]))
<1> DEFINE U == First(groups, i)
           V == First(groups, i + 1)
           g == groups[i + 1]
           q == Only(doc, g)
<1>1. V = U \cup g /\ U \cap g = {}
  BY OneMoreGroup
<1>2. s \in Seq(Rows) /\ q \in Seq(Rows) /\ Only(doc, U) \in Seq(Rows) /\ s \o q \in Seq(Rows)
  <2>1. s \in Seq(Rows) /\ q \in Seq(Rows) /\ Only(doc, U) \in Seq(Rows)
    BY OnlyType
  <2> HIDE DEF q
  <2> QED  BY <2>1
<1>a. i + 1 \in 1..m
  OBVIOUS
<1> HIDE DEF U, V, g
<1>3. Len(s \o q) = Len(Only(doc, V))
  <2>1. Len(Only(doc, V)) = Len(Only(doc, U)) + Len(q)
    BY <1>1, LengthEither
  <2>2. Len(s) = Len(Only(doc, U))
    BY DEF U, Gathered
  <2>3. Len(s \o q) = Len(s) + Len(q)
    <3> HIDE DEF q
    <3> QED  BY <1>2
  <2> QED  BY <2>1, <2>2, <2>3
<1>4. ToSet(s \o q) = ToSet(doc) \cap V
  <2>1. ToSet(q) = ToSet(doc) \cap g
    BY OnlyTables
  <2>2. ToSet(s) = ToSet(doc) \cap U
    BY DEF U, Gathered
  <2>3. ToSet(s \o q) = ToSet(s) \cup ToSet(q)
    <3> HIDE DEF q
    <3> QED  BY <1>2, TablesConcat
  <2> QED  BY <1>1, <2>1, <2>2, <2>3
<1>5. ASSUME NEW n PROVE Count(s \o q, n) = Count(Only(doc, V), n)
  <2>1. Count(Only(doc, V), n) = Count(Only(doc, U), n) + Count(q, n)
    BY <1>1, CountEither
  <2>2. Count(s, n) = Count(Only(doc, U), n)
    BY DEF U, Gathered
  <2>3. Count(s \o q, n) = Count(s, n) + Count(q, n)
    <3> HIDE DEF q
    <3> QED  BY <1>2, CountConcat
  <2> QED  BY <2>1, <2>2, <2>3
<1>6. ASSUME NEW k \in 1..m
      PROVE  Only(s \o q, groups[k]) = IF k <= i + 1 THEN Only(doc, groups[k]) ELSE <<>>
  <2>1. Appended(Only(s \o q, groups[k]), Only(s, groups[k]), Only(q, groups[k]))
    <3> HIDE DEF q
    <3> QED  BY <1>2, OnlyAppended
  <2>2. Only(q, groups[k]) = Only(doc, g \cap groups[k])
    BY OnlyTwice
  <2>3. Only(s, groups[k]) = IF k <= i THEN Only(doc, groups[k]) ELSE <<>>
    BY DEF Gathered
  <2>4. Only(doc, groups[k]) \in Seq(Rows) /\ <<>> \in Seq(Rows)
    BY OnlyType
  <2>5. CASE k = i + 1
    <3>1. g \cap groups[k] = groups[k] /\ ~ (k <= i) /\ k <= i + 1
      BY <2>5 DEF g
    <3>2. Appended(Only(s \o q, groups[k]), <<>>, Only(doc, groups[k]))
      BY <2>1, <2>2, <2>3, <3>1
    <3> QED  BY <2>4, <3>1, <3>2, AppendedEmpty
  <2>6. CASE k # i + 1
    <3>1. g \cap groups[k] = {} /\ (k <= i <=> k <= i + 1)
      BY <1>a, <2>6 DEF g
    <3>2. Only(doc, {}) = <<>>
      BY OnlyNone
    <3>3. Appended(Only(s \o q, groups[k]), IF k <= i + 1 THEN Only(doc, groups[k]) ELSE <<>>, <<>>)
      BY <2>1, <2>2, <2>3, <3>1, <3>2
    <3> QED  BY <2>4, <3>3, AppendedEmpty
  <2> QED  BY <2>5, <2>6
<1> HIDE DEF q
<1>7. Gathered(doc, groups, m, i + 1, s \o q)
  BY <1>2, <1>3, <1>4, <1>5, <1>6 DEF V, Gathered
<1> HIDE DEF Gathered
<1> QED  BY <1>7 DEF q, g

(* Tables put in order by disjoint groups that cover them are the same     *)
(* tables as often, and in each group they keep their order.               *)
Covering(groups, m, Rows) ==
  /\ m \in Nat /\ m # 0
  /\ \A j, k \in 1..m : j # k => groups[j] \cap groups[k] = {}
  /\ \A x \in Rows : \E k \in 1..m : x \in groups[k]
PartsBy(parts, doc, groups, m) == Len(parts) = m /\ \A k \in 1..m : parts[k] = Only(doc, groups[k])
Rearranged(flat, doc, Rows) ==
  /\ flat \in Seq(Rows) /\ Len(flat) = Len(doc) /\ ToSet(flat) = ToSet(doc)
  /\ \A n : Count(flat, n) = Count(doc, n)
AlikeIn(flat, doc, groups, m) == \A k \in 1..m : Only(flat, groups[k]) = Only(doc, groups[k])

LEMMA Regrouped ==
  ASSUME NEW Rows, NEW doc \in Seq(Rows), NEW m, NEW groups, Covering(groups, m, Rows),
         NEW parts, PartsBy(parts, doc, groups, m), NEW flat, flat = FlattenSeq(parts)
  PROVE  Rearranged(flat, doc, Rows) /\ AlikeIn(flat, doc, groups, m)
<1>0. /\ m \in Nat /\ m # 0 /\ Len(parts) = m
      /\ \A j, k \in 1..m : j # k => groups[j] \cap groups[k] = {}
      /\ \A x \in Rows : \E k \in 1..m : x \in groups[k]
  BY DEF Covering, PartsBy
<1>2. \A k \in 1..m : parts[k] = Only(doc, groups[k]) /\ Only(doc, groups[k]) \in Seq(Rows)
  BY OnlyType DEF PartsBy
<1>4. PICK f : Joins(f, parts, m) /\ flat = f[m]
  BY <1>0, FlattenJoins
<1>5. \A i \in 1..m : f[i] = IF i = 1 THEN Only(doc, groups[i]) ELSE f[i - 1] \o Only(doc, groups[i])
  <2>1. f = [i \in 1..m |-> IF i = 1 THEN parts[i] ELSE f[i - 1] \o parts[i]]
    BY <1>4 DEF Joins
  <2>2. \A i \in 1..m : f[i] = IF i = 1 THEN parts[i] ELSE f[i - 1] \o parts[i]
    BY <2>1, Zenon
  <2> QED  BY <1>2, <2>2
<1> DEFINE Good(j, w) == w \in Seq(Rows) /\ Gathered(doc, groups, m, j, w)
<1>6. Good(0, <<>>)
  <2>1. First(groups, 0) = {}
    BY DEF First
  <2>2. Only(doc, {}) = <<>>
    BY OnlyNone
  <2>3. <<>> \in Seq(Rows) /\ ToSet(<<>>) = {}
    BY DEF ToSet
  <2>4. \A k \in 1..m : ~ (k <= 0)
    OBVIOUS
  <2>5. \A k \in 1..m : Only(<<>>, groups[k]) = IF k <= 0 THEN Only(doc, groups[k]) ELSE <<>>
    BY <2>4, OnlyEmpty
  <2> QED  BY <2>1, <2>2, <2>3, <2>5 DEF Gathered
<1>7. ASSUME NEW i \in Nat, i < m, NEW s, Good(i, s) PROVE Good(i + 1, s \o Only(doc, groups[i + 1]))
  <2>1. Only(doc, groups[i + 1]) \in Seq(Rows)
    BY OnlyType
  <2>2. s \in Seq(Rows) /\ s \o Only(doc, groups[i + 1]) \in Seq(Rows)
    BY <1>7, <2>1
  <2>3. Gathered(doc, groups, m, i + 1, s \o Only(doc, groups[i + 1]))
    BY <1>0, <1>7, <2>2, GatherOne DEF Good
  <2> QED  BY <2>2, <2>3
<1> HIDE DEF Good
<1> DEFINE T == {i \in 0..m : i = 0 \/ Good(i, f[i])}
<1>8. ASSUME NEW i \in 0..m, i \in T, i # m PROVE i + 1 \in T
  <2>1. i + 1 \in 1..m /\ i + 1 \in 0..m /\ i \in Nat /\ i < m /\ (i + 1) - 1 = i
    BY <1>0, <1>8
  <2>2. CASE i = 0
    <3>1. f[i + 1] = Only(doc, groups[i + 1])
      BY <1>5, <2>1, <2>2
    <3>2. <<>> \o Only(doc, groups[i + 1]) = Only(doc, groups[i + 1])
      <4>1. Only(doc, groups[i + 1]) \in Seq(Rows)
        BY OnlyType
      <4> QED  BY <4>1
    <3>3. Good(i + 1, <<>> \o Only(doc, groups[i + 1]))
      BY <1>6, <1>7, <2>1, <2>2
    <3> QED  BY <2>1, <3>1, <3>2, <3>3
  <2>3. CASE i # 0
    <3>0. i + 1 # 1
      BY <2>1, <2>3
    <3>1. f[i + 1] = f[i] \o Only(doc, groups[i + 1])
      BY <1>5, <2>1, <3>0
    <3>2. Good(i, f[i])
      BY <1>8, <2>3
    <3>3. Good(i + 1, f[i] \o Only(doc, groups[i + 1]))
      BY <1>7, <2>1, <3>2
    <3> QED  BY <2>1, <3>1, <3>3
  <2> QED  BY <2>2, <2>3
<1> HIDE DEF T
<1>9. 0..m \subseteq T
  <2>1. 0 \in T
    BY <1>0 DEF T
  <2> QED  BY <1>0, <1>8, <2>1, UpTo
<1>a. Good(m, flat)
  <2>1. m \in T
    BY <1>0, <1>9
  <2>2. m # 0
    BY <1>0
  <2> QED  BY <1>4, <2>1, <2>2 DEF T
<1>b. Only(doc, First(groups, m)) = doc
  <2>1. \A x \in Rows : x \in First(groups, m)
    BY <1>0 DEF First
  <2> QED  BY <2>1, OnlyAll
<1>c. ToSet(doc) \cap First(groups, m) = ToSet(doc)
  <2>1. ToSet(doc) \subseteq Rows
    BY OverItsOwn
  <2>2. \A x \in Rows : x \in First(groups, m)
    BY <1>0 DEF First
  <2> QED  BY <2>1, <2>2
<1>d. \A k \in 1..m : k <= m
  OBVIOUS
<1> QED  BY <1>a, <1>b, <1>c, <1>d DEF Good, Gathered, Rearranged, AlikeIn

(* Chosen place by place alike, two sequences are chosen from at the same  *)
(* places.                                                                 *)
Beside(s, t, A, u, w, n) ==
  /\ Len(u) = Len(w)
  /\ \A j \in 1..Len(u) : \E i \in 1..n : s[i] \in A /\ u[j] = s[i] /\ w[j] = t[i]

LEMMA BesideAppend ==
  ASSUME NEW Rows, NEW n \in Nat, NEW s, NEW t, NEW A, NEW u \in Seq(Rows), NEW w \in Seq(Rows),
         Beside(s, t, A, u, w, n), s[n + 1] \in Rows, t[n + 1] \in Rows, s[n + 1] \in A
  PROVE  Beside(s, t, A, Append(u, s[n + 1]), Append(w, t[n + 1]), n + 1)
<1> DEFINE x == s[n + 1]
           y == t[n + 1]
           m == Len(u)
<1>1. m \in Nat /\ Len(w) = m
  BY DEF Beside
<1>2. /\ Len(Append(u, x)) = m + 1 /\ Append(u, x)[m + 1] = x
      /\ \A j \in 1..m : Append(u, x)[j] = u[j]
  OBVIOUS
<1>3. /\ Len(Append(w, y)) = m + 1 /\ Append(w, y)[m + 1] = y
      /\ \A j \in 1..m : Append(w, y)[j] = w[j]
  BY <1>1
<1>4. \A j \in 1..m : \E i \in 1..n : s[i] \in A /\ u[j] = s[i] /\ w[j] = t[i]
  BY DEF Beside
<1> DEFINE U == Append(u, x)
           W == Append(w, y)
<1> HIDE DEF U, W
<1>5. ASSUME NEW j \in 1..(m + 1) PROVE \E i \in 1..(n + 1) : s[i] \in A /\ U[j] = s[i] /\ W[j] = t[i]
  <2>1. CASE j = m + 1
    <3>1. n + 1 \in 1..(n + 1)
      OBVIOUS
    <3>2. U[j] = s[n + 1] /\ W[j] = t[n + 1]
      BY <1>2, <1>3, <2>1 DEF U, W
    <3> QED  BY <3>1, <3>2
  <2>2. CASE j # m + 1
    <3>1. j \in 1..m
      BY <1>1, <2>2
    <3>2. PICK i \in 1..n : s[i] \in A /\ u[j] = s[i] /\ w[j] = t[i]
      BY <1>4, <3>1
    <3>3. i \in 1..(n + 1)
      OBVIOUS
    <3>4. U[j] = u[j] /\ W[j] = w[j]
      BY <1>2, <1>3, <3>1 DEF U, W
    <3> QED  BY <3>2, <3>3, <3>4
  <2> QED  BY <2>1, <2>2
<1>6. Len(U) = m + 1 /\ Len(W) = m + 1
  BY <1>2, <1>3 DEF U, W
<1>7. Beside(s, t, A, U, W, n + 1)
  BY <1>5, <1>6 DEF Beside
<1> QED  BY <1>7 DEF U, W

LEMMA OnlyBeside ==
  ASSUME NEW Rows, NEW s \in Seq(Rows), NEW t \in Seq(Rows), Len(s) = Len(t), NEW A, NEW B,
         \A i \in 1..Len(s) : s[i] \in A <=> t[i] \in B
  PROVE  Beside(s, t, A, Only(s, A), Only(t, B), Len(s))
<1> DEFINE m == Len(s)
<1>1. m \in Nat /\ \A i \in 1..m : s[i] \in Rows /\ t[i] \in Rows
  OBVIOUS
<1>2. PICK f : Filters(f, s, A, m) /\ Only(s, A) = f[m]
  BY <1>1, OnlyFilters
<1>3. PICK g : Filters(g, t, B, m) /\ Only(t, B) = g[m]
  BY <1>1, OnlyFilters
<1>4. \A n \in 0..m : f[n] = IF n = 0 THEN <<>> ELSE IF s[n] \in A THEN Append(f[n - 1], s[n]) ELSE f[n - 1]
  BY <1>2 DEF Filters
<1>5. \A n \in 0..m : g[n] = IF n = 0 THEN <<>> ELSE IF t[n] \in B THEN Append(g[n - 1], t[n]) ELSE g[n - 1]
  BY <1>3 DEF Filters
<1>6. \A i \in 1..m : s[i] \in A <=> t[i] \in B
  OBVIOUS
<1> HIDE DEF m
<1> DEFINE T == {n \in 0..m : f[n] \in Seq(Rows) /\ g[n] \in Seq(Rows) /\ Beside(s, t, A, f[n], g[n], n)}
<1>7. 0 \in T
  <2>1. 0 \in 0..m /\ f[0] = <<>> /\ g[0] = <<>>
    BY <1>1, <1>4, <1>5
  <2>2. <<>> \in Seq(Rows) /\ Len(<<>>) = 0
    OBVIOUS
  <2>3. Beside(s, t, A, <<>>, <<>>, 0)
    BY <2>2 DEF Beside
  <2> QED  BY <2>1, <2>2, <2>3
<1>8. ASSUME NEW n \in 0..m, n \in T, n # m PROVE n + 1 \in T
  <2>1. n \in Nat /\ n + 1 \in 1..m /\ n + 1 \in 0..m /\ n + 1 # 0 /\ (n + 1) - 1 = n
    BY <1>1, <1>8
  <2>2. f[n] \in Seq(Rows) /\ g[n] \in Seq(Rows) /\ Beside(s, t, A, f[n], g[n], n)
    BY <1>8
  <2>3. s[n + 1] \in Rows /\ t[n + 1] \in Rows /\ (s[n + 1] \in A <=> t[n + 1] \in B)
    BY <1>1, <1>6, <2>1
  <2>4. CASE s[n + 1] \in A
    <3>1. f[n + 1] = Append(f[n], s[n + 1]) /\ g[n + 1] = Append(g[n], t[n + 1])
      <4>1. f[n + 1] = Append(f[n], s[n + 1])
        BY <1>4, <2>1, <2>4
      <4>2. g[n + 1] = Append(g[n], t[n + 1])
        BY <1>5, <2>1, <2>3, <2>4
      <4> QED  BY <4>1, <4>2
    <3>2. Beside(s, t, A, Append(f[n], s[n + 1]), Append(g[n], t[n + 1]), n + 1)
      BY <2>1, <2>2, <2>3, <2>4, BesideAppend
    <3>3. Append(f[n], s[n + 1]) \in Seq(Rows) /\ Append(g[n], t[n + 1]) \in Seq(Rows)
      BY <2>2, <2>3
    <3> QED  BY <2>1, <3>1, <3>2, <3>3
  <2>5. CASE s[n + 1] \notin A
    <3>1. f[n + 1] = f[n]
      BY <1>4, <2>1, <2>5
    <3>2. g[n + 1] = g[n]
      BY <1>5, <2>1, <2>3, <2>5
    <3>3. \A i \in 1..n : i \in 1..(n + 1)
      BY <2>1
    <3>4. Beside(s, t, A, f[n], g[n], n + 1)
      BY <2>2, <3>3 DEF Beside
    <3> QED  BY <2>1, <2>2, <3>1, <3>2, <3>4
  <2> QED  BY <2>4, <2>5
<1> HIDE DEF T
<1>9. 0..m \subseteq T
  BY <1>1, <1>7, <1>8, UpTo
<1>a. m \in T
  BY <1>1, <1>9
<1> QED  BY <1>2, <1>3, <1>a DEF T, m

(* A name counted once is in one place.                                    *)
LEMMA OnePlace ==
  ASSUME NEW Rows, NEW doc \in Seq(Rows), NEW name, Count(doc, name) = 1
  PROVE  \E k \in 1..Len(doc) : Named(doc, name) = {k} /\ doc[k].name = name
<1>1. IsFiniteSet(Named(doc, name)) /\ Cardinality(Named(doc, name)) = 1
  BY NamedFinite DEF Count
<1>2. PICK k : Named(doc, name) = {k}
  BY <1>1, FS_Singleton
<1>3. k \in DOMAIN doc /\ doc[k].name = name
  BY <1>2 DEF Named
<1>4. DOMAIN doc = 1..Len(doc)
  OBVIOUS
<1> QED  BY <1>2, <1>3, <1>4

LEMMA NamesApart ==
  ASSUME NEW Rows, NEW doc \in Seq(Rows), NEW i \in 1..Len(doc), NEW j \in 1..Len(doc),
         Count(doc, doc[i].name) = 1, doc[i].name = doc[j].name
  PROVE  i = j
<1> DEFINE name == doc[i].name
<1>0. Count(doc, name) = 1 /\ doc[i].name = name /\ doc[j].name = name
  OBVIOUS
<1> HIDE DEF name
<1>1. PICK k : Named(doc, name) = {k}
  BY <1>0, OnePlace, Zenon
<1>2. i \in DOMAIN doc /\ j \in DOMAIN doc
  OBVIOUS
<1>3. i \in Named(doc, name) /\ j \in Named(doc, name)
  BY <1>0, <1>2 DEF Named
<1> QED  BY <1>1, <1>3

(* The menu orders name each category once.                                *)
Distinct(order) ==
  /\ DOMAIN order = 1..Len(order) /\ Len(order) \in Nat /\ Len(order) # 0
  /\ \A j, k \in 1..Len(order) : order[j] = order[k] => j = k

LEMMA RemovedDistinct ==
  ASSUME NEW Cats, NEW order \in Seq(Cats), Distinct(order), Len(order) > 1, NEW n \in 1..Len(order)
  PROVE  Distinct(RemoveAt(order, n))
<1> DEFINE m == Len(order)
           at(k) == IF k < n THEN k ELSE k + 1
           r == RemoveAt(order, n)
           front == SubSeq(order, 1, n - 1)
           back == SubSeq(order, n + 1, m)
<1>1. m \in Nat /\ n \in 1..m
  OBVIOUS
<1>2. front \in Seq(Cats) /\ Len(front) = n - 1 /\ \A k \in 1..(n - 1) : front[k] = order[k]
  OBVIOUS
<1>3. back \in Seq(Cats) /\ Len(back) = m - n /\ \A k \in 1..(m - n) : back[k] = order[n + k]
  OBVIOUS
<1>4. r = front \o back
  BY DEF RemoveAt
<1>m. m > 1
  OBVIOUS
<1>o. \A j, k \in 1..m : order[j] = order[k] => j = k
  BY DEF Distinct
<1> HIDE DEF front, back, m
<1>5. r \in Seq(Cats) /\ Len(r) = m - 1
  <2>1. front \o back \in Seq(Cats) /\ Len(front \o back) = Len(front) + Len(back)
    <3>1. front \in Seq(Cats) /\ back \in Seq(Cats)
      BY <1>2, <1>3
    <3> QED  BY <3>1
  <2>2. Len(r) = (n - 1) + (m - n)
    BY <1>2, <1>3, <1>4, <2>1
  <2>3. (n - 1) + (m - n) = m - 1
    BY <1>1
  <2>4. r \in Seq(Cats)
    BY <1>4, <2>1, Zenon
  <2> HIDE DEF r
  <2> QED  BY <2>2, <2>3, <2>4
<1>6. ASSUME NEW k \in 1..(m - 1) PROVE r[k] = order[at(k)]
  <2>1. CASE k < n
    <3>1. k \in 1..Len(front)
      BY <1>1, <1>2, <2>1
    <3>2. (front \o back)[k] = front[k]
      BY <1>2, <1>3, <3>1
    <3>3. k \in 1..(n - 1)
      BY <1>1, <2>1
    <3>4. front[k] = order[k]
      BY <1>2, <3>3
    <3> QED  BY <1>4, <2>1, <3>2, <3>4
  <2>2. CASE ~ (k < n)
    <3>1. k - (n - 1) \in 1..(m - n) /\ k = (n - 1) + (k - (n - 1)) /\ n + (k - (n - 1)) = k + 1
      BY <1>1, <2>2
    <3>2. \A i \in 1..(m - n) : (front \o back)[(n - 1) + i] = back[i]
      BY <1>1, <1>2, <1>3
    <3>3. (front \o back)[k] = back[k - (n - 1)]
      BY <3>1, <3>2
    <3>4. back[k - (n - 1)] = order[k + 1]
      BY <1>3, <3>1
    <3> QED  BY <1>4, <2>2, <3>3, <3>4
  <2> QED  BY <2>1, <2>2
<1> HIDE DEF r
<1>7. \A k \in 1..(m - 1) : at(k) \in 1..m
  BY <1>1
<1>8. \A j, k \in 1..(m - 1) : at(j) = at(k) => j = k
  BY <1>1
<1> HIDE DEF at
<1>9. \A j, k \in 1..(m - 1) : r[j] = r[k] => j = k
  BY <1>6, <1>7, <1>8, <1>o
<1>a. DOMAIN r = 1..Len(r) /\ m - 1 \in Nat /\ m - 1 # 0
  BY <1>1, <1>5, <1>m
<1> QED  BY <1>5, <1>9, <1>a DEF Distinct, r

(* The menu orders name each category once.                                *)
LEMMA FirstOrder ==
  Distinct(CategoryOrder1) /\ Len(CategoryOrder1) = 29 /\ \E Cats : CategoryOrder1 \in Seq(Cats)
<1>1. Len(CategoryOrder1) = 29 /\ DOMAIN CategoryOrder1 = 1..29
  BY DEF CategoryOrder1
<1>2. ASSUME NEW j \in 1..29, NEW k \in 1..29, CategoryOrder1[j] = CategoryOrder1[k] PROVE j = k
  BY <1>2 DEF CategoryOrder1
<1>3. CategoryOrder1 = [k \in 1..29 |-> CategoryOrder1[k]]
  <2>1. CategoryOrder1 = [k \in DOMAIN CategoryOrder1 |-> CategoryOrder1[k]]
    BY DEF CategoryOrder1
  <2> QED  BY <1>1, <2>1
<1> DEFINE Cats == {CategoryOrder1[k] : k \in 1..29}
<1>4. CategoryOrder1 \in Seq(Cats)
  <2>1. \A k \in 1..29 : CategoryOrder1[k] \in Cats
    OBVIOUS
  <2> HIDE DEF Cats
  <2> QED  BY <1>1, <1>3, <2>1
<1> QED  BY <1>1, <1>2, <1>4 DEF Distinct

LEMMA Orders == ASSUME NEW v \in Versions PROVE Distinct(Order(v))
<1>1. PICK Cats : CategoryOrder1 \in Seq(Cats)
  BY FirstOrder
<1>2. Len(CategoryOrder1) > 1 /\ 26 \in 1..Len(CategoryOrder1)
  <2>1. Len(CategoryOrder1) = 29
    BY FirstOrder
  <2> QED  BY <2>1
<1>3. Distinct(CategoryOrder2)
  BY <1>1, <1>2, FirstOrder, RemovedDistinct DEF CategoryOrder2
<1> QED  BY <1>3, FirstOrder DEF Order, Versions

(* The tables of a category.                                               *)
Group(rom, categories, c) == {t \in ToSet(rom) : Resolved(t, categories) = c}

LEMMA SortedGroups ==
  ASSUME NEW rom, NEW parent, NEW order, Distinct(order)
  PROVE  Sorted(rom, parent, order)
           = FlattenSeq([k \in 1..Len(order) |-> Only(rom, Group(rom, ParentCategories(parent), order[k]))])
<1> DEFINE categories == ParentCategories(parent)
           grouped == {<<Resolved(t, categories), t>> : t \in ToSet(rom)}
<1>1. ASSUME NEW c PROVE {t \in ToSet(rom) : <<c, t>> \in grouped} = Group(rom, categories, c)
  <2>1. \A t \in ToSet(rom) : <<c, t>> \in grouped <=> Resolved(t, categories) = c
    OBVIOUS
  <2> HIDE DEF grouped, categories
  <2> QED  BY <2>1 DEF Group
<1>2. DOMAIN order = 1..Len(order)
  BY DEF Distinct
<1>3. Sorted(rom, parent, order)
        = FlattenSeq([k \in DOMAIN order |-> Only(rom, {t \in ToSet(rom) : <<order[k], t>> \in grouped})])
  BY DEF Sorted
<1> HIDE DEF grouped
<1>4. \A k \in DOMAIN order : {t \in ToSet(rom) : <<order[k], t>> \in grouped} = Group(rom, categories, order[k])
  BY <1>1
<1>5. [k \in DOMAIN order |-> Only(rom, {t \in ToSet(rom) : <<order[k], t>> \in grouped})]
        = [k \in 1..Len(order) |-> Only(rom, Group(rom, categories, order[k]))]
  BY <1>2, <1>4
<1> QED  BY <1>3, <1>5

LEMMA SortedFacts ==
  ASSUME NEW Rows, NEW rom \in Seq(Rows), NEW parent, NEW order, Distinct(order),
         \A t \in ToSet(rom) : Resolved(t, ParentCategories(parent)) \in ToSet(order),
         NEW sorted, sorted = Sorted(rom, parent, order)
  PROVE  /\ Rearranged(sorted, rom, ToSet(rom))
         /\ \A c \in ToSet(order) : Only(sorted, Group(rom, ParentCategories(parent), c))
                                      = Only(rom, Group(rom, ParentCategories(parent), c))
<1> DEFINE categories == ParentCategories(parent)
           m == Len(order)
           groups == [k \in 1..m |-> Group(rom, categories, order[k])]
           Tables == ToSet(rom)
<1>1. m \in Nat /\ m # 0 /\ DOMAIN order = 1..m /\ \A j, k \in 1..m : j # k => order[j] # order[k]
  BY DEF Distinct
<1>2. rom \in Seq(Tables)
  BY OverItsOwn
<1>3. \A k \in 1..m : groups[k] = Group(rom, categories, order[k])
  OBVIOUS
<1> DEFINE parts == [k \in 1..m |-> Only(rom, Group(rom, categories, order[k]))]
<1>4. sorted = FlattenSeq(parts)
  BY SortedGroups
<1>p. Len(parts) = m /\ \A k \in 1..m : parts[k] = Only(rom, groups[k])
  BY <1>1
<1>5. \A x \in Tables : Resolved(x, categories) \in ToSet(order)
  OBVIOUS
<1> HIDE DEF m, groups, categories, Tables, parts
<1>6. \A j, k \in 1..m : j # k => groups[j] \cap groups[k] = {}
  BY <1>1, <1>3 DEF Group
<1>7. \A x \in Tables : \E k \in 1..m : x \in groups[k]
  <2> TAKE x \in Tables
  <2>1. PICK k \in 1..m : order[k] = Resolved(x, categories)
    BY <1>1, <1>5 DEF ToSet
  <2>2. x \in Group(rom, categories, order[k])
    BY <2>1 DEF Group, Tables
  <2> QED  BY <1>3, <2>2
<1>8. Rearranged(sorted, rom, Tables) /\ AlikeIn(sorted, rom, groups, m)
  <2>1. Covering(groups, m, Tables)
    BY <1>1, <1>6, <1>7 DEF Covering
  <2>2. PartsBy(parts, rom, groups, m)
    BY <1>p DEF PartsBy
  <2> QED  BY <1>2, <1>4, <2>1, <2>2, Regrouped
<1>9. \A c \in ToSet(order) : Only(sorted, Group(rom, categories, c)) = Only(rom, Group(rom, categories, c))
  BY <1>1, <1>3, <1>8 DEF ToSet, AlikeIn
<1> QED  BY <1>8, <1>9 DEF categories, Tables

(* Every table under a name of its own.                                    *)
NamesOnce(rom) == \A i \in 1..Len(rom) : Count(rom, rom[i].name) = 1

(* Names stay unique when the tables are put in order.                     *)
LEMMA RearrangedNames ==
  ASSUME NEW Rows, NEW doc \in Seq(Rows), NEW target, Rearranged(target, doc, Rows), NamesOnce(target)
  PROVE  \A i, j \in 1..Len(doc) : doc[i].name = doc[j].name => i = j
<1>1. DOMAIN doc = 1..Len(doc) /\ target \in Seq(Rows) /\ DOMAIN target = 1..Len(target)
      /\ ToSet(target) = ToSet(doc)
  BY DEF Rearranged
<1>2. ASSUME NEW i \in 1..Len(doc) PROVE Count(doc, doc[i].name) = 1
  <2>1. doc[i] \in ToSet(target)
    BY <1>1 DEF ToSet
  <2>2. PICK k \in 1..Len(target) : doc[i] = target[k]
    BY <1>1, <2>1 DEF ToSet
  <2>3. Count(target, doc[i].name) = 1
    BY <2>2 DEF NamesOnce
  <2>4. \A n : Count(target, n) = Count(doc, n)
    BY DEF Rearranged
  <2> QED  BY <2>3, <2>4, Zenon
<1>3. ASSUME NEW i \in 1..Len(doc), NEW j \in 1..Len(doc), doc[i].name = doc[j].name PROVE i = j
  BY <1>2, <1>3, NamesApart
<1> QED  BY <1>3

(* Names and addresses of tables with different names are as many.         *)
Shown(rom) == {<<t.name, t.at>> : t \in ToSet(rom)}

LEMMA ShownCounts ==
  ASSUME NEW Rows, NEW rom \in Seq(Rows), \A i, j \in 1..Len(rom) : rom[i].name = rom[j].name => i = j
  PROVE  Cardinality(Shown(rom)) = Len(rom)
<1> DEFINE n == Len(rom)
           f == [i \in 1..n |-> <<rom[i].name, rom[i].at>>]
<1>1. n \in Nat /\ DOMAIN rom = 1..n
  OBVIOUS
<1>2. f \in [1..n -> Shown(rom)]
  <2>1. \A i \in 1..n : <<rom[i].name, rom[i].at>> \in Shown(rom)
    BY <1>1 DEF Shown, ToSet
  <2> QED  BY <2>1
<1>3. \A i, j \in 1..n : f[i] = f[j] => i = j
  OBVIOUS
<1>4. \A x \in Shown(rom) : \E i \in 1..n : f[i] = x
  BY <1>1 DEF Shown, ToSet
<1> HIDE DEF f
<1>5. f \in Bijection(1..n, Shown(rom))
  BY <1>2, <1>3, <1>4, Fun_IsBij
<1>6. IsFiniteSet(1..n) /\ Cardinality(1..n) = n
  BY <1>1, FS_Interval
<1> QED  BY <1>5, <1>6, FS_Bijection DEF ExistsBijection

(* The places of a definition made of two parts.                           *)
LEMMA AppendedFacts ==
  ASSUME NEW Rows, NEW front \in Seq(Rows), NEW back \in Seq(Rows), NEW whole, Appended(whole, front, back)
  PROVE  /\ whole \in Seq(Rows) /\ Len(whole) = Len(front) + Len(back)
         /\ Len(front) \in Nat /\ Len(back) \in Nat
         /\ \A i \in 1..Len(front) : whole[i] = front[i]
         /\ \A j \in 1..Len(back) : whole[Len(front) + j] = back[j]
         /\ ToSet(whole) = ToSet(front) \cup ToSet(back)
<1>1. front \o back \in Seq(Rows) /\ Len(front \o back) = Len(front) + Len(back)
  OBVIOUS
<1>2. \A i \in 1..Len(front) : (front \o back)[i] = front[i]
  OBVIOUS
<1>3. \A j \in 1..Len(back) : (front \o back)[Len(front) + j] = back[j]
  OBVIOUS
<1>4. ToSet(front \o back) = ToSet(front) \cup ToSet(back)
  BY TablesConcat
<1>5. Len(front) \in Nat /\ Len(back) \in Nat
  OBVIOUS
<1>6. whole = front \o back
  BY DEF Appended
<1> QED  BY <1>1, <1>2, <1>3, <1>4, <1>5, <1>6, Zenon

Placed(whole, front, back) ==
  /\ Len(whole) = Len(front) + Len(back) /\ Len(front) \in Nat /\ Len(back) \in Nat
  /\ \A i \in 1..Len(front) : whole[i] = front[i]
  /\ \A j \in 1..Len(back) : whole[Len(front) + j] = back[j]

LEMMA AppendedPlaced ==
  ASSUME NEW Rows, NEW front \in Seq(Rows), NEW back \in Seq(Rows), NEW whole, Appended(whole, front, back)
  PROVE  Placed(whole, front, back)
BY AppendedFacts DEF Placed

LEMMA OnlyOfParts ==
  ASSUME NEW Rows, NEW front \in Seq(Rows), NEW back \in Seq(Rows), NEW whole, Appended(whole, front, back),
         NEW tables
  PROVE  Appended(Only(whole, tables), Only(front, tables), Only(back, tables))
<1>1. Appended(Only(front \o back, tables), Only(front, tables), Only(back, tables))
  BY OnlyAppended
<1>2. whole = front \o back
  BY DEF Appended
<1> QED  BY <1>1, <1>2, Zenon

(* The tables of a category that come from the source are in its order:    *)
(* read beside the source's tables, in the master put in order, they are   *)
(* chosen at the same places.                                              *)
Picked(from, kept, doc, categories, c, wanted, chosen) ==
  /\ \A t \in ToSet(doc) : t \in wanted <=> /\ \E i \in 1..Len(kept) : t.name = kept[i].name
                                          /\ Resolved(t, categories) = c
  /\ \A i \in 1..Len(from) : from[i] \in chosen <=> kept[i] \in wanted
LEMMA CategoryShown ==
  ASSUME NEW Rows, NEW from \in Seq(Rows), NEW kept \in Seq(Rows), NEW extra \in Seq(Rows),
         Len(kept) = Len(from), NEW doc, Appended(doc, kept, extra),
         NEW target, Rearranged(target, doc, Rows), NamesOnce(target),
         NEW categories, NEW c,
         Only(target, Group(doc, categories, c)) = Only(doc, Group(doc, categories, c)),
         NEW wanted, NEW chosen, Picked(from, kept, doc, categories, c, wanted, chosen)
  PROVE  Beside(from, kept, chosen, Only(from, chosen), Only(target, wanted), Len(from))
<1>p. /\ Len(doc) = Len(kept) + Len(extra) /\ Len(kept) \in Nat /\ Len(extra) \in Nat
      /\ \A i \in 1..Len(kept) : doc[i] = kept[i]
      /\ \A j \in 1..Len(extra) : doc[Len(kept) + j] = extra[j]
  <2>1. Placed(doc, kept, extra)
    BY AppendedPlaced
  <2> QED  BY <2>1 DEF Placed
<1> DEFINE G == Group(doc, categories, c)
           old == {kept[i].name : i \in 1..Len(kept)}
           Old == {t \in Rows : t.name \in old}
<1>q. /\ \A t \in ToSet(doc) : t \in wanted <=> t.name \in old /\ Resolved(t, categories) = c
      /\ \A i \in 1..Len(from) : from[i] \in chosen <=> kept[i] \in wanted
  BY DEF Picked
<1>1. doc \in Seq(Rows) /\ ToSet(doc) = ToSet(kept) \cup ToSet(extra)
  BY AppendedFacts
<1>2. target \in Seq(Rows) /\ ToSet(target) = ToSet(doc) /\ ToSet(doc) \subseteq Rows
  <2>1. ToSet(doc) \subseteq Rows
    BY <1>1, OverItsOwn
  <2> QED  BY <2>1 DEF Rearranged
<1>3. \A t \in ToSet(doc) : t \in wanted <=> t \in G \cap Old
  BY <1>2, <1>q DEF Group
<1>4. target \in Seq(ToSet(doc)) /\ doc \in Seq(ToSet(doc))
  BY <1>1, <1>2, OverItsOwn
<1>g. Only(target, G) = Only(doc, G)
  OBVIOUS
<1> HIDE DEF G, Old
<1>5. Only(target, wanted) = Only(target, G \cap Old)
  BY <1>3, <1>4, OnlySame
<1>6. Only(doc, wanted) = Only(doc, G \cap Old)
  BY <1>3, <1>4, OnlySame
<1>7. Only(target, wanted) = Only(doc, wanted)
  <2>1. Only(Only(target, G), Old) = Only(target, G \cap Old)
    BY <1>2, OnlyTwice
  <2>2. Only(Only(doc, G), Old) = Only(doc, G \cap Old)
    BY <1>1, OnlyTwice
  <2> QED  BY <1>g, <1>5, <1>6, <2>1, <2>2
<1>8. Only(extra, wanted) = <<>>
  <2>1. ASSUME NEW x \in ToSet(extra) PROVE x \notin wanted
    <3>1. PICK j \in 1..Len(extra) : x = extra[j]
      BY DEF ToSet
    <3>2. x \in ToSet(doc)
      BY <1>1
    <3>3. x.name \notin old
      <4> SUFFICES ASSUME NEW i \in 1..Len(kept), x.name = kept[i].name PROVE FALSE
        OBVIOUS
      <4>1. /\ Len(kept) \in Nat /\ Len(extra) \in Nat /\ Len(doc) = Len(kept) + Len(extra)
            /\ doc[i] = kept[i] /\ doc[Len(kept) + j] = extra[j]
        BY <1>p
      <4>2. i \in 1..Len(doc) /\ Len(kept) + j \in 1..Len(doc) /\ i # Len(kept) + j
        BY <4>1
      <4>3. doc[i].name = doc[Len(kept) + j].name
        BY <3>1, <4>1
      <4> QED  BY <1>1, <4>2, <4>3, RearrangedNames
    <3> QED  BY <1>q, <3>2, <3>3
  <2>2. extra \in Seq(ToSet(extra))
    BY OverItsOwn
  <2> QED  BY <2>1, <2>2, OnlyNone
<1>9. Only(doc, wanted) = Only(kept, wanted)
  <2>1. Appended(Only(doc, wanted), Only(kept, wanted), Only(extra, wanted))
    BY OnlyOfParts
  <2>2. Only(kept, wanted) \in Seq(Rows)
    BY OnlyType
  <2>3. Appended(Only(doc, wanted), Only(kept, wanted), <<>>)
    BY <1>8, <2>1
  <2> QED  BY <2>2, <2>3, AppendedEmpty
<1>a. Beside(from, kept, chosen, Only(from, chosen), Only(kept, wanted), Len(from))
  BY <1>q, OnlyBeside
<1> QED  BY <1>7, <1>9, <1>a

(* A table has its five fields.                                            *)
IsTable(t) ==
  t = [rom |-> t.rom, name |-> t.name, category |-> t.category, typed |-> t.typed, at |-> t.at]
IsTables(s) == \E Rows : s \in Seq(Rows) /\ \A x \in Rows : IsTable(x)

LEMMA TableFacts ==
  ASSUME NEW t, IsTable(t), NEW new
  PROVE  /\ IsTable([t EXCEPT !.name = new]) /\ [t EXCEPT !.name = new].name = new
         /\ [t EXCEPT !.name = new].at = t.at
         /\ IsTable([t EXCEPT !.category = new]) /\ [t EXCEPT !.category = new].name = t.name
         /\ [t EXCEPT !.category = new].at = t.at
         /\ IsTable([t EXCEPT !.at = new])
<1>0. t = [rom |-> t.rom, name |-> t.name, category |-> t.category, typed |-> t.typed, at |-> t.at]
  BY DEF IsTable
<1>1. [t EXCEPT !.name = new]
        = [rom |-> t.rom, name |-> new, category |-> t.category, typed |-> t.typed, at |-> t.at]
  BY <1>0
<1>2. [t EXCEPT !.category = new]
        = [rom |-> t.rom, name |-> t.name, category |-> new, typed |-> t.typed, at |-> t.at]
  BY <1>0
<1>3. [t EXCEPT !.at = new]
        = [rom |-> t.rom, name |-> t.name, category |-> t.category, typed |-> t.typed, at |-> new]
  BY <1>0
<1> QED  BY <1>1, <1>2, <1>3 DEF IsTable

LEMMA TypedTableFact ==
  ASSUME NEW t, IsTable(t), NEW new, NEW flag
  PROVE  IsTable([t EXCEPT !.category = new, !.typed = flag])
<1>0. t = [rom |-> t.rom, name |-> t.name, category |-> t.category, typed |-> t.typed, at |-> t.at]
  BY DEF IsTable
<1>2. [t EXCEPT !.category = new, !.typed = flag]
        = [rom |-> t.rom, name |-> t.name, category |-> new, typed |-> flag, at |-> t.at]
  <2> DEFINE u == [rom |-> t.rom, name |-> t.name, category |-> new, typed |-> t.typed, at |-> t.at]
  <2>1. [t EXCEPT !.category = new, !.typed = flag] = [[t EXCEPT !.category = new] EXCEPT !.typed = flag]
    OBVIOUS
  <2>2. [u EXCEPT !.typed = flag]
          = [rom |-> t.rom, name |-> t.name, category |-> new, typed |-> flag, at |-> t.at]
    OBVIOUS
  <2> HIDE DEF u
  <2>3. [t EXCEPT !.category = new] = u
    BY <1>0 DEF u
  <2> QED  BY <2>1, <2>2, <2>3
<1> QED  BY <1>2 DEF IsTable

LEMMA TablesMembers ==
  ASSUME NEW s, IsTables(s)
  PROVE  /\ Len(s) \in Nat /\ DOMAIN s = 1..Len(s) /\ \A i \in 1..Len(s) : IsTable(s[i])
         /\ \E Rows : s \in Seq(Rows) /\ \A x \in Rows : IsTable(x)
<1>1. PICK Rows : s \in Seq(Rows) /\ \A x \in Rows : IsTable(x)
  BY DEF IsTables
<1>2. Len(s) \in Nat /\ DOMAIN s = 1..Len(s) /\ \A i \in 1..Len(s) : s[i] \in Rows
  BY <1>1
<1> QED  BY <1>1, <1>2

LEMMA TablesByPlaces ==
  ASSUME NEW n \in Nat, NEW s, s = [k \in 1..n |-> s[k]], \A k \in 1..n : IsTable(s[k])
  PROVE  IsTables(s) /\ Len(s) = n
<1> DEFINE Rows == {s[k] : k \in 1..n}
<1>1. \A k \in 1..n : s[k] \in Rows
  OBVIOUS
<1>2. \A x \in Rows : IsTable(x)
  OBVIOUS
<1> HIDE DEF Rows
<1>3. s \in Seq(Rows) /\ Len(s) = n
  <2>1. [k \in 1..n |-> s[k]] \in Seq(Rows)
    BY <1>1, IsASeq
  <2> QED  BY <2>1
<1> QED  BY <1>2, <1>3 DEF IsTables

LEMMA TablesConcatenated ==
  ASSUME NEW s, IsTables(s), NEW t, IsTables(t) PROVE IsTables(s \o t)
<1>1. PICK A : s \in Seq(A) /\ \A x \in A : IsTable(x)
  BY DEF IsTables
<1>2. PICK B : t \in Seq(B) /\ \A x \in B : IsTable(x)
  BY DEF IsTables
<1> DEFINE C == A \cup B
<1>3. s \in Seq(C) /\ t \in Seq(C)
  BY <1>1, <1>2, SeqWidens
<1>4. \A x \in C : IsTable(x)
  BY <1>1, <1>2
<1> HIDE DEF C
<1>5. s \o t \in Seq(C)
  BY <1>3
<1> QED  BY <1>4, <1>5 DEF IsTables

(* Every edit of a definition is a definition.                             *)
LEMMA EditsAreTables ==
  ASSUME NEW doc, IsTables(doc), NEW i \in DOMAIN doc, NEW e \in Edits(doc, i) PROVE IsTables(e)
<1>1. PICK Rows : doc \in Seq(Rows) /\ \A x \in Rows : IsTable(x)
  BY DEF IsTables
<1> DEFINE n == Len(doc)
<1>2. n \in Nat /\ i \in 1..n /\ doc = [k \in 1..n |-> doc[k]]
  BY <1>1
<1>t. \A k \in 1..n : IsTable(doc[k])
  BY <1>1
<1>3. CASE e = SubSeq(doc, 1, i - 1) \o SubSeq(doc, i + 1, Len(doc))
  <2>1. SubSeq(doc, 1, i - 1) \in Seq(Rows) /\ SubSeq(doc, i + 1, Len(doc)) \in Seq(Rows)
    BY <1>1, <1>2
  <2>2. e \in Seq(Rows)
    BY <1>3, <2>1
  <2> QED  BY <1>1, <2>2 DEF IsTables
<1>4. CASE e = SubSeq(doc, 1, i) \o SubSeq(doc, i, Len(doc))
  <2>1. SubSeq(doc, 1, i) \in Seq(Rows) /\ SubSeq(doc, i, Len(doc)) \in Seq(Rows)
    BY <1>1, <1>2
  <2>2. e \in Seq(Rows)
    BY <1>4, <2>1
  <2> QED  BY <1>1, <2>2 DEF IsTables
<1>5. ASSUME NEW new, IsTable(new), e = [doc EXCEPT ![i] = new] PROVE IsTables(e)
  <2>1. e = [k \in 1..n |-> e[k]]
    BY <1>2, <1>5
  <2>2. \A k \in 1..n : e[k] = IF k = i THEN new ELSE doc[k]
    BY <1>2, <1>5
  <2>3. \A k \in 1..n : IsTable(e[k])
    BY <1>t, <1>5, <2>2
  <2> HIDE DEF n
  <2> QED  BY <1>2, <2>1, <2>3, TablesByPlaces
<1>6. CASE i < n /\ e = [doc EXCEPT ![i] = doc[i + 1], ![i + 1] = doc[i]]
  <2>1. e = [k \in 1..n |-> e[k]]
    BY <1>2, <1>6
  <2>2. \A k \in 1..n : e[k] = IF k = i + 1 THEN doc[i] ELSE IF k = i THEN doc[i + 1] ELSE doc[k]
    BY <1>2, <1>6
  <2>3. i + 1 \in 1..n
    BY <1>2, <1>6
  <2>4. \A k \in 1..n : IsTable(e[k])
    BY <1>2, <1>t, <2>2, <2>3
  <2> HIDE DEF n
  <2> QED  BY <1>2, <2>1, <2>4, TablesByPlaces
<1>7. \/ e = SubSeq(doc, 1, i - 1) \o SubSeq(doc, i + 1, Len(doc))
      \/ e = SubSeq(doc, 1, i) \o SubSeq(doc, i, Len(doc))
      \/ e = [doc EXCEPT ![i].at = @ + 4]
      \/ \E c : e = [doc EXCEPT ![i].category = c]
      \/ \E c : e = [doc EXCEPT ![i].name = c]
      \/ e = [doc EXCEPT ![i].category = "Limits", ![i].typed = TRUE]
      \/ i < Len(doc) /\ e = [doc EXCEPT ![i] = doc[i + 1], ![i + 1] = doc[i]]
  BY DEF Edits
<1>a. IsTable(doc[i])
  BY <1>2, <1>t
<1>b. CASE e = [doc EXCEPT ![i].at = @ + 4]
  <2> DEFINE a == doc[i].at + 4
  <2>1. e = [doc EXCEPT ![i] = [doc[i] EXCEPT !.at = a]]
    BY <1>b
  <2> HIDE DEF a
  <2> QED  BY <1>5, <1>a, <2>1, TableFacts
<1>c. ASSUME NEW c, e = [doc EXCEPT ![i].category = c] PROVE IsTables(e)
  <2>1. e = [doc EXCEPT ![i] = [doc[i] EXCEPT !.category = c]]
    BY <1>c
  <2> QED  BY <1>5, <1>a, <2>1, TableFacts
<1>d. ASSUME NEW c, e = [doc EXCEPT ![i].name = c] PROVE IsTables(e)
  <2>1. e = [doc EXCEPT ![i] = [doc[i] EXCEPT !.name = c]]
    BY <1>d
  <2> QED  BY <1>5, <1>a, <2>1, TableFacts
<1>e. CASE e = [doc EXCEPT ![i].category = "Limits", ![i].typed = TRUE]
  <2> DEFINE yes == TRUE
  <2>1. e = [doc EXCEPT ![i] = [doc[i] EXCEPT !.category = "Limits", !.typed = yes]]
    BY <1>e
  <2> DEFINE new == [doc[i] EXCEPT !.category = "Limits", !.typed = yes]
  <2>2. IsTable(new)
    <3> DEFINE limits == "Limits"
               t == doc[i]
    <3> HIDE DEF yes, limits, t
    <3>1. IsTable([t EXCEPT !.category = limits, !.typed = yes])
      BY <1>a, TypedTableFact DEF t
    <3> QED  BY <3>1 DEF limits, t
  <2> HIDE DEF new
  <2>3. e = [doc EXCEPT ![i] = new]
    BY <2>1 DEF new
  <2> QED  BY <1>5, <2>2, <2>3
<1> QED  BY <1>3, <1>4, <1>6, <1>7, <1>b, <1>c, <1>d, <1>e

Categorized(v, rom) == IF v = 1 THEN Categorize1(rom) ELSE Categorize2(rom)
PrunedBy(v, rom, inherited) == IF v = 1 THEN Prune1(rom, inherited) ELSE Prune2(rom, inherited)
AddedReferences(v) == IF v = 1 THEN AddedReferences1 ELSE AddedReferences2

(* What the builder has checked of a definition it writes.                 *)
Buildable(v, source, sdDoc, boostDoc, parent, target) ==
  LET final == Sorted(target, parent, Order(v))
  IN /\ BuildTree(v, source, sdDoc, boostDoc).doc
          = [parent |-> Sorted(parent, parent, Order(v)), target |-> final]
     /\ ExactlyOne(Target(sdDoc), NamesOf(SdTables))
     /\ ExactlyOne(Target(boostDoc), NamesOf(OverboostTables))
     /\ \A t \in ToSet(parent) \cup ToSet(target) :
          Resolved(t, ParentCategories(parent)) \in CategoryNames(v)
     /\ ExactlyOne(final, {final[i].name : i \in DOMAIN final})

LEMMA BuildAccepted ==
  ASSUME NEW v \in Versions, NEW source, NEW sdDoc, NEW boostDoc,
         BuildTree(v, source, sdDoc, boostDoc).status = "ok",
         NEW parent, parent = Categorized(v, Extended(v, source, sdDoc, boostDoc).parent),
         NEW target, target = Categorized(v, Extended(v, source, sdDoc, boostDoc).target)
  PROVE  Buildable(v, source, sdDoc, boostDoc, parent, target)
<1> DEFINE sorted == [parent |-> Sorted(parent, parent, Order(v)), target |-> Sorted(target, parent, Order(v))]
           doc == Extended(v, source, sdDoc, boostDoc)
           valid == IF v = 1 THEN Validate1(sorted.parent, sorted.target)
                             ELSE Validate2(sorted.parent, sorted.target)
           noFiles == \/ ~ExactlyOne(Parent(sdDoc), NamesOf(SdTables))
                      \/ ~ExactlyOne(Target(sdDoc), NamesOf(SdTables))
                      \/ ~ExactlyOne(Target(boostDoc), NamesOf(OverboostTables))
           noResult == \/ ~ExactlyOne(doc.parent, {"IAT Scaling"} \cup Described)
                       \/ ~ExactlyOne(doc.target, NamesOf(OverboostTables) \cup AvlsNames)
                       \/ \E t \in ToSet(parent) \cup ToSet(target) :
                            Resolved(t, ParentCategories(parent)) \notin CategoryNames(v)
                       \/ ~valid
<1>1. BuildTree(v, source, sdDoc, boostDoc)
        = IF noFiles THEN Refused ELSE IF noResult THEN Refused ELSE [status |-> "ok", doc |-> sorted]
  BY Zenon DEF BuildTree, Categorized
<1>2. Refused.status # "ok"
  BY DEF Refused
<1>3. [status |-> "ok", doc |-> sorted].doc = sorted
  OBVIOUS
<1> HIDE DEF noFiles, noResult, sorted
<1>4. ~noFiles /\ ~noResult
  BY <1>1, <1>2
<1>5. BuildTree(v, source, sdDoc, boostDoc).doc = sorted
  BY <1>1, <1>3, <1>4
<1>6. /\ ExactlyOne(Target(sdDoc), NamesOf(SdTables))
      /\ ExactlyOne(Target(boostDoc), NamesOf(OverboostTables))
  BY <1>4 DEF noFiles
<1>7. /\ \A t \in ToSet(parent) \cup ToSet(target) :
           Resolved(t, ParentCategories(parent)) \in CategoryNames(v)
      /\ valid
  BY <1>4, Zenon DEF noResult
<1>8. ValidNames(v, sorted.parent, sorted.target)
  <2>1. CASE v = 1
    BY <1>7, <2>1 DEF Validate1
  <2>2. CASE v # 1
    <3>1. v = 2
      BY <2>2 DEF Versions
    <3> QED  BY <1>7, <2>2, <3>1 DEF Validate2
  <2> QED  BY <2>1, <2>2
<1>9. sorted.target = Sorted(target, parent, Order(v))
  BY DEF sorted
<1>a. ExactlyOne(sorted.target, {sorted.target[i].name : i \in DOMAIN sorted.target})
  BY <1>8, Zenon DEF ValidNames
<1> QED  BY <1>5, <1>6, <1>7, <1>9, <1>a DEF sorted, Buildable

(* Categories change a table's category, and no name or address.           *)
LEMMA CategorizedFacts ==
  ASSUME NEW v, NEW rom, IsTables(rom), NEW new, new = Categorized(v, rom)
  PROVE  /\ IsTables(new) /\ Len(new) = Len(rom)
         /\ \A i \in 1..Len(rom) : new[i].name = rom[i].name /\ new[i].at = rom[i].at
<1>1. Len(rom) \in Nat /\ DOMAIN rom = 1..Len(rom) /\ \A i \in 1..Len(rom) : IsTable(rom[i])
  BY TablesMembers
<1> DEFINE n == Len(rom)
           c(i) == IF v = 1 THEN Assigned(rom[i], TableOverrides1, CategoryRenames1)
                            ELSE Assigned(rom[i], TableOverrides2, CategoryRenames2)
<1>2. new = [i \in 1..n |-> [rom[i] EXCEPT !.category = c(i)]]
  <2>1. CASE v = 1
    BY <1>1, <2>1 DEF Categorized, Categorize1
  <2>2. CASE v # 1
    BY <1>1, <2>2 DEF Categorized, Categorize2
  <2> QED  BY <2>1, <2>2
<1> HIDE DEF c
<1>3. new = [i \in 1..n |-> new[i]] /\ \A i \in 1..n : new[i] = [rom[i] EXCEPT !.category = c(i)]
  BY <1>2
<1>4. \A i \in 1..n : IsTable(new[i]) /\ new[i].name = rom[i].name /\ new[i].at = rom[i].at
  <2> TAKE i \in 1..n
  <2> DEFINE x == c(i)
             t == rom[i]
  <2>1. IsTable(t) /\ new[i] = [t EXCEPT !.category = x]
    BY <1>1, <1>3
  <2> HIDE DEF x, t
  <2> DEFINE u == [t EXCEPT !.category = x]
  <2>0. new[i] = u
    BY <2>1
  <2>3. IsTable(u) /\ u.name = t.name /\ u.at = t.at
    <3>1. IsTable(t)
      BY <2>1
    <3> QED  BY <3>1, TableFacts
  <2> HIDE DEF u
  <2>2. IsTable(new[i]) /\ new[i].name = t.name /\ new[i].at = t.at
    BY <2>0, <2>3
  <2> QED  BY <2>2 DEF t
<1> QED  BY <1>1, <1>3, <1>4, TablesByPlaces

LEMMA CategorizedIsDoc ==
  ASSUME NEW v, NEW rom, IsDoc(rom) PROVE IsDoc(Categorized(v, rom))
<1>1. PICK Rows : rom \in Seq(Rows)
  BY DEF IsDoc
<1> DEFINE n == Len(rom)
           c(i) == IF v = 1 THEN [rom[i] EXCEPT !.category = Assigned(rom[i], TableOverrides1, CategoryRenames1)]
                            ELSE [rom[i] EXCEPT !.category = Assigned(rom[i], TableOverrides2, CategoryRenames2)]
           Set == {c(i) : i \in 1..n}
<1>2. n \in Nat /\ DOMAIN rom = 1..n
  BY <1>1
<1>3. Categorized(v, rom) = [i \in 1..n |-> c(i)]
  <2>1. CASE v = 1
    BY <1>2, <2>1 DEF Categorized, Categorize1
  <2>2. CASE v # 1
    BY <1>2, <2>2 DEF Categorized, Categorize2
  <2> QED  BY <2>1, <2>2
<1>4. \A i \in 1..n : c(i) \in Set
  OBVIOUS
<1> HIDE DEF c, Set
<1>5. [i \in 1..n |-> c(i)] \in Seq(Set)
  BY <1>2, <1>4, IsASeq
<1> QED  BY <1>3, <1>5 DEF IsDoc

(* Pruning keeps the tables that survive, under their new names.           *)
LEMMA PrunedFacts ==
  ASSUME NEW v \in Versions, NEW source, IsTables(source), NEW rom, IsTables(rom),
         NEW from, from = Surviving(source, rom),
         NEW new, new = PrunedBy(v, rom, InheritedDrops(source))
  PROVE  /\ IsTables(from) /\ IsTables(new) /\ Len(new) = Len(from)
         /\ \A i \in 1..Len(from) : new[i].name = Published(v, from[i].name) /\ new[i].at = from[i].at
<1>1. PICK Rows : rom \in Seq(Rows) /\ \A x \in Rows : IsTable(x)
  BY DEF IsTables
<1>2. IsDoc(Parent(source))
  <2>1. PICK A : source \in Seq(A)
    BY DEF IsTables
  <2>2. Parent(source) \in Seq(A)
    BY <2>1, WithinType DEF Parent
  <2> QED  BY <2>2 DEF IsDoc
<1> DEFINE inherited == InheritedDrops(source)
           kept == Only(rom, {t \in ToSet(rom) : ~ShouldDrop(t) /\ t.name \notin inherited})
<1>3. \A t : t.name \notin inherited <=> \A p \in ToSet(Parent(source)) : p.name = t.name => ~ShouldDrop(p)
  <2> DEFINE parent == Parent(source)
  <2>1. \A n : n \in inherited <=> \E i \in DOMAIN parent : ShouldDrop(parent[i]) /\ parent[i].name = n
    BY DEF InheritedDrops
  <2>2. \A p : p \in ToSet(parent) <=> \E i \in DOMAIN parent : p = parent[i]
    BY DEF ToSet
  <2> HIDE DEF inherited, parent
  <2>3. \A n : n \notin inherited <=> \A p \in ToSet(parent) : p.name = n => ~ShouldDrop(p)
    BY <2>1, <2>2
  <2> QED  BY <2>3 DEF parent
<1> HIDE DEF inherited
<1>4. kept = from
  <2>1. \A t : (~ShouldDrop(t) /\ t.name \notin inherited) <=> Survives(source, t)
    BY <1>3 DEF Survives
  <2>2. {t \in ToSet(rom) : ~ShouldDrop(t) /\ t.name \notin inherited} = {t \in ToSet(rom) : Survives(source, t)}
    BY <2>1
  <2> QED  BY <2>2 DEF Surviving
<1>5. from \in Seq(Rows)
  BY <1>1, OnlyType DEF Surviving
<1>6. IsTables(from)
  BY <1>1, <1>5 DEF IsTables
<1>7. new = Prune(rom, inherited, Renames(v))
  BY DEF PrunedBy, Prune1, Prune2, Versions, inherited
<1>8. new = [i \in DOMAIN from |-> [from[i] EXCEPT !.name = IF @ \in DOMAIN Renames(v) THEN Renames(v)[@] ELSE @]]
  BY <1>4, <1>7 DEF Prune
<1> DEFINE n == Len(from)
<1>9. n \in Nat /\ DOMAIN from = 1..n /\ \A i \in 1..n : IsTable(from[i])
  BY <1>6, TablesMembers
<1>a. \A i \in 1..n : new[i] = [from[i] EXCEPT !.name = Published(v, from[i].name)]
  BY <1>8, <1>9 DEF Published
<1>b. new = [i \in 1..n |-> new[i]]
  BY <1>8, <1>9
<1>c. \A i \in 1..n : IsTable(new[i]) /\ new[i].name = Published(v, from[i].name) /\ new[i].at = from[i].at
  <2> TAKE i \in 1..n
  <2> DEFINE x == Published(v, from[i].name)
             t == from[i]
  <2>1. IsTable(t) /\ new[i] = [t EXCEPT !.name = x]
    BY <1>9, <1>a
  <2> HIDE DEF x, t
  <2> DEFINE u == [t EXCEPT !.name = x]
  <2>0. new[i] = u
    BY <2>1
  <2>3. IsTable(u) /\ u.name = x /\ u.at = t.at
    <3>1. IsTable(t)
      BY <2>1
    <3> QED  BY <3>1, TableFacts
  <2> HIDE DEF u
  <2>2. IsTable(new[i]) /\ new[i].name = x /\ new[i].at = t.at
    BY <2>0, <2>3
  <2> QED  BY <2>2 DEF t, x
<1> HIDE DEF n
<1>d. IsTables(new) /\ Len(new) = n
  BY <1>9, <1>b, <1>c, TablesByPlaces
<1> QED  BY <1>6, <1>c, <1>d DEF n

IsList(list) == DOMAIN list = 1..Len(list) /\ Len(list) \in Nat

LEMMA Lists ==
  /\ IsList(SdTables) /\ IsList(OverboostTables) /\ IsList(WidebandTables) /\ IsList(FuelingSafetyTables)
  /\ IsList(FuelPumpTables) /\ IsList(RotationalTables) /\ IsList(RepairTables) /\ IsList(TimingMinimumTables)
<1>1. IsList(SdTables)
  BY DEF IsList, SdTables
<1>2. IsList(OverboostTables)
  BY DEF IsList, OverboostTables
<1>3. IsList(WidebandTables)
  BY DEF IsList, WidebandTables
<1>4. IsList(FuelingSafetyTables)
  BY DEF IsList, FuelingSafetyTables
<1>5. IsList(FuelPumpTables)
  BY DEF IsList, FuelPumpTables
<1>6. IsList(RotationalTables)
  <2>1. DOMAIN RotationalTables = 1..12
    BY DEF RotationalTables
  <2>2. Len(RotationalTables) = 12
    <3> DEFINE row(i) == <<<<"RI Enable", "RI Minimum Coolant", "RI Maximum Coolant", "RI Minimum RPM",
                       "RI Maximum RPM", "RI Maximum Throttle", "RI Maximum Speed", "RI Minimum MAP",
                       "RI Maximum MAP", "RI Maximum Retard", "RI Minimum Timing", "RI Offsets">>[i],
                     "09.3", \h7DB40 + 4 * (i - 1)>>
    <3>1. RotationalTables = [i \in 1..12 |-> row(i)]
      BY DEF RotationalTables
    <3> HIDE DEF row
    <3> QED  BY <3>1
  <2> QED  BY <2>1, <2>2 DEF IsList
<1>7. IsList(RepairTables)
  BY DEF IsList, RepairTables
<1>8. IsList(TimingMinimumTables)
  BY DEF IsList, TimingMinimumTables
<1> QED  BY <1>1, <1>2, <1>3, <1>4, <1>5, <1>6, <1>7, <1>8

LEMMA MadeTables ==
  /\ \A n, a : IsTable(Reference(n, a)) /\ Reference(n, a).name = n /\ Reference(n, a).at = a
  /\ \A s, n, c, a : IsTable(Typed(s, n, c, a)) /\ Typed(s, n, c, a).name = n /\ Typed(s, n, c, a).at = a
  /\ \A n, c : IsTable(Template(n, c))
BY DEF IsTable, Reference, Typed, Template

LEMMA ReferencesAreTables ==
  ASSUME NEW list, IsList(list) PROVE IsTables(References(list)) /\ IsTables(TypedTables(list))
<1>1. Len(list) \in Nat /\ DOMAIN list = 1..Len(list)
  BY DEF IsList
<1>2. IsTables(References(list))
  <2> DEFINE r == References(list)
             x(i) == Reference(list[i][1], list[i][3])
  <2>1. \A i \in 1..Len(list) : IsTable(x(i))
    BY MadeTables
  <2>2. r = [i \in 1..Len(list) |-> x(i)]
    BY <1>1 DEF References
  <2> HIDE DEF r, x
  <2>3. r = [i \in 1..Len(list) |-> r[i]] /\ \A i \in 1..Len(list) : IsTable(r[i])
    BY <2>1, <2>2
  <2> QED  BY <1>1, <2>3, TablesByPlaces DEF r
<1>3. IsTables(TypedTables(list))
  <2> DEFINE r == TypedTables(list)
             x(i) == Typed("stock", list[i][1], list[i][2], list[i][3])
  <2>1. \A i \in 1..Len(list) : IsTable(x(i))
    BY MadeTables
  <2>2. r = [i \in 1..Len(list) |-> x(i)]
    BY <1>1 DEF TypedTables
  <2> HIDE DEF r, x
  <2>3. r = [i \in 1..Len(list) |-> r[i]] /\ \A i \in 1..Len(list) : IsTable(r[i])
    BY <2>1, <2>2
  <2> QED  BY <1>1, <2>3, TablesByPlaces DEF r
<1> QED  BY <1>2, <1>3

LEMMA AddedAreTables == ASSUME NEW v PROVE IsTables(AddedReferences(v))
<1> DEFINE a == References(WidebandTables)
           b == References(FuelingSafetyTables)
           c == TypedTables(FuelPumpTables)
           d == TypedTables(RotationalTables)
           e == References(RepairTables)
           f == References(TimingMinimumTables)
<1>1. IsTables(a) /\ IsTables(b) /\ IsTables(c) /\ IsTables(d) /\ IsTables(e) /\ IsTables(f)
  BY Lists, ReferencesAreTables
<1>2. AddedReferences1 = a \o b \o c \o d /\ AddedReferences2 = a \o b \o c \o e \o f
  BY DEF AddedReferences1, AddedReferences2
<1> HIDE DEF a, b, c, d, e, f
<1>3. IsTables(a \o b)
  BY <1>1, TablesConcatenated
<1>4. IsTables(a \o b \o c)
  BY <1>1, <1>3, TablesConcatenated
<1>5. IsTables(a \o b \o c \o d) /\ IsTables(a \o b \o c \o e)
  BY <1>1, <1>4, TablesConcatenated
<1>6. IsTables(a \o b \o c \o e \o f)
  BY <1>1, <1>5, TablesConcatenated
<1> QED  BY <1>2, <1>5, <1>6, Zenon DEF AddedReferences

(* A table of a definition, taken by its name where that is unique.        *)
LEMMA TakenByName ==
  ASSUME NEW Rows, NEW rom \in Seq(Rows), NEW x \in ToSet(rom), NEW name, x.name = name, Count(rom, name) = 1
  PROVE  TableByName(rom, name) = x
<1>1. PICK k \in 1..Len(rom) : Named(rom, name) = {k}
  BY OnePlace
<1>2. PICK i \in 1..Len(rom) : x = rom[i]
  BY DEF ToSet
<1>3. i \in DOMAIN rom
  OBVIOUS
<1>4. i \in Named(rom, name)
  BY <1>2, <1>3 DEF Named
<1>5. i = k
  BY <1>1, <1>4
<1>6. (CHOOSE j \in Named(rom, name) : TRUE) = k
  <2>1. \A j \in Named(rom, name) : j = k
    BY <1>1
  <2>2. k \in Named(rom, name)
    BY <1>1
  <2>3. (CHOOSE j \in Named(rom, name) : TRUE) \in Named(rom, name)
    BY <2>2, Zenon
  <2> QED  BY <2>1, <2>3
<1> QED  BY <1>2, <1>5, <1>6 DEF TableByName

LEMMA Copied ==
  ASSUME NEW Rows, NEW rom \in Seq(Rows), NEW list, IsList(list), ExactlyOne(rom, NamesOf(list)),
         NEW tables, DOMAIN tables = DOMAIN list,
         \A i \in DOMAIN list : /\ tables[i] \in ToSet(rom) /\ IsTable(tables[i])
                                /\ tables[i].name = list[i][1] /\ tables[i].at = list[i][3],
         NEW copy, copy = [i \in DOMAIN list |-> TableByName(rom, list[i][1])]
  PROVE  IsTables(copy) /\ Shown(copy) = Shown(References(list))
<1> DEFINE n == Len(list)
<1>1. n \in Nat /\ DOMAIN list = 1..n
  BY DEF IsList
<1>2. ASSUME NEW i \in 1..n PROVE TableByName(rom, list[i][1]) = tables[i]
  <2> DEFINE name == list[i][1]
  <2>1. Count(rom, name) = 1
    BY <1>1 DEF ExactlyOne, NamesOf
  <2>2. tables[i] \in ToSet(rom) /\ tables[i].name = name
    BY <1>1
  <2> HIDE DEF name
  <2>3. TableByName(rom, name) = tables[i]
    BY <2>1, <2>2, TakenByName
  <2> QED  BY <2>3 DEF name
<1>3. copy = [i \in 1..n |-> copy[i]] /\ \A i \in 1..n : copy[i] = tables[i]
  BY <1>1, <1>2
<1>4. \A i \in 1..n : IsTable(copy[i]) /\ copy[i].name = list[i][1] /\ copy[i].at = list[i][3]
  BY <1>1, <1>3
<1>5. IsTables(copy) /\ Len(copy) = n
  BY <1>1, <1>3, <1>4, TablesByPlaces
<1>6. DOMAIN copy = 1..n
  BY <1>5, TablesMembers
<1> DEFINE r == References(list)
<1>7. DOMAIN r = 1..n /\ \A i \in 1..n : r[i].name = list[i][1] /\ r[i].at = list[i][3]
  BY <1>1 DEF References, Reference
<1> HIDE DEF r, n
<1>8. Shown(copy) = Shown(r)
  BY <1>4, <1>6, <1>7 DEF Shown, ToSet
<1> QED  BY <1>5, <1>8 DEF r

(* The speed-density definition has its own tables.                        *)
SdOk(doc) == IsDoc(doc) /\ \A i \in DOMAIN SdTables : SdReferences[i] \in ToSet(Target(doc))
(* The boost definition has its own.                                       *)
HasOverboost(doc) == IsDoc(doc) /\ \A i \in DOMAIN OverboostTables : Overboost[i] \in ToSet(Target(doc))

LEMMA MovedTable ==
  ASSUME NEW t, IsTable(t), NEW section
  PROVE  /\ IsTable([t EXCEPT !.rom = section]) /\ [t EXCEPT !.rom = section].rom = section
         /\ [t EXCEPT !.rom = section].name = t.name /\ [t EXCEPT !.rom = section].at = t.at
<1>0. t = [rom |-> t.rom, name |-> t.name, category |-> t.category, typed |-> t.typed, at |-> t.at]
  BY DEF IsTable
<1>1. [t EXCEPT !.rom = section]
        = [rom |-> section, name |-> t.name, category |-> t.category, typed |-> t.typed, at |-> t.at]
  BY <1>0
<1> QED  BY <1>1 DEF IsTable

LEMMA OwnTables ==
  /\ DOMAIN SdReferences = DOMAIN SdTables
  /\ \A i \in DOMAIN SdTables : /\ IsTable(SdReferences[i]) /\ SdReferences[i].rom = "after"
                                /\ SdReferences[i].name = SdTables[i][1] /\ SdReferences[i].at = SdTables[i][3]
  /\ DOMAIN Overboost = DOMAIN OverboostTables
  /\ \A i \in DOMAIN OverboostTables :
       /\ IsTable(Overboost[i])
       /\ Overboost[i].name = OverboostTables[i][1] /\ Overboost[i].at = OverboostTables[i][3]
<1>1. DOMAIN SdTables = 1..Len(SdTables)
  BY Lists DEF IsList
<1>2. DOMAIN OverboostTables = 1..2
  BY DEF OverboostTables
<1>3. DOMAIN SdReferences = DOMAIN SdTables
  BY <1>1 DEF SdReferences
<1>4. ASSUME NEW i \in DOMAIN SdTables
      PROVE  /\ IsTable(SdReferences[i]) /\ SdReferences[i].rom = "after"
             /\ SdReferences[i].name = SdTables[i][1] /\ SdReferences[i].at = SdTables[i][3]
  <2> DEFINE n == SdTables[i][1]
             a == SdTables[i][3]
  <2> DEFINE t == Reference(n, a)
             section == "after"
             u == [t EXCEPT !.rom = section]
  <2>1. SdReferences[i] = u
    BY <1>1 DEF SdReferences
  <2>2. IsTable(t) /\ t.name = n /\ t.at = a
    BY MadeTables
  <2> HIDE DEF n, a, t, section
  <2>3. IsTable(u) /\ u.rom = section /\ u.name = t.name /\ u.at = t.at
    BY <2>2, MovedTable
  <2> HIDE DEF u
  <2>4. section = "after"
    BY DEF section
  <2> QED  BY <2>1, <2>2, <2>3, <2>4 DEF n, a
<1>5. DOMAIN Overboost = 1..2
  BY DEF Overboost
<1>6. ASSUME NEW i \in 1..2
      PROVE  /\ IsTable(Overboost[i])
             /\ Overboost[i].name = OverboostTables[i][1] /\ Overboost[i].at = OverboostTables[i][3]
  <2>1. Overboost[i] = Typed("after", OverboostTables[i][1], OverboostTables[i][2], OverboostTables[i][3])
    BY DEF Overboost
  <2> QED  BY <2>1, MadeTables
<1> QED  BY <1>2, <1>3, <1>4, <1>5, <1>6

LEMMA ShownJoined ==
  ASSUME NEW s, IsTables(s), NEW t, IsTables(t) PROVE Shown(s \o t) = Shown(s) \cup Shown(t)
<1>1. PICK A : s \in Seq(A)
  BY DEF IsTables
<1>2. PICK B : t \in Seq(B)
  BY DEF IsTables
<1> DEFINE C == A \cup B
<1>3. s \in Seq(C) /\ t \in Seq(C)
  BY <1>1, <1>2, SeqWidens
<1> HIDE DEF C
<1>4. ToSet(s \o t) = ToSet(s) \cup ToSet(t)
  BY <1>3, TablesConcat
<1> DEFINE u == s \o t
<1>5. ToSet(u) = ToSet(s) \cup ToSet(t)
  BY <1>4
<1> HIDE DEF u
<1>6. Shown(u) = Shown(s) \cup Shown(t)
  BY <1>5 DEF Shown
<1> QED  BY <1>6 DEF u

(* Four lists joined from the left are the ones joined from the right.     *)
Associate(k, b, c, d) == k \o b \o c \o d = k \o (b \o (c \o d))

LEMMA FourJoined ==
  ASSUME NEW k, IsTables(k), NEW b, IsTables(b), NEW c, IsTables(c), NEW d, IsTables(d)
  PROVE  Associate(k, b, c, d)
<1>k. PICK K : k \in Seq(K)
  BY DEF IsTables
<1>l. PICK B : b \in Seq(B)
  BY DEF IsTables
<1>m. PICK C : c \in Seq(C)
  BY DEF IsTables
<1>n. PICK D : d \in Seq(D)
  BY DEF IsTables
<1> DEFINE Rows == K \cup B \cup C \cup D
<1>a. K \subseteq Rows /\ B \subseteq Rows /\ C \subseteq Rows /\ D \subseteq Rows
  OBVIOUS
<1> HIDE DEF Rows
<1>b. k \in Seq(Rows) /\ b \in Seq(Rows)
  BY <1>a, <1>k, <1>l, SeqWidens
<1>c. c \in Seq(Rows) /\ d \in Seq(Rows)
  BY <1>a, <1>m, <1>n, SeqWidens
<1> DEFINE kb == k \o b
           cd == c \o d
<1>1. kb \in Seq(Rows)
  BY <1>b
<1>2. cd \in Seq(Rows)
  BY <1>c
<1>3. (k \o b) \o cd = k \o (b \o cd)
  <2> HIDE DEF cd
  <2> QED  BY <1>b, <1>2, ConcatAssociative
<1>4. (kb \o c) \o d = kb \o (c \o d)
  <2> HIDE DEF kb
  <2> QED  BY <1>1, <1>c, ConcatAssociative
<1>5. k \o b \o c \o d = k \o (b \o (c \o d))
  BY <1>3, <1>4
<1> QED  BY Zenon, <1>5 DEF Associate

(* The tables a master adds to the source's, and what of them it shows.    *)
LEMMA ExtraTables ==
  ASSUME NEW v \in Versions, NEW source, NEW sdDoc, SdOk(sdDoc), NEW boostDoc, HasOverboost(boostDoc),
         ExactlyOne(Target(sdDoc), NamesOf(SdTables)), ExactlyOne(Target(boostDoc), NamesOf(OverboostTables)),
         NEW raw, raw = Extended(v, source, sdDoc, boostDoc).target,
         NEW kept, kept = PrunedBy(v, Target(source), InheritedDrops(source)), IsTables(kept)
  PROVE  \E extra : /\ IsTables(extra) /\ Appended(raw, kept, extra)
                    /\ Shown(extra) = AddedTables(AddedReferences(v))
<1> DEFINE b == [i \in DOMAIN SdTables |-> TableByName(Target(sdDoc), SdTables[i][1])]
           c == [i \in DOMAIN OverboostTables |-> TableByName(Target(boostDoc), OverboostTables[i][1])]
           d == AddedReferences(v)
<1>1. IsTables(b) /\ Shown(b) = Shown(References(SdTables))
  <2>1. PICK Rows : sdDoc \in Seq(Rows)
    BY DEF SdOk, IsDoc
  <2>2. Target(sdDoc) \in Seq(Rows)
    BY <2>1, WithinType DEF Target
  <2>3. IsList(SdTables)
    BY Lists
  <2>4. /\ DOMAIN SdReferences = DOMAIN SdTables
        /\ \A i \in DOMAIN SdTables : /\ SdReferences[i] \in ToSet(Target(sdDoc)) /\ IsTable(SdReferences[i])
                                      /\ SdReferences[i].name = SdTables[i][1]
                                      /\ SdReferences[i].at = SdTables[i][3]
    BY OwnTables DEF SdOk
  <2> QED  BY <2>2, <2>3, <2>4, Copied
<1>2. IsTables(c) /\ Shown(c) = Shown(References(OverboostTables))
  <2>1. PICK Rows : boostDoc \in Seq(Rows)
    BY DEF HasOverboost, IsDoc
  <2>2. Target(boostDoc) \in Seq(Rows)
    BY <2>1, WithinType DEF Target
  <2>3. IsList(OverboostTables)
    BY Lists
  <2>4. /\ DOMAIN Overboost = DOMAIN OverboostTables
        /\ \A i \in DOMAIN OverboostTables : /\ Overboost[i] \in ToSet(Target(boostDoc)) /\ IsTable(Overboost[i])
                                             /\ Overboost[i].name = OverboostTables[i][1]
                                             /\ Overboost[i].at = OverboostTables[i][3]
    BY OwnTables DEF HasOverboost
  <2> QED  BY <2>2, <2>3, <2>4, Copied
<1>3. IsTables(d)
  BY AddedAreTables
<1>4. raw = kept \o b \o c \o d
  BY Zenon DEF Extended, PrunedBy, AddedReferences
<1>5. IsTables(References(SdTables)) /\ IsTables(References(OverboostTables))
  BY Lists, ReferencesAreTables
<1>6. AddedTables(d) = Shown(d) \cup Shown(References(SdTables)) \cup Shown(References(OverboostTables))
  <2> DEFINE p == References(SdTables)
             q == References(OverboostTables)
  <2>1. AddedTables(d) = Shown(d \o p \o q)
    BY DEF AddedTables, Shown
  <2> HIDE DEF p, q, d
  <2>2. IsTables(p) /\ IsTables(q) /\ IsTables(d)
    BY <1>3, <1>5 DEF p, q
  <2>3. IsTables(d \o p) /\ Shown(d \o p) = Shown(d) \cup Shown(p)
    BY <2>2, TablesConcatenated, ShownJoined
  <2>4. Shown(d \o p \o q) = Shown(d \o p) \cup Shown(q)
    BY <2>2, <2>3, ShownJoined
  <2> QED  BY <2>1, <2>3, <2>4 DEF p, q
<1> HIDE DEF b, c, d
<1> DEFINE e == c \o d
           extra == b \o e
<1>7. IsTables(e) /\ Shown(e) = Shown(c) \cup Shown(d)
  BY <1>2, <1>3, TablesConcatenated, ShownJoined
<1>8. IsTables(extra) /\ Shown(extra) = Shown(b) \cup Shown(e)
  <2> HIDE DEF e
  <2> QED  BY <1>1, <1>7, TablesConcatenated, ShownJoined
<1>9. raw = kept \o extra
  <2> HIDE DEF e, extra
  <2>1. Associate(kept, b, c, d)
    BY Zenon, <1>1, <1>2, <1>3, FourJoined
  <2>2. extra = b \o (c \o d)
    BY Zenon DEF e, extra
  <2>3. raw = kept \o (b \o (c \o d))
    BY Zenon, <1>4, <2>1 DEF Associate
  <2> QED  BY Zenon, <2>2, <2>3
<1>a. Shown(extra) = AddedTables(AddedReferences(v))
  BY <1>1, <1>2, <1>6, <1>7, <1>8 DEF d
<1> HIDE DEF extra
<1> QED  BY <1>8, <1>9, <1>a DEF Appended

LEMMA DocsConcatenated == ASSUME NEW s, IsDoc(s), NEW t, IsDoc(t) PROVE IsDoc(s \o t)
<1>1. PICK A : s \in Seq(A)
  BY DEF IsDoc
<1>2. PICK B : t \in Seq(B)
  BY DEF IsDoc
<1> DEFINE C == A \cup B
<1>3. s \in Seq(C) /\ t \in Seq(C)
  BY <1>1, <1>2, SeqWidens
<1> HIDE DEF C
<1>4. s \o t \in Seq(C)
  BY <1>3
<1> QED  BY <1>4 DEF IsDoc

LEMMA DocOfPlaces ==
  ASSUME NEW n \in Nat, NEW s, s = [k \in 1..n |-> s[k]] PROVE IsDoc(s)
<1> DEFINE Rows == {s[k] : k \in 1..n}
<1>1. \A k \in 1..n : s[k] \in Rows
  OBVIOUS
<1> HIDE DEF Rows
<1>2. [k \in 1..n |-> s[k]] \in Seq(Rows)
  BY <1>1, IsASeq
<1> QED  BY <1>2 DEF IsDoc

LEMMA TemplatesAreDocs == ASSUME NEW list, IsList(list) PROVE IsDoc(Templates(list))
<1> DEFINE r == Templates(list)
<1>1. Len(list) \in Nat /\ r = [k \in 1..Len(list) |-> r[k]]
  BY DEF IsList, Templates
<1> HIDE DEF r
<1>2. IsDoc(r)
  BY <1>1, DocOfPlaces
<1> QED  BY <1>2 DEF r

LEMMA ExtendedParent ==
  ASSUME NEW v, NEW source, NEW sdDoc, NEW boostDoc,
         IsDoc(PrunedBy(v, Parent(source), InheritedDrops(source)))
  PROVE  IsDoc(Extended(v, source, sdDoc, boostDoc).parent)
<1> DEFINE a == PrunedBy(v, Parent(source), InheritedDrops(source))
           b == [i \in DOMAIN SdTables |-> TableByName(Parent(sdDoc), SdTables[i][1])]
           c == IF v = 1 THEN AddedTemplates1 ELSE AddedTemplates2
<1>1. Extended(v, source, sdDoc, boostDoc).parent = a \o b \o c
  BY Zenon DEF Extended, PrunedBy
<1>2. IsDoc(b)
  <2>1. Len(SdTables) \in Nat /\ b = [k \in 1..Len(SdTables) |-> b[k]]
    BY Lists DEF IsList
  <2> HIDE DEF b
  <2> QED  BY <2>1, DocOfPlaces
<1>3. IsDoc(c)
  <2> DEFINE w == Templates(WidebandTables)
             f == Templates(FuelingSafetyTables)
             r == Templates(RepairTables)
             t == Templates(TimingMinimumTables)
  <2>1. IsDoc(w) /\ IsDoc(f) /\ IsDoc(r) /\ IsDoc(t)
    BY Lists, TemplatesAreDocs
  <2>2. c = IF v = 1 THEN w \o f ELSE w \o f \o r \o t
    BY DEF AddedTemplates1, AddedTemplates2
  <2> HIDE DEF w, f, r, t, c
  <2>3. IsDoc(w \o f)
    BY <2>1, DocsConcatenated
  <2>4. IsDoc(w \o f \o r)
    BY <2>1, <2>3, DocsConcatenated
  <2>5. IsDoc(w \o f \o r \o t)
    BY <2>1, <2>4, DocsConcatenated
  <2> QED  BY <2>2, <2>3, <2>5, Zenon
<1>a. IsDoc(a)
  OBVIOUS
<1> HIDE DEF a, b, c
<1>4. IsDoc(a \o b)
  BY <1>a, <1>2, DocsConcatenated
<1>5. IsDoc(a \o b \o c)
  BY <1>3, <1>4, DocsConcatenated
<1> QED  BY <1>1, <1>5, Zenon

(* Unique names, in the master and in what it was put in order from.       *)
LEMMA ShownRearranged ==
  ASSUME NEW doc, NEW target, ToSet(target) = ToSet(doc)
  PROVE  Shown(target) = Shown(doc) /\ ParentCategories(target) = ParentCategories(doc)
BY DEF Shown, ParentCategories

(* What a master definition shows, said of its parts.                      *)
ShowsAll(v, target, from, categories, added) ==
  /\ Len(target) = Len(from) + Cardinality(added)
  /\ Shown(target) = {<<Published(v, t.name), t.at>> : t \in ToSet(from)} \cup added
InOrder(v, target, from, categories) ==
  LET old == {Published(v, t.name) : t \in ToSet(from)}
      grouped == {<<Resolved(t, categories), t.name>> : t \in {s \in ToSet(target) : s.name \in old}}
  IN \A c \in CategoryNames(v) :
       LET sourceOrder == Only(from, {t \in ToSet(from) : <<c, Published(v, t.name)>> \in grouped})
           shown == Only(target, {t \in ToSet(target) : <<c, t.name>> \in grouped})
       IN [i \in DOMAIN shown |-> shown[i].name]
            = [i \in DOMAIN sourceOrder |-> Published(v, sourceOrder[i].name)]

(* The finished target: the surviving tables, then the added ones, with    *)
(* unique names, put in order.                                             *)
Finished(v, Rows, from, kept, extra, doc, target) ==
  /\ from \in Seq(Rows) /\ kept \in Seq(Rows) /\ extra \in Seq(Rows) /\ Len(kept) = Len(from)
  /\ \A i \in 1..Len(from) : kept[i].name = Published(v, from[i].name) /\ kept[i].at = from[i].at
  /\ Appended(doc, kept, extra) /\ Rearranged(target, doc, Rows) /\ NamesOnce(target)

LEMMA FinishedShows ==
  ASSUME NEW v, NEW Rows, NEW from, NEW kept, NEW extra, NEW doc, NEW target, NEW categories,
         Finished(v, Rows, from, kept, extra, doc, target)
  PROVE  ShowsAll(v, target, from, categories, Shown(extra))
<1>0. /\ from \in Seq(Rows) /\ kept \in Seq(Rows) /\ extra \in Seq(Rows) /\ Len(kept) = Len(from)
      /\ \A i \in 1..Len(from) : kept[i].name = Published(v, from[i].name) /\ kept[i].at = from[i].at
      /\ Appended(doc, kept, extra) /\ Rearranged(target, doc, Rows) /\ NamesOnce(target)
  BY DEF Finished
<1>1. /\ doc \in Seq(Rows) /\ Len(doc) = Len(kept) + Len(extra)
      /\ Len(kept) \in Nat /\ Len(extra) \in Nat
      /\ \A j \in 1..Len(extra) : doc[Len(kept) + j] = extra[j]
      /\ ToSet(doc) = ToSet(kept) \cup ToSet(extra)
  <2>1. from \in Seq(Rows) /\ kept \in Seq(Rows) /\ extra \in Seq(Rows) /\ Appended(doc, kept, extra)
    BY <1>0
  <2> QED  BY <2>1, AppendedFacts
<1>2. \A i, j \in 1..Len(doc) : doc[i].name = doc[j].name => i = j
  BY <1>0, <1>1, RearrangedNames
<1>3. Cardinality(Shown(extra)) = Len(extra)
  <2>1. ASSUME NEW i \in 1..Len(extra), NEW j \in 1..Len(extra), extra[i].name = extra[j].name PROVE i = j
    <3> DEFINE n == Len(kept)
    <3>1. n + i \in 1..Len(doc) /\ n + j \in 1..Len(doc)
      BY <1>1
    <3>2. doc[n + i].name = doc[n + j].name
      BY <1>1, <2>1
    <3>3. n + i = n + j
      BY <1>2, <3>1, <3>2
    <3> QED  BY <1>1, <3>3
  <2> QED  BY <1>0, <2>1, ShownCounts
<1>4. Len(target) = Len(from) + Len(extra) /\ ToSet(target) = ToSet(doc)
  BY <1>0, <1>1 DEF Rearranged
<1>5. Shown(target) = Shown(kept) \cup Shown(extra)
  BY <1>1, <1>4 DEF Shown
<1>6. Shown(kept) = {<<Published(v, t.name), t.at>> : t \in ToSet(from)}
  <2>1. DOMAIN kept = 1..Len(from) /\ DOMAIN from = 1..Len(from)
    BY <1>0
  <2>2. \A i \in 1..Len(from) : <<kept[i].name, kept[i].at>> = <<Published(v, from[i].name), from[i].at>>
    BY <1>0
  <2>3. Shown(kept) = {<<kept[i].name, kept[i].at>> : i \in 1..Len(from)}
    BY <2>1 DEF Shown, ToSet
  <2>4. {<<Published(v, t.name), t.at>> : t \in ToSet(from)}
          = {<<Published(v, from[i].name), from[i].at>> : i \in 1..Len(from)}
    BY <2>1 DEF ToSet
  <2> QED  BY <2>2, <2>3, <2>4
<1> QED  BY <1>3, <1>4, <1>5, <1>6 DEF ShowsAll

LEMMA FinishedInOrder ==
  ASSUME NEW v, NEW Rows, NEW from, NEW kept, NEW extra, NEW doc, NEW target, NEW categories,
         Finished(v, Rows, from, kept, extra, doc, target),
         \A c \in CategoryNames(v) : Only(target, Group(doc, categories, c)) = Only(doc, Group(doc, categories, c))
  PROVE  InOrder(v, target, from, categories)
<1> DEFINE old == {Published(v, t.name) : t \in ToSet(from)}
           grouped == {<<Resolved(t, categories), t.name>> : t \in {s \in ToSet(target) : s.name \in old}}
<1>0. /\ from \in Seq(Rows) /\ kept \in Seq(Rows) /\ extra \in Seq(Rows) /\ Len(kept) = Len(from)
      /\ \A i \in 1..Len(from) : kept[i].name = Published(v, from[i].name)
      /\ Appended(doc, kept, extra) /\ Rearranged(target, doc, Rows) /\ NamesOnce(target)
  BY DEF Finished
<1>1. /\ doc \in Seq(Rows) /\ ToSet(doc) = ToSet(kept) \cup ToSet(extra) /\ ToSet(target) = ToSet(doc)
      /\ target \in Seq(Rows)
  BY <1>0, AppendedFacts DEF Rearranged
<1>2. \A s, t \in ToSet(target) : s.name = t.name => s = t
  <2>1. \A i, j \in 1..Len(doc) : doc[i].name = doc[j].name => i = j
    BY <1>0, <1>1, RearrangedNames
  <2>2. DOMAIN doc = 1..Len(doc)
    BY <1>1
  <2> QED  BY <1>1, <2>1, <2>2 DEF ToSet
<1>3. old = {kept[i].name : i \in 1..Len(kept)}
  <2>1. DOMAIN from = 1..Len(kept)
    BY <1>0
  <2>2. old = {Published(v, from[i].name) : i \in 1..Len(kept)}
    BY <2>1 DEF ToSet
  <2> HIDE DEF old
  <2> QED  BY <1>0, <2>2
<1> HIDE DEF old
<1>4. ASSUME NEW c, NEW t \in ToSet(target)
      PROVE  <<c, t.name>> \in grouped <=> t.name \in old /\ Resolved(t, categories) = c
  BY <1>2
<1> HIDE DEF grouped
<1>5. ASSUME NEW c \in CategoryNames(v),
             NEW chosen, chosen = {t \in ToSet(from) : <<c, Published(v, t.name)>> \in grouped},
             NEW wanted, wanted = {t \in ToSet(target) : <<c, t.name>> \in grouped}
      PROVE  [i \in DOMAIN Only(target, wanted) |-> Only(target, wanted)[i].name]
               = [i \in DOMAIN Only(from, chosen) |-> Published(v, Only(from, chosen)[i].name)]
  <2>1. \A t \in ToSet(doc) : t \in wanted <=> t.name \in old /\ Resolved(t, categories) = c
    BY <1>1, <1>4, <1>5
  <2>2. \A i \in 1..Len(from) : from[i] \in chosen <=> kept[i] \in wanted
    <3> TAKE i \in 1..Len(from)
    <3>1. from[i] \in ToSet(from) /\ kept[i] \in ToSet(kept)
      BY <1>0 DEF ToSet
    <3>2. kept[i] \in ToSet(target) /\ kept[i].name = Published(v, from[i].name)
      BY <1>0, <1>1, <3>1
    <3> QED  BY <1>5, <3>1, <3>2
  <2>3. Picked(from, kept, doc, categories, c, wanted, chosen)
    <3>1. \A t \in ToSet(doc) : t.name \in old <=> \E i \in 1..Len(kept) : t.name = kept[i].name
      BY <1>3
    <3> QED  BY <2>1, <2>2, <3>1 DEF Picked
  <2>4. Beside(from, kept, chosen, Only(from, chosen), Only(target, wanted), Len(from))
    <3>1. /\ from \in Seq(Rows) /\ kept \in Seq(Rows) /\ extra \in Seq(Rows) /\ Len(kept) = Len(from)
          /\ Appended(doc, kept, extra) /\ Rearranged(target, doc, Rows) /\ NamesOnce(target)
      BY <1>0
    <3>2. Only(target, Group(doc, categories, c)) = Only(doc, Group(doc, categories, c))
      OBVIOUS
    <3> QED  BY <2>3, <3>1, <3>2, CategoryShown
  <2> DEFINE u == Only(from, chosen)
             w == Only(target, wanted)
  <2>5. u \in Seq(Rows) /\ w \in Seq(Rows)
    BY <1>0, <1>1, OnlyType
  <2>6. Beside(from, kept, chosen, u, w, Len(from))
    BY <2>4
  <2> HIDE DEF u, w
  <2>7. DOMAIN u = DOMAIN w
    <3>1. Len(u) = Len(w)
      BY <2>6 DEF Beside
    <3> QED  BY <2>5, <3>1
  <2>8. \A j \in DOMAIN u : w[j].name = Published(v, u[j].name)
    <3> TAKE j \in DOMAIN u
    <3>1. j \in 1..Len(u)
      BY <2>5
    <3>2. PICK i \in 1..Len(from) : u[j] = from[i] /\ w[j] = kept[i]
      BY <2>6, <3>1 DEF Beside
    <3> QED  BY <1>0, <3>2
  <2>9. [i \in DOMAIN w |-> w[i].name] = [i \in DOMAIN u |-> Published(v, u[i].name)]
    BY <2>7, <2>8
  <2> QED  BY <2>9 DEF u, w
<1> QED  BY <1>5 DEF InOrder, grouped, old

LEMMA FlagField ==
  ASSUME NEW s, NEW n, NEW c, NEW a, NEW flag, NEW t,
         t = [rom |-> s, name |-> n, category |-> c, typed |-> flag, at |-> a]
  PROVE  t.typed = flag
OBVIOUS

LEMMA TypedIsTyped == ASSUME NEW s, NEW n, NEW c, NEW a, NEW t, t = Typed(s, n, c, a) PROVE t.typed
<1> DEFINE yes == TRUE
<1>1. t = [rom |-> s, name |-> n, category |-> c, typed |-> yes, at |-> a]
  BY Zenon DEF Typed
<1> HIDE DEF yes
<1>2. t.typed = yes
  BY <1>1, FlagField
<1>3. yes
  BY DEF yes
<1> QED  BY <1>2, <1>3, Zenon

(* The AVLS block: four tables, two of which every definition needs.       *)
LEMMA AvlsTables ==
  /\ IsTables(AvlsBlock) /\ Len(AvlsBlock) = 4
  /\ \A i \in 1..4 : AvlsBlock[i].name # "SD Multiplier" /\ AvlsBlock[i].rom = "avls"
  /\ AvlsBlock[2].name = "AVLS Engage" /\ AvlsBlock[3].name = "AVLS Release"
<1> DEFINE a1 == \h7D480
           a2 == \h7D4BC
           a3 == \h7D4B8
           a4 == \h7D4AC
           t1 == Typed("avls", "AVLS Pedal Threshold", "AVLS", a1)
           t2 == Typed("avls", "AVLS Engage", "AVLS", a2)
           t3 == Typed("avls", "AVLS Release", "AVLS", a3)
           t4 == Typed("avls", "AVLS Minimum RPM", "AVLS", a4)
<1>0. AvlsBlock = << t1, t2, t3, t4 >>
  BY SMT DEF AvlsBlock
<1> HIDE DEF a1, a2, a3, a4
<1>1. /\ t1.name = "AVLS Pedal Threshold" /\ t2.name = "AVLS Engage"
      /\ t3.name = "AVLS Release" /\ t4.name = "AVLS Minimum RPM"
      /\ t1.rom = "avls" /\ t2.rom = "avls" /\ t3.rom = "avls" /\ t4.rom = "avls"
  BY SMT DEF Typed
<1>3. IsTable(t1) /\ IsTable(t2) /\ IsTable(t3) /\ IsTable(t4)
  BY MadeTables
<1> HIDE DEF t1, t2, t3, t4
<1>5. /\ AvlsBlock = [i \in 1..4 |-> AvlsBlock[i]]
      /\ AvlsBlock[1] = t1 /\ AvlsBlock[2] = t2 /\ AvlsBlock[3] = t3 /\ AvlsBlock[4] = t4
  BY SMT, <1>0
<1>6. \A i \in 1..4 : i = 1 \/ i = 2 \/ i = 3 \/ i = 4
  OBVIOUS
<1>7. \A i \in 1..4 : AvlsBlock[i].name # "SD Multiplier" /\ AvlsBlock[i].rom = "avls"
  BY <1>1, <1>5, <1>6
<1>9. \A i \in 1..4 : IsTable(AvlsBlock[i])
  BY <1>3, <1>5, <1>6
<1>a. IsTables(AvlsBlock) /\ Len(AvlsBlock) = 4
  BY <1>5, <1>9, TablesByPlaces
<1>b. AvlsBlock[2].name = "AVLS Engage" /\ AvlsBlock[3].name = "AVLS Release"
  BY <1>1, <1>5
<1> QED  BY <1>7, <1>a, <1>b, Zenon

LEMMA AvlsTyped == AvlsBlock[2].typed /\ AvlsBlock[3].typed
<1> DEFINE a2 == \h7D4BC
           a3 == \h7D4B8
           t2 == Typed("avls", "AVLS Engage", "AVLS", a2)
           t3 == Typed("avls", "AVLS Release", "AVLS", a3)
<1>1. AvlsBlock[2] = t2 /\ AvlsBlock[3] = t3
  <2> DEFINE t1 == Typed("avls", "AVLS Pedal Threshold", "AVLS", \h7D480)
             t4 == Typed("avls", "AVLS Minimum RPM", "AVLS", \h7D4AC)
  <2>1. AvlsBlock = << t1, t2, t3, t4 >>
    BY SMT DEF AvlsBlock
  <2> HIDE DEF t1, t2, t3, t4
  <2> QED  BY SMT, <2>1
<1> HIDE DEF a2, a3
<1>2. t2.typed /\ t3.typed
  BY TypedIsTyped, Zenon
<1> HIDE DEF t2, t3
<1> QED  BY <1>1, <1>2, Zenon

(* The source at the start.                                                *)
LEMMA SourceTables ==
  /\ IsTables(Source)
  /\ \A t \in ToSet(Source) : t.name # "SD Multiplier"
  /\ AvlsBlock[2] \in ToSet(Source) /\ AvlsBlock[3] \in ToSet(Source)
<1> DEFINE p == [i \in 1..Len(Stock) |-> Template(Stock[i][1], Stock[i][2])]
           r == [i \in 1..Len(Stock) |-> Reference(Stock[i][1], Stock[i][3])]
<1>1. Source = p \o r \o AvlsBlock
  BY DEF Source, Body
<1>2. Len(Stock) = 23
  BY StockTables
<1>3. IsTables(p) /\ \A i \in 1..23 : p[i].name = Stock[i][1]
  <2>1. \A i \in 1..23 : p[i] = Template(Stock[i][1], Stock[i][2])
    BY <1>2
  <2>2. p = [i \in 1..23 |-> p[i]]
    BY <1>2
  <2> HIDE DEF p
  <2>3. \A i \in 1..23 : IsTable(p[i])
    BY <2>1, MadeTables
  <2>4. IsTables(p)
    BY <2>2, <2>3, TablesByPlaces
  <2>5. \A i \in 1..23 : p[i].name = Stock[i][1]
    BY <2>1 DEF Template
  <2> QED  BY <2>4, <2>5
<1>4. IsTables(r) /\ \A i \in 1..23 : r[i].name = Stock[i][1]
  <2>1. \A i \in 1..23 : r[i] = Reference(Stock[i][1], Stock[i][3])
    BY <1>2
  <2>2. r = [i \in 1..23 |-> r[i]]
    BY <1>2
  <2> HIDE DEF r
  <2>3. \A i \in 1..23 : IsTable(r[i]) /\ r[i].name = Stock[i][1]
    BY <2>1, MadeTables
  <2>4. IsTables(r)
    BY <2>2, <2>3, TablesByPlaces
  <2> QED  BY <2>3, <2>4
<1>d. DOMAIN p = 1..23 /\ DOMAIN r = 1..23
  BY <1>2
<1> HIDE DEF p, r
<1>5. IsTables(p \o r)
  BY <1>3, <1>4, TablesConcatenated
<1>6. IsTables(Source)
  BY <1>1, <1>5, AvlsTables, TablesConcatenated
<1>7. ToSet(Source) = ToSet(p) \cup ToSet(r) \cup ToSet(AvlsBlock)
  <2> DEFINE q == p \o r
  <2>1. ASSUME NEW s, IsTables(s), NEW t, IsTables(t) PROVE ToSet(s \o t) = ToSet(s) \cup ToSet(t)
    <3>1. PICK A : s \in Seq(A)
      BY <2>1 DEF IsTables
    <3>2. PICK B : t \in Seq(B)
      BY <2>1 DEF IsTables
    <3> DEFINE C == A \cup B
    <3>3. s \in Seq(C) /\ t \in Seq(C)
      BY <3>1, <3>2, SeqWidens
    <3> HIDE DEF C
    <3> QED  BY <3>3, TablesConcat
  <2>2. ToSet(q) = ToSet(p) \cup ToSet(r)
    BY <1>3, <1>4, <2>1
  <2>3. IsTables(q) /\ IsTables(AvlsBlock)
    BY <1>5, AvlsTables
  <2> HIDE DEF q
  <2>4. ToSet(q \o AvlsBlock) = ToSet(q) \cup ToSet(AvlsBlock)
    BY <2>1, <2>3
  <2>5. Source = q \o AvlsBlock
    BY <1>1 DEF q
  <2> QED  BY <2>2, <2>4, <2>5, Zenon
<1>8. DOMAIN AvlsBlock = 1..4
  BY AvlsTables, TablesMembers
<1>9. \A t \in ToSet(Source) : t.name # "SD Multiplier"
  <2>0. \A i \in 1..23 : Stock[i][1] # "SD Multiplier"
    BY StockTables
  <2>1. \A t \in ToSet(p) : t.name # "SD Multiplier"
    BY <1>3, <1>d, <2>0 DEF ToSet
  <2>2. \A t \in ToSet(r) : t.name # "SD Multiplier"
    BY <1>4, <1>d, <2>0 DEF ToSet
  <2>3. \A t \in ToSet(AvlsBlock) : t.name # "SD Multiplier"
    BY <1>8, AvlsTables DEF ToSet
  <2> QED  BY <1>7, <2>1, <2>2, <2>3
<1>a. AvlsBlock[2] \in ToSet(AvlsBlock) /\ AvlsBlock[3] \in ToSet(AvlsBlock)
  BY <1>8 DEF ToSet
<1> QED  BY <1>6, <1>7, <1>9, <1>a

LEMMA TablesAreDocs == ASSUME NEW s, IsTables(s) PROVE IsDoc(s)
BY DEF IsTables, IsDoc

LEMMA WithinTables ==
  ASSUME NEW doc, IsDoc(doc), NEW sections
  PROVE  ToSet(Within(doc, sections)) = {t \in ToSet(doc) : t.rom \in sections}
<1>1. PICK Rows : doc \in Seq(Rows)
  BY DEF IsDoc
<1> DEFINE A == {t \in ToSet(doc) : t.rom \in sections}
<1>2. A \subseteq ToSet(doc) /\ Within(doc, sections) = Only(doc, A)
  BY DEF Within
<1> HIDE DEF A
<1>3. ToSet(Only(doc, A)) = ToSet(doc) \cap A
  BY <1>1, OnlyTables
<1>4. ToSet(Within(doc, sections)) = A
  BY <1>2, <1>3
<1> QED  BY <1>4 DEF A

LEMMA DocsJoined ==
  ASSUME NEW s, IsDoc(s), NEW t, IsDoc(t) PROVE ToSet(s \o t) = ToSet(s) \cup ToSet(t)
<1>1. PICK A : s \in Seq(A)
  BY DEF IsDoc
<1>2. PICK B : t \in Seq(B)
  BY DEF IsDoc
<1> DEFINE C == A \cup B
<1>3. s \in Seq(C) /\ t \in Seq(C)
  BY <1>1, <1>2, SeqWidens
<1> HIDE DEF C
<1> QED  BY <1>3, TablesConcat

LEMMA WithinIsDoc == ASSUME NEW doc, IsDoc(doc), NEW sections PROVE IsDoc(Within(doc, sections))
<1>1. PICK Rows : doc \in Seq(Rows)
  BY DEF IsDoc
<1>2. Within(doc, sections) \in Seq(Rows)
  BY <1>1, WithinType
<1> QED  BY <1>2 DEF IsDoc

LEMMA OnlyIsDoc == ASSUME NEW doc, IsDoc(doc), NEW A PROVE IsDoc(Only(doc, A)) /\ ToSet(Only(doc, A)) = ToSet(doc) \cap A
<1>1. PICK Rows : doc \in Seq(Rows)
  BY DEF IsDoc
<1>2. Only(doc, A) \in Seq(Rows) /\ ToSet(Only(doc, A)) = ToSet(doc) \cap A
  BY <1>1, OnlyType, OnlyTables
<1> QED  BY <1>2 DEF IsDoc

(* The parts of a definition are tables too.                               *)
LEMMA WithinAreTables == ASSUME NEW doc, IsTables(doc), NEW sections PROVE IsTables(Within(doc, sections))
<1>1. PICK Rows : doc \in Seq(Rows) /\ \A x \in Rows : IsTable(x)
  BY DEF IsTables
<1>2. Within(doc, sections) \in Seq(Rows)
  BY <1>1, WithinType
<1> QED  BY <1>1, <1>2 DEF IsTables

(* The boost definition in either shape has its own tables.                *)
LEMMA BoostHasItsTables == ASSUME NEW doc, IsDoc(doc), Within(doc, {"after"}) = Overboost PROVE HasOverboost(doc)
<1>1. ToSet(Overboost) = {t \in ToSet(doc) : t.rom \in {"after"}}
  BY WithinTables
<1>2. ToSet(Target(doc)) = {t \in ToSet(doc) : t.rom \in {"stock", "avls", "after"}}
  BY WithinTables DEF Target
<1>3. \A i \in DOMAIN OverboostTables : Overboost[i] \in ToSet(Overboost)
  <2>1. DOMAIN Overboost = DOMAIN OverboostTables
    BY OwnTables
  <2>2. \A s : ToSet(s) = {s[i] : i \in DOMAIN s}
    BY DEF ToSet
  <2> QED  BY <2>1, <2>2
<1> QED  BY <1>1, <1>2, <1>3 DEF HasOverboost

(* The source at the start is accepted for speed density.                  *)
LEMMA SourceRendered == RenderSd(Source).status = "ok"
<1> DEFINE rest == {t \in ToSet(Source) : t.name \notin RemovedBySd}
           kept == Only(Source, rest)
           typed1D == {kept[i].name : i \in {j \in DOMAIN kept : kept[j].rom # "parent" /\ kept[j].typed}}
<1>1. IsDoc(Source)
  BY SourceTables, TablesAreDocs
<1>2. Named(Source, "SD Multiplier") = {}
  BY SourceTables DEF Named, ToSet
<1>3. AvlsBlock[2] \in rest /\ AvlsBlock[3] \in rest
  <2>1. "AVLS Engage" \notin RemovedBySd /\ "AVLS Release" \notin RemovedBySd
    BY DEF RemovedBySd, HiddenAvls
  <2> QED  BY <2>1, SourceTables, AvlsTables
<1>4. AvlsBlock[2] \in ToSet(kept) /\ AvlsBlock[3] \in ToSet(kept)
  <2> HIDE DEF rest
  <2> QED  BY <1>1, <1>3, SourceTables, OnlyIsDoc
<1> HIDE DEF kept, rest
<1>5. ASSUME NEW t \in ToSet(kept), t.rom = "avls", t.typed PROVE t.name \in typed1D
  <2>1. PICK j \in DOMAIN kept : t = kept[j]
    BY DEF ToSet
  <2>2. kept[j].rom # "parent"
    BY <1>5, <2>1
  <2>3. kept[j].typed
    BY <1>5, <2>1, Zenon
  <2>4. j \in {i \in DOMAIN kept : kept[i].rom # "parent" /\ kept[i].typed}
    BY <2>2, <2>3, Zenon
  <2> QED  BY <2>1, <2>4, Zenon
<1> HIDE DEF typed1D
<1>6. AvlsNames \subseteq typed1D
  <2>0. \A i \in 1..4 : AvlsBlock[i].rom = "avls"
    BY AvlsTables
  <2>1. AvlsBlock[2].rom = "avls" /\ AvlsBlock[3].rom = "avls"
    <3>1. 2 \in 1..4 /\ 3 \in 1..4
      OBVIOUS
    <3> QED  BY <2>0, <3>1, Zenon
  <2>2. AvlsBlock[2].name \in typed1D
    BY <1>4, <1>5, <2>1, AvlsTyped, Zenon
  <2>3. AvlsBlock[3].name \in typed1D
    BY <1>4, <1>5, <2>1, AvlsTyped, Zenon
  <2> QED  BY <2>2, <2>3, AvlsTables DEF AvlsNames
<1> QED
  <2>1. ~(Named(Source, "SD Multiplier") # {} \/ ~ (AvlsNames \subseteq typed1D))
    BY <1>2, <1>6
  <2> QED  BY <2>1, Zenon DEF RenderSd, typed1D, kept, rest

(* What it makes of any source has its own tables.                         *)
LEMMA RenderedHasItsTables ==
  ASSUME NEW source, IsTables(source), RenderSd(source).status = "ok" PROVE SdOk(RenderSd(source).doc)
<1> DEFINE rest == {t \in ToSet(source) : t.name \notin RemovedBySd}
           kept == Only(source, rest)
           typed1D == {kept[i].name : i \in {j \in DOMAIN kept : kept[j].rom # "parent" /\ kept[j].typed}}
           bad == Named(source, "SD Multiplier") # {} \/ ~ (AvlsNames \subseteq typed1D)
           doc == Parent(kept) \o SdTemplates \o Target(kept) \o SdReferences
           ok == [status |-> "ok", doc |-> doc]
<1>1. RenderSd(source) = IF bad THEN Refused ELSE ok
  BY Zenon DEF RenderSd
<1>2. ok.doc = doc /\ Refused.status # "ok"
  BY DEF Refused
<1> HIDE DEF bad, ok
<1>3. RenderSd(source).doc = doc
  BY <1>1, <1>2
<1>4. IsDoc(kept)
  <2>1. IsDoc(source)
    BY TablesAreDocs
  <2> HIDE DEF rest
  <2> QED  BY <2>1, OnlyIsDoc
<1> HIDE DEF kept
<1> DEFINE p == Parent(kept)
           q == Target(kept)
<1>5. IsDoc(p) /\ IsDoc(q)
  BY <1>4, WithinIsDoc DEF Parent, Target
<1>6. IsDoc(SdTemplates)
  <2>1. Len(SdTables) \in Nat /\ SdTemplates = [k \in 1..Len(SdTables) |-> SdTemplates[k]]
    BY Lists DEF IsList, SdTemplates
  <2> QED  BY <2>1, DocOfPlaces
<1>7. IsDoc(SdReferences)
  <2>1. Len(SdTables) \in Nat /\ SdReferences = [k \in 1..Len(SdTables) |-> SdReferences[k]]
    BY Lists DEF IsList, SdReferences
  <2> QED  BY <2>1, DocOfPlaces
<1> HIDE DEF p, q
<1> DEFINE r == p \o SdTemplates
           s == r \o q
<1>8. IsDoc(r)
  BY <1>5, <1>6, DocsConcatenated
<1>9. IsDoc(s)
  <2> HIDE DEF r
  <2> QED  BY <1>5, <1>8, DocsConcatenated
<1>a. doc = s \o SdReferences
  BY DEF p, q
<1> HIDE DEF r, s, doc
<1>b. IsDoc(doc) /\ ToSet(SdReferences) \subseteq ToSet(doc)
  <2>1. ToSet(s \o SdReferences) = ToSet(s) \cup ToSet(SdReferences)
    BY <1>7, <1>9, DocsJoined
  <2>2. IsDoc(s \o SdReferences)
    BY <1>7, <1>9, DocsConcatenated
  <2>3. ToSet(doc) = ToSet(s) \cup ToSet(SdReferences)
    BY <1>a, <2>1, Zenon
  <2>4. IsDoc(doc)
    BY <1>a, <2>2, Zenon
  <2> QED  BY <2>3, <2>4
<1>c. \A i \in DOMAIN SdTables : SdReferences[i] \in ToSet(Target(doc))
  <2>1. ToSet(Target(doc)) = {t \in ToSet(doc) : t.rom \in {"stock", "avls", "after"}}
    BY <1>b, WithinTables DEF Target
  <2>2. \A i \in DOMAIN SdTables : SdReferences[i] \in ToSet(SdReferences)
    <3>1. DOMAIN SdReferences = DOMAIN SdTables
      BY OwnTables
    <3>2. \A x : ToSet(x) = {x[i] : i \in DOMAIN x}
      BY DEF ToSet
    <3> QED  BY <3>1, <3>2
  <2>3. \A i \in DOMAIN SdTables : SdReferences[i].rom = "after"
    BY OwnTables
  <2> QED  BY <1>b, <2>1, <2>2, <2>3
<1> QED  BY <1>3, <1>b, <1>c DEF SdOk

(* The boost definition has its own tables after the block, and the oil    *)
(* scaling nowhere, as the older one, or in both sections.                 *)
BoostOk(doc) ==
  /\ Within(doc, {"after"}) = Overboost
  /\ \/ doc = OlderBoost
     \/ /\ IsDoc(doc) /\ Count(doc, Oil) # 0
        /\ Count(Within(doc, {"parent"}), Oil) = 1 /\ Count(Within(doc, {"stock"}), Oil) = 1

(* The definition with the oil scaling.                                    *)
Oiled(source, doc) == IF Count(doc, Oil) = 0 THEN InsertOil(source, doc) ELSE doc

(* With the oil scaling inserted where it was missing, both sections have  *)
(* it once.                                                                *)
LEMMA OiledFacts ==
  ASSUME NEW source, IsDoc(source), NEW doc, BoostOk(doc), Count(source, Oil) = 2
  PROVE  \E T : /\ source \in Seq(T)
                /\ Oiled(source, doc) \in Seq(T)
                /\ Count(Within(Oiled(source, doc), {"parent"}), Oil) = 1
                /\ Count(Within(Oiled(source, doc), {"stock"}), Oil) = 1
                /\ Within(Oiled(source, doc), {"after"}) = Overboost
<1>1. PICK U : source \in Seq(U)
  BY DEF IsDoc
<1>2. CASE doc = OlderBoost
  <2>1. PICK V : doc \in Seq(V)
    BY <1>2, OldBoost
  <2> DEFINE W == U \cup V
  <2>2. source \in Seq(W) /\ doc \in Seq(W)
    BY <1>1, <2>1, SeqWidens
  <2> HIDE DEF W
  <2>3. /\ Count(doc, Oil) = 0 /\ 21 \in 1..Len(doc) /\ 43 \in 1..Len(doc) /\ 21 < 43
        /\ Named(doc, Fuel) = {21, 43} /\ doc[21].rom = "parent" /\ doc[43].rom = "stock"
        /\ Within(doc, {"after"}) = Overboost
    BY <1>2, OldBoost
  <2>4. PICK T : /\ W \subseteq T
                 /\ InsertOil(source, doc) \in Seq(T)
                 /\ Count(Within(InsertOil(source, doc), {"parent"}), Oil) = 1
                 /\ Count(Within(InsertOil(source, doc), {"stock"}), Oil) = 1
                 /\ Within(InsertOil(source, doc), {"after"}) = Within(doc, {"after"})
    BY <2>2, <2>3, OilInserted
  <2>5. source \in Seq(T)
    BY <2>2, <2>4, SeqWidens
  <2>6. Oiled(source, doc) = InsertOil(source, doc)
    BY <2>3 DEF Oiled
  <2> QED  BY <2>3, <2>4, <2>5, <2>6
<1>3. CASE doc # OlderBoost
  <2>1. PICK V : doc \in Seq(V)
    BY <1>3 DEF BoostOk, IsDoc
  <2> DEFINE W == U \cup V
  <2>2. source \in Seq(W) /\ doc \in Seq(W)
    BY <1>1, <2>1, SeqWidens
  <2> HIDE DEF W
  <2>3. Oiled(source, doc) = doc
    BY <1>3 DEF Oiled, BoostOk
  <2> QED  BY <1>3, <2>2, <2>3 DEF BoostOk
<1> QED  BY <1>2, <1>3

LEMMA SyncWrites ==
  ASSUME NEW source, NEW doc PROVE Synchronized(source, doc) = Joined(Oiled(source, doc), source)
BY DEF Synchronized, Joined, Oiled, Joint, AvlsRange, Oil

(* What SyncSettles says, of any definition.                               *)
Settled(source, doc) ==
  /\ AvlsRange(doc) = AvlsRange(source)
  /\ SyncAvls(source, doc) = [status |-> "ok", doc |-> doc]
  /\ Within(doc, {"after"}) = Overboost
  /\ ExactlyOne(Parent(doc), {"Oil Temp Scaling"}) /\ ExactlyOne(Target(doc), {"Oil Temp Scaling"})

LEMMA TwoIsSome == 2 # 0
OBVIOUS

(* What the tool accepts.                                                  *)
LEMMA SyncAccepts ==
  ASSUME NEW source, NEW doc, NEW new, new = Synchronized(source, doc),
         Count(source, Oil) = 2, Count(doc, Oil) = 2,
         Count(new, "AVLS Pedal Threshold") = 1, Count(new, Oil) = 2
  PROVE  SyncAvls(source, doc) = [status |-> "ok", doc |-> new]
<1>1. /\ Count(source, "Oil Temp Scaling") = 2 /\ Count(doc, "Oil Temp Scaling") = 2
      /\ Count(Synchronized(source, doc), "AVLS Pedal Threshold") = 1
      /\ Count(Synchronized(source, doc), "Oil Temp Scaling") = 2
  BY DEF Oil
<1>2. ~ \/ Count(source, "Oil Temp Scaling") # 2
        \/ Count(doc, "Oil Temp Scaling") = 0 /\ Count(doc, "Fuel Temp Scaling") # 2
        \/ Count(doc, "Oil Temp Scaling") \notin {0, 2}
        \/ Count(Synchronized(source, doc), "AVLS Pedal Threshold") # 1
        \/ Count(Synchronized(source, doc), "Oil Temp Scaling") # 2
  <2>1. Count(source, "Oil Temp Scaling") = 2
    BY <1>1
  <2>2. ~ (Count(doc, "Oil Temp Scaling") = 0)
    <3>1. Count(doc, "Oil Temp Scaling") = 2
      BY <1>1
    <3> QED  BY Zenon, <3>1, TwoIsSome
  <2>3. Count(doc, "Oil Temp Scaling") \in {0, 2}
    <3>1. Count(doc, "Oil Temp Scaling") = 2
      BY <1>1
    <3> QED  BY <3>1
  <2>4. Count(Synchronized(source, doc), "AVLS Pedal Threshold") = 1
    BY <1>1
  <2>5. Count(Synchronized(source, doc), "Oil Temp Scaling") = 2
    BY <1>1
  <2> QED  BY Zenon, <2>1, <2>2, <2>3, <2>4, <2>5
<1>3. SyncAvls(source, doc) = [status |-> "ok", doc |-> Synchronized(source, doc)]
  BY <1>2 DEF SyncAvls
<1> QED  BY <1>3

(* What one run of the tool writes is settled.                             *)
LEMMA SyncOnce ==
  ASSUME NEW source, IsDoc(source), NEW doc, BoostOk(doc), SyncAvls(source, doc).status = "ok"
  PROVE  /\ SyncAvls(source, doc).doc = Synchronized(source, doc)
         /\ BoostOk(Synchronized(source, doc))
         /\ Settled(source, Synchronized(source, doc))
<1> DEFINE o == Oiled(source, doc)
           r == Synchronized(source, doc)
<1>0. /\ SyncAvls(source, doc).doc = r /\ Count(source, Oil) = 2
      /\ Count(r, "AVLS Pedal Threshold") = 1 /\ Count(r, Oil) = 2
  BY DEF SyncAvls, Refused, Oil
<1>1. Count(source, Oil) = 2
  BY <1>0
<1>p. Count(r, "AVLS Pedal Threshold") = 1
  BY <1>0
<1>q. Count(r, Oil) = 2
  BY <1>0
<1>2. PICK T : /\ source \in Seq(T) /\ o \in Seq(T)
               /\ Count(Within(o, {"parent"}), Oil) = 1
               /\ Count(Within(o, {"stock"}), Oil) = 1
               /\ Within(o, {"after"}) = Overboost
  BY <1>1, OiledFacts
<1>3. r = Joined(o, source)
  BY SyncWrites
<1> HIDE DEF o, r
<1>4. /\ r \in Seq(T)
      /\ Within(r, {"avls"}) = Within(source, {"avls"})
      /\ Within(r, {"after"}) = Within(o, {"after"})
      /\ Count(Within(r, {"parent"}), Oil) = 1
      /\ Count(Within(r, {"stock"}), Oil) = 1
      /\ Count(Within(r, {"stock", "avls", "after"}), Oil) = 1
      /\ Joined(r, source) = r
  BY <1>2, <1>3, <1>q, SyncResult
<1>5. BoostOk(r)
  <2>1. Count(r, Oil) # 0
    BY <1>q
  <2> QED  BY <1>2, <1>4, <2>1 DEF BoostOk, IsDoc
<1>6. Synchronized(source, r) = r
  <2>1. Oiled(source, r) = r
    BY <1>q DEF Oiled
  <2> QED  BY <1>4, <2>1, SyncWrites
<1>7. SyncAvls(source, r) = [status |-> "ok", doc |-> r]
  BY <1>1, <1>p, <1>q, <1>6, SyncAccepts
<1>8. AvlsRange(r) = AvlsRange(source) /\ Within(r, {"after"}) = Overboost
  BY <1>2, <1>4 DEF AvlsRange
<1>9. ExactlyOne(Parent(r), {"Oil Temp Scaling"}) /\ ExactlyOne(Target(r), {"Oil Temp Scaling"})
  BY <1>4 DEF ExactlyOne, Parent, Target, Oil
<1> QED  BY <1>0, <1>5, <1>7, <1>8, <1>9 DEF Settled, r

(* Categorized tables in two parts, as the tables were.                    *)
LEMMA CategorizedParts ==
  ASSUME NEW raw, NEW kept, IsTables(kept), NEW extra, IsTables(extra), Appended(raw, kept, extra),
         NEW target, IsTables(target), Len(target) = Len(raw),
         \A i \in 1..Len(raw) : target[i].name = raw[i].name /\ target[i].at = raw[i].at
  PROVE  \E first, rest :
           /\ first \in Seq(ToSet(target)) /\ rest \in Seq(ToSet(target)) /\ Appended(target, first, rest)
           /\ Len(first) = Len(kept) /\ Shown(rest) = Shown(extra)
           /\ \A i \in 1..Len(kept) : first[i].name = kept[i].name /\ first[i].at = kept[i].at
<1>1. PICK A : kept \in Seq(A)
  BY DEF IsTables
<1>2. PICK B : extra \in Seq(B)
  BY DEF IsTables
<1> DEFINE C == A \cup B
<1>3. kept \in Seq(C) /\ extra \in Seq(C)
  BY <1>1, <1>2, SeqWidens
<1> HIDE DEF C
<1> DEFINE m == Len(kept)
           n == Len(extra)
<1>4. /\ Len(raw) = m + n /\ m \in Nat /\ n \in Nat
      /\ \A i \in 1..m : raw[i] = kept[i]
      /\ \A j \in 1..n : raw[m + j] = extra[j]
  BY <1>3, AppendedFacts
<1>t. Len(target) = m + n /\ DOMAIN target = 1..(m + n)
  BY <1>4, TablesMembers
<1>5. PICK Rows : target \in Seq(Rows)
  BY DEF IsTables
<1> DEFINE first == [i \in 1..m |-> target[i]]
           rest == [j \in 1..n |-> target[m + j]]
           T == ToSet(target)
<1>6. \A i \in 1..(m + n) : target[i] \in T
  BY <1>t DEF ToSet
<1>7. DOMAIN extra = 1..n
  BY <1>3
<1> HIDE DEF T, m, n
<1>8. first \in Seq(T) /\ Len(first) = m
  <2>1. \A i \in 1..m : target[i] \in T
    BY <1>4, <1>6
  <2>2. [i \in 1..m |-> target[i]] \in Seq(T)
    BY <1>4, <2>1, IsASeq
  <2> QED  BY <1>4, <2>2
<1>9. rest \in Seq(T) /\ Len(rest) = n
  <2>1. \A j \in 1..n : target[m + j] \in T
    BY <1>4, <1>6
  <2>2. [j \in 1..n |-> target[m + j]] \in Seq(T)
    BY <1>4, <2>1, IsASeq
  <2> QED  BY <1>4, <2>2
<1>a. Appended(target, first, rest)
  <2>1. target \in Seq(T)
    BY <1>5, OverItsOwn DEF T
  <2>2. target = first \o rest
    BY <1>4, <1>t, <1>8, <1>9, <2>1
  <2> QED  BY <2>2 DEF Appended
<1>b. \A i \in 1..m : first[i].name = kept[i].name /\ first[i].at = kept[i].at
  <2> TAKE i \in 1..m
  <2>1. i \in 1..(m + n) /\ first[i] = target[i] /\ raw[i] = kept[i]
    BY <1>4
  <2> HIDE DEF first, rest
  <2> QED  BY <1>4, <2>1
<1>c. Shown(rest) = Shown(extra)
  <2>1. \A j \in 1..n : rest[j].name = extra[j].name /\ rest[j].at = extra[j].at
    <3> TAKE j \in 1..n
    <3>1. m + j \in 1..(m + n) /\ rest[j] = target[m + j] /\ raw[m + j] = extra[j]
      BY <1>4
    <3> HIDE DEF first, rest
    <3> QED  BY <1>4, <3>1
  <2>2. DOMAIN rest = 1..n
    OBVIOUS
  <2> HIDE DEF first, rest
  <2>3. Shown(rest) = {<<rest[j].name, rest[j].at>> : j \in 1..n}
    BY <2>2 DEF Shown, ToSet
  <2>4. Shown(extra) = {<<extra[j].name, extra[j].at>> : j \in 1..n}
    BY <1>7 DEF Shown, ToSet
  <2> QED  BY <2>1, <2>3, <2>4
<1> HIDE DEF first, rest
<1> QED  BY <1>8, <1>9, <1>a, <1>b, <1>c DEF T, m, n

(* Put in order, the categorized tables are finished.                      *)
LEMMA TreeIsFinished ==
  ASSUME NEW v \in Versions, NEW source, IsTables(source), NEW sdDoc, SdOk(sdDoc),
         NEW boostDoc, HasOverboost(boostDoc), BuildTree(v, source, sdDoc, boostDoc).status = "ok",
         NEW from, from = Surviving(source, Target(source)),
         NEW doc, doc = BuildTree(v, source, sdDoc, boostDoc).doc
  PROVE  /\ ShowsAll(v, doc.target, from, ParentCategories(doc.parent), AddedTables(AddedReferences(v)))
         /\ InOrder(v, doc.target, from, ParentCategories(doc.parent))
<1> DEFINE parent == Categorized(v, Extended(v, source, sdDoc, boostDoc).parent)
           raw == Extended(v, source, sdDoc, boostDoc).target
           target == Categorized(v, raw)
           final == Sorted(target, parent, Order(v))
           finalParent == Sorted(parent, parent, Order(v))
           kept == PrunedBy(v, Target(source), InheritedDrops(source))
<1>1. /\ doc = [parent |-> finalParent, target |-> final]
      /\ ExactlyOne(Target(sdDoc), NamesOf(SdTables))
      /\ ExactlyOne(Target(boostDoc), NamesOf(OverboostTables))
      /\ \A t \in ToSet(parent) \cup ToSet(target) :
           Resolved(t, ParentCategories(parent)) \in CategoryNames(v)
      /\ ExactlyOne(final, {final[i].name : i \in DOMAIN final})
  <2>1. /\ parent = Categorized(v, Extended(v, source, sdDoc, boostDoc).parent)
        /\ target = Categorized(v, Extended(v, source, sdDoc, boostDoc).target)
    OBVIOUS
  <2> HIDE DEF parent, target, raw
  <2>2. Buildable(v, source, sdDoc, boostDoc, parent, target)
    BY <2>1, BuildAccepted
  <2> QED  BY <2>2, Zenon DEF Buildable
<1>2. IsTables(Parent(source)) /\ IsTables(Target(source))
  BY WithinAreTables DEF Parent, Target
<1>3. /\ IsTables(from) /\ IsTables(kept) /\ Len(kept) = Len(from)
      /\ \A i \in 1..Len(from) : kept[i].name = Published(v, from[i].name) /\ kept[i].at = from[i].at
  BY <1>2, PrunedFacts
<1>4. PICK extra : /\ IsTables(extra) /\ Appended(raw, kept, extra)
                   /\ Shown(extra) = AddedTables(AddedReferences(v))
  BY <1>1, <1>3, ExtraTables
<1>5. IsDoc(parent)
  <2>1. IsTables(PrunedBy(v, Parent(source), InheritedDrops(source)))
    BY <1>2, PrunedFacts
  <2>2. IsDoc(PrunedBy(v, Parent(source), InheritedDrops(source)))
    BY <2>1, TablesAreDocs
  <2>3. IsDoc(Extended(v, source, sdDoc, boostDoc).parent)
    BY <2>2, ExtendedParent
  <2> QED  BY <2>3, CategorizedIsDoc
<1> HIDE DEF kept, raw
<1>6. IsTables(raw)
  <2>1. IsTables(kept \o extra)
    BY <1>3, <1>4, TablesConcatenated
  <2> QED  BY <1>4, <2>1, Zenon DEF Appended
<1>7. /\ IsTables(target) /\ Len(target) = Len(raw)
      /\ \A i \in 1..Len(raw) : target[i].name = raw[i].name /\ target[i].at = raw[i].at
  BY <1>6, CategorizedFacts
<1> HIDE DEF parent, target
<1>8. PICK first, rest :
           /\ first \in Seq(ToSet(target)) /\ rest \in Seq(ToSet(target)) /\ Appended(target, first, rest)
           /\ Len(first) = Len(kept) /\ Shown(rest) = Shown(extra)
           /\ \A i \in 1..Len(kept) : first[i].name = kept[i].name /\ first[i].at = kept[i].at
  BY <1>3, <1>4, <1>7, CategorizedParts
<1>9. Distinct(Order(v)) /\ CategoryNames(v) = ToSet(Order(v))
  BY Orders DEF CategoryNames
<1> DEFINE categories == ParentCategories(parent)
<1>a. target \in Seq(ToSet(target)) /\ parent \in Seq(ToSet(parent))
  BY <1>5, <1>7, OverItsOwn DEF IsTables, IsDoc
<1>b. /\ Rearranged(final, target, ToSet(target))
      /\ \A c \in CategoryNames(v) : Only(final, Group(target, categories, c)) = Only(target, Group(target, categories, c))
  BY <1>1, <1>9, <1>a, SortedFacts
<1>c. Rearranged(finalParent, parent, ToSet(parent))
  BY <1>1, <1>9, <1>a, SortedFacts
<1>d. ParentCategories(finalParent) = categories
  <2>1. ToSet(finalParent) = ToSet(parent)
    BY <1>c DEF Rearranged
  <2> HIDE DEF finalParent
  <2> QED  BY <2>1, ShownRearranged
<1>e. doc.target = final /\ doc.parent = finalParent
  BY <1>1
<1>f. NamesOnce(final)
  <2> HIDE DEF final
  <2>1. final \in Seq(ToSet(target))
    BY <1>b DEF Rearranged
  <2>2. DOMAIN final = 1..Len(final)
    BY <2>1
  <2> QED  BY <1>1, <2>2 DEF NamesOnce, ExactlyOne
<1> HIDE DEF final, finalParent, categories
<1> DEFINE Rows == ToSet(target) \cup ToSet(from)
<1>g. /\ from \in Seq(Rows) /\ first \in Seq(Rows) /\ rest \in Seq(Rows)
      /\ Rearranged(final, target, Rows)
  <2>1. from \in Seq(ToSet(from))
    BY <1>3, OverItsOwn DEF IsTables
  <2>2. final \in Seq(ToSet(target))
    BY <1>b DEF Rearranged
  <2>3. final \in Seq(Rows) /\ from \in Seq(Rows) /\ first \in Seq(Rows) /\ rest \in Seq(Rows)
    <3>1. ToSet(target) \subseteq Rows /\ ToSet(from) \subseteq Rows
      OBVIOUS
    <3> HIDE DEF Rows
    <3> QED  BY <1>8, <2>1, <2>2, <3>1, SeqWidens
  <2> HIDE DEF Rows
  <2> QED  BY <1>b, <2>3 DEF Rearranged
<1> HIDE DEF Rows
<1>h. Finished(v, Rows, from, first, rest, target, final)
  <2>1. Len(first) = Len(from)
    BY <1>3, <1>8
  <2>2. \A i \in 1..Len(from) : first[i].name = Published(v, from[i].name) /\ first[i].at = from[i].at
    BY <1>3, <1>8
  <2>3. Appended(target, first, rest)
    BY <1>8
  <2> QED  BY <1>f, <1>g, <2>1, <2>2, <2>3 DEF Finished
<1>i. ShowsAll(v, final, from, categories, Shown(rest))
  BY <1>h, FinishedShows
<1>j. InOrder(v, final, from, categories)
  BY <1>b, <1>h, FinishedInOrder
<1> QED  BY <1>4, <1>8, <1>d, <1>e, <1>i, <1>j

(* A master definition that shows all of its source.                       *)
MasterOk(m) ==
  m.status = "ok" =>
    /\ m.version \in Versions
    /\ ShowsAll(m.version, m.doc.target, Surviving(m.from, Target(m.from)),
                ParentCategories(m.doc.parent), AddedTables(AddedReferences(m.version)))
    /\ InOrder(m.version, m.doc.target, Surviving(m.from, Target(m.from)), ParentCategories(m.doc.parent))

LEMMA ShowsAllIsComplete == MasterOk(master) => DefinitionComplete
<1> SUFFICES ASSUME MasterOk(master), master.status = "ok" PROVE DefinitionComplete
  BY DEF DefinitionComplete
<1> DEFINE v == master.version
           from == Surviving(master.from, Target(master.from))
           target == master.doc.target
           categories == ParentCategories(master.doc.parent)
           old == {Published(v, t.name) : t \in ToSet(from)}
           grouped == {<<Resolved(t, categories), t.name>> : t \in {s \in ToSet(target) : s.name \in old}}
           added == IF v = 1 THEN Added1 ELSE Added2
<1>1. added = AddedTables(AddedReferences(v))
  BY DEF Added1, Added2, AddedReferences
<1>2. ShowsAll(v, target, from, categories, added) /\ InOrder(v, target, from, categories)
  BY <1>1 DEF MasterOk
<1>3. /\ Len(target) = Len(from) + Cardinality(added)
      /\ {<<t.name, t.at>> : t \in ToSet(target)}
            = {<<Published(v, t.name), t.at>> : t \in ToSet(from)} \cup added
  BY <1>2 DEF ShowsAll, Shown
<1>4. \A c \in CategoryNames(v) :
            LET sourceOrder == Only(from, {t \in ToSet(from) : <<c, Published(v, t.name)>> \in grouped})
                shown == Only(target, {t \in ToSet(target) : <<c, t.name>> \in grouped})
            IN [i \in DOMAIN shown |-> shown[i].name]
                 = [i \in DOMAIN sourceOrder |-> Published(v, sourceOrder[i].name)]
  BY <1>2, Zenon DEF InOrder
<1> QED  BY <1>3, <1>4, Zenon DEF DefinitionComplete

(* Every boost definition the tools keep is one, with its own tables.      *)
LEMMA BoostIsDoc == ASSUME NEW doc, BoostOk(doc) PROVE IsDoc(doc) /\ HasOverboost(doc)
<1>1. IsDoc(doc)
  BY OldBoost DEF BoostOk, IsDoc
<1>2. Within(doc, {"after"}) = Overboost
  BY DEF BoostOk
<1> QED  BY <1>1, <1>2, BoostHasItsTables

(* The files stay definitions, the derived ones with their own tables, the *)
(* boost definition settled right after its tool has run, and every master *)
(* complete.                                                               *)
DefInv == /\ IsTables(avls) /\ BoostOk(boost) /\ SdOk(sd)
          /\ SyncSettles /\ MasterOk(master)

LEMMA DefStart == DefInit => DefInv
<1> SUFFICES ASSUME DefInit PROVE DefInv
  OBVIOUS
<1>1. IsTables(avls)
  BY SourceTables DEF DefInit
<1>2. BoostOk(boost)
  <2>1. CASE boost = OlderBoost
    BY <2>1, OldBoost DEF BoostOk
  <2>2. CASE boost = BoostDefinition
    BY <2>2, NewBoost DEF BoostOk, IsDoc
  <2> QED  BY <2>1, <2>2 DEF DefInit
<1>3. SyncSettles
  BY DEF DefInit, SyncSettles
<1>4. SdOk(sd)
  <2>1. SdOk(RenderSd(Source).doc)
    BY SourceTables, SourceRendered, RenderedHasItsTables
  <2> QED  BY <2>1, Zenon DEF DefInit
<1>5. MasterOk(master)
  <2>1. master.status = "none"
    BY DEF DefInit, NoDefinition
  <2> QED  BY <2>1 DEF MasterOk
<1> QED  BY <1>1, <1>2, <1>3, <1>4, <1>5 DEF DefInv

(* A master that is written is complete.                                   *)
LEMMA MasterWritten ==
  ASSUME NEW v \in Versions, IsTables(avls), BoostOk(boost), SdOk(sd), MasterOk(master), BuildMaster(v)
  PROVE  MasterOk(master')
<1> DEFINE new == IF v = 1 THEN BuildTree1(avls, sd, boost) ELSE BuildTree2(avls, sd, boost)
           written == [status |-> "ok", version |-> v, doc |-> new.doc, from |-> avls]
<1>1. master' = IF new.status = "ok" THEN written ELSE master
  BY DEF BuildMaster
<1>2. new = BuildTree(v, avls, sd, boost)
  <2>1. CASE v = 1
    BY <2>1, Zenon DEF BuildTree1
  <2>2. CASE v # 1
    <3>1. v = 2
      BY <2>2 DEF Versions
    <3> QED  BY <2>2, <3>1, Zenon DEF BuildTree2
  <2> QED  BY <2>1, <2>2
<1> HIDE DEF new
<1>3. CASE new.status # "ok"
  BY <1>1, <1>3, Zenon
<1>4. CASE new.status = "ok"
  <2> DEFINE from == Surviving(avls, Target(avls))
             doc == new.doc
  <2>1. HasOverboost(boost)
    BY BoostIsDoc
  <2>2. BuildTree(v, avls, sd, boost).status = "ok" /\ doc = BuildTree(v, avls, sd, boost).doc
    BY <1>2, <1>4, Zenon
  <2>3. from = Surviving(avls, Target(avls))
    OBVIOUS
  <2> HIDE DEF doc, from
  <2>4. /\ ShowsAll(v, doc.target, from, ParentCategories(doc.parent), AddedTables(AddedReferences(v)))
        /\ InOrder(v, doc.target, from, ParentCategories(doc.parent))
    BY <2>1, <2>2, <2>3, TreeIsFinished
  <2>5. written.status = "ok" /\ written.version = v /\ written.doc = doc /\ written.from = avls
    BY DEF doc
  <2>6. master' = written
    BY <1>1, <1>4, Zenon
  <2> HIDE DEF written
  <2>7. MasterOk(written)
    BY <2>4, <2>5, Zenon DEF MasterOk, from
  <2> QED  BY <2>6, <2>7, Zenon
<1> QED  BY <1>3, <1>4

LEMMA DefStep == DefInv /\ [DefNext]_defVars => DefInv'
<1> SUFFICES ASSUME DefInv, [DefNext]_defVars PROVE DefInv'
  OBVIOUS
<1>0. IsTables(avls) /\ BoostOk(boost) /\ SdOk(sd) /\ SyncSettles /\ MasterOk(master)
  BY DEF DefInv
<1>1. CASE EditSource
  <2>1. PICK i \in DOMAIN avls : avls' \in Edits(avls, i)
    BY <1>1 DEF EditSource
  <2>2. IsTables(avls')
    BY <1>0, <2>1, EditsAreTables
  <2>3. boost' = boost /\ sd' = sd /\ master' = master /\ outcome'.tool = "edit"
    BY <1>1 DEF EditSource
  <2>4. SyncSettles'
    BY <2>3 DEF SyncSettles
  <2>5. BoostOk(boost') /\ SdOk(sd') /\ MasterOk(master')
    BY <1>0, <2>3, Zenon
  <2> QED  BY <2>2, <2>4, <2>5, Zenon DEF DefInv, BoostOk, IsDoc, IsTables, IsTable, SdOk, MasterOk
<1>2. CASE Synchronize
  <2> DEFINE new == SyncAvls(avls, boost)
  <2>1. /\ boost' = (IF new.status = "ok" THEN new.doc ELSE boost) /\ avls' = avls
        /\ outcome'.status = IF new.status = "ok" /\ new.doc = boost THEN "current" ELSE new.status
    BY <1>2 DEF Synchronize
  <2>u. sd' = sd /\ master' = master
    BY <1>2 DEF Synchronize
  <2>2. new.status \in {"ok", "refused"}
    BY DEF SyncAvls, Refused
  <2>t. IsTables(avls') /\ SdOk(sd') /\ MasterOk(master')
    BY <1>0, <2>1, <2>u, Zenon
  <2>3. CASE new.status = "ok"
    <3>1. boost' = Synchronized(avls, boost) /\ BoostOk(Synchronized(avls, boost))
            /\ Settled(avls, Synchronized(avls, boost))
      BY <1>0, <2>1, <2>3, SyncOnce, TablesAreDocs
    <3>2. BoostOk(boost') /\ Settled(avls', boost')
      BY <2>1, <3>1
    <3>3. SyncSettles'
      BY <3>2 DEF SyncSettles, Settled
    <3> QED  BY <2>t, <3>2, <3>3, Zenon DEF DefInv
  <2>4. CASE new.status = "refused"
    <3>1. boost' = boost /\ outcome'.status = "refused"
      BY <2>1, <2>4
    <3>2. SyncSettles'
      BY <3>1 DEF SyncSettles
    <3>3. BoostOk(boost')
      BY <1>0, <3>1, Zenon
    <3> QED  BY <2>t, <3>2, <3>3, Zenon DEF DefInv
  <2> QED  BY <2>2, <2>3, <2>4
<1>3. CASE BuildSd
  <2>1. avls' = avls /\ boost' = boost /\ master' = master /\ outcome'.tool = "sd"
    BY <1>3 DEF BuildSd
  <2>2. SdOk(sd')
    <3>1. sd' = IF RenderSd(avls).status = "ok" THEN RenderSd(avls).doc ELSE sd
      BY <1>3 DEF BuildSd
    <3>2. CASE RenderSd(avls).status = "ok"
      <4>1. SdOk(RenderSd(avls).doc)
        BY <1>0, <3>2, RenderedHasItsTables
      <4> QED  BY <3>1, <3>2, <4>1, Zenon
    <3>3. CASE RenderSd(avls).status # "ok"
      BY <1>0, <3>1, <3>3, Zenon
    <3> QED  BY <3>2, <3>3
  <2>3. SyncSettles'
    BY <2>1 DEF SyncSettles
  <2>4. IsTables(avls') /\ BoostOk(boost') /\ MasterOk(master')
    BY <1>0, <2>1, Zenon
  <2> QED  BY <2>2, <2>3, <2>4, Zenon DEF DefInv
<1>4. ASSUME NEW v \in Versions, BuildMaster(v) PROVE DefInv'
  <2>1. avls' = avls /\ boost' = boost /\ sd' = sd /\ outcome'.tool = "master"
    BY <1>4 DEF BuildMaster
  <2>2. MasterOk(master')
    BY <1>0, <1>4, MasterWritten
  <2>3. SyncSettles'
    BY <2>1 DEF SyncSettles
  <2>4. IsTables(avls') /\ BoostOk(boost') /\ SdOk(sd')
    BY <1>0, <2>1, Zenon
  <2> QED  BY <2>2, <2>3, <2>4, Zenon DEF DefInv
<1>5. CASE UNCHANGED defVars
  <2>1. avls' = avls /\ boost' = boost /\ sd' = sd /\ master' = master /\ outcome' = outcome
    BY <1>5 DEF defVars
  <2>2. IsTables(avls') /\ BoostOk(boost') /\ SdOk(sd') /\ MasterOk(master')
    BY <1>0, <2>1, Zenon
  <2>3. SyncSettles'
    BY <1>0, <2>1 DEF SyncSettles, AvlsRange, SyncAvls, Synchronized
  <2> QED  BY <2>2, <2>3, Zenon DEF DefInv
<1> QED  BY <1>1, <1>2, <1>3, <1>4, <1>5 DEF DefNext

(* Whatever was edited and built in between, the invariant holds.          *)
LEMMA DefInvariance == DefSpec => []DefInv
BY DefStart, DefStep, PTL DEF DefSpec

(* The same holds while the other tools are at work.                       *)
LEMMA GeneratorsAmongTools == Spec => DefSpec
<1>1. Init => DefInit
  BY DEF Init
<1>2. [Next]_<<tool, built, asmVars, defVars, loggerVars, readerVars>> => [DefNext]_defVars
  BY DEF Next
<1> QED  BY <1>1, <1>2, PTL DEF Spec, DefSpec

(* Right after a synchronization the boost definition has the source's     *)
(* AVLS block, its own tables and the oil scaling once in either part, and *)
(* a second run would change nothing, for any edits of any tables and      *)
(* however often the tool ran before (render, table_ranges).               *)
THEOREM SyncKeepsSettled == Spec => []SyncSettles
<1>1. DefInv => SyncSettles
  BY DEF DefInv
<1> QED  BY <1>1, DefInvariance, GeneratorsAmongTools, PTL

(* Every master the builders accept shows the whole of the source it was   *)
(* built from: its surviving tables, each once, under its new name, at its *)
(* address and in the source's order within its category, beside exactly   *)
(* the added tables, for any edits of any tables and derived files however *)
(* old (build_tree, prune_and_rename, apply_master_categories).            *)
THEOREM MastersComplete == Spec => []DefinitionComplete
<1>1. DefInv => DefinitionComplete
  BY ShowsAllIsComplete DEF DefInv
<1> QED  BY <1>1, DefInvariance, GeneratorsAmongTools, PTL
-----------------------------------------------------------------------------
(* The logger tools. *)

(* A definition has its nine parts, a gated channel its three counts.      *)
IsEntry(r) == \E n, h, o : r = [entries |-> n, here |-> h, others |-> o]
IsRecord(doc) == \E i, s, t, m, c, d, w, g, q :
  doc = [status |-> i, ssm |-> s, transports |-> t, modules |-> m, containers |-> c,
         direct |-> d, switches |-> w, gated |-> g, query |-> q]
IsDefinition(doc) == /\ IsRecord(doc) /\ doc.status = "ok"
                     /\ \A id \in DOMAIN doc.gated : IsEntry(doc.gated[id])

(* One definition has the other's counts, and the four parts given.        *)
HasParts(new, doc, d, w, g, q) ==
  /\ IsRecord(new)
  /\ new.status = doc.status /\ new.ssm = doc.ssm /\ new.transports = doc.transports
  /\ new.modules = doc.modules /\ new.containers = doc.containers
  /\ new.direct = d /\ new.switches = w /\ new.gated = g /\ new.query = q

(* It is the work of the installer on some upstream definition.            *)
InstalledFrom(doc, up) ==
  /\ IsDefinition(up)
  /\ doc = Focused(up) /\ Validated(doc)
  /\ Total(Entries(up)) + Cardinality(Visible(up)) = Cardinality(StockEcuParameterIds)
  /\ Visible(up) = AlwaysVisible

(* What is installed is nothing, or the work of the installer; and         *)
(* installed again it is the same.                                         *)
LoggerInv ==
  /\ IsDefinition(upstream)
  /\ installed = NoFile \/ \E up : InstalledFrom(installed, up)
  /\ RegenerationStable

(* The catalogue has the two lambda inputs, and channels that stay gated.  *)
LEMMA Catalogue ==
  /\ P({24, 30}) \subseteq StandardParameterIds
  /\ StockEcuParameterIds \ AlwaysVisible # {}
<1>1. P({24, 30}) \subseteq StandardParameterIds
  BY DEF P, StandardParameterIds
<1>2. <<"E", 31>> \in StockEcuParameterIds \ AlwaysVisible
  BY DEF E, StockEcuParameterIds, AlwaysVisible
<1> QED  BY <1>1, <1>2

(* A gated channel with one count set keeps the others.                    *)
LEMMA EntryWith ==
  ASSUME NEW r, IsEntry(r), NEW n
  PROVE  /\ IsEntry([r EXCEPT !.entries = n]) /\ IsEntry([r EXCEPT !.here = n])
         /\ IsEntry([r EXCEPT !.others = n])
         /\ [r EXCEPT !.others = n].entries = r.entries
         /\ [[r EXCEPT !.others = n] EXCEPT !.others = n] = [r EXCEPT !.others = n]
<1>1. PICK e, h, o : r = [entries |-> e, here |-> h, others |-> o]
  BY DEF IsEntry
<1>2. /\ [r EXCEPT !.entries = n] = [entries |-> n, here |-> h, others |-> o]
      /\ [r EXCEPT !.here = n] = [entries |-> e, here |-> n, others |-> o]
      /\ [r EXCEPT !.others = n] = [entries |-> e, here |-> h, others |-> n]
  BY <1>1
<1>3. [r EXCEPT !.others = n].entries = r.entries
  BY <1>1, <1>2
<1>4. [[r EXCEPT !.others = n] EXCEPT !.others = n] = [r EXCEPT !.others = n]
  BY <1>2
<1>5. \A k1, k2, k3 : IsEntry([entries |-> k1, here |-> k2, others |-> k3])
  BY Zenon DEF IsEntry
<1> QED  BY <1>2, <1>3, <1>4, <1>5

(* A definition, part by part.                                             *)
Made(i, s, t, m, c, d, w, g, q) ==
  [status |-> i, ssm |-> s, transports |-> t, modules |-> m, containers |-> c,
   direct |-> d, switches |-> w, gated |-> g, query |-> q]

(* Which it is, whatever the parts.                                        *)
LEMMA MadeIsRecord ==
  ASSUME NEW i, NEW s, NEW t, NEW m, NEW c, NEW d, NEW w, NEW g, NEW q
  PROVE  IsRecord(Made(i, s, t, m, c, d, w, g, q))
BY Zenon DEF IsRecord, Made

(* A definition with parts replaced.                                       *)
LEMMA PartsWith ==
  ASSUME NEW doc, IsRecord(doc), NEW x, NEW y, NEW z, NEW u
  PROVE  /\ HasParts([doc EXCEPT !.direct = x, !.switches = y, !.gated = z, !.query = u],
                     doc, x, y, z, u)
         /\ HasParts([doc EXCEPT !.direct = x], doc, x, doc.switches, doc.gated, doc.query)
         /\ HasParts([doc EXCEPT !.switches = x], doc, doc.direct, x, doc.gated, doc.query)
         /\ HasParts([doc EXCEPT !.gated = x], doc, doc.direct, doc.switches, x, doc.query)
         /\ HasParts([doc EXCEPT !.query = x], doc, doc.direct, doc.switches, doc.gated, x)
<1>1. PICK i, s, t, m, c, d, w, g, q : doc = Made(i, s, t, m, c, d, w, g, q)
  BY Zenon DEF IsRecord, Made
<1>2. ASSUME NEW a, NEW b, NEW e, NEW f
      PROVE  HasParts(Made(i, s, t, m, c, a, b, e, f), doc, a, b, e, f)
  <2>1. IsRecord(Made(i, s, t, m, c, a, b, e, f))
    BY MadeIsRecord, Zenon
  <2> QED  BY <1>1, <2>1 DEF HasParts, Made
<1>3. [doc EXCEPT !.direct = x, !.switches = y, !.gated = z, !.query = u]
        = Made(i, s, t, m, c, x, y, z, u)
  <2> DEFINE first == [doc EXCEPT !.direct = x]
             second == [first EXCEPT !.switches = y]
             third == [second EXCEPT !.gated = z]
  <2>1. [doc EXCEPT !.direct = x, !.switches = y, !.gated = z, !.query = u]
          = [third EXCEPT !.query = u]
    OBVIOUS
  <2>2. first = Made(i, s, t, m, c, x, w, g, q)
    BY <1>1 DEF Made
  <2> HIDE DEF first
  <2>3. second = Made(i, s, t, m, c, x, y, g, q)
    BY <2>2 DEF Made
  <2> HIDE DEF second
  <2>4. third = Made(i, s, t, m, c, x, y, z, q)
    BY <2>3 DEF Made
  <2> HIDE DEF third
  <2>5. [third EXCEPT !.query = u] = Made(i, s, t, m, c, x, y, z, u)
    BY <2>4 DEF Made
  <2> QED  BY <2>1, <2>5 DEF first, second, third
<1>4. [doc EXCEPT !.direct = x] = Made(i, s, t, m, c, x, w, g, q)
  BY <1>1 DEF Made
<1>5. [doc EXCEPT !.switches = x] = Made(i, s, t, m, c, d, x, g, q)
  BY <1>1 DEF Made
<1>6. [doc EXCEPT !.gated = x] = Made(i, s, t, m, c, d, w, x, q)
  BY <1>1 DEF Made
<1>7. [doc EXCEPT !.query = x] = Made(i, s, t, m, c, d, w, g, x)
  BY <1>1 DEF Made
<1>8. doc.direct = d /\ doc.switches = w /\ doc.gated = g /\ doc.query = q
  BY <1>1 DEF Made
<1>9. HasParts([doc EXCEPT !.direct = x, !.switches = y, !.gated = z, !.query = u], doc, x, y, z, u)
  <2>1. HasParts(Made(i, s, t, m, c, x, y, z, u), doc, x, y, z, u)
    BY <1>2
  <2> QED  BY <1>3, <2>1
<1>10. HasParts([doc EXCEPT !.direct = x], doc, x, doc.switches, doc.gated, doc.query)
  BY <1>2, <1>4, <1>8
<1>11. HasParts([doc EXCEPT !.switches = x], doc, doc.direct, x, doc.gated, doc.query)
  BY <1>2, <1>5, <1>8
<1>12. HasParts([doc EXCEPT !.gated = x], doc, doc.direct, doc.switches, x, doc.query)
  BY <1>2, <1>6, <1>8
<1>13. HasParts([doc EXCEPT !.query = x], doc, doc.direct, doc.switches, doc.gated, x)
  BY <1>2, <1>7, <1>8
<1> QED  BY <1>9, <1>10, <1>11, <1>12, <1>13

(* And with the same parts it is the same.                                 *)
LEMMA SameParts ==
  ASSUME NEW new, NEW doc, IsRecord(doc),
         HasParts(new, doc, doc.direct, doc.switches, doc.gated, doc.query)
  PROVE  new = doc
<1>1. PICK i, s, t, m, c, d, w, g, q : doc = Made(i, s, t, m, c, d, w, g, q)
  BY Zenon DEF IsRecord, Made
<1>2. PICK i2, s2, t2, m2, c2, d2, w2, g2, q2 : new = Made(i2, s2, t2, m2, c2, d2, w2, g2, q2)
  BY Zenon DEF IsRecord, Made, HasParts
<1> QED  BY <1>1, <1>2 DEF HasParts, Made

(* A count set leaves the gated channels.                                  *)
LEMMA CountsWith ==
  ASSUME NEW doc, IsRecord(doc), NEW f \in {"ssm", "transports", "modules", "containers"}, NEW n
  PROVE  /\ IsRecord([doc EXCEPT ![f] = n])
         /\ [doc EXCEPT ![f] = n].gated = doc.gated /\ [doc EXCEPT ![f] = n].status = doc.status
<1>1. PICK i, s, t, m, c, d, w, g, q : doc = Made(i, s, t, m, c, d, w, g, q)
  BY Zenon DEF IsRecord, Made
<1>2. \/ [doc EXCEPT ![f] = n] = Made(i, n, t, m, c, d, w, g, q)
      \/ [doc EXCEPT ![f] = n] = Made(i, s, n, m, c, d, w, g, q)
      \/ [doc EXCEPT ![f] = n] = Made(i, s, t, n, c, d, w, g, q)
      \/ [doc EXCEPT ![f] = n] = Made(i, s, t, m, n, d, w, g, q)
  BY <1>1 DEF Made
<1>3. IsRecord([doc EXCEPT ![f] = n])
  BY <1>2, MadeIsRecord
<1>4. [doc EXCEPT ![f] = n].gated = doc.gated /\ [doc EXCEPT ![f] = n].status = doc.status
  BY <1>1 DEF Made
<1> QED  BY <1>3, <1>4

(* What the installer does to each part of a definition.                   *)
LEMMA FocusedParts ==
  ASSUME NEW doc, IsDefinition(doc)
  PROVE  /\ IsDefinition(Focused(doc))
         /\ HasParts(Focused(doc), doc,
              [id \in (DOMAIN doc.direct \cap StandardParameterIds) \cup Visible(doc) \cup ParameterIds |->
                 IF id \in DOMAIN doc.direct \cap StandardParameterIds THEN doc.direct[id] ELSE 1],
              Restrict(doc.switches, DOMAIN doc.switches \cap StandardSwitchIds),
              [id \in Supported(doc) \ AlwaysVisible |-> [doc.gated[id] EXCEPT !.others = 0]],
              [id \in Units |-> IF id \in ParameterIds THEN Shipped[id] ELSE doc.query[id]])
<1> DEFINE standard == DOMAIN doc.direct \cap StandardParameterIds
           retained == Supported(doc) \ AlwaysVisible
           a == [id \in standard \cup Visible(doc) \cup ParameterIds |->
                   IF id \in standard THEN doc.direct[id] ELSE 1]
           b == Restrict(doc.switches, DOMAIN doc.switches \cap StandardSwitchIds)
           c == [id \in retained |-> [doc.gated[id] EXCEPT !.others = 0]]
           e == [id \in Units |-> IF id \in ParameterIds THEN Shipped[id] ELSE doc.query[id]]
<1>1. Focused(doc) = [doc EXCEPT !.direct = a, !.switches = b, !.gated = c, !.query = e]
  BY DEF Focused
<1>2. \A id \in DOMAIN c : IsEntry(c[id])
  <2>1. DOMAIN c = retained /\ retained \subseteq DOMAIN doc.gated
    BY DEF Supported
  <2>2. \A id \in retained : IsEntry([doc.gated[id] EXCEPT !.others = 0])
    BY <2>1, EntryWith DEF IsDefinition
  <2> QED  BY <2>1, <2>2
<1> HIDE DEF a, b, c, e
<1>3. HasParts(Focused(doc), doc, a, b, c, e)
  <2>1. IsRecord(doc)
    BY DEF IsDefinition
  <2>2. HasParts([doc EXCEPT !.direct = a, !.switches = b, !.gated = c, !.query = e], doc, a, b, c, e)
    BY <2>1, PartsWith, Zenon
  <2> QED  BY <1>1, <2>2
<1>4. IsDefinition(Focused(doc))
  BY <1>2, <1>3 DEF HasParts, IsDefinition
<1> QED  BY <1>3, <1>4 DEF a, b, c, e

(* It finds nothing left to do on its own work.                            *)
LEMMA FocusedAgain ==
  ASSUME NEW doc, NEW up, InstalledFrom(doc, up)
  PROVE  /\ Focused(doc) = doc
         /\ Supported(doc) = StockEcuParameterIds \ AlwaysVisible
         /\ Visible(doc) = AlwaysVisible
         /\ Entries(doc) = Entries(up)
<1> DEFINE kept == StockEcuParameterIds \ AlwaysVisible
<1>1. /\ IsDefinition(up) /\ doc = Focused(up) /\ Validated(doc) /\ IsDefinition(doc)
  BY FocusedParts DEF InstalledFrom
<1>2. /\ doc.direct = [id \in StandardParameterIds \cup AlwaysVisible \cup ParameterIds |-> 1]
      /\ DOMAIN doc.switches = StandardSwitchIds
      /\ DOMAIN doc.gated = kept
      /\ \A id \in kept : doc.gated[id].here = 1
  BY <1>1 DEF Validated, Once
<1>3. Supported(doc) = kept
  <2>1. \A id \in kept : doc.gated[id].here > 0
    BY <1>2
  <2> QED  BY <1>2, <2>1 DEF Supported
<1>4. Visible(doc) = AlwaysVisible
  BY <1>2 DEF Visible
<1>p. HasParts(Focused(doc), doc,
        [id \in (DOMAIN doc.direct \cap StandardParameterIds) \cup Visible(doc) \cup ParameterIds |->
           IF id \in DOMAIN doc.direct \cap StandardParameterIds THEN doc.direct[id] ELSE 1],
        Restrict(doc.switches, DOMAIN doc.switches \cap StandardSwitchIds),
        [id \in Supported(doc) \ AlwaysVisible |-> [doc.gated[id] EXCEPT !.others = 0]],
        [id \in Units |-> IF id \in ParameterIds THEN Shipped[id] ELSE doc.query[id]])
  BY <1>1, FocusedParts
<1>u. /\ doc.switches = Restrict(up.switches, DOMAIN up.switches \cap StandardSwitchIds)
      /\ doc.gated = [id \in Supported(up) \ AlwaysVisible |-> [up.gated[id] EXCEPT !.others = 0]]
      /\ doc.query = [id \in Units |-> IF id \in ParameterIds THEN Shipped[id] ELSE up.query[id]]
  BY <1>1, FocusedParts DEF HasParts
<1>5. doc.gated = [id \in Supported(up) \ AlwaysVisible |-> [up.gated[id] EXCEPT !.others = 0]]
  BY <1>u
<1>6. Supported(up) \ AlwaysVisible = kept
  <2>1. DOMAIN doc.gated = Supported(up) \ AlwaysVisible
    BY <1>5
  <2> QED  BY <1>2, <2>1
<1>7. \A id \in kept : doc.gated[id] = [up.gated[id] EXCEPT !.others = 0]
  BY <1>5, <1>6
<1>8. Entries(doc) = Entries(up)
  <2>1. Supported(doc) \ AlwaysVisible = kept
    BY <1>3
  <2>2. \A id \in kept : doc.gated[id].entries = up.gated[id].entries
    <3>1. \A id \in kept : IsEntry(up.gated[id])
      BY <1>1, <1>6 DEF IsDefinition, Supported
    <3> HIDE DEF kept
    <3> QED  BY <1>7, <3>1, EntryWith
  <2> HIDE DEF kept
  <2> QED  BY <1>6, <2>1, <2>2 DEF Entries
<1>9. Focused(doc) = doc
  <2>1. Focused(doc).direct = doc.direct
    <3>1. (DOMAIN doc.direct \cap StandardParameterIds) \cup Visible(doc) \cup ParameterIds = DOMAIN doc.direct
      BY <1>2, <1>4
    <3>2. \A id \in DOMAIN doc.direct : doc.direct[id] = 1
      BY <1>2
    <3>3. Focused(doc).direct = [id \in DOMAIN doc.direct |->
            IF id \in DOMAIN doc.direct \cap StandardParameterIds THEN doc.direct[id] ELSE 1]
      BY <1>p, <3>1 DEF HasParts
    <3>4. doc.direct = [id \in DOMAIN doc.direct |-> 1]
      BY <1>2
    <3> QED  BY <3>2, <3>3, <3>4
  <2>2. Focused(doc).switches = doc.switches
    <3>1. doc.switches = Restrict(up.switches, DOMAIN up.switches \cap StandardSwitchIds)
      BY <1>u
    <3>2. DOMAIN doc.switches \cap StandardSwitchIds = DOMAIN doc.switches
      BY <1>2
    <3>3. Focused(doc).switches = Restrict(doc.switches, DOMAIN doc.switches)
      BY <1>p, <3>2 DEF HasParts
    <3> QED  BY <3>1, <3>3 DEF Restrict
  <2>3. Focused(doc).gated = doc.gated
    <3>1. Focused(doc).gated = [id \in kept |-> [doc.gated[id] EXCEPT !.others = 0]]
      <4>1. Supported(doc) \ AlwaysVisible = kept
        BY <1>3
      <4>2. Focused(doc).gated
              = [id \in Supported(doc) \ AlwaysVisible |-> [doc.gated[id] EXCEPT !.others = 0]]
        BY <1>p DEF HasParts
      <4> QED  BY <4>1, <4>2
    <3>2. \A id \in kept : [doc.gated[id] EXCEPT !.others = 0] = doc.gated[id]
      BY <1>7
    <3>3. doc.gated = [id \in kept |-> doc.gated[id]]
      BY <1>5, <1>6
    <3> HIDE DEF kept
    <3> QED  BY <3>1, <3>2, <3>3
  <2>4. Focused(doc).query = doc.query
    <3>1. Focused(doc).query
            = [id \in Units |-> IF id \in ParameterIds THEN Shipped[id] ELSE doc.query[id]]
      BY <1>p DEF HasParts
    <3>2. \A id \in Units : id \in ParameterIds => doc.query[id] = Shipped[id]
      BY <1>u
    <3>3. doc.query = [id \in Units |-> doc.query[id]]
      BY <1>u
    <3> QED  BY <3>1, <3>2, <3>3
  <2>5. /\ IsRecord(doc)
        /\ HasParts(Focused(doc), doc, doc.direct, doc.switches, doc.gated, doc.query)
    BY <1>1, <1>p, <2>1, <2>2, <2>3, <2>4 DEF HasParts, IsDefinition
  <2> QED  BY <2>5, SameParts
<1> QED  BY <1>3, <1>4, <1>8, <1>9

(* So its own work passes its checks and comes out unchanged.              *)
LEMMA BuiltAgain ==
  ASSUME NEW doc, NEW up, InstalledFrom(doc, up)
  PROVE  BuildDefinition(doc) = doc
<1>1. /\ Focused(doc) = doc
      /\ Supported(doc) = StockEcuParameterIds \ AlwaysVisible
      /\ Visible(doc) = AlwaysVisible
      /\ Entries(doc) = Entries(up)
  BY FocusedAgain
<1>2. /\ doc.ssm = 1 /\ doc.transports = 1 /\ doc.modules = 1 /\ doc.containers = 1
      /\ P({24, 30}) \subseteq DOMAIN doc.direct
      /\ \A id \in Supported(doc) : doc.gated[id].here = 1 /\ id \notin AlwaysVisible
      /\ Supported(doc) # {}
  BY <1>1, Catalogue DEF InstalledFrom, Validated, Once
<1>3. Total(Entries(doc)) + Cardinality(Visible(doc)) = Cardinality(StockEcuParameterIds)
  BY <1>1 DEF InstalledFrom
<1>4. Validated(Focused(doc))
  BY <1>1 DEF InstalledFrom
<1> QED  BY <1>1, <1>2, <1>3, <1>4 DEF BuildDefinition

(* What it does not refuse is its work.                                    *)
LEMMA BuiltFrom ==
  ASSUME NEW up, IsDefinition(up), BuildDefinition(up) # RefusedFile
  PROVE  InstalledFrom(BuildDefinition(up), up)
<1>1. BuildDefinition(up) = Focused(up)
  BY DEF BuildDefinition
<1>2. Validated(Focused(up)) /\ Visible(up) = AlwaysVisible
      /\ Total(Entries(up)) + Cardinality(Visible(up)) = Cardinality(StockEcuParameterIds)
  BY DEF BuildDefinition
<1> QED  BY <1>1, <1>2 DEF InstalledFrom

(* A damaged definition is still one.                                      *)
LEMMA DamagedIsDefinition ==
  ASSUME NEW doc, IsDefinition(doc), NEW d \in Damaged(doc)
  PROVE  IsDefinition(d)
<1>1. IsRecord(doc) /\ doc.status = "ok" /\ \A id \in DOMAIN doc.gated : IsEntry(doc.gated[id])
  BY DEF IsDefinition
<1>2. ASSUME NEW a
      PROVE  /\ HasParts([doc EXCEPT !.direct = a], doc, a, doc.switches, doc.gated, doc.query)
             /\ HasParts([doc EXCEPT !.switches = a], doc, doc.direct, a, doc.gated, doc.query)
             /\ HasParts([doc EXCEPT !.gated = a], doc, doc.direct, doc.switches, a, doc.query)
             /\ HasParts([doc EXCEPT !.query = a], doc, doc.direct, doc.switches, doc.gated, a)
  BY <1>1, PartsWith, Zenon
<1>3. ASSUME NEW a, \/ d = [doc EXCEPT !.direct = a] \/ d = [doc EXCEPT !.switches = a]
                    \/ d = [doc EXCEPT !.query = a]
      PROVE  IsDefinition(d)
  <2>1. \/ HasParts(d, doc, a, doc.switches, doc.gated, doc.query)
        \/ HasParts(d, doc, doc.direct, a, doc.gated, doc.query)
        \/ HasParts(d, doc, doc.direct, doc.switches, doc.gated, a)
    BY <1>2, <1>3, Zenon
  <2>2. IsRecord(d) /\ d.gated = doc.gated /\ d.status = doc.status
    BY <2>1 DEF HasParts
  <2> QED  BY <1>1, <2>2 DEF IsDefinition
<1>4. ASSUME NEW c, d = [doc EXCEPT !.gated = c], \A id \in DOMAIN c : IsEntry(c[id])
      PROVE  IsDefinition(d)
  <2>1. IsRecord(d) /\ d.gated = c /\ d.status = doc.status
    BY <1>2, <1>4 DEF HasParts
  <2> QED  BY <1>1, <1>4, <2>1 DEF IsDefinition
<1>5. CASE d \in DamagedPart(doc)
  <2>1. PICK f \in {"ssm", "transports", "modules", "containers"}, n \in {0, 2} :
          d = [doc EXCEPT ![f] = n]
    BY <1>5 DEF DamagedPart
  <2> QED  BY <2>1, CountsWith, Zenon DEF IsDefinition
<1>6. CASE d \in DamagedList(doc)
  <2>1. \E a : d = [doc EXCEPT !.direct = a] \/ d = [doc EXCEPT !.switches = a]
    BY <1>6, Zenon DEF DamagedList
  <2> QED  BY <1>3, <2>1
<1>7. CASE d \in DamagedGated(doc)
  <2> DEFINE extra == Gated(E({500}))
             more == [x \in DOMAIN doc.gated \cup DOMAIN extra |->
                        IF x \in DOMAIN doc.gated THEN doc.gated[x] ELSE extra[x]]
  <2>1. \/ \E id : d = [doc EXCEPT !.gated = Without(doc.gated, id)]
        \/ d = [doc EXCEPT !.gated = more]
    BY <1>7, Zenon DEF DamagedGated
  <2>2. \A k \in DOMAIN more : IsEntry(more[k])
    <3>1. \A k \in DOMAIN extra : IsEntry(extra[k])
      BY DEF Gated, IsEntry
    <3> HIDE DEF extra
    <3> QED  BY <1>1, <3>1
  <2>3. \A id : \A k \in DOMAIN Without(doc.gated, id) : IsEntry(Without(doc.gated, id)[k])
    BY <1>1 DEF Without, Restrict
  <2>4. \E c : d = [doc EXCEPT !.gated = c] /\ \A k \in DOMAIN c : IsEntry(c[k])
    <3> HIDE DEF more
    <3> QED  BY <2>1, <2>2, <2>3, Zenon
  <2> QED  BY <1>4, <2>4, Zenon
<1>8. ASSUME NEW id \in DOMAIN doc.gated, d \in DamagedEntry(doc, id)
      PROVE  IsDefinition(d)
  <2>1. \E n : \/ d = [doc EXCEPT !.gated[id].here = n]
               \/ d = [doc EXCEPT !.gated[id].entries = n]
    BY <1>8, Zenon DEF DamagedEntry
  <2>2. PICK n : \/ d = [doc EXCEPT !.gated = [doc.gated EXCEPT ![id] = [doc.gated[id] EXCEPT !.here = n]]]
                 \/ d = [doc EXCEPT !.gated = [doc.gated EXCEPT ![id] = [doc.gated[id] EXCEPT !.entries = n]]]
    BY <2>1
  <2>3. /\ IsEntry([doc.gated[id] EXCEPT !.here = n])
        /\ IsEntry([doc.gated[id] EXCEPT !.entries = n])
    BY <1>1, <1>8, EntryWith, Zenon
  <2>4. \A e : IsEntry(e) => \A k \in DOMAIN [doc.gated EXCEPT ![id] = e] :
                               IsEntry([doc.gated EXCEPT ![id] = e][k])
    BY <1>1, <1>8
  <2>5. \E e : IsEntry(e) /\ d = [doc EXCEPT !.gated = [doc.gated EXCEPT ![id] = e]]
    BY <2>2, <2>3, Zenon
  <2> QED  BY <1>4, <2>4, <2>5, Zenon
<1>9. CASE d \in DamagedQuery(doc)
  <2>1. \/ \E id \in E({31, 51}) \cup P({8}), n \in {0, 2} : d = [doc EXCEPT !.query[id].addresses = n]
        \/ \E id \in E({31, 51}) \cup P({8}), n \in {0, 1} : d = [doc EXCEPT !.query[id].length = n]
    BY <1>9 DEF DamagedQuery
  <2>2. \E q : d = [doc EXCEPT !.query = q]
    BY <2>1, Zenon
  <2> QED  BY <1>3, <2>2
<1>10. \/ d \in DamagedPart(doc) \/ d \in DamagedList(doc) \/ d \in DamagedGated(doc)
       \/ d \in DamagedQuery(doc) \/ \E id \in DOMAIN doc.gated : d \in DamagedEntry(doc, id)
  BY Zenon DEF Damaged
<1> QED  BY <1>5, <1>6, <1>7, <1>8, <1>9, <1>10

(* Every step of the logger tools keeps the invariant.                     *)
LEMMA LoggerStep == LoggerInv /\ [LoggerNext]_loggerVars => LoggerInv'
<1> SUFFICES ASSUME LoggerInv, [LoggerNext]_loggerVars PROVE LoggerInv'
  OBVIOUS
<1>1. CASE DamageUpstream
  BY <1>1, DamagedIsDefinition DEF DamageUpstream, LoggerInv, RegenerationStable
<1>2. CASE Install
  <2>1. /\ UNCHANGED upstream /\ again' = NoFile
        /\ \/ installed' = installed
           \/ BuildDefinition(upstream) # RefusedFile /\ installed' = BuildDefinition(upstream)
    BY <1>2 DEF Install
  <2>2. installed' = NoFile \/ \E up : InstalledFrom(installed', up)
    BY <2>1, BuiltFrom DEF LoggerInv
  <2> QED  BY <2>1, <2>2 DEF LoggerInv, RegenerationStable
<1>3. CASE Reinstall
  <2>1. BuildDefinition(installed) = installed
    BY <1>3, BuiltAgain DEF Reinstall, LoggerInv
  <2> QED  BY <1>3, <2>1 DEF Reinstall, LoggerInv, RegenerationStable
<1>4. CASE MakeProfile
  BY <1>4 DEF MakeProfile, LoggerInv, RegenerationStable
<1>5. CASE UNCHANGED loggerVars
  BY <1>5 DEF loggerVars, LoggerInv, RegenerationStable
<1> QED  BY <1>1, <1>2, <1>3, <1>4, <1>5 DEF LoggerNext

(* Whatever was installed, installing it again gives the same file         *)
(* (build_definition, validate_definition).                                *)
THEOREM LoggerInvariance == LoggerSpec => []LoggerInv
<1>1. LoggerInit => LoggerInv
  <2>1. IsRecord(Upstream)
    BY Zenon DEF Upstream, IsRecord
  <2>2. \A id \in DOMAIN Upstream.gated : IsEntry(Upstream.gated[id])
    <3>1. Upstream.gated = Gated(StockEcuParameterIds \cup E({200}))
      BY DEF Upstream
    <3>2. \A ids : \A id \in DOMAIN Gated(ids) : IsEntry(Gated(ids)[id])
      BY DEF Gated, IsEntry
    <3> QED  BY <3>1, <3>2
  <2>3. Upstream.status = "ok"
    BY DEF Upstream
  <2> QED  BY <2>1, <2>2, <2>3 DEF LoggerInit, LoggerInv, IsDefinition, RegenerationStable
<1> QED  BY <1>1, LoggerStep, PTL DEF LoggerSpec

(* The same holds while the other tools are at work.                       *)
LEMMA LoggerAmongTools == Spec => LoggerSpec
<1>1. Init => LoggerInit
  BY DEF Init
<1>2. [Next]_<<tool, built, asmVars, defVars, loggerVars, readerVars>> => [LoggerNext]_loggerVars
  BY DEF Next
<1> QED  BY <1>1, <1>2, PTL DEF Spec, LoggerSpec

(* Installing the installed definition again is a fixed point: it is       *)
(* accepted and changes nothing, whatever upstream definition it was made  *)
(* from (build_definition, validate_definition).                           *)
THEOREM InstallingSettles == Spec => []RegenerationStable
<1>1. LoggerInv => RegenerationStable
  BY DEF LoggerInv
<1> QED  BY <1>1, LoggerInvariance, LoggerAmongTools, PTL

(* The channels of an installed definition, in two lists.                  *)
DirectIds == StandardParameterIds \cup AlwaysVisible \cup ParameterIds
GatedIds == StockEcuParameterIds \ AlwaysVisible

(* No channel is in both lists.                                            *)
LEMMA TwoLists == DirectIds \cap GatedIds = {}
BY DEF DirectIds, GatedIds, StandardParameterIds, AlwaysVisible, ParameterIds, StockEcuParameterIds, P, E

(* The nine selections are of channels that have a unit and are installed. *)
LEMMA SelectionsListed ==
  ASSUME NEW selected \in ProfileSelections
  PROVE  selected \subseteq Units /\ selected \subseteq DirectIds \cup GatedIds
<1> DEFINE offered == Units \cap (DirectIds \cup GatedIds)
<1> USE DEF Units, DirectIds, GatedIds, StandardParameterIds, AlwaysVisible, ParameterIds,
            StockEcuParameterIds, P, E
<1>1. IdleParameters \subseteq offered
  BY DEF IdleParameters
<1>2. AfterstartParameters \subseteq offered
  BY DEF AfterstartParameters
<1>3. RecoveryParameters \subseteq offered
  BY DEF RecoveryParameters, IdleParameters
<1>4. IdleAirParameters \subseteq offered
  BY DEF IdleAirParameters
<1>5. MapSourceParameters \subseteq offered
  BY DEF MapSourceParameters
<1>6. RoadParameters \subseteq offered
  BY DEF RoadParameters
<1>7. AvlsCutParameters \subseteq offered
  BY DEF AvlsCutParameters
<1>8. AvcsParameters \subseteq offered
  BY DEF AvcsParameters
<1>9. CutParameters \subseteq offered
  BY DEF CutParameters
<1> HIDE DEF Units, DirectIds, GatedIds
<1> QED  BY <1>1, <1>2, <1>3, <1>4, <1>5, <1>6, <1>7, <1>8, <1>9 DEF ProfileSelections

(* What the installer accepts as its own work has each channel once.       *)
LEMMA InstalledIds ==
  ASSUME NEW doc, Validated(doc)
  PROVE  /\ DOMAIN doc.direct = DirectIds /\ \A id \in DirectIds : doc.direct[id] = 1
         /\ DOMAIN doc.gated = GatedIds /\ \A id \in GatedIds : doc.gated[id].entries = 1
BY DEF Validated, Once, DirectIds, GatedIds

(* A request for as many addresses as a profile may have fits the receive  *)
(* buffer but for its checksum.                                            *)
LEMMA FramesFit ==
  ASSUME NEW n \in 1..MaxAddresses
  PROVE  Frame(n) - 1 <= MaxReceiveIndex
BY DEF MaxAddresses, MaxReceiveIndex, Frame

(* A selection read as the shipped definition reads it is not refused.      *)
LEMMA ShippedAccepted ==
  ASSUME NEW doc, IsDefinition(doc), Validated(doc),
         NEW selected \in ProfileSelections, \A id \in selected : doc.query[id] = Shipped[id]
  PROVE  ~Refuses(doc, selected)
<1>1. selected \subseteq Units /\ selected \subseteq DirectIds \cup GatedIds
  BY SelectionsListed
<1>2. DOMAIN doc.direct = DirectIds /\ DOMAIN doc.gated = GatedIds /\ doc.status = "ok"
  BY InstalledIds DEF IsDefinition
<1>3. AddressCount(doc, selected) = AddressCount(Upstream, selected)
  <2>1. \A id \in selected : doc.query[id] = Upstream.query[id]
    BY DEF Upstream
  <2>2. [id \in selected |-> doc.query[id].addresses * doc.query[id].length]
          = [id \in selected |-> Upstream.query[id].addresses * Upstream.query[id].length]
    BY <2>1
  <2> QED  BY <2>2 DEF AddressCount
<1>4. AddressCount(doc, selected) \in 1..MaxAddresses
  BY <1>3, SelectionsCounted
<1>5. \A id \in selected : doc.query[id].addresses # 0 /\ doc.query[id].length # 0
  <2>1. \A id : AddressBytes(id) # 0
    BY DEF AddressBytes
  <2>2. \A id \in selected : Shipped[id].addresses = 1 /\ Shipped[id].length = AddressBytes(id)
    BY <1>1 DEF Shipped
  <2> QED  BY <2>1, <2>2
<1> QED  BY <1>1, <1>2, <1>4, <1>5 DEF Refuses, Unreadable

(* What is not refused fits, and is of channels listed once.               *)
LEMMA AcceptedFits ==
  ASSUME NEW doc, Validated(doc), NEW selected, ~Refuses(doc, selected)
  PROVE  ProfileFits(doc, [status |-> "ok", selected |-> selected, shown |-> Units])
<1>1. /\ DOMAIN doc.direct = DirectIds /\ \A id \in DirectIds : doc.direct[id] = 1
      /\ DOMAIN doc.gated = GatedIds /\ \A id \in GatedIds : doc.gated[id].entries = 1
  BY InstalledIds
<1>2. /\ AddressCount(doc, selected) \in 1..MaxAddresses
      /\ selected \subseteq Units /\ selected \subseteq DirectIds \cup GatedIds
      /\ \A id \in selected : doc.query[id].addresses # 0
  BY <1>1 DEF Refuses, Unreadable
<1>3. Frame(AddressCount(doc, selected)) - 1 <= MaxReceiveIndex
  BY <1>2, FramesFit
<1> QED  BY <1>1, <1>2, <1>3, TwoLists DEF ProfileFits

(* A profile is made only from an installed definition, by its rules.      *)
LEMMA ProfileStep ==
  ASSUME LoggerInv, [LoggerNext]_loggerVars, profile' # profile
  PROVE  ProfileFits(installed, profile') /\ RefusedForCause(installed, profile')
<1>1. MakeProfile
  BY DEF LoggerNext, loggerVars, DamageUpstream, Install, Reinstall
<1>2. PICK selected : profile' = ProfileOf(installed, selected) /\ installed # NoFile
  BY <1>1 DEF MakeProfile
<1>3. Validated(installed) /\ IsDefinition(installed)
  BY <1>2, FocusedParts DEF LoggerInv, InstalledFrom
<1>4. CASE Refuses(installed, selected)
  <2>1. profile' = [status |-> "refused", selected |-> selected]
    BY <1>2, <1>4 DEF ProfileOf
  <2>2. ProfileFits(installed, profile')
    BY <2>1 DEF ProfileFits
  <2>3. RefusedForCause(installed, profile')
    BY <1>3, <1>4, <2>1, ShippedAccepted DEF RefusedForCause
  <2> QED  BY <2>2, <2>3
<1>5. CASE ~Refuses(installed, selected)
  <2>1. profile' = [status |-> "ok", selected |-> selected, shown |-> Units]
    BY <1>2, <1>5 DEF ProfileOf
  <2>2. ProfileFits(installed, profile')
    BY <1>3, <1>5, <2>1, AcceptedFits
  <2> QED  BY <2>1, <2>2 DEF RefusedForCause
<1> QED  BY <1>4, <1>5

(* Whatever definition is installed and whatever further channels the      *)
(* author asks for, a profile that is built fits one request by the        *)
(* addresses that definition has, and names only channels that are in it   *)
(* exactly once; and one of the nine selections is refused only for a      *)
(* channel the definition does not read as the shipped one does            *)
(* (profile_bytes, address_count, request_sizes).                          *)
THEOREM ProfilesUsable == Spec => ProfileUsable
<1>1. LoggerInv /\ [LoggerNext]_loggerVars
        => [profile' # profile => /\ ProfileFits(installed, profile')
                                  /\ RefusedForCause(installed, profile')]_loggerVars
  BY ProfileStep
<1> QED  BY <1>1, LoggerInvariance, LoggerAmongTools, PTL DEF LoggerSpec, ProfileUsable
-----------------------------------------------------------------------------
(* The diagnostics reader. *)

Selecting == {"open", "serial"}
Before == {"init", "list", "inspect"}
WantedBelow(n) == {i \in Candidates : Wanted(devices[i].serial) /\ i < n}

ReaderTypeOK ==
  /\ \E n \in Nat : devices \in [1..n -> Device]
  /\ watch \in Watches /\ shots \in Nat /\ index \in Nat /\ matches \in 0..2
  /\ handle \in Nat /\ held \in Nat /\ listed \in BOOLEAN
  /\ opened \subseteq DOMAIN devices /\ closed \subseteq opened
  /\ context \in {"none", "live", "exited"}
  /\ step \in Before \cup Selecting \cup {"free", "read", "wait", "close", "end"}

(* What the library has given is in hand or given back, or a stray         *)
(* interrupt left it.                                                      *)
Books ==
  /\ handle # 0 <=> step = "serial"
  /\ handle # 0 => handle \in opened \ closed
  /\ held # 0 /\ step # "end" /\ "keep" \notin strays => held \in opened \ closed
  /\ held # 0 => held \in opened
  /\ strays \cap {"open", "drop", "with", "close"} = {} =>
       \A i \in opened \ closed : i = handle \/ i = held
  /\ step = "end" /\ strays \cap {"with", "close"} = {} => held = 0
  /\ step = "end" /\ context = "live" => strays \cap {"init", "with", "close"} # {}
  /\ step # "end" => (held # 0 <=> matches # 0)
  /\ step \in {"read", "wait"} => matches = 1
  /\ listed /\ step \notin {"inspect", "free"} \cup Selecting => strays \cap {"list", "free"} # {}
  /\ step \notin {"init", "end"} => context = "live"
  /\ step = "init" => context = "none"
  /\ step \in Before \cup Selecting \cup {"read", "wait"} => strays = {}
  /\ step \in Before => opened = {} /\ matches = 0

(* How far the selection has come. *)
Selected ==
  /\ step \in Selecting =>
       /\ index # 0 /\ index \in DOMAIN devices => index \in Candidates
       /\ index # 0 /\ (index \notin DOMAIN devices => \A i \in DOMAIN devices : i < index)
       /\ matches # 2 /\ WantedBelow(index) = {i \in {held} : i # 0}
       /\ \A i \in opened : i < index \/ (step = "serial" /\ i = index)
  /\ step = "serial" => index \in DOMAIN devices /\ handle = index
  /\ step \in {"read", "wait"} => {i \in Candidates : Wanted(devices[i].serial)} = {held}

Paced == shots <= watch /\ (step \notin {"close", "end"} => shots < watch)

ReaderInv == ReaderTypeOK /\ Books /\ Selected /\ Paced
-----------------------------------------------------------------------------
(* The next candidate is further on in the list, or past it. *)
LEMMA NextCandidate ==
  ASSUME ReaderTypeOK, NEW i \in Nat
  PROVE  /\ After(i) \in Nat
         /\ i <= Len(devices) => After(i) > i
         /\ After(i) \in DOMAIN devices => After(i) \in Candidates /\ After(i) > i
         /\ After(i) \notin DOMAIN devices => \A k \in DOMAIN devices : k < After(i)
         /\ \A k \in Candidates : k < After(i) => k <= i
         /\ \A k \in Candidates : k > i => ~(k < After(i))
<1> DEFINE later == {k \in Candidates : k > i}
<1>1. PICK n \in Nat : devices \in [1..n -> Device]
  BY DEF ReaderTypeOK
<1>2. DOMAIN devices = 1..n /\ Len(devices) = n
  BY <1>1
<1>3. Candidates \subseteq 1..n /\ later \subseteq Nat
  BY <1>2 DEF Candidates
<1>4. CASE later = {}
  <2>1. After(i) = n + 1
    BY <1>2, <1>4 DEF After
  <2> QED  BY <1>2, <1>3, <1>4, <2>1
<1>5. CASE later # {}
  <2>1. \E j \in Candidates : j > i /\ \A k \in Candidates : k > i => j <= k
    BY <1>3, <1>5, LeastMember
  <2>2. After(i) \in Candidates /\ After(i) > i /\ \A k \in Candidates : k > i => After(i) <= k
    BY <2>1 DEF After
  <2> QED  BY <1>2, <1>3, <2>2
<1> QED  BY <1>4, <1>5

(* The invariant holds initially, and one step per action. *)
LEMMA InitReaderInv == ReaderInit => ReaderInv
<1> SUFFICES ASSUME ReaderInit PROVE ReaderInv
  OBVIOUS
<1>1. PICK n \in 0..MaxDevices : devices \in [1..n -> Device]
  BY DEF ReaderInit
<1>2. n \in Nat
  BY ReaderAssumption
<1>3. ReaderTypeOK
  <2>1. \E m \in Nat : devices \in [1..m -> Device]
    BY <1>1, <1>2
  <2>2. opened = {} /\ closed = {}
    BY DEF ReaderInit
  <2>3. watch \in Watches /\ step = "init" /\ index = 0 /\ matches = 0 /\ handle = 0
        /\ held = 0 /\ context = "none" /\ listed = FALSE /\ shots = 0
    BY DEF ReaderInit
  <2>4. opened \subseteq DOMAIN devices /\ closed \subseteq opened
    BY <2>2
  <2>5. index \in Nat /\ handle \in Nat /\ held \in Nat /\ shots \in Nat /\ matches \in 0..2
    BY <2>3
  <2> QED  BY <2>1, <2>3, <2>4, <2>5, Zenon DEF ReaderTypeOK, Before
<1>4. Books /\ Selected
  BY DEF ReaderInit, Books, Selected, Before, Selecting, WantedBelow
<1>5. Paced
  BY ReaderAssumption DEF ReaderInit, Paced
<1> QED  BY <1>3, <1>4, <1>5 DEF ReaderInv

(* The candidates below the next one are those up to this one.             *)
LEMMA NextSelected ==
  ASSUME ReaderTypeOK, NEW i \in Nat
  PROVE  /\ After(i) \in Nat \ {0}
         /\ WantedBelow(After(i))
              = WantedBelow(i) \cup {k \in Candidates : k = i /\ Wanted(devices[k].serial)}
<1>0. After(i) \in Nat /\ (i <= Len(devices) => After(i) > i)
  BY NextCandidate
<1>1. PICK n \in Nat : devices \in [1..n -> Device]
  BY DEF ReaderTypeOK
<1>2. Candidates \subseteq 1..n /\ Len(devices) = n /\ DOMAIN devices = 1..n
  BY <1>1 DEF Candidates
<1>3. \A k \in Candidates : k < After(i) <=> k <= i
  <2>1. \A k \in Candidates : k \in Nat /\ k <= n
    BY <1>2
  <2>2. \A k \in Candidates : k < After(i) => k <= i
    BY NextCandidate
  <2>3. CASE i <= n
    BY <1>0, <1>2, <2>1, <2>2, <2>3
  <2>4. CASE ~(i <= n)
    <3>1. After(i) = n + 1
      <4>1. ~\E j \in Candidates : j > i
        BY <2>1, <2>4
      <4> QED  BY <1>2, <4>1 DEF After
    <3> QED  BY <2>1, <2>4, <3>1
  <2> QED  BY <2>3, <2>4
<1>4. After(i) # 0
  <2>1. CASE After(i) \in DOMAIN devices
    BY <1>2, <2>1
  <2>2. CASE After(i) \notin DOMAIN devices
    <3>1. i <= n => After(i) > i
      BY <1>0, <1>2
    <3>2. i > n => After(i) = n + 1
      <4>1. i > n => ~\E j \in Candidates : j > i
        BY <1>2
      <4> QED  BY <1>2, <4>1 DEF After
    <3> QED  BY <1>0, <3>1, <3>2
  <2> QED  BY <2>1, <2>2
<1>5. \A k \in Candidates : k <= i <=> k < i \/ k = i
  BY <1>2
<1>6. WantedBelow(After(i)) = {k \in Candidates : Wanted(devices[k].serial) /\ k <= i}
  BY <1>3 DEF WantedBelow
<1> QED  BY <1>0, <1>4, <1>5, <1>6 DEF WantedBelow

LEMMA ReaderStep == ReaderInv /\ [ReaderNext]_readerVars => ReaderInv'
<1> SUFFICES ASSUME ReaderInv, [ReaderNext]_readerVars PROVE ReaderInv'
  OBVIOUS
<1> USE DEF Before, Selecting
<1>0. PICK n \in Nat : devices \in [1..n -> Device]
  BY DEF ReaderInv, ReaderTypeOK
<1>d. DOMAIN devices = 1..n /\ Candidates \subseteq 1..n
  BY <1>0 DEF Candidates
<1>s. ASSUME UNCHANGED devices, UNCHANGED requested
      PROVE  /\ Candidates' = Candidates
             /\ \A i : WantedBelow(i)' = WantedBelow(i)
             /\ {i \in Candidates : Wanted(devices[i].serial)}'
                  = {i \in Candidates : Wanted(devices[i].serial)}
  BY <1>s DEF Candidates, WantedBelow, Wanted
<1>1. CASE OpenLibrary
  <2>1. ReaderTypeOK'
    BY <1>1 DEF OpenLibrary, Call, ReaderInv, ReaderTypeOK
  <2>2. Books'
    BY <1>1 DEF OpenLibrary, Call, ReaderInv, ReaderTypeOK, Books
  <2>3. Selected' /\ Paced'
    BY <1>1 DEF OpenLibrary, Call, ReaderInv, Selected, Paced
  <2> QED  BY <2>1, <2>2, <2>3 DEF ReaderInv
<1>2. CASE GetDeviceList
  <2>1. ReaderTypeOK'
    BY <1>2 DEF GetDeviceList, Call, ReaderInv, ReaderTypeOK
  <2>2. Books'
    BY <1>2 DEF GetDeviceList, Call, ReaderInv, ReaderTypeOK, Books
  <2>3. Selected' /\ Paced'
    BY <1>2 DEF GetDeviceList, Call, ReaderInv, Selected, Paced
  <2> QED  BY <2>1, <2>2, <2>3 DEF ReaderInv
<1>3. CASE Inspect
  <2>1. /\ step = "inspect" /\ index' = After(0) /\ step' \in {"open", "free"}
        /\ UNCHANGED <<Call, matches, handle, held, Library, shots, last, strays>>
    BY <1>3 DEF Inspect
  <2>2. /\ After(0) \in Nat \ {0} /\ WantedBelow(After(0)) = {}
        /\ After(0) \in DOMAIN devices => After(0) \in Candidates
        /\ After(0) \notin DOMAIN devices => \A i \in DOMAIN devices : i < After(0)
    <3>0. \A i \in Candidates : i \in Nat /\ ~(i < 0) /\ i # 0
      BY <1>d
    <3>1. 0 \in Nat /\ WantedBelow(0) = {} /\ 0 \notin Candidates
      BY <3>0 DEF WantedBelow
    <3> QED  BY <3>1, NextSelected, NextCandidate DEF ReaderInv
  <2>3. ReaderTypeOK'
    BY <2>1, <2>2 DEF Call, Library, ReaderInv, ReaderTypeOK
  <2>4. Books' /\ Paced'
    BY <2>1 DEF Call, Library, ReaderInv, Books, Paced
  <2>5. Selected'
    BY <2>1, <2>2, <1>s DEF Call, Library, ReaderInv, Books, Selected
  <2> QED  BY <2>3, <2>4, <2>5 DEF ReaderInv
<1>4. CASE OpenDevice
  <2>1. CASE step' = "serial"
    <3>1. /\ step = "open" /\ index \in DOMAIN devices /\ handle' = index
          /\ opened' = opened \cup {index}
          /\ UNCHANGED <<Call, index, matches, held, context, listed, closed, shots, last, strays>>
      BY <1>4, <2>1 DEF OpenDevice
    <3>2. index \in 1..n /\ index \notin opened /\ index \notin closed
      BY <1>d, <3>1 DEF ReaderInv, ReaderTypeOK, Selected
    <3>3. ReaderTypeOK'
      BY <2>1, <3>1, <3>2 DEF Call, ReaderInv, ReaderTypeOK
    <3>b. /\ strays = {} /\ handle = 0 /\ context = "live" /\ (held # 0 <=> matches # 0)
          /\ held # 0 => held \in opened \ closed
          /\ \A i \in opened \ closed : i = handle \/ i = held
      BY <3>1 DEF ReaderInv, Books
    <3>z. 0 \notin opened
      BY <1>d DEF ReaderInv, ReaderTypeOK
    <3>c. opened' \ closed' = (opened \ closed) \cup {index} /\ index # 0
      BY <3>1, <3>2
    <3>e. /\ handle' \in opened' \ closed'
          /\ held' # 0 => held' \in opened' \ closed' /\ held' \in opened'
          /\ \A i \in opened' \ closed' : i = handle' \/ i = held'
      BY <3>1, <3>b, <3>c, <3>z
    <3>4. Books'
      BY <2>1, <3>1, <3>b, <3>c, <3>e DEF Call, Books
    <3>5. Selected'
      BY <2>1, <3>1, <3>2, <1>s DEF Call, ReaderInv, Selected
    <3>6. Paced'
      BY <2>1, <3>1 DEF Call, ReaderInv, Paced
    <3> QED  BY <3>3, <3>4, <3>5, <3>6 DEF ReaderInv
  <2>2. CASE step' # "serial"
    <3>1. /\ step = "open" /\ step' = "free" /\ index \in DOMAIN devices /\ opened \subseteq opened'
          /\ \/ opened' = opened \cup {index} /\ strays' = strays \cup {"open"}
             \/ UNCHANGED <<opened, strays>>
          /\ UNCHANGED <<Call, index, handle, matches, held, context, listed, closed, shots, last>>
      BY <1>4, <2>2 DEF OpenDevice
    <3>2. ReaderTypeOK'
      BY <3>1 DEF Call, ReaderInv, ReaderTypeOK
    <3>3. Books'
      BY <3>1 DEF Call, ReaderInv, Books
    <3>4. Selected' /\ Paced'
      BY <3>1 DEF Call, ReaderInv, Selected, Paced
    <3> QED  BY <3>2, <3>3, <3>4 DEF ReaderInv
  <2> QED  BY <2>1, <2>2
<1>5. CASE ReadSerial
  <2>0. /\ step = "serial" /\ handle' = 0 /\ index \in 1..n /\ handle = index
        /\ index \in Candidates /\ index \in opened /\ index \notin closed /\ strays = {}
        /\ UNCHANGED <<Call, context, listed, opened, shots, last>>
    <3>1. step = "serial" /\ handle = index /\ index \in 1..n /\ index \in Candidates
      BY <1>5, <1>d DEF ReadSerial, ReaderInv, Selected
    <3> QED  BY <1>5, <3>1 DEF ReadSerial, ReaderInv, Books
  <2>1. /\ After(index) \in Nat \ {0}
        /\ WantedBelow(After(index)) = WantedBelow(index)
              \cup {k \in Candidates : k = index /\ Wanted(devices[k].serial)}
        /\ After(index) \in DOMAIN devices => After(index) \in Candidates
        /\ After(index) \notin DOMAIN devices => \A i \in DOMAIN devices : i < After(index)
        /\ After(index) > index
    <3>1. index <= Len(devices)
      BY <1>0, <2>0
    <3> QED  BY <2>0, <3>1, NextSelected, NextCandidate DEF ReaderInv, ReaderTypeOK
  <2>h. held # handle
    <3>1. held # 0 => held \in WantedBelow(index)
      BY <2>0 DEF ReaderInv, Selected
    <3>2. held # 0 => held < index
      BY <3>1 DEF WantedBelow
    <3> QED  BY <2>0, <3>2
  <2>o. \A i \in opened : i < After(index)
    <3>1. \A i \in opened : i \in Nat /\ i <= index
      BY <1>d, <2>0 DEF ReaderInv, ReaderTypeOK, Selected
    <3> QED  BY <2>0, <2>1, <3>1
  <2>p. Paced'
    BY <1>5, <2>0 DEF ReadSerial, Call, ReaderInv, Paced
  <2>2. CASE /\ Wanted(devices[index].serial) /\ matches = 0
             /\ matches' = 1 /\ held' = handle
             /\ index' = After(index) /\ step' \in {"open", "free"}
             /\ UNCHANGED <<closed, strays>>
    <3>1. ReaderTypeOK'
      BY <2>0, <2>1, <2>2 DEF Call, ReaderInv, ReaderTypeOK
    <3>2. Books'
      BY <2>0, <2>2 DEF Call, ReaderInv, Books
    <3>3. Selected'
      BY <2>0, <2>1, <2>2, <2>o, <1>s DEF Call, ReaderInv, Books, Selected
    <3> QED  BY <2>p, <3>1, <3>2, <3>3 DEF ReaderInv
  <2>3. CASE /\ ~Wanted(devices[index].serial)
             /\ closed' = closed \cup {handle}
             /\ index' = After(index) /\ step' = "open"
             /\ UNCHANGED <<matches, held, strays>>
    <3>1. ReaderTypeOK'
      BY <2>0, <2>1, <2>3 DEF Call, ReaderInv, ReaderTypeOK
    <3>2. Books'
      BY <2>0, <2>3, <2>h DEF Call, ReaderInv, Books
    <3>3. Selected'
      BY <2>0, <2>1, <2>3, <2>o, <1>s DEF Call, ReaderInv, Books, Selected
    <3> QED  BY <2>p, <3>1, <3>2, <3>3 DEF ReaderInv
  <2>4. CASE /\ (matches' \in {matches, 2} /\ matches = 1) \/ matches' = matches
             /\ \/ closed' = closed \cup {handle} /\ UNCHANGED strays
                \/ UNCHANGED closed /\ strays' = strays \cup {"drop"}
             /\ step' = "free"
             /\ UNCHANGED <<index, held>>
    <3>m. matches' \in 0..2 /\ index' \in Nat /\ held' \in Nat
      BY <2>4 DEF ReaderInv, ReaderTypeOK
    <3>c. closed' \subseteq opened'
      BY <2>0, <2>4 DEF ReaderInv, ReaderTypeOK
    <3>1. ReaderTypeOK'
      BY <2>0, <2>4, <3>m, <3>c DEF Call, ReaderInv, ReaderTypeOK
    <3>2. Books'
      BY <2>0, <2>4, <2>h DEF Call, ReaderInv, Books
    <3>3. Selected'
      BY <2>0, <2>4 DEF Selected
    <3> QED  BY <2>p, <3>1, <3>2, <3>3 DEF ReaderInv
  <2>5. CASE /\ matches = 0 /\ matches' = 1 /\ held' = handle
             /\ closed' = closed \cup {handle} /\ step' = "free" /\ strays' = strays \cup {"keep"}
             /\ UNCHANGED index
    <3>1. ReaderTypeOK'
      BY <2>0, <2>5 DEF Call, ReaderInv, ReaderTypeOK
    <3>2. Books'
      BY <2>0, <2>5 DEF Call, ReaderInv, Books
    <3>3. Selected'
      BY <2>0, <2>5 DEF Selected
    <3> QED  BY <2>p, <3>1, <3>2, <3>3 DEF ReaderInv
  <2> QED  BY <1>5, <2>2, <2>3, <2>4, <2>5 DEF ReadSerial
<1>6. CASE EndSelection
  <2>1. /\ step = "open" /\ index \notin DOMAIN devices
        /\ \/ step' = "free" /\ UNCHANGED <<listed, strays>>
           \/ matches = 1 /\ listed' = FALSE /\ step' = "read" /\ UNCHANGED strays
           \/ matches = 1 /\ listed' = FALSE /\ step' = "end" /\ strays' = strays \cup {"with"}
        /\ UNCHANGED <<Call, index, matches, handle, held, context, opened, closed, shots, last>>
    BY <1>6 DEF EndSelection
  <2>2. WantedBelow(index) = {i \in Candidates : Wanted(devices[i].serial)}
    BY <1>d, <2>1 DEF ReaderInv, Selected, WantedBelow
  <2>3. ReaderTypeOK'
    BY <2>1 DEF Call, ReaderInv, ReaderTypeOK
  <2>4. Books'
    BY <2>1 DEF Call, ReaderInv, Books
  <2>5. Paced'
    BY <2>1 DEF Call, ReaderInv, Paced
  <2>6. Selected'
    BY <2>1, <2>2, <1>s DEF Call, ReaderInv, Books, Selected
  <2> QED  BY <2>3, <2>4, <2>5, <2>6 DEF ReaderInv
<1>7. CASE FreeList
  <2>1. /\ step = "free" /\ step' = "close"
        /\ \/ listed' = FALSE /\ UNCHANGED strays
           \/ strays' = strays \cup {"free"} /\ UNCHANGED listed
        /\ UNCHANGED <<Call, index, matches, handle, held, context, opened, closed, shots, last>>
    BY <1>7 DEF FreeList
  <2>2. ReaderTypeOK'
    BY <2>1 DEF Call, ReaderInv, ReaderTypeOK
  <2>3. Books'
    BY <2>1 DEF Call, ReaderInv, Books
  <2>4. Selected' /\ Paced'
    BY <2>1 DEF Call, ReaderInv, Selected, Paced
  <2> QED  BY <2>2, <2>3, <2>4 DEF ReaderInv
<1>8. CASE Snapshot
  <2>1. /\ step = "read" /\ step' \in {"wait", "close"} /\ shots' \in {shots, shots + 1}
        /\ step' = "wait" => shots' < watch
        /\ UNCHANGED <<Call, index, matches, handle, held, Library, strays>>
    BY <1>8 DEF Snapshot
  <2>2. watch \in Nat /\ shots \in Nat /\ shots < watch
    BY <2>1, ReaderAssumption DEF ReaderInv, ReaderTypeOK, Paced
  <2>3. ReaderTypeOK'
    BY <2>1, <2>2 DEF Call, Library, ReaderInv, ReaderTypeOK
  <2>4. Books'
    BY <2>1 DEF Call, Library, ReaderInv, Books
  <2>5. Selected'
    BY <2>1, <1>s DEF Call, Library, ReaderInv, Selected
  <2>6. Paced'
    BY <2>1, <2>2 DEF Call, Paced
  <2> QED  BY <2>3, <2>4, <2>5, <2>6 DEF ReaderInv
<1>9. CASE Wait
  <2>1. /\ step = "wait" /\ step' \in {"read", "close"}
        /\ UNCHANGED <<Call, index, matches, handle, held, Library, shots, last, strays>>
    BY <1>9 DEF Wait
  <2>2. watch \in Nat /\ shots \in Nat
    BY ReaderAssumption DEF ReaderInv, ReaderTypeOK
  <2>3. ReaderTypeOK' /\ Paced'
    BY <2>1, <2>2 DEF Call, Library, ReaderInv, ReaderTypeOK, Paced
  <2>4. Books'
    BY <2>1 DEF Call, Library, ReaderInv, Books
  <2>5. Selected'
    BY <2>1, <1>s DEF Call, Library, ReaderInv, Selected
  <2> QED  BY <2>3, <2>4, <2>5 DEF ReaderInv
<1>10. CASE Close
  <2>1. /\ step = "close" /\ step' = "end"
        /\ \/ /\ closed' = IF held # 0 THEN closed \cup {held} ELSE closed
              /\ held' = 0 /\ context' = "exited" /\ UNCHANGED strays
           \/ /\ closed' \in {closed, IF held # 0 THEN closed \cup {held} ELSE closed}
              /\ strays' = strays \cup {"close"} /\ UNCHANGED <<held, context>>
        /\ UNCHANGED <<Call, index, matches, handle, listed, opened, shots, last>>
    BY <1>10 DEF Close
  <2>2. handle = 0 /\ (held # 0 => held \in opened)
    BY <2>1 DEF ReaderInv, Books
  <2>3. ReaderTypeOK'
    BY <2>1, <2>2 DEF Call, ReaderInv, ReaderTypeOK
  <2>4. Books'
    BY <2>1, <2>2 DEF ReaderInv, ReaderTypeOK, Books
  <2>5. Selected' /\ Paced'
    BY <2>1 DEF Call, ReaderInv, Selected, Paced
  <2> QED  BY <2>3, <2>4, <2>5 DEF ReaderInv
<1>11. CASE UNCHANGED readerVars
  <2>1. /\ UNCHANGED <<Call, step, index, matches, handle, held, Library, shots, last, strays>>
    BY <1>11 DEF readerVars
  <2> QED  BY <2>1, <1>s DEF Call, Library, ReaderInv, ReaderTypeOK, Books, Selected, Paced
<1> QED  BY <1>1, <1>2, <1>3, <1>4, <1>5, <1>6, <1>7, <1>8, <1>9, <1>10, <1>11 DEF ReaderNext

(* At every step of the reader, whatever the library calls do, what was    *)
(* opened and not closed again is the handle at hand and the one kept, or  *)
(* was left by a stray interrupt.                                          *)
THEOREM ReaderInvariance == ReaderSpec => []ReaderInv
BY InitReaderInv, ReaderStep, PTL DEF ReaderSpec

(* For every set of attached devices, whichever call fails and wherever    *)
(* the user interrupts, the reader lets go of all it opened but what a     *)
(* stray interrupt left, closes no handle twice unless the interrupt came  *)
(* between the two steps that keep it, and its snapshots come from the one *)
(* device that was meant.                                                  *)
THEOREM ReaderLetsGo == ReaderSpec => []ReaderReleases
<1>1. ReaderInv => ReaderReleases
  <2> SUFFICES ASSUME ReaderInv PROVE ReaderReleases
    OBVIOUS
  <2>0. 0 \notin opened /\ closed \subseteq opened
    BY DEF ReaderInv, ReaderTypeOK
  <2>1. /\ handle # 0 => handle \in opened \ closed
        /\ held # 0 /\ step # "end" /\ "keep" \notin strays => held \in opened \ closed
    BY DEF ReaderInv, Books
  <2>2. step = "end" =>
          /\ listed => strays \cap {"list", "free"} # {}
          /\ context = "live" => strays \cap {"init", "with", "close"} # {}
    BY DEF ReaderInv, Books, Selecting
  <2>3. ASSUME step = "end", strays \cap {"open", "drop", "with", "close"} = {} PROVE opened = closed
    <3>1. handle = 0 /\ held = 0 /\ \A i \in opened \ closed : i = handle \/ i = held
      BY <2>3 DEF ReaderInv, Books
    <3> QED  BY <2>0, <3>1
  <2>4. step \in {"read", "wait"} =>
          /\ opened \ closed = {held} /\ context = "live" /\ ~listed
          /\ {i \in Candidates : Wanted(devices[i].serial)} = {held}
    BY <2>0 DEF ReaderInv, Books, Selected, Before, Selecting
  <2>5. shots <= watch
    BY DEF ReaderInv, Paced
  <2> QED  BY <2>1, <2>2, <2>3, <2>4, <2>5 DEF ReaderReleases
<1> QED  BY ReaderInvariance, <1>1, PTL

(* The same holds while the other tools are at work.                       *)
LEMMA ReaderAmongTools == Spec => ReaderSpec
<1>1. Init => ReaderInit
  BY DEF Init
<1>2. [Next]_<<tool, built, asmVars, defVars, loggerVars, readerVars>> => [ReaderNext]_readerVars
  BY DEF Next
<1> QED  BY <1>1, <1>2, PTL DEF Spec, ReaderSpec

(* With any tool at work, the reader ends with every handle closed, the    *)
(* list freed and the library left, but for what a stray interrupt left    *)
(* (select_device, snapshot, close).                                       *)
THEOREM ToolsLetGo == Spec => []ReaderReleases
  BY ReaderAmongTools, ReaderLetsGo, PTL
=============================================================================
