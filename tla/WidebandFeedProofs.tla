-------------------------- MODULE WidebandFeedProofs --------------------------
(***************************************************************************)
(* What a reader of the wideband words may conclude, for all calibrations  *)
(* and counts.  The invariant says how far the running publication has got *)
(* through its eight stores and that the words it has passed hold what it  *)
(* stores there; a logger word it has not reached is the previous one's.   *)
(***************************************************************************)
EXTENDS WidebandFeed, SequenceTheorems, TLAPS

Order == <<"lambda1", "lambda2", "log1", "log2", "current1", "current2", "ready1", "ready2">>

(* What a publication of value leaves in a word. *)
Left(c, value, w) ==
  IF IsNumber(value)
  THEN IF w \in {"lambda1", "lambda2", "log1", "log2"} THEN value
       ELSE IF w \in {"current1", "current2"} THEN 0 ELSE c.readyValue
  ELSE IF w \in {"lambda1", "lambda2"} THEN 1 ELSE 0

Plan == [j \in 1..8 |-> <<Order[j], Left(cal, measured, Order[j])>>]
Done == 8 - Len(script)

Shapes ==
  /\ ram = [w \in Words |-> ram[w]]
  /\ script \in Seq({Plan[j] : j \in 1..8}) /\ Len(script) \in 0..8

Progress ==
  /\ \A i \in 1..Len(script) : script[i] = Plan[Done + i]
  /\ IF script # <<>> \/ published
     THEN \A j \in 1..Done : ram[Order[j]] = Left(cal, measured, Order[j])
     ELSE ram = StartupRam

Logged == ram["log1"] \in {0, measured, previous}

IInv == Shapes /\ Progress /\ Logged /\ (sample[2] # 0 => sample[2] \in honest)
-----------------------------------------------------------------------------
(* A sequence is the concatenation of its two parts. *)
LEMMA Joined ==
  ASSUME NEW S, NEW l \in Seq(S), NEW r \in Seq(S), NEW s \in Seq(S),
         Len(s) = Len(l) + Len(r), \A i \in 1..Len(l) : l[i] = s[i],
         \A i \in 1..Len(r) : r[i] = s[Len(l) + i]
  PROVE  l \o r = s
<1>1. /\ l \o r \in Seq(S) /\ Len(l \o r) = Len(l) + Len(r)
      /\ \A i \in 1..Len(l) + Len(r) : (l \o r)[i] = IF i <= Len(l) THEN l[i] ELSE r[i - Len(l)]
  BY ConcatProperties
<1>2. Len(l) \in Nat /\ Len(r) \in Nat
  OBVIOUS
<1>3. ASSUME NEW i \in 1..Len(l) + Len(r) PROVE (l \o r)[i] = s[i]
  <2>1. CASE i <= Len(l)
    BY <1>1, <1>2, <2>1
  <2>2. CASE ~(i <= Len(l))
    <3>1. i - Len(l) \in 1..Len(r) /\ Len(l) + (i - Len(l)) = i
      BY <1>2, <1>3, <2>2
    <3> QED  BY <1>1, <2>2, <3>1
  <2> QED  BY <2>1, <2>2
<1> QED  BY <1>1, <1>3, SeqEqual

(* The stores of a publication, one word after the other. *)
LEMMA Layout ==
  ASSUME NEW c, NEW value
  PROVE  Stores(c, value) = [j \in 1..8 |-> <<Order[j], Left(c, value, Order[j])>>]
<1> DEFINE P(w) == <<w, Left(c, value, w)>>
           S == {P(w) : w \in Words}
           l2 == <<P("lambda1"), P("lambda2")>>
           l4 == <<P("lambda1"), P("lambda2"), P("log1"), P("log2")>>
           l6 == <<P("lambda1"), P("lambda2"), P("log1"), P("log2"), P("current1"), P("current2")>>
           c2 == <<P("current1"), P("current2")>>
           r2 == <<P("ready1"), P("ready2")>>
           r6 == <<P("log1"), P("log2"), P("current1"), P("current2"), P("ready1"), P("ready2")>>
           all == <<P("lambda1"), P("lambda2"), P("log1"), P("log2"), P("current1"),
                    P("current2"), P("ready1"), P("ready2")>>
<1>1. Stores(c, value) = IF IsNumber(value) THEN (l4 \o c2) \o r2 ELSE l2 \o r6
  <2>1. \A v, w1, w2 : Store(<<w1, w2>>, v) = << <<w1, v>>, <<w2, v>> >>
    BY DEF Store
  <2>2. \A v, w1, w2, w3, w4 : Store(<<w1, w2, w3, w4>>, v)
          = << <<w1, v>>, <<w2, v>>, <<w3, v>>, <<w4, v>> >>
    BY DEF Store
  <2>3. \A v, w1, w2, w3, w4, w5, w6 : Store(<<w1, w2, w3, w4, w5, w6>>, v)
          = << <<w1, v>>, <<w2, v>>, <<w3, v>>, <<w4, v>>, <<w5, v>>, <<w6, v>> >>
    BY DEF Store
  <2>4. CASE IsNumber(value)
    <3>1. /\ Store(<<"lambda1", "lambda2", "log1", "log2">>, value) = l4
          /\ Store(<<"current1", "current2">>, 0) = c2
          /\ Store(<<"ready1", "ready2">>, c.readyValue) = r2
      BY <2>1, <2>2, <2>4 DEF Left
    <3> HIDE DEF l4, c2, r2
    <3> QED  BY <2>4, <3>1, Zenon DEF Stores
  <2>5. CASE ~IsNumber(value)
    <3>1. /\ Store(<<"lambda1", "lambda2">>, 1) = l2
          /\ Store(<<"log1", "log2", "current1", "current2", "ready1", "ready2">>, 0) = r6
      BY <2>1, <2>3, <2>5 DEF Left
    <3> HIDE DEF l2, r6
    <3> QED  BY <2>5, <3>1, Zenon DEF Stores
  <2> QED  BY <2>4, <2>5
<1>2. {"lambda1", "lambda2", "log1", "log2", "current1", "current2", "ready1", "ready2"} \subseteq Words
  BY DEF Words
<1>3. /\ l2 \in Seq(S) /\ l4 \in Seq(S) /\ l6 \in Seq(S) /\ c2 \in Seq(S) /\ r2 \in Seq(S)
      /\ r6 \in Seq(S) /\ all \in Seq(S)
  <2>1. \A w \in Words : P(w) \in S
    OBVIOUS
  <2> HIDE DEF P, S
  <2> QED  BY <1>2, <2>1
<1> HIDE DEF P, S
<1>4. l4 \o c2 = l6
  <2>1. Len(l4) = 4 /\ Len(c2) = 2 /\ Len(l6) = 6
    OBVIOUS
  <2>2. (\A i \in 1..4 : l4[i] = l6[i]) /\ \A i \in 1..2 : c2[i] = l6[4 + i]
    OBVIOUS
  <2> HIDE DEF l4, c2, l6
  <2>3. /\ Len(l6) = Len(l4) + Len(c2) /\ \A i \in 1..Len(l4) : l4[i] = l6[i]
        /\ \A i \in 1..Len(c2) : c2[i] = l6[Len(l4) + i]
    BY <2>1, <2>2
  <2> QED  BY <1>3, <2>3, Joined, Zenon
<1>5. l6 \o r2 = all
  <2>1. Len(l6) = 6 /\ Len(r2) = 2 /\ Len(all) = 8
    OBVIOUS
  <2>2. (\A i \in 1..6 : l6[i] = all[i]) /\ \A i \in 1..2 : r2[i] = all[6 + i]
    OBVIOUS
  <2> HIDE DEF l6, r2, all
  <2>3. /\ Len(all) = Len(l6) + Len(r2) /\ \A i \in 1..Len(l6) : l6[i] = all[i]
        /\ \A i \in 1..Len(r2) : r2[i] = all[Len(l6) + i]
    BY <2>1, <2>2
  <2> QED  BY <1>3, <2>3, Joined, Zenon
<1>6. l2 \o r6 = all
  <2>1. Len(l2) = 2 /\ Len(r6) = 6 /\ Len(all) = 8
    OBVIOUS
  <2>2. (\A i \in 1..2 : l2[i] = all[i]) /\ \A i \in 1..6 : r6[i] = all[2 + i]
    OBVIOUS
  <2> HIDE DEF l2, r6, all
  <2>3. /\ Len(all) = Len(l2) + Len(r6) /\ \A i \in 1..Len(l2) : l2[i] = all[i]
        /\ \A i \in 1..Len(r6) : r6[i] = all[Len(l2) + i]
    BY <2>1, <2>2
  <2> QED  BY <1>3, <2>3, Joined, Zenon
<1>7. all = [j \in 1..8 |-> P(Order[j])]
  BY DEF Order
<1> HIDE DEF l2, l4, l6, c2, r2, r6, all
<1>8. Stores(c, value) = [j \in 1..8 |-> P(Order[j])]
  BY <1>1, <1>4, <1>5, <1>6, <1>7
<1> QED  BY <1>8 DEF P

(* The order names every word once. *)
LEMMA Ordered ==
  /\ \A j \in 1..8 : Order[j] \in Words
  /\ \A j, k \in 1..8 : Order[j] = Order[k] => j = k
  /\ \A w \in Words : \E j \in 1..8 : Order[j] = w
<1>1. /\ Order[1] = "lambda1" /\ Order[2] = "lambda2" /\ Order[3] = "log1" /\ Order[4] = "log2"
      /\ Order[5] = "current1" /\ Order[6] = "current2" /\ Order[7] = "ready1" /\ Order[8] = "ready2"
  BY DEF Order
<1>2. \A j \in 1..8 : j = 1 \/ j = 2 \/ j = 3 \/ j = 4 \/ j = 5 \/ j = 6 \/ j = 7 \/ j = 8
  OBVIOUS
<1>3. \A j \in 1..8 : Order[j] \in Words
  BY <1>1, <1>2 DEF Words
<1>4. \A j, k \in 1..8 : Order[j] = Order[k] => j = k
  BY <1>1, <1>2
<1>5. \A w \in Words : \E j \in 1..8 : Order[j] = w
  BY <1>1 DEF Words
<1> QED  BY <1>3, <1>4, <1>5

LEMMA Begun ==
  ASSUME IInv, Begin
  PROVE  IInv'
<1>1. /\ script = <<>> /\ script' = Stores(cal, measured') /\ previous' = measured
      /\ ram' = ram /\ cal' = cal /\ sample' = sample /\ honest' = honest
  BY DEF Begin
<1>2. script' = Plan'
  BY <1>1, Layout DEF Plan
<1>3. script' \in Seq({Plan[j] : j \in 1..8}') /\ Len(script') = 8 /\ \A i \in 1..8 : script'[i] = Plan'[i]
  BY <1>2 DEF Plan
<1>4. Shapes'
  BY <1>1, <1>3 DEF IInv, Shapes
<1>5. Progress'
  <2>1. Done' = 0 /\ script' # <<>>
    BY <1>3 DEF Done
  <2> QED  BY <1>3, <2>1 DEF Progress
<1>6. ram["log1"] \in {0, measured}
  <2>1. Done = 8
    BY <1>1 DEF Done
  <2>2. CASE published
    <3>1. ram["log1"] = Left(cal, measured, "log1")
      BY <1>1, <2>1, <2>2, Ordered DEF IInv, Progress, Words
    <3> QED  BY <3>1 DEF Left
  <2>3. CASE ~published
    BY <1>1, <2>3 DEF IInv, Progress, StartupRam, Words
  <2> QED  BY <2>2, <2>3
<1>7. Logged'
  BY <1>1, <1>6 DEF Logged
<1> QED  BY <1>1, <1>4, <1>5, <1>7 DEF IInv

LEMMA Stored ==
  ASSUME IInv, StoreNext
  PROVE  IInv'
<1> DEFINE d == Done + 1
<1>1. /\ script # <<>> /\ script' = Tail(script) /\ cal' = cal /\ measured' = measured
      /\ ram' = [ram EXCEPT ![Head(script)[1]] = Head(script)[2]]
      /\ previous' = previous /\ sample' = sample /\ honest' = honest
      /\ published' = (published \/ Len(script) = 1)
  BY DEF StoreNext
<1>2. script \in Seq({Plan[j] : j \in 1..8}) /\ Len(script) \in 1..8 /\ d \in 1..8 /\ d = 9 - Len(script)
  BY <1>1 DEF IInv, Shapes, Done
<1>3. Head(script) = <<Order[d], Left(cal, measured, Order[d])>>
  <2>1. Head(script) = Plan[d]
    BY <1>1, <1>2 DEF IInv, Progress
  <2> QED  BY <1>2, <2>1 DEF Plan
<1>4. /\ Plan' = Plan /\ Len(script') = Len(script) - 1 /\ Done' = d
      /\ \A i \in 1..Len(script') : script'[i] = script[i + 1]
      /\ script' \in Seq({Plan[j] : j \in 1..8})
  BY <1>1, <1>2 DEF Plan, Done
<1>5. Shapes'
  <2>1. ram' = [w \in Words |-> ram'[w]]
    <3>1. ram = [w \in Words |-> ram[w]]
      BY DEF IInv, Shapes
    <3>2. DOMAIN ram = Words
      BY <3>1
    <3> QED  BY <1>1, <3>1, <3>2
  <2>2. Len(script') \in 0..8
    <3>1. Len(script) \in 1..8
      BY <1>2
    <3>2. Len(script') = Len(script) - 1
      BY <1>4
    <3>3. \A n \in 1..8 : n - 1 \in 0..8
      OBVIOUS
    <3> QED  BY <3>1, <3>2, <3>3, Zenon
  <2>3. script' \in Seq({Plan[j] : j \in 1..8})'
    BY <1>4
  <2> QED  BY <2>1, <2>2, <2>3 DEF Shapes
<1>6. \A w \in Words : ram'[w] = IF w = Order[d] THEN Left(cal, measured, Order[d]) ELSE ram[w]
  BY <1>1, <1>3 DEF IInv, Shapes
<1>7. Progress'
  <2>1. \A i \in 1..Len(script') : script'[i] = Plan'[Done' + i]
    <3>1. \A i \in 1..Len(script') : i + 1 \in 1..Len(script) /\ Done + (i + 1) = d + i
      BY <1>2, <1>4 DEF Done
    <3> QED  BY <1>4, <3>1 DEF IInv, Progress
  <2>2. \A j \in 1..d : ram'[Order[j]] = Left(cal, measured, Order[j])
    <3>1. \A j \in 1..Done : ram[Order[j]] = Left(cal, measured, Order[j])
      BY <1>1 DEF IInv, Progress
    <3>2. \A j \in 1..d : j \in 1..8 /\ (j = d \/ j \in 1..Done)
      BY <1>2 DEF Done
    <3> QED  BY <1>6, <3>1, <3>2, Ordered
  <2>3. script' # <<>> \/ published'
    <3>1. CASE Len(script) = 1
      BY <1>1, <3>1
    <3>2. CASE Len(script) # 1
      <4>1. Len(script') # 0
        BY <1>2, <1>4, <3>2
      <4> QED  BY <4>1
    <3> QED  BY <3>1, <3>2
  <2>4. \A j \in 1..Done' : ram'[Order[j]] = Left(cal', measured', Order[j])
    BY <1>1, <1>4, <2>2
  <2> QED  BY <2>1, <2>3, <2>4 DEF Progress
<1>8. Logged'
  <2>1. Left(cal, measured, "log1") \in {0, measured}
    BY DEF Left
  <2>2. "log1" \in Words
    BY DEF Words
  <2> QED  BY <1>1, <1>6, <2>1, <2>2 DEF IInv, Logged
<1> QED  BY <1>1, <1>5, <1>7, <1>8 DEF IInv

(* A completed sample carries a lambda its reader may have loaded.         *)
LEMMA Sampled ==
  ASSUME IInv, LoadLambda
  PROVE  IInv'
<1>1. UNCHANGED <<cal, ram, script, measured, previous, published>> /\ sample'[2] = ram["log1"]
      /\ honest' = IF script = <<>> THEN {measured} ELSE {measured, previous}
  BY DEF LoadLambda
<1>2. Shapes' /\ Progress' /\ Logged'
  BY <1>1 DEF IInv, Shapes, Progress, Logged, Plan, Done
<1>3. CASE script = <<>>
  <2>1. Done = 8
    BY <1>3 DEF Done
  <2>2. ram["log1"] \in {0, measured}
    <3>2. CASE published
      <4>1. ram["log1"] = Left(cal, measured, "log1")
        BY <2>1, <3>2, Ordered DEF IInv, Progress, Words
      <4> QED  BY <4>1 DEF Left
    <3>3. CASE ~published
      BY <1>3, <3>3 DEF IInv, Progress, StartupRam, Words
    <3> QED  BY <3>2, <3>3
  <2> QED  BY <1>1, <1>2, <1>3, <2>2 DEF IInv
<1>4. CASE script # <<>>
  BY <1>1, <1>2, <1>4 DEF IInv, Logged
<1> QED  BY <1>3, <1>4

LEMMA Started ==
  ASSUME ram' = StartupRam, script' = <<>>, published' = FALSE, sample' = <<0, 0>>
  PROVE  IInv'
<1>1. StartupRam["log1"] = 0 /\ StartupRam = [w \in Words |-> StartupRam[w]]
  BY DEF StartupRam, Words
<1>2. Shapes'
  BY <1>1 DEF Shapes
<1> QED  BY <1>1, <1>2 DEF IInv, Progress, Logged

LEMMA Preserved == IInv /\ [Next]_vars => IInv'
<1> SUFFICES ASSUME IInv, [Next]_vars PROVE IInv'
  OBVIOUS
<1>1. ASSUME UNCHANGED <<cal, ram, script, sample, history>> PROVE IInv'
  BY <1>1 DEF history, IInv, Shapes, Progress, Logged, Plan, Done
<1>2. CASE Convert
  BY <1>1, <1>2 DEF Convert
<1>3. CASE LoadReady
  BY <1>1, <1>3 DEF LoadReady
<1>4. CASE Restart
  BY <1>4, Started DEF Restart
<1>5. CASE UNCHANGED vars
  BY <1>1, <1>5 DEF vars
<1> QED  BY <1>2, <1>3, <1>4, <1>5, Begun, Stored, Sampled DEF Next

(* The invariant holds of publisher, reader and restarts together. *)
THEOREM Invariance == Spec => []IInv
<1>1. Init => IInv
  <2> SUFFICES ASSUME Init PROVE IInv
    OBVIOUS
  <2>1. StartupRam["log1"] = 0 /\ StartupRam = [w \in Words |-> StartupRam[w]]
    BY DEF StartupRam, Words
  <2> QED  BY <2>1 DEF Init, IInv, Shapes, Progress, Logged
<1> QED  BY <1>1, Preserved, PTL DEF Spec

(* A sample that passes the rich test carries a measured lambda, wherever  *)
(* the two loads fall among the stores.                                    *)
THEOREM RichOnlyMeasured == Spec => []RichIsMeasured
<1>1. IInv => RichIsMeasured
  BY DEF IInv, RichIsMeasured, Rich, Greater
<1> QED  BY <1>1, Invariance, PTL

(* Between publications readiness, inhibit status and the lambda words     *)
(* tell one story.                                                         *)
THEOREM OneStory == Spec => []ReadyMeansMeasured
<1>1. ASSUME IInv PROVE ReadyMeansMeasured
  <2> SUFFICES ASSUME published, script = <<>>, Greater(cal.readyValue, cal.readyThreshold),
                      ~Greater(0, cal.readyThreshold)
               PROVE  /\ (InhibitStatus = 0) <=> IsNumber(measured)
                      /\ InhibitStatus = 0 =>
                           \A w \in {"lambda1", "lambda2", "log1", "log2"} : ram[w] = measured
    BY DEF ReadyMeansMeasured
  <2>1. \A w \in Words : ram[w] = Left(cal, measured, w)
    <3>1. Done = 8
      BY DEF Done
    <3> QED  BY <1>1, <3>1, Ordered DEF IInv, Progress
  <2>2. ram["ready1"] = IF IsNumber(measured) THEN cal.readyValue ELSE 0
    BY <2>1 DEF Words, Left
  <2>3. (InhibitStatus = 0) <=> IsNumber(measured)
    BY <2>2 DEF InhibitStatus
  <2>4. IsNumber(measured) => \A w \in {"lambda1", "lambda2", "log1", "log2"} : ram[w] = measured
    BY <2>1 DEF Words, Left
  <2> QED  BY <2>3, <2>4
<1> QED  BY <1>1, Invariance, PTL
=============================================================================
