--------------------------- MODULE KlineBridgeProofs ---------------------------
(***************************************************************************)
(* The bridge for queues of any size, any data and any line codings.  The  *)
(* coding fence is inductive once it is known that every byte still with   *)
(* TinyUSB is due in the coding last asked for, and that the UART has that *)
(* coding when none waits.  The two streams are concatenations of the      *)
(* queues' contents, so a service function that moves bytes between        *)
(* neighbouring queues leaves them as they were; a break destroys only     *)
(* bytes the UART held when it started because none enters during one.     *)
(***************************************************************************)
EXTENDS KlineBridge, SequenceTheorems, TLAPS

(* What TinyUSB still has is due in the coding last asked for; when none   *)
(* waits, that is the UART's.                                              *)
Owed ==
  /\ \A i \in 1..Len(cdcOut) : cdcOut[i].due = Applied(wanted)
  /\ ~pending => coding = Applied(wanted)

(* A break was asserted over everything the UART holds during one, and     *)
(* over the frame it left torn.                                            *)
Struck ==
  /\ brk => \A i \in 1..Len(uartTx) : uartTx[i].hit
  /\ cut => uartTx # <<>> /\ uartTx[1].hit

IInv == TypeOK /\ CodingFence /\ Owed /\ Struck /\ BreakNeedsHost
-----------------------------------------------------------------------------
(* The two parts of a sequence. *)
LEMMA Parts ==
  ASSUME NEW S, NEW s \in Seq(S), NEW n \in 0..Len(s)
  PROVE  /\ Take(s, n) \in Seq(S) /\ Len(Take(s, n)) = n
         /\ \A i \in 1..n : Take(s, n)[i] = s[i]
         /\ Drop(s, n) \in Seq(S) /\ Len(Drop(s, n)) = Len(s) - n
         /\ \A i \in 1..Len(s) - n : Drop(s, n)[i] = s[n + i]
         /\ Take(s, n) \o Drop(s, n) = s
<1>1. Len(s) \in Nat /\ n \in Nat /\ n <= Len(s)
  OBVIOUS
<1>2. \A i \in 1..Len(s) : s[i] \in S
  OBVIOUS
<1>3. \A i \in 1..n : s[i] \in S
  BY <1>1, <1>2
<1>4. \A i \in n + 1..Len(s) : s[i] \in S
  BY <1>1, <1>2
<1>5. /\ Take(s, n) \in Seq(S) /\ Len(Take(s, n)) = n
      /\ \A i \in 1..n : Take(s, n)[i] = s[i]
  <2>1. /\ SubSeq(s, 1, n) \in Seq(S)
        /\ Len(SubSeq(s, 1, n)) = IF 1 <= n THEN n - 1 + 1 ELSE 0
        /\ \A i \in 1..n - 1 + 1 : SubSeq(s, 1, n)[i] = s[1 + i - 1]
    BY <1>1, <1>3, SubSeqProperties
  <2> QED  BY <1>1, <2>1 DEF Take
<1>6. /\ Drop(s, n) \in Seq(S) /\ Len(Drop(s, n)) = Len(s) - n
      /\ \A i \in 1..Len(s) - n : Drop(s, n)[i] = s[n + i]
  <2> DEFINE d == SubSeq(s, n + 1, Len(s))
  <2>1. /\ d \in Seq(S)
        /\ Len(d) = IF n + 1 <= Len(s) THEN Len(s) - (n + 1) + 1 ELSE 0
        /\ \A i \in 1..Len(s) - (n + 1) + 1 : d[i] = s[n + 1 + i - 1]
    BY <1>1, <1>4, SubSeqProperties
  <2>2. Drop(s, n) = d
    BY DEF Drop
  <2> HIDE DEF d
  <2>3. \A i \in 1..Len(s) - n : i \in 1..Len(s) - (n + 1) + 1 /\ n + 1 + i - 1 = n + i
    BY <1>1
  <2> QED  BY <1>1, <2>1, <2>2, <2>3
<1>7. Take(s, n) \o Drop(s, n) = s
  <2>1. 1 \in 1..Len(s) + 1 /\ n \in 1 - 1..Len(s) /\ Len(s) \in n..Len(s)
    BY <1>1
  <2>2. SubSeq(s, 1, n) \o SubSeq(s, n + 1, Len(s)) = SubSeq(s, 1, Len(s))
    BY <2>1, ConcatAdjacentSubSeq
  <2> QED  BY <2>2, SubSeqFull DEF Take, Drop
<1> QED  BY <1>5, <1>6, <1>7

LEMMA LowType ==
  ASSUME NEW a \in Nat, NEW b \in Nat
  PROVE  Low(a, b) \in 0..a /\ Low(a, b) \in 0..b
BY DEF Low

(* Concatenation within a queue's capacity. *)
LEMMA Fits ==
  ASSUME NEW S, NEW s \in Seq(S), NEW t \in Seq(S), NEW size \in Nat,
         Len(t) <= size - Len(s)
  PROVE  s \o t \in Seq(S) /\ Len(s \o t) <= size
BY ConcatProperties

LEMMA AppendFits ==
  ASSUME NEW S, NEW s \in Seq(S), NEW e \in S, NEW size \in Nat, Len(s) < size
  PROVE  Append(s, e) \in Seq(S) /\ Len(Append(s, e)) <= size
BY AppendProperties

LEMMA TailFits ==
  ASSUME NEW S, NEW s \in Seq(S), NEW size \in Nat, Len(s) <= size, s # <<>>
  PROVE  Tail(s) \in Seq(S) /\ Len(Tail(s)) <= size
BY HeadTailProperties

(* A sequence given by its elements. *)
LEMMA Listed ==
  ASSUME NEW S, NEW n \in Nat, NEW f \in [1..n -> S]
  PROVE  f \in Seq(S) /\ Len(f) = n
<1>1. f \in Seq(S)
  BY SeqDef
<1>2. DOMAIN f = 1..n /\ DOMAIN f = 1..Len(f) /\ Len(f) \in Nat
  BY <1>1, LenProperties
<1> QED  BY <1>1, <1>2
-----------------------------------------------------------------------------
LEMMA CodingTypes ==
  /\ Default \in UartCodings /\ Applied(Default) = Default
  /\ \A c \in Codings \cup {Default} : Applied(c) \in UartCodings
<1>1. Applied(Default) = Default
  BY KlineAssumption DEF Applied
<1> QED  BY <1>1 DEF UartCodings

LEMMA Emptiness ==
  /\ <<>> \in Seq(HostByte) /\ <<>> \in Seq(LineFrame)
  /\ Len(<<>>) <= FifoSize /\ Len(<<>>) <= UartDepth /\ Len(<<>>) <= UsbDepth
  /\ NoError \in [frame : BOOLEAN, overrun : BOOLEAN]
<1>1. <<>> \in Seq(HostByte) /\ <<>> \in Seq(LineFrame) /\ Len(<<>>) = 0
  BY EmptySeq
<1> QED  BY <1>1, KlineAssumption DEF NoError

(* What a line coding does to the bytes with TinyUSB, and a break to those *)
(* in the UART.                                                            *)
Dated(s, c) == [i \in 1..Len(s) |-> [s[i] EXCEPT !.due = c]]
Hit(s) == [i \in 1..Len(s) |-> [s[i] EXCEPT !.hit = TRUE]]

LEMMA Marked ==
  ASSUME NEW s \in Seq(HostByte), NEW c \in UartCodings
  PROVE  /\ Dated(s, c) \in Seq(HostByte) /\ Len(Dated(s, c)) = Len(s)
         /\ \A i \in 1..Len(s) : Dated(s, c)[i].due = c /\ Dated(s, c)[i].data = s[i].data
         /\ Hit(s) \in Seq(HostByte) /\ Len(Hit(s)) = Len(s)
         /\ \A i \in 1..Len(s) : /\ Hit(s)[i].hit /\ Hit(s)[i].data = s[i].data
                                 /\ Hit(s)[i].due = s[i].due
<1>1. Len(s) \in Nat /\ \A i \in 1..Len(s) : s[i] \in HostByte
  OBVIOUS
<1>2. /\ Dated(s, c) \in [1..Len(s) -> HostByte]
      /\ \A i \in 1..Len(s) : Dated(s, c)[i].due = c /\ Dated(s, c)[i].data = s[i].data
  BY <1>1 DEF Dated, HostByte
<1>3. /\ Hit(s) \in [1..Len(s) -> HostByte]
      /\ \A i \in 1..Len(s) : /\ Hit(s)[i].hit /\ Hit(s)[i].data = s[i].data
                              /\ Hit(s)[i].due = s[i].due
  BY <1>1 DEF Hit, HostByte
<1> QED  BY <1>1, <1>2, <1>3, Listed

LEMMA InitIInv == Init => IInv
<1> SUFFICES ASSUME Init PROVE IInv
  OBVIOUS
<1>1. TypeOK
  <2>1. left \in 0..MaxBreak /\ status \in [frame : BOOLEAN, overrun : BOOLEAN]
    BY KlineAssumption, Emptiness DEF Init
  <2>2. wanted \in Codings \cup {Default} /\ coding \in UartCodings
    BY CodingTypes DEF Init
  <2> QED  BY <2>1, <2>2, Emptiness DEF Init, TypeOK, Steps
<1>2. CodingFence /\ Owed /\ Struck /\ BreakNeedsHost
  BY EmptySeq, CodingTypes DEF Init, CodingFence, Owed, Struck, BreakNeedsHost
<1> QED  BY <1>1, <1>2 DEF IInv

(* A release empties the receiver, whatever it held.                       *)
LEMMA ReleaseType ==
  ASSUME TypeOK, ReleaseBreak
  PROVE  /\ brk' \in BOOLEAN /\ indefinite' \in BOOLEAN /\ left' \in 0..MaxBreak
         /\ uartRx' \in Seq(LineFrame) /\ Len(uartRx') <= UartDepth
         /\ status' \in [frame : BOOLEAN, overrun : BOOLEAN]
BY Emptiness DEF TypeOK, ReleaseBreak

LEMMA LineRxType ==
  ASSUME TypeOK, NEW step \in {"rxFirst", "rxAgain"}, NEW next \in {"usb", "usbTx"},
         LineRx(step, next)
  PROVE  TypeOK'
<1>1. CASE brk
  BY <1>1, Emptiness DEF TypeOK, LineRx, At, Steps, out, hold, setting
<1>2. CASE ~brk
  <2> DEFINE room == FifoSize - Len(lineToHost)
             n == IF mounted THEN Low(Len(uartRx), room + 1) ELSE Len(uartRx)
             kept == IF mounted THEN Low(n, room) ELSE 0
             bytes == [i \in 1..kept |-> [uartRx[i] EXCEPT !.err = FALSE]]
  <2>0. /\ uartRx \in Seq(LineFrame) /\ lineToHost \in Seq(LineFrame)
        /\ Len(lineToHost) <= FifoSize /\ Len(uartRx) <= UartDepth
        /\ mounted \in BOOLEAN
    BY DEF TypeOK
  <2>1. room \in Nat
    BY <2>0, KlineAssumption
  <2>2. n \in 0..Len(uartRx)
    <3>1. Len(uartRx) \in Nat /\ room + 1 \in Nat
      BY <2>0, <2>1
    <3> HIDE DEF room
    <3>2. Low(Len(uartRx), room + 1) \in 0..Len(uartRx)
      BY <3>1, LowType
    <3> QED  BY <3>1, <3>2
  <2>3. kept \in 0..n /\ kept \in 0..room
    <3>1. n \in Nat
      BY <2>0, <2>2
    <3> HIDE DEF room, n
    <3>2. Low(n, room) \in 0..n /\ Low(n, room) \in 0..room
      BY <2>1, <3>1, LowType
    <3> QED  BY <2>1, <3>1, <3>2
  <2> HIDE DEF room, n, kept
  <2>4. bytes \in Seq(LineFrame) /\ Len(bytes) = kept
    <3>1. kept \in Nat /\ \A i \in 1..kept : uartRx[i] \in LineFrame
      BY <2>0, <2>2, <2>3
    <3>2. bytes \in [1..kept -> LineFrame]
      BY <3>1 DEF LineFrame
    <3> HIDE DEF bytes
    <3> QED  BY <3>1, <3>2, Listed
  <2>5. /\ uartRx' = Drop(uartRx, n) /\ status' = StatusAfter(n)
        /\ lineToHost' = lineToHost \o bytes
        /\ errors' = (errors \/ status # NoError \/ (mounted /\ kept < n))
    BY <1>2 DEF LineRx, room, n, kept
  <2>6. uartRx' \in Seq(LineFrame) /\ Len(uartRx') <= UartDepth
    <3>1. Drop(uartRx, n) \in Seq(LineFrame) /\ Len(Drop(uartRx, n)) = Len(uartRx) - n
      BY <2>0, <2>2, Parts
    <3> QED  BY <2>0, <2>2, <2>5, <3>1, KlineAssumption
  <2>7. status' \in [frame : BOOLEAN, overrun : BOOLEAN]
    <3>1. n > 0 => uartRx[n] \in LineFrame
      BY <2>0, <2>2
    <3> QED  BY <2>5, <3>1, <2>2 DEF StatusAfter, LineFrame
  <2>8. lineToHost' \in Seq(LineFrame) /\ Len(lineToHost') <= FifoSize
    <3> HIDE DEF bytes
    <3> QED  BY <2>0, <2>1, <2>3, <2>4, <2>5, Fits, KlineAssumption DEF room
  <2>9. errors' \in BOOLEAN
    BY <2>0, <2>5 DEF TypeOK
  <2> HIDE DEF bytes
  <2> QED  BY <2>6, <2>7, <2>8, <2>9 DEF TypeOK, LineRx, At, Steps, out, hold, setting
<1> QED  BY <1>1, <1>2

LEMMA QueueType ==
  ASSUME TypeOK, NEW n \in 0..Len(cdcOut), n <= FifoSize - Len(hostToLine), Queue(n)
  PROVE  TypeOK'
<1> USE DEF TypeOK
<1>1. Take(cdcOut, n) \in Seq(HostByte) /\ Len(Take(cdcOut, n)) = n
  BY Parts
<1>2. cdcOut' = Drop(cdcOut, n) /\ hostToLine' = hostToLine \o Take(cdcOut, n)
  BY DEF Queue
<1>3. cdcOut' \in Seq(HostByte) /\ Len(cdcOut') <= UsbDepth
  <2>1. Drop(cdcOut, n) \in Seq(HostByte) /\ Len(Drop(cdcOut, n)) = Len(cdcOut) - n
    BY Parts
  <2> QED  BY <1>2, <2>1, KlineAssumption
<1>4. hostToLine' \in Seq(HostByte) /\ Len(hostToLine') <= FifoSize
  BY <1>1, <1>2, Fits, KlineAssumption
<1> QED  BY <1>3, <1>4 DEF Queue, At, Steps, in, recv, hold, setting

(* What one service function moves from queue to queue. *)
LEMMA MoveType ==
  ASSUME NEW S, NEW s \in Seq(S), NEW t \in Seq(S), NEW size \in Nat, NEW size2 \in Nat,
         NEW n \in 0..Len(t), n <= size - Len(s), Len(t) <= size2
  PROVE  /\ s \o Take(t, n) \in Seq(S) /\ Len(s \o Take(t, n)) <= size
         /\ Drop(t, n) \in Seq(S) /\ Len(Drop(t, n)) <= size2
<1>1. /\ Take(t, n) \in Seq(S) /\ Len(Take(t, n)) = n
      /\ Drop(t, n) \in Seq(S) /\ Len(Drop(t, n)) = Len(t) - n
  BY Parts
<1> QED  BY <1>1, Fits

LEMMA TypeStep == TypeOK /\ [Next]_vars => TypeOK'
<1> SUFFICES ASSUME TypeOK, [Next]_vars PROVE TypeOK'
  OBVIOUS
<1>t. /\ cdcOut \in Seq(HostByte) /\ Len(cdcOut) <= UsbDepth
      /\ hostToLine \in Seq(HostByte) /\ Len(hostToLine) <= FifoSize
      /\ uartTx \in Seq(HostByte) /\ Len(uartTx) <= UartDepth
      /\ cdcIn \in Seq(LineFrame) /\ Len(cdcIn) <= UsbDepth
      /\ lineToHost \in Seq(LineFrame) /\ Len(lineToHost) <= FifoSize
      /\ uartRx \in Seq(LineFrame) /\ Len(uartRx) <= UartDepth
      /\ mounted \in BOOLEAN
  BY DEF TypeOK
<1>c. FifoSize \in Nat /\ UartDepth \in Nat /\ UsbDepth \in Nat /\ MaxBreak \in Nat
  BY KlineAssumption
<1>l. /\ Len(cdcOut) \in Nat /\ Len(hostToLine) \in Nat /\ Len(uartTx) \in Nat
      /\ Len(cdcIn) \in Nat /\ Len(lineToHost) \in Nat
      /\ FifoSize - Len(hostToLine) \in Nat /\ UartDepth - Len(uartTx) \in Nat
      /\ UsbDepth - Len(cdcIn) \in Nat
  BY <1>t, <1>c
<1>1. CASE BreakTimeout
  BY <1>1, ReleaseType DEF TypeOK, BreakTimeout, At, Steps, out, in, setting, hold, recv
<1>2. CASE LineRx("rxFirst", "usb") \/ LineRx("rxAgain", "usbTx")
  BY <1>2, LineRxType
<1>3. CASE UsbDone
  BY <1>3 DEF TypeOK, UsbDone, At, Steps, out, in, setting, hold, recv
<1>4. CASE ApplyCoding
  <2>1. Applied(wanted) \in UartCodings
    BY CodingTypes DEF TypeOK
  <2>2. /\ pending' \in BOOLEAN /\ errors' \in BOOLEAN /\ coding' \in UartCodings
    BY <1>4, <2>1 DEF ApplyCoding, TypeOK
  <2> QED  BY <1>4, <2>2 DEF TypeOK, ApplyCoding, At, Steps, out, in, hold, recv
<1>5. CASE UsbRx
  <2> DEFINE n == IF pending \/ ~mounted THEN 0
                  ELSE Low(Len(cdcOut), FifoSize - Len(hostToLine))
  <2>1. n \in 0..Len(cdcOut) /\ n <= FifoSize - Len(hostToLine)
    <3>1. /\ Low(Len(cdcOut), FifoSize - Len(hostToLine)) \in 0..Len(cdcOut)
          /\ Low(Len(cdcOut), FifoSize - Len(hostToLine)) \in 0..FifoSize - Len(hostToLine)
      BY <1>l, LowType
    <3> QED  BY <1>l, <3>1
  <2>2. Queue(n)
    BY <1>5 DEF UsbRx
  <2> HIDE DEF n
  <2> QED  BY <2>1, <2>2, QueueType
<1>6. CASE LineTx
  <2> DEFINE n == IF brk THEN 0 ELSE Low(Len(hostToLine), UartDepth - Len(uartTx))
  <2>1. n \in 0..Len(hostToLine) /\ n <= UartDepth - Len(uartTx)
    <3>1. /\ Low(Len(hostToLine), UartDepth - Len(uartTx)) \in 0..Len(hostToLine)
          /\ Low(Len(hostToLine), UartDepth - Len(uartTx)) \in 0..UartDepth - Len(uartTx)
      BY <1>l, LowType
    <3> QED  BY <1>l, <3>1
  <2>2. uartTx' = uartTx \o Take(hostToLine, n) /\ hostToLine' = Drop(hostToLine, n)
    BY <1>6 DEF LineTx
  <2> HIDE DEF n
  <2>3. /\ uartTx' \in Seq(HostByte) /\ Len(uartTx') <= UartDepth
        /\ hostToLine' \in Seq(HostByte) /\ Len(hostToLine') <= FifoSize
    BY <1>t, <1>c, <2>1, <2>2, MoveType
  <2> QED  BY <1>6, <2>3 DEF TypeOK, LineTx, At, Steps, in, hold, recv, setting
<1>7. CASE UsbTx
  <2> DEFINE room == UsbDepth - Len(cdcIn)
             n == IF mounted THEN Low(Len(lineToHost), room) ELSE 0
  <2>1. n \in 0..Len(lineToHost) /\ n <= room
    <3>1. /\ Low(Len(lineToHost), room) \in 0..Len(lineToHost)
          /\ Low(Len(lineToHost), room) \in 0..room
      BY <1>l, LowType
    <3> QED  BY <1>l, <3>1
  <2>2. cdcIn' = cdcIn \o Take(lineToHost, n) /\ lineToHost' = Drop(lineToHost, n)
    BY <1>7 DEF UsbTx
  <2> HIDE DEF n
  <2>3. /\ cdcIn' \in Seq(LineFrame) /\ Len(cdcIn') <= UsbDepth
        /\ lineToHost' \in Seq(LineFrame) /\ Len(lineToHost') <= FifoSize
    BY <1>t, <1>c, <2>1, <2>2, MoveType
  <2> QED  BY <1>7, <2>3 DEF TypeOK, UsbTx, At, Steps, out, hold, recv, setting
<1>8. ASSUME NEW b \in HostBytes, HostSends(b) PROVE TypeOK'
  <2> DEFINE byte == [data |-> b, due |-> Applied(wanted), hit |-> FALSE]
  <2>1. byte \in HostByte
    BY CodingTypes DEF HostByte, TypeOK
  <2>2. cdcOut' = Append(cdcOut, byte) /\ Len(cdcOut) < UsbDepth
    BY <1>8 DEF HostSends
  <2> HIDE DEF byte
  <2>3. cdcOut' \in Seq(HostByte) /\ Len(cdcOut') <= UsbDepth
    BY <1>t, <1>c, <2>1, <2>2, AppendFits
  <2> QED  BY <1>8, <2>3 DEF TypeOK, HostSends, Event, in, hold, recv, setting
<1>9. ASSUME NEW c \in Codings, SetCoding(c) PROVE TypeOK'
  <2>1. Applied(c) \in UartCodings
    BY CodingTypes
  <2>2. cdcOut' = Dated(cdcOut, Applied(c))
    BY <1>9 DEF SetCoding, Dated
  <2>3. cdcOut' \in Seq(HostByte) /\ Len(cdcOut') <= UsbDepth
    BY <1>t, <2>1, <2>2, Marked
  <2> QED  BY <1>9, <2>3 DEF TypeOK, SetCoding, Event, in, hold, recv
<1>10. CASE EndBreak
  BY <1>10, ReleaseType DEF TypeOK, EndBreak, Event, out, in, setting
<1>11. CASE AnyBreak
  <2>0. PICK t \in 1..MaxBreak, forever \in BOOLEAN : StartBreak(t, forever)
    BY <1>11 DEF AnyBreak
  <2>1. left' \in 0..MaxBreak /\ brk' \in BOOLEAN /\ indefinite' \in BOOLEAN
    BY <2>0, <1>c DEF TypeOK, StartBreak
  <2>2. uartTx' = Hit(uartTx) /\ cut' \in BOOLEAN
    BY <2>0 DEF StartBreak, Hit
  <2>3. uartTx' \in Seq(HostByte) /\ Len(uartTx') <= UartDepth
    BY <1>t, <2>2, CodingTypes, Marked
  <2> QED  BY <2>0, <2>1, <2>2, <2>3 DEF TypeOK, StartBreak, Event, in, recv, setting
<1>12. CASE Mount
  BY <1>12, <1>c, Emptiness DEF TypeOK, Mount, Event, recv, hold, setting
<1>13. CASE Unmount \/ Suspend
  <2>1. /\ brk' \in BOOLEAN /\ indefinite' \in BOOLEAN /\ left' \in 0..MaxBreak
        /\ uartRx' \in Seq(LineFrame) /\ Len(uartRx') <= UartDepth
        /\ status' \in [frame : BOOLEAN, overrun : BOOLEAN]
    BY <1>13, ReleaseType DEF Unmount, Suspend, Disconnect
  <2>2. /\ cdcOut' \in Seq(HostByte) /\ Len(cdcOut') <= UsbDepth
        /\ cdcIn' \in Seq(LineFrame) /\ Len(cdcIn') <= UsbDepth
    BY <1>13, <1>t, Emptiness DEF Unmount, Suspend
  <2>3. Disconnect
    BY <1>13 DEF Unmount, Suspend
  <2> QED  BY <2>1, <2>2, <2>3, Emptiness DEF TypeOK, Disconnect, Event, setting
<1>14. CASE Resume
  BY <1>14 DEF TypeOK, Resume, Event, out, in, recv, hold, setting
<1>15. CASE UartSends
  <2>1. uartTx' \in Seq(HostByte) /\ Len(uartTx') <= UartDepth
    BY <1>15, <1>t, <1>c, TailFits DEF UartSends
  <2> QED  BY <1>15, <2>1 DEF TypeOK, UartSends, in, recv, hold, setting
<1>16. CASE UsbSends
  <2>1. cdcIn' \in Seq(LineFrame) /\ Len(cdcIn') <= UsbDepth
    BY <1>16, <1>t, <1>c, TailFits DEF UsbSends
  <2> QED  BY <1>16, <2>1 DEF TypeOK, UsbSends, out, recv, hold, setting
<1>17. CASE Tick
  BY <1>17, <1>c DEF TypeOK, Tick, out, in, recv, setting
<1>18. CASE BreakEdge
  BY <1>18 DEF TypeOK, BreakEdge, out, in, recv, hold, setting
<1>19. ASSUME NEW byte \in LineFrame, Arrive(byte)
       PROVE  /\ uartRx' \in Seq(LineFrame) /\ Len(uartRx') <= UartDepth
              /\ status' \in [frame : BOOLEAN, overrun : BOOLEAN]
  <2>1. CASE Len(uartRx) < UartDepth
    BY <1>19, <2>1, <1>t, <1>c, AppendFits DEF Arrive, TypeOK
  <2>2. CASE ~(Len(uartRx) < UartDepth)
    BY <1>19, <2>2 DEF Arrive, TypeOK
  <2> QED  BY <2>1, <2>2
<1>20. ASSUME NEW b \in LineBytes, NEW e \in BOOLEAN, LineByte(b, e) PROVE TypeOK'
  <2>1. [data |-> b, err |-> e, synthetic |-> FALSE] \in LineFrame
    BY DEF LineFrame
  <2>2. /\ uartRx' \in Seq(LineFrame) /\ Len(uartRx') <= UartDepth
        /\ status' \in [frame : BOOLEAN, overrun : BOOLEAN]
    BY <1>19, <1>20, <2>1 DEF LineByte
  <2> QED  BY <1>20, <2>2 DEF TypeOK, LineByte, out, in, hold, setting
<1>21. ASSUME NEW b \in LineBytes, BreakFrame(b) PROVE TypeOK'
  <2>1. [data |-> b, err |-> brk, synthetic |-> TRUE] \in LineFrame
    BY DEF LineFrame, TypeOK
  <2>2. /\ uartRx' \in Seq(LineFrame) /\ Len(uartRx') <= UartDepth
        /\ status' \in [frame : BOOLEAN, overrun : BOOLEAN]
    BY <1>19, <1>21, <2>1 DEF BreakFrame
  <2> QED  BY <1>21, <2>2 DEF TypeOK, BreakFrame, out, in, hold, setting
<1>22. CASE UNCHANGED vars
  BY <1>22 DEF TypeOK, vars, out, in, recv, hold, setting
<1> QED  BY <1>1, <1>2, <1>3, <1>4, <1>5, <1>6, <1>7, <1>8, <1>9, <1>10, <1>11, <1>12,
            <1>13, <1>14, <1>15, <1>16, <1>17, <1>18, <1>20, <1>21, <1>22
         DEF Next, MainLoop, Host, Hardware
-----------------------------------------------------------------------------
(* The fence, one queue at a time. *)
Fenced(byte, c) == byte.due = c
AllFenced(s, c) == \A i \in 1..Len(s) : Fenced(s[i], c)

LEMMA FenceOfBoth ==
  /\ CodingFence <=> AllFenced(hostToLine, coding) /\ AllFenced(uartTx, coding)
  /\ CodingFence' <=> AllFenced(hostToLine', coding') /\ AllFenced(uartTx', coding')
BY DEF CodingFence, AllFenced, Fenced

LEMMA OwedOf ==
  /\ Owed <=> AllFenced(cdcOut, Applied(wanted)) /\ (~pending => coding = Applied(wanted))
  /\ Owed' <=> AllFenced(cdcOut', Applied(wanted')) /\ (~pending' => coding' = Applied(wanted'))
BY DEF Owed, AllFenced, Fenced, Applied

LEMMA FencedParts ==
  ASSUME NEW S, NEW s \in Seq(S), NEW t \in Seq(S), NEW c, AllFenced(s, c), AllFenced(t, c),
         NEW n \in 0..Len(t)
  PROVE  AllFenced(s \o t, c) /\ AllFenced(Take(t, n), c) /\ AllFenced(Drop(t, n), c)
<1>1. AllFenced(s \o t, c)
  <2>1. ASSUME NEW i \in 1..Len(s \o t) PROVE Fenced((s \o t)[i], c)
    <3>1. /\ i \in 1..Len(s) + Len(t) /\ Len(s) \in Nat /\ Len(t) \in Nat
          /\ (s \o t)[i] = IF i <= Len(s) THEN s[i] ELSE t[i - Len(s)]
      BY ConcatProperties
    <3>2. CASE i <= Len(s)
      BY <3>1, <3>2 DEF AllFenced
    <3>3. CASE ~(i <= Len(s))
      <4>1. i - Len(s) \in 1..Len(t)
        BY <3>1, <3>3
      <4> QED  BY <3>1, <3>3, <4>1 DEF AllFenced
    <3> QED  BY <3>2, <3>3
  <2> QED  BY <2>1 DEF AllFenced
<1>2. /\ Len(Take(t, n)) = n /\ Len(Drop(t, n)) = Len(t) - n
      /\ \A i \in 1..n : Take(t, n)[i] = t[i]
      /\ \A i \in 1..Len(t) - n : Drop(t, n)[i] = t[n + i]
  BY Parts
<1>3. /\ \A i \in 1..n : i \in 1..Len(t)
      /\ \A i \in 1..Len(t) - n : n + i \in 1..Len(t)
  OBVIOUS
<1> QED  BY <1>1, <1>2, <1>3 DEF AllFenced

LEMMA FencedTail ==
  ASSUME NEW S, NEW s \in Seq(S), NEW c, AllFenced(s, c), s # <<>>
  PROVE  AllFenced(Tail(s), c)
<1>1. /\ Len(Tail(s)) = Len(s) - 1 /\ Len(s) \in Nat
      /\ \A i \in 1..Len(Tail(s)) : Tail(s)[i] = s[i + 1] /\ i + 1 \in 1..Len(s)
  BY HeadTailProperties
<1> QED  BY <1>1 DEF AllFenced

(* Bytes enter the queues only while no coding waits, when what TinyUSB    *)
(* has is due in the UART's coding, which changes only when both are empty.*)
LEMMA FenceStep == IInv /\ [Next]_vars => CodingFence' /\ Owed'
<1> SUFFICES ASSUME IInv, [Next]_vars PROVE CodingFence' /\ Owed'
  OBVIOUS
<1>t. /\ cdcOut \in Seq(HostByte) /\ hostToLine \in Seq(HostByte) /\ uartTx \in Seq(HostByte)
      /\ pending \in BOOLEAN /\ mounted \in BOOLEAN
  BY DEF IInv, TypeOK
<1>i. /\ AllFenced(hostToLine, coding) /\ AllFenced(uartTx, coding)
      /\ AllFenced(cdcOut, Applied(wanted))
      /\ ~pending => coding = Applied(wanted)
  BY FenceOfBoth, OwedOf DEF IInv
<1>l. /\ Len(cdcOut) \in Nat /\ Len(hostToLine) \in Nat /\ Len(uartTx) \in Nat
      /\ FifoSize - Len(hostToLine) \in Nat /\ UartDepth - Len(uartTx) \in Nat
  BY KlineAssumption DEF IInv, TypeOK
<1>e. \A c : AllFenced(<<>>, c)
  BY EmptySeq DEF AllFenced
<1>s. ASSUME UNCHANGED <<out, setting>> PROVE CodingFence' /\ Owed'
  BY <1>s, <1>i, FenceOfBoth, OwedOf DEF out, setting
<1>1. CASE ApplyCoding
  <2>1. CASE pending /\ ~brk /\ hostToLine = <<>> /\ uartTx = <<>>
    <3>1. /\ cdcOut' = cdcOut /\ hostToLine' = <<>> /\ uartTx' = <<>>
          /\ wanted' = wanted /\ coding' = Applied(wanted)
      BY <1>1, <2>1 DEF ApplyCoding, out
    <3> QED  BY <3>1, <1>e, <1>i, FenceOfBoth, OwedOf
  <2>2. CASE ~(pending /\ ~brk /\ hostToLine = <<>> /\ uartTx = <<>>)
    BY <1>1, <1>s, <2>2 DEF ApplyCoding, setting
  <2> QED  BY <2>1, <2>2
<1>2. CASE UsbRx
  <2> DEFINE n == IF pending \/ ~mounted THEN 0
                  ELSE Low(Len(cdcOut), FifoSize - Len(hostToLine))
  <2>1. n \in 0..Len(cdcOut)
    <3>1. Low(Len(cdcOut), FifoSize - Len(hostToLine)) \in 0..Len(cdcOut)
      BY <1>l, LowType
    <3> QED  BY <1>l, <3>1
  <2>2. pending => n = 0
    OBVIOUS
  <2>3. /\ hostToLine' = hostToLine \o Take(cdcOut, n) /\ cdcOut' = Drop(cdcOut, n)
        /\ uartTx' = uartTx /\ coding' = coding /\ pending' = pending /\ wanted' = wanted
    BY <1>2 DEF UsbRx, Queue, setting
  <2> HIDE DEF n
  <2>4. /\ AllFenced(Take(cdcOut, n), Applied(wanted))
        /\ AllFenced(Drop(cdcOut, n), Applied(wanted))
        /\ Take(cdcOut, n) \in Seq(HostByte) /\ Len(Take(cdcOut, n)) = n
    BY <1>t, <1>i, <2>1, FencedParts, Parts
  <2>5. AllFenced(Take(cdcOut, n), coding)
    <3>1. CASE pending
      BY <2>2, <2>4, <3>1 DEF AllFenced
    <3>2. CASE ~pending
      BY <1>i, <2>4, <3>2
    <3> QED  BY <3>1, <3>2
  <2>6. AllFenced(hostToLine', coding')
    <3>1. 0 \in 0..Len(Take(cdcOut, n))
      BY <2>1, <2>4
    <3> QED  BY <1>t, <1>i, <2>3, <2>4, <2>5, <3>1, FencedParts
  <2> QED  BY <1>i, <2>3, <2>4, <2>6, FenceOfBoth, OwedOf
<1>3. CASE LineTx
  <2> DEFINE n == IF brk THEN 0 ELSE Low(Len(hostToLine), UartDepth - Len(uartTx))
  <2>1. n \in 0..Len(hostToLine)
    <3>1. Low(Len(hostToLine), UartDepth - Len(uartTx)) \in 0..Len(hostToLine)
      BY <1>l, LowType
    <3> QED  BY <1>l, <3>1
  <2>2. /\ uartTx' = uartTx \o Take(hostToLine, n) /\ hostToLine' = Drop(hostToLine, n)
        /\ cdcOut' = cdcOut /\ coding' = coding /\ pending' = pending /\ wanted' = wanted
    BY <1>3 DEF LineTx, setting
  <2> HIDE DEF n
  <2>3. /\ Take(hostToLine, n) \in Seq(HostByte)
        /\ AllFenced(Take(hostToLine, n), coding) /\ AllFenced(Drop(hostToLine, n), coding)
    BY <1>t, <1>i, <2>1, Parts, FencedParts
  <2>4. AllFenced(uartTx \o Take(hostToLine, n), coding)
    <3>1. 0 \in 0..Len(Take(hostToLine, n))
      BY <2>3
    <3> QED  BY <1>t, <1>i, <2>3, <3>1, FencedParts
  <2> QED  BY <1>i, <2>2, <2>3, <2>4, FenceOfBoth, OwedOf
<1>4. ASSUME NEW b \in HostBytes, HostSends(b) PROVE CodingFence' /\ Owed'
  <2> DEFINE byte == [data |-> b, due |-> Applied(wanted), hit |-> FALSE]
  <2>1. byte \in HostByte /\ byte.due = Applied(wanted)
    BY CodingTypes DEF HostByte, IInv, TypeOK
  <2>2. /\ cdcOut' = Append(cdcOut, byte) /\ hostToLine' = hostToLine /\ uartTx' = uartTx
        /\ coding' = coding /\ pending' = pending /\ wanted' = wanted
    BY <1>4 DEF HostSends, setting
  <2> HIDE DEF byte
  <2>3. /\ Len(cdcOut') = Len(cdcOut) + 1 /\ cdcOut'[Len(cdcOut) + 1] = byte
        /\ \A i \in 1..Len(cdcOut) : cdcOut'[i] = cdcOut[i]
    BY <1>t, <2>1, <2>2, AppendProperties
  <2>4. \A i \in 1..Len(cdcOut') : i \in 1..Len(cdcOut) \/ i = Len(cdcOut) + 1
    BY <1>l, <2>3
  <2>5. AllFenced(cdcOut', Applied(wanted))
    BY <1>i, <2>1, <2>3, <2>4 DEF AllFenced, Fenced
  <2> QED  BY <1>i, <2>2, <2>5, FenceOfBoth, OwedOf
<1>5. ASSUME NEW c \in Codings, SetCoding(c) PROVE CodingFence' /\ Owed'
  <2>1. /\ hostToLine' = hostToLine /\ uartTx' = uartTx /\ coding' = coding
        /\ pending' = TRUE /\ wanted' = c /\ cdcOut' = Dated(cdcOut, Applied(c))
    BY <1>5 DEF SetCoding, Dated
  <2>2. Applied(c) \in UartCodings
    BY CodingTypes
  <2>3. AllFenced(Dated(cdcOut, Applied(c)), Applied(c))
    <3> DEFINE d == Applied(c)
    <3>1. d \in UartCodings
      BY <2>2
    <3> HIDE DEF d
    <3>2. /\ Len(Dated(cdcOut, d)) = Len(cdcOut)
          /\ \A i \in 1..Len(cdcOut) : Dated(cdcOut, d)[i].due = d
      BY <1>t, <3>1, Marked
    <3>3. AllFenced(Dated(cdcOut, d), d)
      BY <3>2 DEF AllFenced, Fenced
    <3> QED  BY <3>3 DEF d
  <2> QED  BY <1>i, <2>1, <2>3, FenceOfBoth, OwedOf
<1>6. CASE Mount \/ Unmount \/ Suspend
  <2>1. /\ hostToLine' = <<>> /\ uartTx' = uartTx /\ coding' = coding /\ pending' = pending
        /\ wanted' = wanted /\ (cdcOut' = <<>> \/ cdcOut' = cdcOut)
    BY <1>6 DEF Mount, Unmount, Suspend, Disconnect, setting
  <2> QED  BY <1>i, <1>e, <2>1, FenceOfBoth, OwedOf
<1>7. CASE UartSends
  <2>1. /\ uartTx # <<>> /\ uartTx' = Tail(uartTx) /\ hostToLine' = hostToLine
        /\ cdcOut' = cdcOut /\ coding' = coding /\ pending' = pending /\ wanted' = wanted
    BY <1>7 DEF UartSends, setting
  <2>2. AllFenced(uartTx', coding)
    BY <1>t, <1>i, <2>1, FencedTail
  <2> QED  BY <1>i, <2>1, <2>2, FenceOfBoth, OwedOf
<1>8. CASE AnyBreak
  <2>1. /\ uartTx' = Hit(uartTx) /\ hostToLine' = hostToLine /\ cdcOut' = cdcOut
        /\ coding' = coding /\ pending' = pending /\ wanted' = wanted
    BY <1>8 DEF AnyBreak, StartBreak, setting, Hit
  <2>2. AllFenced(uartTx', coding)
    BY <1>t, <1>i, <2>1, CodingTypes, Marked DEF AllFenced, Fenced
  <2> QED  BY <1>i, <2>1, <2>2, FenceOfBoth, OwedOf
<1>9. CASE \/ BreakTimeout \/ LineRx("rxFirst", "usb") \/ UsbDone
           \/ LineRx("rxAgain", "usbTx") \/ UsbTx \/ EndBreak \/ Resume
  BY <1>9, <1>s DEF BreakTimeout, LineRx, UsbDone, UsbTx, EndBreak, Resume
<1>10. CASE \/ UsbSends \/ Tick \/ BreakEdge
            \/ \E b \in LineBytes, e \in BOOLEAN : LineByte(b, e)
            \/ \E b \in LineBytes : BreakFrame(b)
  BY <1>10, <1>s DEF UsbSends, Tick, BreakEdge, LineByte, BreakFrame
<1>11. CASE UNCHANGED vars
  BY <1>11, <1>s DEF vars
<1> QED  BY <1>1, <1>2, <1>3, <1>4, <1>5, <1>6, <1>7, <1>8, <1>9, <1>10, <1>11
         DEF Next, MainLoop, Host, Hardware

(* Nothing enters the UART during a break, and a torn frame is one it had. *)
LEMMA StruckStep == IInv /\ [Next]_vars => Struck'
<1> SUFFICES ASSUME IInv, [Next]_vars PROVE Struck'
  OBVIOUS
<1>t. /\ uartTx \in Seq(HostByte) /\ hostToLine \in Seq(HostByte) /\ Len(uartTx) \in Nat
      /\ Len(hostToLine) \in Nat /\ UartDepth - Len(uartTx) \in Nat
  BY KlineAssumption DEF IInv, TypeOK
<1>i. /\ brk => \A i \in 1..Len(uartTx) : uartTx[i].hit
      /\ cut => uartTx # <<>> /\ uartTx[1].hit
  BY DEF IInv, Struck
<1>s. ASSUME UNCHANGED <<uartTx, cut>>, brk' => brk PROVE Struck'
  BY <1>s, <1>i DEF Struck
<1>1. CASE LineTx
  <2>1. CASE brk
    <3>1. uartTx' = uartTx \o Take(hostToLine, 0)
      BY <1>1, <2>1 DEF LineTx
    <3>2. uartTx' = uartTx
      <4>1. Take(hostToLine, 0) \in Seq(HostByte) /\ Len(Take(hostToLine, 0)) = 0
        BY <1>t, Parts
      <4>2. Take(hostToLine, 0) = <<>>
        BY <4>1, EmptySeq
      <4> QED  BY <1>t, <3>1, <4>2, ConcatEmptySeq
    <3> QED  BY <1>1, <1>s, <3>2 DEF LineTx, hold
  <2>2. CASE ~brk
    <3> DEFINE n == Low(Len(hostToLine), UartDepth - Len(uartTx))
    <3>1. n \in 0..Len(hostToLine)
      BY <1>t, LowType
    <3>2. uartTx' = uartTx \o Take(hostToLine, n) /\ cut' = cut /\ brk' = brk
      BY <1>1, <2>2 DEF LineTx, hold
    <3> HIDE DEF n
    <3>3. Take(hostToLine, n) \in Seq(HostByte)
      BY <1>t, <3>1, Parts
    <3>4. ASSUME uartTx # <<>> PROVE uartTx' # <<>> /\ uartTx'[1] = uartTx[1]
      <4>1. Len(uartTx) >= 1
        BY <1>t, <3>4, EmptySeq
      <4>2. Len(Take(hostToLine, n)) \in Nat
        BY <3>3
      <4>3. 1 \in 1..Len(uartTx) + Len(Take(hostToLine, n))
        BY <1>t, <4>1, <4>2
      <4>4. /\ Len(uartTx') = Len(uartTx) + Len(Take(hostToLine, n))
            /\ uartTx'[1] = IF 1 <= Len(uartTx) THEN uartTx[1]
                            ELSE Take(hostToLine, n)[1 - Len(uartTx)]
        BY <1>t, <3>2, <3>3, <4>3, ConcatProperties
      <4> QED  BY <1>t, <4>1, <4>2, <4>4, EmptySeq
    <3> QED  BY <1>i, <2>2, <3>2, <3>4 DEF Struck
  <2> QED  BY <2>1, <2>2
<1>2. CASE UartSends
  <2>1. /\ uartTx # <<>> /\ uartTx' = Tail(uartTx) /\ brk' = brk
        /\ cut' = (brk /\ Tail(uartTx) # <<>>)
    BY <1>2 DEF UartSends, hold
  <2>2. /\ Tail(uartTx) \in Seq(HostByte) /\ Len(Tail(uartTx)) = Len(uartTx) - 1
        /\ \A i \in 1..Len(Tail(uartTx)) : Tail(uartTx)[i] = uartTx[i + 1]
    BY <1>t, <2>1, HeadTailProperties
  <2>3. ASSUME brk, NEW i \in 1..Len(Tail(uartTx)) PROVE Tail(uartTx)[i].hit
    <3>1. i + 1 \in 1..Len(uartTx)
      BY <1>t, <2>2
    <3> QED  BY <1>i, <2>2, <2>3, <3>1
  <2>4. Tail(uartTx) # <<>> => 1 \in 1..Len(Tail(uartTx))
    BY <2>2, EmptySeq
  <2> QED  BY <2>1, <2>3, <2>4 DEF Struck
<1>3. CASE AnyBreak
  <2>1. uartTx' = Hit(uartTx) /\ cut' = (uartTx # <<>>)
    BY <1>3 DEF AnyBreak, StartBreak, Hit
  <2>2. /\ Hit(uartTx) \in Seq(HostByte) /\ Len(Hit(uartTx)) = Len(uartTx)
        /\ \A i \in 1..Len(uartTx) : Hit(uartTx)[i].hit
    BY <1>t, CodingTypes, Marked
  <2>3. uartTx # <<>> => 1 \in 1..Len(uartTx) /\ Hit(uartTx) # <<>>
    BY <1>t, <2>2, EmptySeq
  <2> QED  BY <2>1, <2>2, <2>3 DEF Struck
<1>4. CASE \/ BreakTimeout \/ LineRx("rxFirst", "usb") \/ UsbDone \/ ApplyCoding \/ UsbRx
           \/ LineRx("rxAgain", "usbTx") \/ UsbTx
  BY <1>4, <1>s DEF BreakTimeout, ReleaseBreak, LineRx, UsbDone, ApplyCoding, UsbRx, Queue,
                    UsbTx, out, hold
<1>5. CASE Host /\ ~AnyBreak
  <2>1. UNCHANGED <<uartTx, cut>>
    BY <1>5 DEF Host, HostSends, SetCoding, EndBreak, Mount, Unmount, Suspend, Disconnect,
                Resume, out
  <2>2. brk' => brk
    BY <1>5 DEF Host, HostSends, SetCoding, EndBreak, Mount, Unmount, Suspend, Disconnect,
                ReleaseBreak, Resume, hold
  <2> QED  BY <1>s, <2>1, <2>2
<1>6. CASE Hardware /\ ~UartSends
  <2>1. UNCHANGED <<uartTx, cut>>
    BY <1>6 DEF Hardware, UsbSends, Tick, BreakEdge, LineByte, BreakFrame, out
  <2>2. brk' => brk
    BY <1>6 DEF Hardware, UsbSends, Tick, BreakEdge, LineByte, BreakFrame, hold
  <2> QED  BY <1>s, <2>1, <2>2
<1>7. CASE UNCHANGED vars
  BY <1>7, <1>s DEF vars, out, hold
<1> QED  BY <1>1, <1>2, <1>3, <1>4, <1>5, <1>6, <1>7 DEF Next, MainLoop

(* A break is started only by a connected host, and goes with it. *)
LEMMA BreakStep == IInv /\ [Next]_vars => BreakNeedsHost'
<1> SUFFICES ASSUME IInv, [Next]_vars PROVE BreakNeedsHost'
  OBVIOUS
<1> USE DEF IInv, BreakNeedsHost, hold
<1>1. CASE MainLoop
  BY <1>1 DEF MainLoop, BreakTimeout, ReleaseBreak, LineRx, UsbDone, ApplyCoding, UsbRx, Queue,
              LineTx, UsbTx
<1>2. CASE Host
  BY <1>2 DEF Host, HostSends, SetCoding, EndBreak, AnyBreak, StartBreak, ReleaseBreak, Mount,
              Unmount, Suspend, Disconnect, Resume
<1>3. CASE Hardware
  BY <1>3 DEF Hardware, UartSends, UsbSends, Tick, BreakEdge, LineByte, BreakFrame
<1>4. CASE UNCHANGED vars
  BY <1>4 DEF vars
<1> QED  BY <1>1, <1>2, <1>3, <1>4 DEF Next

THEOREM Invariance == Spec => []IInv
<1>1. IInv /\ [Next]_vars => IInv'
  BY TypeStep, FenceStep, StruckStep, BreakStep DEF IInv
<1> QED  BY InitIInv, <1>1, PTL DEF Spec

(* Queues, codings and flags keep their types and sizes. *)
THEOREM TypeCorrect == Spec => []TypeOK
<1>1. IInv => TypeOK
  BY DEF IInv
<1> QED  BY Invariance, <1>1, PTL

(* Every byte goes out in the coding the host had last asked for when the  *)
(* firmware took it, so never in one older than the byte.                  *)
THEOREM FenceHolds == Spec => []CodingFence
<1>1. IInv => CodingFence
  BY DEF IInv
<1> QED  BY Invariance, <1>1, PTL

(* No break outlives the connection of the host that asked for it. *)
THEOREM BreakHasHost == Spec => []BreakNeedsHost
<1>1. IInv => BreakNeedsHost
  BY DEF IInv
<1> QED  BY Invariance, <1>1, PTL
-----------------------------------------------------------------------------
(* The data of a queue, part by part. *)
DataOf(B, D) == \A x \in B : x.data \in D

LEMMA DataType ==
  ASSUME NEW B, NEW D, DataOf(B, D), NEW s \in Seq(B)
  PROVE  /\ Data(s) \in Seq(D) /\ Len(Data(s)) = Len(s)
         /\ \A i \in 1..Len(s) : Data(s)[i] = s[i].data
<1>1. Len(s) \in Nat /\ \A i \in 1..Len(s) : s[i] \in B
  OBVIOUS
<1>2. Data(s) \in [1..Len(s) -> D]
  BY <1>1 DEF Data, DataOf
<1>3. Data(s) \in Seq(D) /\ Len(Data(s)) = Len(s)
  BY <1>1, <1>2, Listed
<1> QED  BY <1>3 DEF Data

(* The i-th datum of three queues in a row. *)
Item(a, b, c, i) ==
  IF i <= Len(a) THEN a[i].data
  ELSE IF i <= Len(a) + Len(b) THEN b[i - Len(a)].data
  ELSE c[i - (Len(a) + Len(b))].data

Stream(a, b, c) == Data(a \o b \o c)

LEMMA StreamIs ==
  ASSUME NEW B, NEW D, DataOf(B, D), NEW a \in Seq(B), NEW b \in Seq(B), NEW c \in Seq(B)
  PROVE  /\ Stream(a, b, c) \in Seq(D)
         /\ Len(Stream(a, b, c)) = Len(a) + Len(b) + Len(c)
         /\ \A i \in 1..Len(a) + Len(b) + Len(c) : Stream(a, b, c)[i] = Item(a, b, c, i)
<1> DEFINE ab == a \o b
           abc == ab \o c
           q == Data(abc)
<1>1. /\ ab \in Seq(B) /\ Len(ab) = Len(a) + Len(b)
      /\ \A i \in 1..Len(a) + Len(b) : ab[i] = IF i <= Len(a) THEN a[i] ELSE b[i - Len(a)]
  BY ConcatProperties
<1> HIDE DEF ab
<1>a. ab \in Seq(B)
  BY <1>1
<1>2. /\ abc \in Seq(B) /\ Len(abc) = Len(ab) + Len(c)
      /\ \A i \in 1..Len(ab) + Len(c) : abc[i] = IF i <= Len(ab) THEN ab[i] ELSE c[i - Len(ab)]
  BY <1>a, ConcatProperties
<1> HIDE DEF abc
<1>3. /\ q \in Seq(D) /\ Len(q) = Len(abc)
      /\ \A i \in 1..Len(abc) : q[i] = abc[i].data
  BY <1>2, DataType
<1> HIDE DEF q
<1>4. Len(a) \in Nat /\ Len(b) \in Nat /\ Len(c) \in Nat
  OBVIOUS
<1>5. ASSUME NEW i \in 1..Len(a) + Len(b) + Len(c) PROVE q[i] = Item(a, b, c, i)
  <2>1. q[i] = abc[i].data /\ abc[i] = IF i <= Len(ab) THEN ab[i] ELSE c[i - Len(ab)]
    BY <1>1, <1>2, <1>3
  <2>2. CASE i <= Len(a) + Len(b)
    <3>1. ab[i] = IF i <= Len(a) THEN a[i] ELSE b[i - Len(a)]
      BY <1>1, <1>4, <2>2
    <3> QED  BY <1>1, <1>4, <2>1, <2>2, <3>1 DEF Item
  <2>3. CASE ~(i <= Len(a) + Len(b))
    BY <1>1, <1>4, <2>1, <2>3 DEF Item
  <2> QED  BY <2>2, <2>3
<1> QED  BY <1>1, <1>2, <1>3, <1>5 DEF Stream, q, abc, ab

(* Queues that agree on every datum form the same stream.                  *)
Agree(a, b, c, a2, b2, c2) ==
  /\ Len(a2) + Len(b2) + Len(c2) = Len(a) + Len(b) + Len(c)
  /\ \A i \in 1..Len(a) + Len(b) + Len(c) : Item(a2, b2, c2, i) = Item(a, b, c, i)

LEMMA SameStream ==
  ASSUME NEW B, NEW D, DataOf(B, D),
         NEW a \in Seq(B), NEW b \in Seq(B), NEW c \in Seq(B),
         NEW a2 \in Seq(B), NEW b2 \in Seq(B), NEW c2 \in Seq(B),
         Agree(a, b, c, a2, b2, c2)
  PROVE  Stream(a2, b2, c2) = Stream(a, b, c)
<1> DEFINE p == Stream(a, b, c)
           q == Stream(a2, b2, c2)
           n == Len(a) + Len(b) + Len(c)
<1>1. p \in Seq(D) /\ Len(p) = n /\ \A i \in 1..n : p[i] = Item(a, b, c, i)
  BY StreamIs
<1>s. /\ q \in Seq(D) /\ Len(q) = Len(a2) + Len(b2) + Len(c2)
      /\ \A i \in 1..Len(a2) + Len(b2) + Len(c2) : q[i] = Item(a2, b2, c2, i)
  BY StreamIs
<1>2. q \in Seq(D) /\ Len(q) = n /\ \A i \in 1..n : q[i] = Item(a2, b2, c2, i)
  BY <1>s DEF Agree
<1> HIDE DEF p, q, n
<1>3. \A i \in 1..n : q[i] = p[i]
  BY <1>1, <1>2 DEF n, Agree
<1>4. p = q
  BY <1>1, <1>2, <1>3, SeqEqual
<1> QED  BY <1>4 DEF p, q

(* Bytes moved from one queue to its neighbour, whatever else of them      *)
(* changes, leave the stream alone: towards the destination ...            *)
LEMMA MovedForward ==
  ASSUME NEW B, NEW D, DataOf(B, D), NEW a \in Seq(B), NEW b \in Seq(B), NEW c \in Seq(B),
         NEW n \in 0..Len(b)
  PROVE  Stream(a \o Take(b, n), Drop(b, n), c) = Stream(a, b, c)
<1> DEFINE k == Take(b, n)
           b2 == Drop(b, n)
           a2 == a \o k
<1>1. /\ k \in Seq(B) /\ Len(k) = n /\ \A i \in 1..n : k[i] = b[i]
      /\ b2 \in Seq(B) /\ Len(b2) = Len(b) - n /\ \A i \in 1..Len(b) - n : b2[i] = b[n + i]
  BY Parts
<1> HIDE DEF k, b2
<1>2. /\ a2 \in Seq(B) /\ Len(a2) = Len(a) + Len(k)
      /\ \A i \in 1..Len(a) + Len(k) : a2[i] = IF i <= Len(a) THEN a[i] ELSE k[i - Len(a)]
  BY <1>1, ConcatProperties
<1> HIDE DEF a2
<1>3. Len(a) \in Nat /\ Len(b) \in Nat /\ Len(c) \in Nat /\ n \in Nat /\ n <= Len(b)
  OBVIOUS
<1>4. ASSUME NEW i \in 1..Len(a) + Len(b) + Len(c) PROVE Item(a2, b2, c, i) = Item(a, b, c, i)
  <2>1. CASE i <= Len(a)
    <3>1. a2[i] = a[i] /\ i <= Len(a2)
      BY <1>1, <1>2, <1>3, <2>1
    <3> QED  BY <2>1, <3>1 DEF Item
  <2>2. CASE ~(i <= Len(a)) /\ i <= Len(a) + n
    <3>1. a2[i] = k[i - Len(a)] /\ k[i - Len(a)] = b[i - Len(a)] /\ i <= Len(a2)
      BY <1>1, <1>2, <1>3, <2>2
    <3> QED  BY <1>3, <2>2, <3>1 DEF Item
  <2>3. CASE ~(i <= Len(a) + n) /\ i <= Len(a) + Len(b)
    <3>1. /\ ~(i <= Len(a2)) /\ i <= Len(a2) + Len(b2) /\ ~(i <= Len(a))
          /\ i - Len(a2) \in 1..Len(b) - n /\ n + (i - Len(a2)) = i - Len(a)
      BY <1>1, <1>2, <1>3, <2>3
    <3>2. b2[i - Len(a2)] = b[i - Len(a)]
      BY <1>1, <3>1
    <3> QED  BY <2>3, <3>1, <3>2 DEF Item
  <2>4. CASE ~(i <= Len(a) + Len(b))
    <3>1. Len(a2) + Len(b2) = Len(a) + Len(b) /\ ~(i <= Len(a)) /\ ~(i <= Len(a2))
      BY <1>1, <1>2, <1>3, <2>4
    <3> QED  BY <2>4, <3>1 DEF Item
  <2> QED  BY <1>3, <2>1, <2>2, <2>3, <2>4
<1>5. Len(a2) + Len(b2) + Len(c) = Len(a) + Len(b) + Len(c)
  BY <1>1, <1>2, <1>3
<1>a. a2 \in Seq(B) /\ b2 \in Seq(B)
  BY <1>1, <1>2
<1>g. Agree(a, b, c, a2, b2, c)
  BY <1>4, <1>5 DEF Agree
<1>6. Stream(a2, b2, c) = Stream(a, b, c)
  BY <1>a, <1>g, SameStream
<1> QED  BY <1>6 DEF a2, b2, k

(* ... and into the middle queue, rewritten on the way.                    *)
LEMMA MovedIn ==
  ASSUME NEW B, NEW D, DataOf(B, D), NEW a \in Seq(B), NEW b \in Seq(B), NEW c \in Seq(B),
         NEW n \in 0..Len(c), NEW k \in Seq(B), Len(k) = n,
         \A i \in 1..n : k[i].data = c[i].data
  PROVE  Stream(a, b \o k, Drop(c, n)) = Stream(a, b, c)
<1> DEFINE c2 == Drop(c, n)
           b2 == b \o k
<1>1. c2 \in Seq(B) /\ Len(c2) = Len(c) - n /\ \A i \in 1..Len(c) - n : c2[i] = c[n + i]
  BY Parts
<1>2. /\ b2 \in Seq(B) /\ Len(b2) = Len(b) + Len(k)
      /\ \A i \in 1..Len(b) + Len(k) : b2[i] = IF i <= Len(b) THEN b[i] ELSE k[i - Len(b)]
  BY ConcatProperties
<1> HIDE DEF c2, b2
<1>3. Len(a) \in Nat /\ Len(b) \in Nat /\ Len(c) \in Nat /\ n \in Nat /\ n <= Len(c)
  OBVIOUS
<1>4. ASSUME NEW i \in 1..Len(a) + Len(b) + Len(c) PROVE Item(a, b2, c2, i) = Item(a, b, c, i)
  <2>1. CASE i <= Len(a)
    BY <2>1 DEF Item
  <2>2. CASE ~(i <= Len(a)) /\ i <= Len(a) + Len(b)
    <3>1. /\ i - Len(a) \in 1..Len(b) + Len(k) /\ i - Len(a) <= Len(b)
          /\ i <= Len(a) + Len(b2)
      BY <1>2, <1>3, <2>2
    <3>2. b2[i - Len(a)] = b[i - Len(a)]
      BY <1>2, <3>1
    <3> QED  BY <2>2, <3>1, <3>2 DEF Item
  <2>3. CASE ~(i <= Len(a) + Len(b)) /\ i <= Len(a) + Len(b) + n
    <3>1. /\ ~(i <= Len(a)) /\ i <= Len(a) + Len(b2)
          /\ i - (Len(a) + Len(b)) \in 1..n /\ (i - Len(a)) - Len(b) = i - (Len(a) + Len(b))
          /\ i - Len(a) \in 1..Len(b) + Len(k) /\ ~(i - Len(a) <= Len(b))
      BY <1>2, <1>3, <2>3
    <3>2. b2[i - Len(a)] = k[i - (Len(a) + Len(b))]
      BY <1>2, <3>1
    <3> QED  BY <2>3, <3>1, <3>2 DEF Item
  <2>4. CASE ~(i <= Len(a) + Len(b) + n)
    <3>1. /\ ~(i <= Len(a)) /\ ~(i <= Len(a) + Len(b)) /\ ~(i <= Len(a) + Len(b2))
          /\ i - (Len(a) + Len(b2)) \in 1..Len(c) - n
          /\ n + (i - (Len(a) + Len(b2))) = i - (Len(a) + Len(b))
      BY <1>2, <1>3, <2>4
    <3>2. c2[i - (Len(a) + Len(b2))] = c[i - (Len(a) + Len(b))]
      BY <1>1, <3>1
    <3> QED  BY <3>1, <3>2 DEF Item
  <2> QED  BY <1>3, <2>1, <2>2, <2>3, <2>4
<1>5. Len(a) + Len(b2) + Len(c2) = Len(a) + Len(b) + Len(c)
  BY <1>1, <1>2, <1>3
<1>a. b2 \in Seq(B) /\ c2 \in Seq(B)
  BY <1>1, <1>2
<1>g. Agree(a, b, c, a, b2, c2)
  BY <1>4, <1>5 DEF Agree
<1>6. Stream(a, b2, c2) = Stream(a, b, c)
  BY <1>a, <1>g, SameStream
<1> QED  BY <1>6 DEF b2, c2

(* What happens to bytes where they are leaves their data alone.           *)
LEMMA MarkedStream ==
  ASSUME NEW a \in Seq(HostByte), NEW b \in Seq(HostByte), NEW c \in Seq(HostByte),
         NEW d \in UartCodings
  PROVE  /\ Stream(a, b, Dated(c, d)) = Stream(a, b, c)
         /\ Stream(Hit(a), b, c) = Stream(a, b, c)
<1>l. Len(a) \in Nat /\ Len(b) \in Nat /\ Len(c) \in Nat
  OBVIOUS
<1>d. DataOf(HostByte, HostBytes)
  BY DEF DataOf, HostByte
<1>1. Agree(a, b, c, a, b, Dated(c, d))
  <2>1. /\ Len(Dated(c, d)) = Len(c)
        /\ \A i \in 1..Len(c) : Dated(c, d)[i].data = c[i].data
    BY Marked
  <2>2. ASSUME NEW i \in 1..Len(a) + Len(b) + Len(c)
        PROVE  Item(a, b, Dated(c, d), i) = Item(a, b, c, i)
    <3>1. ~(i <= Len(a) + Len(b)) => i - (Len(a) + Len(b)) \in 1..Len(c)
      BY <1>l
    <3> QED  BY <1>l, <2>1, <3>1 DEF Item
  <2> QED  BY <2>1, <2>2 DEF Agree
<1>2. Agree(a, b, c, Hit(a), b, c)
  <2>1. Len(Hit(a)) = Len(a) /\ \A i \in 1..Len(a) : Hit(a)[i].data = a[i].data
    BY Marked
  <2>2. ASSUME NEW i \in 1..Len(a) + Len(b) + Len(c)
        PROVE  Item(Hit(a), b, c, i) = Item(a, b, c, i)
    BY <1>l, <2>1 DEF Item
  <2> QED  BY <2>1, <2>2 DEF Agree
<1>3. Dated(c, d) \in Seq(HostByte) /\ Hit(a) \in Seq(HostByte)
  BY Marked
<1> QED  BY <1>d, <1>1, <1>2, <1>3, SameStream

(* The queue nearest the destination delivers its oldest byte.             *)
LEMMA Delivered ==
  ASSUME NEW B, NEW D, DataOf(B, D), NEW a \in Seq(B), NEW b \in Seq(B), NEW c \in Seq(B),
         a # <<>>
  PROVE  Stream(Tail(a), b, c) = Tail(Stream(a, b, c))
<1> DEFINE l == Tail(a)
           p == Stream(l, b, c)
           q == Stream(a, b, c)
<1>1. /\ l \in Seq(B) /\ Len(l) = Len(a) - 1 /\ Len(a) \in Nat /\ Len(a) # 0
      /\ \A i \in 1..Len(l) : l[i] = a[i + 1]
  BY HeadTailProperties, EmptySeq
<1> HIDE DEF l
<1>2. /\ q \in Seq(D) /\ Len(q) = Len(a) + Len(b) + Len(c)
      /\ \A i \in 1..Len(a) + Len(b) + Len(c) : q[i] = Item(a, b, c, i)
  BY StreamIs
<1>t. l \in Seq(B)
  BY <1>1
<1>3. /\ p \in Seq(D) /\ Len(p) = Len(l) + Len(b) + Len(c)
      /\ \A i \in 1..Len(l) + Len(b) + Len(c) : p[i] = Item(l, b, c, i)
  BY <1>t, StreamIs
<1>4. Len(b) \in Nat /\ Len(c) \in Nat
  OBVIOUS
<1> HIDE DEF p, q
<1>5. q # <<>> /\ Len(p) = Len(q) - 1
  BY <1>1, <1>2, <1>3, <1>4, EmptySeq
<1>6. /\ Tail(q) \in Seq(D) /\ Len(Tail(q)) = Len(q) - 1
      /\ \A i \in 1..Len(Tail(q)) : Tail(q)[i] = q[i + 1]
  BY <1>2, <1>5, HeadTailProperties
<1>7. ASSUME NEW i \in 1..Len(p) PROVE p[i] = Tail(q)[i]
  <2>1. i + 1 \in 1..Len(a) + Len(b) + Len(c) /\ i \in 1..Len(l) + Len(b) + Len(c)
    BY <1>1, <1>3, <1>4
  <2>2. Item(l, b, c, i) = Item(a, b, c, i + 1)
    <3>1. CASE i <= Len(l)
      BY <1>1, <1>4, <2>1, <3>1 DEF Item
    <3>2. CASE ~(i <= Len(l))
      <4>1. /\ ~(i + 1 <= Len(a)) /\ (i + 1) - Len(a) = i - Len(l)
            /\ (i + 1) - (Len(a) + Len(b)) = i - (Len(l) + Len(b))
            /\ (i + 1 <= Len(a) + Len(b)) = (i <= Len(l) + Len(b))
        BY <1>1, <1>4, <2>1, <3>2
      <4> QED  BY <3>2, <4>1 DEF Item
    <3> QED  BY <3>1, <3>2
  <2> QED  BY <1>2, <1>3, <1>5, <1>6, <2>1, <2>2
<1>8. p = Tail(q)
  BY <1>3, <1>5, <1>6, <1>7, SeqEqual
<1> QED  BY <1>8 DEF p, q, l

(* A byte joins the queue nearest its source.                              *)
LEMMA Arrived ==
  ASSUME NEW B, NEW D, DataOf(B, D), NEW a \in Seq(B), NEW b \in Seq(B), NEW c \in Seq(B),
         NEW x \in B
  PROVE  /\ Len(Stream(a, b, Append(c, x))) = Len(Stream(a, b, c)) + 1
         /\ Take(Stream(a, b, Append(c, x)), Len(Stream(a, b, c))) = Stream(a, b, c)
<1> DEFINE new == Append(c, x)
           p == Stream(a, b, c)
           q == Stream(a, b, new)
<1>1. new \in Seq(B) /\ Len(new) = Len(c) + 1 /\ \A i \in 1..Len(c) : new[i] = c[i]
  BY AppendProperties
<1> HIDE DEF new
<1>2. /\ p \in Seq(D) /\ Len(p) = Len(a) + Len(b) + Len(c)
      /\ \A i \in 1..Len(a) + Len(b) + Len(c) : p[i] = Item(a, b, c, i)
  BY StreamIs
<1>t. new \in Seq(B)
  BY <1>1
<1>3. /\ q \in Seq(D) /\ Len(q) = Len(a) + Len(b) + Len(new)
      /\ \A i \in 1..Len(a) + Len(b) + Len(new) : q[i] = Item(a, b, new, i)
  BY <1>t, StreamIs
<1>4. Len(a) \in Nat /\ Len(b) \in Nat /\ Len(c) \in Nat
  OBVIOUS
<1> HIDE DEF p, q
<1>5. Len(q) = Len(p) + 1 /\ Len(p) \in 0..Len(q)
  BY <1>1, <1>2, <1>3, <1>4
<1>6. ASSUME NEW i \in 1..Len(p) PROVE q[i] = p[i]
  <2>1. i \in 1..Len(a) + Len(b) + Len(c) /\ i \in 1..Len(a) + Len(b) + Len(new)
    BY <1>1, <1>2, <1>4
  <2>2. ~(i <= Len(a) + Len(b)) => i - (Len(a) + Len(b)) \in 1..Len(c)
    BY <1>4, <2>1
  <2>3. Item(a, b, new, i) = Item(a, b, c, i)
    BY <1>1, <1>4, <2>1, <2>2 DEF Item
  <2> QED  BY <1>2, <1>3, <2>1, <2>3
<1>7. /\ Take(q, Len(p)) \in Seq(D) /\ Len(Take(q, Len(p))) = Len(p)
      /\ \A i \in 1..Len(p) : Take(q, Len(p))[i] = q[i]
  BY <1>3, <1>5, Parts
<1>8. Take(q, Len(p)) = p
  BY <1>2, <1>6, <1>7, SeqEqual
<1> QED  BY <1>5, <1>8 DEF p, q, new
-----------------------------------------------------------------------------
LEMMA HostData == DataOf(HostByte, HostBytes)
BY DEF DataOf, HostByte

LEMMA LineData == DataOf(LineFrame, LineBytes)
BY DEF DataOf, LineFrame

(* Only the connection's own events, and the steps named here, touch the   *)
(* queues towards the line.                                                *)
HostFlow == mounted /\ mounted' => Flows(Outbound, Outbound', Delivers(uartTx, uartTx'))

LEMMA HostStep == TypeOK /\ [Next]_vars => HostFlow
<1> SUFFICES ASSUME TypeOK, [Next]_vars, mounted, mounted'
             PROVE  Flows(Outbound, Outbound', Delivers(uartTx, uartTx'))
  BY DEF HostFlow
<1>t. cdcOut \in Seq(HostByte) /\ hostToLine \in Seq(HostByte) /\ uartTx \in Seq(HostByte)
  BY DEF TypeOK
<1>l. /\ Len(cdcOut) \in Nat /\ Len(hostToLine) \in Nat /\ Len(uartTx) \in Nat
      /\ FifoSize - Len(hostToLine) \in Nat /\ UartDepth - Len(uartTx) \in Nat
  BY KlineAssumption DEF TypeOK
<1>o. /\ Outbound = Stream(uartTx, hostToLine, cdcOut)
      /\ Outbound' = Stream(uartTx', hostToLine', cdcOut')
  BY DEF Outbound, Stream, Data
<1>s. ASSUME Outbound' = Outbound PROVE Flows(Outbound, Outbound', Delivers(uartTx, uartTx'))
  BY <1>s DEF Flows
<1>u. ASSUME UNCHANGED out PROVE Flows(Outbound, Outbound', Delivers(uartTx, uartTx'))
  BY <1>u, <1>o, <1>s DEF out
<1>1. ASSUME NEW c \in Codings, SetCoding(c)
      PROVE  Flows(Outbound, Outbound', Delivers(uartTx, uartTx'))
  <2>1. cdcOut' = Dated(cdcOut, Applied(c)) /\ uartTx' = uartTx /\ hostToLine' = hostToLine
    BY <1>1 DEF SetCoding, Dated
  <2>2. Applied(c) \in UartCodings
    BY CodingTypes
  <2>3. Stream(uartTx, hostToLine, Dated(cdcOut, Applied(c))) = Stream(uartTx, hostToLine, cdcOut)
    BY <1>t, <2>2, MarkedStream
  <2> QED  BY <1>o, <1>s, <2>1, <2>3
<1>2. CASE UsbRx
  <2> DEFINE n == IF pending \/ ~mounted THEN 0
                  ELSE Low(Len(cdcOut), FifoSize - Len(hostToLine))
  <2>1. n \in 0..Len(cdcOut)
    <3>1. Low(Len(cdcOut), FifoSize - Len(hostToLine)) \in 0..Len(cdcOut)
      BY <1>l, LowType
    <3> QED  BY <1>l, <3>1
  <2>2. /\ hostToLine' = hostToLine \o Take(cdcOut, n) /\ cdcOut' = Drop(cdcOut, n)
        /\ uartTx' = uartTx
    BY <1>2 DEF UsbRx, Queue
  <2> HIDE DEF n
  <2>3. /\ Take(cdcOut, n) \in Seq(HostByte) /\ Len(Take(cdcOut, n)) = n
        /\ \A i \in 1..n : Take(cdcOut, n)[i].data = cdcOut[i].data
    BY <1>t, <2>1, Parts
  <2>4. Stream(uartTx, hostToLine \o Take(cdcOut, n), Drop(cdcOut, n))
          = Stream(uartTx, hostToLine, cdcOut)
    BY <1>t, <2>1, <2>3, HostData, MovedIn
  <2> QED  BY <1>o, <1>s, <2>2, <2>4
<1>3. CASE LineTx
  <2> DEFINE n == IF brk THEN 0 ELSE Low(Len(hostToLine), UartDepth - Len(uartTx))
  <2>1. n \in 0..Len(hostToLine)
    <3>1. Low(Len(hostToLine), UartDepth - Len(uartTx)) \in 0..Len(hostToLine)
      BY <1>l, LowType
    <3> QED  BY <1>l, <3>1
  <2>2. /\ uartTx' = uartTx \o Take(hostToLine, n) /\ hostToLine' = Drop(hostToLine, n)
        /\ cdcOut' = cdcOut
    BY <1>3 DEF LineTx
  <2> HIDE DEF n
  <2>3. Stream(uartTx \o Take(hostToLine, n), Drop(hostToLine, n), cdcOut)
          = Stream(uartTx, hostToLine, cdcOut)
    BY <1>t, <2>1, HostData, MovedForward
  <2> QED  BY <1>o, <1>s, <2>2, <2>3
<1>4. ASSUME NEW b \in HostBytes, HostSends(b)
      PROVE  Flows(Outbound, Outbound', Delivers(uartTx, uartTx'))
  <2> DEFINE x == [data |-> b, due |-> Applied(wanted), hit |-> FALSE]
  <2>1. x \in HostByte
    BY CodingTypes DEF HostByte, TypeOK
  <2>2. cdcOut' = Append(cdcOut, x) /\ hostToLine' = hostToLine /\ uartTx' = uartTx
    BY <1>4 DEF HostSends
  <2> HIDE DEF x
  <2>3. /\ Len(Stream(uartTx, hostToLine, Append(cdcOut, x)))
             = Len(Stream(uartTx, hostToLine, cdcOut)) + 1
        /\ Take(Stream(uartTx, hostToLine, Append(cdcOut, x)),
                Len(Stream(uartTx, hostToLine, cdcOut))) = Stream(uartTx, hostToLine, cdcOut)
    BY <1>t, <2>1, HostData, Arrived
  <2> QED  BY <1>o, <2>2, <2>3 DEF Flows
<1>5. CASE UartSends
  <2>1. uartTx # <<>> /\ uartTx' = Tail(uartTx) /\ hostToLine' = hostToLine /\ cdcOut' = cdcOut
    BY <1>5 DEF UartSends
  <2>2. Stream(Tail(uartTx), hostToLine, cdcOut) = Tail(Stream(uartTx, hostToLine, cdcOut))
    BY <1>t, <2>1, HostData, Delivered
  <2> QED  BY <1>o, <2>1, <2>2 DEF Flows, Delivers
<1>6. CASE Mount \/ Unmount \/ Suspend \/ Resume
  BY <1>6 DEF Mount, Unmount, Suspend, Disconnect, Resume
<1>7. CASE AnyBreak
  <2>1. uartTx' = Hit(uartTx) /\ hostToLine' = hostToLine /\ cdcOut' = cdcOut
    BY <1>7 DEF AnyBreak, StartBreak, Hit
  <2>2. Stream(Hit(uartTx), hostToLine, cdcOut) = Stream(uartTx, hostToLine, cdcOut)
    BY <1>t, CodingTypes, MarkedStream
  <2> QED  BY <1>o, <1>s, <2>1, <2>2
<1>8. CASE \/ BreakTimeout \/ LineRx("rxFirst", "usb") \/ UsbDone \/ ApplyCoding
           \/ LineRx("rxAgain", "usbTx") \/ UsbTx \/ EndBreak
  BY <1>8, <1>u DEF BreakTimeout, LineRx, UsbDone, ApplyCoding, UsbTx, EndBreak
<1>9. CASE \/ UsbSends \/ Tick \/ BreakEdge
           \/ \E b \in LineBytes, e \in BOOLEAN : LineByte(b, e)
           \/ \E b \in LineBytes : BreakFrame(b)
  BY <1>9, <1>u DEF UsbSends, Tick, BreakEdge, LineByte, BreakFrame
<1>10. CASE UNCHANGED vars
  BY <1>10, <1>u DEF vars
<1> QED  BY <1>1, <1>2, <1>3, <1>4, <1>5, <1>6, <1>7, <1>8, <1>9, <1>10
         DEF Next, MainLoop, Host, Hardware

(* A destroyed byte was in the UART when the break started.                *)
LEMMA OnlyHit == IInv => (Destroyed => uartTx[1].hit)
<1> SUFFICES ASSUME IInv, Destroyed PROVE uartTx[1].hit
  OBVIOUS
<1>1. uartTx \in Seq(HostByte) /\ uartTx # <<>> /\ (brk \/ cut)
  BY DEF IInv, TypeOK, Destroyed, Delivers
<1>2. 1 \in 1..Len(uartTx)
  BY <1>1, EmptySeq
<1> QED  BY <1>1, <1>2 DEF IInv, Struck

(* While the host stays connected its bytes reach the line in order, none  *)
(* twice, and none is lost but those in the UART when a break starts.      *)
THEOREM HostBytesInOrder == Spec => HostStream
<1> DEFINE Kept == Destroyed => uartTx[1].hit
<1>1. IInv /\ [Next]_vars => [HostFlow /\ Kept]_vars
  BY HostStep, OnlyHit DEF IInv
<1>2. HostFlow /\ Kept => (mounted /\ mounted' =>
         Flows(Outbound, Outbound', Delivers(uartTx, uartTx')) /\ Kept)
  BY DEF HostFlow
<1> HIDE DEF Kept
<1> QED  BY Invariance, <1>1, <1>2, PTL DEF Spec, HostStream, Kept
-----------------------------------------------------------------------------
LEMMA Removed ==
  ASSUME NEW D, NEW s \in Seq(D), NEW j \in 1..Len(s)
  PROVE  /\ RemoveAt(s, j) \in Seq(D) /\ Len(RemoveAt(s, j)) = Len(s) - 1
         /\ \A i \in 1..Len(s) - 1 : RemoveAt(s, j)[i] = IF i < j THEN s[i] ELSE s[i + 1]
<1> DEFINE l == Take(s, j - 1)
           r == Drop(s, j)
           u == l \o r
<1>1. Len(s) \in Nat /\ j - 1 \in 0..Len(s) /\ j \in 0..Len(s) /\ j \in Nat
  OBVIOUS
<1>2. l \in Seq(D) /\ Len(l) = j - 1 /\ \A i \in 1..j - 1 : l[i] = s[i]
  BY <1>1, Parts
<1>3. r \in Seq(D) /\ Len(r) = Len(s) - j /\ \A i \in 1..Len(s) - j : r[i] = s[j + i]
  BY <1>1, Parts
<1>4. RemoveAt(s, j) = u
  BY DEF RemoveAt, Take, Drop
<1> HIDE DEF l, r
<1>t. l \in Seq(D) /\ r \in Seq(D)
  BY <1>2, <1>3
<1>5. /\ u \in Seq(D) /\ Len(u) = Len(l) + Len(r)
      /\ \A i \in 1..Len(l) + Len(r) : u[i] = IF i <= Len(l) THEN l[i] ELSE r[i - Len(l)]
  BY <1>t, ConcatProperties
<1> HIDE DEF u
<1>6. ASSUME NEW i \in 1..Len(s) - 1 PROVE u[i] = IF i < j THEN s[i] ELSE s[i + 1]
  <2>1. CASE i < j
    <3>1. i \in 1..Len(l) + Len(r) /\ i <= Len(l) /\ i \in 1..j - 1
      BY <1>1, <1>2, <1>3, <2>1
    <3> QED  BY <1>2, <1>5, <2>1, <3>1
  <2>2. CASE ~(i < j)
    <3>1. /\ ~(i <= Len(l)) /\ i \in 1..Len(l) + Len(r) /\ i - Len(l) \in 1..Len(s) - j
          /\ j + (i - Len(l)) = i + 1
      BY <1>1, <1>2, <1>3, <2>2
    <3> QED  BY <1>3, <1>5, <2>2, <3>1
  <2> QED  BY <2>1, <2>2
<1>7. Len(u) = Len(s) - 1
  BY <1>1, <1>2, <1>3, <1>5
<1> QED  BY <1>4, <1>5, <1>6, <1>7

(* The middle queue takes n bytes of its source; the next one is lost.     *)
LEMMA Lost ==
  ASSUME NEW B, NEW D, DataOf(B, D), NEW a \in Seq(B), NEW b \in Seq(B), NEW c \in Seq(B),
         NEW n \in Nat, n + 1 <= Len(c), NEW k \in Seq(B), Len(k) = n,
         \A i \in 1..n : k[i].data = c[i].data
  PROVE  /\ Len(a) + Len(b) + n + 1 \in 1..Len(Stream(a, b, c))
         /\ Stream(a, b \o k, Drop(c, n + 1))
               = RemoveAt(Stream(a, b, c), Len(a) + Len(b) + n + 1)
<1> DEFINE c2 == Drop(c, n + 1)
           b2 == b \o k
           q == Stream(a, b, c)
           p == Stream(a, b2, c2)
           j == Len(a) + Len(b) + n + 1
           u == RemoveAt(q, j)
<1>0. Len(a) \in Nat /\ Len(b) \in Nat /\ Len(c) \in Nat /\ n + 1 \in 0..Len(c)
  OBVIOUS
<1>1. c2 \in Seq(B) /\ Len(c2) = Len(c) - (n + 1)
      /\ \A i \in 1..Len(c) - (n + 1) : c2[i] = c[n + 1 + i]
  BY <1>0, Parts
<1>2. /\ b2 \in Seq(B) /\ Len(b2) = Len(b) + Len(k)
      /\ \A i \in 1..Len(b) + Len(k) : b2[i] = IF i <= Len(b) THEN b[i] ELSE k[i - Len(b)]
  BY ConcatProperties
<1> HIDE DEF c2, b2
<1>t. b2 \in Seq(B) /\ c2 \in Seq(B)
  BY <1>1, <1>2
<1>3. /\ q \in Seq(D) /\ Len(q) = Len(a) + Len(b) + Len(c)
      /\ \A i \in 1..Len(a) + Len(b) + Len(c) : q[i] = Item(a, b, c, i)
  BY StreamIs
<1>4. /\ p \in Seq(D) /\ Len(p) = Len(a) + Len(b2) + Len(c2)
      /\ \A i \in 1..Len(a) + Len(b2) + Len(c2) : p[i] = Item(a, b2, c2, i)
  BY <1>t, StreamIs
<1> HIDE DEF p, q
<1>5. j \in 1..Len(q) /\ Len(p) = Len(q) - 1 /\ Len(q) \in Nat
  BY <1>0, <1>1, <1>2, <1>3, <1>4
<1>q. q \in Seq(D)
  BY <1>3
<1>6. /\ u \in Seq(D) /\ Len(u) = Len(q) - 1
      /\ \A i \in 1..Len(q) - 1 : u[i] = IF i < j THEN q[i] ELSE q[i + 1]
  <2> HIDE DEF j
  <2> QED  BY <1>5, <1>q, Removed
<1> HIDE DEF u
<1>7. ASSUME NEW i \in 1..Len(q) - 1 PROVE p[i] = u[i]
  <2>0. /\ i \in 1..Len(a) + Len(b) + Len(c) /\ i + 1 \in 1..Len(a) + Len(b) + Len(c)
        /\ i \in 1..Len(a) + Len(b2) + Len(c2)
    BY <1>0, <1>3, <1>4, <1>5
  <2>1. CASE i <= Len(a)
    <3>1. i < j
      BY <1>0, <2>1
    <3> QED  BY <1>3, <1>4, <1>6, <2>0, <2>1, <3>1 DEF Item
  <2>2. CASE ~(i <= Len(a)) /\ i <= Len(a) + Len(b)
    <3>1. i < j /\ i <= Len(a) + Len(b2) /\ i - Len(a) \in 1..Len(b) + Len(k)
          /\ i - Len(a) <= Len(b)
      BY <1>0, <1>2, <2>2
    <3>2. b2[i - Len(a)] = b[i - Len(a)]
      BY <1>2, <3>1
    <3> QED  BY <1>3, <1>4, <1>6, <2>0, <2>2, <3>1, <3>2 DEF Item
  <2>3. CASE ~(i <= Len(a) + Len(b)) /\ i < j
    <3>1. /\ ~(i <= Len(a)) /\ i <= Len(a) + Len(b2)
          /\ i - (Len(a) + Len(b)) \in 1..n /\ (i - Len(a)) - Len(b) = i - (Len(a) + Len(b))
          /\ i - Len(a) \in 1..Len(b) + Len(k) /\ ~(i - Len(a) <= Len(b))
      BY <1>0, <1>2, <2>3
    <3>2. b2[i - Len(a)] = k[i - (Len(a) + Len(b))]
      BY <1>2, <3>1
    <3> QED  BY <1>3, <1>4, <1>6, <2>0, <2>3, <3>1, <3>2 DEF Item
  <2>4. CASE ~(i < j)
    <3>1. /\ ~(i <= Len(a)) /\ ~(i <= Len(a) + Len(b2))
          /\ ~(i + 1 <= Len(a)) /\ ~(i + 1 <= Len(a) + Len(b))
      BY <1>0, <1>2, <2>4
    <3>2. /\ i - (Len(a) + Len(b2)) \in 1..Len(c) - (n + 1)
          /\ n + 1 + (i - (Len(a) + Len(b2))) = i + 1 - (Len(a) + Len(b))
      BY <1>0, <1>1, <1>2, <2>0, <2>4
    <3>3. c2[i - (Len(a) + Len(b2))] = c[i + 1 - (Len(a) + Len(b))]
      BY <1>1, <3>2
    <3>4. p[i] = Item(a, b2, c2, i) /\ u[i] = Item(a, b, c, i + 1)
      BY <1>3, <1>4, <1>6, <2>0, <2>4
    <3> QED  BY <3>1, <3>3, <3>4 DEF Item
  <2> QED  BY <1>0, <2>1, <2>2, <2>3, <2>4
<1>8. p = u
  BY <1>4, <1>5, <1>6, <1>7, SeqEqual
<1> QED  BY <1>5, <1>8 DEF p, q, u, b2, c2

LineFlow ==
  mounted /\ mounted' =>
    \/ Flows(Inbound, Inbound', Delivers(cdcIn, cdcIn'))
    \/ (brk \/ EndBreak) /\ Data(cdcIn' \o lineToHost') = Data(cdcIn \o lineToHost)
    \/ errors' /\ \E i \in 1..Len(Inbound) : Inbound' = RemoveAt(Inbound, i)

(* service_line_rx moves what fits, and counts the byte that does not.     *)
LEMMA LineRxFlow ==
  ASSUME TypeOK, NEW step \in {"rxFirst", "rxAgain"}, NEW next \in {"usb", "usbTx"},
         LineRx(step, next), mounted
  PROVE  LineFlow
<1>0. /\ uartRx \in Seq(LineFrame) /\ lineToHost \in Seq(LineFrame) /\ cdcIn \in Seq(LineFrame)
  BY DEF TypeOK
<1>o. Inbound = Stream(cdcIn, lineToHost, uartRx) /\ Inbound' = Stream(cdcIn', lineToHost', uartRx')
  BY DEF Inbound, Stream, Data
<1>1. CASE brk
  <2>1. lineToHost' = lineToHost /\ cdcIn' = cdcIn
    BY <1>1 DEF LineRx
  <2>2. Data(cdcIn' \o lineToHost') = Data(cdcIn \o lineToHost)
    BY <2>1
  <2> QED  BY <1>1, <2>2 DEF LineFlow
<1>2. CASE ~brk
  <2> DEFINE room == FifoSize - Len(lineToHost)
             n == Low(Len(uartRx), room + 1)
             kept == Low(n, room)
             k == [i \in 1..kept |-> [uartRx[i] EXCEPT !.err = FALSE]]
  <2>1. /\ uartRx' = Drop(uartRx, n) /\ lineToHost' = lineToHost \o k /\ cdcIn' = cdcIn
        /\ kept < n => errors'
    BY <1>2 DEF LineRx
  <2>2. /\ room \in Nat /\ Len(uartRx) \in Nat
    BY KlineAssumption DEF TypeOK
  <2>3. /\ n \in 0..Len(uartRx) /\ kept \in 0..n
        /\ kept = n \/ kept + 1 = n
    <3> HIDE DEF room
    <3> QED  BY <2>2 DEF Low
  <2> HIDE DEF n, kept
  <2>4. kept \in Nat /\ \A i \in 1..kept : uartRx[i] \in LineFrame
    BY <1>0, <2>2, <2>3
  <2>5. k \in [1..kept -> LineFrame] /\ \A i \in 1..kept : k[i].data = uartRx[i].data
    BY <2>4 DEF LineFrame
  <2> HIDE DEF k
  <2>6. k \in Seq(LineFrame) /\ Len(k) = kept
    BY <2>4, <2>5, Listed
  <2>7. CASE kept = n
    <3>1. Stream(cdcIn, lineToHost \o k, Drop(uartRx, kept)) = Stream(cdcIn, lineToHost, uartRx)
      <4>1. kept \in 0..Len(uartRx)
        BY <2>3, <2>7
      <4> QED  BY <1>0, <2>5, <2>6, <4>1, LineData, MovedIn
    <3>2. Inbound' = Inbound
      BY <1>o, <2>1, <2>7, <3>1, Zenon
    <3> QED  BY <3>2 DEF LineFlow, Flows
  <2>8. CASE kept + 1 = n
    <3> DEFINE j == Len(cdcIn) + Len(lineToHost) + kept + 1
    <3>1. kept + 1 <= Len(uartRx) /\ kept < n
      BY <2>2, <2>3, <2>4, <2>8
    <3>2. /\ j \in 1..Len(Stream(cdcIn, lineToHost, uartRx))
          /\ Stream(cdcIn, lineToHost \o k, Drop(uartRx, kept + 1))
               = RemoveAt(Stream(cdcIn, lineToHost, uartRx), j)
      BY <1>0, <2>4, <2>5, <2>6, <3>1, LineData, Lost
    <3> HIDE DEF j
    <3>3. j \in 1..Len(Inbound) /\ Inbound' = RemoveAt(Inbound, j)
      BY <1>o, <2>1, <2>8, <3>2, Zenon
    <3> QED  BY <2>1, <3>1, <3>3 DEF LineFlow
  <2> QED  BY <2>3, <2>7, <2>8
<1> QED  BY <1>1, <1>2 DEF TypeOK

LEMMA LineStep == TypeOK /\ [Next]_vars => LineFlow
<1> SUFFICES ASSUME TypeOK, [Next]_vars, mounted, mounted' PROVE LineFlow
  BY DEF LineFlow
<1>t. cdcIn \in Seq(LineFrame) /\ lineToHost \in Seq(LineFrame) /\ uartRx \in Seq(LineFrame)
  BY DEF TypeOK
<1>l. Len(cdcIn) \in Nat /\ Len(lineToHost) \in Nat /\ UsbDepth - Len(cdcIn) \in Nat
  BY KlineAssumption DEF TypeOK
<1>o. Inbound = Stream(cdcIn, lineToHost, uartRx) /\ Inbound' = Stream(cdcIn', lineToHost', uartRx')
  BY DEF Inbound, Stream, Data
<1>f. ASSUME Flows(Inbound, Inbound', Delivers(cdcIn, cdcIn')) PROVE LineFlow
  BY <1>f DEF LineFlow
<1>u. ASSUME UNCHANGED <<in, uartRx>> PROVE LineFlow
  BY <1>u, <1>o, <1>f DEF in, Flows
<1>1. CASE BreakTimeout
  <2>1. CASE brk /\ ~indefinite /\ left = 0
    <3>1. Data(cdcIn' \o lineToHost') = Data(cdcIn \o lineToHost)
      BY <1>1 DEF BreakTimeout, in
    <3> QED  BY <2>1, <3>1 DEF LineFlow
  <2>2. CASE ~(brk /\ ~indefinite /\ left = 0)
    BY <1>1, <1>u, <2>2 DEF BreakTimeout, recv
  <2> QED  BY <2>1, <2>2
<1>2. CASE LineRx("rxFirst", "usb") \/ LineRx("rxAgain", "usbTx")
  BY <1>2, LineRxFlow
<1>3. CASE UsbTx
  <2> DEFINE room == UsbDepth - Len(cdcIn)
             n == IF mounted THEN Low(Len(lineToHost), room) ELSE 0
  <2>1. n \in 0..Len(lineToHost)
    <3>1. Low(Len(lineToHost), room) \in 0..Len(lineToHost)
      BY <1>l, LowType
    <3> QED  BY <1>l, <3>1
  <2>2. /\ cdcIn' = cdcIn \o Take(lineToHost, n) /\ lineToHost' = Drop(lineToHost, n)
        /\ uartRx' = uartRx
    BY <1>3 DEF UsbTx, recv
  <2> HIDE DEF n
  <2>3. Stream(cdcIn \o Take(lineToHost, n), Drop(lineToHost, n), uartRx)
          = Stream(cdcIn, lineToHost, uartRx)
    BY <1>t, <2>1, LineData, MovedForward
  <2>4. Inbound' = Inbound
    BY <1>o, <2>2, <2>3, Zenon
  <2> QED  BY <1>f, <2>4 DEF Flows
<1>4. CASE EndBreak
  <2>1. Data(cdcIn' \o lineToHost') = Data(cdcIn \o lineToHost)
    BY <1>4 DEF EndBreak, in
  <2> QED  BY <1>4, <2>1 DEF LineFlow
<1>5. CASE UsbSends
  <2>1. cdcIn # <<>> /\ cdcIn' = Tail(cdcIn) /\ lineToHost' = lineToHost /\ uartRx' = uartRx
    BY <1>5 DEF UsbSends, recv
  <2>2. Stream(Tail(cdcIn), lineToHost, uartRx) = Tail(Stream(cdcIn, lineToHost, uartRx))
    BY <1>t, <2>1, LineData, Delivered
  <2>3. Inbound' = Tail(Inbound)
    BY <1>o, <2>1, <2>2, Zenon
  <2> QED  BY <1>f, <2>1, <2>3 DEF Flows, Delivers
<1>6. ASSUME NEW x \in LineFrame, Arrive(x), UNCHANGED in PROVE LineFlow
  <2>1. CASE Len(uartRx) < UartDepth
    <3>1. uartRx' = Append(uartRx, x) /\ cdcIn' = cdcIn /\ lineToHost' = lineToHost
      BY <1>6, <2>1 DEF Arrive, in
    <3>2. /\ Len(Stream(cdcIn, lineToHost, Append(uartRx, x)))
               = Len(Stream(cdcIn, lineToHost, uartRx)) + 1
          /\ Take(Stream(cdcIn, lineToHost, Append(uartRx, x)),
                  Len(Stream(cdcIn, lineToHost, uartRx))) = Stream(cdcIn, lineToHost, uartRx)
      BY <1>t, LineData, Arrived
    <3>3. Len(Inbound') = Len(Inbound) + 1 /\ Take(Inbound', Len(Inbound)) = Inbound
      BY <1>o, <3>1, <3>2, Zenon
    <3> QED  BY <1>f, <3>3 DEF Flows
  <2>2. CASE ~(Len(uartRx) < UartDepth)
    BY <1>6, <1>u, <2>2 DEF Arrive
  <2> QED  BY <2>1, <2>2
<1>7. ASSUME NEW b \in LineBytes, NEW e \in BOOLEAN, LineByte(b, e) PROVE LineFlow
  <2>1. [data |-> b, err |-> e, synthetic |-> FALSE] \in LineFrame
    BY DEF LineFrame
  <2> QED  BY <1>6, <1>7, <2>1 DEF LineByte
<1>8. ASSUME NEW b \in LineBytes, BreakFrame(b) PROVE LineFlow
  <2>1. [data |-> b, err |-> brk, synthetic |-> TRUE] \in LineFrame
    BY DEF LineFrame, TypeOK
  <2> QED  BY <1>6, <1>8, <2>1 DEF BreakFrame
<1>9. CASE Mount \/ Unmount \/ Suspend \/ Resume
  BY <1>9 DEF Mount, Unmount, Suspend, Disconnect, Resume
<1>10. CASE \/ UsbDone \/ ApplyCoding \/ UsbRx \/ LineTx
            \/ (\E b \in HostBytes : HostSends(b))
            \/ (\E c \in Codings : SetCoding(c))
  BY <1>10, <1>u DEF UsbDone, ApplyCoding, UsbRx, Queue, LineTx, HostSends, SetCoding, recv
<1>11. CASE AnyBreak \/ UartSends \/ Tick \/ BreakEdge
  BY <1>11, <1>u DEF AnyBreak, StartBreak, UartSends, Tick, BreakEdge, recv
<1>12. CASE UNCHANGED vars
  BY <1>12, <1>u DEF vars, recv
<1> QED  BY <1>1, <1>2, <1>3, <1>4, <1>5, <1>7, <1>8, <1>9, <1>10, <1>11, <1>12
         DEF Next, MainLoop, Host, Hardware

(* Towards the host a byte is lost only to a break or, counted, to a full  *)
(* FIFO.                                                                   *)
THEOREM LineBytesInOrder == Spec => LineStream
<1>1. IInv /\ [Next]_vars => [LineFlow]_vars
  BY LineStep DEF IInv
<1> QED  BY Invariance, <1>1, PTL DEF Spec, LineStream, LineFlow
=============================================================================
