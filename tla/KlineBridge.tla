----------------------------- MODULE KlineBridge -----------------------------
(***************************************************************************)
(* The USB to K-line bridge of pico_kline_adapter/main.c.  One main loop   *)
(* calls the service functions in a fixed order; TinyUSB delivers the      *)
(* host's events inside tud_task, the UART and the clock run by themselves *)
(* between any two calls.                                                  *)
(*                                                                         *)
(* A host byte carries the line coding it is due to go out in and whether  *)
(* a break was asserted while the UART held it.  A line byte carries its   *)
(* error status and whether it is the frame a break produced.              *)
(***************************************************************************)
EXTENDS Naturals, SequencesExt

CONSTANTS HostBytes, LineBytes, \* data the two sides send
          Codings,              \* line codings the host asks for
          Supported, Default,   \* per setting: what the UART takes, the fallback
          FifoSize,             \* FIFO_SIZE
          UartDepth, UsbDepth,  \* UART and TinyUSB queue depths
          MaxBreak              \* bound on a finite break's duration

Settings == {"rate", "bits", "stop", "parity"}

ASSUME KlineAssumption ==
  /\ \A f \in Settings : Default[f] \in Supported[f]
  /\ \A c \in Codings \cup {Default} : c = [f \in Settings |-> c[f]]
  /\ FifoSize \in Nat \ {0} /\ UartDepth \in Nat \ {0} /\ UsbDepth \in Nat \ {0}
  /\ MaxBreak \in Nat \ {0}

VARIABLES pc,
          mounted,                  \* usb_mounted
          cdcOut, hostToLine, uartTx,  \* host to line, nearest the host first
          cdcIn, lineToHost, uartRx,   \* line to host, nearest the host first
          status,                   \* UART receive status: [frame, overrun]
          cut,                      \* a break hit the frame the UART is sending
          brk, indefinite, left,    \* break_active, break_indefinite, deadline
          forming,                  \* a frame begun under a break is arriving
          pending, wanted, coding,  \* coding_pending, pending_coding, UART's
          errors                    \* error_count # 0

out  == <<cdcOut, hostToLine, uartTx, cut>>
in   == <<cdcIn, lineToHost>>
recv == <<uartRx, status>>
hold == <<brk, indefinite, left>>
setting == <<pending, wanted, coding>>
vars == <<pc, mounted, out, in, recv, hold, forming, setting, errors>>

Steps == {"timer", "rxFirst", "usb", "coding", "usbRx", "lineTx", "rxAgain", "usbTx"}
NoError == [frame |-> FALSE, overrun |-> FALSE]

Low(a, b) == IF a < b THEN a ELSE b
Drop(s, n) == SubSeq(s, n + 1, Len(s))
Take(s, n) == SubSeq(s, 1, n)

Init ==
  /\ pc = "timer" /\ mounted = FALSE
  /\ cdcOut = <<>> /\ hostToLine = <<>> /\ uartTx = <<>> /\ cut = FALSE
  /\ cdcIn = <<>> /\ lineToHost = <<>> /\ uartRx = <<>> /\ status = NoError
  /\ brk = FALSE /\ indefinite = FALSE /\ left = 0 /\ forming = FALSE
  /\ pending = FALSE /\ wanted = Default /\ coding = Default
  /\ errors = FALSE
-----------------------------------------------------------------------------
(* set_break(false) also discards what the receiver holds. *)
ReleaseBreak ==
  /\ brk' = FALSE /\ indefinite' = FALSE /\ left' = left
  /\ uartRx' = <<>> /\ status' = NoError

(* The main loop, one service function per step. *)
At(step, next) == pc = step /\ pc' = next

(* Fault: the deadline is looked at for the wrong kind of break. *)
BreakTimeoutSwapped ==
  /\ At("timer", "rxFirst")
  /\ IF brk /\ indefinite /\ left = 0
     THEN ReleaseBreak
     ELSE UNCHANGED <<hold, recv>>
  /\ UNCHANGED <<mounted, out, in, forming, setting, errors>>

BreakTimeout ==
  /\ At("timer", "rxFirst")
  /\ IF brk /\ ~indefinite /\ left = 0
     THEN ReleaseBreak
     ELSE UNCHANGED <<hold, recv>>
  /\ UNCHANGED <<mounted, out, in, forming, setting, errors>>

(* service_line_rx: reading a byte moves its error into the status         *)
(* register, replacing the byte before's.  The register is looked at and   *)
(* cleared once, before the reads; a byte beyond the FIFO's room is read,  *)
(* lost and counted, and ends the loop.                                    *)
StatusAfter(n) == [frame |-> n > 0 /\ uartRx[n].err, overrun |-> FALSE]

(* Fault: the bytes of a full FIFO are lost without being counted. *)
LineRxSilent(step, next) ==
  /\ At(step, next)
  /\ LET room == FifoSize - Len(lineToHost)
         kept == IF mounted THEN Low(Len(uartRx), room) ELSE 0
     IN /\ uartRx' = <<>>
        /\ status' = StatusAfter(Len(uartRx))
        /\ lineToHost' = lineToHost \o Take(uartRx, kept)
  /\ UNCHANGED <<mounted, out, cdcIn, hold, forming, setting, errors>>

LineRx(step, next) ==
  /\ At(step, next)
  /\ IF brk
     THEN /\ uartRx' = <<>> /\ status' = NoError
          /\ UNCHANGED <<lineToHost, errors>>
     ELSE LET room == FifoSize - Len(lineToHost)
              n == IF mounted THEN Low(Len(uartRx), room + 1) ELSE Len(uartRx)
              kept == IF mounted THEN Low(n, room) ELSE 0
              bytes == [i \in 1..kept |-> [uartRx[i] EXCEPT !.err = FALSE]]
          IN /\ uartRx' = Drop(uartRx, n)
             /\ status' = StatusAfter(n)
             /\ lineToHost' = lineToHost \o bytes
             /\ errors' = (errors \/ status # NoError \/ (mounted /\ kept < n))
  /\ UNCHANGED <<mounted, out, cdcIn, hold, forming, setting>>

(* apply_pending_coding: each unsupported setting is replaced and counted. *)
Applied(c) == [f \in Settings |-> IF c[f] \in Supported[f] THEN c[f] ELSE Default[f]]

ApplyCoding ==
  /\ At("coding", "usbRx")
  /\ IF pending /\ ~brk /\ hostToLine = <<>> /\ uartTx = <<>>
     THEN /\ coding' = Applied(wanted)
          /\ errors' = (errors \/ Applied(wanted) # wanted)
          /\ pending' = FALSE
     ELSE UNCHANGED <<coding, errors, pending>>
  /\ UNCHANGED <<mounted, out, in, recv, hold, forming, wanted>>

(* service_usb_rx takes the first n bytes from TinyUSB. *)
Queue(n) ==
  /\ At("usbRx", "lineTx")
  /\ hostToLine' = hostToLine \o Take(cdcOut, n)
  /\ cdcOut' = Drop(cdcOut, n)
  /\ UNCHANGED <<mounted, uartTx, cut, in, recv, hold, forming, setting, errors>>

(* Fault: bytes behind a pending coding are taken in. *)
UsbRxAlways ==
  Queue(IF mounted THEN Low(Len(cdcOut), FifoSize - Len(hostToLine)) ELSE 0)

(* It waits for a pending coding and for room. *)
UsbRx ==
  Queue(IF pending \/ ~mounted THEN 0
        ELSE Low(Len(cdcOut), FifoSize - Len(hostToLine)))

(* Fault: the UART is fed during a break too. *)
LineTxThroughBreak ==
  /\ At("lineTx", "rxAgain")
  /\ LET n == Low(Len(hostToLine), UartDepth - Len(uartTx))
     IN /\ uartTx' = uartTx \o Take(hostToLine, n)
        /\ hostToLine' = Drop(hostToLine, n)
  /\ UNCHANGED <<mounted, cdcOut, cut, in, recv, hold, forming, setting, errors>>

(* service_line_tx *)
LineTx ==
  /\ At("lineTx", "rxAgain")
  /\ LET n == IF brk THEN 0 ELSE Low(Len(hostToLine), UartDepth - Len(uartTx))
     IN /\ uartTx' = uartTx \o Take(hostToLine, n)
        /\ hostToLine' = Drop(hostToLine, n)
  /\ UNCHANGED <<mounted, cdcOut, cut, in, recv, hold, forming, setting, errors>>

(* service_usb_tx *)
UsbTx ==
  /\ At("usbTx", "timer")
  /\ LET room == UsbDepth - Len(cdcIn)
         n == IF mounted THEN Low(Len(lineToHost), room) ELSE 0
     IN /\ cdcIn' = cdcIn \o Take(lineToHost, n)
        /\ lineToHost' = Drop(lineToHost, n)
  /\ UNCHANGED <<mounted, out, recv, hold, forming, setting, errors>>

(* tud_task returns when it has no more events. *)
UsbDone ==
  /\ At("usb", "coding")
  /\ UNCHANGED <<mounted, out, in, recv, hold, forming, setting, errors>>

MainLoop == \/ BreakTimeout \/ LineRx("rxFirst", "usb") \/ UsbDone
            \/ ApplyCoding \/ UsbRx \/ LineTx
            \/ LineRx("rxAgain", "usbTx") \/ UsbTx
-----------------------------------------------------------------------------
(* What the host does, delivered by tud_task. *)
Event == pc = "usb" /\ pc' = pc

HostSends(b) ==
  /\ Event /\ mounted /\ Len(cdcOut) < UsbDepth
  /\ cdcOut' = Append(cdcOut, [data |-> b, due |-> Applied(wanted), hit |-> FALSE])
  /\ UNCHANGED <<mounted, hostToLine, uartTx, cut, in, recv, hold, forming, setting, errors>>

(* tud_cdc_line_coding_cb.  The firmware holds back what TinyUSB still has *)
(* until the coding is applied: those bytes are due in it too, although    *)
(* the host sent them before.                                              *)
SetCoding(c) ==
  /\ Event /\ mounted
  /\ pending' = TRUE /\ wanted' = c
  /\ cdcOut' = [i \in 1..Len(cdcOut) |-> [cdcOut[i] EXCEPT !.due = Applied(c)]]
  /\ UNCHANGED <<mounted, hostToLine, uartTx, cut, in, recv, hold, forming, coding, errors>>

(* tud_cdc_send_break_cb: zero releases, 0xffff holds without a deadline.  *)
EndBreak ==
  /\ Event /\ mounted
  /\ ReleaseBreak
  /\ UNCHANGED <<mounted, out, in, forming, setting, errors>>

(* The pin is overridden at once, over whatever the UART is sending.       *)
StartBreak(ticks, forever) ==
  /\ Event /\ mounted
  /\ brk' = TRUE /\ indefinite' = forever
  /\ left' = IF forever THEN left ELSE ticks
  /\ uartTx' = [i \in 1..Len(uartTx) |-> [uartTx[i] EXCEPT !.hit = TRUE]]
  /\ cut' = (uartTx # <<>>)
  /\ UNCHANGED <<mounted, cdcOut, hostToLine, in, recv, forming, setting, errors>>

AnyBreak == \E t \in 1..MaxBreak : StartBreak(t, FALSE) \/ StartBreak(t, TRUE)

(* tud_mount_cb; enumeration resets TinyUSB's own queues.                  *)
Mount ==
  /\ Event /\ ~mounted
  /\ mounted' = TRUE
  /\ hostToLine' = <<>> /\ lineToHost' = <<>>
  /\ cdcOut' = <<>> /\ cdcIn' = <<>>
  /\ UNCHANGED <<uartTx, cut, recv, hold, forming, setting, errors>>

(* Fault: the break outlives the connection. *)
DisconnectHolding ==
  /\ Event /\ mounted
  /\ mounted' = FALSE
  /\ hostToLine' = <<>> /\ lineToHost' = <<>>
  /\ UNCHANGED <<uartTx, cut, recv, hold, forming, setting, errors>>

Disconnect ==
  /\ Event /\ mounted
  /\ mounted' = FALSE /\ ReleaseBreak
  /\ hostToLine' = <<>> /\ lineToHost' = <<>>
  /\ UNCHANGED <<uartTx, cut, forming, setting, errors>>

(* tud_umount_cb *)
Unmount == Disconnect /\ cdcOut' = <<>> /\ cdcIn' = <<>>

(* tud_suspend_cb leaves TinyUSB's queues alone, tud_resume_cb everything. *)
Suspend == Disconnect /\ UNCHANGED <<cdcOut, cdcIn>>

Resume ==
  /\ Event /\ ~mounted
  /\ mounted' = TRUE
  /\ UNCHANGED <<out, in, recv, hold, forming, setting, errors>>

Host == \/ \E b \in HostBytes : HostSends(b)
        \/ \E c \in Codings : SetCoding(c)
        \/ EndBreak \/ AnyBreak
        \/ Mount \/ Unmount \/ Suspend \/ Resume
-----------------------------------------------------------------------------
(* The hardware. *)
(* The UART shifts its bytes out whether or not the pin is overridden: a   *)
(* frame under way when a break starts, during one, or when it ends is     *)
(* destroyed.                                                              *)
UartSends ==
  /\ uartTx # <<>>
  /\ uartTx' = Tail(uartTx)
  /\ cut' = (brk /\ Tail(uartTx) # <<>>)
  /\ UNCHANGED <<pc, mounted, cdcOut, hostToLine, in, recv, hold, forming, setting, errors>>

(* A byte arrives; a full receive FIFO loses it and reports an overrun.    *)
Arrive(byte) ==
  IF Len(uartRx) < UartDepth
  THEN uartRx' = Append(uartRx, byte) /\ UNCHANGED status
  ELSE status' = [status EXCEPT !.overrun = TRUE] /\ UNCHANGED uartRx

LineByte(b, err) ==
  /\ ~brk /\ ~forming
  /\ Arrive([data |-> b, err |-> err, synthetic |-> FALSE])
  /\ UNCHANGED <<pc, mounted, out, in, hold, forming, setting, errors>>

(* The receiver takes a break's falling edge for a start bit; the frame is *)
(* complete a frame time later, however long the break lasts.              *)
BreakEdge ==
  /\ brk /\ ~forming
  /\ forming' = TRUE
  /\ UNCHANGED <<pc, mounted, out, in, recv, hold, setting, errors>>

BreakFrame(b) ==
  /\ forming
  /\ forming' = FALSE
  /\ Arrive([data |-> b, err |-> brk, synthetic |-> TRUE])
  /\ UNCHANGED <<pc, mounted, out, in, hold, setting, errors>>

UsbSends ==
  /\ mounted /\ cdcIn # <<>>
  /\ cdcIn' = Tail(cdcIn)
  /\ UNCHANGED <<pc, mounted, out, lineToHost, recv, hold, forming, setting, errors>>

Tick ==
  /\ left > 0
  /\ left' = left - 1
  /\ UNCHANGED <<pc, mounted, out, in, recv, brk, indefinite, forming, setting, errors>>

Hardware == \/ UartSends \/ UsbSends \/ Tick \/ BreakEdge
            \/ \E b \in LineBytes, e \in BOOLEAN : LineByte(b, e)
            \/ \E b \in LineBytes : BreakFrame(b)

Next == MainLoop \/ Host \/ Hardware

Spec == Init /\ [][Next]_vars

(* The watchdog keeps the loop running; the UART sends and time passes.    *)
FairSpec == Spec /\ WF_vars(MainLoop) /\ WF_vars(UartSends) /\ WF_vars(Tick)
-----------------------------------------------------------------------------
UartCodings == { Applied(c) : c \in Codings \cup {Default} }
HostByte == [data : HostBytes, due : UartCodings, hit : BOOLEAN]
LineFrame == [data : LineBytes, err : BOOLEAN, synthetic : BOOLEAN]

TypeOK ==
  /\ pc \in Steps /\ mounted \in BOOLEAN
  /\ cdcOut \in Seq(HostByte) /\ Len(cdcOut) <= UsbDepth
  /\ hostToLine \in Seq(HostByte) /\ Len(hostToLine) <= FifoSize
  /\ uartTx \in Seq(HostByte) /\ Len(uartTx) <= UartDepth /\ cut \in BOOLEAN
  /\ cdcIn \in Seq(LineFrame) /\ Len(cdcIn) <= UsbDepth
  /\ lineToHost \in Seq(LineFrame) /\ Len(lineToHost) <= FifoSize
  /\ uartRx \in Seq(LineFrame) /\ Len(uartRx) <= UartDepth
  /\ status \in [frame : BOOLEAN, overrun : BOOLEAN]
  /\ brk \in BOOLEAN /\ indefinite \in BOOLEAN /\ left \in 0..MaxBreak
  /\ forming \in BOOLEAN /\ pending \in BOOLEAN /\ errors \in BOOLEAN
  /\ wanted \in Codings \cup {Default} /\ coding \in UartCodings

Data(s) == [i \in 1..Len(s) |-> s[i].data]
Outbound == Data(uartTx \o hostToLine \o cdcOut)
Inbound == Data(cdcIn \o lineToHost \o uartRx)

(* One step left a stream as it was, took its oldest byte out of the queue *)
(* nearest its destination, or added a byte at its end.                    *)
Delivers(queue, next) == queue # <<>> /\ next = Tail(queue)
Flows(old, new, delivers) ==
  \/ new = old
  \/ delivers /\ new = Tail(old)
  \/ Len(new) = Len(old) + 1 /\ Take(new, Len(old)) = old

(* Towards the line, while the host stays connected, no byte is repeated   *)
(* or overtaken by another, however the queues fill up, breaks come and go *)
(* or codings change; and none is lost but those the UART already held     *)
(* when the host asserted a break: what still waits in the bridge goes out *)
(* whole, after the break.                                                 *)
Destroyed == Delivers(uartTx, uartTx') /\ (brk \/ cut)
HostStream ==
  [][mounted /\ mounted' =>
       /\ Flows(Outbound, Outbound', Delivers(uartTx, uartTx'))
       /\ Destroyed => uartTx[1].hit]_vars

(* And towards the host, except for what it drops knowingly: the           *)
(* receiver's content during a break or at a request to release one, and   *)
(* the byte that finds the FIFO full, which is counted as an error.        *)
LineStream ==
  [][mounted /\ mounted' =>
       \/ Flows(Inbound, Inbound', Delivers(cdcIn, cdcIn'))
       \/ (brk \/ EndBreak) /\ Data(cdcIn' \o lineToHost') = Data(cdcIn \o lineToHost)
       \/ errors' /\ \E i \in 1..Len(Inbound) : Inbound' = RemoveAt(Inbound, i)]_vars

(* A byte goes out in the line coding the host had last asked for when the *)
(* firmware took it from TinyUSB: never in one older than the byte, and    *)
(* the coding never changes under bytes already taken.  It may be newer: a *)
(* byte sent before a coding goes out in it when TinyUSB still has it.     *)
CodingFence ==
  \A s \in {hostToLine, uartTx} : \A i \in 1..Len(s) : s[i].due = coding

(* Nobody is left holding the line down: a break belongs to a connected    *)
(* host, and one with a duration ends although the host asks for nothing.  *)
BreakNeedsHost == brk => mounted
FiniteBreakEnds ==
  <>[][~AnyBreak]_vars => (brk /\ ~indefinite ~> ~brk \/ indefinite)

(* A requested line coding is applied even under a stream of host bytes,   *)
(* as long as breaks stop: the bytes behind it are held back, those before *)
(* it drain.                                                               *)
CodingApplied == <>[]~brk => (pending ~> ~pending)

(* "Do not expose the UART's synthetic break/framing byte as K-line data." *)
NoSyntheticByte ==
  \A s \in {lineToHost, cdcIn} : \A i \in 1..Len(s) : ~s[i].synthetic

(* "rapidly flash after an ... UART error": an error the receiver reports  *)
(* on a line byte is counted before its last trace is gone.                *)
ErrorSignal == status # NoError \/ \E i \in 1..Len(uartRx) : uartRx[i].err
UartErrorCounted ==
  [][~brk /\ ~EndBreak /\ mounted /\ mounted' /\ ErrorSignal /\ ~ErrorSignal'
       => errors']_vars
=============================================================================
