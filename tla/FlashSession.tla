----------------------------- MODULE FlashSession -----------------------------
(***************************************************************************)
(* Writing an image through the RAM kernel, as the FastECU host patched by *)
(* host_flash_safety.patch does it: identify or upload the kernel, compare *)
(* block CRCs, then erase, fill the kernel's buffer message by message and *)
(* validate or commit it, buffer by buffer.  Requests and replies may be   *)
(* lost, damaged or late; a failed session may be tried again while the    *)
(* kernel runs.                                                            *)
(*                                                                         *)
(* A CRC tells any two contents apart.  What of the host is not in the     *)
(* patch, and the kernel, are the code the patch and kernel_180nm.patch    *)
(* apply to.                                                               *)
(***************************************************************************)
EXTENDS Integers, Sequences, FiniteSets

CONSTANTS Blocks,     \* erase blocks 1..Blocks of the flash
          Buffers,    \* buffers in an erase block
          Messages,   \* messages in a buffer
          MaxFaults   \* bound on the faults of a behaviour

ASSUME FlashAssumption == /\ {Blocks, Buffers, Messages} \subseteq Nat \ {0}
                          /\ MaxFaults \in Nat

VARIABLES flash,      \* what each buffer-sized piece of each block holds
          kernel,     \* the program that runs in the controller
          enabled,    \* the kernel's reflash_enabled
          buffer, index, \* its flash buffer and flashbufferindex
          at,         \* the host's place in the session
          waiting,    \* the host has asked and not yet judged the reply
          wire,       \* replies sent and not yet read
          write,      \* a real write, not a test write
          fits,       \* the chosen file is a D2WD610H image of full size
          differing,  \* blocks whose CRC differs from the file's
          outcome,
          touched,    \* history: flash changed in this session
          attempted,  \* history: a real erase has been attempted
          faults

controller == <<flash, kernel, enabled, buffer, index, touched, attempted>>
session == <<write, fits, differing, outcome>>
flashVars == <<controller, at, waiting, wire, session, faults>>

Piece == {"image", "old", "blank", "part"}
Place == [step : {"id", "upload", "id again", "crc", "msgsize", "blksize", "mode", "volt",
                  "erase", "load", "store", "crc again", "over"},
          block : 1..Blocks, piece : 1..Buffers, message : 1..Messages]

Junk == <<0, 0, 0>>
Entry(step) == [step |-> step, block |-> 1, piece |-> 1, message |-> 1]
Image(b, k) == [m \in 1..Messages |-> <<b, k, m>>]
Whole(b, content) == [flash EXCEPT ![b] = [k \in 1..Buffers |-> content]]
IsImage(contents) == \A k \in 1..Buffers : contents[k] = "image"
Fault == faults < MaxFaults /\ faults' = faults + 1
-----------------------------------------------------------------------------
(* Frames.  An acknowledgement names the command it answers.               *)
Ack(command, payload) == [kind |-> "ack", command |-> command, payload |-> payload]
Nack(command) == [kind |-> "nack", command |-> command, payload |-> "detail"]
Damaged(frame) == [frame EXCEPT !.kind = "damaged"]
Nothing == [kind |-> "short", command |-> "none", payload |-> "none"]

(* A read takes all that has arrived: two frames are not a frame.          *)
Read(w) == IF w = <<>> THEN Nothing
           ELSE IF Len(w) = 1 THEN w[1] ELSE Damaged(w[1])

(* Fault: the unpatched host's test, which only looks at the command.      *)
ValidCommand(frame, command) == frame.command = command

(* checkKernelFrame *)
Valid(frame, command) == frame.kind = "ack" /\ frame.command = command

Command(place) == IF place.step = "id again" THEN "id"
                  ELSE IF place.step = "crc again" THEN "crc" ELSE place.step
-----------------------------------------------------------------------------
(* The kernel's command handlers.                                          *)
Reply(frame) == wire' = Append(wire, frame)
Answer(command, payload) ==
  Reply(Ack(command, payload)) /\ UNCHANGED <<controller, faults>>

(* FLASH_ENABLE or FLASH_DISABLE, whose initialization may fail.           *)
FlashInit ==
  /\ \/ enabled' = write /\ Reply(Ack("mode", "none")) /\ UNCHANGED faults
     \/ Fault /\ Reply(Nack("mode")) /\ UNCHANGED enabled
  /\ UNCHANGED <<flash, kernel, buffer, index, touched, attempted>>

(* The erase itself, which test mode pretends.                             *)
EraseFlash(b) ==
  /\ attempted' = (attempted \/ enabled) /\ touched' = (touched \/ enabled)
  /\ \/ /\ flash' = IF enabled THEN Whole(b, "blank") ELSE flash
        /\ Reply(Ack("erase", "none")) /\ UNCHANGED faults
     \/ enabled /\ Fault /\ flash' = Whole(b, "part") /\ Reply(Nack("erase"))
  /\ UNCHANGED <<kernel, enabled, buffer>>

(* Fault: the place in the buffer survives from an earlier session.        *)
EraseKeepsIndex(b) == EraseFlash(b) /\ UNCHANGED index
Erase(b) == EraseFlash(b) /\ index' = 0

(* WRITE_FLASH_BUFFER: the next place in the buffer, whatever the address. *)
Load(content) ==
  /\ buffer' = [buffer EXCEPT ![index + 1] = content]
  /\ index' = IF index + 1 >= Messages THEN 0 ELSE index + 1
  /\ Reply(Ack("load", "none"))
  /\ UNCHANGED <<flash, kernel, enabled, touched, attempted, faults>>

Validate(b, k) ==
  /\ Reply(IF buffer = Image(b, k) THEN Ack("store", "none") ELSE Nack("store"))
  /\ UNCHANGED <<controller, faults>>

(* The piece after platf_flash_wb, which test mode pretends.               *)
Programmed(b, k) ==
  IF ~enabled THEN flash[b][k]
  ELSE IF flash[b][k] = "blank" /\ buffer = Image(b, k) THEN "image" ELSE "part"

(* Commit programs the whole buffer, then compares the flash.              *)
Commit(b, k) ==
  /\ \E content \in {Programmed(b, k), "part"} :
       /\ IF content = Programmed(b, k) THEN UNCHANGED faults ELSE enabled /\ Fault
       /\ flash' = [flash EXCEPT ![b][k] = content]
       /\ Reply(IF content = "image" THEN Ack("store", "none") ELSE Nack("store"))
  /\ touched' = (touched \/ enabled)
  /\ UNCHANGED <<kernel, enabled, buffer, index, attempted>>

Handle(p) ==
  \/ Command(p) = "id" /\ Answer("id", kernel)
  \/ Command(p) = "crc" /\ Answer("crc", flash[p.block])
  \/ p.step \in {"msgsize", "blksize", "volt"} /\ Answer(p.step, "none")
  \/ p.step = "mode" /\ FlashInit
  \/ p.step = "erase" /\ Erase(p.block)
  \/ p.step = "load" /\ Load(<<p.block, p.piece, p.message>>)
  \/ p.step = "store" /\ ~write /\ Validate(p.block, p.piece)
  \/ p.step = "store" /\ write /\ Commit(p.block, p.piece)
-----------------------------------------------------------------------------
FlashInitial ==
  /\ \E same \in SUBSET (1..Blocks) :
       flash = [b \in 1..Blocks |-> [k \in 1..Buffers |-> IF b \in same THEN "image" ELSE "old"]]
  /\ kernel \in {"none", "generic", "d2wd"}
  /\ enabled = FALSE /\ index = 0 /\ buffer = [m \in 1..Messages |-> Junk]
  /\ at = Entry("over") /\ waiting = FALSE /\ wire = <<>>
  /\ write = FALSE /\ fits = FALSE /\ differing = {} /\ outcome = "none"
  /\ touched = FALSE /\ attempted = FALSE /\ faults = 0

(* Opening the port may or may not discard what arrived since.             *)
Start(real, file) ==
  /\ at.step = "over"
  /\ at' = Entry("id") /\ waiting' = FALSE
  /\ write' = real /\ fits' = file /\ differing' = {} /\ outcome' = "none"
  /\ touched' = FALSE /\ wire' \in {<<>>, wire}
  /\ UNCHANGED <<flash, kernel, enabled, buffer, index, attempted, faults>>

(* Ignition off and on, which the host only allows before a real erase.    *)
RestartEcu ==
  /\ at.step = "over" /\ ~attempted /\ kernel # "none"
  /\ kernel' = "none" /\ enabled' = FALSE
  /\ UNCHANGED <<flash, buffer, index, touched, attempted, at, waiting, wire, session, faults>>

(* A request reaches the kernel, or is lost; stock code answers none.      *)
Ask ==
  /\ at.step \notin {"over", "upload"} /\ ~waiting
  /\ waiting' = TRUE
  /\ IF kernel = "none" THEN UNCHANGED <<controller, wire, faults>> ELSE Handle(at)
  /\ UNCHANGED <<at, session>>

RequestLost ==
  /\ at.step \notin {"over", "upload"} /\ ~waiting
  /\ waiting' = TRUE /\ Fault
  /\ UNCHANGED <<controller, wire, at, session>>

(* The boot loader of stock code takes the kernel; a running kernel        *)
(* does not understand it.                                                 *)
Finish(result) == at' = Entry("over") /\ outcome' = result

Upload ==
  /\ at.step = "upload"
  /\ IF kernel = "none"
     THEN /\ kernel' = "d2wd" /\ at' = Entry("id again") /\ UNCHANGED outcome
          /\ enabled' = FALSE /\ index' = 0 /\ buffer' = [m \in 1..Messages |-> Junk]
     ELSE Finish("error") /\ UNCHANGED <<kernel, enabled, index, buffer>>
  /\ UNCHANGED <<flash, touched, attempted, waiting, wire, write, fits, differing, faults>>

ReplyLost == wire # <<>> /\ Fault /\ wire' = <<>>
             /\ UNCHANGED <<controller, at, waiting, session>>
ReplyDamaged == /\ wire # <<>> /\ Fault
                /\ wire' = [i \in DOMAIN wire |-> Damaged(wire[i])]
                /\ UNCHANGED <<controller, at, waiting, session>>
-----------------------------------------------------------------------------
(* The host goes on from a place whose request was acknowledged.           *)
GoTo(step, b, k, m) ==
  /\ at' = [step |-> step, block |-> b, piece |-> k, message |-> m]
  /\ UNCHANGED outcome

NextDiffering(after) ==
  LET later == {b \in differing : b > after} IN
  IF later = {} THEN GoTo("crc again", 1, 1, 1)
  ELSE GoTo("volt", CHOOSE b \in later : \A x \in later : b <= x, 1, 1)

(* kernelIdentityError, then the checks of the file in write_mem.          *)
Identified(frame) ==
  /\ IF frame.payload = "d2wd" /\ fits THEN GoTo("crc", 1, 1, 1) ELSE Finish("error")
  /\ UNCHANGED differing

Collected(frame) ==
  IF IsImage(frame.payload) THEN differing ELSE differing \cup {at.block}

Compared(frame) ==
  /\ differing' = Collected(frame)
  /\ IF at.block < Blocks THEN GoTo("crc", at.block + 1, 1, 1)
     ELSE IF differing' = {} THEN Finish("success")
     ELSE GoTo("msgsize", 1, 1, 1)

(* The end of write_mem.                                                   *)
Conclude(still) ==
  IF write THEN Finish(IF still = {} THEN "success" ELSE "error") ELSE Finish("passed")

(* The comparison after the write collects the blocks anew.                *)
ComparedAgain(frame) ==
  LET still == (differing \ {at.block}) \cup (IF IsImage(frame.payload) THEN {} ELSE {at.block})
  IN /\ differing' = still
     /\ IF at.block < Blocks THEN GoTo("crc again", at.block + 1, 1, 1) ELSE Conclude(still)

Stored ==
  IF at.piece < Buffers THEN GoTo("load", at.block, at.piece + 1, 1)
  ELSE NextDiffering(at.block)

Continue(frame) ==
  \/ Command(at) = "id" /\ Identified(frame)
  \/ at.step = "crc" /\ Compared(frame)
  \/ at.step = "crc again" /\ ComparedAgain(frame)
  \/ /\ UNCHANGED differing
     /\ \/ at.step = "msgsize" /\ GoTo("blksize", 1, 1, 1)
        \/ at.step = "blksize" /\ GoTo("mode", 1, 1, 1)
        \/ at.step = "mode" /\ NextDiffering(0)
        \/ at.step = "volt" /\ GoTo("erase", at.block, 1, 1)
        \/ at.step = "erase" /\ GoTo("load", at.block, 1, 1)
        \/ at.step = "load" /\ IF at.message < Messages
                               THEN GoTo("load", at.block, at.piece, at.message + 1)
                               ELSE GoTo("store", at.block, at.piece, 1)
        \/ at.step = "store" /\ Stored

(* Only silence at the first identity request leads to an upload.          *)
Reject(frame) ==
  /\ IF at.step = "id" /\ frame = Nothing THEN GoTo("upload", 1, 1, 1) ELSE Finish("error")
  /\ UNCHANGED differing

(* Fault: no usable reply to a CRC request counts as no difference. *)
JudgeUncheckedCrc(frame) ==
  IF Valid(frame, Command(at)) THEN Continue(frame)
  ELSE IF Command(at) = "crc" THEN Continue(Ack("crc", [k \in 1..Buffers |-> "image"]))
  ELSE Reject(frame)

(* kernelReplyError *)
Judge(frame) == IF Valid(frame, Command(at)) THEN Continue(frame) ELSE Reject(frame)

Hear ==
  /\ waiting /\ waiting' = FALSE
  /\ Judge(Read(wire)) /\ wire' = <<>>
  /\ UNCHANGED <<controller, write, fits, faults>>

(* The reply comes after the read gave up, and waits for the next read.    *)
HearTooEarly ==
  /\ waiting /\ wire # <<>> /\ waiting' = FALSE
  /\ Reject(Nothing) /\ Fault
  /\ UNCHANGED <<controller, wire, write, fits>>

FlashNext == \/ \E real, file \in BOOLEAN : Start(real, file)
             \/ RestartEcu \/ Ask \/ RequestLost \/ Upload \/ ReplyLost \/ ReplyDamaged
             \/ Hear \/ HearTooEarly

(* A session runs on by itself, and its owner tries the real write with    *)
(* the right file again and again.                                         *)
FlashSafety == FlashInitial /\ [][FlashNext]_flashVars
FlashSpec == /\ FlashSafety
             /\ WF_flashVars(Ask \/ Upload \/ Hear)
             /\ SF_flashVars(Start(TRUE, TRUE))
-----------------------------------------------------------------------------
Differs(b) == ~IsImage(flash[b])

(* What a session reports is so.  A success, even one without a write or   *)
(* after many failed sessions, means that every byte of the flash is the   *)
(* file's, and a test write has left the flash alone at every step, even   *)
(* when an earlier real session left the kernel with writing enabled.      *)
ReportIsTrue ==
  /\ outcome = "success" => \A b \in 1..Blocks : ~Differs(b)
  /\ ~write => ~touched

(* What the host counts as done the kernel has done, whatever was lost,    *)
(* damaged or late and whatever earlier sessions left behind: past the     *)
(* mode command the kernel is in this session's mode, a buffer about to be *)
(* stored holds exactly this buffer's messages in place, and in a real     *)
(* write the pieces before it hold the image and those after it are blank. *)
AckMeansDone ==
  /\ at.step \in {"volt", "erase", "load", "store"} => enabled = write
  /\ at.step \in {"load", "store"} /\ ~waiting =>
       LET loaded == IF at.step = "store" THEN Messages ELSE at.message - 1
       IN \A m \in 1..loaded : buffer[m] = <<at.block, at.piece, m>>
  /\ at.step \in {"load", "store"} /\ ~waiting /\ write =>
       \A k \in 1..Buffers :
         flash[at.block][k] = IF k < at.piece THEN "image" ELSE "blank"
  /\ at.step \in {"volt", "erase", "load", "store", "crc again"} /\ write =>
       \A b \in 1..Blocks :
         (b < at.block \/ at.step = "crc again" \/ b \notin differing) =>
           (at.step = "volt" /\ b = at.block) \/ ~Differs(b)

(* "Kernel is still running and you can try flashing again": once the      *)
(* faults are over, a controller left with a half-written flash is written *)
(* whole by trying again, from any message the failed session broke off    *)
(* at, without a restart that it would not survive.                        *)
Recoverable == attempted /\ outcome = "error" ~> outcome = "success"
=============================================================================
