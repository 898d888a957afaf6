-------------------------- MODULE FlashSessionProofs --------------------------
(***************************************************************************)
(* What the host reports of a flashing session is so, and what it counts   *)
(* as done has been done, for any number of blocks, buffers, messages,     *)
(* faults and sessions.  The invariant says what the one answer on the     *)
(* wire would mean if the host accepted it; stale answers of an earlier    *)
(* session are confined to the identification, where they decide nothing   *)
(* about the flash.                                                        *)
(***************************************************************************)
EXTENDS FlashSession, WellFoundedInduction, TLAPS

Entering == {"over", "id", "upload", "id again"}
Comparing == {"crc", "crc again"}
Writing == {"volt", "erase", "load", "store"}

(* The kernel's positive answer to the pending request is on the wire.     *)
Answered == waiting /\ wire # <<>> /\ wire[1].kind = "ack"
IsFrame(f) == f = [kind |-> f.kind, command |-> f.command, payload |-> f.payload]
Filled(n) == \A m \in 1..n : buffer[m] = <<at.block, at.piece, m>>
Written(n) == \A k \in 1..Buffers : flash[at.block][k] = IF k <= n THEN "image" ELSE "blank"

Types ==
  /\ flash \in [1..Blocks -> [1..Buffers -> Piece]]
  /\ enabled \in BOOLEAN /\ write \in BOOLEAN /\ touched \in BOOLEAN /\ waiting \in BOOLEAN
  /\ index \in 0..(Messages - 1)
  /\ buffer \in [1..Messages -> Nat \X Nat \X Nat]
  /\ at \in Place /\ differing \subseteq 1..Blocks

(* Once the kernel has been identified, the wire holds at most the answer  *)
(* to the request the host waits for, and that answer is true.             *)
Truthful ==
  /\ at.step \notin Entering => wire = <<>> \/ (waiting /\ wire = <<wire[1]>> /\ IsFrame(wire[1]))
  /\ at.step \in Comparing /\ Answered => wire[1].payload = flash[at.block]
  /\ at.step = "mode" /\ Answered => enabled = write
  /\ at.step = "erase" /\ Answered => index = 0 /\ (write => Written(0))
  /\ at.step = "load" /\ Answered =>
       /\ index = IF at.message = Messages THEN 0 ELSE at.message
       /\ Filled(at.message)
  /\ at.step = "store" /\ Answered /\ write => Written(at.piece)

(* Where the buffer and its place are between the requests.                *)
Buffered ==
  /\ at.step \in Writing => enabled = write
  /\ at.step = "load" /\ ~waiting => index = at.message - 1 /\ Filled(at.message - 1)
  /\ at.step = "store" => index = 0 /\ Filled(Messages)
  /\ at.step = "load" /\ write => Written(at.piece - 1)
  /\ at.step = "store" /\ ~waiting /\ write => Written(at.piece - 1)

(* Blocks that are the file's: those found so, and those already written.  *)
Known ==
  /\ at.step = "crc" => \A b \in 1..(at.block - 1) : b \notin differing => ~Differs(b)
  /\ at.step \in {"msgsize", "blksize", "mode"} =>
       \A b \in 1..Blocks : b \notin differing => ~Differs(b)
  /\ at.step \in Writing => at.block \in differing
  /\ at.step \in Writing /\ write =>
       \A b \in 1..Blocks : b < at.block \/ b \notin differing => ~Differs(b)
  /\ at.step = "crc again" /\ write => \A b \in 1..Blocks : ~Differs(b)

(* What has been reported, and what was touched.                           *)
Reported ==
  /\ outcome = "success" => at.step = "over" /\ \A b \in 1..Blocks : ~Differs(b)
  /\ ~write => ~touched

IInv == Types /\ Truthful /\ Buffered /\ Known /\ Reported
-----------------------------------------------------------------------------
(* There is at least one of each. *)
LEMMA Sizes == Blocks \in Nat \ {0} /\ Buffers \in Nat \ {0} /\ Messages \in Nat \ {0}
BY FlashAssumption, Zenon

(* A set of block numbers has a least member. *)
LEMMA Least ==
  ASSUME NEW S \in SUBSET Nat, S # {}
  PROVE  LET c == CHOOSE b \in S : \A x \in S : b <= x
         IN  c \in S /\ \A x \in S : c <= x
<1>1. \E x \in S : \A y \in S : ~(<<y, x>> \in OpToRel(<, Nat))
  BY NatLessThanWellFounded, WFMin, Zenon
<1>2. \E x \in S : \A y \in S : x <= y
  <2>1. \A x, y \in Nat : y < x => <<y, x>> \in OpToRel(<, Nat)
    BY Zenon DEF OpToRel
  <2>2. \A x, y \in S : ~(y < x)
        => x <= y
    OBVIOUS
  <2> QED  BY <1>1, <2>1, <2>2
<1> QED  BY <1>2

(* Where the host goes from a finished block. *)
LEMMA Advance ==
  ASSUME differing \subseteq 1..Blocks, NEW after \in Nat, NextDiffering(after)
  PROVE  /\ outcome' = outcome
         /\ \/ /\ at' = [step |-> "crc again", block |-> 1, piece |-> 1, message |-> 1]
               /\ \A b \in differing : b <= after
            \/ \E c \in differing :
                 /\ at' = [step |-> "volt", block |-> c, piece |-> 1, message |-> 1]
                 /\ c > after /\ \A b \in differing : b > after => c <= b
<1> DEFINE later == {b \in differing : b > after}
           c == CHOOSE b \in later : \A x \in later : b <= x
<1>1. later \in SUBSET Nat
  <2>1. 1..Blocks \subseteq Nat
    BY Sizes
  <2> QED  BY <2>1
<1>2. CASE later = {}
  <2>1. at' = [step |-> "crc again", block |-> 1, piece |-> 1, message |-> 1] /\ outcome' = outcome
    BY <1>2 DEF NextDiffering, GoTo
  <2>2. \A b \in differing : b <= after
    BY <1>2, Sizes
  <2> QED  BY <2>1, <2>2
<1>3. CASE later # {}
  <2>1. c \in later /\ \A x \in later : c <= x
    BY <1>1, <1>3, Least
  <2>2. at' = [step |-> "volt", block |-> c, piece |-> 1, message |-> 1] /\ outcome' = outcome
    BY <1>3 DEF NextDiffering, GoTo
  <2> QED  BY <2>1, <2>2
<1> QED  BY <1>2, <1>3

LEMMA Entries ==
  ASSUME NEW step \in Entering
  PROVE  Entry(step) \in Place /\ Entry(step).step = step
<1>1. 1 \in 1..Blocks /\ 1 \in 1..Buffers /\ 1 \in 1..Messages
  BY Sizes
<1> QED  BY <1>1 DEF Entry, Place, Entering

LEMMA Emptied == [m \in 1..Messages |-> Junk] \in [1..Messages -> Nat \X Nat \X Nat]
BY DEF Junk

LEMMA InitIInv == FlashInitial => IInv
<1> SUFFICES ASSUME FlashInitial PROVE IInv
  OBVIOUS
<1>1. Types
  <2>1. flash \in [1..Blocks -> [1..Buffers -> Piece]]
    BY DEF FlashInitial, Piece
  <2>2. buffer \in [1..Messages -> Nat \X Nat \X Nat]
    BY Emptied DEF FlashInitial
  <2>3. at \in Place
    BY Entries DEF FlashInitial, Entering
  <2>4. index \in 0..(Messages - 1)
    BY Sizes DEF FlashInitial
  <2> QED  BY <2>1, <2>2, <2>3, <2>4 DEF FlashInitial, Types
<1>2. Truthful /\ Buffered /\ Known /\ Reported
  BY DEF FlashInitial, Truthful, Buffered, Known, Reported, Entry, Entering, Comparing, Writing
<1> QED  BY <1>1, <1>2 DEF IInv
-----------------------------------------------------------------------------
(* Outside the write nothing is claimed of it. *)
LEMMA Outside ==
  ASSUME at'.step \in Entering
  PROVE  Truthful' /\ Buffered' /\ Known'
BY DEF Truthful, Buffered, Known, Entering, Comparing, Writing

(* A step that leaves host and controller alone. *)
LEMMA Unmoved ==
  ASSUME IInv, UNCHANGED <<controller, at, session>>, waiting' \in BOOLEAN
  PROVE  Types' /\ Reported' /\ Known'
BY DEF IInv, controller, session, Types, Reported, Known, Differs, IsImage

(* A step that leaves host and controller alone, and no positive answer.   *)
LEMMA Unanswered ==
  ASSUME IInv, UNCHANGED <<controller, at, session>>,
         waiting' = waiting \/ waiting' = TRUE, waiting' \in BOOLEAN,
         at.step \in Entering \/ wire' = <<>>
           \/ (waiting' /\ wire' = <<wire'[1]>> /\ IsFrame(wire'[1]) /\ wire'[1].kind # "ack")
  PROVE  IInv'
<1> USE DEF IInv, controller, session
<1>1. Types' /\ Reported'
  BY DEF Types, Reported, Differs, IsImage
<1>2. Buffered' /\ Known'
  BY DEF Buffered, Known, Differs, IsImage, Filled, Written
<1>3. Truthful'
  <2>1. CASE at.step \in Entering
    BY <2>1, Outside
  <2>2. CASE at.step \notin Entering
    BY <2>2 DEF Truthful, Answered, Comparing, Writing, Entering
  <2> QED  BY <2>1, <2>2
<1> QED  BY <1>1, <1>2, <1>3

LEMMA StartPreserves ==
  ASSUME IInv, NEW real \in BOOLEAN, NEW file \in BOOLEAN, Start(real, file)
  PROVE  IInv'
<1>1. at'.step = "id" /\ at' \in Place
  BY Entries DEF Start, Entering
<1>2. Types'
  BY <1>1 DEF IInv, Types, Start
<1>3. Reported'
  BY DEF Reported, Start
<1> QED  BY <1>1, <1>2, <1>3, Outside DEF IInv, Entering

LEMMA RestartPreserves == ASSUME IInv, RestartEcu PROVE IInv'
<1>1. at'.step = "over"
  BY DEF RestartEcu
<1>2. Types' /\ Reported'
  BY DEF IInv, Types, Reported, Differs, IsImage, RestartEcu, session
<1> QED  BY <1>1, <1>2, Outside DEF IInv, Entering

LEMMA UploadPreserves == ASSUME IInv, Upload PROVE IInv'
<1>1. at'.step \in {"id again", "over"} /\ at' \in Place /\ at.step = "upload"
  BY Entries DEF Upload, Finish, Entering
<1>2. outcome' \in {outcome, "error"} /\ outcome # "success"
  BY <1>1 DEF Upload, Finish, IInv, Reported
<1>3. Types'
  <2>0. 0 \in 0..(Messages - 1)
    BY Sizes
  <2>1. enabled' \in BOOLEAN /\ index' \in 0..(Messages - 1)
    BY <2>0 DEF Upload, IInv, Types
  <2>2. buffer' \in [1..Messages -> Nat \X Nat \X Nat]
    BY Emptied DEF Upload, IInv, Types
  <2> QED  BY <1>1, <2>1, <2>2 DEF Upload, IInv, Types
<1>4. Reported'
  BY <1>2 DEF Upload, IInv, Reported
<1> QED  BY <1>1, <1>3, <1>4, Outside DEF IInv, Entering
-----------------------------------------------------------------------------
(* Requests. *)

(* An answer to a host that had heard everything before. *)
LEMMA Replied ==
  ASSUME NEW frame, Reply(frame), wire = <<>>, IsFrame(frame)
  PROVE  wire' # <<>> /\ wire' = <<wire'[1]>> /\ wire'[1] = frame /\ IsFrame(wire'[1])
<1>1. wire' = <<frame>>
  BY DEF Reply
<1> QED  BY <1>1

LEMMA Frames ==
  ASSUME NEW command, NEW payload
  PROVE  /\ IsFrame(Ack(command, payload)) /\ IsFrame(Nack(command))
         /\ Ack(command, payload).payload = payload
         /\ Nack(command).kind # "ack"
BY DEF IsFrame, Ack, Nack

LEMMA AskPreserves == ASSUME IInv, Ask PROVE IInv'
<1> USE DEF Ask
<1>a. at' = at /\ UNCHANGED session /\ ~waiting /\ waiting' = TRUE /\ at.step \notin {"over", "upload"}
  OBVIOUS
<1>b. at.step \in {"id", "id again"} \/ wire = <<>>
  BY <1>a DEF IInv, Truthful, Entering
<1>p. at \in Place /\ at.block \in 1..Blocks /\ at.piece \in 1..Buffers /\ at.message \in 1..Messages
  BY DEF IInv, Types, Place
<1>1. CASE kernel = "none"
  BY <1>1, <1>a, <1>b, Unanswered DEF Entering
<1>2. CASE at.step \in {"id", "id again"} /\ kernel # "none"
  <2>1. UNCHANGED controller
    BY <1>2 DEF Handle, Command, Answer
  <2> QED  BY <1>2, <1>a, <2>1, Unanswered DEF Entering
<1> DEFINE Late == at.step \notin Entering /\ kernel # "none"
<1>3. ASSUME Late PROVE wire = <<>> /\ Handle(at)
  BY <1>3, <1>b DEF Entering
<1>4. CASE Late /\ at.step \in Comparing
  <2>1. Answer("crc", flash[at.block])
    BY <1>3, <1>4 DEF Handle, Command, Comparing
  <2>2. /\ wire' # <<>> /\ wire' = <<wire'[1]>> /\ IsFrame(wire'[1])
        /\ wire'[1].payload = flash[at.block] /\ UNCHANGED controller
    BY <1>3, <1>4, <2>1, Replied, Frames DEF Answer
  <2>3. Types' /\ Reported' /\ Known'
    BY <1>a, <2>2, Unmoved
  <2>5. Buffered'
    BY <1>a, <1>4, <2>2 DEF IInv, Buffered, controller, session, Comparing, Writing
  <2>4. Truthful'
    BY <1>a, <1>4, <2>2 DEF Truthful, Comparing, controller
  <2> QED  BY <2>3, <2>4, <2>5 DEF IInv
<1>5. CASE Late /\ at.step \in {"msgsize", "blksize", "volt"}
  <2>1. Answer(at.step, "none")
    BY <1>3, <1>5 DEF Handle, Command
  <2>2. /\ wire' # <<>> /\ wire' = <<wire'[1]>> /\ IsFrame(wire'[1]) /\ UNCHANGED controller
    BY <1>3, <1>5, <2>1, Replied, Frames DEF Answer
  <2>3. Types' /\ Reported' /\ Known'
    BY <1>a, <2>2, Unmoved
  <2>5. Buffered'
    BY <1>a, <1>5, <2>2 DEF IInv, Buffered, controller, session, Comparing, Writing
  <2>4. Truthful'
    BY <1>a, <1>5, <2>2 DEF Truthful, Comparing
  <2> QED  BY <2>3, <2>4, <2>5 DEF IInv
<1>6. CASE Late /\ at.step = "mode"
  <2>1. FlashInit
    BY <1>3, <1>6 DEF Handle, Command
  <2>2. PICK frame \in {Ack("mode", "none"), Nack("mode")} :
          Reply(frame) /\ (frame.kind = "ack" => enabled' = write) /\ enabled' \in {write, enabled}
    BY <2>1, Frames DEF FlashInit
  <2>3. wire' # <<>> /\ wire' = <<wire'[1]>> /\ wire'[1] = frame /\ IsFrame(wire'[1])
    BY <1>3, <1>6, <2>2, Replied, Frames
  <2>4. Types' /\ Reported' /\ Buffered' /\ Known'
    BY <1>a, <2>1, <2>2, <1>6 DEF FlashInit, IInv, Types, Reported, Buffered, Known, Differs, IsImage, session, Writing
  <2>5. Truthful'
    BY <1>a, <1>6, <2>2, <2>3 DEF Truthful, Comparing, Answered, session
  <2> QED  BY <2>4, <2>5 DEF IInv
<1>7. CASE Late /\ at.step = "erase"
  <2>1. EraseFlash(at.block) /\ index' = 0
    BY <1>3, <1>7 DEF Handle, Command, Erase
  <2>2. enabled = write /\ enabled' = enabled /\ at.block \in differing
    BY <1>7, <2>1 DEF IInv, Buffered, Known, Writing, EraseFlash
  <2>3. PICK frame \in {Ack("erase", "none"), Nack("erase")} :
          /\ Reply(frame)
          /\ \/ frame.kind = "ack" /\ flash' = IF enabled THEN Whole(at.block, "blank") ELSE flash
             \/ frame.kind # "ack" /\ enabled /\ flash' = Whole(at.block, "part")
    BY <2>1, Frames DEF EraseFlash, Ack, Nack
  <2>4. wire' # <<>> /\ wire' = <<wire'[1]>> /\ wire'[1] = frame /\ IsFrame(wire'[1])
    BY <1>3, <1>7, <2>3, Replied, Frames
  <2>f. flash \in [1..Blocks -> [1..Buffers -> Piece]]
    BY DEF IInv, Types
  <2>w. ASSUME NEW c \in Piece
        PROVE  /\ Whole(at.block, c) \in [1..Blocks -> [1..Buffers -> Piece]]
               /\ \A b \in 1..Blocks : b # at.block => Whole(at.block, c)[b] = flash[b]
               /\ \A k \in 1..Buffers : Whole(at.block, c)[at.block][k] = c
    BY <1>p, <2>f, <2>w DEF Whole
  <2>b. {"blank", "part"} \subseteq Piece
    BY DEF Piece
  <2>5. /\ flash' \in [1..Blocks -> [1..Buffers -> Piece]]
        /\ \A b \in 1..Blocks : b # at.block => flash'[b] = flash[b]
    <3>1. \/ flash' = flash \/ flash' = Whole(at.block, "blank") \/ flash' = Whole(at.block, "part")
      BY <2>3
    <3>2. "blank" \in Piece /\ "part" \in Piece
      BY <2>b
    <3>3. CASE flash' = flash
      BY <2>f, <3>3
    <3>4. CASE flash' = Whole(at.block, "blank")
      BY <2>w, <3>2, <3>4
    <3>5. CASE flash' = Whole(at.block, "part")
      BY <2>w, <3>2, <3>5
    <3> QED  BY <3>1, <3>3, <3>4, <3>5
  <2>6. write /\ frame.kind = "ack" => \A k \in 1..Buffers : flash'[at.block][k] = "blank"
    BY <2>w, <2>b, <2>2, <2>3
  <2>7. Types'
    BY <1>a, <2>1, <2>2, <2>5, Sizes DEF IInv, Types, EraseFlash, session
  <2>8. Reported'
    <3>1. write' = write /\ outcome' = outcome /\ (touched' <=> touched \/ enabled)
      BY <1>a, <2>1 DEF EraseFlash, session
    <3>2. outcome # "success" /\ (~write => ~touched)
      BY <1>7 DEF IInv, Reported
    <3> QED  BY <2>2, <3>1, <3>2 DEF Reported
  <2>9. Buffered'
    BY <1>a, <1>7, <2>2 DEF IInv, Buffered, session, Writing
  <2>10. Known'
    BY <1>a, <1>7, <2>2, <2>5 DEF IInv, Known, Differs, IsImage, session, Writing, Types
  <2>11. Truthful'
    BY <1>a, <1>7, <1>p, <2>1, <2>4, <2>6 DEF Truthful, Answered, Comparing, Written, session
  <2> QED  BY <2>7, <2>8, <2>9, <2>10, <2>11 DEF IInv
<1>8. CASE Late /\ at.step = "load"
  <2>1. Load(<<at.block, at.piece, at.message>>)
    BY <1>3, <1>8 DEF Handle, Command
  <2>2. index = at.message - 1 /\ Filled(at.message - 1)
    BY <1>a, <1>8 DEF IInv, Buffered
  <2>3. /\ buffer' = [buffer EXCEPT ![at.message] = <<at.block, at.piece, at.message>>]
        /\ index' = IF at.message = Messages THEN 0 ELSE at.message
        /\ UNCHANGED <<flash, kernel, enabled, touched>>
    <3>1. index + 1 = at.message /\ (index + 1 >= Messages <=> at.message = Messages)
      BY <1>p, <2>2, Sizes
    <3> QED  BY <2>1, <3>1 DEF Load
  <2>4. wire' # <<>> /\ wire' = <<wire'[1]>> /\ IsFrame(wire'[1])
    BY <1>3, <1>8, <2>1, Replied, Frames DEF Load
  <2>5. buffer' \in [1..Messages -> Nat \X Nat \X Nat]
    <3>1. <<at.block, at.piece, at.message>> \in Nat \X Nat \X Nat
      BY <1>p, Sizes
    <3> QED  BY <1>p, <2>3, <3>1 DEF IInv, Types
  <2>6. \A m \in 1..at.message : buffer'[m] = <<at.block, at.piece, m>>
    <3>1. \A m \in 1..at.message : m = at.message \/ m \in 1..(at.message - 1)
      BY <1>p
    <3>2. \A m \in 1..Messages : m # at.message => buffer'[m] = buffer[m]
      BY <2>3 DEF IInv, Types
    <3>3. buffer'[at.message] = <<at.block, at.piece, at.message>>
      BY <1>p, <2>3 DEF IInv, Types
    <3>4. \A m \in 1..(at.message - 1) : m \in 1..Messages /\ m # at.message
      BY <1>p, Sizes
    <3> QED  BY <2>2, <3>1, <3>2, <3>3, <3>4 DEF Filled
  <2>7. Types'
    <3>1. index' \in 0..(Messages - 1)
      BY <1>p, <2>3, Sizes
    <3> QED  BY <1>a, <2>3, <2>5, <3>1 DEF IInv, Types, session
  <2>8. Reported' /\ Known'
    BY <1>a, <1>8, <2>3 DEF IInv, Reported, Known, Differs, IsImage, session, Writing
  <2>9. Buffered'
    BY <1>a, <1>8, <2>3 DEF IInv, Buffered, Written, session, Writing
  <2>10. Truthful'
    BY <1>a, <1>8, <2>3, <2>4, <2>6 DEF Truthful, Comparing, Filled
  <2> QED  BY <2>7, <2>8, <2>9, <2>10 DEF IInv
<1>9. CASE Late /\ at.step = "store" /\ ~write
  <2>1. Validate(at.block, at.piece)
    BY <1>3, <1>9 DEF Handle, Command
  <2>2. /\ wire' # <<>> /\ wire' = <<wire'[1]>> /\ IsFrame(wire'[1]) /\ UNCHANGED controller
    BY <1>3, <1>9, <2>1, Replied, Frames DEF Validate
  <2>3. Types' /\ Reported' /\ Known'
    BY <1>a, <2>2, <1>9 DEF IInv, Types, Reported, Known, Differs, IsImage, controller, session, Writing
  <2>4. Buffered'
    BY <1>a, <2>2, <1>9 DEF IInv, Buffered, Filled, controller, session, Writing
  <2>5. Truthful'
    BY <1>a, <1>9, <2>2 DEF Truthful, Comparing, session
  <2> QED  BY <2>3, <2>4, <2>5 DEF IInv
<1>10. CASE Late /\ at.step = "store" /\ write
  <2>1. Commit(at.block, at.piece)
    BY <1>3, <1>10 DEF Handle, Command
  <2>2. enabled = write /\ enabled' = enabled /\ at.block \in differing /\ Written(at.piece - 1)
    BY <1>a, <1>10, <2>1 DEF IInv, Buffered, Known, Writing, Commit
  <2>3. PICK content \in {"image", "part", "old", "blank"} :
          /\ flash' = [flash EXCEPT ![at.block][at.piece] = content]
          /\ Reply(IF content = "image" THEN Ack("store", "none") ELSE Nack("store"))
    BY <1>p, <1>10, <2>1, <2>2 DEF Commit, Programmed
  <2>4. /\ wire' # <<>> /\ wire' = <<wire'[1]>> /\ IsFrame(wire'[1])
        /\ wire'[1].kind = "ack" => content = "image"
    <3>1. CASE content = "image"
      BY <1>3, <1>10, <2>3, <3>1, Replied, Frames
    <3>2. CASE content # "image"
      BY <1>3, <1>10, <2>3, <3>2, Replied, Frames
    <3> QED  BY <3>1, <3>2
  <2>5. /\ flash' \in [1..Blocks -> [1..Buffers -> Piece]]
        /\ \A b \in 1..Blocks : b # at.block => flash'[b] = flash[b]
    BY <1>p, <2>3 DEF IInv, Types, Piece
  <2>6. content = "image" =>
          \A k \in 1..Buffers : flash'[at.block][k] = IF k <= at.piece THEN "image" ELSE "blank"
    <3>1. \A k \in 1..Buffers : flash'[at.block][k] = IF k = at.piece THEN content ELSE flash[at.block][k]
      BY <1>p, <2>3 DEF IInv, Types
    <3>2. \A k \in 1..Buffers : k # at.piece => (k <= at.piece <=> k <= at.piece - 1)
      BY <1>p, Sizes
    <3> QED  BY <1>p, <2>2, <3>1, <3>2 DEF Written
  <2>7. Types'
    BY <1>a, <2>1, <2>2, <2>5 DEF IInv, Types, Commit, session
  <2>8. Reported'
    BY <1>a, <1>10, <2>1, <2>2 DEF IInv, Reported, Commit, session
  <2>9. Buffered'
    BY <1>a, <1>10, <2>1, <2>2 DEF IInv, Buffered, Filled, Commit, session, Writing
  <2>10. Known'
    BY <1>a, <1>10, <2>2, <2>5 DEF IInv, Known, Differs, IsImage, session, Writing, Types
  <2>11. Truthful'
    BY <1>a, <1>10, <1>p, <2>1, <2>4, <2>6 DEF Truthful, Answered, Comparing, Written, session
  <2> QED  BY <2>7, <2>8, <2>9, <2>10, <2>11 DEF IInv
<1>11. \/ kernel = "none" \/ at.step \in {"id", "id again"}
       \/ Late /\ at.step \in Comparing \cup {"msgsize", "blksize", "mode", "volt", "erase", "load", "store"}
  BY <1>a, <1>p DEF Place, Entering, Comparing
<1> QED  BY <1>1, <1>2, <1>4, <1>5, <1>6, <1>7, <1>8, <1>9, <1>10, <1>11
-----------------------------------------------------------------------------
(* Replies, and their loss. *)

LEMMA RequestLostPreserves == ASSUME IInv, RequestLost PROVE IInv'
<1>1. at.step \in Entering \/ wire' = <<>>
  BY DEF RequestLost, IInv, Truthful
<1> QED  BY <1>1, Unanswered DEF RequestLost

LEMMA ReplyLostPreserves == ASSUME IInv, ReplyLost PROVE IInv'
<1>1. waiting \in BOOLEAN
  BY DEF IInv, Types
<1> QED  BY <1>1, Unanswered DEF ReplyLost

LEMMA ReplyDamagedPreserves == ASSUME IInv, ReplyDamaged PROVE IInv'
<1>1. waiting \in BOOLEAN
  BY DEF IInv, Types
<1>2. CASE at.step \in Entering
  BY <1>1, <1>2, Unanswered DEF ReplyDamaged
<1>3. CASE at.step \notin Entering
  <2>1. waiting /\ wire = <<wire[1]>> /\ IsFrame(wire[1])
    BY <1>3 DEF ReplyDamaged, IInv, Truthful
  <2>2. wire' = <<Damaged(wire[1])>>
    <3>1. DOMAIN wire = {1}
      BY <2>1
    <3>2. wire' = [i \in {1} |-> Damaged(wire[i])]
      BY <3>1 DEF ReplyDamaged
    <3> QED  BY <3>2
  <2>3. Damaged(wire[1]).kind = "damaged" /\ IsFrame(Damaged(wire[1]))
    BY <2>1 DEF Damaged, IsFrame
  <2>4. waiting' /\ wire' = <<wire'[1]>> /\ IsFrame(wire'[1]) /\ wire'[1].kind # "ack"
    BY <2>1, <2>2, <2>3 DEF ReplyDamaged
  <2> QED  BY <1>1, <2>4, Unanswered DEF ReplyDamaged
<1> QED  BY <1>2, <1>3

(* A session broken off claims nothing more. *)
LEMMA Rejected ==
  ASSUME IInv, NEW frame, Reject(frame), waiting' \in BOOLEAN,
         UNCHANGED <<controller, write, fits>>
  PROVE  IInv'
<1>1. at' \in Place /\ at'.step \in Entering /\ outcome' # "success"
  <2>1. CASE at.step = "id" /\ frame = Nothing
    <3>1. at' = Entry("upload") /\ outcome' = outcome
      BY <2>1 DEF Reject, GoTo, Entry
    <3> QED  BY <2>1, <3>1, Entries DEF Entering, IInv, Reported
  <2>2. CASE ~(at.step = "id" /\ frame = Nothing)
    BY <2>2, Entries DEF Reject, Finish, Entering
  <2> QED  BY <2>1, <2>2
<1>2. Types'
  BY <1>1 DEF Reject, IInv, Types, controller
<1>3. Reported'
  BY <1>1 DEF IInv, Reported, controller
<1> QED  BY <1>1, <1>2, <1>3, Outside DEF IInv

LEMMA HearTooEarlyPreserves == ASSUME IInv, HearTooEarly PROVE IInv'
<1>1. Reject(Nothing) /\ waiting' \in BOOLEAN /\ UNCHANGED <<controller, write, fits>>
  BY DEF HearTooEarly
<1> QED  BY <1>1, Rejected

(* The host goes on: to which place, for each step it may be at.           *)
LEMMA Places ==
  ASSUME NEW step \in Comparing \cup Writing \cup {"msgsize", "blksize", "mode"},
         NEW b \in 1..Blocks, NEW k \in 1..Buffers, NEW m \in 1..Messages, GoTo(step, b, k, m)
  PROVE  /\ at' \in Place /\ outcome' = outcome
         /\ at'.step = step /\ at'.block = b /\ at'.piece = k /\ at'.message = m
BY DEF GoTo, Place, Comparing, Writing

(* Past the places where a reply is accepted the invariant is a matter of  *)
(* the buffer and of the blocks.                                           *)
LEMMA Quiet ==
  ASSUME waiting' = FALSE, wire' = <<>>
  PROVE  Truthful'
BY DEF Truthful, Answered

LEMMA ContinuePreserves ==
  ASSUME IInv, NEW frame, Continue(frame), Command(at) # "id",
         Answered, frame = wire[1], waiting' = FALSE, wire' = <<>>,
         UNCHANGED <<controller, write, fits>>
  PROVE  IInv'
<1>p. at \in Place /\ at.block \in 1..Blocks /\ at.piece \in 1..Buffers /\ at.message \in 1..Messages
  BY DEF IInv, Types, Place
<1>1. 1 \in 1..Blocks /\ 1 \in 1..Buffers /\ 1 \in 1..Messages /\ Blocks \in Nat /\ Buffers \in Nat
  BY Sizes
<1>t. ASSUME at' \in Place, differing' \subseteq 1..Blocks PROVE Types'
  BY <1>t DEF IInv, Types, controller
<1>r. ASSUME outcome' = outcome, at.step # "over" PROVE Reported'
  BY <1>r DEF IInv, Reported, controller
<1>d. /\ flash' = flash /\ enabled' = enabled /\ index' = index /\ buffer' = buffer /\ write' = write
      /\ differing \subseteq 1..Blocks
  BY DEF controller, IInv, Types
<1>2. CASE at.step = "crc"
  <2>1. frame.payload = flash[at.block]
    BY <1>2 DEF IInv, Truthful, Comparing
  <2>2. differing' = IF Differs(at.block) THEN differing \cup {at.block} ELSE differing
    BY <1>2, <2>1 DEF Continue, Compared, Collected, Differs, Command
  <2>3. \A b \in 1..at.block : b \notin differing' => ~Differs(b)
    <3>1. \A b \in 1..(at.block - 1) : b \notin differing => ~Differs(b)
      BY <1>2 DEF IInv, Known
    <3>2. \A b \in 1..at.block : b = at.block \/ b \in 1..(at.block - 1)
      BY <1>p
    <3> QED  BY <2>2, <3>1, <3>2
  <2>4. \A b \in 1..Blocks : Differs(b)' <=> Differs(b)
    BY <1>d DEF Differs, IsImage
  <2>5. differing' \subseteq 1..Blocks
    BY <1>p, <1>d, <2>2
  <2>6. CASE at.block < Blocks
    <3>1. GoTo("crc", at.block + 1, 1, 1)
      BY <1>2, <2>6 DEF Continue, Compared, Command
    <3>2. at.block + 1 \in 1..Blocks
      BY <1>p, <1>1, <2>6
    <3>3. at' \in Place /\ at'.step = "crc" /\ at'.block = at.block + 1 /\ outcome' = outcome
      BY <1>1, <3>1, <3>2, Places DEF Comparing
    <3>4. Known'
      <4>1. \A b \in 1..(at'.block - 1) : b \in 1..at.block /\ b \in 1..Blocks
        <5>1. at'.block - 1 = at.block
          BY <1>1, <1>p, <3>3
        <5>2. \A b \in 1..at.block : b \in 1..Blocks
          BY <1>1, <1>p
        <5> QED  BY <5>1, <5>2
      <4> QED  BY <2>3, <2>4, <3>3, <4>1 DEF Known, Writing
    <3>5. Buffered'
      BY <3>3 DEF Buffered, Writing
    <3> QED  BY <1>2, <1>t, <1>r, <2>5, <3>3, <3>4, <3>5, Quiet DEF IInv
  <2>7. CASE at.block >= Blocks
    <3>0. at.block = Blocks /\ ~(at.block < Blocks)
      BY <1>1, <1>p, <2>7
    <3>1. \A b \in 1..Blocks : b \notin differing' => ~Differs(b)'
      BY <2>3, <2>4, <3>0
    <3>2. CASE differing' = {}
      <4>1. at' = Entry("over") /\ outcome' = "success"
        BY <1>2, <3>0, <3>2 DEF Continue, Compared, Command, Finish
      <4>2. at' \in Place /\ at'.step = "over"
        BY <4>1, Entries DEF Entering
      <4>3. Reported'
        BY <3>1, <3>2, <4>2, <1>d DEF Reported, IInv, controller
      <4> QED  BY <1>t, <2>5, <4>2, <4>3, Outside DEF IInv, Entering
    <3>3. CASE differing' # {}
      <4>1. GoTo("msgsize", 1, 1, 1)
        BY <1>2, <3>0, <3>3 DEF Continue, Compared, Command
      <4>2. at' \in Place /\ at'.step = "msgsize" /\ outcome' = outcome
        BY <1>1, <4>1, Places
      <4>3. Known' /\ Buffered'
        BY <3>1, <4>2 DEF Known, Buffered, Writing
      <4> QED  BY <1>2, <1>t, <1>r, <2>5, <4>2, <4>3, Quiet DEF IInv
    <3> QED  BY <3>2, <3>3
  <2> QED  BY <1>p, <1>1, <2>6, <2>7
<1>3. CASE at.step = "crc again"
  <2>1. /\ differing' \subseteq 1..Blocks
        /\ IF at.block < Blocks THEN GoTo("crc again", at.block + 1, 1, 1) ELSE Conclude(differing')
    BY <1>3, <1>p, <1>d DEF Continue, ComparedAgain, Command
  <2>2. write => \A b \in 1..Blocks : ~Differs(b) /\ ~Differs(b)'
    BY <1>3, <1>d DEF IInv, Known, Differs, IsImage
  <2>3. CASE at.block < Blocks
    <3>1. at.block + 1 \in 1..Blocks
      BY <1>p, <1>1, <2>3
    <3>2. at' \in Place /\ at'.step = "crc again" /\ outcome' = outcome
      BY <1>1, <2>1, <2>3, <3>1, Places DEF Comparing
    <3>3. Known' /\ Buffered'
      <4>1. write' => \A b \in 1..Blocks : ~Differs(b)'
        BY <1>d, <2>2
      <4> QED  BY <3>2, <4>1 DEF Known, Buffered, Writing
    <3> QED  BY <1>3, <1>t, <1>r, <2>1, <3>2, <3>3, Quiet DEF IInv
  <2>4. CASE at.block >= Blocks
    <3>1. /\ at' \in Place /\ at'.step = "over"
          /\ outcome' \in {"success", "error", "passed"} /\ (outcome' = "success" => write)
      <4>0. ~(at.block < Blocks)
        BY <1>p, <1>1, <2>4
      <4>1. Conclude(differing')
        BY <2>1, <4>0
      <4>2. at' = Entry("over") /\ outcome' \in {"success", "error", "passed"} /\ (outcome' = "success" => write)
        BY <4>1 DEF Conclude, Finish
      <4> QED  BY <4>2, Entries DEF Entering
    <3>2. Reported'
      BY <1>d, <2>2, <3>1 DEF Reported, IInv, controller
    <3> QED  BY <1>t, <2>1, <3>1, <3>2, Outside DEF IInv, Entering
  <2> QED  BY <1>p, <1>1, <2>3, <2>4
<1>4. CASE at.step \in {"msgsize", "blksize"}
  <2>1. /\ differing' = differing
        /\ GoTo(IF at.step = "msgsize" THEN "blksize" ELSE "mode", 1, 1, 1)
    BY <1>4 DEF Continue, Command
  <2>2. at' \in Place /\ at'.step \in {"blksize", "mode"} /\ outcome' = outcome
    BY <1>1, <1>4, <2>1, Places
  <2>3. Known' /\ Buffered'
    BY <1>4, <1>d, <2>1, <2>2 DEF IInv, Known, Buffered, Writing, Differs, IsImage
  <2> QED  BY <1>4, <1>d, <1>t, <1>r, <2>1, <2>2, <2>3, Quiet DEF IInv
<1>5. ASSUME NEW after \in 0..Blocks, NextDiffering(after), differing' = differing, at.step # "over",
             enabled = write,
             write => \A b \in 1..Blocks : b <= after \/ b \notin differing => ~Differs(b)
      PROVE  IInv'
  <2>1. write => \A b \in 1..Blocks : b <= after \/ b \notin differing => ~Differs(b)'
    BY <1>5, <1>d DEF Differs, IsImage
  <2>2. CASE at' = [step |-> "crc again", block |-> 1, piece |-> 1, message |-> 1]
             /\ outcome' = outcome /\ \A b \in differing : b <= after
    <3>1. at' \in Place /\ at'.step = "crc again"
      BY <1>1, <2>2 DEF Place
    <3>2. Known' /\ Buffered'
      <4>1. \A b \in 1..Blocks : b <= after \/ b \notin differing
        BY <1>5, <1>d, <2>2
      <4>2. write' => \A b \in 1..Blocks : ~Differs(b)'
        BY <1>d, <2>1, <4>1
      <4> QED  BY <3>1, <4>2 DEF Known, Buffered, Writing
    <3> QED  BY <1>5, <1>d, <1>t, <1>r, <2>2, <3>1, <3>2, Quiet DEF IInv
  <2>3. ASSUME NEW c \in differing, outcome' = outcome,
               at' = [step |-> "volt", block |-> c, piece |-> 1, message |-> 1],
               c > after, \A b \in differing : b > after => c <= b
        PROVE  IInv'
    <3>1. at' \in Place /\ at'.step = "volt" /\ at'.block = c /\ c \in 1..Blocks
      BY <1>1, <1>d, <2>3 DEF Place
    <3>2. \A b \in 1..Blocks : b < c => b <= after \/ b \notin differing
      BY <1>5, <2>3, <3>1
    <3>3. Known'
      BY <1>5, <1>d, <2>1, <3>1, <3>2 DEF Known, Writing
    <3>4. Buffered'
      BY <1>5, <1>d, <3>1 DEF Buffered, Writing
    <3> QED  BY <1>5, <1>d, <1>t, <1>r, <2>3, <3>1, <3>3, <3>4, Quiet DEF IInv
  <2>4. after \in Nat
    BY <1>1, <1>5
  <2>5. outcome' = outcome
    BY <1>5, <1>d, <2>4, Advance
  <2>6. \/ /\ at' = [step |-> "crc again", block |-> 1, piece |-> 1, message |-> 1]
           /\ \A b \in differing : b <= after
        \/ \E c \in differing :
             /\ at' = [step |-> "volt", block |-> c, piece |-> 1, message |-> 1]
             /\ c > after /\ \A b \in differing : b > after => c <= b
    BY <1>5, <1>d, <2>4, Advance
  <2> QED  BY <2>2, <2>3, <2>5, <2>6
<1>6. CASE at.step = "mode"
  <2>1. differing' = differing /\ NextDiffering(0)
    BY <1>6 DEF Continue, Command
  <2>2. enabled = write
    BY <1>6 DEF IInv, Truthful
  <2>3. \A b \in 1..Blocks : b <= 0 \/ b \notin differing => ~Differs(b)
    BY <1>6, <1>1 DEF IInv, Known
  <2> QED  BY <1>1, <1>5, <1>6, <2>1, <2>2, <2>3
<1>w. ASSUME at.step \in Writing, differing' = differing, at'.block = at.block, at'.step \in Writing
      PROVE  Known'
  <2>1. \A b \in 1..Blocks : Differs(b)' <=> Differs(b)
    BY <1>d DEF Differs, IsImage
  <2>2. /\ at.block \in differing
        /\ write => \A b \in 1..Blocks : b < at.block \/ b \notin differing => ~Differs(b)
    BY <1>w DEF IInv, Known
  <2>3. /\ at'.block \in differing'
        /\ write' => \A b \in 1..Blocks : b < at'.block \/ b \notin differing' => ~Differs(b)'
    BY <1>w, <1>d, <2>1, <2>2
  <2>4. at'.step \notin {"crc", "msgsize", "blksize", "mode", "crc again"}
    BY <1>w DEF Writing
  <2> QED  BY <2>3, <2>4 DEF Known
<1>7. CASE at.step = "volt"
  <2>1. differing' = differing /\ GoTo("erase", at.block, 1, 1)
    BY <1>7 DEF Continue, Command
  <2>2. at' \in Place /\ at'.step = "erase" /\ at'.block = at.block /\ outcome' = outcome
    BY <1>1, <1>p, <2>1, Places DEF Writing
  <2>3. Known' /\ Buffered'
    BY <1>7, <1>d, <1>w, <2>1, <2>2 DEF IInv, Buffered, Writing
  <2> QED  BY <1>7, <1>d, <1>t, <1>r, <2>1, <2>2, <2>3, Quiet DEF IInv
<1>8. CASE at.step = "erase"
  <2>1. differing' = differing /\ GoTo("load", at.block, 1, 1)
    BY <1>8 DEF Continue, Command
  <2>2. /\ at' \in Place /\ at'.step = "load" /\ at'.block = at.block /\ outcome' = outcome
        /\ at'.piece = 1 /\ at'.message = 1
    BY <1>1, <1>p, <2>1, Places DEF Writing
  <2>3. index = 0 /\ (write => Written(0)) /\ enabled = write
    BY <1>8 DEF IInv, Truthful, Buffered, Writing
  <2>4. Known'
    BY <1>8, <1>w, <2>1, <2>2 DEF Writing
  <2>5. Buffered'
    BY <1>d, <2>2, <2>3 DEF Buffered, Filled, Written, Writing
  <2> QED  BY <1>8, <1>d, <1>t, <1>r, <2>1, <2>2, <2>4, <2>5, Quiet DEF IInv
<1>9. CASE at.step = "load"
  <2>1. /\ index = IF at.message = Messages THEN 0 ELSE at.message
        /\ Filled(at.message) /\ (write => Written(at.piece - 1)) /\ enabled = write
    BY <1>9 DEF IInv, Truthful, Buffered, Writing
  <2>2. CASE at.message < Messages
    <3>1. differing' = differing /\ GoTo("load", at.block, at.piece, at.message + 1)
      BY <1>9, <2>2 DEF Continue, Command
    <3>2. at.message + 1 \in 1..Messages /\ at.message # Messages /\ (at.message + 1) - 1 = at.message
      BY <1>p, <2>2, Sizes
    <3>3. /\ at' \in Place /\ at'.step = "load" /\ at'.block = at.block /\ outcome' = outcome
          /\ at'.piece = at.piece /\ at'.message = at.message + 1
      <4>1. "load" \in Comparing \cup Writing \cup {"msgsize", "blksize", "mode"}
        BY DEF Writing
      <4> QED  BY <1>p, <3>1, <3>2, <4>1, Places
    <3>4. Known'
      BY <1>9, <1>w, <3>1, <3>3 DEF Writing
    <3>5. Buffered'
      BY <1>d, <2>1, <3>2, <3>3 DEF Buffered, Filled, Written, Writing
    <3> QED  BY <1>9, <1>d, <1>t, <1>r, <3>1, <3>3, <3>4, <3>5, Quiet DEF IInv
  <2>3. CASE at.message >= Messages
    <3>1. at.message = Messages /\ ~(at.message < Messages)
      BY <1>p, <2>3, Sizes
    <3>2. differing' = differing /\ GoTo("store", at.block, at.piece, 1)
      BY <1>9, <3>1 DEF Continue, Command
    <3>3. /\ at' \in Place /\ at'.step = "store" /\ at'.block = at.block /\ outcome' = outcome
          /\ at'.piece = at.piece
      BY <1>1, <1>p, <3>2, Places DEF Writing
    <3>4. Known'
      BY <1>9, <1>w, <3>2, <3>3 DEF Writing
    <3>5. Buffered'
      BY <1>d, <2>1, <3>1, <3>3 DEF Buffered, Filled, Written, Writing
    <3> QED  BY <1>9, <1>d, <1>t, <1>r, <3>2, <3>3, <3>4, <3>5, Quiet DEF IInv
  <2> QED  BY <1>p, <2>2, <2>3, Sizes
<1>10. CASE at.step = "store"
  <2>1. /\ index = 0 /\ enabled = write /\ (write => Written(at.piece))
    BY <1>10 DEF IInv, Truthful, Buffered, Writing
  <2>2. differing' = differing /\ Stored
    BY <1>10 DEF Continue, Command
  <2>3. CASE at.piece < Buffers
    <3>1. at.piece + 1 \in 1..Buffers /\ (at.piece + 1) - 1 = at.piece
      BY <1>p, <2>3, Sizes
    <3>2. /\ at' \in Place /\ at'.step = "load" /\ at'.block = at.block /\ outcome' = outcome
          /\ at'.piece = at.piece + 1 /\ at'.message = 1
      <4>1. "load" \in Comparing \cup Writing \cup {"msgsize", "blksize", "mode"}
        BY DEF Writing
      <4>2. GoTo("load", at.block, at.piece + 1, 1)
        BY <2>2, <2>3 DEF Stored
      <4> QED  BY <1>1, <1>p, <3>1, <4>1, <4>2, Places
    <3>3. Known'
      BY <1>10, <1>w, <2>2, <3>2 DEF Writing
    <3>4. Buffered'
      BY <1>d, <2>1, <3>1, <3>2 DEF Buffered, Filled, Written, Writing
    <3> QED  BY <1>10, <1>d, <1>t, <1>r, <2>2, <3>2, <3>3, <3>4, Quiet DEF IInv
  <2>4. CASE at.piece >= Buffers
    <3>1. ~(at.piece < Buffers) /\ \A k \in 1..Buffers : k <= at.piece
      BY <1>p, <2>4, Sizes
    <3>2. NextDiffering(at.block)
      BY <2>2, <3>1 DEF Stored
    <3>3. write => ~Differs(at.block)
      BY <2>1, <3>1 DEF Written, Differs, IsImage
    <3>4. write => \A b \in 1..Blocks : b < at.block \/ b \notin differing => ~Differs(b)
      BY <1>10 DEF IInv, Known, Writing
    <3>5. write => \A b \in 1..Blocks : b <= at.block \/ b \notin differing => ~Differs(b)
      BY <1>p, <3>3, <3>4
    <3>6. at.block \in 0..Blocks
      BY <1>p
    <3> QED  BY <1>5, <1>10, <2>1, <2>2, <3>2, <3>5, <3>6
  <2> QED  BY <1>p, <2>3, <2>4, Sizes
<1>11. at.step \notin {"over", "upload", "id", "id again"}
  BY <1>p DEF Continue, Command
<1> QED  BY <1>2, <1>3, <1>4, <1>6, <1>7, <1>8, <1>9, <1>10, <1>11, <1>p DEF Place

LEMMA HearPreserves == ASSUME IInv, Hear PROVE IInv'
<1> DEFINE frame == Read(wire)
<1>h. waiting /\ waiting' = FALSE /\ wire' = <<>> /\ Judge(frame) /\ UNCHANGED <<controller, write, fits>>
  BY DEF Hear
<1>1. CASE ~Valid(frame, Command(at))
  <2>1. Reject(frame)
    BY <1>1, <1>h DEF Judge
  <2> QED  BY <1>h, <2>1, Rejected
<1>2. CASE Valid(frame, Command(at)) /\ Command(at) = "id"
  <2>1. Identified(frame)
    BY <1>2, <1>h DEF Judge, Continue, Command
  <2>2. CASE frame.payload = "d2wd" /\ fits
    <3>1. at' = [step |-> "crc", block |-> 1, piece |-> 1, message |-> 1] /\ UNCHANGED <<outcome, differing>>
      BY <2>1, <2>2 DEF Identified, GoTo
    <3>2. at' \in Place /\ at'.step = "crc" /\ at'.block = 1 /\ at.step # "over"
      <4>1. 1 \in 1..Blocks /\ 1 \in 1..Buffers /\ 1 \in 1..Messages
        BY Sizes
      <4>2. at' \in Place
        BY <3>1, <4>1 DEF Place
      <4>3. at.step # "over"
        BY <1>2 DEF Command
      <4> QED  BY <3>1, <4>2, <4>3
    <3>3. Types' /\ Reported'
      BY <1>h, <3>1, <3>2 DEF IInv, Types, Reported, controller
    <3>4. Known' /\ Buffered'
      BY <3>2 DEF Known, Buffered, Writing
    <3> QED  BY <1>h, <3>3, <3>4, Quiet DEF IInv
  <2>3. CASE ~(frame.payload = "d2wd" /\ fits)
    <3>1. at' = Entry("over") /\ outcome' = "error" /\ differing' = differing
      BY <2>1, <2>3 DEF Identified, Finish
    <3>2. at' \in Place /\ at'.step = "over"
      BY <3>1, Entries DEF Entering
    <3>3. Types' /\ Reported'
      BY <1>h, <3>1, <3>2 DEF IInv, Types, Reported, controller
    <3> QED  BY <3>2, <3>3, Outside DEF IInv, Entering
  <2> QED  BY <2>2, <2>3
<1>3. CASE Valid(frame, Command(at)) /\ Command(at) # "id"
  <2>1. Continue(frame)
    BY <1>3, <1>h DEF Judge
  <2>2. at.step \notin Entering
    BY <1>3, <2>1 DEF Continue, Command, Entering
  <2>3. wire # <<>>
    BY <1>3 DEF Read, Nothing, Valid
  <2>4. wire = <<wire[1]>>
    BY <2>2, <2>3 DEF IInv, Truthful
  <2>5. frame = wire[1]
    <3>1. Len(wire) = 1
      BY <2>4
    <3> QED  BY <2>3, <3>1 DEF Read
  <2>6. Answered
    BY <1>3, <1>h, <2>3, <2>5 DEF Answered, Valid
  <2> HIDE DEF frame
  <2> QED  BY <1>3, <1>h, <2>1, <2>5, <2>6, ContinuePreserves
<1> QED  BY <1>1, <1>2, <1>3
-----------------------------------------------------------------------------
LEMMA Preserved == IInv /\ [FlashNext]_flashVars => IInv'
<1>1. ASSUME IInv, UNCHANGED flashVars PROVE IInv'
  <2>1. UNCHANGED <<controller, at, waiting, wire, session>>
    BY <1>1 DEF flashVars
  <2>2. Types' /\ Reported'
    BY <1>1, <2>1 DEF controller, session, IInv, Types, Reported, Differs, IsImage
  <2>3. Known'
    BY <1>1, <2>1 DEF controller, session, IInv, Known, Differs, IsImage
  <2>4. Buffered'
    BY <1>1, <2>1 DEF controller, session, IInv, Buffered, Filled, Written
  <2>5. Truthful'
    <3>1. /\ at' = at /\ waiting' = waiting /\ wire' = wire /\ flash' = flash /\ enabled' = enabled
          /\ index' = index /\ buffer' = buffer /\ write' = write
      BY <2>1 DEF controller, session
    <3>2. (Answered' <=> Answered) /\ \A n : (Filled(n)' <=> Filled(n)) /\ (Written(n)' <=> Written(n))
      BY <3>1 DEF Answered, Filled, Written
    <3> QED  BY <1>1, <3>1, <3>2 DEF IInv, Truthful
  <2> QED  BY <2>2, <2>3, <2>4, <2>5 DEF IInv
<1> QED  BY <1>1, StartPreserves, RestartPreserves, AskPreserves, RequestLostPreserves,
            UploadPreserves, ReplyLostPreserves, ReplyDamagedPreserves, HearPreserves,
            HearTooEarlyPreserves DEF FlashNext

(* The strengthened invariant holds of host, kernel and line together.     *)
THEOREM Invariance == FlashSafety => []IInv
<1> QED  BY InitIInv, Preserved, PTL DEF FlashSafety

(* Success means the whole flash is the file's, and a test write has left  *)
(* it alone, for any number of blocks, faults and sessions.                *)
THEOREM TrueReports == FlashSafety => []ReportIsTrue
<1>1. IInv => ReportIsTrue
  BY DEF IInv, Reported, ReportIsTrue
<1> QED  BY Invariance, <1>1, PTL

(* What the host counts as done the kernel has done.                       *)
THEOREM AcknowledgedIsDone == FlashSafety => []AckMeansDone
<1>1. ASSUME IInv PROVE AckMeansDone
  <2>1. at.step \in Writing => enabled = write
    BY <1>1 DEF IInv, Buffered
  <2>2. at.step = "load" /\ ~waiting => Filled(at.message - 1) /\ (write => Written(at.piece - 1))
    BY <1>1 DEF IInv, Buffered
  <2>3. at.step = "store" /\ ~waiting => Filled(Messages) /\ (write => Written(at.piece - 1))
    BY <1>1 DEF IInv, Buffered
  <2>p. at.piece \in 1..Buffers
    BY <1>1 DEF IInv, Types, Place
  <2>4. \A k \in 1..Buffers : k <= at.piece - 1 <=> k < at.piece
    BY <2>p, Sizes
  <2>5. at.step \in Writing \cup {"crc again"} /\ write =>
          \A b \in 1..Blocks :
            b < at.block \/ at.step = "crc again" \/ b \notin differing => ~Differs(b)
    BY <1>1 DEF IInv, Known, Writing
  <2> QED  BY <2>1, <2>2, <2>3, <2>4, <2>5 DEF AckMeansDone, Writing, Filled, Written
<1> QED  BY Invariance, <1>1, PTL
=============================================================================
