------------------------------- MODULE CutTask -------------------------------
(***************************************************************************)
(* The cut wrappers instruction group by instruction group, interleaved    *)
(* with nested interrupts and with the higher priority injector task.      *)
(*                                                                         *)
(* The retained rev limiter clears and rebuilds the cut flag (BF6C bit 80) *)
(* and then the injector inhibit word (B744), so between its stores and    *)
(* the added cuts' a continuing cut is temporarily gone.  The wrappers     *)
(* bracket the whole update with the kernel's TASK_LOCK and TASK_UNLOCK:   *)
(* interrupts stay enabled, but the kernel dispatches a task only when the *)
(* mask it returns to is zero.  The kernel itself (3A28, 3454, 3AF4, 3B08, *)
(* 3F84) is ROM code; it is modelled from the contract the wrappers check  *)
(* and the behaviour their tests execute.                                  *)
(***************************************************************************)
EXTENDS Naturals, Sequences

CONSTANTS CallerMasks,  \* masks the dispatcher may already hold at the call
          Levels,       \* interrupt levels that arrive
          MaxNest,      \* bound on nested interrupts
          Capacity      \* kernel limit on injector activations (2)

ASSUME CutTaskAssumption ==
  /\ CallerMasks \subseteq 0..15 /\ Levels \subseteq 1..15
  /\ MaxNest \in Nat /\ Capacity \in Nat \ {0}

VARIABLES hook,         \* which wrapper the rev limiter's task slot points at
          pc,           \* next step of the periodic slot
          imask,        \* SR interrupt mask
          irq,          \* masks saved by the active interrupts, oldest first
          running,      \* "task" or the step the injector task is at
          activations,  \* injector activations asked for and not completed
          outer, inner, \* masks saved by the two nested wrappers
          callerMask,
          flag, word,   \* FUELCUT_FLAG bit 80; all six channels inhibited
          reasons,      \* decisions taken so far by this call
          committed,    \* history: decisions of the last completed update
          seen          \* <<flag, word>> as the injector task last read them

kernel == <<imask, irq, running, activations>>
saved  == <<outer, inner, callerMask>>
cut    == <<flag, word, reasons, committed>>
vars   == <<hook, pc, kernel, saved, cut, seen>>

Reasons == {"limiter", "overboost", "lean"}
Labels == {"idle", "outerLock", "innerLock", "limiterFlag", "limiterWord",
           "overboost", "overboostWord", "innerUnlock", "innerDispatch",
           "lean", "leanWord", "outerUnlock", "outerDispatch",
           "return", "callerDispatch"}
-----------------------------------------------------------------------------
(* The kernel's services. *)

(* Fault: no lock at all. *)
RaisedNot(mask) == mask

(* 3AF4 with argument 0x10 returns the mask and raises it to at least 1. *)
Raised(mask) == IF mask < 1 THEN 1 ELSE mask

(* 3B08 restores the mask; only an unlock to zero enters the dispatcher. *)
Unlock(mask, dispatch, resume) ==
  /\ imask' = mask
  /\ pc' = IF mask = 0 THEN dispatch ELSE resume
  /\ UNCHANGED <<hook, irq, running, activations, saved, seen>>

(* Fault: one waiting activation is not enough. *)
SwitchIfMany == running' = IF activations > 1 THEN "inject" ELSE "task"

(* The dispatcher runs the injector task, which outranks the slot's task.  *)
SwitchIfPending == running' = IF activations > 0 THEN "inject" ELSE "task"

TaskRuns(label) == pc = label /\ running = "task" /\ irq = <<>>

Dispatch(label, resume) ==
  /\ TaskRuns(label)
  /\ SwitchIfPending
  /\ pc' = resume
  /\ UNCHANGED <<hook, imask, irq, activations, saved, cut, seen>>
-----------------------------------------------------------------------------
Init ==
  /\ hook \in {"overboost", "lean"}
  /\ pc = "idle" /\ imask = 0 /\ irq = <<>> /\ running = "task"
  /\ activations = 0 /\ outer = 0 /\ inner = 0 /\ callerMask = 0
  /\ flag = FALSE /\ word = FALSE /\ reasons = {} /\ committed = {}
  /\ seen = <<FALSE, FALSE>>

(* The periodic dispatcher calls the slot, perhaps in a critical section   *)
(* of its own.                                                             *)
Enter(mask) ==
  /\ TaskRuns("idle")
  /\ callerMask' = mask /\ imask' = mask
  /\ reasons' = {}
  /\ pc' = IF hook = "lean" THEN "outerLock" ELSE "innerLock"
  /\ UNCHANGED <<hook, irq, running, activations, outer, inner,
                 flag, word, committed, seen>>

(* emit_cut_update_begin of the lean wrapper *)
OuterLock ==
  /\ TaskRuns("outerLock")
  /\ outer' = imask /\ imask' = Raised(imask)
  /\ pc' = "innerLock"
  /\ UNCHANGED <<hook, irq, running, activations, inner, callerMask, cut, seen>>

(* emit_cut_update_begin of the overboost wrapper *)
InnerLock ==
  /\ TaskRuns("innerLock")
  /\ inner' = imask /\ imask' = Raised(imask)
  /\ pc' = "limiterFlag"
  /\ UNCHANGED <<hook, irq, running, activations, outer, callerMask, cut, seen>>

(* The native limiter rewrites the flag from its own decision alone ...    *)
LimiterFlag ==
  /\ TaskRuns("limiterFlag")
  /\ \E limit \in BOOLEAN :
       /\ flag' = limit
       /\ reasons' = IF limit THEN {"limiter"} ELSE {}
  /\ pc' = "limiterWord"
  /\ UNCHANGED <<hook, kernel, saved, word, committed, seen>>

(* ... and rebuilds the inhibit word from the flag.                        *)
LimiterWord ==
  /\ TaskRuns("limiterWord")
  /\ word' = flag
  /\ pc' = "overboost"
  /\ UNCHANGED <<hook, kernel, saved, flag, reasons, committed, seen>>

(* emit_added_fuel_cut is two stores: the flag, then the word.             *)
AddCut(label, reason, wordLabel, skip) ==
  /\ TaskRuns(label)
  /\ \/ /\ flag' = TRUE
        /\ reasons' = reasons \cup {reason}
        /\ pc' = wordLabel
     \/ /\ pc' = skip
        /\ UNCHANGED <<flag, reasons>>
  /\ UNCHANGED <<hook, kernel, saved, word, committed, seen>>

StoreWord(label, resume) ==
  /\ TaskRuns(label)
  /\ word' = TRUE
  /\ pc' = resume
  /\ UNCHANGED <<hook, kernel, saved, flag, reasons, committed, seen>>

Overboost == AddCut("overboost", "overboost", "overboostWord", "innerUnlock")
OverboostWord == StoreWord("overboostWord", "innerUnlock")
Lean == AddCut("lean", "lean", "leanWord", "outerUnlock")
LeanWord == StoreWord("leanWord", "outerUnlock")

AfterInner == IF hook = "lean" THEN "lean" ELSE "return"

(* Fault: the inner unlock opens the caller's section as well. *)
InnerUnlockAll ==
  /\ TaskRuns("innerUnlock")
  /\ Unlock(0, "innerDispatch", AfterInner)
  /\ committed' = IF hook = "lean" THEN committed ELSE reasons
  /\ UNCHANGED <<flag, word, reasons>>

(* emit_cut_update_end; the outermost one completes the update.            *)
InnerUnlock ==
  /\ TaskRuns("innerUnlock")
  /\ Unlock(inner, "innerDispatch", AfterInner)
  /\ committed' = IF hook = "lean" THEN committed ELSE reasons
  /\ UNCHANGED <<flag, word, reasons>>

InnerDispatch == Dispatch("innerDispatch", AfterInner)

OuterUnlock ==
  /\ TaskRuns("outerUnlock")
  /\ Unlock(outer, "outerDispatch", "return")
  /\ committed' = reasons
  /\ UNCHANGED <<flag, word, reasons>>

OuterDispatch == Dispatch("outerDispatch", "return")

(* A caller that held the lock releases it later. *)
CallerUnlock ==
  /\ TaskRuns("return")
  /\ IF callerMask = 0
     THEN /\ pc' = "idle"
          /\ UNCHANGED <<hook, imask, irq, running, activations, saved, seen>>
     ELSE Unlock(0, "callerDispatch", "idle")
  /\ UNCHANGED cut

CallerDispatch == Dispatch("callerDispatch", "idle")

Slot == \/ \E mask \in CallerMasks : Enter(mask)
        \/ OuterLock \/ InnerLock \/ LimiterFlag \/ LimiterWord
        \/ Overboost \/ OverboostWord \/ InnerUnlock \/ InnerDispatch
        \/ Lean \/ LeanWord \/ OuterUnlock \/ OuterDispatch
        \/ CallerUnlock \/ CallerDispatch
-----------------------------------------------------------------------------
(* Interrupts: entry, activation of the injector task (3A28 refuses one    *)
(* beyond the capacity), and return.  Only the outermost return to a zero  *)
(* mask may switch tasks.                                                  *)
Interrupt(level) ==
  /\ level > imask /\ Len(irq) < MaxNest
  /\ irq' = Append(irq, imask) /\ imask' = level
  /\ UNCHANGED <<hook, pc, running, activations, saved, cut, seen>>

Activate ==
  /\ irq # <<>> /\ activations < Capacity
  /\ activations' = activations + 1
  /\ UNCHANGED <<hook, pc, imask, irq, running, saved, cut, seen>>

MaySwitch == Len(irq) = 1 /\ Head(irq) = 0

InterruptReturn ==
  /\ irq # <<>>
  /\ imask' = irq[Len(irq)]
  /\ irq' = SubSeq(irq, 1, Len(irq) - 1)
  /\ IF MaySwitch /\ running = "task"
     THEN SwitchIfPending
     ELSE UNCHANGED running
  /\ UNCHANGED <<hook, pc, activations, saved, cut, seen>>

(* Task 5: the injector scheduler reads both interfaces ...                *)
Inject ==
  /\ running = "inject" /\ irq = <<>>
  /\ seen' = <<flag, word>>
  /\ running' = "finish"
  /\ UNCHANGED <<hook, pc, imask, irq, activations, saved, cut>>

(* ... and completes (3F2C), taking the next activation or resuming the    *)
(* preempted slot.                                                         *)
InjectorDone ==
  /\ running = "finish" /\ irq = <<>>
  /\ activations' = activations - 1
  /\ running' = IF activations > 1 THEN "inject" ELSE "task"
  /\ UNCHANGED <<hook, pc, imask, irq, saved, cut, seen>>

Injector == Inject \/ InjectorDone

Next == \/ Slot \/ Injector \/ Activate \/ InterruptReturn
        \/ \E level \in Levels : Interrupt(level)

Spec == Init /\ [][Next]_vars

(* Interrupts return, nested ones leave the outermost handler time to      *)
(* finish, and together they leave the tasks processor time: a step that   *)
(* is enabled again and again between interrupts is taken.                 *)
OutermostReturn == Len(irq) = 1 /\ InterruptReturn

FairSpec == /\ Spec
            /\ WF_vars(InterruptReturn) /\ SF_vars(OutermostReturn)
            /\ SF_vars(Slot) /\ SF_vars(Injector)
-----------------------------------------------------------------------------
TypeOK ==
  /\ hook \in {"overboost", "lean"} /\ pc \in Labels
  /\ imask \in 0..15 /\ irq \in Seq(0..15) /\ Len(irq) <= MaxNest
  /\ running \in {"task", "inject", "finish"} /\ activations \in 0..Capacity
  /\ outer \in 0..15 /\ inner \in 0..15 /\ callerMask \in 0..15
  /\ flag \in BOOLEAN /\ word \in BOOLEAN
  /\ reasons \subseteq Reasons /\ committed \subseteq Reasons
  /\ seen \in BOOLEAN \X BOOLEAN

(* The wrappers keep FuelGuard's promise: wherever an interrupt lands, the *)
(* injector task reads the decision of the last completed update, never    *)
(* the limiter's temporary release nor a flag without its word.            *)
Guard == INSTANCE FuelGuard WITH demand <- committed, requests <- activations
KeepsPromise == Guard!Spec

(* The mask the slot itself runs under, below any active interrupt.        *)
SlotMask == IF irq = <<>> THEN imask ELSE Head(irq)

(* Every nesting of the locks gives back the mask it was entered with: a   *)
(* caller's own critical section is not opened early, nor left closed.     *)
MaskBalance ==
  /\ pc \in {"innerLock", "lean", "outerUnlock", "leanWord"} /\ hook = "lean"
       => SlotMask = Raised(callerMask)
  /\ pc = "return" => SlotMask = callerMask
  /\ pc = "idle" => SlotMask = 0

(* A deferred injector activation is eventually served: none is stranded   *)
(* between an interrupt return and the release of a lock that both leave   *)
(* it to the other.                                                        *)
ActivationServed == activations > 0 /\ running = "task" ~> running = "inject"
=============================================================================
