---------------------------- MODULE CutTaskProofs ----------------------------
(***************************************************************************)
(* The nested wrappers balance their masks and keep FuelGuard's promise,   *)
(* for every set of interrupt levels, every depth of nesting, every mask   *)
(* of the caller and every activation limit.  The invariant says which     *)
(* mask the slot runs under at each step of it; since a lock raises it     *)
(* above zero, a task switch, which needs zero, finds the slot outside     *)
(* its critical section, where flag and word tell the committed decision.  *)
(***************************************************************************)
EXTENDS CutTask, SequenceTheorems, TLAPS

Limiting == {"limiterFlag", "limiterWord", "overboost", "overboostWord", "innerUnlock"}
Leaning == {"lean", "leanWord", "outerUnlock"}
Outside == {"idle", "outerLock", "innerDispatch", "outerDispatch", "return", "callerDispatch"}

(* The mask of the slot, and the masks the wrappers have saved.            *)
Entered == IF hook = "lean" THEN Raised(callerMask) ELSE callerMask
Masks ==
  /\ pc \in {"idle", "innerDispatch", "outerDispatch", "callerDispatch"} => SlotMask = 0
  /\ pc \in {"outerLock", "return"} => SlotMask = callerMask
  /\ pc = "innerLock" => SlotMask = Entered
  /\ pc \in Limiting => SlotMask = Raised(callerMask) /\ inner = Entered
  /\ pc \in Leaning => SlotMask = Raised(callerMask)
  /\ pc \in {"outerLock", "outerDispatch"} \cup Leaning => hook = "lean"
  /\ hook = "lean" /\ pc \in {"innerLock"} \cup Limiting \cup Leaning => outer = callerMask
  /\ pc \in {"innerDispatch", "outerDispatch"} => callerMask = 0
  /\ pc = "innerDispatch" => hook = "overboost"

(* The two cut interfaces against the decisions behind them.               *)
Interfaces ==
  /\ pc \in Outside \cup {"innerLock"} => flag = (committed # {}) /\ word = flag
  /\ pc \in (Limiting \cup Leaning) \ {"limiterFlag"} => flag = (reasons # {})
  /\ pc \in {"overboost", "innerUnlock", "lean", "outerUnlock"} => word = flag
  /\ pc \in {"overboostWord", "leanWord"} => flag

(* Another task runs only where the slot holds no lock.                    *)
Switched == running # "task" => SlotMask = 0 /\ activations > 0

IInv == TypeOK /\ Masks /\ Interfaces /\ Switched
-----------------------------------------------------------------------------
(* Entering and leaving an interrupt keep the oldest saved mask, which is  *)
(* the slot's.                                                             *)
LEMMA Saving ==
  ASSUME NEW s \in Seq(0..15), NEW m \in 0..15
  PROVE  /\ Append(s, m) \in Seq(0..15) /\ Append(s, m) # <<>>
         /\ Len(Append(s, m)) = Len(s) + 1
         /\ Head(Append(s, m)) = IF s = <<>> THEN m ELSE Head(s)
<1>1. /\ Append(s, m) \in Seq(0..15) /\ Len(Append(s, m)) = Len(s) + 1
      /\ Append(s, m)[Len(s) + 1] = m
      /\ \A i \in 1..Len(s) : Append(s, m)[i] = s[i]
  BY AppendProperties
<1>2. Append(s, m) # <<>> /\ Head(Append(s, m)) = Append(s, m)[1]
  BY <1>1, EmptySeq
<1>3. CASE s = <<>>
  BY <1>1, <1>2, <1>3, EmptySeq
<1>4. CASE s # <<>>
  <2>1. Len(s) >= 1 /\ Head(s) = s[1]
    BY <1>4, EmptySeq, LenProperties
  <2> QED  BY <1>1, <1>2, <1>4, <2>1
<1> QED  BY <1>3, <1>4

LEMMA Restoring ==
  ASSUME NEW s \in Seq(0..15), s # <<>>
  PROVE  LET rest == SubSeq(s, 1, Len(s) - 1) IN
         /\ rest \in Seq(0..15) /\ Len(rest) = Len(s) - 1 /\ s[Len(s)] \in 0..15
         /\ Head(s) = IF rest = <<>> THEN s[Len(s)] ELSE Head(rest)
         /\ rest = <<>> <=> Len(s) = 1
<1> DEFINE rest == SubSeq(s, 1, Len(s) - 1)
<1>1. Len(s) \in Nat /\ Len(s) >= 1 /\ Head(s) = s[1]
  BY EmptySeq, LenProperties
<1>2. /\ rest \in Seq(0..15) /\ Len(rest) = Len(s) - 1
      /\ \A i \in 1..(Len(s) - 1) : rest[i] = s[i]
  <2>1. \A i \in 1..(Len(s) - 1) : s[i] \in 0..15
    BY <1>1, ElementOfSeq
  <2>2. 1 \in Int /\ Len(s) - 1 \in Int
    BY <1>1
  <2> DEFINE n == Len(s) - 1
  <2> HIDE DEF n
  <2>3. n \in Int /\ \A i \in 1..n : s[i] \in 0..15
    BY <2>1, <2>2 DEF n
  <2>4. /\ SubSeq(s, 1, n) \in Seq(0..15)
        /\ Len(SubSeq(s, 1, n)) = IF 1 <= n THEN n - 1 + 1 ELSE 0
        /\ \A i \in 1..(n - 1 + 1) : SubSeq(s, 1, n)[i] = s[1 + i - 1]
    BY <2>3, SubSeqProperties
  <2>5. n \in Nat /\ n - 1 + 1 = n /\ \A i \in 1..n : 1 + i - 1 = i
    BY <1>1 DEF n
  <2>6. Len(SubSeq(s, 1, n)) = n /\ \A i \in 1..n : SubSeq(s, 1, n)[i] = s[i]
    BY <2>4, <2>5
  <2> QED  BY <2>4, <2>6 DEF n
<1>3. s[Len(s)] \in 0..15
  BY <1>1, ElementOfSeq
<1> HIDE DEF rest
<1>4. rest = <<>> <=> Len(s) = 1
  <2>1. rest # <<>> => Len(rest) \in Nat \ {0}
    BY <1>2, EmptySeq
  <2>2. rest = <<>> => Len(rest) = 0
    BY EmptySeq
  <2> QED  BY <1>1, <1>2, <2>1, <2>2
<1>5. Head(s) = IF rest = <<>> THEN s[Len(s)] ELSE Head(rest)
  <2>1. CASE Len(s) = 1
    BY <1>1, <1>4, <2>1
  <2>2. CASE Len(s) # 1
    BY <1>1, <1>2, <1>4, <2>2
  <2> QED  BY <2>1, <2>2
<1> QED  BY <1>2, <1>3, <1>4, <1>5 DEF rest

(* Locking is idempotent and never leaves the mask at zero. *)
LEMMA Locking == ASSUME NEW m \in 0..15
                 PROVE  Raised(m) \in 1..15 /\ Raised(Raised(m)) = Raised(m)
BY DEF Raised
-----------------------------------------------------------------------------
LEMMA InitIInv == Init => IInv
<1> SUFFICES ASSUME Init PROVE IInv
  OBVIOUS
<1>1. TypeOK
  <2>1. <<>> \in Seq(0..15) /\ Len(<<>>) = 0
    OBVIOUS
  <2>2. irq \in Seq(0..15) /\ Len(irq) <= MaxNest /\ activations \in 0..Capacity
    BY <2>1, CutTaskAssumption DEF Init
  <2>3. seen \in BOOLEAN \X BOOLEAN
    BY DEF Init
  <2>4. imask \in 0..15 /\ outer \in 0..15 /\ inner \in 0..15 /\ callerMask \in 0..15
    BY DEF Init
  <2>5. flag \in BOOLEAN /\ word \in BOOLEAN
    BY DEF Init
  <2>6. hook \in {"overboost", "lean"} /\ pc \in Labels /\ running \in {"task", "inject", "finish"}
    BY DEF Init, Labels
  <2>7. reasons \subseteq Reasons /\ committed \subseteq Reasons
    BY DEF Init
  <2> QED  BY <2>2, <2>3, <2>4, <2>5, <2>6, <2>7, Zenon DEF TypeOK
<1>2. Masks /\ Interfaces /\ Switched
  BY DEF Init, Masks, Interfaces, Switched, SlotMask, Outside, Limiting, Leaning
<1> QED  BY <1>1, <1>2 DEF IInv

(* The steps of the slot, which run with no interrupt active. *)
LEMMA SlotPreserves == ASSUME IInv, Slot PROVE IInv'
<1>l. /\ Raised(callerMask) \in 1..15 /\ Raised(Raised(callerMask)) = Raised(callerMask)
      /\ Raised(imask) \in 1..15 /\ Raised(imask) # 0
  <2>1. callerMask \in 0..15 /\ imask \in 0..15
    BY DEF IInv, TypeOK
  <2> QED  BY <2>1, Locking
<1> USE DEF IInv, TypeOK, TaskRuns, kernel, saved, cut
<1>t. irq = <<>> /\ irq' = <<>> /\ SlotMask = imask /\ SlotMask' = imask' /\ running = "task"
  BY DEF Slot, SlotMask, Enter, OuterLock, InnerLock, LimiterFlag, LimiterWord, Overboost,
         OverboostWord, InnerUnlock, InnerDispatch, Lean, LeanWord, OuterUnlock, OuterDispatch,
         CallerUnlock, CallerDispatch, AddCut, StoreWord, Unlock, Dispatch
<1>1. ASSUME NEW mask \in CallerMasks, Enter(mask) PROVE IInv'
  <2>1. TypeOK'
    BY <1>1, <1>l, CutTaskAssumption DEF Enter, Labels, Reasons
  <2>2. Masks'
    BY <1>1, <1>t, <1>l DEF Enter, Masks, Entered, Limiting, Leaning
  <2>3. Interfaces'
    BY <1>1, <1>t, <1>l DEF Enter, Masks, Interfaces, Entered, Outside, Limiting, Leaning
  <2>4. Switched'
    BY <1>1, <1>t, <1>l DEF Enter, Masks, Switched
  <2> QED  BY <2>1, <2>2, <2>3, <2>4
<1>2. CASE OuterLock
  <2>1. TypeOK'
    BY <1>2, <1>l, CutTaskAssumption DEF OuterLock, Labels, Reasons
  <2>2. Masks'
    BY <1>2, <1>t, <1>l DEF OuterLock, Masks, Entered, Limiting, Leaning
  <2>3. Interfaces'
    BY <1>2, <1>t, <1>l DEF OuterLock, Masks, Interfaces, Entered, Outside, Limiting, Leaning
  <2>4. Switched'
    BY <1>2, <1>t, <1>l DEF OuterLock, Masks, Switched
  <2> QED  BY <2>1, <2>2, <2>3, <2>4
<1>3. CASE InnerLock
  <2>1. TypeOK'
    BY <1>3, <1>l, CutTaskAssumption DEF InnerLock, Labels, Reasons
  <2>2. Masks'
    BY <1>3, <1>t, <1>l DEF InnerLock, Masks, Entered, Limiting, Leaning
  <2>3. Interfaces'
    BY <1>3, <1>t, <1>l DEF InnerLock, Masks, Interfaces, Entered, Outside, Limiting, Leaning
  <2>4. Switched'
    BY <1>3, <1>t, <1>l DEF InnerLock, Masks, Switched
  <2> QED  BY <2>1, <2>2, <2>3, <2>4
<1>4. CASE LimiterFlag
  <2>1. TypeOK'
    BY <1>4, <1>l, CutTaskAssumption DEF LimiterFlag, Labels, Reasons
  <2>2. Masks'
    BY <1>4, <1>t, <1>l DEF LimiterFlag, Masks, Entered, Limiting, Leaning
  <2>3. Interfaces'
    BY <1>4, <1>t, <1>l DEF LimiterFlag, Masks, Interfaces, Entered, Outside, Limiting, Leaning
  <2>4. Switched'
    BY <1>4, <1>t, <1>l DEF LimiterFlag, Masks, Switched
  <2> QED  BY <2>1, <2>2, <2>3, <2>4
<1>5. CASE LimiterWord
  <2>1. TypeOK'
    BY <1>5, <1>l, CutTaskAssumption DEF LimiterWord, Labels, Reasons
  <2>2. Masks'
    BY <1>5, <1>t, <1>l DEF LimiterWord, Masks, Entered, Limiting, Leaning
  <2>3. Interfaces'
    BY <1>5, <1>t, <1>l DEF LimiterWord, Masks, Interfaces, Entered, Outside, Limiting, Leaning
  <2>4. Switched'
    BY <1>5, <1>t, <1>l DEF LimiterWord, Masks, Switched
  <2> QED  BY <2>1, <2>2, <2>3, <2>4
<1>6. CASE Overboost
  <2>1. TypeOK'
    BY <1>6, <1>l, CutTaskAssumption DEF Overboost, AddCut, Labels, Reasons
  <2>2. Masks'
    BY <1>6, <1>t, <1>l DEF Overboost, AddCut, Masks, Entered, Limiting, Leaning
  <2>3. Interfaces'
    BY <1>6, <1>t, <1>l DEF Overboost, AddCut, Masks, Interfaces, Entered, Outside, Limiting, Leaning
  <2>4. Switched'
    BY <1>6, <1>t, <1>l DEF Overboost, AddCut, Masks, Switched
  <2> QED  BY <2>1, <2>2, <2>3, <2>4
<1>7. CASE OverboostWord
  <2>1. TypeOK'
    BY <1>7, <1>l, CutTaskAssumption DEF OverboostWord, StoreWord, Labels, Reasons
  <2>2. Masks'
    BY <1>7, <1>t, <1>l DEF OverboostWord, StoreWord, Masks, Entered, Limiting, Leaning
  <2>3. Interfaces'
    BY <1>7, <1>t, <1>l DEF OverboostWord, StoreWord, Masks, Interfaces, Entered, Outside, Limiting, Leaning
  <2>4. Switched'
    BY <1>7, <1>t, <1>l DEF OverboostWord, StoreWord, Masks, Switched
  <2> QED  BY <2>1, <2>2, <2>3, <2>4
<1>8. CASE InnerUnlock
  <2>1. TypeOK'
    BY <1>8, <1>l, CutTaskAssumption DEF InnerUnlock, Unlock, AfterInner, Labels, Reasons
  <2>2. Masks'
    BY <1>8, <1>t, <1>l DEF InnerUnlock, Unlock, AfterInner, Masks, Entered, Limiting, Leaning
  <2>3. Interfaces'
    BY <1>8, <1>t, <1>l DEF InnerUnlock, Unlock, AfterInner, Masks, Interfaces, Entered, Outside, Limiting, Leaning
  <2>4. Switched'
    BY <1>8, <1>t, <1>l DEF InnerUnlock, Unlock, AfterInner, Masks, Switched
  <2> QED  BY <2>1, <2>2, <2>3, <2>4
<1>9. CASE InnerDispatch
  <2>1. TypeOK'
    BY <1>9, <1>l, CutTaskAssumption DEF InnerDispatch, Dispatch, SwitchIfPending, AfterInner, Labels, Reasons
  <2>2. Masks'
    BY <1>9, <1>t, <1>l DEF InnerDispatch, Dispatch, SwitchIfPending, AfterInner, Masks, Entered, Limiting, Leaning
  <2>3. Interfaces'
    BY <1>9, <1>t, <1>l DEF InnerDispatch, Dispatch, SwitchIfPending, AfterInner, Masks, Interfaces, Entered, Outside, Limiting, Leaning
  <2>4. Switched'
    BY <1>9, <1>t, <1>l DEF InnerDispatch, Dispatch, SwitchIfPending, AfterInner, Masks, Switched
  <2> QED  BY <2>1, <2>2, <2>3, <2>4
<1>10. CASE Lean
  <2>1. TypeOK'
    BY <1>10, <1>l, CutTaskAssumption DEF Lean, AddCut, Labels, Reasons
  <2>2. Masks'
    BY <1>10, <1>t, <1>l DEF Lean, AddCut, Masks, Entered, Limiting, Leaning
  <2>3. Interfaces'
    BY <1>10, <1>t, <1>l DEF Lean, AddCut, Masks, Interfaces, Entered, Outside, Limiting, Leaning
  <2>4. Switched'
    BY <1>10, <1>t, <1>l DEF Lean, AddCut, Masks, Switched
  <2> QED  BY <2>1, <2>2, <2>3, <2>4
<1>11. CASE LeanWord
  <2>1. TypeOK'
    BY <1>11, <1>l, CutTaskAssumption DEF LeanWord, StoreWord, Labels, Reasons
  <2>2. Masks'
    BY <1>11, <1>t, <1>l DEF LeanWord, StoreWord, Masks, Entered, Limiting, Leaning
  <2>3. Interfaces'
    BY <1>11, <1>t, <1>l DEF LeanWord, StoreWord, Masks, Interfaces, Entered, Outside, Limiting, Leaning
  <2>4. Switched'
    BY <1>11, <1>t, <1>l DEF LeanWord, StoreWord, Masks, Switched
  <2> QED  BY <2>1, <2>2, <2>3, <2>4
<1>12. CASE OuterUnlock
  <2>1. TypeOK'
    BY <1>12, <1>l, CutTaskAssumption DEF OuterUnlock, Unlock, Labels, Reasons
  <2>2. Masks'
    BY <1>12, <1>t, <1>l DEF OuterUnlock, Unlock, Masks, Entered, Limiting, Leaning
  <2>3. Interfaces'
    BY <1>12, <1>t, <1>l DEF OuterUnlock, Unlock, Masks, Interfaces, Entered, Outside, Limiting, Leaning
  <2>4. Switched'
    BY <1>12, <1>t, <1>l DEF OuterUnlock, Unlock, Masks, Switched
  <2> QED  BY <2>1, <2>2, <2>3, <2>4
<1>13. CASE OuterDispatch
  <2>1. TypeOK'
    BY <1>13, <1>l, CutTaskAssumption DEF OuterDispatch, Dispatch, SwitchIfPending, Labels, Reasons
  <2>2. Masks'
    BY <1>13, <1>t, <1>l DEF OuterDispatch, Dispatch, SwitchIfPending, Masks, Entered, Limiting, Leaning
  <2>3. Interfaces'
    BY <1>13, <1>t, <1>l DEF OuterDispatch, Dispatch, SwitchIfPending, Masks, Interfaces, Entered, Outside, Limiting, Leaning
  <2>4. Switched'
    BY <1>13, <1>t, <1>l DEF OuterDispatch, Dispatch, SwitchIfPending, Masks, Switched
  <2> QED  BY <2>1, <2>2, <2>3, <2>4
<1>14. CASE CallerUnlock
  <2>1. TypeOK'
    <3>1. /\ UNCHANGED <<hook, irq, running, activations, outer, inner, callerMask>>
          /\ UNCHANGED <<flag, word, reasons, committed, seen>>
          /\ imask' \in {imask, 0} /\ pc' \in {"callerDispatch", "idle"}
      BY <1>14 DEF CallerUnlock, Unlock
    <3> QED  BY <3>1, CutTaskAssumption DEF Labels
  <2>2. Masks'
    BY <1>14, <1>t, <1>l DEF CallerUnlock, Unlock, Masks, Entered, Limiting, Leaning
  <2>3. Interfaces'
    BY <1>14, <1>t, <1>l DEF CallerUnlock, Unlock, Masks, Interfaces, Entered, Outside, Limiting, Leaning
  <2>4. Switched'
    BY <1>14, <1>t, <1>l DEF CallerUnlock, Unlock, Masks, Switched
  <2> QED  BY <2>1, <2>2, <2>3, <2>4
<1>15. CASE CallerDispatch
  <2>1. TypeOK'
    BY <1>15, <1>l, CutTaskAssumption DEF CallerDispatch, Dispatch, SwitchIfPending, Labels, Reasons
  <2>2. Masks'
    BY <1>15, <1>t, <1>l DEF CallerDispatch, Dispatch, SwitchIfPending, Masks, Entered, Limiting, Leaning
  <2>3. Interfaces'
    BY <1>15, <1>t, <1>l DEF CallerDispatch, Dispatch, SwitchIfPending, Masks, Interfaces, Entered, Outside, Limiting, Leaning
  <2>4. Switched'
    BY <1>15, <1>t, <1>l DEF CallerDispatch, Dispatch, SwitchIfPending, Masks, Switched
  <2> QED  BY <2>1, <2>2, <2>3, <2>4
<1> QED  BY <1>1, <1>2, <1>3, <1>4, <1>5, <1>6, <1>7, <1>8, <1>9, <1>10, <1>11, <1>12, <1>13, <1>14, <1>15 DEF Slot

(* Interrupts and the injector leave the slot where it is, and its mask. *)
LEMMA OthersPreserve ==
  ASSUME IInv,
         Injector \/ Activate \/ InterruptReturn \/ \E level \in Levels : Interrupt(level)
  PROVE  IInv'
<1> USE DEF IInv, TypeOK, saved, cut
<1>1. ASSUME /\ UNCHANGED <<hook, pc, saved, cut>> /\ SlotMask' = SlotMask
      PROVE  Masks' /\ Interfaces'
  BY <1>1 DEF Masks, Interfaces, Entered
<1>2. CASE Inject
  <2>1. TypeOK' /\ SlotMask' = SlotMask /\ UNCHANGED <<hook, pc, saved, cut>>
    BY <1>2 DEF Inject, SlotMask
  <2>2. Switched'
    BY <1>2, <2>1 DEF Inject, Switched
  <2> QED  BY <1>1, <2>1, <2>2
<1>3. CASE InjectorDone
  <2>1. SlotMask' = SlotMask /\ UNCHANGED <<hook, pc, saved, cut>> /\ activations > 0 /\ SlotMask = 0
    BY <1>3 DEF InjectorDone, SlotMask, Switched
  <2>2. TypeOK'
    BY <1>3, <2>1, CutTaskAssumption DEF InjectorDone
  <2>3. Switched'
    BY <1>3, <2>1 DEF InjectorDone, Switched
  <2> QED  BY <1>1, <2>1, <2>2, <2>3
<1>4. CASE Activate
  <2>1. SlotMask' = SlotMask /\ UNCHANGED <<hook, pc, saved, cut>>
    BY <1>4 DEF Activate, SlotMask
  <2>2. TypeOK'
    BY <1>4, CutTaskAssumption DEF Activate
  <2>3. Switched'
    BY <1>4, <2>1 DEF Activate, Switched
  <2> QED  BY <1>1, <2>1, <2>2, <2>3
<1>5. CASE InterruptReturn
  <2>1. /\ irq # <<>> /\ irq \in Seq(0..15)
        /\ imask' = irq[Len(irq)] /\ irq' = SubSeq(irq, 1, Len(irq) - 1)
        /\ UNCHANGED <<hook, pc, activations, saved, cut, seen>>
    BY <1>5 DEF InterruptReturn
  <2>2. /\ irq' \in Seq(0..15) /\ Len(irq') = Len(irq) - 1 /\ imask' \in 0..15
        /\ Head(irq) = IF irq' = <<>> THEN imask' ELSE Head(irq')
    BY <2>1, Restoring
  <2>3. SlotMask' = SlotMask /\ SlotMask = Head(irq)
    BY <2>1, <2>2 DEF SlotMask
  <2>4. /\ running' \in {"task", "inject", "finish"}
        /\ running' # "task" => SlotMask' = 0 /\ activations > 0
    BY <1>5, <2>3 DEF InterruptReturn, MaySwitch, SwitchIfPending, Switched
  <2>5. TypeOK'
    <3>1. Len(irq') <= MaxNest
      BY <2>1, <2>2, LenProperties, CutTaskAssumption
    <3> QED  BY <2>1, <2>2, <2>4, <3>1
  <2>6. Switched'
    BY <2>1, <2>4 DEF Switched
  <2> QED  BY <1>1, <2>1, <2>3, <2>5, <2>6
<1>6. ASSUME NEW level \in Levels, Interrupt(level) PROVE IInv'
  <2>1. /\ irq' = Append(irq, imask) /\ imask' = level /\ Len(irq) < MaxNest
        /\ UNCHANGED <<hook, pc, running, activations, saved, cut, seen>>
    BY <1>6 DEF Interrupt
  <2>2. /\ irq' \in Seq(0..15) /\ irq' # <<>> /\ Len(irq') = Len(irq) + 1
        /\ Head(irq') = IF irq = <<>> THEN imask ELSE Head(irq)
    BY <2>1, Saving
  <2>3. SlotMask' = SlotMask
    BY <2>2 DEF SlotMask
  <2>4. TypeOK'
    <3>1. Len(irq') <= MaxNest
      BY <2>1, <2>2, LenProperties, CutTaskAssumption
    <3> QED  BY <2>1, <2>2, <3>1, CutTaskAssumption
  <2>5. Switched'
    BY <2>1, <2>3 DEF Switched
  <2> QED  BY <1>1, <2>1, <2>3, <2>4, <2>5
<1> QED  BY <1>2, <1>3, <1>4, <1>5, <1>6 DEF Injector

LEMMA Preserved == IInv /\ [Next]_vars => IInv'
<1>1. ASSUME IInv, UNCHANGED vars PROVE IInv'
  BY <1>1 DEF vars, kernel, saved, cut, IInv, TypeOK, Masks, Entered, Interfaces, Switched, SlotMask
<1> QED  BY <1>1, SlotPreserves, OthersPreserve DEF Next

(* The injector task runs only where flag and word tell what was last      *)
(* committed.                                                              *)
LEMMA InjectorSeesWhole ==
  ASSUME IInv, running # "task"
  PROVE  activations > 0 /\ flag = (committed # {}) /\ word = flag
<1> USE DEF IInv, TypeOK
<1>1. SlotMask = 0 /\ activations > 0
  BY DEF Switched
<1>2. Raised(callerMask) # 0
  BY Locking
<1>3. pc \notin Limiting \cup Leaning
  BY <1>1, <1>2 DEF Masks
<1>4. pc \in Outside \cup {"innerLock"}
  BY <1>3 DEF Labels, Outside, Limiting, Leaning
<1> QED  BY <1>1, <1>4 DEF Interfaces

(* Every step is a step of FuelGuard or changes none of its variables.     *)
LEMMA Simulates == IInv /\ [Next]_vars => [Guard!Next]_(Guard!vars)
<1> SUFFICES ASSUME IInv, [Next]_vars, ~UNCHANGED Guard!vars PROVE Guard!Next
  OBVIOUS
<1> USE DEF IInv, TypeOK, TaskRuns, kernel, saved, cut
<1>1. CASE Slot
  <2>1. UNCHANGED <<activations, seen>> /\ committed' \in {committed, reasons}
    BY <1>1 DEF Slot, Enter, OuterLock, InnerLock, LimiterFlag, LimiterWord, Overboost,
         OverboostWord, InnerUnlock, InnerDispatch, Lean, LeanWord, OuterUnlock, OuterDispatch,
         CallerUnlock, CallerDispatch, AddCut, StoreWord, Unlock, Dispatch
  <2> QED  BY <2>1 DEF Guard!Next, Guard!Publish
<1>2. CASE Inject
  <2>1. activations > 0 /\ flag = (committed # {}) /\ word = flag
    BY <1>2, InjectorSeesWhole DEF Inject
  <2> QED  BY <1>2, <2>1 DEF Inject, Guard!Next, Guard!Observe
<1>3. CASE InjectorDone
  <2>1. activations > 0
    BY <1>3 DEF InjectorDone, Switched
  <2> QED  BY <1>3, <2>1 DEF InjectorDone, Guard!Next, Guard!Finish
<1>4. CASE Activate
  BY <1>4 DEF Activate, Guard!Next, Guard!Ask
<1>5. CASE InterruptReturn \/ (\E level \in Levels : Interrupt(level)) \/ UNCHANGED vars
  BY <1>5 DEF InterruptReturn, Interrupt, vars, Guard!vars
<1> QED  BY <1>1, <1>2, <1>3, <1>4, <1>5 DEF Next, Injector
-----------------------------------------------------------------------------
(* The strengthened invariant holds of the slot, the interrupts and the    *)
(* injector task together.                                                 *)
THEOREM Invariance == Spec => []IInv
<1> QED  BY InitIInv, Preserved, PTL DEF Spec

(* Masks, saved masks, interfaces and counts keep their types.             *)
THEOREM TypeCorrect == Spec => []TypeOK
<1>1. IInv => TypeOK
  BY DEF IInv
<1> QED  BY Invariance, <1>1, PTL

(* Nested locks give back the mask they were entered with, at any depth of *)
(* interrupts and under any mask of the caller.                            *)
THEOREM MasksBalance == Spec => []MaskBalance
<1>1. IInv => MaskBalance
  BY DEF IInv, Masks, Entered, MaskBalance, Limiting, Leaning
<1> QED  BY Invariance, <1>1, PTL

(* The wrappers implement FuelGuard: whole decisions, read whole.          *)
THEOREM PromiseKept == Spec => KeepsPromise
<1>1. Init => Guard!Init
  BY DEF Init, Guard!Init
<1> QED  BY Invariance, <1>1, Simulates, PTL DEF Spec, KeepsPromise, Guard!Spec
=============================================================================
