------------------------- MODULE HvInterruptsProofs -------------------------
(***************************************************************************)
(* What HvInterrupts promises for every set of threads and lines.          *)
(*                                                                         *)
(* The bit and the PIC's request agree only because whoever raises a line  *)
(* keeps host_ica_lock until the bit is set (LockHeld); an EOI is still to *)
(* come for each line in service only because a guest that sends one is in *)
(* a handler (EoiHasHandler).  The parts about the cancel, about the PIC   *)
(* and about the handlers are proved one by one over the same steps.       *)
(***************************************************************************)
EXTENDS HvInterrupts, FiniteSetTheorems, TLAPS

\* Only the thread that raises a line has the lock between two steps, and the
\* request is out while it has it.
LockHeld ==
  /\ \A t \in Threads : call[t] = "line" <=> lock = t
  /\ \A t \in Threads : lock = t => thread[t] # "idle"
  /\ lock # NoThread => cpuInt

EoiHasHandler == exit = "eoi" => handlers # <<>>

PicInv == LockHeld /\ RequestIsFlag /\ RequestStands
ServiceInv == IsFiniteSet(isr) /\ EoiHasHandler /\ AckedNotLost

IInv == TypeOK /\ PicInv /\ CancelBacked /\ ServiceInv
-----------------------------------------------------------------------------
(* A step of a worker or of the PIT thread keeps the types.                *)
LEMMA TypeThread ==
  ASSUME TypeOK,
         NEW t \in Threads,
         \/ t \in Workers /\ TimerTick(t)
         \/ t \in Workers /\ \E l \in Lines : RaiseLine(t, l)
         \/ t \in PitThreads /\ Nudge(t)
         \/ CpuInterrupt(t)
  PROVE  TypeOK'
<1> USE HvAssumption DEF TypeOK, Threads, Move, flagVars, picVars, cancelVars,
        windowVars, deferVars, loopVars, guestVars, threadVars, AfterCancel
<1>1. CASE t \in Workers /\ TimerTick(t)
  BY <1>1 DEF TimerTick
<1>2. ASSUME t \in Workers, NEW l \in Lines, RaiseLine(t, l) PROVE TypeOK'
  BY <1>2 DEF RaiseLine, Request
<1>3. CASE t \in PitThreads /\ Nudge(t)
  BY <1>3 DEF Nudge
<1>4. CASE TestRunning(t)
  BY <1>4 DEF TestRunning
<1>5. CASE ExchangePending(t)
  BY <1>5 DEF ExchangePending
<1>6. CASE Cancel(t)
  BY <1>6 DEF Cancel
<1>7. CASE SetFlag(t)
  BY <1>7 DEF SetFlag
<1> QED BY <1>1, <1>2, <1>3, <1>4, <1>5, <1>6, <1>7 DEF CpuInterrupt

(* Acknowledging and injecting keeps the types of what it changes.         *)
LEMMA TypeInject ==
  ASSUME TypeOK, InjectHardware
  PROVE  /\ irr' \subseteq Lines /\ isr' \subseteq Lines
         /\ {cpuInt', hardware'} \subseteq BOOLEAN
         /\ raised' \in Lines \cup {NoLine}
         /\ slot' \in Lines \cup {NoLine, Fault}
<1>1. CASE irqEnabled /\ hardware /\ slot = NoLine
  <2>1. PICK l \in Acknowledgeable : Acknowledge(l) /\ slot' = l
    BY <1>1 DEF InjectHardware
  <2>2. l \in Lines
    BY <2>1 DEF Acknowledgeable, Eligible, Highest, TypeOK
  <2> QED BY <1>1, <2>1, <2>2 DEF InjectHardware, Acknowledge, TypeOK
<1>2. CASE ~(irqEnabled /\ hardware /\ slot = NoLine)
  BY <1>2 DEF InjectHardware, TypeOK, picVars
<1> QED BY <1>1, <1>2

(* The scan keeps the types of what it changes.                            *)
LEMMA TypeScan ==
  ASSUME TypeOK, NEW inService, ScanAfter(inService)
  PROVE  {cpuInt', hardware'} \subseteq BOOLEAN /\ raised' \in Lines \cup {NoLine}
BY DEF ScanAfter, Highest, Eligible, Request, TypeOK

(* A step of cpu_simulate keeps the types.                                 *)
LEMMA TypeLoop == ASSUME TypeOK, EoiHasHandler, Loop \/ Simulate PROVE TypeOK'
<1> USE HvAssumption DEF TypeOK, flagVars, picVars, cancelVars, windowVars, deferVars,
        loopVars, guestVars, threadVars, otherVars, Eligible, Request, Return, Handle
<1>1. CASE Dispatch
  <2>1. CASE timer
    BY <1>1, <2>1 DEF Dispatch
  <2>2. CASE ~timer
    BY <1>1, <2>2, TypeInject DEF Dispatch
  <2> QED BY <2>1, <2>2
<1>2. CASE DispatchHardware
  BY <1>2, TypeInject DEF DispatchHardware
<1>3. CASE SkipToRun
  BY <1>3 DEF SkipToRun
<1>4. CASE Unwedge
  <2>1. CASE UNCHANGED <<picVars, hardware>>
    BY <1>4, <2>1 DEF Unwedge
  <2>2. CASE \E l \in isr : isr' = isr \ {l} /\ ScanAfter(isr') /\ UNCHANGED irr
    <3>1. isr' \subseteq Lines /\ irr' \subseteq Lines
      BY <2>2
    <3>2. ScanAfter(isr')
      BY <2>2
    <3> HIDE <2>2
    <3> QED BY <1>4, <3>1, <3>2, TypeScan DEF Unwedge
  <2> QED BY <1>4, <2>1, <2>2 DEF Unwedge
<1>5. CASE DeferDispatch
  <2>1. deferCount' \in 0..DeferCap
    BY <1>5 DEF DeferDispatch
  <2>2. latchRead' = FALSE /\ vcpu' = "window"
    BY <1>5 DEF DeferDispatch
  <2>3. UNCHANGED <<otherVars, flagVars, picVars, cancelVars, slot, windowVars, loopVars>>
    BY <1>5 DEF DeferDispatch
  <2> QED BY <2>1, <2>2, <2>3
<1>6. CASE DispatchPending
  <2>1. deferCount' \in 0..DeferCap
    BY <1>6 DEF DispatchPending
  <2>2. latchRead' = FALSE /\ vcpu' \in {"dispatch", "window"} /\ after' \in {"top", "window"}
    BY <1>6 DEF DispatchPending
  <2>3. UNCHANGED <<otherVars, flagVars, picVars, cancelVars, slot, windowVars, fast, exit>>
    BY <1>6 DEF DispatchPending
  <2> QED BY <2>1, <2>2, <2>3
<1>7. CASE ArmWindow
  <2>1. streak' \in 0..StuckIters
    BY <1>7 DEF ArmWindow
  <2>2. armed' \in BOOLEAN /\ notify' \in BOOLEAN /\ vcpu' = "clear"
    BY <1>7 DEF ArmWindow
  <2>3. UNCHANGED <<otherVars, flagVars, picVars, cancelVars, slot, deferVars, loopVars>>
    BY <1>7 DEF ArmWindow
  <2> QED BY <2>1, <2>2, <2>3
<1>8. CASE ClearCancel
  BY <1>8 DEF ClearCancel
<1>9. CASE MarkRunning
  BY <1>9 DEF MarkRunning
<1>10. CASE LeaveRun
  BY <1>10 DEF LeaveRun
<1>11. CASE TestFast
  BY <1>11 DEF TestFast
<1>12. CASE HandleEoi
  <2>1. isr' \subseteq Lines
    BY <1>12 DEF HandleEoi, Highest
  <2>2. {cpuInt', hardware'} \subseteq BOOLEAN /\ raised' \in Lines \cup {NoLine}
    BY <1>12, TypeScan DEF HandleEoi
  <2>3. handlers' \in Seq(Lines)
    <3>1. handlers # <<>> /\ handlers' = Tail(handlers)
      BY <1>12 DEF HandleEoi, EoiHasHandler
    <3> QED BY <3>1
  <2> QED BY <1>12, <2>1, <2>2, <2>3 DEF HandleEoi
<1>13. CASE HandleIo
  <2>1. latchRead' \in BOOLEAN
    BY <1>13 DEF HandleIo
  <2>2. /\ irr' \subseteq Lines /\ isr' \subseteq Lines
        /\ {cpuInt', hardware'} \subseteq BOOLEAN /\ raised' \in Lines \cup {NoLine}
    BY <1>13 DEF HandleIo
  <2> QED BY <1>13, <2>1, <2>2 DEF HandleIo
<1>14. CASE HandleOther
  BY <1>14 DEF HandleOther
<1>15. CASE HandleFault
  BY <1>15 DEF HandleFault
<1>16. CASE HandleUnsimulate
  BY <1>16 DEF HandleUnsimulate
<1>17. CASE HandleVramRead
  BY <1>17 DEF HandleVramRead
<1>18. CASE HandleWindow
  BY <1>18 DEF HandleWindow
<1>19. CASE HandleHalt
  BY <1>19 DEF HandleHalt
<1>20. CASE Simulate
  BY <1>20 DEF Simulate
<1> QED
  BY <1>1, <1>2, <1>3, <1>4, <1>5, <1>6, <1>7, <1>8, <1>9, <1>10, <1>11, <1>12, <1>13,
     <1>14, <1>15, <1>16, <1>17, <1>18, <1>19, <1>20 DEF Loop

(* A step inside the run keeps the types.                                  *)
LEMMA TypeRun ==
  ASSUME TypeOK, Deliver \/ GuestSetsIF \/ ExitCanceled \/ ExitWindow \/ ExitGuest
  PROVE  TypeOK'
<1> USE HvAssumption DEF TypeOK, runVars, flagVars, picVars, deferVars, guestVars,
        threadVars, ExitWith, Deliverable, Fault, NoLine
<1>1. CASE Deliver
  <2>1. slot # Fault => slot \in Lines
    BY <1>1 DEF Deliver
  <2>2. handlers' \in Seq(Lines)
    BY <1>1, <2>1 DEF Deliver
  <2> QED BY <1>1, <2>2 DEF Deliver
<1>2. CASE GuestSetsIF
  BY <1>2 DEF GuestSetsIF
<1>3. CASE ExitCanceled
  BY <1>3 DEF ExitCanceled
<1>4. CASE ExitWindow
  BY <1>4 DEF ExitWindow
<1>5. CASE ExitGuest
  BY <1>5 DEF ExitGuest
<1> QED BY <1>1, <1>2, <1>3, <1>4, <1>5
-----------------------------------------------------------------------------
(* The PIC and VDM_INT_HARDWARE.                                           *)

(* A scan of the PIC after a line has left service.                        *)
LEMMA ScanKeepsPic ==
  ASSUME TypeOK, PicInv, lock = NoThread, isr' \subseteq isr, ScanAfter(isr'),
         UNCHANGED <<irr, lock, threadVars>>
  PROVE  PicInv'
<1> USE DEF PicInv, RequestIsFlag, RequestStands, Eligible, threadVars
<1>1. LockHeld'
  BY DEF LockHeld, TypeOK, Threads
<1>2. CASE cpuInt \/ Eligible(irr, isr') = {}
  <2>1. UNCHANGED <<cpuInt, raised, hardware>>
    BY <1>2 DEF ScanAfter
  <2> QED BY <1>1, <2>1
<1>3. CASE ~(cpuInt \/ Eligible(irr, isr') = {})
  <2>1. PICK l \in Highest(Eligible(irr, isr')) : Request(l) /\ hardware' = TRUE
    BY <1>3 DEF ScanAfter
  <2> QED BY <1>1, <2>1 DEF Highest, Request
<1> QED BY <1>2, <1>3

(* Acknowledging withdraws the request and the bit together.               *)
LEMMA InjectKeepsPic ==
  ASSUME TypeOK, PicInv, lock = NoThread, InjectHardware, UNCHANGED <<lock, threadVars>>
  PROVE  PicInv'
<1> USE DEF PicInv, RequestIsFlag, RequestStands, threadVars
<1>1. LockHeld'
  BY DEF LockHeld, TypeOK, Threads
<1>2. CASE irqEnabled /\ hardware /\ slot = NoLine
  BY <1>1, <1>2 DEF InjectHardware, Acknowledge
<1>3. CASE ~(irqEnabled /\ hardware /\ slot = NoLine)
  BY <1>1, <1>3 DEF InjectHardware, picVars, Eligible
<1> QED BY <1>2, <1>3

(* A step of a thread keeps the lock's promise.                            *)
LEMMA ThreadKeepsPic ==
  ASSUME TypeOK, PicInv,
         NEW t \in Threads,
         \/ t \in Workers /\ TimerTick(t)
         \/ t \in Workers /\ \E l \in Lines : RaiseLine(t, l)
         \/ t \in PitThreads /\ Nudge(t)
         \/ CpuInterrupt(t)
  PROVE  PicInv'
<1> USE HvAssumption DEF PicInv, LockHeld, RequestIsFlag, RequestStands, Eligible,
        TypeOK, Threads, Move, picVars, flagVars, threadVars
<1>1. CASE t \in Workers /\ TimerTick(t)
  BY <1>1 DEF TimerTick
<1>2. ASSUME t \in Workers, NEW l \in Lines, RaiseLine(t, l) PROVE PicInv'
  <2>1. CASE ~cpuInt /\ l \in Eligible(irr', isr)
    BY <1>2, <2>1 DEF RaiseLine, Request
  <2>2. CASE ~(~cpuInt /\ l \in Eligible(irr', isr))
    BY <1>2, <2>2 DEF RaiseLine
  <2> QED BY <2>1, <2>2
<1>3. CASE t \in PitThreads /\ Nudge(t)
  BY <1>3 DEF Nudge
<1>4. CASE TestRunning(t)
  BY <1>4 DEF TestRunning, AfterCancel
<1>5. CASE ExchangePending(t)
  BY <1>5 DEF ExchangePending, AfterCancel
<1>6. CASE Cancel(t)
  BY <1>6 DEF Cancel, AfterCancel
<1>7. CASE SetFlag(t)
  BY <1>7 DEF SetFlag
<1> QED BY <1>1, <1>2, <1>3, <1>4, <1>5, <1>6, <1>7 DEF CpuInterrupt

(* A step that touches neither the PIC nor the lock.                       *)
LEMMA PicFrame ==
  ASSUME TypeOK, PicInv, UNCHANGED <<picVars, hardware, lock, threadVars>>
  PROVE  PicInv'
BY DEF PicInv, LockHeld, RequestIsFlag, RequestStands, Eligible, picVars, threadVars

(* Every step keeps the PIC and VDM_INT_HARDWARE in agreement.             *)
LEMMA PicStep == ASSUME TypeOK, PicInv, Next PROVE PicInv'
<1> USE DEF flagVars, otherVars, runVars
<1>1. CASE Loop \/ Simulate
  <2>1. CASE Dispatch
    BY <2>1, PicFrame, InjectKeepsPic DEF Dispatch
  <2>2. CASE DispatchHardware
    BY <2>2, InjectKeepsPic DEF DispatchHardware
  <2>3. CASE Unwedge
    BY <2>3, PicFrame, ScanKeepsPic DEF Unwedge
  <2>4. CASE HandleEoi
    BY <2>4, ScanKeepsPic DEF HandleEoi
  <2>5. CASE HandleIo
    <3>1. CASE UNCHANGED <<picVars, hardware>>
      BY <2>5, <3>1, PicFrame DEF HandleIo
    <3>2. CASE ~UNCHANGED <<picVars, hardware>>
      BY <2>5, <3>2 DEF HandleIo, PicInv, LockHeld, RequestIsFlag, RequestStands,
         Request, Eligible, TypeOK, Threads, picVars, threadVars
    <3> QED BY <3>1, <3>2
  <2>6. CASE SkipToRun \/ DeferDispatch \/ DispatchPending \/ ArmWindow \/ ClearCancel
             \/ MarkRunning \/ LeaveRun \/ TestFast \/ HandleOther \/ HandleFault
             \/ HandleUnsimulate \/ HandleVramRead \/ HandleWindow \/ HandleHalt \/ Simulate
    BY <2>6, PicFrame DEF SkipToRun, DeferDispatch, DispatchPending, ArmWindow,
       ClearCancel, MarkRunning, LeaveRun, TestFast, HandleOther, HandleFault,
       HandleUnsimulate, HandleVramRead, HandleWindow, HandleHalt, Simulate
  <2> QED BY <1>1, <2>1, <2>2, <2>3, <2>4, <2>5, <2>6 DEF Loop
<1>2. CASE Deliver \/ GuestSetsIF \/ ExitCanceled \/ ExitWindow \/ ExitGuest
  BY <1>2, PicFrame DEF Deliver, GuestSetsIF, ExitCanceled, ExitWindow, ExitGuest, ExitWith
<1>3. CASE \/ \E w \in Workers : TimerTick(w) \/ \E l \in Lines : RaiseLine(w, l)
           \/ \E p \in PitThreads : Nudge(p)
           \/ \E t \in Threads : CpuInterrupt(t)
  BY <1>3, ThreadKeepsPic DEF Threads
<1> QED BY <1>1, <1>2, <1>3 DEF Next
-----------------------------------------------------------------------------
(* g_cancel_pending.                                                       *)

(* A step outside the threads and the run's start, with the mark unchanged. *)
LEMMA CancelFrame ==
  ASSUME CancelBacked, UNCHANGED <<cancelPending, canceled, thread>>,
         vcpu' \in {"mark", "run"} => vcpu \in {"mark", "run"}
  PROVE  CancelBacked'
BY DEF CancelBacked

(* Every step keeps a cancel behind the mark.                              *)
LEMMA CancelStep == ASSUME TypeOK, CancelBacked, Next PROVE CancelBacked'
<1> USE DEF cancelVars, threadVars, otherVars
<1>1. CASE Loop \/ Simulate
  <2>1. CASE Dispatch \/ DispatchHardware
    BY <2>1, CancelFrame DEF Dispatch, DispatchHardware, Return, TypeOK
  <2>2. CASE ClearCancel
    BY <2>2 DEF ClearCancel, CancelBacked
  <2>3. CASE HandleUnsimulate
    BY <2>3 DEF HandleUnsimulate, CancelBacked
  <2>4. CASE SkipToRun \/ Unwedge \/ DeferDispatch \/ DispatchPending \/ ArmWindow
             \/ MarkRunning \/ LeaveRun \/ TestFast \/ HandleEoi \/ HandleIo \/ HandleOther
             \/ HandleFault \/ HandleVramRead \/ HandleWindow \/ HandleHalt \/ Simulate
    BY <2>4, CancelFrame DEF SkipToRun, Unwedge, DeferDispatch, DispatchPending,
       ArmWindow, MarkRunning, LeaveRun, TestFast, HandleEoi, HandleIo, HandleOther,
       HandleFault, HandleVramRead, HandleWindow, HandleHalt, Simulate
  <2> QED BY <1>1, <2>1, <2>2, <2>3, <2>4 DEF Loop
<1>2. CASE Deliver \/ GuestSetsIF \/ ExitCanceled \/ ExitWindow \/ ExitGuest
  BY <1>2 DEF Deliver, GuestSetsIF, ExitCanceled, ExitWindow, ExitGuest, ExitWith,
     runVars, CancelBacked
<1>3. ASSUME NEW t \in Threads,
             \/ t \in Workers /\ TimerTick(t)
             \/ t \in Workers /\ \E l \in Lines : RaiseLine(t, l)
             \/ t \in PitThreads /\ Nudge(t)
             \/ TestRunning(t)
             \/ SetFlag(t)
      PROVE  CancelBacked'
  <2>1. UNCHANGED <<vcpu, cancelPending, canceled>> /\ thread[t] # "cancel"
    BY <1>3 DEF TimerTick, RaiseLine, Nudge, TestRunning, SetFlag
  <2>2. \A u \in Threads \ {t} : thread'[u] = thread[u]
    BY <1>3 DEF TimerTick, RaiseLine, Nudge, TestRunning, SetFlag, Move, TypeOK
  <2> QED BY <2>1, <2>2 DEF CancelBacked
<1>4. ASSUME NEW t \in Threads, ExchangePending(t) PROVE CancelBacked'
  BY <1>4 DEF ExchangePending, Move, TypeOK, CancelBacked
<1>5. ASSUME NEW t \in Threads, Cancel(t) PROVE CancelBacked'
  BY <1>5 DEF Cancel, CancelBacked
<1> QED BY <1>1, <1>2, <1>3, <1>4, <1>5 DEF Next, CpuInterrupt, Threads
-----------------------------------------------------------------------------
(* Lines in service.                                                       *)

(* The slot owes at most one EOI.                                          *)
LEMMA SlotCount ==
  ASSUME NEW s
  PROVE  Cardinality({s} \cap Lines) = IF s \in Lines THEN 1 ELSE 0
<1>1. CASE s \in Lines
  <2>1. {s} \cap Lines = {s}
    BY <1>1
  <2> QED BY <1>1, <2>1, FS_Singleton
<1>2. CASE s \notin Lines
  <2>1. {s} \cap Lines = {}
    BY <1>2
  <2> QED BY <1>2, <2>1, FS_EmptySet
<1> QED BY <1>1, <1>2

(* A step that leaves the lines in service, the handlers and the slot, or   *)
(* fills a free slot with an exception.                                    *)
LEMMA ServiceFrame ==
  ASSUME TypeOK, ServiceInv, UNCHANGED <<isr, handlers>>, exit' \in {exit, "none"},
         slot' = slot \/ (slot = NoLine /\ slot' = Fault)
  PROVE  ServiceInv'
<1>1. NoLine \notin Lines
  BY HvAssumption DEF NoLine
<1>2. Cardinality({slot} \cap Lines) <= Cardinality({slot'} \cap Lines)
  BY <1>1, SlotCount
<1>3. Cardinality(isr) \in Nat /\ Len(handlers) \in Nat
      /\ Cardinality({slot} \cap Lines) \in Nat /\ Cardinality({slot'} \cap Lines) \in Nat
  BY FS_CardinalityType, SlotCount DEF ServiceInv, TypeOK
<1>4. AckedNotLost'
  BY <1>2, <1>3 DEF AckedNotLost, ServiceInv
<1> QED BY <1>4 DEF ServiceInv, EoiHasHandler

(* A line that leaves service takes nothing from the others.               *)
LEMMA ServiceShrinks ==
  ASSUME TypeOK, ServiceInv, NEW l \in isr, isr' = isr \ {l}
  PROVE  IsFiniteSet(isr') /\ Cardinality(isr') = Cardinality(isr) - 1
BY FS_RemoveElement DEF ServiceInv

(* What is acknowledged goes into the slot.                                *)
LEMMA InjectKeepsService ==
  ASSUME TypeOK, ServiceInv, InjectHardware, UNCHANGED <<handlers, exit>>
  PROVE  ServiceInv'
<1>1. CASE irqEnabled /\ hardware /\ slot = NoLine
  <2>1. PICK l \in Acknowledgeable : Acknowledge(l) /\ slot' = l
    BY <1>1 DEF InjectHardware
  <2>2. l \in Lines /\ slot \notin Lines
    BY <1>1, <2>1, HvAssumption DEF Acknowledgeable, Eligible, Highest, TypeOK, NoLine
  <2>3. IsFiniteSet(isr') /\ Cardinality(isr') <= Cardinality(isr) + 1
        /\ Cardinality(isr') \in Nat /\ Cardinality(isr) \in Nat
    BY <2>1, FS_AddElement, FS_CardinalityType DEF Acknowledge, ServiceInv
  <2>4. Cardinality({slot} \cap Lines) = 0 /\ Cardinality({slot'} \cap Lines) = 1
    BY <2>1, <2>2, SlotCount
  <2>5. Len(handlers) \in Nat
    BY DEF TypeOK
  <2> QED BY <2>3, <2>4, <2>5 DEF ServiceInv, AckedNotLost, EoiHasHandler
<1>2. CASE ~(irqEnabled /\ hardware /\ slot = NoLine)
  BY <1>2, ServiceFrame DEF InjectHardware, picVars
<1> QED BY <1>1, <1>2

(* An EOI ends one handler and the service of at most one line.            *)
LEMMA EoiKeepsService == ASSUME TypeOK, ServiceInv, HandleEoi PROVE ServiceInv'
<1>1. handlers # <<>> /\ handlers' = Tail(handlers) /\ slot' = slot /\ exit' = "none"
  BY DEF HandleEoi, Handle, ServiceInv, EoiHasHandler
<1>2. Len(handlers') = Len(handlers) - 1 /\ Len(handlers) \in Nat \ {0}
  BY <1>1 DEF TypeOK
<1>3. Cardinality(isr) \in Nat /\ Cardinality({slot} \cap Lines) \in Nat
  BY FS_CardinalityType, SlotCount DEF ServiceInv
<1>4. CASE isr = {} /\ isr' = isr
  <2>1. Cardinality(isr') = 0
    BY <1>4, FS_EmptySet
  <2> QED BY <1>1, <1>2, <1>3, <1>4, <2>1 DEF ServiceInv, AckedNotLost, EoiHasHandler
<1>5. ASSUME NEW l \in Highest(isr), isr' = isr \ {l} PROVE ServiceInv'
  <2>1. IsFiniteSet(isr') /\ Cardinality(isr') = Cardinality(isr) - 1
    BY <1>5, ServiceShrinks DEF Highest
  <2> QED BY <1>1, <1>2, <1>3, <2>1 DEF ServiceInv, AckedNotLost, EoiHasHandler
<1> QED BY <1>4, <1>5 DEF HandleEoi

(* Forcing an EOI keeps the handlers.                                      *)
LEMMA UnwedgeKeepsService == ASSUME TypeOK, ServiceInv, Unwedge PROVE ServiceInv'
<1>1. UNCHANGED <<handlers, slot, exit>>
  BY DEF Unwedge, otherVars, guestVars, loopVars
<1>2. CASE isr' = isr
  BY <1>1, <1>2, ServiceFrame
<1>3. ASSUME NEW l \in isr, isr' = isr \ {l} PROVE ServiceInv'
  <2>1. IsFiniteSet(isr') /\ Cardinality(isr') = Cardinality(isr) - 1
    BY <1>3, ServiceShrinks
  <2>2. Cardinality(isr) \in Nat /\ Cardinality({slot} \cap Lines) \in Nat
        /\ Len(handlers) \in Nat
    BY FS_CardinalityType, SlotCount DEF ServiceInv, TypeOK
  <2> QED BY <1>1, <2>1, <2>2 DEF ServiceInv, AckedNotLost, EoiHasHandler
<1> QED BY <1>2, <1>3 DEF Unwedge, picVars

(* The slot's interrupt becomes a handler.                                 *)
LEMMA DeliverKeepsService == ASSUME TypeOK, ServiceInv, Deliver PROVE ServiceInv'
<1>1. UNCHANGED <<isr, exit>> /\ slot' = NoLine
  BY DEF Deliver, runVars, picVars
<1>2. Cardinality({slot'} \cap Lines) = 0
  BY <1>1, HvAssumption, SlotCount DEF NoLine
<1>3. Cardinality(isr) \in Nat /\ Len(handlers) \in Nat
  BY FS_CardinalityType DEF ServiceInv, TypeOK
<1>4. CASE slot = Fault
  <2>1. Cardinality({slot} \cap Lines) = 0
    BY <1>4, HvAssumption, SlotCount DEF Fault
  <2>2. handlers' = handlers
    BY <1>4 DEF Deliver
  <2> QED BY <1>1, <1>2, <1>3, <2>1, <2>2 DEF ServiceInv, AckedNotLost, EoiHasHandler
<1>5. CASE slot # Fault
  <2>1. slot \in Lines /\ handlers' = <<slot>> \o handlers
    BY <1>5 DEF Deliver, Deliverable, TypeOK
  <2>2. Cardinality({slot} \cap Lines) = 1
    BY <2>1, SlotCount
  <2>3. Len(handlers') = Len(handlers) + 1 /\ handlers' # <<>>
    BY <2>1 DEF TypeOK
  <2> QED BY <1>1, <1>2, <1>3, <2>2, <2>3 DEF ServiceInv, AckedNotLost, EoiHasHandler
<1> QED BY <1>4, <1>5

(* Every step keeps an EOI to come for each line in service.               *)
LEMMA ServiceStep == ASSUME TypeOK, ServiceInv, Next PROVE ServiceInv'
<1> USE DEF picVars, otherVars, guestVars, loopVars
<1>1. CASE Loop \/ Simulate
  <2>1. CASE Dispatch
    BY <2>1, ServiceFrame, InjectKeepsService DEF Dispatch
  <2>2. CASE DispatchHardware
    BY <2>2, InjectKeepsService DEF DispatchHardware
  <2>3. CASE HandleFault
    BY <2>3, ServiceFrame DEF HandleFault, Handle
  <2>4. CASE HandleIo
    BY <2>4, ServiceFrame DEF HandleIo, Handle
  <2>5. CASE SkipToRun \/ DeferDispatch \/ DispatchPending \/ ArmWindow \/ ClearCancel
             \/ MarkRunning \/ LeaveRun \/ TestFast \/ HandleOther \/ HandleUnsimulate
             \/ HandleVramRead \/ HandleWindow \/ HandleHalt \/ Simulate
    BY <2>5, ServiceFrame DEF SkipToRun, DeferDispatch, DispatchPending, ArmWindow,
       ClearCancel, MarkRunning, LeaveRun, TestFast, HandleOther, HandleUnsimulate,
       HandleVramRead, HandleWindow, HandleHalt, Simulate, Handle
  <2> QED
    BY <1>1, <2>1, <2>2, <2>3, <2>4, <2>5, EoiKeepsService, UnwedgeKeepsService DEF Loop
<1>2. CASE Deliver
  BY <1>2, DeliverKeepsService
<1>3. CASE GuestSetsIF
  BY <1>3, ServiceFrame DEF GuestSetsIF, runVars
<1>4. CASE ExitCanceled \/ ExitWindow \/ ExitGuest
  <2>1. UNCHANGED <<isr, slot, handlers>> /\ (exit' = "eoi" => handlers' # <<>>)
    BY <1>4 DEF ExitCanceled, ExitWindow, ExitGuest, ExitWith, runVars
  <2> QED BY <2>1 DEF ServiceInv, AckedNotLost, EoiHasHandler
<1>5. ASSUME NEW t \in Threads,
             \/ TimerTick(t)
             \/ \E l \in Lines : RaiseLine(t, l)
             \/ Nudge(t)
             \/ CpuInterrupt(t)
      PROVE  ServiceInv'
  BY <1>5, ServiceFrame DEF TimerTick, RaiseLine, Nudge, CpuInterrupt, TestRunning,
     ExchangePending, Cancel, SetFlag
<1> QED BY <1>1, <1>2, <1>3, <1>4, <1>5 DEF Next, Threads
-----------------------------------------------------------------------------
(* The first state is one of IInv.                                         *)
LEMMA InitIInv == Init => IInv
<1> SUFFICES ASSUME Init PROVE IInv
  OBVIOUS
<1>1. TypeOK
  <2>1. {timer, hardware, cpuInt, inRun, canceled, notify, armed, latchRead, fast,
         irqEnabled, shadow, latchLive} \subseteq BOOLEAN
    BY DEF Init
  <2>2. streak \in 0..StuckIters /\ deferCount \in 0..DeferCap /\ cancelPending \in 0..1
    BY HvAssumption DEF Init
  <2>3. handlers \in Seq(Lines) /\ irr \subseteq Lines /\ isr \subseteq Lines
    BY DEF Init
  <2>4. /\ lock \in Workers \cup {NoThread}
        /\ raised \in Lines \cup {NoLine}
        /\ slot \in Lines \cup {NoLine, Fault}
        /\ exit \in GuestExits \cup {"none", "canceled", "window"}
        /\ vcpu = "top" /\ after = "top"
        /\ thread \in [Threads -> {"idle", "test", "exchange", "cancel", "flag"}]
        /\ call \in [Threads -> {"none", "timer", "line"}]
    BY DEF Init
  <2> QED BY <2>1, <2>2, <2>3, <2>4 DEF TypeOK
<1>2. PicInv /\ CancelBacked
  BY HvAssumption DEF Init, PicInv, LockHeld, RequestIsFlag, RequestStands, CancelBacked,
     Threads
<1>3. ServiceInv
  BY FS_EmptySet, SlotCount DEF Init, ServiceInv, EoiHasHandler, AckedNotLost
<1> QED BY <1>1, <1>2, <1>3 DEF IInv

(* A step in which nothing moves.                                          *)
LEMMA StutterIInv == ASSUME IInv, UNCHANGED vars PROVE IInv'
<1> USE DEF vars, flagVars, picVars, cancelVars, windowVars, deferVars, loopVars,
        guestVars, threadVars
<1>1. TypeOK'
  BY DEF IInv, TypeOK
<1>2. PicInv'
  BY PicFrame DEF IInv
<1>3. CancelBacked'
  BY CancelFrame DEF IInv
<1>4. ServiceInv'
  BY ServiceFrame DEF IInv
<1> QED BY <1>1, <1>2, <1>3, <1>4 DEF IInv

(* IInv holds in every reachable state.                                    *)
THEOREM InterruptInvariant == Spec => []IInv
<1>1. Init => IInv
  BY InitIInv
<1>2. IInv /\ [Next]_vars => IInv'
  <2> SUFFICES ASSUME IInv, [Next]_vars PROVE IInv'
    OBVIOUS
  <2>1. CASE Next
    <3>1. TypeOK'
      BY <2>1, TypeThread, TypeLoop, TypeRun DEF Next, Threads, IInv, ServiceInv
    <3> QED BY <2>1, <3>1, PicStep, CancelStep, ServiceStep DEF IInv
  <2>2. CASE UNCHANGED vars
    BY <2>2, StutterIInv
  <2> QED BY <2>1, <2>2
<1> QED BY <1>1, <1>2, PTL DEF Spec

(* No interrupt that DispatchInterrupts has acknowledged is lost in the    *)
(* one slot that WHP has.                                                  *)
THEOREM NoneLost == Spec => []AckedNotLost
<1>1. IInv => AckedNotLost
  BY DEF IInv, ServiceInv
<1> QED BY <1>1, InterruptInvariant, PTL

(* The PIC's request and VDM_INT_HARDWARE are two copies of one bit.       *)
THEOREM RequestFlag == Spec => []RequestIsFlag
<1>1. IInv => RequestIsFlag
  BY DEF IInv, PicInv
<1> QED BY <1>1, InterruptInvariant, PTL

(* The request that is out stays one the PIC would acknowledge.            *)
THEOREM RequestKept == Spec => []RequestStands
<1>1. IInv => RequestStands
  BY DEF IInv, PicInv
<1> QED BY <1>1, InterruptInvariant, PTL

(* g_cancel_pending never silences the workers without a cancel behind it. *)
THEOREM MarkBacked == Spec => []CancelBacked
<1>1. IInv => CancelBacked
  BY DEF IInv
<1> QED BY <1>1, InterruptInvariant, PTL

(* Every variable keeps its type.                                          *)
THEOREM TypeCorrect == Spec => []TypeOK
<1>1. IInv => TypeOK
  BY DEF IInv
<1> QED BY <1>1, InterruptInvariant, PTL
=============================================================================
