---------------------------- MODULE HvInterrupts ----------------------------
(***************************************************************************)
(* How an interrupt reaches a guest that the Windows Hypervisor Platform   *)
(* runs: hyperv's int.c and the loop of cpu_simulate in monitor.c.  A      *)
(* worker thread cancels WHvRunVirtualProcessor and sets a bit in          *)
(* *pNtVDMState; the loop dispatches: the timer event is called, a         *)
(* hardware interrupt is acknowledged at the PIC and put into the one      *)
(* WHvRegisterPendingInterruption slot.                                    *)
(*                                                                         *)
(* WHP, the guest and the PIC (ica.c, nt_eoi.c) are modelled from how the  *)
(* code uses them.  A section under host_ica_lock that cannot block is one *)
(* action; only a worker that raises a line holds the lock over several.   *)
(* YODA, the built-in debugger, is off and cpu_simulate is not nested.     *)
(***************************************************************************)
EXTENDS Integers, Sequences, FiniteSets

CONSTANTS
  Workers,     \* timer, keyboard, com, mouse... threads
  PitThreads,  \* pit_timer_thread_proc, {} without a high-resolution timer
  Lines,       \* IRQ lines, 0 has the highest priority
  StuckIters,  \* INTWIN_STUCK_ITERS
  DeferCap,    \* VRAM_LATCH_DEFER_CAP
  GuestExits,  \* the exits this guest makes: ports, string OUTs, HLT, VRAM, ...
  MaxNested    \* bound: handlers of the guest that have not sent their EOI

NoLine == -1
Fault == -2      \* an exception in the slot
NoThread == "none"

ASSUME HvAssumption ==
  /\ NoThread \notin Workers \cup PitThreads
  /\ Workers \cap PitThreads = {}
  /\ Lines \subseteq Nat
  /\ StuckIters \in Nat \ {0}
  /\ DeferCap \in Nat
  /\ GuestExits \subseteq {"eoi", "io", "stringOut", "other", "fault", "unsimulate", "halt",
                          "vramRead"}
  /\ MaxNested \in Nat

Threads == Workers \cup PitThreads

VARIABLES
  timer,          \* VDM_INT_TIMER in *pNtVDMState
  hardware,       \* VDM_INT_HARDWARE in *pNtVDMState
  lock,           \* worker that holds host_ica_lock while it raises a line
  irr, isr,       \* the PIC: lines requested and in service
  cpuInt,         \* ica_cpu_int: the PIC's request to the CPU is out
  raised,         \* g_ica_raised_line: the line that request is for
  inRun,          \* g_in_whvrunvp
  cancelPending,  \* g_cancel_pending
  canceled,       \* WHP: the current run, or the next, returns Canceled
  slot,           \* WHP: what is in WHvRegisterPendingInterruption
  notify,         \* WHP: InterruptNotification
  armed,          \* g_intwin_armed
  streak,         \* s_if0_pend_streak
  deferCount,     \* g_vram_latch_defer_count
  latchRead,      \* g_vram_latch_just_read
  fast,           \* io_fast_prev
  exit,           \* exit.ExitReason
  vcpu,           \* where in cpu_simulate and DispatchInterrupts the VCPU is
  after,          \* where DispatchInterrupts returns to
  irqEnabled,     \* the guest's IF
  shadow,         \* the guest is in an STI or MOV SS shadow
  handlers,       \* the guest's handlers that owe an EOI, innermost first
  latchLive,      \* the guest's EGA latch waits for the write of its pair
  thread, call    \* where in cpu_interrupt each thread is, and what for

flagVars == <<timer, hardware>>
picVars == <<irr, isr, cpuInt, raised>>
cancelVars == <<inRun, cancelPending, canceled>>
windowVars == <<notify, armed, streak>>
deferVars == <<deferCount, latchRead>>
loopVars == <<fast, exit, after>>
guestVars == <<irqEnabled, shadow, handlers, latchLive>>
threadVars == <<thread, call>>
otherVars == <<lock, guestVars, threadVars>>   \* what the VCPU thread leaves alone
vars == <<flagVars, lock, picVars, cancelVars, slot, windowVars, deferVars,
          loopVars, vcpu, guestVars, threadVars>>

\* VDM_INTERRUPT_PENDING
Pending == timer \/ hardware

Init ==
  /\ timer = FALSE
  /\ hardware = FALSE
  /\ lock = NoThread
  /\ irr = {}
  /\ isr = {}
  /\ cpuInt = FALSE
  /\ raised = NoLine
  /\ inRun = FALSE
  /\ cancelPending = 0
  /\ canceled = FALSE
  /\ slot = NoLine
  /\ notify = FALSE
  /\ armed = FALSE
  /\ streak = 0
  /\ deferCount = 0
  /\ latchRead = FALSE
  /\ fast = FALSE
  /\ exit = "none"
  /\ vcpu = "top"
  /\ after = "top"
  /\ irqEnabled = FALSE
  /\ shadow = FALSE
  /\ handlers = <<>>
  /\ latchLive = FALSE
  /\ thread = [t \in Threads |-> "idle"]
  /\ call = [t \in Threads |-> "none"]
-----------------------------------------------------------------------------
(* The PIC.  A line interrupts the CPU unless a line of its priority or a  *)
(* higher one is in service, and unless a request is out already.          *)

Eligible(requested, inService) ==
  {l \in requested : \A j \in inService : l < j}

\* The line of highest priority, in a set of its own.
Highest(set) == {l \in set : \A j \in set : l <= j}

\* ica_interrupt_cpu for line l; on the VCPU thread cpu_interrupt sets the bit
\* and cancels nothing.
Request(l) == cpuInt' = TRUE /\ raised' = l

\* The scan at the end of ica_eoi, with the lines then in service.
ScanAfter(inService) ==
  LET ready == Eligible(irr, inService)
  IN IF cpuInt \/ ready = {}
       THEN UNCHANGED <<cpuInt, raised, hardware>>
       ELSE (\E l \in Highest(ready) : Request(l)) /\ hardware' = TRUE

\* ica_intack prefers the line whose request is out to one that came later.
Acknowledgeable ==
  IF raised \in Eligible(irr, isr) THEN {raised} ELSE Highest(Eligible(irr, isr))

Acknowledge(l) ==
  /\ irr' = irr \ {l}
  /\ isr' = isr \cup {l}
  /\ cpuInt' = FALSE
  /\ raised' = NoLine
-----------------------------------------------------------------------------
(* cpu_interrupt on a worker thread, and the nudge of the PIT thread.      *)

Move(t, place) == thread' = [thread EXCEPT ![t] = place]

\* Where a thread goes when it has cancelled or skipped cancelling.
AfterCancel(t) == IF t \in PitThreads THEN "idle" ELSE "flag"

\* The heartbeat calls cpu_interrupt(CPU_TIMER_TICK).
TimerTick(w) ==
  /\ thread[w] = "idle"
  /\ call' = [call EXCEPT ![w] = "timer"]
  /\ Move(w, "test")
  /\ UNCHANGED <<flagVars, lock, picVars, cancelVars, slot, windowVars, deferVars,
                 loopVars, vcpu, guestVars>>

\* A device raises line l; the lock is held until cpu_interrupt has returned.
RaiseLine(w, l) ==
  /\ thread[w] = "idle"
  /\ lock = NoThread
  /\ l \notin irr
  /\ irr' = irr \cup {l}
  /\ IF ~cpuInt /\ l \in Eligible(irr', isr)
       THEN /\ Request(l)
            /\ lock' = w
            /\ call' = [call EXCEPT ![w] = "line"]
            /\ Move(w, "test")
       ELSE UNCHANGED <<cpuInt, raised, lock, threadVars>>
  /\ UNCHANGED <<flagVars, isr, cancelVars, slot, windowVars, deferVars,
                 loopVars, vcpu, guestVars>>

\* The guest has programmed the PIT above PIT_TIMER_HZ_FLOOR.
Nudge(p) ==
  /\ thread[p] = "idle"
  /\ Move(p, "test")
  /\ UNCHANGED <<flagVars, lock, picVars, cancelVars, slot, windowVars, deferVars,
                 loopVars, vcpu, guestVars, call>>

TestRunning(t) ==
  /\ thread[t] = "test"
  /\ Move(t, IF inRun THEN "exchange" ELSE AfterCancel(t))
  /\ UNCHANGED <<flagVars, lock, picVars, cancelVars, slot, windowVars, deferVars,
                 loopVars, vcpu, guestVars, call>>

ExchangePending(t) ==
  /\ thread[t] = "exchange"
  /\ cancelPending' = 1
  /\ Move(t, IF cancelPending = 0 THEN "cancel" ELSE AfterCancel(t))
  /\ UNCHANGED <<flagVars, lock, picVars, inRun, canceled, slot, windowVars,
                 deferVars, loopVars, vcpu, guestVars, call>>

Cancel(t) ==
  /\ thread[t] = "cancel"
  /\ canceled' = TRUE
  /\ Move(t, AfterCancel(t))
  /\ UNCHANGED <<flagVars, lock, picVars, inRun, cancelPending, slot, windowVars,
                 deferVars, loopVars, vcpu, guestVars, call>>

\* The bit is set under the lock, after the cancel.
SetFlag(w) ==
  /\ thread[w] = "flag"
  /\ lock \in {NoThread, w}
  /\ timer' = (timer \/ call[w] = "timer")
  /\ hardware' = (hardware \/ call[w] = "line")
  /\ lock' = NoThread
  /\ call' = [call EXCEPT ![w] = "none"]
  /\ Move(w, "idle")
  /\ UNCHANGED <<picVars, cancelVars, slot, windowVars, deferVars, loopVars, vcpu,
                 guestVars>>

CpuInterrupt(t) ==
  TestRunning(t) \/ ExchangePending(t) \/ Cancel(t) \/ SetFlag(t)
-----------------------------------------------------------------------------
(* DispatchInterrupts.                                                     *)

\* Variant: the PIC is asked before the slot is looked at; an occupied slot
\* then refuses the injection.
AckThenInject ==
  IF irqEnabled /\ hardware
    THEN /\ \E l \in Acknowledgeable :
              Acknowledge(l) /\ slot' = IF slot = NoLine THEN l ELSE slot
         /\ hardware' = FALSE
    ELSE UNCHANGED <<picVars, slot, hardware>>

\* Variant: the bit is cleared whether or not the interrupt could be injected.
ForgetHardware ==
  IF irqEnabled /\ hardware /\ slot = NoLine
    THEN /\ \E l \in Acknowledgeable : Acknowledge(l) /\ slot' = l
         /\ hardware' = FALSE
    ELSE hardware' = FALSE /\ UNCHANGED <<picVars, slot>>

\* The end of DispatchInterrupts: acknowledge and inject, or leave both the PIC
\* and the bit alone.
InjectHardware ==
  IF irqEnabled /\ hardware /\ slot = NoLine
    THEN /\ \E l \in Acknowledgeable : Acknowledge(l) /\ slot' = l
         /\ hardware' = FALSE
    ELSE UNCHANGED <<picVars, slot, hardware>>

\* Back to cpu_simulate.
Return == vcpu' = after /\ after' = "top"

\* host_timer_event is called between the two, without the lock.
Dispatch ==
  /\ vcpu = "dispatch"
  /\ lock = NoThread
  /\ \/ /\ timer
        /\ timer' = FALSE
        /\ vcpu' = "inject"
        /\ UNCHANGED <<hardware, picVars, slot, after>>
     \/ ~timer /\ InjectHardware /\ Return /\ UNCHANGED timer
  /\ UNCHANGED <<otherVars, cancelVars, windowVars, deferVars, fast, exit>>

DispatchHardware ==
  /\ vcpu = "inject"
  /\ lock = NoThread
  /\ InjectHardware
  /\ Return
  /\ UNCHANGED <<otherVars, timer, cancelVars, windowVars, deferVars, fast, exit>>
-----------------------------------------------------------------------------
(* The loop of cpu_simulate, up to the run.                                *)

\* The I/O fast path goes straight to the run.
SkipToRun ==
  /\ vcpu = "top"
  /\ fast
  /\ fast' = FALSE
  /\ vcpu' = "clear"
  /\ UNCHANGED <<otherVars, flagVars, picVars, cancelVars, slot, windowVars,
                 deferVars, exit, after>>

\* ica_unwedge_stuck: a line too long in service gets the EOI its handler, for
\* all the PIC knows, has lost.
Unwedge ==
  /\ vcpu = "top"
  /\ ~fast
  /\ lock = NoThread
  /\ \/ UNCHANGED <<picVars, hardware>>
     \/ /\ Len(handlers) < MaxNested
        /\ \E l \in isr : isr' = isr \ {l} /\ ScanAfter(isr')
        /\ UNCHANGED irr
  /\ vcpu' = "gate"
  /\ UNCHANGED <<otherVars, timer, cancelVars, slot, windowVars, deferVars, loopVars>>

\* After vram_read the dispatch is put off, DeferCap times in a row.
DeferDispatch ==
  /\ vcpu = "gate"
  /\ latchRead
  /\ deferCount < DeferCap
  /\ deferCount' = deferCount + 1
  /\ latchRead' = FALSE
  /\ vcpu' = "window"
  /\ UNCHANGED <<otherVars, flagVars, picVars, cancelVars, slot, windowVars, loopVars>>

DispatchPending ==
  /\ vcpu = "gate"
  /\ ~latchRead \/ deferCount = DeferCap
  /\ deferCount' = 0
  /\ latchRead' = FALSE
  /\ IF Pending
       THEN vcpu' = "dispatch" /\ after' = "window"
       ELSE vcpu' = "window" /\ UNCHANGED after
  /\ UNCHANGED <<otherVars, flagVars, picVars, cancelVars, slot, windowVars, fast, exit>>

\* Variant: only tunnel->request_interrupt_window is set, which WHP does not read.
ArmTunnel ==
  /\ vcpu = "window"
  /\ vcpu' = "clear"
  /\ UNCHANGED <<otherVars, flagVars, picVars, cancelVars, slot, windowVars, deferVars,
                 loopVars>>

\* Ask WHP for an exit when IF becomes 1 once a guest has kept it at 0 for
\* StuckIters iterations with an interrupt pending.
ArmWindow ==
  /\ vcpu = "window"
  /\ streak' = IF ~Pending \/ irqEnabled THEN 0
               ELSE IF streak < StuckIters THEN streak + 1 ELSE streak
  /\ armed' = (streak' = StuckIters)
  /\ notify' = IF armed' = armed THEN notify ELSE armed'
  /\ vcpu' = "clear"
  /\ UNCHANGED <<otherVars, flagVars, picVars, cancelVars, slot, deferVars, loopVars>>

\* Variant: the mark stays.
KeepCancel ==
  /\ vcpu = "clear"
  /\ vcpu' = "mark"
  /\ UNCHANGED <<otherVars, flagVars, picVars, cancelVars, slot, windowVars,
                 deferVars, loopVars>>

ClearCancel ==
  /\ vcpu = "clear"
  /\ cancelPending' = 0
  /\ vcpu' = "mark"
  /\ UNCHANGED <<otherVars, flagVars, picVars, inRun, canceled, slot, windowVars,
                 deferVars, loopVars>>

MarkRunning ==
  /\ vcpu = "mark"
  /\ inRun' = TRUE
  /\ vcpu' = "run"
  /\ UNCHANGED <<otherVars, flagVars, picVars, cancelPending, canceled, slot,
                 windowVars, deferVars, loopVars>>

LeaveRun ==
  /\ vcpu = "left"
  /\ inRun' = FALSE
  /\ vcpu' = IF exit \in {"io", "eoi"} THEN "fast" ELSE "handle"
  /\ UNCHANGED <<otherVars, flagVars, picVars, cancelPending, canceled, slot,
                 windowVars, deferVars, loopVars>>
-----------------------------------------------------------------------------
(* The exits.                                                              *)

Handle(reasons) == vcpu = "handle" /\ exit \in reasons /\ exit' = "none"

\* With nothing pending a port access may take the fast path; hyperv_io_fastpath
\* declines string I/O and unknown instruction lengths.
TestFast ==
  /\ vcpu = "fast"
  /\ fast' \in {FALSE, ~Pending}
  /\ vcpu' = "handle"
  /\ UNCHANGED <<otherVars, flagVars, picVars, cancelVars, slot, windowVars, deferVars,
                 exit, after>>

\* An EOI to the PIC, which may let the next line through at once.
HandleEoi ==
  /\ Handle({"eoi"})
  /\ lock = NoThread
  /\ handlers' = Tail(handlers)
  /\ \/ isr = {} /\ UNCHANGED isr
     \/ \E l \in Highest(isr) : isr' = isr \ {l}
  /\ ScanAfter(isr')
  /\ vcpu' = "top"
  /\ UNCHANGED <<lock, irqEnabled, shadow, latchLive, threadVars, timer, irr, cancelVars,
                 slot, windowVars, deferVars, fast, after>>

\* Any other port; its device may raise a line (a PIT read fires the timer
\* interrupts that have elapsed). hyperv_string_io reads what a string OUT sends with
\* vram_read, so a string OUT, from whatever memory, puts the dispatch off as a read of
\* VRAM does.
HandleIo ==
  /\ Handle({"io", "stringOut"})
  /\ lock = NoThread
  /\ \/ UNCHANGED <<picVars, hardware>>
     \/ \E l \in Lines \ irr :
          /\ irr' = irr \cup {l}
          /\ IF ~cpuInt /\ l \in Eligible(irr', isr)
               THEN Request(l) /\ hardware' = TRUE
               ELSE UNCHANGED <<cpuInt, raised, hardware>>
          /\ UNCHANGED isr
  /\ latchRead' = (latchRead \/ exit = "stringOut")
  /\ vcpu' = "top"
  /\ UNCHANGED <<otherVars, timer, cancelVars, slot, windowVars, deferCount, fast, after>>

\* Canceled, BOPs, MSRs, trapped VRAM writes.
HandleOther ==
  /\ Handle({"canceled", "other"})
  /\ vcpu' = "top"
  /\ UNCHANGED <<otherVars, flagVars, picVars, cancelVars, slot, windowVars,
                 deferVars, fast, after>>

\* An exception that no hook takes goes back to the guest if the slot is free; if
\* not, the instruction faults again.
HandleFault ==
  /\ Handle({"fault"})
  /\ slot' = IF slot = NoLine THEN Fault ELSE slot
  /\ vcpu' = "top"
  /\ UNCHANGED <<otherVars, flagVars, picVars, cancelVars, windowVars, deferVars, fast,
                 after>>

\* A BOP that calls host_unsimulate.
HandleUnsimulate ==
  /\ Handle({"unsimulate"})
  /\ canceled' = TRUE
  /\ vcpu' = "out"
  /\ UNCHANGED <<otherVars, flagVars, picVars, inRun, cancelPending, slot, windowVars,
                 deferVars, fast, after>>

\* A trapped access to memory that the decoder carries out and that ends in a read.
HandleVramRead ==
  /\ Handle({"vramRead"})
  /\ latchRead' = TRUE
  /\ vcpu' = "top"
  /\ UNCHANGED <<otherVars, flagVars, picVars, cancelVars, slot, windowVars,
                 deferCount, fast, after>>

HandleWindow ==
  /\ Handle({"window"})
  /\ armed' = FALSE
  /\ vcpu' = IF Pending THEN "dispatch" ELSE "top"
  /\ UNCHANGED <<otherVars, flagVars, picVars, cancelVars, slot, notify, streak,
                 deferVars, fast, after>>

\* With nothing pending a HLT ends cpu_simulate.
HandleHalt ==
  /\ Handle({"halt"})
  /\ vcpu' = IF Pending THEN "dispatch" ELSE "out"
  /\ UNCHANGED <<otherVars, flagVars, picVars, cancelVars, slot, windowVars,
                 deferVars, fast, after>>

\* The next call of cpu_simulate.
Simulate ==
  /\ vcpu = "out"
  /\ vcpu' = "top"
  /\ UNCHANGED <<otherVars, flagVars, picVars, cancelVars, slot, windowVars,
                 deferVars, loopVars>>

Loop ==
  Dispatch \/ DispatchHardware \/ SkipToRun \/ Unwedge
    \/ DeferDispatch \/ DispatchPending \/ ArmWindow \/ ClearCancel \/ MarkRunning
    \/ LeaveRun \/ TestFast \/ HandleEoi \/ HandleIo \/ HandleOther \/ HandleFault
    \/ HandleUnsimulate \/ HandleVramRead \/ HandleWindow \/ HandleHalt
-----------------------------------------------------------------------------
(* Inside WHvRunVirtualProcessor.                                          *)

runVars == <<flagVars, lock, picVars, inRun, cancelPending, armed, streak, deferVars,
             fast, after, threadVars>>

\* An exception is delivered before the guest's next instruction, an interrupt once
\* the guest can take one.
Deliverable == slot = Fault \/ (slot # NoLine /\ irqEnabled /\ ~shadow)

Deliver ==
  /\ vcpu = "run"
  /\ Deliverable
  /\ handlers' = IF slot = Fault THEN handlers ELSE <<slot>> \o handlers
  /\ slot' = NoLine
  /\ irqEnabled' = FALSE
  /\ UNCHANGED <<runVars, canceled, notify, exit, vcpu, shadow, latchLive>>

\* STI, CLI, IRET, or any instruction that ends a shadow.
GuestSetsIF ==
  /\ vcpu = "run"
  /\ ~Deliverable
  /\ irqEnabled' \in BOOLEAN
  /\ shadow' \in {FALSE, ~irqEnabled /\ irqEnabled'}
  /\ UNCHANGED <<runVars, canceled, slot, notify, exit, vcpu, handlers, latchLive>>

ExitWith(reason) ==
  /\ vcpu = "run"
  /\ exit' = reason
  /\ vcpu' = "left"
  /\ UNCHANGED <<runVars, slot>>

ExitCanceled ==
  /\ canceled
  /\ canceled' = FALSE
  /\ ExitWith("canceled")
  /\ UNCHANGED <<notify, guestVars>>

ExitWindow ==
  /\ notify
  /\ irqEnabled
  /\ ~shadow
  /\ slot = NoLine
  /\ notify' = FALSE
  /\ ExitWith("window")
  /\ UNCHANGED <<canceled, guestVars>>

\* The exits the guest's own instructions make.  A VRAM read leaves the latch for
\* the write of its pair; any later exit of the guest's is past that write.
ExitGuest ==
  /\ ~Deliverable
  /\ \E reason \in GuestExits :
       /\ reason = "eoi" => handlers # <<>>
       /\ ExitWith(reason)
       /\ latchLive' = (reason = "vramRead")
  /\ shadow' = FALSE
  /\ UNCHANGED <<canceled, notify, irqEnabled, handlers>>

Next ==
  \/ Loop \/ Simulate
  \/ Deliver \/ GuestSetsIF \/ ExitCanceled \/ ExitWindow \/ ExitGuest
  \/ \E w \in Workers : TimerTick(w) \/ \E l \in Lines : RaiseLine(w, l)
  \/ \E p \in PitThreads : Nudge(p)
  \/ \E t \in Threads : CpuInterrupt(t)

Spec == Init /\ [][Next]_vars

\* Lock holders return, the loop goes on, a thread finishes cpu_interrupt, the
\* heartbeat ticks, and WHP honours a cancel.
FairSpec ==
  /\ Spec
  /\ WF_vars(Loop)
  /\ WF_vars(ExitCanceled)
  /\ \A w \in Workers : WF_vars(TimerTick(w))
  /\ \A t \in Threads : WF_vars(CpuInterrupt(t))
-----------------------------------------------------------------------------
TypeOK ==
  /\ {timer, hardware, cpuInt, inRun, canceled, notify, armed, latchRead, fast,
      irqEnabled, shadow, latchLive} \subseteq BOOLEAN
  /\ lock \in Workers \cup {NoThread}
  /\ irr \subseteq Lines
  /\ isr \subseteq Lines
  /\ raised \in Lines \cup {NoLine}
  /\ slot \in Lines \cup {NoLine, Fault}
  /\ cancelPending \in 0..1
  /\ streak \in 0..StuckIters
  /\ deferCount \in 0..DeferCap
  /\ handlers \in Seq(Lines)
  /\ exit \in GuestExits \cup {"none", "canceled", "window"}
  /\ vcpu \in {"top", "gate", "dispatch", "inject", "window", "clear", "mark", "run",
               "left", "fast", "handle", "out"}
  /\ after \in {"top", "window"}
  /\ thread \in [Threads -> {"idle", "test", "exchange", "cancel", "flag"}]
  /\ call \in [Threads -> {"none", "timer", "line"}]

\* No acknowledged interrupt is lost: for every line that the PIC has in service an
\* EOI is still to come, from a handler of the guest or from the one that the slot
\* will start (DispatchInterrupts, hyperv_pending_interruption_slot_free).  It need
\* not be the line's own: a handler that sends its EOI in an STI shadow, with an
\* interrupt in the slot, ends the service of that interrupt's line.
AckedNotLost ==
  Cardinality(isr) <= Len(handlers) + Cardinality({slot} \cap Lines)

\* With the lock free, the PIC has a request out exactly when VDM_INT_HARDWARE is
\* set.  A request without the bit would never be dispatched and would keep the
\* PIC from making another; a bit without a request would acknowledge nothing.
RequestIsFlag == lock = NoThread => (cpuInt <=> hardware)

\* The line of a request stays the one to acknowledge until it is acknowledged.
RequestStands == cpuInt => raised \in Eligible(irr, isr)

\* A thread that finds g_cancel_pending set may leave the cancel to another: while
\* the VCPU runs, or is about to, that cancel has been made or is being made.
CancelBacked ==
  vcpu \in {"mark", "run"} /\ cancelPending = 1
    => canceled \/ \E t \in Threads : thread[t] = "cancel"

\* A tick is taken to host_timer_event, however the guest spins, unless
\* cpu_simulate returns.
TickServed == timer ~> (~timer \/ vcpu = "out")

\* WHP delivers what is in the slot, and leaves the run when a window that was asked
\* for opens.
WindowHonoured == SF_vars(Deliver) /\ SF_vars(ExitWindow)

\* An interrupt that waits for a guest that lets interrupts in time and again, if
\* only for an instruction, is acknowledged, unless the guest goes on with reads of VRAM
\* or string OUTs for ever, which put the dispatch off (hyperv_arm_interrupt_window).
IrqInjected ==
  WindowHonoured
    /\ []<>(vcpu = "run" /\ irqEnabled /\ ~shadow)
    /\ <>[](exit \notin {"vramRead", "stringOut"})
    => (hardware ~> (~hardware \/ vcpu = "out"))
-----------------------------------------------------------------------------
(* What comments of the source say that the code does not do.              *)

AboutToCancel == canceled \/ \E t \in Threads : thread[t] \in {"exchange", "cancel"}

\* "The next cpu_simulate iteration then sees VDM_INT_TIMER" (cpu_interrupt): with
\* the bit set, a run of the VCPU is soon over.
TickNoticed == vcpu = "run" /\ timer => AboutToCancel

\* "Any IRQ that raced in is caught below: the worker's cancel returns a Canceled
\* exit" (cpu_simulate, before it skips to the run).
RacedIrqCancels == vcpu = "top" /\ fast /\ Pending => AboutToCancel

\* "Defer IRQ injection one iteration so the write retires before an ISR can
\* clobber the latch" (cpu_simulate), up to VRAM_LATCH_DEFER_CAP times.
LatchProtected ==
  [][vcpu # "dispatch" /\ vcpu' = "dispatch"
       => ~latchLive \/ deferCount = DeferCap]_vars
=============================================================================
