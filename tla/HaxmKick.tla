------------------------------ MODULE HaxmKick ------------------------------
(***************************************************************************)
(* How a worker thread's interrupt reaches a guest that HAXM runs: haxm's  *)
(* int.c and the loop of cpu_simulate in monitor.c.  A worker sets a bit   *)
(* in *pNtVDMState and kicks the VCPU out of HAX_VCPU_IOCTL_RUN; the loop  *)
(* marks itself running, samples the bits into request_interrupt_window    *)
(* and runs the guest again.                                               *)
(*                                                                         *)
(* The sections under host_ica_lock cannot block, so each is one action.   *)
(* The driver is modelled from how monitor.c uses it: a kick makes this    *)
(* run or the next one return HAX_EXIT_TIMER, a requested window makes it  *)
(* return HAX_EXIT_INTERRUPT once the guest's IF is 1.                      *)
(***************************************************************************)
EXTENDS Naturals

CONSTANT Workers   \* timer, keyboard, com, mouse... threads

VARIABLES
  timer,        \* VDM_INT_TIMER in *pNtVDMState
  hardware,     \* VDM_INT_HARDWARE in *pNtVDMState
  inHaxrun,     \* g_in_haxrun
  kickPending,  \* g_kick_pending
  window,       \* tunnel->request_interrupt_window
  kicked,       \* the driver's own kick_pending
  irqEnabled,   \* the guest's IF
  exit,         \* tunnel->_exit_status of the last run
  vcpu,         \* where in cpu_simulate and DispatchInterrupts the VCPU thread is
  worker        \* where in cpu_interrupt each worker is

vars == <<timer, hardware, inHaxrun, kickPending, window, kicked, irqEnabled,
          exit, vcpu, worker>>

flagVars == <<timer, hardware>>
driverVars == <<kicked, irqEnabled, exit>>

\* VDM_INTERRUPT_PENDING
Pending == timer \/ hardware

Init ==
  /\ timer = FALSE
  /\ hardware = FALSE
  /\ inHaxrun = FALSE
  /\ kickPending = 0
  /\ window = FALSE
  /\ kicked = FALSE
  /\ irqEnabled = FALSE
  /\ exit = "none"
  /\ vcpu = "mark"
  /\ worker = [w \in Workers |-> "idle"]
-----------------------------------------------------------------------------
(* cpu_interrupt on a worker thread.                                       *)

Move(w, place) == worker' = [worker EXCEPT ![w] = place]

\* The bit first, whichever it is and whether or not it was set, then the kick.
SetFlag(w) ==
  /\ worker[w] = "idle"
  /\ \/ timer' = TRUE /\ UNCHANGED hardware
     \/ hardware' = TRUE /\ UNCHANGED timer
  /\ Move(w, "test")
  /\ UNCHANGED <<inHaxrun, kickPending, window, driverVars, vcpu>>

TestRunning(w) ==
  /\ worker[w] = "test"
  /\ Move(w, IF inHaxrun THEN "recheck" ELSE "idle")
  /\ UNCHANGED <<flagVars, inHaxrun, kickPending, window, driverVars, vcpu>>

TestPending(w) ==
  /\ worker[w] = "recheck"
  /\ Move(w, IF Pending THEN "exchange" ELSE "idle")
  /\ UNCHANGED <<flagVars, inHaxrun, kickPending, window, driverVars, vcpu>>

ExchangePending(w) ==
  /\ worker[w] = "exchange"
  /\ kickPending' = 1
  /\ Move(w, IF kickPending = 0 THEN "kick" ELSE "idle")
  /\ UNCHANGED <<flagVars, inHaxrun, window, driverVars, vcpu>>

\* HAX_VCPU_IOCTL_KICKOFF
Kick(w) ==
  /\ worker[w] = "kick"
  /\ kicked' = TRUE
  /\ Move(w, "idle")
  /\ UNCHANGED <<flagVars, inHaxrun, kickPending, window, irqEnabled, exit, vcpu>>

CpuInterrupt(w) ==
  TestRunning(w) \/ TestPending(w) \/ ExchangePending(w) \/ Kick(w)
-----------------------------------------------------------------------------
(* The loop of cpu_simulate.                                               *)

\* Variant: sample the bits, then mark the VCPU as running.
SampleThenMark ==
  /\ \/ /\ vcpu = "mark"
        /\ window' = Pending
        /\ vcpu' = "sample"
        /\ UNCHANGED inHaxrun
     \/ /\ vcpu = "sample"
        /\ inHaxrun' = TRUE
        /\ vcpu' = "run"
        /\ UNCHANGED window
  /\ UNCHANGED <<flagVars, kickPending, driverVars, worker>>

\* Mark the VCPU as running, then sample the bits.
MarkThenSample ==
  /\ \/ /\ vcpu = "mark"
        /\ inHaxrun' = TRUE
        /\ vcpu' = "sample"
        /\ UNCHANGED window
     \/ /\ vcpu = "sample"
        /\ window' = Pending
        /\ vcpu' = "run"
        /\ UNCHANGED inHaxrun
  /\ UNCHANGED <<flagVars, kickPending, driverVars, worker>>

LeaveRun ==
  /\ vcpu = "left"
  /\ inHaxrun' = FALSE
  /\ vcpu' = "clear"
  /\ UNCHANGED <<flagVars, kickPending, window, driverVars, worker>>

\* Variant: the mark stays.
KeepKick ==
  /\ vcpu = "clear"
  /\ vcpu' = "handle"
  /\ UNCHANGED <<flagVars, inHaxrun, kickPending, window, driverVars, worker>>

ClearKick ==
  /\ vcpu = "clear"
  /\ kickPending' = 0
  /\ vcpu' = "handle"
  /\ UNCHANGED <<flagVars, inHaxrun, window, driverVars, worker>>

\* The device behind the port may raise an interrupt at once (an EOI that lets
\* the next one through): cpu_interrupt on the VCPU thread, which kicks nobody.
HandleIo ==
  /\ vcpu = "handle"
  /\ exit = "io"
  /\ hardware' \in {hardware, TRUE}
  /\ vcpu' = "mark"
  /\ UNCHANGED <<timer, inHaxrun, kickPending, window, driverVars, worker>>

\* On the exits that follow, ica_unwedge_stuck looks at the PIC first; an EOI it
\* forces may let the next interrupt through.
Unwedge == hardware' \in {hardware, TRUE} /\ UNCHANGED timer

\* HAX_EXIT_TIMER: nothing to do here, the loop top samples the bits.
HandleTimer ==
  /\ vcpu = "handle"
  /\ exit = "timer"
  /\ Unwedge
  /\ vcpu' = "mark"
  /\ UNCHANGED <<inHaxrun, kickPending, window, driverVars, worker>>

HandleInterrupt ==
  /\ vcpu = "handle"
  /\ exit = "interrupt"
  /\ Unwedge
  /\ vcpu' = IF timer \/ hardware' THEN "dispatch" ELSE "mark"
  /\ UNCHANGED <<inHaxrun, kickPending, window, driverVars, worker>>
-----------------------------------------------------------------------------
(* DispatchInterrupts.                                                     *)

\* The end of DispatchInterrupts: acknowledge a hardware interrupt and hand
\* it to the driver, if the guest takes interrupts.
InjectHardware ==
  /\ hardware' = (hardware /\ ~irqEnabled)
  /\ vcpu' = "mark"

Dispatch ==
  /\ vcpu = "dispatch"
  /\ \/ timer /\ timer' = FALSE /\ vcpu' = "event" /\ UNCHANGED hardware
     \/ ~timer /\ InjectHardware /\ UNCHANGED timer
  /\ UNCHANGED <<inHaxrun, kickPending, window, driverVars, worker>>

\* host_timer_event, called without the lock.
TimerEvent ==
  /\ vcpu = "event"
  /\ vcpu' = "hardware"
  /\ UNCHANGED <<flagVars, inHaxrun, kickPending, window, driverVars, worker>>

DispatchHardware ==
  /\ vcpu = "hardware"
  /\ InjectHardware
  /\ UNCHANGED <<timer, inHaxrun, kickPending, window, driverVars, worker>>

Loop ==
  MarkThenSample \/ LeaveRun \/ ClearKick \/ HandleIo \/ HandleTimer
    \/ HandleInterrupt \/ Dispatch \/ TimerEvent \/ DispatchHardware
-----------------------------------------------------------------------------
(* Inside HAX_VCPU_IOCTL_RUN: the driver and the guest.                    *)

ExitWith(reason) ==
  /\ vcpu = "run"
  /\ exit' = reason
  /\ vcpu' = "left"
  /\ UNCHANGED <<flagVars, inHaxrun, kickPending, window, irqEnabled, worker>>

ExitIo == ExitWith("io") /\ UNCHANGED kicked
ExitInterrupt == window /\ irqEnabled /\ ExitWith("interrupt") /\ UNCHANGED kicked
ExitTimer == kicked /\ ExitWith("timer") /\ kicked' = FALSE

\* CLI, STI, or a handler's entry and IRET.
GuestSetsIF ==
  /\ vcpu = "run"
  /\ irqEnabled' = ~irqEnabled
  /\ UNCHANGED <<flagVars, inHaxrun, kickPending, window, kicked, exit, vcpu, worker>>

Next ==
  \/ Loop
  \/ ExitIo \/ ExitInterrupt \/ ExitTimer \/ GuestSetsIF
  \/ \E w \in Workers : SetFlag(w) \/ CpuInterrupt(w)

Spec == Init /\ [][Next]_vars

\* The threads keep running; the driver answers a kick, and gives a window the
\* guest opens again and again to the exit that was asked for.  The guest is
\* free to loop forever without an exit, but does not keep IF at 0 forever.
Fairness ==
  /\ WF_vars(Loop)
  /\ \A w \in Workers : WF_vars(CpuInterrupt(w))
  /\ WF_vars(ExitTimer)
  /\ SF_vars(ExitInterrupt)
  /\ SF_vars(GuestSetsIF /\ irqEnabled')

FairSpec == Spec /\ Fairness
-----------------------------------------------------------------------------
TypeOK ==
  /\ timer \in BOOLEAN
  /\ hardware \in BOOLEAN
  /\ inHaxrun \in BOOLEAN
  /\ kickPending \in {0, 1}
  /\ window \in BOOLEAN
  /\ kicked \in BOOLEAN
  /\ irqEnabled \in BOOLEAN
  /\ exit \in {"none", "io", "timer", "interrupt"}
  /\ vcpu \in {"mark", "sample", "run", "left", "clear", "handle",
               "dispatch", "event", "hardware"}
  /\ worker \in [Workers -> {"idle", "test", "recheck", "exchange", "kick"}]

Kicking == \E w \in Workers : worker[w] = "kick"
AboutToKick == \E w \in Workers : worker[w] \in {"test", "recheck", "exchange"}

\* The guest never runs unaware of an interrupt: with a bit set, the window is
\* requested, or a kick has been given, or a worker is on its way to give one
\* and the mark that lets workers skip it is not set (monitor.c, the comment at
\* the loop top: the bit is seen by the sample or triggers a KICKOFF).
NeverDeaf ==
  vcpu = "run" /\ Pending =>
    window \/ kicked \/ Kicking \/ (AboutToKick /\ kickPending = 0)

\* g_kick_pending is never left set with no kick behind it: that would silence
\* every worker for as long as the guest makes no exit.
KickBehindMark ==
  kickPending = 1 /\ vcpu \notin {"left", "clear"} => kicked \/ Kicking

\* A timer tick is taken in the end even from a guest that makes no exit of
\* its own.
TickServed == timer ~> ~timer

\* So is a hardware interrupt, once the guest enables interrupts.
IrqInjected == hardware ~> ~hardware
=============================================================================
