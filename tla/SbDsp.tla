------------------------------- MODULE SbDsp -------------------------------
(***************************************************************************)
(* The digital sound of the Sound Blaster emulation: nt_sbdsp.c and the    *)
(* ports of nt_sb.c that lead to it.  The CPU thread runs the guest, takes *)
(* its commands, cuts a block of DMA data into bursts and counts them up   *)
(* in DspWaveSem; the DSP DMA thread takes them, plays them and raises the *)
(* interrupt when the block must be over.  A reset stops that thread.      *)
(*                                                                         *)
(* Sizes are in bursts of BurstSize bytes.  Wave positions, volumes and    *)
(* data are left out; so are blocks of 16 bytes or less, which never meet  *)
(* the thread.  The sections under DspLock that cannot block are one       *)
(* action.  TerminateVDD and InitDevices are left out: every run starts    *)
(* after the guest's first reset.  The PIC's self-heal is here the CPU     *)
(* thread's, as in a HAXM or Hyper-V build; SbBeat adds the heartbeat      *)
(* thread, which makes it in a CCPU build.                                 *)
(***************************************************************************)
EXTENDS Integers

CONSTANTS
  DmaThreads,  \* bound: DSP DMA threads that exist at a time
  NoThread,
  Commands,    \* what this guest does
  Blocks,      \* sizes of its blocks
  Longest,     \* the largest of them
  ResetBlock,  \* the size a reset leaves, 0x7FF bytes
  LongBlock,   \* from this size on a query counts as movement: 0x400 bytes
  Ring,        \* bursts in the DspBuffer of PrepareWaveInitialization
  SemMax,      \* the maximum DspWaveSem is created with
  Retries,     \* how often a late interrupt is put off: 10
  Preempted    \* others may run between the last statements of the DMA thread

Starts == {"single", "auto", "hiAuto", "hiSingle"}
AllCommands == Starts \cup {"size", "rate", "keepRate", "early", "pause", "exitAuto",
                            "masked", "query", "heal", "reset"}

ASSUME SbAssumption ==
  /\ NoThread \notin DmaThreads
  /\ Commands \subseteq AllCommands
  /\ Blocks \subseteq Nat \ {0}
  /\ Longest \in Blocks
  /\ \A b \in Blocks : b <= Longest
  /\ ResetBlock \in Blocks
  /\ LongBlock \in Nat
  /\ Ring \in Nat \ {0, 1}
  /\ SemMax \in Nat
  /\ Retries \in Nat
  /\ Preempted \in BOOLEAN

VARIABLES
  cpu,        \* where the CPU thread is; "guest": in the guest's code
  op,         \* the command it works on
  toQueue,    \* bursts of its block still to release
  active,     \* bDspActive
  paused,     \* bDspPaused
  started,    \* bWriteBurstStarted
  resetting,  \* bDspReset
  exitDma,    \* bExitDMAThread
  exitAuto,   \* bExitAuto
  highSpeed,  \* bHighSpeedMode
  mode,       \* DspMode
  answer,     \* SbAnswerDMAPosition
  moved,      \* PreviousWaveOutPos # StartingWaveOutPos
  waveOut,    \* HWaveOut is open
  newRate,    \* TimeConstant # 0xFFFF
  blockSize,  \* SBBlockSize
  total,      \* DspBufferTotalBursts
  nextRead,   \* DspNextRead
  nextWrite,  \* DspNextWrite
  sizes,      \* WaveBlockSizes
  sem,        \* DspWaveSem
  threadStarted, threadFinished, resetEvent, resetDone,  \* the auto-reset events
  dspLock,    \* the DMA thread that keeps DspLock while it raises the interrupt
  icaLock,    \* host_ica_lock is kept through the EOI hook
  hooked,     \* AutoInitEoiHook is registered
  irq,        \* interrupts the guest has not ended: one in service, one requested
  owed,       \* a block was handed over and its interrupt is to come
  dma,        \* where each DMA thread is
  cycle,      \* it plays its block in CycleMode
  rest,       \* WaveBlockSize: bursts of it still to write
  delay,      \* Delay is not INFINITE
  tries       \* iDel

cpuVars == <<cpu, op, toQueue>>
flagVars == <<active, started, resetting, exitDma, exitAuto, highSpeed, mode>>
waveVars == <<answer, moved, waveOut, newRate, paused, blockSize>>
ringVars == <<total, nextRead, nextWrite, sizes, sem>>
eventVars == <<threadStarted, threadFinished, resetEvent, resetDone>>
lockVars == <<dspLock, icaLock>>
irqVars == <<hooked, irq, owed>>
dmaVars == <<dma, cycle, rest, delay, tries>>
vars == <<cpuVars, flagVars, waveVars, ringVars, eventVars, lockVars, irqVars, dmaVars>>

Indices == 0 .. (IF Longest + 1 > Ring THEN Longest ELSE Ring - 1)

\* A size of 0, what VirtualAlloc leaves, is played as one burst of one byte.
NoSizes == [i \in Indices |-> 1]

Goto(t, place) == dma' = [dma EXCEPT ![t] = place]

Advance(i) == (i + 1) % total

\* ReleaseSemaphore fails, unnoticed, when the maximum is reached.
ReleaseSemaphore == sem' = IF sem < SemMax THEN sem + 1 ELSE sem

\* What ExitAutoMode sets.
ExitAutoMode == mode' = "none" /\ exitAuto' = FALSE /\ hooked' = FALSE

\* SetWaveFormat finds a format that the device supports.
SetWaveFormat == newRate' = FALSE

Init ==
  /\ cpu = "guest" /\ op = "none" /\ toQueue = 0
  /\ active = FALSE /\ started = FALSE /\ resetting = FALSE
  /\ exitDma = FALSE /\ exitAuto = FALSE /\ highSpeed = FALSE /\ mode = "none"
  /\ answer = FALSE /\ moved = FALSE /\ waveOut = FALSE /\ newRate = TRUE
  /\ paused = FALSE /\ blockSize = ResetBlock
  /\ total = Ring /\ nextRead = Ring - 1 /\ nextWrite = 0 /\ sizes = NoSizes /\ sem = 0
  /\ threadStarted = FALSE /\ threadFinished = FALSE
  /\ resetEvent = FALSE /\ resetDone = FALSE
  /\ dspLock = NoThread /\ icaLock = FALSE
  /\ hooked = FALSE /\ irq = 0 /\ owed = FALSE
  /\ dma = [t \in DmaThreads |-> "none"]
  /\ cycle = [t \in DmaThreads |-> FALSE]
  /\ rest = [t \in DmaThreads |-> 0]
  /\ delay = [t \in DmaThreads |-> FALSE]
  /\ tries = [t \in DmaThreads |-> 0]

(***************************************************************************)
(* The guest's commands.  A "polite" guest, one without "early", starts a  *)
(* block when none is under way, an auto-init one outside its interrupt    *)
(* handler too, and sets the time constant before it starts auto-init mode *)
(* unless it does "keepRate".  VsbByteOut drops all commands but the reset  *)
(* in high-speed mode.                                                     *)
(***************************************************************************)
Does(o) == cpu = "guest" /\ o \in Commands

SetBlockSize ==
  /\ Does("size") /\ ~highSpeed
  /\ blockSize' \in Blocks
  /\ UNCHANGED <<cpuVars, flagVars, answer, moved, waveOut, newRate, paused, ringVars,
                 eventVars, lockVars, irqVars, dmaVars>>

SetTimeConstant ==
  /\ Does("rate") /\ ~highSpeed
  /\ newRate' = TRUE
  /\ UNCHANGED <<cpuVars, flagVars, answer, moved, waveOut, paused, blockSize, ringVars,
                 eventVars, lockVars, irqVars, dmaVars>>

PauseDMA ==
  /\ Does("pause") /\ ~highSpeed
  /\ paused' = TRUE
  /\ UNCHANGED <<cpuVars, flagVars, answer, moved, waveOut, newRate, blockSize, ringVars,
                 eventVars, lockVars, irqVars, dmaVars>>

ContinueDMA ==
  /\ Does("pause") /\ ~highSpeed
  /\ paused' = FALSE
  /\ UNCHANGED <<cpuVars, flagVars, answer, moved, waveOut, newRate, blockSize, ringVars,
                 eventVars, lockVars, irqVars, dmaVars>>

StopAuto ==
  /\ Does("exitAuto") /\ ~highSpeed
  /\ exitAuto' = TRUE
  /\ UNCHANGED <<cpuVars, active, started, resetting, exitDma, highSpeed, mode, waveVars,
                 ringVars, eventVars, lockVars, irqVars, dmaVars>>

\* StartDspDmaThread, up to the test of bDspActive.
StartBlock(o) ==
  /\ Does(o) /\ ~highSpeed
  /\ "early" \in Commands \/ (~owed /\ irq <= IF o = "single" THEN 1 ELSE 0)
  /\ o # "single" /\ "keepRate" \notin Commands => newRate
  /\ blockSize' \in IF o = "single" THEN Blocks ELSE {blockSize}
  /\ highSpeed' = IF o \in {"hiAuto", "hiSingle"} THEN TRUE ELSE highSpeed
  /\ started' = FALSE
  /\ cpu' = IF active THEN "buffer" ELSE "thread"
  /\ op' = o
  /\ UNCHANGED <<toQueue, active, resetting, exitDma, exitAuto, mode, answer, moved,
                 waveOut, newRate, paused, ringVars, eventVars, lockVars, irqVars, dmaVars>>

StartThread ==
  /\ cpu = "thread"
  /\ \/ /\ cpu' = "guest" /\ op' = "none"       \* CreateThread fails
        /\ UNCHANGED <<flagVars, ringVars, dmaVars>>
     \/ /\ \E t \in DmaThreads :
             /\ dma[t] = "none"
             /\ Goto(t, "begin")
        /\ active' = TRUE
        /\ exitAuto' = FALSE
        /\ nextRead' = total - 1
        /\ nextWrite' = 0
        /\ sem' = 0
        /\ cpu' = "waitStarted"
        /\ UNCHANGED <<op, started, resetting, exitDma, highSpeed, mode, total, sizes,
                       cycle, rest, delay, tries>>
  /\ UNCHANGED <<toQueue, waveVars, eventVars, lockVars, irqVars>>

WaitStarted ==
  /\ cpu = "waitStarted" /\ threadStarted
  /\ threadStarted' = FALSE
  /\ cpu' = "buffer"
  /\ UNCHANGED <<op, toQueue, flagVars, waveVars, ringVars, threadFinished, resetEvent,
                 resetDone, lockVars, irqVars, dmaVars>>

\* Variant: the indices stay.
GenerateHdrsOnly ==
  total' = blockSize + 1 /\ sizes' = NoSizes /\ UNCHANGED <<nextRead, nextWrite>>

\* GenerateHdrs; the size is not rounded to pages.
GenerateHdrs ==
  total' = blockSize + 1 /\ sizes' = NoSizes /\ nextRead' = blockSize /\ nextWrite' = 0

EnlargeBuffer ==
  /\ cpu = "buffer"
  /\ IF blockSize > total - 1
     THEN GenerateHdrs
     ELSE UNCHANGED <<total, nextRead, nextWrite, sizes>>
  /\ cpu' = "mode"
  /\ UNCHANGED <<op, toQueue, flagVars, waveVars, sem, eventVars, lockVars, irqVars, dmaVars>>

\* Variant: registered only with a device that was not open.
RegisterOnOpen == hooked' = (hooked \/ ~waveOut)

RegisterEOIHook == hooked' = TRUE

\* DSP_HI_WRITE_SINGLE calls StartDspDmaThread(FALSE) like the auto-init commands.
SetMode ==
  /\ cpu = "mode"
  /\ IF op = "single"
     THEN /\ mode' = "cycle"
          /\ IF mode = "auto" THEN exitAuto' = FALSE /\ hooked' = FALSE
                              ELSE UNCHANGED <<exitAuto, hooked>>
          /\ UNCHANGED <<waveOut, newRate>>
     ELSE /\ mode' = "auto"
          /\ IF ~waveOut \/ newRate
             THEN waveOut' \in BOOLEAN /\ SetWaveFormat /\ RegisterEOIHook
             ELSE UNCHANGED <<waveOut, newRate, hooked>>
          /\ UNCHANGED exitAuto
  /\ paused' = FALSE
  /\ cpu' = "dma"
  /\ UNCHANGED <<op, toQueue, active, started, resetting, exitDma, highSpeed, answer, moved,
                 blockSize, ringVars, eventVars, lockVars, irq, owed, dmaVars>>

\* The CPU thread has host_ica_lock in its own heal only.
LeaveIcaLock == icaLock' = (icaLock /\ op # "heal")

\* DmaDataToDsp, up to its loop.  Blocks of 0xFF bytes or less answer no queries;
\* a masked channel or a count of 0 sends nothing.
BeginDmaData ==
  /\ cpu = "dma" /\ dspLock = NoThread
  /\ answer' \in IF blockSize = 1 THEN {answer, TRUE} ELSE {TRUE}
  /\ \/ /\ sizes' = [sizes EXCEPT ![nextWrite] = blockSize]
        /\ toQueue' = blockSize
        /\ owed' = TRUE
        /\ cpu' = "queue"
        /\ UNCHANGED <<op, icaLock>>
     \/ /\ "masked" \in Commands
        /\ cpu' = "guest" /\ op' = "none" /\ LeaveIcaLock
        /\ UNCHANGED <<sizes, toQueue, owed>>
  /\ UNCHANGED <<flagVars, moved, waveOut, newRate, paused, blockSize, total, nextRead,
                 nextWrite, sem, eventVars, dspLock, hooked, irq, dmaVars>>

QueueBurst ==
  /\ cpu = "queue"
  /\ nextWrite' = Advance(nextWrite)
  /\ ReleaseSemaphore
  /\ toQueue' = toQueue - 1
  /\ IF toQueue = 1 THEN cpu' = "guest" /\ op' = "none" /\ LeaveIcaLock
                    ELSE UNCHANGED <<cpu, op, icaLock>>
  /\ UNCHANGED <<flagVars, waveVars, total, nextRead, sizes, eventVars, dspLock, irqVars,
                 dmaVars>>

(***************************************************************************)
(* The end of an interrupt, by the guest or by ica_unwedge_stuck, which    *)
(* the CPU thread calls after an exit and which calls ica_eoi with         *)
(* host_ica_lock held ("heal").                                            *)
(***************************************************************************)
Eoi(o) ==
  /\ cpu = "guest" /\ irq > 0
  /\ o = "eoi" \/ (o = "heal" /\ "heal" \in Commands /\ ~icaLock)
  /\ irq' = irq - 1
  /\ IF hooked THEN cpu' = "hook" /\ op' = o /\ icaLock' = (icaLock \/ o = "heal")
               ELSE UNCHANGED <<cpu, op, icaLock>>
  /\ UNCHANGED <<toQueue, flagVars, waveVars, ringVars, eventVars, dspLock, hooked, owed,
                 dmaVars>>

\* SetWaveFormat is FALSE when the rate is the old one.
AutoInitEoiHook ==
  /\ cpu = "hook"
  /\ SetWaveFormat
  /\ waveOut' \in IF newRate THEN {waveOut, TRUE, FALSE} ELSE {waveOut}
  /\ IF paused THEN cpu' = "guest" /\ op' = "none" /\ LeaveIcaLock
               ELSE cpu' = "dma" /\ UNCHANGED <<op, icaLock>>
  /\ UNCHANGED <<toQueue, flagVars, answer, moved, paused, blockSize, ringVars, eventVars,
                 dspLock, irqVars, dmaVars>>

(***************************************************************************)
(* SbGetDMAPosition, when the guest reads the address or count of the DMA  *)
(* channel.                                                                *)
(***************************************************************************)
Query ==
  /\ Does("query") /\ waveOut /\ answer
  /\ cpu' = "spin" /\ op' = "query"
  /\ UNCHANGED <<toQueue, flagVars, waveVars, ringVars, eventVars, lockVars, irqVars, dmaVars>>

Spin ==
  /\ cpu = "spin" /\ started
  /\ cpu' = "count"
  /\ UNCHANGED <<op, toQueue, flagVars, waveVars, ringVars, eventVars, lockVars, irqVars,
                 dmaVars>>

CountQuery ==
  /\ cpu = "count" /\ dspLock = NoThread
  /\ moved' = (moved \/ (answer /\ mode = "cycle" /\ blockSize >= LongBlock))
  /\ cpu' = "guest" /\ op' = "none"
  /\ UNCHANGED <<toQueue, flagVars, answer, waveOut, newRate, paused, blockSize, ringVars,
                 eventVars, lockVars, irqVars, dmaVars>>

(***************************************************************************)
(* The reset: 1 and 0 written to the reset port, then ResetDSP.            *)
(***************************************************************************)
DspResetWrite ==
  /\ Does("reset")
  /\ resetting' = TRUE
  /\ exitDma' = (exitDma \/ ~highSpeed)
  /\ cpu' = "reset" /\ op' = "reset"
  /\ UNCHANGED <<toQueue, active, started, exitAuto, highSpeed, mode, waveVars, ringVars,
                 eventVars, lockVars, irqVars, dmaVars>>

\* Variant: DspResetEvent is not set.
SignalNoReset == UNCHANGED resetEvent

SignalReset == resetEvent' = (resetEvent \/ active)

ResetDSP ==
  /\ cpu = "reset"
  /\ SignalReset
  /\ cpu' = IF ~exitDma THEN "clear" ELSE IF active THEN "waitDone" ELSE "stop"
  /\ UNCHANGED <<op, toQueue, flagVars, waveVars, ringVars, threadStarted, threadFinished,
                 resetDone, lockVars, irqVars, dmaVars>>

WaitResetDone ==
  /\ cpu = "waitDone" /\ resetDone
  /\ resetDone' = FALSE
  /\ cpu' = "stop"
  /\ UNCHANGED <<op, toQueue, flagVars, waveVars, ringVars, threadStarted, threadFinished,
                 resetEvent, lockVars, irqVars, dmaVars>>

\* Variant: StopDspDmaThread(0).
StopNoWait == "renew"

StopWait == IF active THEN "waitFinished" ELSE "renew"

StopDspDmaThread ==
  /\ cpu = "stop"
  /\ IF active THEN ReleaseSemaphore ELSE UNCHANGED sem
  /\ cpu' = StopWait
  /\ UNCHANGED <<op, toQueue, flagVars, waveVars, total, nextRead, nextWrite, sizes,
                 eventVars, lockVars, irqVars, dmaVars>>

WaitFinished ==
  /\ cpu = "waitFinished" /\ threadFinished
  /\ threadFinished' = FALSE
  /\ cpu' = "renew"
  /\ UNCHANGED <<op, toQueue, flagVars, waveVars, ringVars, threadStarted, resetEvent,
                 resetDone, lockVars, irqVars, dmaVars>>

\* Variant: DspResetEvent stays set.
ClearThreadEvents == threadStarted' = FALSE /\ threadFinished' = FALSE /\ UNCHANGED resetEvent

ClearEvents == threadStarted' = FALSE /\ threadFinished' = FALSE /\ resetEvent' = FALSE

Renew ==
  /\ cpu = "renew"
  /\ sem' = 0
  /\ ClearEvents
  /\ waveOut' = FALSE
  /\ newRate' = TRUE
  /\ active' = FALSE
  /\ exitDma' = FALSE
  /\ cpu' = "clear"
  /\ UNCHANGED <<op, toQueue, started, resetting, exitAuto, highSpeed, mode, answer, moved,
                 paused, blockSize, total, nextRead, nextWrite, sizes, resetDone, lockVars,
                 irqVars, dmaVars>>

ResetMode ==
  /\ cpu = "clear"
  /\ mode' = "none"
  /\ blockSize' = ResetBlock
  /\ nextRead' = total - 1
  /\ nextWrite' = 0
  /\ paused' = FALSE
  /\ cpu' = "cleared"
  /\ UNCHANGED <<op, toQueue, active, started, resetting, exitDma, exitAuto, highSpeed,
                 answer, moved, waveOut, newRate, total, sizes, sem, eventVars, lockVars,
                 irqVars, dmaVars>>

EndReset ==
  /\ cpu = "cleared"
  /\ resetting' = FALSE
  /\ resetDone' = FALSE
  /\ answer' = FALSE
  /\ highSpeed' = FALSE
  /\ owed' = FALSE
  /\ cpu' = "guest" /\ op' = "none"
  /\ UNCHANGED <<toQueue, active, started, exitDma, exitAuto, mode, moved, waveOut, newRate,
                 paused, blockSize, ringVars, threadStarted, threadFinished, resetEvent,
                 lockVars, hooked, irq, dmaVars>>

(***************************************************************************)
(* The DMA thread: DspThreadEntry and DspProcessBlock.                     *)
(***************************************************************************)
\* Variant: Delay stays.
KeepDelay(t) == UNCHANGED delay

DelayInfinite(t) == delay' = [delay EXCEPT ![t] = FALSE]

\* Variant: Delay stays INFINITE after the block.
KeepInfinite(t) == UNCHANGED delay

DelayOfBlock(t) == delay' = [delay EXCEPT ![t] = TRUE]

BeginThread(t) ==
  /\ dma[t] = "begin"
  /\ active' = TRUE
  /\ threadStarted' = TRUE
  /\ Goto(t, "top")
  /\ UNCHANGED <<cpuVars, started, resetting, exitDma, exitAuto, highSpeed, mode, waveVars,
                 ringVars, threadFinished, resetEvent, resetDone, lockVars, irqVars, cycle,
                 rest, delay, tries>>

LoopTop(t) ==
  /\ dma[t] = "top"
  /\ resetDone' = (resetDone \/ exitDma)
  /\ Goto(t, IF exitDma THEN "close" ELSE "wait")
  /\ UNCHANGED <<cpuVars, flagVars, waveVars, ringVars, threadStarted, threadFinished,
                 resetEvent, lockVars, irqVars, cycle, rest, delay, tries>>

\* WaitForMultipleObjects prefers the semaphore.
TakeBurst(t) ==
  /\ dma[t] = "wait"
  /\ \/ sem > 0 /\ sem' = sem - 1 /\ UNCHANGED resetEvent
     \/ sem = 0 /\ resetEvent /\ resetEvent' = FALSE /\ UNCHANGED sem
  /\ DelayInfinite(t)
  /\ Goto(t, "woken")
  /\ UNCHANGED <<cpuVars, flagVars, waveVars, total, nextRead, nextWrite, sizes,
                 threadStarted, threadFinished, resetDone, lockVars, irqVars, cycle, rest,
                 tries>>

\* The delay is over, but the device has not played the block: wait once more.
PutOff(t) ==
  /\ dma[t] = "wait" /\ sem = 0 /\ ~resetEvent /\ delay[t] /\ dspLock = NoThread
  /\ moved /\ waveOut /\ tries[t] + 1 < Retries
  /\ tries' = [tries EXCEPT ![t] = @ + 1]
  /\ Goto(t, "top")
  /\ UNCHANGED <<cpuVars, flagVars, waveVars, ringVars, eventVars, lockVars, irqVars, cycle,
                 rest, delay>>

\* The delay is over: with DspLock, write the end of the block to the DMA controller.
EndTransfer(t) ==
  /\ dma[t] = "wait" /\ sem = 0 /\ ~resetEvent /\ delay[t] /\ dspLock = NoThread
  /\ tries' = [tries EXCEPT ![t] = 0]
  /\ dspLock' = t
  /\ Goto(t, "raise")
  /\ UNCHANGED <<cpuVars, flagVars, waveVars, ringVars, eventVars, icaLock, irqVars, cycle,
                 rest, delay>>

\* Variant: queries are still answered.
WithdrawNothing == started' = FALSE /\ UNCHANGED answer

WithdrawAnswer == started' = FALSE /\ answer' = FALSE

\* ica_hw_interrupt takes host_ica_lock.  The line has one request bit.
RaiseInterrupt(t) ==
  /\ dma[t] = "raise" /\ ~icaLock
  /\ irq' = IF irq < 2 THEN irq + 1 ELSE 2
  /\ owed' = FALSE
  /\ WithdrawAnswer
  /\ dspLock' = NoThread
  /\ DelayInfinite(t)
  /\ Goto(t, "top")
  /\ UNCHANGED <<cpuVars, active, resetting, exitDma, exitAuto, highSpeed, mode, moved,
                 waveOut, newRate, paused, blockSize, ringVars, eventVars, icaLock, hooked,
                 cycle, rest, tries>>

\* The wait is over during a reset.
ResetNoticed(t) ==
  /\ dma[t] = "woken" /\ resetting
  /\ IF mode = "auto" THEN ExitAutoMode ELSE UNCHANGED <<mode, exitAuto, hooked>>
  /\ Goto(t, "top")
  /\ UNCHANGED <<cpuVars, active, started, resetting, exitDma, highSpeed, waveVars, ringVars,
                 eventVars, lockVars, irq, owed, cycle, rest, delay, tries>>

\* Variant: read before the index moves on.
OldSize == sizes[nextRead]

WaveBlockSize == sizes[Advance(nextRead)]

\* In CycleMode the thread sets the format and opens the device itself.
ProcessBlock(t) ==
  /\ dma[t] = "woken" /\ ~resetting
  /\ IF mode = "cycle"
     THEN /\ SetWaveFormat
          /\ waveOut' \in IF newRate \/ ~waveOut THEN BOOLEAN ELSE {TRUE}
     ELSE UNCHANGED <<newRate, waveOut>>
  /\ nextRead' = Advance(nextRead)
  /\ rest' = [rest EXCEPT ![t] = WaveBlockSize]
  /\ cycle' = [cycle EXCEPT ![t] = mode = "cycle"]
  /\ moved' = FALSE
  /\ Goto(t, "write")
  /\ UNCHANGED <<cpuVars, flagVars, answer, paused, blockSize, total, nextWrite, sizes, sem,
                 eventVars, lockVars, irqVars, delay, tries>>

\* The device is not told during a reset, the counting goes on.
WriteBurst(t) ==
  /\ dma[t] = "write"
  /\ rest' = [rest EXCEPT ![t] = @ - 1]
  /\ IF rest[t] > 1
     THEN nextRead' = Advance(nextRead) /\ Goto(t, "inner")
     ELSE UNCHANGED nextRead /\ Goto(t, "end")
  /\ UNCHANGED <<cpuVars, flagVars, waveVars, total, nextWrite, sizes, sem, eventVars,
                 lockVars, irqVars, cycle, delay, tries>>

\* WaitForSingleObject(DspWaveSem, INFINITE): no reset ends this wait.
NextBurst(t) ==
  /\ dma[t] = "inner" /\ sem > 0
  /\ sem' = sem - 1
  /\ Goto(t, "write")
  /\ UNCHANGED <<cpuVars, flagVars, waveVars, total, nextRead, nextWrite, sizes, eventVars,
                 lockVars, irqVars, cycle, rest, delay, tries>>

EndBlock(t) ==
  /\ dma[t] = "end"
  /\ started' = (started \/ ~resetting)
  /\ IF cycle[t] THEN highSpeed' = FALSE /\ UNCHANGED <<mode, exitAuto, hooked>>
     ELSE /\ UNCHANGED highSpeed
          /\ IF exitAuto THEN ExitAutoMode ELSE UNCHANGED <<mode, exitAuto, hooked>>
  /\ DelayOfBlock(t)
  /\ cycle' = [cycle EXCEPT ![t] = FALSE]
  /\ Goto(t, "top")
  /\ UNCHANGED <<cpuVars, active, resetting, exitDma, waveVars, ringVars, eventVars, lockVars,
                 irq, owed, rest, tries>>

CloseDevice(t) ==
  /\ dma[t] = "close"
  /\ waveOut' = FALSE
  /\ Goto(t, "leave")
  /\ UNCHANGED <<cpuVars, flagVars, answer, moved, newRate, paused, blockSize, ringVars,
                 eventVars, lockVars, irqVars, cycle, rest, delay, tries>>

Deactivate(t) ==
  /\ dma[t] = "leave"
  /\ active' = FALSE
  /\ Goto(t, "finish")
  /\ UNCHANGED <<cpuVars, started, resetting, exitDma, exitAuto, highSpeed, mode, waveVars,
                 ringVars, eventVars, lockVars, irqVars, cycle, rest, delay, tries>>

Finish(t) ==
  /\ dma[t] = "finish"
  /\ threadFinished' = TRUE
  /\ Goto(t, "unhook")
  /\ UNCHANGED <<cpuVars, flagVars, waveVars, ringVars, threadStarted, resetEvent, resetDone,
                 lockVars, irqVars, cycle, rest, delay, tries>>

\* The next thread has locals of its own: Delay is INFINITE and iDel 0 again.
Unhook(t) ==
  /\ dma[t] = "unhook"
  /\ hooked' = FALSE
  /\ Goto(t, "none")
  /\ delay' = [delay EXCEPT ![t] = FALSE]
  /\ tries' = [tries EXCEPT ![t] = 0]
  /\ UNCHANGED <<cpuVars, flagVars, waveVars, ringVars, eventVars, lockVars, irq, owed, cycle,
                 rest>>

(***************************************************************************)
(* Unless Preempted, the DMA thread, of the highest priority, gets from    *)
(* bDspActive = 0 to its end before the CPU thread moves.                  *)
(***************************************************************************)
Undisturbed == Preempted \/ \A t \in DmaThreads : dma[t] \notin {"finish", "unhook"}

GuestStep ==
  /\ Undisturbed
  /\ \/ SetBlockSize \/ SetTimeConstant \/ PauseDMA \/ ContinueDMA \/ StopAuto
     \/ \E o \in Starts : StartBlock(o)
     \/ \E o \in {"eoi", "heal"} : Eoi(o)
     \/ Query \/ DspResetWrite

CpuStep ==
  /\ Undisturbed
  /\ \/ StartThread \/ WaitStarted \/ EnlargeBuffer \/ SetMode \/ BeginDmaData \/ QueueBurst
     \/ AutoInitEoiHook \/ Spin \/ CountQuery
     \/ ResetDSP \/ WaitResetDone \/ StopDspDmaThread \/ WaitFinished \/ Renew
     \/ ResetMode \/ EndReset

DmaStep(t) ==
  \/ BeginThread(t) \/ LoopTop(t) \/ TakeBurst(t) \/ PutOff(t) \/ EndTransfer(t)
  \/ RaiseInterrupt(t) \/ ResetNoticed(t) \/ ProcessBlock(t) \/ WriteBurst(t)
  \/ NextBurst(t) \/ EndBlock(t) \/ CloseDevice(t) \/ Deactivate(t) \/ Finish(t) \/ Unhook(t)

Next == GuestStep \/ CpuStep \/ \E t \in DmaThreads : DmaStep(t)

Spec == Init /\ [][Next]_vars

\* Windows runs both threads; a delay ends.  The guest need not do anything.
FairSpec == Spec /\ WF_vars(CpuStep) /\ \A t \in DmaThreads : WF_vars(DmaStep(t))

-----------------------------------------------------------------------------
Places == {"guest", "thread", "waitStarted", "buffer", "mode", "dma", "queue", "hook", "spin",
           "count", "reset", "waitDone", "stop", "waitFinished", "renew", "clear", "cleared"}
ThreadPlaces == {"none", "begin", "top", "wait", "raise", "woken", "write", "inner", "end",
                 "close", "leave", "finish", "unhook"}

TypeCpu ==
  /\ cpu \in Places
  /\ op \in Starts \cup {"none", "eoi", "heal", "query", "reset"}
  /\ toQueue \in Nat

TypeFlags ==
  /\ active \in BOOLEAN /\ started \in BOOLEAN /\ resetting \in BOOLEAN
  /\ exitDma \in BOOLEAN /\ exitAuto \in BOOLEAN /\ highSpeed \in BOOLEAN
  /\ mode \in {"none", "auto", "cycle"}

TypeWave ==
  /\ answer \in BOOLEAN /\ moved \in BOOLEAN /\ waveOut \in BOOLEAN
  /\ newRate \in BOOLEAN /\ paused \in BOOLEAN
  /\ blockSize \in Blocks

TypeRing ==
  /\ total \in Nat /\ total > 1 /\ total - 1 \in Indices
  /\ nextRead \in 0 .. total - 1
  /\ nextWrite \in 0 .. total - 1
  /\ sizes \in [Indices -> Blocks \cup {1}]
  /\ sem \in 0 .. SemMax

TypeSync ==
  /\ threadStarted \in BOOLEAN /\ threadFinished \in BOOLEAN
  /\ resetEvent \in BOOLEAN /\ resetDone \in BOOLEAN
  /\ dspLock \in DmaThreads \cup {NoThread} /\ icaLock \in BOOLEAN
  /\ hooked \in BOOLEAN /\ irq \in 0 .. 2 /\ owed \in BOOLEAN

TypeDma ==
  /\ dma \in [DmaThreads -> ThreadPlaces]
  /\ cycle \in [DmaThreads -> BOOLEAN] /\ delay \in [DmaThreads -> BOOLEAN]
  /\ rest \in [DmaThreads -> Nat] /\ tries \in [DmaThreads -> Nat]

\* Every variable is of its type; indices stay inside the ring and the semaphore below
\* its maximum.
TypeOK == TypeCpu /\ TypeFlags /\ TypeWave /\ TypeRing /\ TypeSync /\ TypeDma

Looping(t) == dma[t] \in {"begin", "top", "wait", "raise", "woken", "write", "inner", "end"}

InReset == op = "reset"

\* bDspActive keeps a second DMA thread from starting: however resets, failed starts and
\* exits fall together, at most one thread reads the ring.
OneDma == \A t, u \in DmaThreads : Looping(t) /\ Looping(u) => t = u

\* The reader is where the writer's count says: between DspNextRead and DspNextWrite lie
\* the bursts counted in DspWaveSem, also when the ring wraps or is replaced.
InStep ==
  \A t \in DmaThreads : Looping(t) /\ ~InReset =>
    LET taken == CASE dma[t] = "woken" -> 1 [] dma[t] = "inner" -> -1 [] OTHER -> 0
    IN  (nextRead + 1 + sem + taken) % total = nextWrite

\* The wait without a timeout inside DspProcessBlock is for a burst that is counted or
\* that the CPU thread is about to count.
NeverStarved == \A t \in DmaThreads : dma[t] = "inner" => sem + toQueue >= rest[t]

\* ResetDSP, DspResetWrite's "OK - reset everything": when it returns, no thread plays on
\* and nothing of the old transfer is left to wake a new one.
ResetIsComplete ==
  [][InReset /\ op' # "reset" =>
       sem' = 0 /\ ~resetEvent' /\ \A t \in DmaThreads : dma'[t] \in {"none", "unhook"}]_vars

\* The DMA thread interrupts once for a block: not for none, not twice for one.
InterruptOwed == [][\A t \in DmaThreads : RaiseInterrupt(t) => owed \/ InReset]_vars

\* In auto-init mode (DSP_WRITE_AUTO, "auto init output mode") the transfer goes on: a block
\* is under way or its interrupt, whose end starts the next one, is; unless it is halted
\* (DSP_CONTINUE_DMA: "continue halted dma").  (host_ica_lock: the hook is at work.)
AutoAlive ==
  mode = "auto" /\ cpu = "guest" /\ ~icaLock /\ ~paused => owed \/ (irq > 0 /\ hooked)

\* SbGetDMAPosition spins for a block that was handed over, unless the answer was
\* withdrawn since it looked.
QueriesHaveBlock == cpu = "spin" /\ answer => owed

\* A reset ends: none of ResetDSP's waits is forever (in SbBeat, beside a calm guest's
\* heal).
ResetReturns == InReset ~> ~InReset

\* A block that was handed over gets its interrupt (or its reset), though who raises it
\* takes DspLock and then host_ica_lock and the self-heal takes them the other way: the
\* CPU thread's, and the heartbeat's as long as the guest is calm (SbBeat).
BlockEnds == owed ~> ~owed

\* StopDspDmaThread ("thread has exited"): when it has waited, or had not to wait, the
\* thread has closed the device and cleared bDspActive and will signal nothing more.
StopWaits ==
  cpu = "renew" => \A t \in DmaThreads : dma[t] \in {"none", "unhook"}

\* ica_unwedge_stuck ends the interrupt of any line "so it can deliver again".
HealEnds == icaLock ~> ~icaLock
=============================================================================
