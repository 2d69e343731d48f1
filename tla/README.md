# NTVDMx64: a TLA+ development

NTVDMx64 brings Microsoft's NTVDM (DOS and Win16 on Windows) to x64 Windows. The
repository is not NTVDM itself. It holds patches to sources that are not here, new
files that are added to those sources, replacements for the CPU (HAXM and Hyper-V
monitors), device updates (Sound Blaster 2.0, DOS long file names), and the loader DLL
that makes a 64-bit system start NTVDM. This directory keeps TLA+ models of the parts
with a protocol of their own, mostly protocols between threads or processes, the TLC runs
that check them on small instances, and TLAPS proofs for every instance.

All paths are below `src/ntvdmpatch/`.

## 1. Inventory

| component | where | state | operations | what makes it correct | here |
|---|---|---|---|---|---|
| **WOW32 system level** | `minnt/minntfix/.../wow32/wsyslevel.c`, `wtask.c`, their callers in `patches/minnt/wow32.patch` | `Win16Mutex`, per task `sys_count`, `sys_mutex`, `yield_event`, `yield_wait_event`; the task list under `gcsWOW` | `_EnterSysLevel`, `_LeaveSysLevel`, `ReleaseThunkLock`, `RestoreThunkLock`, `OldYield`, `xxxUserYield`, `xxxWaitForMsgAndEvent`, `xxxDirectedYield`, task start and end | one task runs 16-bit code; a sleeping task owns nothing; a yield returns the depth it gave away; nobody waits on an event nobody sets, or on a stale handle | `SysLevel`, `Win16Scheduler` |
| **HAXM interrupt delivery** | `experimental/haxm/v86/haxm/i386/int.c`, `monitor.c` | pending bits, `g_in_haxrun`, `g_kick_pending`, the interrupt window | `cpu_interrupt`, the kick, the loop of `cpu_simulate`, `DispatchInterrupts` | a guest never runs unaware of an interrupt; a skipped kick is covered by another | `HaxmKick` |
| **Hyper-V interrupt delivery** | `experimental/hyperv/v86/hyperv/x86/int.c`, `monitor.c` | pending bits, `g_in_whvrunvp`, `g_cancel_pending`, the injection slot, the window, the VRAM deferral, the I/O fast path | the same, the PIT nudge thread, `hyperv_arm_interrupt_window` | an acknowledged interrupt is delivered; PIC and bits agree; ticks are served | `HvInterrupts` |
| **Hyper-V register cache** | `monitor.c` 482-1010 and every exit handler | the registers twice, in `state` and in the VCPU; `g_dirty_mask`, `g_vram_only_gprs_dirty`, YODA's flags | fetch, flush, mark; the exits; nested `cpu_simulate` | the guest runs on, and a handler reads, the newest value | `HvRegisters` |
| **Sound Blaster DSP** | `updates/001-sb20/src/nt_sbdsp.c`, `nt_sb.c` | DSP mode, block and position, DMA thread, wave headers, events | port reads and writes, reset, DMA thread, auto-init EOI hook | the thread stops when told to, blocks are played once and in order | `SbDsp`, `SbBeat` |
| **Long file names: searches** | `updates/002-demlfn/dos/dem/demlfn.c` | `gSearchHandleTable`, its list of unused entries, the Win32 finds | INT 21h AX=714Eh, 714Fh, 71A1h, the `demWOWLFN` calls, the end of a program | a handle stands for one search of one program; no find is leaked or closed twice | `LfnHandles`, `LfnSearch` |
| **Loader: starting 16-bit programs** | `src/ldntvdm/ldntvdm/xpcreateproc.c`, `basevdm.c`, `ldntvdm.c` | locals of `CreateProcessInternalW`, CSRSS's records of VDMs | CreateProcess, `BaseCheckVDM`, `BaseUpdateVDMEntry`, the undo | a failed start leaves nothing, a VDM per place, nobody waits for a VDM that nobody starts | `VdmCreate`, `VdmLaunch` |
| **Loader: symbol cache** | `src/ldntvdm/ldntvdm/symcache.c` | offsets and a file time per module in the registry | update, rebuild, look up | what passes for unchanged is right; symbols are fetched once per file | `SymCache` |
| Monitor thread list | `thread.c` (both monitors) | sorted doubly linked list | find, insert, remove | stays sorted and linked | no, see 12 |
| SB MIDI, FM, mixer | `nt_sbmid.c`, `nt_sbfm.c`, `nt_sbmxr.c` | ring buffers, header chain, registers | byte in, flush, reset | nothing lost or overwritten at the limits | no, see 12 |
| Long file names: the rest | `demlfn.c` | path buffers | names, attributes, times, SUBST | the conversions | no |
| Rest | AdLib, VESA, C video, CCPU server, debugger extensions, fakewife, pificon, redirector stubs | | | sequential, generated, or without state | no |

How they interact. The monitors replace the CPU, so every device (PIC, PIT, Sound
Blaster, video) meets them through `cpu_interrupt`, from threads of its own, under
`host_ica_lock`, and through port exits on the VCPU thread. WOW32 runs above: its tasks
are threads that call the CPU one at a time, which is what `Win16Mutex` is for. The Sound
Blaster's DMA thread raises interrupts and is stopped by port writes on the CPU thread.
The long file name services run inside a BOP of the CPU thread; DOS and WOW32 share their
table. The loader is in other processes and meets NTVDM only when a program is started,
through CSRSS; its processes meet each other in the registry.

What is hard here: **threads that share words without a lock** (`g_kick_pending`,
`g_cancel_pending`, `bDspActive`, the order of setting a bit and cancelling a run);
**handles captured under one lock and used under another** (directed yield);
**counters kept beside the thing they count** (`sys_count` beside the critical section);
**one-slot resources** (WHP's pending interruption, the PIC's one request); **liveness that
depends on an exit somebody else makes**; **fixed-size tables** (64 waiters); **two copies
of one state** (the registers); **a list inside freed memory** (the search handles);
**several writes that are no transaction** (the symbol cache); **a long function with one
clean-up at its end** (CreateProcess). PROJECT.json lists each of them at its line.

## 2. Plan and where it stands

The most important behaviour first.

1. `SysLevel` and its abstract specification `Win16Scheduler`. *Done, proved.*
2. `HaxmKick`, the smaller of the two monitors' kick protocols. *Done, proved.*
3. `HvInterrupts`, the Hyper-V monitor with its PIC, slot, window, deferral. *Done, its
   safety proved.*
4. `SbDsp`: the DSP's CPU side against its DMA thread; `SbBeat` adds the heartbeat thread of a
   CCPU build. *Done, its safety proved.*
5. `HvRegisters`: which of the two copies of a register is the newest. *Done, proved.*
6. `LfnHandles` and its abstract specification `LfnSearch`. *Done, proved with the
   refinement.*
7. `SymCache`: the registry cache, with processes ended in between. *Done, its safety
   proved.*
8. `VdmCreate` and its abstract specification `VdmLaunch`. *Done, proved with the
   refinement.*

Every invariant and action property of the passing runs is a theorem now, some under
assumptions that a .cfg shows to be needed; of the liveness properties the part that is
safety is proved where it says something (12). What remains: the short blocks of the DSP
(a delayed interrupt) and the end of the process (`TerminateVDD` against a DMA thread in a
block); the MIDI ring once its walk is repaired.

Composition: `HvInterrupts` includes the PIC (external, from its use) because its
properties are about both; `HvRegisters` is apart from it because no register decides about
an interrupt and no interrupt about which copy is newest, except through YODA, whose part of
`DispatchInterrupts` it has. `SysLevel` meets the monitors only as "a task runs 16-bit
code", which is the abstract `Win16Scheduler`. `VdmCreate` contains CSRSS and the VDM as the
loader uses them; `SymCache` precedes it in every process and shares no state with it.

A module keeps one type invariant, proved with the rest; most runs leave it out and check
what could really be wrong.

## 3. SysLevel

**State.** `owner`/`rec` are the owning thread and recursion count of the critical section
in `Win16Mutex`; `sysCount`, `sysMutex`, `yieldEvent`, `yieldWait` the fields of each
task's TD; `tasks` the list at `gptdTaskHead`; `gcs` the owner of `gcsWOW` over the only
section in which the code does more than a step under it; `event` the kernel objects;
`pc`, `op`, `count`, `left`, `mutexCount`, `handle`, `waiters` the threads' places and
locals. `code` says what a thread at place `run` executes. `count` is a stack, one saved
count for each yield under way of the thread; `gave` is no variable of the code: the levels
the thread really owned when each of them began.

**Actions.** `EnterSection` .. `RegainLevels` are `_EnterSysLevel` line by line
(enter, look for a yield event under `gcsWOW`, leave every level, wait, regain).
`CallLeave` and `ReleaseLevel` are `_LeaveSysLevel` with its three cases (in sync, owned
though the counter says no, not owned). `BeginRelease` .. `Restored` are
`ReleaseThunkLock` and `RestoreThunkLock` around a native call. In a yield the native
call may run a window procedure before it returns (`NativeReturns`): `PeekMessage` and
`DispatchMessage` (`wtask.c` 193-198) reach 16-bit code again by `CallBack16`, which may
yield again, with a count of its own further up the same stack (`CallBack`,
`CallBackReturns`). A window procedure is taken to return with every level it entered left,
as its thunk does; that is the only assumption about it.
`DirectedYieldFails`, `ScanTasks`, `CreateEvents`, `CloseYieldEvent`, `SignalWaiter` and
`DirectedYieldDone` are `xxxDirectedYield`. `TaskStart`, `TaskExit`, `TaskGone` are what
the patch to `wow32.c`/`wkman.c` does at the ends of a task. `EnterUntracked` is a level
entered through the pointer that `GetpWin16Lock` hands out, of which the counter knows
nothing; the out-of-sync branches of the code exist because of it.

**Read from the code, worth knowing.** `dwThreadId`, the parameter of `xxxDirectedYield`,
is never used. A task's own `yield_event` is only set by its own `_EnterSysLevel`, so the
100 ms wait in `xxxDirectedYield` always times out. `xxxDirectedYield` with any
`yield_wait_event` pending returns at once, a stutter here. A task that exits with a
`yield_wait_event` leaks the handle (its TD is on its stack); its yielder still signals
it, which is harmless. `sys_count` is a DWORD that goes below zero while levels it did not
know of are given back; the model has the negative number, and `CountersConsistent`, a theorem,
says that it is seen only there. `wtask.c` 106-115, which handles the task's own event in the
list, is unreachable: an own event is found by the scan before.

**Runs.**
- `syslevel`: 3 threads, 3 handles, at most 2 waiters, nesting 2, symmetry in both sets,
  no window procedure in a yield (`MaxNested = 0`; 649,808 states).
  Three threads are the yielder, a parked task, and one that competes with either; with 2
  others, `MaxWaiters = 2` is enough for all, as 64 is in practice. Nesting 2 gives every
  loop a first and a further pass. 3 handles let one leak and the yield go on. `TypeOK`,
  `MutualExclusion`, `SleepersOwnNothing`, `NoOrphanedEvent`, `HandlesFresh`, and
  `Scheduled`: every step is one of the abstract scheduler.
- `syslevel_live`: 2 threads, one of which at a time may be in a window procedure called
  from a yield (`MaxNested = 1`; 266,030 states), so a yield waits below another on the same
  stack. `YieldKeepsDepth`, and `ParkedTaskResumes` under `FairSpec`. Saved counts are
  locals, so a second thread to change the levels in between is all that the case needs; the
  same with 3 threads also passes (4.45 million states) but takes too long to be a run.
  Fairness: strong for `_EnterSysLevel`, whose contended entry the OS grants in the end
  (`SwitchToThread` is what the code does for it), weak for the steps of the loops and of the
  directed yield, weak for the native part of a yield, which returns once it calls no window
  procedure any more, strong for `Yield`: a Win16 task that never yields hangs the system by
  design, that is the contract of cooperative scheduling.
- `SysLevelCap.cfg`, not among the runs of PROJECT.json: with one task more than
  `MAX_DIRECTEDYIELD_WAITERS` a task is parked on an event nobody will signal; see 11.

**Proofs** (`SysLevelProofs`), for every set of threads and handles, every `MaxWaiters`,
`MaxDepth` and `MaxNested`, from `SysLevelAssumption`. `MutualExclusion` is not inductive: a
thread that runs 16-bit code owns the section because of where it came from. The
inductive invariant is `TypeOK` and, per thread, the levels owned at each place
(at `check` and `drop` at least the one just entered; at `wait`, `regain`, `native`,
`gone`, none; in `release`, exactly those still to leave), `sysCount` at most the levels
owned, and at `restore` the sum of levels owned and left equal to the top of `count`. The
stacks have a part of their own, `Stack`: each saved count is what was really given away
(`gave`), at least one but for a thread that exits, however deep the yields are nested.
`SysLevelInvariant` proves it; `Exclusion`, `Sleepers`, `Counters`, `YieldDepth` and
`Implements` (refinement of `Win16Scheduler`) follow from it.

The events have an invariant of their own, `EventInv`: a pending event is in one task's data
only and on one yielder's list only, a yielder has a list only while it still has to go
through its signalling loop, and a task that has captured a handle holds the only copy of an
open event, set once its wait is over. `Fresh` (`HandlesFresh`) follows without further
assumptions. `NoneOrphaned` (`NoOrphanedEvent`) assumes that all tasks but one fit the
waiter list, `Cardinality(Threads) <= MaxWaiters + 1`: the events on a list are those of
different tasks, none of them the yielder's, so `CreateEvents` remembers each that it makes.
`SysLevelCap.cfg` is what happens with one task more.

## 4. HaxmKick

**State.** The two bits of `*pNtVDMState`, `g_in_haxrun`, `g_kick_pending`, the tunnel's
`request_interrupt_window` and exit status, and for the driver a kick not yet answered and
the guest's IF. **Actions.** A worker: `SetFlag`, `TestRunning`, `TestPending`,
`ExchangePending`, `Kick`, one per access to shared memory in `cpu_interrupt` and
`haxm_kick_if_running`. The VCPU: `MarkThenSample` (two steps), the run, `LeaveRun`,
`ClearKick`, one action per exit, `DispatchInterrupts` in the pieces between which it has
no lock.

External: HAXM, from how `monitor.c` uses it. A kick makes this or the next run return
`HAX_EXIT_TIMER`; a requested window returns `HAX_EXIT_INTERRUPT` when IF is 1. A worker
may in reality hold `host_ica_lock` over its kick; the model lets it interleave more.
Exits other than I/O, timer and interrupt do nothing else to this state than an I/O exit.

**Run.** `haxm_kick`: 3 workers; one gives the kick, one skips it because of the mark, one
arrives late. `NeverDeaf` (the comment at the loop top: a bit is seen by the sample or
triggers a kick), `TickServed`, `IrqInjected`. Fairness: threads go on;
the driver answers a kick; the window, once asked for and open again and again, is
reported (strong); the guest does not keep IF at 0 forever (strong), but may loop forever
without an exit.

**Proofs** (`HaxmKickProofs`), for every set of workers. `NeverDeaf` needs to know where
a worker can be when the VCPU passes mark and sample: `inHaxrun` is exactly "between mark
and left", and from the sample on a pending bit that the sample missed has its worker
still before its test. `GuestIsAlerted` and `MarkIsBacked` follow.

## 5. HvInterrupts

**State.** The bits; `host_ica_lock` where a worker holds it over several steps; the PIC
(`irr`, `isr`, `ica_cpu_int`, the line its request is for); `g_in_whvrunvp`,
`g_cancel_pending` and WHP's own cancel; the pending-interruption slot; the window
(`notify` is what WHP was told, `armed` and `streak` what the loop remembers); the VRAM
deferral; `io_fast_prev`; the guest's IF, shadow, running handlers and latch.

**Actions.** `cpu_interrupt` in five steps with the lock of its caller around them
(`RaiseLine`, `TestRunning`, `ExchangePending`, `Cancel`, `SetFlag`); `Nudge` is the
high-resolution PIT thread, which cancels without a bit. The loop of `cpu_simulate` from
top to run (`SkipToRun`, `Unwedge`, `DeferDispatch`, `DispatchPending`, `ArmWindow`,
`ClearCancel`, `MarkRunning`), the exits, and `DispatchInterrupts` in two halves because
it drops the lock around `host_timer_event`. External: WHP (`Deliver`, `ExitCanceled`,
`ExitWindow`), the guest (`GuestSetsIF`, `ExitGuest`), the PIC (`Eligible`,
`Acknowledge`, `ScanAfter`).

**Read from the code, worth knowing.** `streak` is reset by any exit with IF=1 even when
nothing could be injected then, so a guest whose every IF=1 moment ends in a VRAM read or in
a string OUT, which reads memory the same way (`monitor.c` 3145-3149, 2612, 2318; either
defers the dispatch), or in a faulting instruction (slot taken) can hold an interrupt off;
`IrqInjected` is checked for guests that stop doing the first two, and without faults; the
README of the code makes no promise for the others. The deferral's count is reset also when the
dispatch then declines. `g_intwin_armed = 0` in the window exit only saves an iteration:
the next one corrects it. A handler that sends its EOI in an STI shadow with an interrupt
in the slot ends that interrupt's service and not its own; `AckedNotLost` therefore
counts.

**Runs.**
- `hv_interrupts`: one worker, the PIT thread, two lines, one nested handler, every exit
  but the VRAM read and the string OUT. Two lines give priority and nesting. `AckedNotLost`,
  `RequestIsFlag`, `CancelBacked`.
- `hv_interrupts_live`: one line, with VRAM reads, string OUTs and HLT (191,881 states),
  under `FairSpec`: the loop goes on, workers finish, the heartbeat ticks, WHP honours a
  cancel. `TickServed`, and `IrqInjected`, which assumes more and says so: WHP delivers a
  filled slot and reports an open window (strong, because the guest opens it only now and
  then), the guest does open it again and again, and it does not go on with VRAM reads or
  string OUTs forever. `StuckIters` is 2, in the code 256; the count matters only by being
  reached, and by being reset before.
- `HvFast.cfg`, `HvTick.cfg`, `HvLatch.cfg`, not among the runs of PROJECT.json: what the
  code does not keep; see 11.

**Proofs** (`HvInterruptsProofs`), for every set of workers, PIT threads and lines and
all bounds. The inductive invariant is `TypeOK`, `PicInv`, `CancelBacked` and
`ServiceInv`. `PicInv` adds to `RequestIsFlag` and `RequestStands` what holds while a
worker has the lock (`LockHeld`: the request is out and the bit is the one that worker
will set); `ServiceInv` adds to `AckedNotLost` that `isr` is finite, that a guest at an
EOI exit has a handler to end, so that counting works. `NoneLost`, `RequestFlag`,
`RequestKept`, `MarkBacked` follow.

Not modelled: YODA (the built-in debugger) and its injection gate, nested
`cpu_simulate`, a device that lowers its line before the acknowledge (and so the spurious branch of
`InjectHardwareInterrupt`, `int.c` 269-272), delayed lines
(`UndelayIrqLine`), register marshalling (that is `HvRegisters`), instruction decoders,
and the addresses behind
ports.

## 6. SbDsp

**State.** Two threads. For the CPU thread: `cpu` and `op`, where it is in which command,
and `toQueue`, the bursts of its block still to count. For each DMA thread: `dma`, where
it is, and its locals `rest` (`WaveBlockSize`), `cycle`, `delay` (a `Delay` that is not
INFINITE), `tries` (`iDel`). Between them: the flags of `nt_sbdsp.c` (`active` is
`bDspActive`, `exitDma` `bExitDMAThread`, `resetting` `bDspReset`, and so on), the ring
(`total`, `nextRead`, `nextWrite`, `sizes`), the semaphore `sem`, four auto-reset events,
`DspLock` while it is kept over a call that blocks, `host_ica_lock` while an end of
interrupt runs the EOI hook under it. `irq` counts interrupts the guest has not ended.
`owed` is no variable of the code: a block was handed over and its interrupt is to come.

**Actions.** A guest command each (`SetBlockSize`, `SetTimeConstant`, `PauseDMA`,
`ContinueDMA`, `StopAuto`, `StartBlock`, `Query`, `DspResetWrite`, `Eoi`).
`StartDspDmaThread` is `StartBlock`, `StartThread`, `WaitStarted`, `EnlargeBuffer`,
`SetMode`; `DmaDataToDsp` is `BeginDmaData` and a `QueueBurst` for each burst, because the
DMA thread may run between any two; `AutoInitEoiHook` leads there too. `ResetDSP` is
`ResetDSP` .. `EndReset`, cut where it waits and between the statements whose order
matters. `DspThreadEntry` and `DspProcessBlock` are `BeginThread` .. `Unhook`.

**Abstracted.** Sizes are in bursts of 512 bytes; data, volume, table munge and positions
are left out, `moved` is what of the positions decides about a late interrupt. A device
may fail to open; a format is always found; `GenerateHdrs` does not fail and does not
round to pages, so a ring is enlarged earlier here than in the code. Every run starts
after the guest's first reset. The guest is "polite" unless it does `early`: it starts a
block when none is under way, an auto-init one outside its interrupt handler. External:
the PIC has one interrupt in service and one requested.

**Who heals.** A lost end of interrupt is made good by `ica_unwedge_stuck`, which holds
`host_ica_lock` over the EOI hook. In the HAXM and Hyper-V builds the CPU thread calls it
after an exit (`Eoi`, "heal"). In a CCPU build the heartbeat thread does (`nt_timer.c`,
`picunwedge.patch` 113-143), beside whatever the guest is doing. `SbBeat` adds that thread
to `SbDsp`: `BeatEoi` takes the lock and the interrupt, `BeatHook`, `BeatDmaData` and
`BeatBurst` are the hook, cut like the CPU thread's. A guest is healed after 30 ms at one CS,
so it is most likely spinning; `Calm` says that it is outside the DSP's commands then and
spins on while the hook is at work. Nothing in the code makes it: without `Calm` see 11.

**Preempted.** The DMA thread runs with the highest priority of its process, and the
system lets it finish its last statements once `bDspActive` is 0, unless something else
takes the processor. `Preempted = FALSE` is that schedule; `SbWindow.cfg` has the other.

**Read from the code, worth knowing.** The wait inside `DspProcessBlock` has no timeout
and no reset ends it: it relies on the CPU thread having counted, or still counting, each
burst (`NeverStarved`). `DSP_HI_WRITE_SINGLE` starts an auto-init transfer.
`SbGetDMAPosition` looks at `SbAnswerDMAPosition`, then spins on `bWriteBurstStarted`
without a lock; an interrupt between the two leaves the CPU thread in the spin forever.
`QueriesHaveBlock` is what still holds, and is why the two passing runs do not check for
deadlock. `Unhook` after `ThreadFinished` could remove a hook registered by the
next start; with `Preempted = FALSE` it does not.

**Runs.**
- `sb_dsp`: two DMA threads (an old and a new one, with symmetry), blocks of one burst
  and of three in a ring of three, so that a block is the shortest, wraps, and outgrows the
  ring (which becomes four); `SemMax = 4` is enough for the longest block, as 100 is for
  those up to 50 KB; `Retries = 2` puts an interrupt off once, the code up to ten times,
  without another effect. `LongBlock` is the long one. All commands but `early`, high
  speed and `heal`. `OneDma`, `InStep`, `NeverStarved`, `ResetIsComplete`,
  `InterruptOwed`.
- `sb_dsp_live`: `SbBeat` with `Calm`, one thread identity, `heal` on the CPU thread and
  on the heartbeat, without halts, masked channels and `keepRate` (see 11); 895,822 states.
  `AutoAlive`, `QueriesHaveBlock`, and under `FairBeatSpec` `ResetReturns` and `BlockEnds`.
  Fairness is weak, for the CPU thread's own steps, for the DMA thread and for the heartbeat
  inside the hook: the system runs them all. The guest owes nothing, neither a command nor an
  end of interrupt. The self-heal takes the locks in the other order; `BlockEnds` says that
  the two orders never meet for a guest that is polite and, in a CCPU build, calm.
- `SbBeat.cfg`, not among the runs of PROJECT.json: a polite guest that is not calm.
  `BeatReturns` is violated, see 11.
- `SbContinue.cfg`, `SbHighSpeed.cfg`, `SbSem.cfg`, `SbHeal.cfg`, `SbRestart.cfg` and
  `SbWindow.cfg`, not among the runs of PROJECT.json: see 11.

**Proofs** (`SbDspProofs`), for any number of threads and all sizes. `TypeCorrect` needs
`Counting`: the loops that count down do so from at least one. `OneThread` (`OneDma`),
under `~Preempted`, for every guest, high speed, `early` and `heal` included. It is not
inductive: a second thread is prevented by a flag that two threads write. `ThreadInv`
says that a thread has `bDspActive` set until its last statements, that it leaves its loop
only when told to, that it is told only inside a reset, that `ThreadFinished` is never
left from an earlier reset, and that at `Renew` there is no thread. `ResetCompletes`
(`ResetIsComplete`), under `~Preempted` and for guests without high-speed mode: both
assumptions are needed: `SbWindow.cfg` and `SbHighSpeed.cfg` are what happens without.
`QueryForBlock` (`QueriesHaveBlock`) only needs a guest that masks no channel: whoever hands
a block over, or takes it back, sets `answer` with it.

The ring is proved under `~Preempted` for guests that are `Polite` (no `early`, no
high-speed mode) and blocks that are `Countable` (`Longest <= SemMax`, the semaphore counts
the longest block; `SbSem.cfg` is one it does not). `RingInv` (`RingLife`) has what TLC's
runs show only for one ring of three:
- `CommandInv` and `BusyInv`: where the CPU thread is when a block is under way, that none
  is when it hands one over, and that a thread is there to take it;
- `HookInv` and `DelayInv`: while a block is under way no interrupt is left whose end would
  hand over a second one, and an interrupt is put off only after a block's last burst;
- `BlockInv`: the bursts still to count, counted and already taken add up to the block
  (`Sums`), and reader and writer are that far apart modulo the ring (`InPlace`), which
  survives a change of the ring because the ring is changed only when it is empty;
- `SupplyInv`: while the thread waits inside a block, what is counted or will be is what it
  still needs.

The step lemmas for the ring rest on four about division (`Quotient`, `Remainder`,
`WholeRing`, `ModShift`). `ReaderInStep` (`InStep`), `Unstarved` (`NeverStarved`) and
`OneInterrupt` (`InterruptOwed`) follow. `AutoGoesOn` (`AutoAlive`) also assumes `Steady`:
the guest does not halt, mask the channel or restart at the rate it had;
`SbContinue.cfg` and `SbRestart.cfg` are what happens otherwise.

`ResetReturns` and `BlockEnds` stay with TLC, but that nothing they wait for is a deadlock is
safety. `NoWaitForever`: at each of the CPU thread's waits without a timeout (for
`ThreadStarted`, `DspResetDone`, `ThreadFinished`) the event is set or a DMA thread has a
step to take. `NoBlockStuck`: while a block is under way its thread has a step, and the CPU
thread waits for `DspLock` only while the owner, about to raise the interrupt, can get
`host_ica_lock`: while a block is under way, a polite guest has no interrupt left whose end
runs the EOI hook (`HookInv`), so the CPU thread's self-heal does not get there while the
thread raises its interrupt. This is about builds whose CPU thread heals.

For a CCPU build, `HealRefines` proves `HealIsDsp`: `SbBeat` with `Calm` implements `SbDsp`
whose commands include `heal`, the heartbeat's place in the hook standing for the CPU
thread's. What is proved of `SbDsp` therefore holds there for calm guests. For all others two
properties remain: `OneThreadBesideHeal` (`OneDma`, under `~Preempted`) and `QueryBesideHeal`
(`QueriesHaveBlock`, without masked channels). The
rest does not hold without `Calm`: TLC violates `InStep`, `NeverStarved`, `InterruptOwed`,
`ResetIsComplete`, `ResetReturns` and `BlockEnds`.

Not modelled: blocks of 16 bytes or less, which raise their interrupt by a timer and
never meet the thread, recording, volume, the identification reads, closed semaphore
handles, `InitDevices` and `TerminateVDD`.

## 7. HvRegisters

**State.** What a register holds is left out. `fresh` tells for each kind of register which
of its two copies, `state` or the VCPU's, were written last: a copy in one direction makes
the other side as good as this one, so copying an older value over the newest loses it and
leaves `fresh` without that side for good, until somebody writes again. Registers are
together what is moved and read together (`Regs`): those of the five groups, the trap flag
apart from the other flags, the segments that `pull_vram` fetches apart from the others, the
interrupt shadow. `dirty`, `vramOnly`, `ioFast`, `nano` and `retf` are `g_dirty_mask`,
`g_vram_only_gprs_dirty`, `io_fast_prev`, `NANO_ENABLED` and `g_retf_on_next_exit`.

**Actions.** `Prepare` and `Continue` are the two ways to the top of the loop; `FastIo` is
`hyperv_io_fastpath`, `FetchAll` the fetch after every other exit, and one action per exit
follows, each with the groups its handler fetches again and marks. In `hooks` a handler runs
code of NTVDM or YODA: `SetRegister` with and without a mark, `StartTracing`, and
`Simulate`, a nested `cpu_simulate`. External: WHP and the guest (`Run`), which may write
any registers.

**Assumed.** Video memory is trapped only while CR0 is as last fetched
(`PlanarIsRealMode`), because planar modes are those of real-mode programs; port handlers do
not write registers (`~PortsTouchRegisters`). With either dropped a property fails, see 11.
A nested `cpu_simulate` ends at HLT or a BOP and on the same thread. R8 to R15, the exits
that end in `haxmvm_panic`, and `getIntelRegistersPointer` are left out.
`hyperv_emulate_vram_access` always returns TRUE, so the code after its failure is not
reached.

**Read from the code, worth knowing.** After an emulated instruction the shadow that was
fetched with the exit is pushed again, which delays an interrupt by one instruction; that is
harmless, and why `GuestCurrent` asks for the shadow only while the guest is in one.
`NANO_ENABLED` is never cleared, `HOOK_INTS` nowhere defined.

**Run.** `hv_registers`: one nested call (`MaxNested = 1`), which has the states of a
handler above and of a loop below another; more only repeats them, and the proof is for
every depth. No fairness: the properties are safety. Deadlock is not checked: the
outermost `cpu_simulate` returns.

**Proofs** (`HvRegistersProofs`), for every depth, from the two assumptions.
`GuestRunsCurrent` and `HandlersReadCurrent`. Neither is inductive. `Top` says which copy is
newest at the top of the loop by the way the last exit was answered: `state` after an
ordinary exit, the VCPU after a fast port access, and after a VRAM exit the VCPU but for the
general registers. `Marked` says what has been marked since the last flush, on which it
depends that the partial flush is enough.

## 8. LfnHandles

**State.** `word` and `pdb` are the entries of `gSearchHandleTable` (the first word is the
find handle of an entry in use, the next unused index in an unused one), `nEntries`,
`nAllocated`, `lNextFree` its header; `open` the finds open in Win32; `alive` and `current`
the programs; `reply` what the last call told. `pc` and the locals are those of the two
loops, `dempLFNFreeHandleEntry` and `dempLFNCloseSearchHandles`, which run an iteration at a
time.

**Actions.** `FindFirst`, `FindFirstLabel`, `FindNext`, `FindClose` are the services and,
with `WowAllocateSearchHandle`, what WOW32 calls; `Allocate` has the three ways to an
entry; `FreeHandleEntry`, `Shrink`, `Walk`, `Link` put one away; `Abort` and
`CloseSearchHandle` are the end of a program. External: DOS and WOW32, which start, switch
and end programs (`Exec`, `Switch`, `Exit`). A service runs to its end before the next one
starts: all of them are BOPs of the one thread that runs the CPU.

**Abstract specification.** `LfnSearch`: a handle stands for one search of one program from
open to close, whoever calls in between, and a program's searches end with it. `Searches`
is the refinement mapping; the walk and the shrinking are stutters.

**Read from the code, worth knowing.** The search for a volume label returns a handle that
nothing has written (`Garbage`); a program that passes it on gets another search of its own,
or an error. The memory of the table is never given back.

**Run.** `lfn_handles`: two programs, one of them the shell; four finds; memory for two
entries that grows by one up to three, the most below a `Limit` of 4. So the table is
allocated, extended within its memory, extended beyond, and full. Three entries are the
fewest for which the list has a first, an inner and a last link. One find more than entries
meets the full table. Fairness: weak for `Step`, as a service goes on until it returns.

**Proofs** (`LfnHandlesProofs`), for all programs, finds and sizes. The inductive invariant
adds to `FreeListSound` and `OneFindEach` where the walk stands (`Walking`: between two
unused entries, `entry` below), that the last entry is in use but in `shrink` (`Tight`), and
how far the end of a program has come (`Ending`). `ListSound`, `OneFind`, and, no longer
among the run's properties because they are proved, `Tightness` and `NoneOutlives`.
`Implements`, from `HandleUnit = 1`. `ServicesReturn` is liveness, but what it rests on is
proved: every step of a service lowers the pair of the entries it has yet to look at and the
steps its loop has left (`ServicesDescend`), and a service that has not returned has a next
step (`ServicesGoOn`).

Not modelled: names, attributes, times, SUBST and the file services, which pass a call on to
Win32; the failing `RtlReAllocateHeap` is the full table's `Fail`.

## 9. SymCache

**State.** `file` is the version of each module's file, `time` and `address` what the
registry has at each place: the file whose write time is stored, and for each offset the file
it is of. `fUpdated` is the static of `UpdateSymbolCache` in each process. Per thread: `pc`
and the locals of `UpdateSymsForModule`, and `used`, the offsets added to the module's base.
`fetched` and `missed` are no variables of the code: the version whose symbols were last
stored completely, and the symbols each process has last looked for in vain.

**Actions.** Each access to the registry is a step. `UpdateSymbolCache`,
`RebuildSymbolCache` and `Peek` are the three callers; `QueryTime`, `CheckKey`, `Load`,
`LoadExports`, `LoadFails`, `SetKey`, `MatchKey`, `StoreTime` are `UpdateSymsForModule`; `Read` is
`SymCache_GetProcAddress`. External: processes end or are ended at any point (`Exit`,
`Kill`), an update exchanges a file while it restarts the system (`WindowsUpdate`: a loaded
system DLL cannot be replaced), symbols appear on the server (`Publish`). Which symbols a PDB
or a pattern search lacks are the constants `PdbLacks` and `SigLacks`. A load can succeed
without a PDB: `SymLoadModule64` makes do with the exports (`symeng.c` 257-263), none of the
keys is found, and `UpdateSymsForModule` returns TRUE without storing a time
(`LoadExports`). A registry key that cannot be opened, and a pattern search that cannot read
the file, return before anything is changed and are left out.

**Run.** `sym_cache`: two processes with a thread each, so that an update meets another and
a reader; kernel32 with two offsets (one that a newer PDB lacks, so a time is left unstored
with an offset missing) and appinfo with one, which is searched for a pattern; two versions,
one update, one kill. A second kill or update starts from a state of the cache that the
first has already produced. The processes are interchangeable, with their threads (`MCSymmetry`;
3,582,356 states). `SymCacheLive.cfg`, which PROJECT.json does not list, checks
`WorksAgain` with one process and two updates under `FairSpec`: weak for a thread's own
steps; strong for `UpdateSymbolCache`, since whoever wants to start a program tries again;
strong for the `Load` of each module but `appinfo.dll`, as the server can be reached now and
then. For `appinfo.dll` the `goto` of `symcache.c` 94 skips `SymEng_UnloadModule`, so a
process that was answered once with exports may keep that answer; the pattern has to do.

**Proofs** (`SymCacheProofs`), for any number of processes, modules, symbols, kills and
updates, if each module has a place of its own (`Apart`) and no update is uninstalled
(`~Rollback`); with either dropped `FreshIsRight` or `NotFetchedAgain` fails, see 11.
`FreshIsRight` is not inductive: the time may be stored because every offset before `i` has
been found to be right (`SoFarRight`), it is the time of the file in use (`TimeOfImage`),
and one already stored is of no newer file (`TimeOfOld`). `Freshness`, `FetchedOnce`.

`ResolvedIsRight` has an exception, which is the code's: when what could be loaded for a
newer file, its PDB or only its exports, lacks a symbol, `UpdateSymsForModule` returns TRUE
all the same and the old offset stands (`NeverStale`, the property without the exception, is
violated with `SymExports.cfg`). The exception is narrow: the symbol must be one that this
process itself looked for in vain, and has not found since. With that
exception it is a theorem, `Resolution`, under the two assumptions above, for module lists
that cover the modules (`Covered`) and processes in which one thread starts programs
(`Lone`; `SymThreads.cfg` has two). The argument follows a process through its modules: once
its update is over, each module it went through has offsets of the file in use, or ones that
this process has looked for in vain, and no other process can make one older.

## 10. VdmCreate

**State.** Per creator: `pc`, the `flags`, `image`, `binary`, `task`, `creation`
(`dwCreationFlags`, `lpApplicationName`, `VdmBinaryType`, `VdmTask`, `VDMCreationState`),
what it has `open`, its `process`, `result`, and what the caller got (`ret`, `given`).
Shared: `record`, CSRSS's record at each place, and `serving`, the places where a VDM runs.
A place is a console, the shared Windows VDM, or a task number.

**Actions.** The function from top to bottom: `OpenImage`, `CreateSection` with its
branches by kind of image, `CheckWow`, `CheckDos`, `CheckDetached` with the answers
`NotPresent`, `Ready`, `NotReady`, the second round with ntvdm.exe, `CreateProcess`,
`UpdateVDMEntry`, `CreateThread`, `AcceptFails`, `Resume`, `ShortCircuit`, `Quickie`,
`Undo`; each step that can fail has its failure. `windows` chooses between XP x64, where the
loader is all of CreateProcess, and the later versions, where only the branch for DOS
programs is its own and the rest is the system's. External: CSRSS, from the messages, and
the VDM (`VdmTakes`, `VdmDone`, `VdmExits`).

**Abstract specification.** `VdmLaunch`: at a place at most one launch is under way, and it
ends with a VDM that serves the place or with the place free; a call's outcome does not
change after that.

**Assumed.** CSRSS frees a record only by an undo or with its VDM; it gives no task number
away that a creator still holds. Creators are not ended midway, nobody passes
`CREATE_SUSPENDED`. `BaseCheckVDMp`'s status of an earlier round, hot keys and reserved
start-up data are left out.

**Runs.**
- `vdm_create`: two creators on one console, one task number, XP and the later versions,
  every step failing: a batch file, a Windows program forced into a DOS VDM, DOS and 16-bit
  Windows programs, and a detached one where the code takes its record back. Two creators
  are the one that starts a VDM and the one that meets it while it is being loaded; one
  task number suffices because a VDM with a number of its own meets nobody. Fairness: weak
  for a creator's next step. Neither a caller nor a VDM owes anything.
- `vdm_detached` (violation): see 11.

**Proofs** (`VdmCreateProofs`), for any number of creators, consoles, numbers and failing
steps. They assume `NoBareReturn` (no detached DOS program on XP), `DosNotForced`
(`CREATE_FORCEDOS` comes with Windows programs and batch files), and, for how calls end,
`FailuresShow` (on XP NtCreateProcessEx does not fail); each is what one of the violations
shows to be needed. `NoOrphan` is not inductive: that a creator which gives its record up
leaves none depends on its flags telling the truth in every round (`Local`), and on the
creators' records being their own (`Shared`). `NoneOrphaned`, `Exclusion`, `NoneForgotten`,
`NothingIsLeft`, `SuccessHolds`, and `Implements`, the refinement.

## 11. Findings

With a run of PROJECT.json:

- `xpcreateproc.c` 1913: a detached DOS program that finds no VDM is refused with a bare
  `return FALSE`, though the comment in 1905 promises a partial undo. CSRSS keeps the
  record, and every later DOS program on that console gets "not ready" (`vdm_detached`).

Each of the following has a .cfg that PROJECT.json does not list; TLC finds the
counterexample with it. Where a doc or comment says otherwise it is named.

Monitors:
- `monitor.c` 2814 (Hyper-V): an interrupt raised by the port access of a fast-path exit
  cancels nothing and is not looked at before the next exit (`HvFast.cfg`,
  `RacedIrqCancels`).
- `int.c` 165 (Hyper-V): the cancel is made before the bit is set, so a run can begin with
  the bit set and nobody to cancel it; the next heartbeat does (`HvTick.cfg`,
  `TickNoticed`).
- `monitor.c` 2893 (Hyper-V): the deferral that protects the VGA latch is used up by any
  exit between the read and its write (`HvLatch.cfg`, `LatchProtected`).
- `monitor.c` 3050-3062 (Hyper-V): the trap flag that YODA re-arms in `state` is overwritten
  by the handler's own fetch (3110, 3133, 3230, 3296, `pull_vram`), which the comment in
  3022-3024 takes for a no-op (`HvTrace.cfg`, `TraceResumes`).
- `monitor.c` 2697-2773 (Hyper-V): the fast path goes back to the guest without a flush, so
  a register that a port handler set (`EventVdmIo`) is lost; the comment in 2926-2929
  relies on marks (`HvPorts.cfg`, `GuestCurrent`).
- `monitor.c` 366 (Hyper-V): `pull_vram` fetches no CR0, by the comment in 355-357 because
  the decoder does not need it; its operand size does. A guest that changes CR0 with planar
  video memory mapped is decoded with the old one (`HvPlanar.cfg`, `HandlersCurrent`).

WOW32:
- `wtask.c` 139: a task after the 64th others is never signalled; the comment in 83-85
  says every handle created is remembered (`SysLevelCap.cfg`, `NoOrphanedEvent`).

Sound Blaster:
- `nt_sbdsp.c` 529: after a halt over an end of interrupt, "continue halted dma" sends
  nothing; the transfer stays halted (`SbContinue.cfg`, `AutoAlive`).
- `nt_sbdsp.c` 290: a reset of high-speed mode leaves burst counts and `DspResetEvent`
  behind; the next reset can wait forever (`SbHighSpeed.cfg`, `ResetReturns`).
- `nt_sbdsp.c` 831: a block of more than 100 bursts can overrun `DspWaveSem`; the lost
  bursts are waited for forever (`SbSem.cfg`, `ResetReturns`).
- `picunwedge.patch` 101: the self-heal takes `host_ica_lock`, then `DspLock`; the DMA
  thread takes them in the other order (`SbHeal.cfg`, `HealEnds`). They meet only if the
  guest starts a block while one is under way; for all others `NoBlockStuck` excludes it,
  where the CPU thread makes the heal.
- `picunwedge.patch` 134 (CCPU): the heartbeat holds `host_ica_lock` over the heal, since "the
  recursive critsect makes re-entry cheap". Its EOI hook waits for `DspLock`, and a DMA
  thread that has it waits for `host_ica_lock` to raise its interrupt: a polite guest is
  enough, if it hands over a block while the heal of an earlier interrupt begins
  (`SbBeat.cfg`, `BeatReturns`).
- `nt_sbdsp.c` 1449: the EOI hook is registered only with a new format or device;
  auto-init mode started again at the same rate plays one block (`SbRestart.cfg`,
  `AutoAlive`).
- `nt_sbdsp.c` 1466: a reset between `bDspActive = 0` and the signal of `ThreadFinished`
  does not wait, and the late signal misleads the next one (`SbWindow.cfg`, `StopWaits`).
- Without a .cfg: `DSP_STOP_AUTO` outside auto-init mode leaves `bExitAuto` set for the next
  auto-init mode (936); a block that a masked channel keeps from being sent still makes
  queries answered (796); the EOI hook is removed after `ThreadFinished` (1346);
  `GenerateHdrs` may fail and leave `DspBuffer` NULL with the old sizes (1437).
- Read only, `nt_sbmid.c` 371: `SendMidiRequest` advances `NextCopyPosition` in the loop's
  body and computes the next `i` from it, so `i` is a record ahead. With one short message
  waiting the walk steps over `LastCommand` and goes round the whole ring; with three it
  skips one and repeats one. The newest complete message waits for the next one, nothing
  tells a full ring from an empty one, and a realtime byte inside a message moves that
  message by 13 bytes and `LastCommand` by 8.

Long file names:
- `demlfn.c` 867: the difference of an `HTBLENTRY*` and a `PBYTE`. A compiler that takes it
  for one of entries gives several searches the same handle (`LfnStride.cfg`,
  `KeepsPromise`).

Loader:
- `reg.c` 90: `REG_OpenLDNTVDMWOW64` falls back to the 64-bit key of the user, so two
  kernel32.dll of a user without rights share a place and undo each other's entries;
  readme.txt 212-214 has symbols fetched once (`SymShared.cfg`, `NotFetchedAgain`).
- `symcache.c`: offsets of an update that was cut off and a time of before pass for fresh
  once the update is uninstalled (`SymRollback.cfg`, `FreshIsRight`).
- `symcache.c` 202: `fUpdated` is TRUE while the first thread still updates; a second one
  of the same process reads what there is (`SymThreads.cfg`, `ResolvedIsRight`).
- `symcache.c` 78-112: a load that got only exports returns TRUE with the offsets of an older
  file, and so does one whose PDB lacks a symbol (`SymExports.cfg`, `NeverStale`).
- Read only, `symcache.c` 94: the `goto` to the pattern search of `appinfo.dll` skips
  `SymEng_UnloadModule`.
- `xpcreateproc.c` 2454: the status of a failed NtCreateProcessEx is overwritten; a call can
  return TRUE with nothing (`VdmNoProcess.cfg`, `SuccessIsReal`).
- `xpcreateproc.c` 1547: a DOS program started with `CREATE_FORCEDOS` keeps the flag in the
  second round; if the shared Windows VDM is there by then, ntvdm.exe itself is taken for a
  Windows program to be put into a separate VDM, and the first record is left
  (`VdmForced.cfg`, `NoOrphan`).

## 12. Model-checked only, and not modelled

Model-checked only. Liveness under fairness is out of the prover's reach. What is proved of
each such property is its safety part, where there is one that is not obvious:

| liveness, checked by TLC | proved |
|---|---|
| `ParkedTaskResumes` | `NoneOrphaned`: the event has somebody who will set it |
| `TickServed`, `IrqInjected` (HAXM) | `GuestIsAlerted`, `MarkIsBacked`: no run goes on unaware |
| `TickServed`, `IrqInjected` (Hyper-V) | `NoneLost`, `RequestFlag`, `RequestKept`, `MarkBacked` |
| `ResetReturns` | `NoWaitForever`, `Unstarved`: no wait is a deadlock |
| `BlockEnds` | `NoBlockStuck`, `OneInterrupt`; for the heartbeat's heal `HealRefines` |
| `ServicesReturn` | `ServicesDescend`, `ServicesGoOn`: all but fairness |
| `LoadingEnds` | `NoneOrphaned` of `VdmCreateProofs` |
| `WorksAgain` | nothing: it is about a server that comes back |

Every invariant and action property that a passing run checks is also a theorem; the
assumptions of each are named with it and violated by the .cfg files of 11.
`CountersConsistent`, `KickBehindMark`, `RequestStands`, `TableIsTight`,
`SearchesOfTheLiving`, `OneStarter` and most type invariants are theorems that no run
repeats.

Not modelled:

- The monitors' thread list. Its only caller in the repository is the start of the monitor;
  which threads meet in it is decided by sources that are not here.
- The MIDI ring, for the reason in 11: what a ring promises does not hold of this walk even
  with one caller. The FM queue and the mixer are register files written by one thread.
- Code without a protocol: the RPC stubs of the redirector (generated), the C video code
  (generated), the CCPU's server layer, VESA and AdLib emulation (arithmetic on registers and
  samples, written and read by one thread), the memory interface of the monitors, debugger
  extensions, the fake wife, PIF tools. They are most of the lines of the repository,
  which is why the models, though they have the protocols, map a small share of
  them.
- Branches that change nothing the models keep: a find whose entry cannot be converted
  (`demlfn.c` 1065-1083), a registry key that cannot be opened (`symcache.c` 200-221).
- Patches to sources that are not here, but for the calls into `wsyslevel.c`, the PIC and
  the places named above.

## 13. Running

    tlc -config SysLevel.cfg MCSysLevel
    tlc -config VdmCreate.cfg MCVdmCreate
    tlapm SysLevelProofs.tla

A .cfg goes with the MC module of its component, or with the component's module where there
is none. Every run of PROJECT.json names both. The longest run takes about two minutes with two
workers. The definitions marked "Variant" are the code with a plausible mistake in it; each
shows that a property can fail.
