------------------------------- MODULE SbBeat -------------------------------
(***************************************************************************)
(* SbDsp with the heartbeat thread (nt_timer.c), which in a CCPU build     *)
(* calls ica_unwedge_stuck: the EOI hook then runs on a thread of its own, *)
(* with host_ica_lock held throughout.                                     *)
(*                                                                         *)
(* A guest that is healed has been spinning at one CS for 30 ms.  Calm     *)
(* says that it spins on: it is in no command of the DSP when the hook     *)
(* begins and gives none while the hook is at work.  Nothing in the code   *)
(* makes it wait; without Calm the hook runs beside its commands and       *)
(* resets.                                                                 *)
(***************************************************************************)
EXTENDS SbDsp

CONSTANT Calm

ASSUME CalmAssumption == Calm \in BOOLEAN

VARIABLES
  beat,      \* where the heartbeat thread is; "idle": outside ica_unwedge_stuck
  beatQueue  \* bursts of its block still to release

beatVars == <<beat, beatQueue>>

BeatInit == Init /\ beat = "idle" /\ beatQueue = 0

-----------------------------------------------------------------------------
(* The heal of the sound line and its hook.                                *)

BeatEoi ==
  /\ beat = "idle" /\ irq > 0 /\ ~icaLock
  /\ Calm => cpu = "guest"
  /\ irq' = irq - 1
  /\ IF hooked THEN beat' = "hook" /\ icaLock' = TRUE ELSE UNCHANGED <<beat, icaLock>>
  /\ UNCHANGED <<beatQueue, cpuVars, flagVars, waveVars, ringVars, eventVars, dspLock, hooked,
                 owed, dmaVars>>

Return == beat' = "idle" /\ icaLock' = FALSE

BeatHook ==
  /\ beat = "hook"
  /\ SetWaveFormat
  /\ waveOut' \in IF newRate THEN {waveOut, TRUE, FALSE} ELSE {waveOut}
  /\ IF paused THEN Return ELSE beat' = "dma" /\ UNCHANGED icaLock
  /\ UNCHANGED <<beatQueue, cpuVars, flagVars, answer, moved, paused, blockSize, ringVars,
                 eventVars, dspLock, irqVars, dmaVars>>

\* DmaDataToDsp, up to its loop: nothing in auto-init mode during a reset, else what
\* BeginDmaData does.
BeatDmaData ==
  /\ beat = "dma"
  /\ IF mode = "auto" /\ resetting
     THEN Return /\ UNCHANGED <<answer, sizes, owed, beatQueue>>
     ELSE /\ dspLock = NoThread
          /\ answer' \in IF blockSize = 1 THEN {answer, TRUE} ELSE {TRUE}
          /\ \E sends \in {TRUE, "masked" \notin Commands} :
               IF sends
               THEN /\ sizes' = [sizes EXCEPT ![nextWrite] = blockSize]
                    /\ beatQueue' = blockSize
                    /\ owed' = TRUE
                    /\ beat' = "queue" /\ UNCHANGED icaLock
               ELSE Return /\ UNCHANGED <<sizes, owed, beatQueue>>
  /\ UNCHANGED <<cpuVars, flagVars, moved, waveOut, newRate, paused, blockSize, total,
                 nextRead, nextWrite, sem, eventVars, dspLock, hooked, irq, dmaVars>>

BeatBurst ==
  /\ beat = "queue"
  /\ nextWrite' = Advance(nextWrite)
  /\ ReleaseSemaphore
  /\ beatQueue' = beatQueue - 1
  /\ IF beatQueue = 1 THEN Return ELSE UNCHANGED <<beat, icaLock>>
  /\ UNCHANGED <<cpuVars, flagVars, waveVars, total, nextRead, sizes, eventVars, dspLock,
                 irqVars, dmaVars>>

InHook == BeatHook \/ BeatDmaData \/ BeatBurst

-----------------------------------------------------------------------------
DspStep ==
  \/ (Calm => beat = "idle") /\ GuestStep
  \/ CpuStep
  \/ \E t \in DmaThreads : DmaStep(t)

BeatNext == (DspStep /\ UNCHANGED beatVars) \/ BeatEoi \/ InHook

allVars == <<vars, beatVars>>

BeatSpec == BeatInit /\ [][BeatNext]_allVars

\* As FairSpec, and the heartbeat thread goes on; a line need not be healed.
FairBeatSpec ==
  /\ BeatSpec
  /\ WF_allVars(CpuStep /\ UNCHANGED beatVars)
  /\ \A t \in DmaThreads : WF_allVars(DmaStep(t) /\ UNCHANGED beatVars)
  /\ WF_allVars(InHook)

\* ica_unwedge_stuck returns to the heartbeat, which holds host_ica_lock: "the recursive
\* critsect makes re-entry cheap" (picunwedge.patch).
BeatReturns == beat # "idle" ~> beat = "idle"

\* To a calm guest the heartbeat's heal is the CPU thread's.
CpuHeals == INSTANCE SbDsp WITH
  cpu <- IF beat = "idle" THEN cpu ELSE beat,
  op <- IF beat = "idle" THEN op ELSE "heal",
  toQueue <- IF beat = "idle" THEN toQueue ELSE beatQueue,
  Commands <- Commands \cup {"heal"}

\* SbDsp, with a CPU thread that heals, is what a calm guest of a CCPU build sees.
HealIsDsp == CpuHeals!Spec
=============================================================================
