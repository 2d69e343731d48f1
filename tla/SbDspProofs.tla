---------------------------- MODULE SbDspProofs ----------------------------
(***************************************************************************)
(* Proofs about SbDsp: its types, and, as long as the DMA thread is not    *)
(* disturbed in its last statements, that there is one DMA thread, that a  *)
(* reset leaves nothing behind and what the ring, the hook and the waits   *)
(* do.  The last sections are about SbBeat, the self-heal of a CCPU build. *)
(***************************************************************************)
EXTENDS SbBeat, TLAPS

\* What the counters need to stay natural numbers.
Counting ==
  /\ cpu = "queue" => toQueue > 0
  /\ \A t \in DmaThreads : dma[t] \in {"write", "inner"} => rest[t] > 0

TypeInv == TypeOK /\ Counting

LEMMA AdvanceInRing ==
  ASSUME NEW n \in Nat, n > 1, NEW i \in 0 .. n - 1
  PROVE  (i + 1) % n \in 0 .. n - 1
  OBVIOUS

LEMMA TypeInit == Init => TypeInv
<1> SUFFICES ASSUME Init PROVE TypeInv
  OBVIOUS
<1> USE SbAssumption DEF Init
<1>1. TypeCpu BY DEF TypeCpu, Places
<1>2. TypeFlags BY DEF TypeFlags
<1>3. TypeWave BY DEF TypeWave
<1>4. TypeRing BY DEF TypeRing, NoSizes, Indices
<1>5. TypeSync
  <2>1. hooked \in BOOLEAN OBVIOUS
  <2>2. owed \in BOOLEAN /\ icaLock \in BOOLEAN OBVIOUS
  <2>3. irq \in 0 .. 2 OBVIOUS
  <2>4. threadStarted \in BOOLEAN /\ threadFinished \in BOOLEAN OBVIOUS
  <2>5. resetEvent \in BOOLEAN /\ resetDone \in BOOLEAN OBVIOUS
  <2>6. dspLock \in DmaThreads \cup {NoThread} OBVIOUS
  <2> QED BY <2>1, <2>2, <2>3, <2>4, <2>5, <2>6 DEF TypeSync
<1>6. TypeDma BY DEF TypeDma, ThreadPlaces
<1>7. Counting BY DEF Counting
<1> QED BY <1>1, <1>2, <1>3, <1>4, <1>5, <1>6, <1>7 DEF TypeInv, TypeOK

LEMMA TypeGuest ==
  ASSUME TypeInv, GuestStep
  PROVE  TypeInv'
<1> USE SbAssumption DEF TypeInv, TypeOK, TypeCpu, TypeFlags, TypeWave, TypeRing, TypeSync,
        TypeDma, Counting, Places, ThreadPlaces, Starts, Does, cpuVars, flagVars, waveVars,
        ringVars, eventVars, lockVars, irqVars, dmaVars
<1>1. CASE SetBlockSize
  <2>1. TypeCpu' /\ TypeFlags' /\ Counting' BY <1>1 DEF SetBlockSize
  <2>2. TypeWave' /\ TypeRing' BY <1>1 DEF SetBlockSize
  <2>3. TypeSync' /\ TypeDma' BY <1>1 DEF SetBlockSize
  <2> QED BY <2>1, <2>2, <2>3
<1>2. CASE SetTimeConstant
  <2>1. TypeCpu' /\ TypeFlags' /\ Counting' BY <1>2 DEF SetTimeConstant
  <2>2. TypeWave' /\ TypeRing' BY <1>2 DEF SetTimeConstant
  <2>3. TypeSync' /\ TypeDma' BY <1>2 DEF SetTimeConstant
  <2> QED BY <2>1, <2>2, <2>3
<1>3. CASE PauseDMA
  <2>1. TypeCpu' /\ TypeFlags' /\ Counting' BY <1>3 DEF PauseDMA
  <2>2. TypeWave' /\ TypeRing' BY <1>3 DEF PauseDMA
  <2>3. TypeSync' /\ TypeDma' BY <1>3 DEF PauseDMA
  <2> QED BY <2>1, <2>2, <2>3
<1>4. CASE ContinueDMA
  <2>1. TypeCpu' /\ TypeFlags' /\ Counting' BY <1>4 DEF ContinueDMA
  <2>2. TypeWave' /\ TypeRing' BY <1>4 DEF ContinueDMA
  <2>3. TypeSync' /\ TypeDma' BY <1>4 DEF ContinueDMA
  <2> QED BY <2>1, <2>2, <2>3
<1>5. CASE StopAuto
  <2>1. TypeCpu' /\ TypeFlags' /\ Counting' BY <1>5 DEF StopAuto
  <2>2. TypeWave' /\ TypeRing' BY <1>5 DEF StopAuto
  <2>3. TypeSync' /\ TypeDma' BY <1>5 DEF StopAuto
  <2> QED BY <2>1, <2>2, <2>3
<1>6. ASSUME NEW o \in Starts, StartBlock(o) PROVE TypeInv'
  <2>1. TypeCpu' /\ TypeFlags' /\ Counting' BY <1>6 DEF StartBlock
  <2>2. TypeWave' /\ TypeRing' BY <1>6 DEF StartBlock
  <2>3. TypeSync' /\ TypeDma' BY <1>6 DEF StartBlock
  <2> QED BY <2>1, <2>2, <2>3
<1>7. ASSUME NEW o \in {"eoi", "heal"}, Eoi(o) PROVE TypeInv'
  <2>1. TypeCpu' /\ TypeFlags' /\ Counting' BY <1>7 DEF Eoi
  <2>2. TypeWave' /\ TypeRing' BY <1>7 DEF Eoi
  <2>3. icaLock' \in BOOLEAN BY <1>7, Zenon DEF Eoi
  <2>4. TypeSync' BY <1>7, <2>3 DEF Eoi
  <2>5. TypeDma' BY <1>7 DEF Eoi
  <2> QED BY <2>1, <2>2, <2>4, <2>5
<1>8. CASE Query
  <2>1. TypeCpu' /\ TypeFlags' /\ Counting' BY <1>8 DEF Query
  <2>2. TypeWave' /\ TypeRing' BY <1>8 DEF Query
  <2>3. TypeSync' /\ TypeDma' BY <1>8 DEF Query
  <2> QED BY <2>1, <2>2, <2>3
<1>9. CASE DspResetWrite
  <2>1. TypeCpu' /\ TypeFlags' /\ Counting' BY <1>9 DEF DspResetWrite
  <2>2. TypeWave' /\ TypeRing' BY <1>9 DEF DspResetWrite
  <2>3. TypeSync' /\ TypeDma' BY <1>9 DEF DspResetWrite
  <2> QED BY <2>1, <2>2, <2>3
<1> QED BY <1>1, <1>2, <1>3, <1>4, <1>5, <1>6, <1>7, <1>8, <1>9 DEF GuestStep

LEMMA TypeCpuStep ==
  ASSUME TypeInv, CpuStep
  PROVE  TypeInv'
<1> USE SbAssumption DEF TypeInv, TypeOK, TypeCpu, TypeFlags, TypeWave, TypeRing, TypeSync,
        TypeDma, Counting, Places, ThreadPlaces, Starts, Does, cpuVars, flagVars, waveVars,
        ringVars, eventVars, lockVars, irqVars, dmaVars
<1>1. CASE StartThread
  <2>1. TypeCpu' /\ TypeFlags' /\ Counting' BY <1>1 DEF StartThread, Goto
  <2>2. TypeWave' /\ TypeRing' BY <1>1 DEF StartThread, Goto
  <2>3. TypeSync' /\ TypeDma' BY <1>1 DEF StartThread, Goto
  <2> QED BY <2>1, <2>2, <2>3
<1>2. CASE WaitStarted
  <2>1. TypeCpu' /\ TypeFlags' /\ Counting' BY <1>2 DEF WaitStarted
  <2>2. TypeWave' /\ TypeRing' BY <1>2 DEF WaitStarted
  <2>3. TypeSync' /\ TypeDma' BY <1>2 DEF WaitStarted
  <2> QED BY <2>1, <2>2, <2>3
<1>3. CASE EnlargeBuffer
  <2>1. TypeCpu' /\ TypeFlags' /\ Counting' BY <1>3 DEF EnlargeBuffer, GenerateHdrs, Indices,
       NoSizes
  <2>2. TypeWave' /\ TypeRing' BY <1>3 DEF EnlargeBuffer, GenerateHdrs, Indices, NoSizes
  <2>3. TypeSync' /\ TypeDma' BY <1>3 DEF EnlargeBuffer, GenerateHdrs, Indices, NoSizes
  <2> QED BY <2>1, <2>2, <2>3
<1>4. CASE SetMode
  <2>1. TypeCpu' /\ TypeFlags' /\ Counting' BY <1>4 DEF SetMode, SetWaveFormat, RegisterEOIHook
  <2>2. TypeWave' /\ TypeRing' BY <1>4 DEF SetMode, SetWaveFormat, RegisterEOIHook
  <2>3. TypeSync' /\ TypeDma' BY <1>4 DEF SetMode, SetWaveFormat, RegisterEOIHook
  <2> QED BY <2>1, <2>2, <2>3
<1>5. CASE BeginDmaData
  <2>1. TypeCpu' /\ TypeFlags' /\ Counting' BY <1>5 DEF BeginDmaData
  <2>2. TypeWave' /\ TypeRing' BY <1>5 DEF BeginDmaData
  <2>3. icaLock' \in BOOLEAN BY <1>5, Zenon DEF BeginDmaData, LeaveIcaLock
  <2>4. TypeSync' /\ TypeDma' BY <1>5, <2>3 DEF BeginDmaData
  <2> QED BY <2>1, <2>2, <2>4
<1>6. CASE QueueBurst
  <2>1. TypeCpu' /\ TypeFlags' /\ Counting' BY <1>6 DEF QueueBurst, Advance, ReleaseSemaphore
  <2>2. TypeWave' /\ TypeRing' BY <1>6 DEF QueueBurst, Advance, ReleaseSemaphore
  <2>3. icaLock' \in BOOLEAN BY <1>6, Zenon DEF QueueBurst, LeaveIcaLock
  <2>4. TypeSync' /\ TypeDma' BY <1>6, <2>3 DEF QueueBurst, Advance, ReleaseSemaphore
  <2> QED BY <2>1, <2>2, <2>4
<1>7. CASE AutoInitEoiHook
  <2>1. TypeCpu' /\ TypeFlags' /\ Counting' BY <1>7 DEF AutoInitEoiHook, SetWaveFormat
  <2>2. TypeWave' /\ TypeRing' BY <1>7 DEF AutoInitEoiHook, SetWaveFormat
  <2>3. icaLock' \in BOOLEAN BY <1>7, Zenon DEF AutoInitEoiHook, LeaveIcaLock
  <2>4. TypeSync' /\ TypeDma' BY <1>7, <2>3 DEF AutoInitEoiHook, SetWaveFormat
  <2> QED BY <2>1, <2>2, <2>4
<1>8. CASE Spin
  <2>1. TypeCpu' /\ TypeFlags' /\ Counting' BY <1>8 DEF Spin
  <2>2. TypeWave' /\ TypeRing' BY <1>8 DEF Spin
  <2>3. TypeSync' /\ TypeDma' BY <1>8 DEF Spin
  <2> QED BY <2>1, <2>2, <2>3
<1>9. CASE CountQuery
  <2>1. TypeCpu' /\ TypeFlags' /\ Counting' BY <1>9 DEF CountQuery
  <2>2. TypeWave' /\ TypeRing' BY <1>9 DEF CountQuery
  <2>3. TypeSync' /\ TypeDma' BY <1>9 DEF CountQuery
  <2> QED BY <2>1, <2>2, <2>3
<1>10. CASE ResetDSP
  <2>1. TypeCpu' /\ TypeFlags' /\ Counting' BY <1>10 DEF ResetDSP, SignalReset
  <2>2. TypeWave' /\ TypeRing' BY <1>10 DEF ResetDSP, SignalReset
  <2>3. TypeSync' /\ TypeDma' BY <1>10 DEF ResetDSP, SignalReset
  <2> QED BY <2>1, <2>2, <2>3
<1>11. CASE WaitResetDone
  <2>1. TypeCpu' /\ TypeFlags' /\ Counting' BY <1>11 DEF WaitResetDone
  <2>2. TypeWave' /\ TypeRing' BY <1>11 DEF WaitResetDone
  <2>3. TypeSync' /\ TypeDma' BY <1>11 DEF WaitResetDone
  <2> QED BY <2>1, <2>2, <2>3
<1>12. CASE StopDspDmaThread
  <2>1. TypeCpu' /\ TypeFlags' /\ Counting' BY <1>12 DEF StopDspDmaThread, StopWait,
       ReleaseSemaphore
  <2>2. TypeWave' /\ TypeRing' BY <1>12 DEF StopDspDmaThread, StopWait, ReleaseSemaphore
  <2>3. TypeSync' /\ TypeDma' BY <1>12 DEF StopDspDmaThread, StopWait, ReleaseSemaphore
  <2> QED BY <2>1, <2>2, <2>3
<1>13. CASE WaitFinished
  <2>1. TypeCpu' /\ TypeFlags' /\ Counting' BY <1>13 DEF WaitFinished
  <2>2. TypeWave' /\ TypeRing' BY <1>13 DEF WaitFinished
  <2>3. TypeSync' /\ TypeDma' BY <1>13 DEF WaitFinished
  <2> QED BY <2>1, <2>2, <2>3
<1>14. CASE Renew
  <2>1. TypeCpu' /\ TypeWave' BY <1>14 DEF Renew, ClearEvents
  <2>2. TypeFlags' BY <1>14 DEF Renew, ClearEvents
  <2>3. TypeRing' BY <1>14 DEF Renew, ClearEvents
  <2>4. TypeSync' BY <1>14 DEF Renew, ClearEvents
  <2>5. TypeDma' BY <1>14 DEF Renew, ClearEvents
  <2>6. Counting' BY <1>14 DEF Renew, ClearEvents
  <2> QED BY <2>1, <2>2, <2>3, <2>4, <2>5, <2>6
<1>15. CASE ResetMode
  <2>1. TypeCpu' /\ TypeWave' BY <1>15 DEF ResetMode
  <2>2. TypeFlags' BY <1>15 DEF ResetMode
  <2>3. TypeRing' BY <1>15 DEF ResetMode
  <2>4. TypeSync' BY <1>15 DEF ResetMode
  <2>5. TypeDma' BY <1>15 DEF ResetMode
  <2>6. Counting' BY <1>15 DEF ResetMode
  <2> QED BY <2>1, <2>2, <2>3, <2>4, <2>5, <2>6
<1>16. CASE EndReset
  <2>1. TypeCpu' /\ TypeFlags' /\ Counting' BY <1>16 DEF EndReset
  <2>2. TypeWave' /\ TypeRing' BY <1>16 DEF EndReset
  <2>3. TypeSync' /\ TypeDma' BY <1>16 DEF EndReset
  <2> QED BY <2>1, <2>2, <2>3
<1> QED BY <1>1, <1>2, <1>3, <1>4, <1>5, <1>6, <1>7, <1>8, <1>9, <1>10, <1>11, <1>12, <1>13,
       <1>14, <1>15, <1>16 DEF CpuStep

LEMMA TypeDmaStep ==
  ASSUME TypeInv, NEW t \in DmaThreads, DmaStep(t)
  PROVE  TypeInv'
<1> USE SbAssumption DEF TypeInv, TypeOK, TypeCpu, TypeFlags, TypeWave, TypeRing, TypeSync,
        TypeDma, Counting, Places, ThreadPlaces, Starts, Does, cpuVars, flagVars, waveVars,
        ringVars, eventVars, lockVars, irqVars, dmaVars
<1>1. CASE BeginThread(t)
  <2>1. TypeCpu' /\ TypeFlags' /\ Counting' BY <1>1 DEF BeginThread, Goto
  <2>2. TypeWave' /\ TypeRing' BY <1>1 DEF BeginThread, Goto
  <2>3. TypeSync' /\ TypeDma' BY <1>1 DEF BeginThread, Goto
  <2> QED BY <2>1, <2>2, <2>3
<1>2. CASE LoopTop(t)
  <2>1. TypeCpu' /\ TypeFlags' /\ Counting' BY <1>2 DEF LoopTop, Goto
  <2>2. TypeWave' /\ TypeRing' BY <1>2 DEF LoopTop, Goto
  <2>3. TypeSync' /\ TypeDma' BY <1>2 DEF LoopTop, Goto
  <2> QED BY <2>1, <2>2, <2>3
<1>3. CASE TakeBurst(t)
  <2>1. TypeCpu' /\ TypeFlags' /\ Counting' BY <1>3 DEF TakeBurst, Goto, DelayInfinite
  <2>2. TypeWave' /\ TypeRing' BY <1>3 DEF TakeBurst, Goto, DelayInfinite
  <2>3. TypeSync' /\ TypeDma' BY <1>3 DEF TakeBurst, Goto, DelayInfinite
  <2> QED BY <2>1, <2>2, <2>3
<1>4. CASE PutOff(t)
  <2>1. TypeCpu' /\ TypeFlags' /\ Counting' BY <1>4 DEF PutOff, Goto
  <2>2. TypeWave' /\ TypeRing' BY <1>4 DEF PutOff, Goto
  <2>3. TypeSync' /\ TypeDma' BY <1>4 DEF PutOff, Goto
  <2> QED BY <2>1, <2>2, <2>3
<1>5. CASE EndTransfer(t)
  <2>1. TypeCpu' /\ TypeFlags' /\ Counting' BY <1>5 DEF EndTransfer, Goto
  <2>2. TypeWave' /\ TypeRing' BY <1>5 DEF EndTransfer, Goto
  <2>3. TypeSync' /\ TypeDma' BY <1>5 DEF EndTransfer, Goto
  <2> QED BY <2>1, <2>2, <2>3
<1>6. CASE RaiseInterrupt(t)
  <2>1. TypeCpu' /\ TypeWave' BY <1>6 DEF RaiseInterrupt, Goto, WithdrawAnswer, DelayInfinite
  <2>2. TypeFlags' BY <1>6 DEF RaiseInterrupt, Goto, WithdrawAnswer, DelayInfinite
  <2>3. TypeRing' BY <1>6 DEF RaiseInterrupt, Goto, WithdrawAnswer, DelayInfinite
  <2>4. irq' \in 0 .. 2 BY <1>6 DEF RaiseInterrupt
  <2>5. dspLock' \in DmaThreads \cup {NoThread} /\ owed' \in BOOLEAN BY <1>6 DEF RaiseInterrupt
  <2>6. TypeSync' BY <1>6, <2>4, <2>5 DEF RaiseInterrupt
  <2>7. TypeDma' BY <1>6 DEF RaiseInterrupt, Goto, WithdrawAnswer, DelayInfinite
  <2>8. Counting' BY <1>6 DEF RaiseInterrupt, Goto, WithdrawAnswer, DelayInfinite
  <2> QED BY <2>1, <2>2, <2>3, <2>6, <2>7, <2>8
<1>7. CASE ResetNoticed(t)
  <2>1. TypeCpu' /\ TypeWave' BY <1>7 DEF ResetNoticed, Goto, ExitAutoMode
  <2>2. TypeFlags' BY <1>7 DEF ResetNoticed, Goto, ExitAutoMode
  <2>3. TypeRing' BY <1>7 DEF ResetNoticed, Goto, ExitAutoMode
  <2>4. TypeSync' BY <1>7 DEF ResetNoticed, Goto, ExitAutoMode
  <2>5. TypeDma' BY <1>7 DEF ResetNoticed, Goto, ExitAutoMode
  <2>6. Counting' BY <1>7 DEF ResetNoticed, Goto, ExitAutoMode
  <2> QED BY <2>1, <2>2, <2>3, <2>4, <2>5, <2>6
<1>8. CASE ProcessBlock(t)
  <2>1. Advance(nextRead) \in 0 .. total - 1 BY AdvanceInRing DEF Advance
  <2>2. Advance(nextRead) \in Indices BY <2>1 DEF Indices
  <2>3. WaveBlockSize \in Blocks \cup {1} BY <2>2, Zenon DEF WaveBlockSize
  <2>4. WaveBlockSize \in Nat /\ WaveBlockSize > 0 BY <2>3
  <2>5. TypeCpu' /\ TypeFlags' BY <1>8 DEF ProcessBlock
  <2>6. TypeWave' BY <1>8 DEF ProcessBlock, SetWaveFormat
  <2>7. TypeRing' BY <1>8, <2>1 DEF ProcessBlock
  <2>8. TypeSync' BY <1>8 DEF ProcessBlock
  <2>9. cycle' \in [DmaThreads -> BOOLEAN] BY <1>8, Zenon DEF ProcessBlock
  <2>10. TypeDma' BY <1>8, <2>4, <2>9 DEF ProcessBlock, Goto
  <2>11. Counting' BY <1>8, <2>4 DEF ProcessBlock, Goto
  <2> QED BY <2>5, <2>6, <2>7, <2>8, <2>10, <2>11
<1>9. CASE WriteBurst(t)
  <2>1. TypeCpu' /\ TypeFlags' /\ Counting' BY <1>9 DEF WriteBurst, Goto, Advance
  <2>2. TypeWave' /\ TypeRing' BY <1>9 DEF WriteBurst, Goto, Advance
  <2>3. TypeSync' /\ TypeDma' BY <1>9 DEF WriteBurst, Goto, Advance
  <2> QED BY <2>1, <2>2, <2>3
<1>10. CASE NextBurst(t)
  <2>1. TypeCpu' /\ TypeFlags' /\ Counting' BY <1>10 DEF NextBurst, Goto
  <2>2. TypeWave' /\ TypeRing' BY <1>10 DEF NextBurst, Goto
  <2>3. TypeSync' /\ TypeDma' BY <1>10 DEF NextBurst, Goto
  <2> QED BY <2>1, <2>2, <2>3
<1>11. CASE EndBlock(t)
  <2>1. TypeCpu' /\ TypeWave' BY <1>11 DEF EndBlock, Goto, ExitAutoMode, DelayOfBlock
  <2>2. TypeFlags' BY <1>11 DEF EndBlock, Goto, ExitAutoMode, DelayOfBlock
  <2>3. TypeRing' BY <1>11 DEF EndBlock, Goto, ExitAutoMode, DelayOfBlock
  <2>4. TypeSync' BY <1>11 DEF EndBlock, Goto, ExitAutoMode, DelayOfBlock
  <2>5. TypeDma' BY <1>11 DEF EndBlock, Goto, ExitAutoMode, DelayOfBlock
  <2>6. Counting' BY <1>11 DEF EndBlock, Goto, ExitAutoMode, DelayOfBlock
  <2> QED BY <2>1, <2>2, <2>3, <2>4, <2>5, <2>6
<1>12. CASE CloseDevice(t)
  <2>1. TypeCpu' /\ TypeFlags' /\ Counting' BY <1>12 DEF CloseDevice, Goto
  <2>2. TypeWave' /\ TypeRing' BY <1>12 DEF CloseDevice, Goto
  <2>3. TypeSync' /\ TypeDma' BY <1>12 DEF CloseDevice, Goto
  <2> QED BY <2>1, <2>2, <2>3
<1>13. CASE Deactivate(t)
  <2>1. TypeCpu' /\ TypeWave' BY <1>13 DEF Deactivate, Goto
  <2>2. TypeFlags' BY <1>13 DEF Deactivate, Goto
  <2>3. TypeRing' BY <1>13 DEF Deactivate, Goto
  <2>4. TypeSync' BY <1>13 DEF Deactivate, Goto
  <2>5. TypeDma' BY <1>13 DEF Deactivate, Goto
  <2>6. Counting' BY <1>13 DEF Deactivate, Goto
  <2> QED BY <2>1, <2>2, <2>3, <2>4, <2>5, <2>6
<1>14. CASE Finish(t)
  <2>1. TypeCpu' /\ TypeFlags' /\ Counting' BY <1>14 DEF Finish, Goto
  <2>2. TypeWave' /\ TypeRing' BY <1>14 DEF Finish, Goto
  <2>3. TypeSync' /\ TypeDma' BY <1>14 DEF Finish, Goto
  <2> QED BY <2>1, <2>2, <2>3
<1>15. CASE Unhook(t)
  <2>1. TypeCpu' /\ TypeFlags' /\ Counting' BY <1>15 DEF Unhook, Goto
  <2>2. TypeWave' /\ TypeRing' BY <1>15 DEF Unhook, Goto
  <2>3. TypeSync' /\ TypeDma' BY <1>15 DEF Unhook, Goto
  <2> QED BY <2>1, <2>2, <2>3
<1> QED BY <1>1, <1>2, <1>3, <1>4, <1>5, <1>6, <1>7, <1>8, <1>9, <1>10, <1>11, <1>12, <1>13,
       <1>14, <1>15 DEF DmaStep

LEMMA TypeStep ==
  ASSUME TypeInv, [Next]_vars
  PROVE  TypeInv'
<1>1. CASE GuestStep BY <1>1, TypeGuest
<1>2. CASE CpuStep BY <1>2, TypeCpuStep
<1>3. ASSUME NEW t \in DmaThreads, DmaStep(t) PROVE TypeInv'
  BY <1>3, TypeDmaStep
<1>4. CASE UNCHANGED vars
  <2> USE DEF TypeInv, TypeOK, vars
  <2>1. TypeCpu' BY <1>4 DEF TypeCpu, cpuVars
  <2>2. TypeFlags' BY <1>4 DEF TypeFlags, flagVars
  <2>3. TypeWave' BY <1>4 DEF TypeWave, waveVars
  <2>4. TypeRing' BY <1>4 DEF TypeRing, ringVars
  <2>5. TypeSync' BY <1>4 DEF TypeSync, eventVars, lockVars, irqVars
  <2>6. TypeDma' BY <1>4 DEF TypeDma, dmaVars
  <2>7. Counting' BY <1>4 DEF Counting, cpuVars, dmaVars
  <2> QED BY <2>1, <2>2, <2>3, <2>4, <2>5, <2>6, <2>7
<1> QED BY <1>1, <1>2, <1>3, <1>4 DEF Next

\* The types with what the counters need: DmaDataToDsp's and DspProcessBlock's loops never
\* count below 0.
THEOREM TypesHold == Spec => []TypeInv
<1> QED BY TypeInit, TypeStep, PTL DEF Spec

\* TypeOK: every variable keeps its type, the indices stay inside the ring and the
\* semaphore below its maximum.
THEOREM TypeCorrect == Spec => []TypeOK
<1>1. TypeInv => TypeOK BY DEF TypeInv
<1> QED BY TypesHold, <1>1, PTL

-----------------------------------------------------------------------------
(***************************************************************************)
(* One DMA thread.  A thread that exists has bDspActive set until its last *)
(* statements, which nobody disturbs; a start is made without bDspActive,  *)
(* so without a thread.  bDspActive is cleared by the thread itself and by *)
(* a reset, which has waited for ThreadFinished unless there was no        *)
(* thread; and ThreadFinished is never a signal of an earlier reset,       *)
(* because only a thread that was told to exit gives it.                   *)
(***************************************************************************)
ExitPlaces == {"reset", "waitDone", "stop", "waitFinished", "renew"}

NoThreads == \A t \in DmaThreads : dma[t] = "none"

AtMostOne == \A t, u \in DmaThreads : dma[t] # "none" /\ dma[u] # "none" => t = u

ActiveIfThread ==
  \A t \in DmaThreads : dma[t] \notin {"none", "finish", "unhook"} => active

ExitInReset == exitDma => cpu \in ExitPlaces

LeavesOnExit == \A t \in DmaThreads : dma[t] \in {"close", "leave", "finish",
       "unhook"} => exitDma

FinishedIsNew ==
  threadFinished => exitDma /\ \A t \in DmaThreads : dma[t] \in {"none", "unhook"}

StartIsNeeded == cpu = "thread" => ~active

RenewIsSafe == cpu = "renew" => NoThreads

ThreadInv ==
  AtMostOne /\ ActiveIfThread /\ ExitInReset /\ LeavesOnExit /\ FinishedIsNew /\ StartIsNeeded
    /\ RenewIsSafe

LEMMA ThreadInit == Init => ThreadInv
  BY DEF Init, ThreadInv, AtMostOne, ActiveIfThread, ExitInReset, LeavesOnExit, FinishedIsNew,
     StartIsNeeded, RenewIsSafe

LEMMA ThreadGuest ==
  ASSUME TypeInv, ThreadInv, ~Preempted, GuestStep
  PROVE  ThreadInv'
<1> USE DEF TypeInv, TypeOK, TypeDma, ThreadInv, AtMostOne, ActiveIfThread, ExitInReset,
        LeavesOnExit, FinishedIsNew, StartIsNeeded, RenewIsSafe, NoThreads, ExitPlaces, Does,
        cpuVars, flagVars, eventVars, dmaVars
<1> \A t \in DmaThreads : dma[t] \notin {"finish", "unhook"}
  BY DEF GuestStep, Undisturbed
<1>1. CASE SetBlockSize
  BY <1>1 DEF SetBlockSize
<1>2. CASE SetTimeConstant
  BY <1>2 DEF SetTimeConstant
<1>3. CASE PauseDMA
  BY <1>3 DEF PauseDMA
<1>4. CASE ContinueDMA
  BY <1>4 DEF ContinueDMA
<1>5. CASE StopAuto
  BY <1>5 DEF StopAuto
<1>6. ASSUME NEW o \in Starts, StartBlock(o) PROVE ThreadInv'
  BY <1>6 DEF StartBlock
<1>7. ASSUME NEW o \in {"eoi", "heal"}, Eoi(o) PROVE ThreadInv'
  BY <1>7 DEF Eoi
<1>8. CASE Query
  BY <1>8 DEF Query
<1>9. CASE DspResetWrite
  BY <1>9 DEF DspResetWrite
<1> QED BY <1>1, <1>2, <1>3, <1>4, <1>5, <1>6, <1>7, <1>8, <1>9 DEF GuestStep

LEMMA ThreadCpu ==
  ASSUME TypeInv, ThreadInv, ~Preempted, CpuStep
  PROVE  ThreadInv'
<1> USE DEF TypeInv, TypeOK, TypeDma, ThreadInv, AtMostOne, ActiveIfThread, ExitInReset,
        LeavesOnExit, FinishedIsNew, StartIsNeeded, RenewIsSafe, NoThreads, ExitPlaces, Does,
        cpuVars, flagVars, eventVars, dmaVars
<1> \A t \in DmaThreads : dma[t] \notin {"finish", "unhook"}
  BY DEF CpuStep, Undisturbed
<1>1. CASE StartThread
  BY <1>1 DEF StartThread, Goto
<1>2. CASE WaitStarted
  BY <1>2 DEF WaitStarted
<1>3. CASE EnlargeBuffer
  BY <1>3 DEF EnlargeBuffer
<1>4. CASE SetMode
  BY <1>4 DEF SetMode
<1>5. CASE BeginDmaData
  BY <1>5 DEF BeginDmaData
<1>6. CASE QueueBurst
  BY <1>6 DEF QueueBurst
<1>7. CASE AutoInitEoiHook
  BY <1>7 DEF AutoInitEoiHook
<1>8. CASE Spin
  BY <1>8 DEF Spin
<1>9. CASE CountQuery
  BY <1>9 DEF CountQuery
<1>10. CASE ResetDSP
  BY <1>10 DEF ResetDSP
<1>11. CASE WaitResetDone
  BY <1>11 DEF WaitResetDone
<1>12. CASE StopDspDmaThread
  BY <1>12 DEF StopDspDmaThread, StopWait
<1>13. CASE WaitFinished
  BY <1>13 DEF WaitFinished
<1>14. CASE Renew
  BY <1>14 DEF Renew, ClearEvents
<1>15. CASE ResetMode
  BY <1>15 DEF ResetMode
<1>16. CASE EndReset
  BY <1>16 DEF EndReset
<1> QED BY <1>1, <1>2, <1>3, <1>4, <1>5, <1>6, <1>7, <1>8, <1>9, <1>10, <1>11, <1>12, <1>13,
       <1>14, <1>15, <1>16 DEF CpuStep

LEMMA ThreadDma ==
  ASSUME TypeInv, ThreadInv, NEW t \in DmaThreads, DmaStep(t)
  PROVE  ThreadInv'
<1> USE DEF TypeInv, TypeOK, TypeDma, ThreadInv, AtMostOne, ActiveIfThread, ExitInReset,
        LeavesOnExit, FinishedIsNew, StartIsNeeded, RenewIsSafe, NoThreads, ExitPlaces, Does,
        cpuVars, flagVars, eventVars, dmaVars
<1>1. CASE BeginThread(t)
  BY <1>1 DEF BeginThread, Goto
<1>2. CASE LoopTop(t)
  BY <1>2 DEF LoopTop, Goto
<1>3. CASE TakeBurst(t)
  BY <1>3 DEF TakeBurst, Goto
<1>4. CASE PutOff(t)
  BY <1>4 DEF PutOff, Goto
<1>5. CASE EndTransfer(t)
  BY <1>5 DEF EndTransfer, Goto
<1>6. CASE RaiseInterrupt(t)
  BY <1>6 DEF RaiseInterrupt, Goto
<1>7. CASE ResetNoticed(t)
  BY <1>7 DEF ResetNoticed, Goto, ExitAutoMode
<1>8. CASE ProcessBlock(t)
  BY <1>8 DEF ProcessBlock, Goto
<1>9. CASE WriteBurst(t)
  BY <1>9 DEF WriteBurst, Goto
<1>10. CASE NextBurst(t)
  BY <1>10 DEF NextBurst, Goto
<1>11. CASE EndBlock(t)
  BY <1>11 DEF EndBlock, Goto, ExitAutoMode
<1>12. CASE CloseDevice(t)
  BY <1>12 DEF CloseDevice, Goto
<1>13. CASE Deactivate(t)
  BY <1>13 DEF Deactivate, Goto
<1>14. CASE Finish(t)
  BY <1>14 DEF Finish, Goto
<1>15. CASE Unhook(t)
  BY <1>15 DEF Unhook, Goto
<1> QED BY <1>1, <1>2, <1>3, <1>4, <1>5, <1>6, <1>7, <1>8, <1>9, <1>10, <1>11, <1>12, <1>13,
       <1>14, <1>15 DEF DmaStep

LEMMA ThreadStep ==
  ASSUME TypeInv, ThreadInv, ~Preempted, [Next]_vars
  PROVE  ThreadInv'
<1>1. CASE GuestStep BY <1>1, ThreadGuest
<1>2. CASE CpuStep BY <1>2, ThreadCpu
<1>3. ASSUME NEW t \in DmaThreads, DmaStep(t) PROVE ThreadInv'
  BY <1>3, ThreadDma
<1>4. CASE UNCHANGED vars
  BY <1>4 DEF ThreadInv, AtMostOne, ActiveIfThread, ExitInReset, LeavesOnExit, FinishedIsNew,
     StartIsNeeded, RenewIsSafe, NoThreads, vars, cpuVars, flagVars, eventVars, dmaVars
<1> QED BY <1>1, <1>2, <1>3, <1>4 DEF Next

\* StartDspDmaThread and StopDspDmaThread, bDspActive and ThreadFinished: the invariant that
\* ties the flag and the event to the thread's life.
THEOREM ThreadLife ==
  ASSUME ~Preempted
  PROVE  Spec => []ThreadInv
<1>1. TypeInv /\ ThreadInv /\ [Next]_vars => ThreadInv'
  BY ThreadStep
<1> QED BY ThreadInit, TypesHold, <1>1, PTL DEF Spec

\* OneDma: bDspActive keeps a second DMA thread from starting, for any number of threads,
\* sizes and commands, impolite ones too.
THEOREM OneThread ==
  ASSUME ~Preempted
  PROVE  Spec => []OneDma
<1>1. ThreadInv => OneDma
  BY DEF ThreadInv, AtMostOne, OneDma, Looping
<1> QED BY ThreadLife, <1>1, PTL

-----------------------------------------------------------------------------
(***************************************************************************)
(* Resets.  Outside high-speed mode a reset tells the thread to exit, so   *)
(* it goes through the wait for it and through Renew, which leaves no      *)
(* burst and no event; without a thread nobody makes new ones.             *)
(***************************************************************************)
ResetInv ==
  /\ ~highSpeed
  /\ InReset => cpu \in ExitPlaces \cup {"clear", "cleared"}
  /\ cpu = "reset" => exitDma
  /\ cpu \in {"clear", "cleared"} => sem = 0 /\ ~resetEvent /\ NoThreads

LEMMA ResetInit == Init => ResetInv
  BY DEF Init, ResetInv, InReset

LEMMA ResetGuest ==
  ASSUME TypeInv, ResetInv, Commands \cap {"hiAuto", "hiSingle"} = {}, GuestStep
  PROVE  ResetInv'
<1> USE DEF TypeInv, TypeOK, TypeDma, ResetInv, InReset, NoThreads, ExitPlaces, Starts, Does,
        cpuVars, flagVars, ringVars, eventVars, dmaVars
<1>1. CASE SetBlockSize
  BY <1>1 DEF SetBlockSize
<1>2. CASE SetTimeConstant
  BY <1>2 DEF SetTimeConstant
<1>3. CASE PauseDMA
  BY <1>3 DEF PauseDMA
<1>4. CASE ContinueDMA
  BY <1>4 DEF ContinueDMA
<1>5. CASE StopAuto
  BY <1>5 DEF StopAuto
<1>6. ASSUME NEW o \in Starts, StartBlock(o) PROVE ResetInv'
  BY <1>6 DEF StartBlock
<1>7. ASSUME NEW o \in {"eoi", "heal"}, Eoi(o) PROVE ResetInv'
  BY <1>7 DEF Eoi
<1>8. CASE Query
  BY <1>8 DEF Query
<1>9. CASE DspResetWrite
  BY <1>9 DEF DspResetWrite
<1> QED BY <1>1, <1>2, <1>3, <1>4, <1>5, <1>6, <1>7, <1>8, <1>9 DEF GuestStep

LEMMA ResetCpu ==
  ASSUME TypeInv, ThreadInv, ResetInv, CpuStep
  PROVE  ResetInv'
<1> USE DEF TypeInv, TypeOK, TypeDma, ResetInv, InReset, NoThreads, ExitPlaces, Starts, Does,
        cpuVars, flagVars, ringVars, eventVars, dmaVars
<1>1. CASE StartThread
  BY <1>1 DEF StartThread, Goto
<1>2. CASE WaitStarted
  BY <1>2 DEF WaitStarted
<1>3. CASE EnlargeBuffer
  BY <1>3 DEF EnlargeBuffer
<1>4. CASE SetMode
  BY <1>4 DEF SetMode
<1>5. CASE BeginDmaData
  BY <1>5 DEF BeginDmaData
<1>6. CASE QueueBurst
  BY <1>6 DEF QueueBurst, ReleaseSemaphore
<1>7. CASE AutoInitEoiHook
  BY <1>7 DEF AutoInitEoiHook
<1>8. CASE Spin
  BY <1>8 DEF Spin
<1>9. CASE CountQuery
  BY <1>9 DEF CountQuery
<1>10. CASE ResetDSP
  BY <1>10 DEF ResetDSP, SignalReset
<1>11. CASE WaitResetDone
  BY <1>11 DEF WaitResetDone
<1>12. CASE StopDspDmaThread
  BY <1>12 DEF StopDspDmaThread, StopWait
<1>13. CASE WaitFinished
  BY <1>13 DEF WaitFinished
<1>14. CASE Renew
  BY <1>14 DEF Renew, ClearEvents, ThreadInv, RenewIsSafe
<1>15. CASE ResetMode
  BY <1>15 DEF ResetMode
<1>16. CASE EndReset
  BY <1>16 DEF EndReset
<1> QED BY <1>1, <1>2, <1>3, <1>4, <1>5, <1>6, <1>7, <1>8, <1>9, <1>10, <1>11, <1>12, <1>13,
       <1>14, <1>15, <1>16 DEF CpuStep

LEMMA ResetDma ==
  ASSUME TypeInv, ResetInv, NEW t \in DmaThreads, DmaStep(t)
  PROVE  ResetInv'
<1> USE DEF TypeInv, TypeOK, TypeDma, ResetInv, InReset, NoThreads, ExitPlaces, Starts, Does,
        cpuVars, flagVars, ringVars, eventVars, dmaVars
<1>1. CASE BeginThread(t)
  BY <1>1 DEF BeginThread, Goto
<1>2. CASE LoopTop(t)
  BY <1>2 DEF LoopTop, Goto
<1>3. CASE TakeBurst(t)
  BY <1>3 DEF TakeBurst, Goto
<1>4. CASE PutOff(t)
  BY <1>4 DEF PutOff, Goto
<1>5. CASE EndTransfer(t)
  BY <1>5 DEF EndTransfer, Goto
<1>6. CASE RaiseInterrupt(t)
  BY <1>6 DEF RaiseInterrupt, Goto
<1>7. CASE ResetNoticed(t)
  BY <1>7 DEF ResetNoticed, Goto, ExitAutoMode
<1>8. CASE ProcessBlock(t)
  BY <1>8 DEF ProcessBlock, Goto
<1>9. CASE WriteBurst(t)
  BY <1>9 DEF WriteBurst, Goto
<1>10. CASE NextBurst(t)
  BY <1>10 DEF NextBurst, Goto
<1>11. CASE EndBlock(t)
  BY <1>11 DEF EndBlock, Goto, ExitAutoMode
<1>12. CASE CloseDevice(t)
  BY <1>12 DEF CloseDevice, Goto
<1>13. CASE Deactivate(t)
  BY <1>13 DEF Deactivate, Goto
<1>14. CASE Finish(t)
  BY <1>14 DEF Finish, Goto
<1>15. CASE Unhook(t)
  BY <1>15 DEF Unhook, Goto
<1> QED BY <1>1, <1>2, <1>3, <1>4, <1>5, <1>6, <1>7, <1>8, <1>9, <1>10, <1>11, <1>12, <1>13,
       <1>14, <1>15 DEF DmaStep

LEMMA ResetStep ==
  ASSUME TypeInv, ThreadInv, ResetInv, Commands \cap {"hiAuto", "hiSingle"} = {}, [Next]_vars
  PROVE  ResetInv'
<1>1. CASE GuestStep BY <1>1, ResetGuest
<1>2. CASE CpuStep BY <1>2, ResetCpu
<1>3. ASSUME NEW t \in DmaThreads, DmaStep(t) PROVE ResetInv'
  BY <1>3, ResetDma
<1>4. CASE UNCHANGED vars
  BY <1>4 DEF ResetInv, InReset, NoThreads, vars, cpuVars, flagVars, ringVars, eventVars,
       dmaVars
<1> QED BY <1>1, <1>2, <1>3, <1>4 DEF Next

\* The step of ResetIsComplete.
Completes ==
  InReset /\ op' # "reset" =>
    sem' = 0 /\ ~resetEvent' /\ \A t \in DmaThreads : dma'[t] \in {"none", "unhook"}

\* In a reset only its own steps change the command, and only its last one ends it.
LEMMA EndCompletes ==
  ASSUME TypeInv, ResetInv, [Next]_vars
  PROVE  Completes
<1> SUFFICES ASSUME InReset, op' # "reset"
             PROVE  sem' = 0 /\ ~resetEvent' /\ NoThreads'
  BY DEF Completes, NoThreads
<1> cpu \in ExitPlaces \cup {"clear", "cleared"}
  BY DEF ResetInv
<1> USE DEF InReset, ExitPlaces
<1>1. ASSUME GuestStep PROVE FALSE
  BY <1>1 DEF GuestStep, SetBlockSize, SetTimeConstant, PauseDMA, ContinueDMA, StopAuto,
     StartBlock, Eoi, Query, DspResetWrite, Does
<1>2. CASE CpuStep
  <2>1. CASE EndReset
    BY <2>1 DEF EndReset, ResetInv, NoThreads, ringVars, dmaVars
  <2>2. ASSUME ~EndReset PROVE FALSE
    BY <1>2, <2>2 DEF CpuStep, StartThread, WaitStarted, EnlargeBuffer, SetMode, BeginDmaData,
       QueueBurst, AutoInitEoiHook, Spin, CountQuery, ResetDSP, WaitResetDone,
       StopDspDmaThread, WaitFinished, Renew, ResetMode
  <2> QED BY <2>1, <2>2
<1>3. ASSUME NEW t \in DmaThreads, DmaStep(t) PROVE FALSE
  <2>1. op' = op
    BY <1>3 DEF DmaStep, BeginThread, LoopTop, TakeBurst, PutOff, EndTransfer, RaiseInterrupt,
       ResetNoticed, ProcessBlock, WriteBurst, NextBurst, EndBlock, CloseDevice, Deactivate,
       Finish, Unhook, cpuVars
  <2> QED BY <2>1
<1>4. ASSUME UNCHANGED vars PROVE FALSE
  BY <1>4 DEF vars, cpuVars
<1> QED BY <1>1, <1>2, <1>3, <1>4 DEF Next

\* Outside high-speed mode a reset goes through the exit of the thread.
LEMMA ResetsHold ==
  ASSUME ~Preempted, Commands \cap {"hiAuto", "hiSingle"} = {}
  PROVE  Spec => []ResetInv
<1>1. TypeInv /\ ThreadInv /\ ResetInv /\ [Next]_vars => ResetInv'
  BY ResetStep
<1> QED BY ResetInit, TypesHold, ThreadLife, <1>1, PTL DEF Spec

\* ResetIsComplete: ResetDSP, DspResetWrite's "OK - reset everything", leaves no thread
\* playing, no burst counted and no event set, for a guest that does not use high-speed mode.
THEOREM ResetCompletes ==
  ASSUME ~Preempted, Commands \cap {"hiAuto", "hiSingle"} = {}
  PROVE  Spec => ResetIsComplete
<1>1. Spec => []ResetInv
  BY ResetsHold
<1>2. TypeInv /\ ResetInv /\ [Next]_vars => [Completes]_vars
  BY EndCompletes
<1> QED BY <1>1, <1>2, TypesHold, PTL DEF Spec, ResetIsComplete, Completes

-----------------------------------------------------------------------------
(***************************************************************************)
(* Queries.  SbAnswerDMAPosition is set with the block and withdrawn with  *)
(* its interrupt; only a masked channel sets it without a block.           *)
(***************************************************************************)
AnswersBlock == answer => owed

LEMMA AnswerGuest ==
  ASSUME AnswersBlock, "masked" \notin Commands, GuestStep
  PROVE  AnswersBlock'
<1> USE DEF AnswersBlock, waveVars, irqVars
<1>1. CASE SetBlockSize
  BY <1>1 DEF SetBlockSize
<1>2. CASE SetTimeConstant
  BY <1>2 DEF SetTimeConstant
<1>3. CASE PauseDMA
  BY <1>3 DEF PauseDMA
<1>4. CASE ContinueDMA
  BY <1>4 DEF ContinueDMA
<1>5. CASE StopAuto
  BY <1>5 DEF StopAuto
<1>6. ASSUME NEW o \in Starts, StartBlock(o) PROVE AnswersBlock'
  BY <1>6 DEF StartBlock
<1>7. ASSUME NEW o \in {"eoi", "heal"}, Eoi(o) PROVE AnswersBlock'
  BY <1>7 DEF Eoi
<1>8. CASE Query
  BY <1>8 DEF Query
<1>9. CASE DspResetWrite
  BY <1>9 DEF DspResetWrite
<1> QED BY <1>1, <1>2, <1>3, <1>4, <1>5, <1>6, <1>7, <1>8, <1>9 DEF GuestStep

LEMMA AnswerCpu ==
  ASSUME AnswersBlock, "masked" \notin Commands, CpuStep
  PROVE  AnswersBlock'
<1> USE DEF AnswersBlock, waveVars, irqVars
<1>1. CASE StartThread
  BY <1>1 DEF StartThread, Goto
<1>2. CASE WaitStarted
  BY <1>2 DEF WaitStarted
<1>3. CASE EnlargeBuffer
  BY <1>3 DEF EnlargeBuffer, GenerateHdrs
<1>4. CASE SetMode
  BY <1>4 DEF SetMode, SetWaveFormat, RegisterEOIHook
<1>5. CASE BeginDmaData
  BY <1>5 DEF BeginDmaData
<1>6. CASE QueueBurst
  BY <1>6 DEF QueueBurst, ReleaseSemaphore
<1>7. CASE AutoInitEoiHook
  BY <1>7 DEF AutoInitEoiHook, SetWaveFormat
<1>8. CASE Spin
  BY <1>8 DEF Spin
<1>9. CASE CountQuery
  BY <1>9 DEF CountQuery
<1>10. CASE ResetDSP
  BY <1>10 DEF ResetDSP, SignalReset
<1>11. CASE WaitResetDone
  BY <1>11 DEF WaitResetDone
<1>12. CASE StopDspDmaThread
  BY <1>12 DEF StopDspDmaThread, StopWait, ReleaseSemaphore
<1>13. CASE WaitFinished
  BY <1>13 DEF WaitFinished
<1>14. CASE Renew
  BY <1>14 DEF Renew, ClearEvents
<1>15. CASE ResetMode
  BY <1>15 DEF ResetMode
<1>16. CASE EndReset
  BY <1>16 DEF EndReset
<1> QED BY <1>1, <1>2, <1>3, <1>4, <1>5, <1>6, <1>7, <1>8, <1>9, <1>10, <1>11, <1>12, <1>13,
       <1>14, <1>15, <1>16 DEF CpuStep

LEMMA AnswerDma ==
  ASSUME AnswersBlock, "masked" \notin Commands, NEW t \in DmaThreads, DmaStep(t)
  PROVE  AnswersBlock'
<1> USE DEF AnswersBlock, waveVars, irqVars
<1>1. CASE BeginThread(t)
  BY <1>1 DEF BeginThread, Goto
<1>2. CASE LoopTop(t)
  BY <1>2 DEF LoopTop, Goto
<1>3. CASE TakeBurst(t)
  BY <1>3 DEF TakeBurst, Goto, DelayInfinite
<1>4. CASE PutOff(t)
  BY <1>4 DEF PutOff, Goto
<1>5. CASE EndTransfer(t)
  BY <1>5 DEF EndTransfer, Goto
<1>6. CASE RaiseInterrupt(t)
  BY <1>6 DEF RaiseInterrupt, Goto, DelayInfinite, WithdrawAnswer
<1>7. CASE ResetNoticed(t)
  BY <1>7 DEF ResetNoticed, Goto, ExitAutoMode
<1>8. CASE ProcessBlock(t)
  BY <1>8 DEF ProcessBlock, Goto, SetWaveFormat
<1>9. CASE WriteBurst(t)
  BY <1>9 DEF WriteBurst, Goto
<1>10. CASE NextBurst(t)
  BY <1>10 DEF NextBurst, Goto
<1>11. CASE EndBlock(t)
  BY <1>11 DEF EndBlock, Goto, ExitAutoMode, DelayOfBlock
<1>12. CASE CloseDevice(t)
  BY <1>12 DEF CloseDevice, Goto
<1>13. CASE Deactivate(t)
  BY <1>13 DEF Deactivate, Goto
<1>14. CASE Finish(t)
  BY <1>14 DEF Finish, Goto
<1>15. CASE Unhook(t)
  BY <1>15 DEF Unhook, Goto
<1> QED BY <1>1, <1>2, <1>3, <1>4, <1>5, <1>6, <1>7, <1>8, <1>9, <1>10, <1>11, <1>12, <1>13,
       <1>14, <1>15 DEF DmaStep

LEMMA AnswerStep ==
  ASSUME AnswersBlock, "masked" \notin Commands, [Next]_vars
  PROVE  AnswersBlock'
<1>1. CASE GuestStep BY <1>1, AnswerGuest
<1>2. CASE CpuStep BY <1>2, AnswerCpu
<1>3. ASSUME NEW t \in DmaThreads, DmaStep(t) PROVE AnswersBlock'
  BY <1>3, AnswerDma
<1>4. CASE UNCHANGED vars
  BY <1>4 DEF AnswersBlock, vars, waveVars, irqVars
<1> QED BY <1>1, <1>2, <1>3, <1>4 DEF Next

\* QueriesHaveBlock: a query spins for a block that was handed over, unless its interrupt has
\* withdrawn the answer, for a guest that masks no channel, impolite or not.
THEOREM QueryForBlock ==
  ASSUME "masked" \notin Commands
  PROVE  Spec => []QueriesHaveBlock
<1>1. Init => AnswersBlock
  BY DEF Init, AnswersBlock
<1>2. TypeInv /\ AnswersBlock /\ [Next]_vars => AnswersBlock'
  BY AnswerStep
<1>3. AnswersBlock => QueriesHaveBlock
  BY DEF AnswersBlock, QueriesHaveBlock
<1> QED BY <1>1, <1>2, <1>3, TypesHold, PTL DEF Spec

-----------------------------------------------------------------------------
(***************************************************************************)
(* The reader and the writer of the ring.  The CPU thread counts a block's *)
(* bursts up while the DMA thread counts them down, and nothing but the    *)
(* one block under way ties the two: the sum of what is counted and what   *)
(* is still to count must be what the DMA thread has still to take, and    *)
(* the indices must tell the same.  It rests on where the CPU thread may   *)
(* be (CommandInv), on a thread being there when a block is handed over    *)
(* (BusyInv), and on no end of interrupt starting a second block (HookInv).*)
(***************************************************************************)
\* The guest starts no block while one is under way, and uses no high-speed mode.
Polite == Commands \cap {"early", "hiAuto", "hiSingle"} = {}

\* DspWaveSem can count the longest block.
Countable == Longest <= SemMax

StartPlaces == {"thread", "waitStarted", "buffer", "mode"}

\* Where the CPU thread is and what it works on.
CommandInv ==
  /\ resetting <=> InReset
  /\ InReset <=> cpu \in ExitPlaces \cup {"clear", "cleared"}
  /\ resetEvent => InReset
  /\ cpu # "queue" => toQueue = 0
  /\ cpu \in StartPlaces \cup {"dma", "hook"} => ~owed

\* Someone is there to take the block and to run into the EOI hook.
BusyInv ==
  /\ active => \E t \in DmaThreads : dma[t] \notin {"none", "finish", "unhook"}
  /\ cpu \in {"waitStarted", "buffer", "mode", "dma", "hook", "queue"} => active
  /\ owed /\ ~InReset => active
  /\ hooked => ~NoThreads

\* While a block is under way no interrupt is left whose end would start another one.
HookInv ==
  /\ hooked => mode = "auto"
  /\ ~InReset /\ hooked => irq <= 1
  /\ ~InReset /\ hooked /\ owed => irq = 0
  /\ cpu \in {"hook", "dma"} /\ hooked => irq = 0
  /\ cpu \in StartPlaces /\ op # "single" => irq = 0

\* Delay is not INFINITE from the end of a block to its interrupt.
DelayInv ==
  \A t \in DmaThreads :
    /\ dma[t] \in {"none", "begin", "woken", "write", "inner", "end"} => ~delay[t]
    /\ dma[t] = "raise" => delay[t]

\* Between blocks, or before the first burst of one.
Waiting(t) == dma[t] \in {"begin", "top", "wait"} /\ ~delay[t]

\* After the last burst of a block, before its interrupt.
Played(t) == dma[t] \in {"end", "raise"} \/ (dma[t] \in {"top", "wait"} /\ delay[t])

\* Bursts taken from the semaphore and not yet from the ring.
Taken(t) == CASE dma[t] = "woken" -> 1 [] dma[t] = "inner" -> -1 [] OTHER -> 0

\* What the thread has still to take of the block is what is counted or to be counted.
Sums(t) ==
  /\ ~owed => Waiting(t) /\ sem = 0
  /\ owed /\ Waiting(t) => sem + toQueue = sizes[Advance(nextRead)]
  /\ dma[t] = "woken" => sem + toQueue + 1 = sizes[Advance(nextRead)]
  /\ dma[t] = "write" => sem + toQueue + 1 = rest[t]
  /\ dma[t] = "inner" => sem + toQueue = rest[t]
  /\ Played(t) => sem = 0 /\ toQueue = 0

\* The writer is as far ahead of the reader as bursts are counted or taken.
InPlace(t) == (nextRead + 1 + sem + Taken(t)) % total = nextWrite

Accounts(t) == Sums(t) /\ InPlace(t)

BlockInv ==
  /\ \A t \in DmaThreads : Looping(t) /\ ~InReset => Accounts(t)
  /\ cpu = "queue" => owed /\ sem + toQueue <= Longest

\* A reset does not end the wait inside a block, so the bursts of it must be there then too.
SupplyInv ==
  \A t \in DmaThreads :
    /\ dma[t] = "write" => sem + toQueue + 1 >= rest[t]
    /\ dma[t] = "inner" => sem + toQueue >= rest[t]

RingInv == CommandInv /\ BusyInv /\ HookInv /\ DelayInv /\ BlockInv /\ SupplyInv

LEMMA RingInit == Init => RingInv
<1> SUFFICES ASSUME Init PROVE RingInv
  OBVIOUS
<1>1. CommandInv
  BY DEF Init, CommandInv, InReset, ExitPlaces, StartPlaces
<1>2. BusyInv /\ HookInv
  BY DEF Init, BusyInv, HookInv, StartPlaces
<1>3. DelayInv /\ SupplyInv
  BY DEF Init, DelayInv, SupplyInv
<1>4. BlockInv
  BY DEF Init, BlockInv, Looping
<1> QED BY <1>1, <1>2, <1>3, <1>4 DEF RingInv

LEMMA CommandGuest ==
  ASSUME TypeInv, ResetInv, CommandInv, HookInv, Polite, GuestStep
  PROVE  CommandInv'
<1> USE DEF Polite, TypeInv, TypeOK, TypeCpu, TypeSync, CommandInv, ResetInv, HookInv,
        InReset, ExitPlaces, StartPlaces, Starts, Does, cpuVars, flagVars, eventVars,
        irqVars
<1>1. CASE SetBlockSize
  BY <1>1 DEF SetBlockSize
<1>2. CASE SetTimeConstant
  BY <1>2 DEF SetTimeConstant
<1>3. CASE PauseDMA
  BY <1>3 DEF PauseDMA
<1>4. CASE ContinueDMA
  BY <1>4 DEF ContinueDMA
<1>5. CASE StopAuto
  BY <1>5 DEF StopAuto
<1>6. ASSUME NEW o \in Starts, StartBlock(o) PROVE CommandInv'
  BY <1>6 DEF StartBlock
<1>7. ASSUME NEW o \in {"eoi", "heal"}, Eoi(o) PROVE CommandInv'
  BY <1>7 DEF Eoi
<1>8. CASE Query
  BY <1>8 DEF Query
<1>9. CASE DspResetWrite
  BY <1>9 DEF DspResetWrite
<1> QED BY <1>1, <1>2, <1>3, <1>4, <1>5, <1>6, <1>7, <1>8, <1>9 DEF GuestStep

LEMMA CommandCpu ==
  ASSUME TypeInv, ResetInv, CommandInv, HookInv, Polite, CpuStep
  PROVE  CommandInv'
<1> USE DEF Polite, TypeInv, TypeOK, TypeCpu, TypeSync, CommandInv, ResetInv, HookInv,
        InReset, ExitPlaces, StartPlaces, Starts, Does, cpuVars, flagVars, eventVars,
        irqVars
<1>1. CASE StartThread
  BY <1>1 DEF StartThread, Goto
<1>2. CASE WaitStarted
  BY <1>2 DEF WaitStarted
<1>3. CASE EnlargeBuffer
  BY <1>3 DEF EnlargeBuffer, GenerateHdrs
<1>4. CASE SetMode
  BY <1>4 DEF SetMode, SetWaveFormat, RegisterEOIHook
<1>5. CASE BeginDmaData
  BY <1>5 DEF BeginDmaData
<1>6. CASE QueueBurst
  BY <1>6 DEF QueueBurst, ReleaseSemaphore
<1>7. CASE AutoInitEoiHook
  BY <1>7 DEF AutoInitEoiHook, SetWaveFormat
<1>8. CASE Spin
  BY <1>8 DEF Spin
<1>9. CASE CountQuery
  BY <1>9 DEF CountQuery
<1>10. CASE ResetDSP
  BY <1>10 DEF ResetDSP, SignalReset
<1>11. CASE WaitResetDone
  BY <1>11 DEF WaitResetDone
<1>12. CASE StopDspDmaThread
  BY <1>12 DEF StopDspDmaThread, StopWait, ReleaseSemaphore
<1>13. CASE WaitFinished
  BY <1>13 DEF WaitFinished
<1>14. CASE Renew
  BY <1>14 DEF Renew, ClearEvents
<1>15. CASE ResetMode
  BY <1>15 DEF ResetMode
<1>16. CASE EndReset
  BY <1>16 DEF EndReset
<1> QED BY <1>1, <1>2, <1>3, <1>4, <1>5, <1>6, <1>7, <1>8, <1>9, <1>10, <1>11, <1>12, <1>13,
       <1>14, <1>15, <1>16 DEF CpuStep

LEMMA CommandDma ==
  ASSUME TypeInv, ResetInv, CommandInv, HookInv, Polite, NEW t \in DmaThreads, DmaStep(t)
  PROVE  CommandInv'
<1> USE DEF Polite, TypeInv, TypeOK, TypeCpu, TypeSync, CommandInv, ResetInv, HookInv,
        InReset, ExitPlaces, StartPlaces, Starts, Does, cpuVars, flagVars, eventVars,
        irqVars
<1>1. CASE BeginThread(t)
  BY <1>1 DEF BeginThread, Goto
<1>2. CASE LoopTop(t)
  BY <1>2 DEF LoopTop, Goto
<1>3. CASE TakeBurst(t)
  BY <1>3 DEF TakeBurst, Goto, DelayInfinite
<1>4. CASE PutOff(t)
  BY <1>4 DEF PutOff, Goto
<1>5. CASE EndTransfer(t)
  BY <1>5 DEF EndTransfer, Goto
<1>6. CASE RaiseInterrupt(t)
  BY <1>6 DEF RaiseInterrupt, Goto, DelayInfinite, WithdrawAnswer
<1>7. CASE ResetNoticed(t)
  BY <1>7 DEF ResetNoticed, Goto, ExitAutoMode
<1>8. CASE ProcessBlock(t)
  BY <1>8 DEF ProcessBlock, Goto, SetWaveFormat
<1>9. CASE WriteBurst(t)
  BY <1>9 DEF WriteBurst, Goto
<1>10. CASE NextBurst(t)
  BY <1>10 DEF NextBurst, Goto
<1>11. CASE EndBlock(t)
  BY <1>11 DEF EndBlock, Goto, ExitAutoMode, DelayOfBlock
<1>12. CASE CloseDevice(t)
  BY <1>12 DEF CloseDevice, Goto
<1>13. CASE Deactivate(t)
  BY <1>13 DEF Deactivate, Goto
<1>14. CASE Finish(t)
  BY <1>14 DEF Finish, Goto
<1>15. CASE Unhook(t)
  BY <1>15 DEF Unhook, Goto
<1> QED BY <1>1, <1>2, <1>3, <1>4, <1>5, <1>6, <1>7, <1>8, <1>9, <1>10, <1>11, <1>12, <1>13,
       <1>14, <1>15 DEF DmaStep

LEMMA BusyGuest ==
  ASSUME TypeInv, ThreadInv, ResetInv, CommandInv, BusyInv, ~Preempted, GuestStep
  PROVE  BusyInv'
<1> USE DEF TypeInv, TypeOK, TypeDma, ThreadInv, AtMostOne, ActiveIfThread, ExitInReset,
        LeavesOnExit, StartIsNeeded, RenewIsSafe, CommandInv, BusyInv, InReset, NoThreads,
        ExitPlaces, StartPlaces, Starts, Does, cpuVars, flagVars, irqVars, dmaVars
<1> \A t \in DmaThreads : dma[t] \notin {"finish", "unhook"}
  BY DEF GuestStep, Undisturbed
<1>1. CASE SetBlockSize
  BY <1>1 DEF SetBlockSize
<1>2. CASE SetTimeConstant
  BY <1>2 DEF SetTimeConstant
<1>3. CASE PauseDMA
  BY <1>3 DEF PauseDMA
<1>4. CASE ContinueDMA
  BY <1>4 DEF ContinueDMA
<1>5. CASE StopAuto
  BY <1>5 DEF StopAuto
<1>6. ASSUME NEW o \in Starts, StartBlock(o) PROVE BusyInv'
  BY <1>6 DEF StartBlock
<1>7. ASSUME NEW o \in {"eoi", "heal"}, Eoi(o) PROVE BusyInv'
  BY <1>7 DEF Eoi
<1>8. CASE Query
  BY <1>8 DEF Query
<1>9. CASE DspResetWrite
  BY <1>9 DEF DspResetWrite
<1> QED BY <1>1, <1>2, <1>3, <1>4, <1>5, <1>6, <1>7, <1>8, <1>9 DEF GuestStep

LEMMA BusyCpu ==
  ASSUME TypeInv, ThreadInv, ResetInv, CommandInv, BusyInv, ~Preempted, CpuStep
  PROVE  BusyInv'
<1> USE DEF TypeInv, TypeOK, TypeDma, ThreadInv, AtMostOne, ActiveIfThread, ExitInReset,
        LeavesOnExit, StartIsNeeded, RenewIsSafe, CommandInv, BusyInv, InReset, NoThreads,
        ExitPlaces, StartPlaces, Starts, Does, cpuVars, flagVars, irqVars, dmaVars
<1> \A t \in DmaThreads : dma[t] \notin {"finish", "unhook"}
  BY DEF CpuStep, Undisturbed
<1>1. CASE StartThread
  BY <1>1 DEF StartThread, Goto
<1>2. CASE WaitStarted
  BY <1>2 DEF WaitStarted
<1>3. CASE EnlargeBuffer
  BY <1>3 DEF EnlargeBuffer, GenerateHdrs
<1>4. CASE SetMode
  BY <1>4 DEF SetMode, SetWaveFormat, RegisterEOIHook
<1>5. CASE BeginDmaData
  BY <1>5 DEF BeginDmaData
<1>6. CASE QueueBurst
  BY <1>6 DEF QueueBurst, ReleaseSemaphore
<1>7. CASE AutoInitEoiHook
  BY <1>7 DEF AutoInitEoiHook, SetWaveFormat
<1>8. CASE Spin
  BY <1>8 DEF Spin
<1>9. CASE CountQuery
  BY <1>9 DEF CountQuery
<1>10. CASE ResetDSP
  BY <1>10 DEF ResetDSP, SignalReset
<1>11. CASE WaitResetDone
  BY <1>11 DEF WaitResetDone
<1>12. CASE StopDspDmaThread
  BY <1>12 DEF StopDspDmaThread, StopWait, ReleaseSemaphore
<1>13. CASE WaitFinished
  BY <1>13 DEF WaitFinished
<1>14. CASE Renew
  BY <1>14 DEF Renew, ClearEvents
<1>15. CASE ResetMode
  BY <1>15 DEF ResetMode
<1>16. CASE EndReset
  BY <1>16 DEF EndReset
<1> QED BY <1>1, <1>2, <1>3, <1>4, <1>5, <1>6, <1>7, <1>8, <1>9, <1>10, <1>11, <1>12, <1>13,
       <1>14, <1>15, <1>16 DEF CpuStep

LEMMA BusyDma ==
  ASSUME TypeInv, ThreadInv, ResetInv, CommandInv, BusyInv, NEW t \in DmaThreads, DmaStep(t)
  PROVE  BusyInv'
<1> USE DEF TypeInv, TypeOK, TypeDma, ThreadInv, AtMostOne, ActiveIfThread, ExitInReset,
        LeavesOnExit, StartIsNeeded, RenewIsSafe, CommandInv, BusyInv, InReset, NoThreads,
        ExitPlaces, StartPlaces, Starts, Does, cpuVars, flagVars, irqVars, dmaVars
<1>1. CASE BeginThread(t)
  BY <1>1 DEF BeginThread, Goto
<1>2. CASE LoopTop(t)
  BY <1>2 DEF LoopTop, Goto
<1>3. CASE TakeBurst(t)
  BY <1>3 DEF TakeBurst, Goto, DelayInfinite
<1>4. CASE PutOff(t)
  BY <1>4 DEF PutOff, Goto
<1>5. CASE EndTransfer(t)
  BY <1>5 DEF EndTransfer, Goto
<1>6. CASE RaiseInterrupt(t)
  BY <1>6 DEF RaiseInterrupt, Goto, DelayInfinite, WithdrawAnswer
<1>7. CASE ResetNoticed(t)
  BY <1>7 DEF ResetNoticed, Goto, ExitAutoMode
<1>8. CASE ProcessBlock(t)
  BY <1>8 DEF ProcessBlock, Goto, SetWaveFormat
<1>9. CASE WriteBurst(t)
  BY <1>9 DEF WriteBurst, Goto
<1>10. CASE NextBurst(t)
  BY <1>10 DEF NextBurst, Goto
<1>11. CASE EndBlock(t)
  BY <1>11 DEF EndBlock, Goto, ExitAutoMode, DelayOfBlock
<1>12. CASE CloseDevice(t)
  BY <1>12 DEF CloseDevice, Goto
<1>13. CASE Deactivate(t)
  BY <1>13 DEF Deactivate, Goto
<1>14. CASE Finish(t)
  BY <1>14 DEF Finish, Goto
<1>15. CASE Unhook(t)
  BY <1>15 DEF Unhook, Goto
<1> QED BY <1>1, <1>2, <1>3, <1>4, <1>5, <1>6, <1>7, <1>8, <1>9, <1>10, <1>11, <1>12, <1>13,
       <1>14, <1>15 DEF DmaStep

\* Division with a remainder, as the ring's indices need it.
LEMMA Quotient ==
  ASSUME NEW n \in Nat, n > 0, NEW a \in Nat
  PROVE  a \div n \in Int /\ a % n \in 0 .. n - 1 /\ a = n * (a \div n) + (a % n)
  OBVIOUS

LEMMA Remainder ==
  ASSUME NEW n \in Nat, n > 0, NEW q \in Int, NEW r \in 0 .. n - 1
  PROVE  (n * q + r) % n = r
  OBVIOUS

LEMMA WholeRing ==
  ASSUME NEW n \in Nat, n > 0
  PROVE  n % n = 0
  OBVIOUS

\* Advancing an index and then going b further is going b further and then round the ring.
LEMMA ModShift ==
  ASSUME NEW n \in Nat, n > 0, NEW a \in Nat, NEW b \in Nat
  PROVE  ((a % n) + b) % n = (a + b) % n
<1> DEFINE c == (a % n) + b
           q == a \div n
           p == c \div n
           r == c % n
<1>1. q \in Int /\ a % n \in 0 .. n - 1 /\ a = n * q + (a % n)
  BY Quotient
<1>2. c \in Nat
  BY <1>1
<1>3. p \in Int /\ r \in 0 .. n - 1 /\ c = n * p + r
  BY <1>2, Quotient
<1>4. a + b = n * (q + p) + r
  <2> HIDE DEF q, p, r
  <2>1. a + b = n * q + (n * p + r)
    BY <1>1, <1>3
  <2> QED BY <2>1, <1>1, <1>3
<1>5. (n * (q + p) + r) % n = r
  <2> HIDE DEF q, p, r
  <2>1. q + p \in Int
    BY <1>1, <1>3
  <2> QED BY <2>1, <1>3, Remainder, Zenon
<1> QED BY <1>4, <1>5

LEMMA HookGuest ==
  ASSUME TypeInv, ResetInv, CommandInv, BusyInv, HookInv, BlockInv, Polite, GuestStep
  PROVE  HookInv'
<1> USE DEF Polite, TypeInv, TypeOK, TypeCpu, TypeSync, TypeDma, CommandInv, BusyInv,
        ResetInv, HookInv, BlockInv, Accounts, Sums, Looping, Waiting, InReset, NoThreads,
        ExitPlaces, StartPlaces, Starts, Does, cpuVars, flagVars, irqVars, dmaVars
<1>1. CASE SetBlockSize
  BY <1>1 DEF SetBlockSize
<1>2. CASE SetTimeConstant
  BY <1>2 DEF SetTimeConstant
<1>3. CASE PauseDMA
  BY <1>3 DEF PauseDMA
<1>4. CASE ContinueDMA
  BY <1>4 DEF ContinueDMA
<1>5. CASE StopAuto
  BY <1>5 DEF StopAuto
<1>6. ASSUME NEW o \in Starts, StartBlock(o) PROVE HookInv'
  BY <1>6 DEF StartBlock
<1>7. ASSUME NEW o \in {"eoi", "heal"}, Eoi(o) PROVE HookInv'
  BY <1>7 DEF Eoi
<1>8. CASE Query
  BY <1>8 DEF Query
<1>9. CASE DspResetWrite
  BY <1>9 DEF DspResetWrite
<1> QED BY <1>1, <1>2, <1>3, <1>4, <1>5, <1>6, <1>7, <1>8, <1>9 DEF GuestStep

LEMMA HookCpu ==
  ASSUME TypeInv, ResetInv, CommandInv, BusyInv, HookInv, BlockInv, Polite, CpuStep
  PROVE  HookInv'
<1> USE DEF Polite, TypeInv, TypeOK, TypeCpu, TypeSync, TypeDma, CommandInv, BusyInv,
        ResetInv, HookInv, BlockInv, Accounts, Sums, Looping, Waiting, InReset, NoThreads,
        ExitPlaces, StartPlaces, Starts, Does, cpuVars, flagVars, irqVars, dmaVars
<1>1. CASE StartThread
  BY <1>1 DEF StartThread, Goto
<1>2. CASE WaitStarted
  BY <1>2 DEF WaitStarted
<1>3. CASE EnlargeBuffer
  BY <1>3 DEF EnlargeBuffer, GenerateHdrs
<1>4. CASE SetMode
  BY <1>4 DEF SetMode, SetWaveFormat, RegisterEOIHook
<1>5. CASE BeginDmaData
  BY <1>5 DEF BeginDmaData
<1>6. CASE QueueBurst
  BY <1>6 DEF QueueBurst, ReleaseSemaphore
<1>7. CASE AutoInitEoiHook
  BY <1>7 DEF AutoInitEoiHook, SetWaveFormat
<1>8. CASE Spin
  BY <1>8 DEF Spin
<1>9. CASE CountQuery
  BY <1>9 DEF CountQuery
<1>10. CASE ResetDSP
  BY <1>10 DEF ResetDSP, SignalReset
<1>11. CASE WaitResetDone
  BY <1>11 DEF WaitResetDone
<1>12. CASE StopDspDmaThread
  BY <1>12 DEF StopDspDmaThread, StopWait, ReleaseSemaphore
<1>13. CASE WaitFinished
  BY <1>13 DEF WaitFinished
<1>14. CASE Renew
  BY <1>14 DEF Renew, ClearEvents
<1>15. CASE ResetMode
  BY <1>15 DEF ResetMode
<1>16. CASE EndReset
  BY <1>16 DEF EndReset
<1> QED BY <1>1, <1>2, <1>3, <1>4, <1>5, <1>6, <1>7, <1>8, <1>9, <1>10, <1>11, <1>12, <1>13,
       <1>14, <1>15, <1>16 DEF CpuStep

LEMMA HookDma ==
  ASSUME TypeInv, ResetInv, CommandInv, BusyInv, HookInv, BlockInv, Polite,
         NEW t \in DmaThreads, DmaStep(t)
  PROVE  HookInv'
<1> USE DEF Polite, TypeInv, TypeOK, TypeCpu, TypeSync, TypeDma, CommandInv, BusyInv,
        ResetInv, HookInv, BlockInv, Accounts, Sums, Looping, Waiting, InReset, NoThreads,
        ExitPlaces, StartPlaces, Starts, Does, cpuVars, flagVars, irqVars, dmaVars
<1>1. CASE BeginThread(t)
  BY <1>1 DEF BeginThread, Goto
<1>2. CASE LoopTop(t)
  BY <1>2 DEF LoopTop, Goto
<1>3. CASE TakeBurst(t)
  BY <1>3 DEF TakeBurst, Goto, DelayInfinite
<1>4. CASE PutOff(t)
  BY <1>4 DEF PutOff, Goto
<1>5. CASE EndTransfer(t)
  BY <1>5 DEF EndTransfer, Goto
<1>6. CASE RaiseInterrupt(t)
  BY <1>6 DEF RaiseInterrupt, Goto, DelayInfinite, WithdrawAnswer
<1>7. CASE ResetNoticed(t)
  BY <1>7 DEF ResetNoticed, Goto, ExitAutoMode
<1>8. CASE ProcessBlock(t)
  BY <1>8 DEF ProcessBlock, Goto, SetWaveFormat
<1>9. CASE WriteBurst(t)
  BY <1>9 DEF WriteBurst, Goto
<1>10. CASE NextBurst(t)
  BY <1>10 DEF NextBurst, Goto
<1>11. CASE EndBlock(t)
  BY <1>11 DEF EndBlock, Goto, ExitAutoMode, DelayOfBlock
<1>12. CASE CloseDevice(t)
  BY <1>12 DEF CloseDevice, Goto
<1>13. CASE Deactivate(t)
  BY <1>13 DEF Deactivate, Goto
<1>14. CASE Finish(t)
  BY <1>14 DEF Finish, Goto
<1>15. CASE Unhook(t)
  BY <1>15 DEF Unhook, Goto
<1> QED BY <1>1, <1>2, <1>3, <1>4, <1>5, <1>6, <1>7, <1>8, <1>9, <1>10, <1>11, <1>12, <1>13,
       <1>14, <1>15 DEF DmaStep

LEMMA DelayGuest ==
  ASSUME TypeInv, DelayInv, GuestStep
  PROVE  DelayInv'
<1> USE DEF TypeInv, TypeOK, TypeDma, DelayInv, dmaVars
<1>1. CASE SetBlockSize
  BY <1>1 DEF SetBlockSize
<1>2. CASE SetTimeConstant
  BY <1>2 DEF SetTimeConstant
<1>3. CASE PauseDMA
  BY <1>3 DEF PauseDMA
<1>4. CASE ContinueDMA
  BY <1>4 DEF ContinueDMA
<1>5. CASE StopAuto
  BY <1>5 DEF StopAuto
<1>6. ASSUME NEW o \in Starts, StartBlock(o) PROVE DelayInv'
  BY <1>6 DEF StartBlock
<1>7. ASSUME NEW o \in {"eoi", "heal"}, Eoi(o) PROVE DelayInv'
  BY <1>7 DEF Eoi
<1>8. CASE Query
  BY <1>8 DEF Query
<1>9. CASE DspResetWrite
  BY <1>9 DEF DspResetWrite
<1> QED BY <1>1, <1>2, <1>3, <1>4, <1>5, <1>6, <1>7, <1>8, <1>9 DEF GuestStep

LEMMA DelayCpu ==
  ASSUME TypeInv, DelayInv, CpuStep
  PROVE  DelayInv'
<1> USE DEF TypeInv, TypeOK, TypeDma, DelayInv, dmaVars
<1>1. CASE StartThread
  BY <1>1 DEF StartThread, Goto
<1>2. CASE WaitStarted
  BY <1>2 DEF WaitStarted
<1>3. CASE EnlargeBuffer
  BY <1>3 DEF EnlargeBuffer, GenerateHdrs
<1>4. CASE SetMode
  BY <1>4 DEF SetMode, SetWaveFormat, RegisterEOIHook
<1>5. CASE BeginDmaData
  BY <1>5 DEF BeginDmaData
<1>6. CASE QueueBurst
  BY <1>6 DEF QueueBurst, ReleaseSemaphore
<1>7. CASE AutoInitEoiHook
  BY <1>7 DEF AutoInitEoiHook, SetWaveFormat
<1>8. CASE Spin
  BY <1>8 DEF Spin
<1>9. CASE CountQuery
  BY <1>9 DEF CountQuery
<1>10. CASE ResetDSP
  BY <1>10 DEF ResetDSP, SignalReset
<1>11. CASE WaitResetDone
  BY <1>11 DEF WaitResetDone
<1>12. CASE StopDspDmaThread
  BY <1>12 DEF StopDspDmaThread, StopWait, ReleaseSemaphore
<1>13. CASE WaitFinished
  BY <1>13 DEF WaitFinished
<1>14. CASE Renew
  BY <1>14 DEF Renew, ClearEvents
<1>15. CASE ResetMode
  BY <1>15 DEF ResetMode
<1>16. CASE EndReset
  BY <1>16 DEF EndReset
<1> QED BY <1>1, <1>2, <1>3, <1>4, <1>5, <1>6, <1>7, <1>8, <1>9, <1>10, <1>11, <1>12, <1>13,
       <1>14, <1>15, <1>16 DEF CpuStep

LEMMA DelayDma ==
  ASSUME TypeInv, DelayInv, NEW t \in DmaThreads, DmaStep(t)
  PROVE  DelayInv'
<1> USE DEF TypeInv, TypeOK, TypeDma, DelayInv, dmaVars
<1>1. CASE BeginThread(t)
  BY <1>1 DEF BeginThread, Goto
<1>2. CASE LoopTop(t)
  BY <1>2 DEF LoopTop, Goto
<1>3. CASE TakeBurst(t)
  BY <1>3 DEF TakeBurst, Goto, DelayInfinite
<1>4. CASE PutOff(t)
  BY <1>4 DEF PutOff, Goto
<1>5. CASE EndTransfer(t)
  BY <1>5 DEF EndTransfer, Goto
<1>6. CASE RaiseInterrupt(t)
  BY <1>6 DEF RaiseInterrupt, Goto, DelayInfinite, WithdrawAnswer
<1>7. CASE ResetNoticed(t)
  BY <1>7 DEF ResetNoticed, Goto, ExitAutoMode
<1>8. CASE ProcessBlock(t)
  BY <1>8 DEF ProcessBlock, Goto, SetWaveFormat
<1>9. CASE WriteBurst(t)
  BY <1>9 DEF WriteBurst, Goto
<1>10. CASE NextBurst(t)
  BY <1>10 DEF NextBurst, Goto
<1>11. CASE EndBlock(t)
  BY <1>11 DEF EndBlock, Goto, ExitAutoMode, DelayOfBlock
<1>12. CASE CloseDevice(t)
  BY <1>12 DEF CloseDevice, Goto
<1>13. CASE Deactivate(t)
  BY <1>13 DEF Deactivate, Goto
<1>14. CASE Finish(t)
  BY <1>14 DEF Finish, Goto
<1>15. CASE Unhook(t)
  BY <1>15 DEF Unhook, Goto
<1> QED BY <1>1, <1>2, <1>3, <1>4, <1>5, <1>6, <1>7, <1>8, <1>9, <1>10, <1>11, <1>12, <1>13,
       <1>14, <1>15 DEF DmaStep

\* Nothing of the block has changed.
LEMMA BlockFrame ==
  ASSUME BlockInv, UNCHANGED <<toQueue, ringVars, owed, dma, rest, delay>>,
         InReset => InReset', cpu' = "queue" => cpu = "queue"
  PROVE  BlockInv'
<1>1. ASSUME NEW t \in DmaThreads, Accounts(t) PROVE Accounts(t)'
  BY <1>1 DEF Accounts, Sums, InPlace, Waiting, Played, Taken, Advance, ringVars
<1> QED BY <1>1 DEF BlockInv, Looping, ringVars

\* A step of the one thread: its account and the CPU thread's are all there is to show.
LEMMA BlockOfOne ==
  ASSUME ThreadInv, NEW t \in DmaThreads, dma[t] # "none",
         \A u \in DmaThreads : u # t => dma'[u] = dma[u],
         Looping(t)' /\ ~InReset' => Accounts(t)',
         cpu' = "queue" => owed' /\ sem' + toQueue' <= Longest
  PROVE  BlockInv'
<1>1. ASSUME NEW u \in DmaThreads, u # t PROVE dma'[u] = "none"
  BY <1>1 DEF ThreadInv, AtMostOne
<1> QED BY <1>1 DEF BlockInv, Looping

\* When a block is to be handed over or is being handed over, a thread is in its loop.
LEMMA SomeReader ==
  ASSUME TypeInv, ThreadInv, BusyInv, cpu \in {"mode", "buffer", "dma", "queue"}
  PROVE  \E t \in DmaThreads : Looping(t)
<1>1. PICK t \in DmaThreads : dma[t] \notin {"none", "finish", "unhook"}
  BY DEF BusyInv
<1>2. dma[t] \notin {"close", "leave"}
  BY DEF ThreadInv, LeavesOnExit, ExitInReset, ExitPlaces
<1> QED BY <1>1, <1>2 DEF Looping, TypeInv, TypeOK, TypeDma, ThreadPlaces

LEMMA BlockGuest ==
  ASSUME TypeInv, CommandInv, BlockInv, GuestStep
  PROVE  BlockInv'
<1> USE DEF CommandInv, InReset, ExitPlaces, Starts, Does, cpuVars, ringVars, irqVars,
        dmaVars
<1>1. CASE SetBlockSize
  BY <1>1, BlockFrame DEF SetBlockSize
<1>2. CASE SetTimeConstant
  BY <1>2, BlockFrame DEF SetTimeConstant
<1>3. CASE PauseDMA
  BY <1>3, BlockFrame DEF PauseDMA
<1>4. CASE ContinueDMA
  BY <1>4, BlockFrame DEF ContinueDMA
<1>5. CASE StopAuto
  BY <1>5, BlockFrame DEF StopAuto
<1>6. ASSUME NEW o \in Starts, StartBlock(o) PROVE BlockInv'
  BY <1>6, BlockFrame DEF StartBlock
<1>7. ASSUME NEW o \in {"eoi", "heal"}, Eoi(o) PROVE BlockInv'
  BY <1>7, BlockFrame DEF Eoi
<1>8. CASE Query
  BY <1>8, BlockFrame DEF Query
<1>9. CASE DspResetWrite
  BY <1>9 DEF DspResetWrite, BlockInv, Looping
<1> QED BY <1>1, <1>2, <1>3, <1>4, <1>5, <1>6, <1>7, <1>8, <1>9 DEF GuestStep

LEMMA BlockCpu ==
  ASSUME TypeInv, ThreadInv, ResetInv, CommandInv, BusyInv, DelayInv, BlockInv, Countable,
         CpuStep
  PROVE  BlockInv'
<1> USE DEF CommandInv, InReset, ExitPlaces, StartPlaces, cpuVars, ringVars, irqVars,
        dmaVars
<1>1. CASE StartThread
  <2>1. CASE cpu' = "guest"
    BY <1>1, <2>1, BlockFrame DEF StartThread
  <2>2. CASE cpu' # "guest"
    <3>1. PICK t \in DmaThreads : dma[t] = "none" /\ dma' = [dma EXCEPT ![t] = "begin"]
      BY <1>1, <2>2 DEF StartThread, Goto
    <3>2. nextRead' = total - 1 /\ nextWrite' = 0 /\ sem' = 0 /\ cpu' = "waitStarted"
      BY <1>1, <2>2 DEF StartThread
    <3>3. UNCHANGED <<op, toQueue, owed, total, delay>> /\ ~owed /\ ~active
      BY <1>1, <2>2 DEF StartThread, ThreadInv, StartIsNeeded
    <3>4. ASSUME NEW u \in DmaThreads, Looping(u)' PROVE Accounts(u)'
      <4>1. u = t
        BY <3>1, <3>3, <3>4 DEF ThreadInv, ActiveIfThread, Looping, TypeInv, TypeOK, TypeDma
      <4>2. dma'[t] = "begin" /\ ~delay[t]
        BY <3>1 DEF DelayInv, TypeInv, TypeOK, TypeDma
      <4>3. Sums(t)'
        BY <3>2, <3>3, <4>2 DEF Sums, Waiting, Played
      <4>4. total \in Nat /\ total > 0 /\ total % total = 0
        BY WholeRing DEF TypeInv, TypeOK, TypeRing
      <4>5. InPlace(t)'
        BY <3>2, <3>3, <4>2, <4>4 DEF InPlace, Taken
      <4> QED BY <4>1, <4>3, <4>5 DEF Accounts
    <3> QED BY <3>2, <3>4 DEF BlockInv
  <2> QED BY <2>1, <2>2
<1>2. CASE WaitStarted
  BY <1>2, BlockFrame DEF WaitStarted
<1>3. CASE EnlargeBuffer
  <2>1. CASE ~(blockSize > total - 1)
    BY <1>3, <2>1, BlockFrame DEF EnlargeBuffer
  <2>2. CASE blockSize > total - 1
    <3>1. total' = blockSize + 1 /\ nextRead' = blockSize /\ nextWrite' = 0 /\ cpu' = "mode"
      BY <1>3, <2>2 DEF EnlargeBuffer, GenerateHdrs
    <3>2. UNCHANGED <<op, toQueue, owed, sem, dma, rest, delay>> /\ ~owed
      BY <1>3 DEF EnlargeBuffer
    <3>3. blockSize \in Nat
      BY SbAssumption DEF TypeInv, TypeOK, TypeWave
    <3>4. ASSUME NEW t \in DmaThreads, Looping(t)', ~InReset' PROVE Accounts(t)'
      <4>1. Waiting(t) /\ sem = 0
        BY <3>2, <3>4 DEF BlockInv, Accounts, Sums, Looping
      <4>2. Sums(t)'
        BY <3>2, <4>1 DEF Sums, Waiting, Played
      <4>3. (blockSize + 1) % (blockSize + 1) = 0
        BY <3>3, WholeRing
      <4>4. nextRead' + 1 + sem' + Taken(t)' = blockSize + 1
        BY <3>1, <3>2, <3>3, <4>1 DEF Waiting, Taken
      <4>5. InPlace(t)'
        BY <3>1, <4>3, <4>4 DEF InPlace
      <4> QED BY <4>2, <4>5 DEF Accounts
    <3> QED BY <3>1, <3>4 DEF BlockInv
  <2> QED BY <2>1, <2>2
<1>4. CASE SetMode
  BY <1>4, BlockFrame DEF SetMode, SetWaveFormat, RegisterEOIHook
<1>5. CASE BeginDmaData
  <2>1. CASE cpu' = "guest"
    BY <1>5, <2>1, BlockFrame DEF BeginDmaData
  <2>2. CASE cpu' # "guest"
    <3>1. sizes' = [sizes EXCEPT ![nextWrite] = blockSize] /\ toQueue' = blockSize /\ owed'
      BY <1>5, <2>2 DEF BeginDmaData
    <3>2. UNCHANGED <<op, total, nextRead, nextWrite, sem, dma, rest, delay>> /\ ~owed
      BY <1>5, <2>2 DEF BeginDmaData
    <3>3. blockSize \in Nat /\ blockSize <= Longest /\ Longest \in Nat
      BY SbAssumption DEF TypeInv, TypeOK, TypeWave
    <3>4. ASSUME NEW t \in DmaThreads, Looping(t), ~InReset PROVE sem = 0 /\ Accounts(t)'
      <4>1. Waiting(t) /\ sem = 0 /\ InPlace(t)
        BY <3>2, <3>4 DEF BlockInv, Accounts, Sums
      <4>2. Advance(nextRead) = nextWrite
        <5>1. Taken(t) = 0
          BY <4>1 DEF Waiting, Taken
        <5> QED BY <4>1, <5>1 DEF InPlace, Advance, TypeInv, TypeOK, TypeRing
      <4>3. nextWrite \in Indices
        BY SbAssumption DEF TypeInv, TypeOK, TypeRing, Indices
      <4>4. sizes'[nextWrite] = blockSize
        BY <3>1, <4>3 DEF TypeInv, TypeOK, TypeRing
      <4>5. Advance(nextRead)' = nextWrite
        BY <3>2, <4>2 DEF Advance
      <4>6. Sums(t)'
        BY <3>1, <3>2, <3>3, <4>1, <4>4, <4>5 DEF Sums, Waiting, Played
      <4>7. InPlace(t)'
        BY <3>2, <4>1 DEF InPlace, Taken
      <4> QED BY <4>1, <4>6, <4>7 DEF Accounts
    <3>5. PICK t \in DmaThreads : Looping(t)
      BY <1>5, SomeReader DEF BeginDmaData
    <3>6. sem = 0 /\ ~InReset
      BY <1>5, <3>4, <3>5 DEF BeginDmaData
    <3> QED BY <3>1, <3>2, <3>3, <3>4, <3>6 DEF BlockInv, Looping
  <2> QED BY <2>1, <2>2
<1>6. CASE QueueBurst
  <2>1. sem < SemMax /\ owed /\ sem + toQueue <= Longest /\ ~InReset
    <3>1. toQueue > 0 /\ owed /\ sem + toQueue <= Longest
      BY <1>6 DEF QueueBurst, TypeInv, Counting, BlockInv
    <3>2. Longest \in Nat /\ Longest <= SemMax /\ SemMax \in Nat
      BY SbAssumption DEF Countable
    <3>3. sem \in Nat /\ toQueue \in Nat
      BY DEF TypeInv, TypeOK, TypeCpu, TypeRing
    <3> QED BY <1>6, <3>1, <3>2, <3>3 DEF QueueBurst
  <2>2. sem' = sem + 1 /\ toQueue' = toQueue - 1 /\ nextWrite' = (nextWrite + 1) % total
    BY <1>6, <2>1 DEF QueueBurst, ReleaseSemaphore, Advance
  <2>3. UNCHANGED <<owed, total, nextRead, sizes, dma, rest, delay>>
    BY <1>6 DEF QueueBurst
  <2>4. sem \in Nat /\ toQueue \in Nat /\ toQueue > 0
    BY <1>6 DEF QueueBurst, TypeInv, TypeOK, TypeCpu, TypeRing, Counting
  <2>5. ASSUME NEW t \in DmaThreads, Looping(t) PROVE Accounts(t)'
    <3>1. Sums(t) /\ InPlace(t)
      BY <2>1, <2>5 DEF BlockInv, Accounts
    <3>2. Advance(nextRead)' = Advance(nextRead)
      BY <2>3 DEF Advance
    <3>3. Sums(t)'
      BY <2>1, <2>2, <2>3, <2>4, <3>1, <3>2 DEF Sums, Waiting, Played
    <3>4. InPlace(t)'
      <4> DEFINE a == nextRead + 1 + sem + Taken(t)
      <4>1. a \in Nat /\ total \in Nat /\ total > 0
        BY <2>4 DEF Taken, TypeInv, TypeOK, TypeRing
      <4>2. a' = a + 1
        BY <2>2, <2>3, <2>4 DEF Taken, TypeInv, TypeOK, TypeRing
      <4>3. nextWrite = a % total
        BY <3>1 DEF InPlace
      <4>4. ((a % total) + 1) % total = (a + 1) % total
        BY <4>1, ModShift
      <4>5. a' % total' = nextWrite'
        <5> HIDE DEF a
        <5> QED BY <2>2, <2>3, <4>2, <4>3, <4>4
      <4> QED BY <4>5 DEF InPlace
    <3> QED BY <3>3, <3>4 DEF Accounts
  <2>6. sem' + toQueue' <= Longest
    BY <2>1, <2>2, <2>4
  <2> QED BY <2>1, <2>3, <2>5, <2>6 DEF BlockInv, Looping
<1>7. CASE AutoInitEoiHook
  BY <1>7, BlockFrame DEF AutoInitEoiHook, SetWaveFormat
<1>8. CASE Spin
  BY <1>8, BlockFrame DEF Spin
<1>9. CASE CountQuery
  BY <1>9, BlockFrame DEF CountQuery
<1>10. CASE ResetDSP
  BY <1>10, BlockFrame DEF ResetDSP, SignalReset
<1>11. CASE WaitResetDone
  BY <1>11, BlockFrame DEF WaitResetDone
<1>12. CASE StopDspDmaThread
  BY <1>12 DEF StopDspDmaThread, StopWait, ReleaseSemaphore, BlockInv, Looping, ResetInv,
     NoThreads
<1>13. CASE WaitFinished
  BY <1>13, BlockFrame DEF WaitFinished
<1>14. CASE Renew
  BY <1>14 DEF Renew, ClearEvents, BlockInv, Looping, ResetInv, NoThreads
<1>15. CASE ResetMode
  BY <1>15 DEF ResetMode, BlockInv, Looping, ResetInv, NoThreads
<1>16. CASE EndReset
  BY <1>16 DEF EndReset, BlockInv, Looping, ResetInv, NoThreads
<1> QED BY <1>1, <1>2, <1>3, <1>4, <1>5, <1>6, <1>7, <1>8, <1>9, <1>10, <1>11, <1>12, <1>13,
       <1>14, <1>15, <1>16 DEF CpuStep

LEMMA BlockDma ==
  ASSUME TypeInv, ThreadInv, CommandInv, DelayInv, BlockInv, NEW t \in DmaThreads,
         DmaStep(t)
  PROVE  BlockInv'
<1> USE DEF TypeInv, TypeOK, TypeCpu, TypeRing, TypeSync, TypeDma, Counting, CommandInv,
        DelayInv, InReset, ExitPlaces, cpuVars, flagVars, ringVars, eventVars, irqVars,
        dmaVars
<1> Longest \in Nat /\ SemMax \in Nat
  BY SbAssumption
<1>1. CASE BeginThread(t)
  <2>1. dma[t] # "none" /\ op' = op /\ \A u \in DmaThreads : u # t => dma'[u] = dma[u]
    BY <1>1 DEF BeginThread, Goto
  <2>2. ASSUME Looping(t)', ~InReset' PROVE Accounts(t)'
    <3>1. Sums(t) /\ InPlace(t)
      BY <1>1, <2>1, <2>2 DEF BeginThread, BlockInv, Looping, Accounts
    <3>2. Sums(t)'
      BY <1>1, <2>1, <2>2, <3>1 DEF BeginThread, Goto, Sums, Waiting, Played, Advance
    <3>3. InPlace(t)'
      BY <1>1, <2>1, <2>2, <3>1 DEF BeginThread, Goto, InPlace, Taken
    <3> QED BY <3>2, <3>3 DEF Accounts
  <2>3. cpu' = "queue" => owed' /\ sem' + toQueue' <= Longest
    BY <1>1 DEF BeginThread, BlockInv
  <2> QED BY <2>1, <2>2, <2>3, BlockOfOne
<1>2. CASE LoopTop(t)
  <2>1. dma[t] # "none" /\ op' = op /\ \A u \in DmaThreads : u # t => dma'[u] = dma[u]
    BY <1>2 DEF LoopTop, Goto
  <2>2. ASSUME Looping(t)', ~InReset' PROVE Accounts(t)'
    <3>1. Sums(t) /\ InPlace(t)
      BY <1>2, <2>1, <2>2 DEF LoopTop, BlockInv, Looping, Accounts
    <3>2. Sums(t)'
      BY <1>2, <2>1, <2>2, <3>1 DEF LoopTop, Goto, Sums, Waiting, Played, Advance, Looping
    <3>3. InPlace(t)'
      BY <1>2, <2>1, <2>2, <3>1 DEF LoopTop, Goto, InPlace, Taken
    <3> QED BY <3>2, <3>3 DEF Accounts
  <2>3. cpu' = "queue" => owed' /\ sem' + toQueue' <= Longest
    BY <1>2 DEF LoopTop, BlockInv
  <2> QED BY <2>1, <2>2, <2>3, BlockOfOne
<1>3. CASE TakeBurst(t)
  <2>1. dma[t] # "none" /\ op' = op /\ \A u \in DmaThreads : u # t => dma'[u] = dma[u]
    BY <1>3 DEF TakeBurst, Goto
  <2>2. ASSUME Looping(t)', ~InReset' PROVE Accounts(t)'
    <3>1. Sums(t) /\ InPlace(t)
      BY <1>3, <2>1, <2>2 DEF TakeBurst, BlockInv, Looping, Accounts
    <3>2. Sums(t)'
      BY <1>3, <2>1, <2>2, <3>1 DEF TakeBurst, Goto, DelayInfinite, Sums, Waiting, Played,
         Advance
    <3>3. InPlace(t)'
      BY <1>3, <2>1, <2>2, <3>1 DEF TakeBurst, Goto, InPlace, Taken
    <3> QED BY <3>2, <3>3 DEF Accounts
  <2>3. cpu' = "queue" => owed' /\ sem' + toQueue' <= Longest
    BY <1>3 DEF TakeBurst, BlockInv
  <2> QED BY <2>1, <2>2, <2>3, BlockOfOne
<1>4. CASE PutOff(t)
  <2>1. dma[t] # "none" /\ op' = op /\ \A u \in DmaThreads : u # t => dma'[u] = dma[u]
    BY <1>4 DEF PutOff, Goto
  <2>2. ASSUME Looping(t)', ~InReset' PROVE Accounts(t)'
    <3>1. Sums(t) /\ InPlace(t)
      BY <1>4, <2>1, <2>2 DEF PutOff, BlockInv, Looping, Accounts
    <3>2. Sums(t)'
      BY <1>4, <2>1, <2>2, <3>1 DEF PutOff, Goto, Sums, Waiting, Played, Advance
    <3>3. InPlace(t)'
      BY <1>4, <2>1, <2>2, <3>1 DEF PutOff, Goto, InPlace, Taken
    <3> QED BY <3>2, <3>3 DEF Accounts
  <2>3. cpu' = "queue" => owed' /\ sem' + toQueue' <= Longest
    BY <1>4 DEF PutOff, BlockInv
  <2> QED BY <2>1, <2>2, <2>3, BlockOfOne
<1>5. CASE EndTransfer(t)
  <2>1. dma[t] # "none" /\ op' = op /\ \A u \in DmaThreads : u # t => dma'[u] = dma[u]
    BY <1>5 DEF EndTransfer, Goto
  <2>2. ASSUME Looping(t)', ~InReset' PROVE Accounts(t)'
    <3>1. Sums(t) /\ InPlace(t)
      BY <1>5, <2>1, <2>2 DEF EndTransfer, BlockInv, Looping, Accounts
    <3>2. Sums(t)'
      BY <1>5, <2>1, <2>2, <3>1 DEF EndTransfer, Goto, Sums, Waiting, Played, Advance
    <3>3. InPlace(t)'
      BY <1>5, <2>1, <2>2, <3>1 DEF EndTransfer, Goto, InPlace, Taken
    <3> QED BY <3>2, <3>3 DEF Accounts
  <2>3. cpu' = "queue" => owed' /\ sem' + toQueue' <= Longest
    BY <1>5 DEF EndTransfer, BlockInv
  <2> QED BY <2>1, <2>2, <2>3, BlockOfOne
<1>6. CASE RaiseInterrupt(t)
  <2>1. dma[t] # "none" /\ op' = op /\ \A u \in DmaThreads : u # t => dma'[u] = dma[u]
    BY <1>6 DEF RaiseInterrupt, Goto
  <2>2. ASSUME Looping(t)', ~InReset' PROVE Accounts(t)'
    <3>1. Sums(t) /\ InPlace(t)
      BY <1>6, <2>1, <2>2 DEF RaiseInterrupt, BlockInv, Looping, Accounts
    <3>2. Sums(t)'
      BY <1>6, <2>1, <2>2, <3>1 DEF RaiseInterrupt, Goto, DelayInfinite, Sums, Waiting, Played,
         Advance
    <3>3. InPlace(t)'
      BY <1>6, <2>1, <2>2, <3>1 DEF RaiseInterrupt, Goto, InPlace, Taken
    <3> QED BY <3>2, <3>3 DEF Accounts
  <2>3. cpu' = "queue" => owed' /\ sem' + toQueue' <= Longest
    <3>1. CASE InReset
      BY <1>6, <3>1 DEF RaiseInterrupt
    <3>2. CASE ~InReset
      <4>1. toQueue = 0
        BY <1>6, <3>2 DEF RaiseInterrupt, BlockInv, Looping, Accounts, Sums, Played
      <4> QED BY <1>6, <4>1 DEF RaiseInterrupt, Counting
    <3> QED BY <3>1, <3>2
  <2> QED BY <2>1, <2>2, <2>3, BlockOfOne
<1>7. CASE ResetNoticed(t)
  <2>1. dma[t] # "none" /\ op' = op /\ \A u \in DmaThreads : u # t => dma'[u] = dma[u]
    BY <1>7 DEF ResetNoticed, Goto
  <2>2. ASSUME Looping(t)', ~InReset' PROVE Accounts(t)'
    BY <1>7, <2>1, <2>2 DEF ResetNoticed
  <2>3. cpu' = "queue" => owed' /\ sem' + toQueue' <= Longest
    BY <1>7 DEF ResetNoticed, BlockInv
  <2> QED BY <2>1, <2>2, <2>3, BlockOfOne
<1>8. CASE ProcessBlock(t)
  <2>1. dma[t] # "none" /\ op' = op /\ \A u \in DmaThreads : u # t => dma'[u] = dma[u]
    BY <1>8 DEF ProcessBlock, Goto
  <2>2. ASSUME Looping(t)', ~InReset' PROVE Accounts(t)'
    <3>1. Sums(t) /\ InPlace(t)
      BY <1>8, <2>1, <2>2 DEF ProcessBlock, BlockInv, Looping, Accounts
    <3>2. Sums(t)'
      BY <1>8, <2>1, <2>2, <3>1 DEF ProcessBlock, Goto, Sums, Waiting, Played, Advance,
         WaveBlockSize
    <3>3. InPlace(t)'
      <4>1. (((nextRead + 1) % total) + (1 + sem)) % total = (nextRead + 1 + (1 + sem)) % total
        <5>1. nextRead + 1 \in Nat /\ 1 + sem \in Nat /\ total \in Nat /\ total > 0
          OBVIOUS
        <5> QED BY <5>1, ModShift
      <4>2. nextRead' = (nextRead + 1) % total /\ nextRead' \in Nat /\ Taken(t)' = 0
        BY <1>8, AdvanceInRing DEF ProcessBlock, Goto, Advance, Taken
      <4>3. (nextRead + 2 + sem) % total = nextWrite
        BY <1>8, <3>1 DEF ProcessBlock, InPlace, Taken
      <4>4. UNCHANGED <<sem, total, nextWrite>>
        BY <1>8 DEF ProcessBlock
      <4>5. nextRead + 1 + (1 + sem) = nextRead + 2 + sem
        OBVIOUS
      <4>6. (nextRead' + (1 + sem)) % total = nextWrite
        BY <4>1, <4>2, <4>3, <4>5, Zenon
      <4>7. nextRead' + 1 + sem' + Taken(t)' = nextRead' + (1 + sem)
        BY <4>2, <4>4
      <4> QED BY <4>4, <4>6, <4>7 DEF InPlace
    <3> QED BY <3>2, <3>3 DEF Accounts
  <2>3. cpu' = "queue" => owed' /\ sem' + toQueue' <= Longest
    BY <1>8 DEF ProcessBlock, BlockInv
  <2> QED BY <2>1, <2>2, <2>3, BlockOfOne
<1>9. CASE WriteBurst(t)
  <2>1. dma[t] # "none" /\ op' = op /\ \A u \in DmaThreads : u # t => dma'[u] = dma[u]
    BY <1>9 DEF WriteBurst, Goto
  <2>2. ASSUME Looping(t)', ~InReset' PROVE Accounts(t)'
    <3>1. Sums(t) /\ InPlace(t)
      BY <1>9, <2>1, <2>2 DEF WriteBurst, BlockInv, Looping, Accounts
    <3>2. Sums(t)'
      BY <1>9, <2>1, <2>2, <3>1 DEF WriteBurst, Goto, Sums, Waiting, Played, Advance
    <3>3. InPlace(t)'
      <4>1. CASE rest[t] > 1
        <5>1. (((nextRead + 1) % total) + sem) % total = (nextRead + 1 + sem) % total
          <6>1. nextRead + 1 \in Nat /\ sem \in Nat /\ total \in Nat /\ total > 0
            OBVIOUS
          <6> QED BY <6>1, ModShift
        <5>2. nextRead' = (nextRead + 1) % total /\ nextRead' \in Nat /\ Taken(t)' = -1
          BY <1>9, <4>1, AdvanceInRing DEF WriteBurst, Goto, Advance, Taken
        <5>3. (nextRead + 1 + sem) % total = nextWrite
          BY <1>9, <3>1 DEF WriteBurst, InPlace, Taken
        <5>4. UNCHANGED <<sem, total, nextWrite>>
          BY <1>9 DEF WriteBurst
        <5>5. nextRead' + 1 + sem' + Taken(t)' = nextRead' + sem
          BY <5>2, <5>4
        <5>6. (nextRead' + sem) % total = nextWrite
          BY <5>1, <5>2, <5>3, Zenon
        <5> QED BY <5>4, <5>5, <5>6 DEF InPlace
      <4>2. CASE ~(rest[t] > 1)
        BY <1>9, <3>1, <4>2 DEF WriteBurst, Goto, InPlace, Taken
      <4> QED BY <4>1, <4>2
    <3> QED BY <3>2, <3>3 DEF Accounts
  <2>3. cpu' = "queue" => owed' /\ sem' + toQueue' <= Longest
    BY <1>9 DEF WriteBurst, BlockInv
  <2> QED BY <2>1, <2>2, <2>3, BlockOfOne
<1>10. CASE NextBurst(t)
  <2>1. dma[t] # "none" /\ op' = op /\ \A u \in DmaThreads : u # t => dma'[u] = dma[u]
    BY <1>10 DEF NextBurst, Goto
  <2>2. ASSUME Looping(t)', ~InReset' PROVE Accounts(t)'
    <3>1. Sums(t) /\ InPlace(t)
      BY <1>10, <2>1, <2>2 DEF NextBurst, BlockInv, Looping, Accounts
    <3>2. Sums(t)'
      BY <1>10, <2>1, <2>2, <3>1 DEF NextBurst, Goto, Sums, Waiting, Played, Advance
    <3>3. InPlace(t)'
      BY <1>10, <2>1, <2>2, <3>1 DEF NextBurst, Goto, InPlace, Taken
    <3> QED BY <3>2, <3>3 DEF Accounts
  <2>3. cpu' = "queue" => owed' /\ sem' + toQueue' <= Longest
    BY <1>10 DEF NextBurst, BlockInv
  <2> QED BY <2>1, <2>2, <2>3, BlockOfOne
<1>11. CASE EndBlock(t)
  <2>1. dma[t] # "none" /\ op' = op /\ \A u \in DmaThreads : u # t => dma'[u] = dma[u]
    BY <1>11 DEF EndBlock, Goto
  <2>2. ASSUME Looping(t)', ~InReset' PROVE Accounts(t)'
    <3>1. Sums(t) /\ InPlace(t)
      BY <1>11, <2>1, <2>2 DEF EndBlock, BlockInv, Looping, Accounts
    <3>2. Sums(t)'
      BY <1>11, <2>1, <2>2, <3>1 DEF EndBlock, Goto, DelayOfBlock, Sums, Waiting, Played,
         Advance
    <3>3. InPlace(t)'
      BY <1>11, <2>1, <2>2, <3>1 DEF EndBlock, Goto, InPlace, Taken
    <3> QED BY <3>2, <3>3 DEF Accounts
  <2>3. cpu' = "queue" => owed' /\ sem' + toQueue' <= Longest
    BY <1>11 DEF EndBlock, BlockInv
  <2> QED BY <2>1, <2>2, <2>3, BlockOfOne
<1>12. CASE CloseDevice(t)
  <2>1. dma[t] # "none" /\ op' = op /\ \A u \in DmaThreads : u # t => dma'[u] = dma[u]
    BY <1>12 DEF CloseDevice, Goto
  <2>2. ~Looping(t)'
    BY <1>12 DEF CloseDevice, Goto, Looping
  <2>3. cpu' = "queue" => owed' /\ sem' + toQueue' <= Longest
    BY <1>12 DEF CloseDevice, BlockInv
  <2> QED BY <2>1, <2>2, <2>3, BlockOfOne
<1>13. CASE Deactivate(t)
  <2>1. dma[t] # "none" /\ op' = op /\ \A u \in DmaThreads : u # t => dma'[u] = dma[u]
    BY <1>13 DEF Deactivate, Goto
  <2>2. ~Looping(t)'
    BY <1>13 DEF Deactivate, Goto, Looping
  <2>3. cpu' = "queue" => owed' /\ sem' + toQueue' <= Longest
    BY <1>13 DEF Deactivate, BlockInv
  <2> QED BY <2>1, <2>2, <2>3, BlockOfOne
<1>14. CASE Finish(t)
  <2>1. dma[t] # "none" /\ op' = op /\ \A u \in DmaThreads : u # t => dma'[u] = dma[u]
    BY <1>14 DEF Finish, Goto
  <2>2. ~Looping(t)'
    BY <1>14 DEF Finish, Goto, Looping
  <2>3. cpu' = "queue" => owed' /\ sem' + toQueue' <= Longest
    BY <1>14 DEF Finish, BlockInv
  <2> QED BY <2>1, <2>2, <2>3, BlockOfOne
<1>15. CASE Unhook(t)
  <2>1. dma[t] # "none" /\ op' = op /\ \A u \in DmaThreads : u # t => dma'[u] = dma[u]
    BY <1>15 DEF Unhook, Goto
  <2>2. ~Looping(t)'
    BY <1>15 DEF Unhook, Goto, Looping
  <2>3. cpu' = "queue" => owed' /\ sem' + toQueue' <= Longest
    BY <1>15 DEF Unhook, BlockInv
  <2> QED BY <2>1, <2>2, <2>3, BlockOfOne
<1> QED BY <1>1, <1>2, <1>3, <1>4, <1>5, <1>6, <1>7, <1>8, <1>9, <1>10, <1>11, <1>12, <1>13,
       <1>14, <1>15 DEF DmaStep

LEMMA SupplyGuest ==
  ASSUME TypeInv, ThreadInv, ResetInv, CommandInv, BusyInv, BlockInv, SupplyInv, Countable,
         GuestStep
  PROVE  SupplyInv'
<1> USE DEF TypeInv, TypeOK, TypeCpu, TypeWave, TypeRing, TypeDma, Counting, ThreadInv,
        AtMostOne, ActiveIfThread, StartIsNeeded, RenewIsSafe, CommandInv, BlockInv,
        SupplyInv, Countable, Accounts, Sums, Looping, Waiting, InReset, NoThreads,
        ExitPlaces, StartPlaces, Starts, Does, cpuVars, flagVars, ringVars, dmaVars
<1> Longest \in Nat /\ SemMax \in Nat /\ Blocks \subseteq Nat
  BY SbAssumption
<1>1. CASE SetBlockSize
  BY <1>1 DEF SetBlockSize
<1>2. CASE SetTimeConstant
  BY <1>2 DEF SetTimeConstant
<1>3. CASE PauseDMA
  BY <1>3 DEF PauseDMA
<1>4. CASE ContinueDMA
  BY <1>4 DEF ContinueDMA
<1>5. CASE StopAuto
  BY <1>5 DEF StopAuto
<1>6. ASSUME NEW o \in Starts, StartBlock(o) PROVE SupplyInv'
  BY <1>6 DEF StartBlock
<1>7. ASSUME NEW o \in {"eoi", "heal"}, Eoi(o) PROVE SupplyInv'
  BY <1>7 DEF Eoi
<1>8. CASE Query
  BY <1>8 DEF Query
<1>9. CASE DspResetWrite
  BY <1>9 DEF DspResetWrite
<1> QED BY <1>1, <1>2, <1>3, <1>4, <1>5, <1>6, <1>7, <1>8, <1>9 DEF GuestStep

LEMMA SupplyCpu ==
  ASSUME TypeInv, ThreadInv, ResetInv, CommandInv, BusyInv, BlockInv, SupplyInv, Countable,
         CpuStep
  PROVE  SupplyInv'
<1> USE DEF TypeInv, TypeOK, TypeCpu, TypeWave, TypeRing, TypeDma, Counting, ThreadInv,
        AtMostOne, ActiveIfThread, StartIsNeeded, RenewIsSafe, CommandInv, BlockInv,
        SupplyInv, Countable, Accounts, Sums, Looping, Waiting, InReset, NoThreads,
        ExitPlaces, StartPlaces, Starts, Does, cpuVars, flagVars, ringVars, dmaVars
<1> Longest \in Nat /\ SemMax \in Nat /\ Blocks \subseteq Nat
  BY SbAssumption
<1>1. CASE StartThread
  BY <1>1 DEF StartThread, Goto
<1>2. CASE WaitStarted
  BY <1>2 DEF WaitStarted
<1>3. CASE EnlargeBuffer
  BY <1>3 DEF EnlargeBuffer, GenerateHdrs
<1>4. CASE SetMode
  BY <1>4 DEF SetMode, SetWaveFormat, RegisterEOIHook
<1>5. CASE BeginDmaData
  BY <1>5 DEF BeginDmaData
<1>6. CASE QueueBurst
  BY <1>6 DEF QueueBurst, ReleaseSemaphore
<1>7. CASE AutoInitEoiHook
  BY <1>7 DEF AutoInitEoiHook, SetWaveFormat
<1>8. CASE Spin
  BY <1>8 DEF Spin
<1>9. CASE CountQuery
  BY <1>9 DEF CountQuery
<1>10. CASE ResetDSP
  BY <1>10 DEF ResetDSP, SignalReset
<1>11. CASE WaitResetDone
  BY <1>11 DEF WaitResetDone
<1>12. CASE StopDspDmaThread
  BY <1>12 DEF StopDspDmaThread, StopWait, ReleaseSemaphore
<1>13. CASE WaitFinished
  BY <1>13 DEF WaitFinished
<1>14. CASE Renew
  BY <1>14 DEF Renew, ClearEvents
<1>15. CASE ResetMode
  BY <1>15 DEF ResetMode
<1>16. CASE EndReset
  BY <1>16 DEF EndReset
<1> QED BY <1>1, <1>2, <1>3, <1>4, <1>5, <1>6, <1>7, <1>8, <1>9, <1>10, <1>11, <1>12, <1>13,
       <1>14, <1>15, <1>16 DEF CpuStep

LEMMA SupplyDma ==
  ASSUME TypeInv, ThreadInv, ResetInv, CommandInv, BusyInv, BlockInv, SupplyInv, Countable,
         NEW t \in DmaThreads, DmaStep(t)
  PROVE  SupplyInv'
<1> USE DEF TypeInv, TypeOK, TypeCpu, TypeWave, TypeRing, TypeDma, Counting, ThreadInv,
        AtMostOne, ActiveIfThread, StartIsNeeded, RenewIsSafe, CommandInv, BlockInv,
        SupplyInv, Countable, Accounts, Sums, Looping, Waiting, InReset, NoThreads,
        ExitPlaces, StartPlaces, Starts, Does, cpuVars, flagVars, ringVars, dmaVars
<1> Longest \in Nat /\ SemMax \in Nat /\ Blocks \subseteq Nat
  BY SbAssumption
<1>1. CASE BeginThread(t)
  BY <1>1 DEF BeginThread, Goto
<1>2. CASE LoopTop(t)
  BY <1>2 DEF LoopTop, Goto
<1>3. CASE TakeBurst(t)
  BY <1>3 DEF TakeBurst, Goto, DelayInfinite
<1>4. CASE PutOff(t)
  BY <1>4 DEF PutOff, Goto
<1>5. CASE EndTransfer(t)
  BY <1>5 DEF EndTransfer, Goto
<1>6. CASE RaiseInterrupt(t)
  BY <1>6 DEF RaiseInterrupt, Goto, DelayInfinite, WithdrawAnswer
<1>7. CASE ResetNoticed(t)
  BY <1>7 DEF ResetNoticed, Goto, ExitAutoMode
<1>8. CASE ProcessBlock(t)
  BY <1>8 DEF ProcessBlock, Goto, SetWaveFormat, WaveBlockSize, Advance
<1>9. CASE WriteBurst(t)
  BY <1>9 DEF WriteBurst, Goto
<1>10. CASE NextBurst(t)
  BY <1>10 DEF NextBurst, Goto
<1>11. CASE EndBlock(t)
  BY <1>11 DEF EndBlock, Goto, ExitAutoMode, DelayOfBlock
<1>12. CASE CloseDevice(t)
  BY <1>12 DEF CloseDevice, Goto
<1>13. CASE Deactivate(t)
  BY <1>13 DEF Deactivate, Goto
<1>14. CASE Finish(t)
  BY <1>14 DEF Finish, Goto
<1>15. CASE Unhook(t)
  BY <1>15 DEF Unhook, Goto
<1> QED BY <1>1, <1>2, <1>3, <1>4, <1>5, <1>6, <1>7, <1>8, <1>9, <1>10, <1>11, <1>12, <1>13,
       <1>14, <1>15 DEF DmaStep

LEMMA RingStep ==
  ASSUME TypeInv, ThreadInv, ResetInv, RingInv, Polite, Countable, ~Preempted, [Next]_vars
  PROVE  RingInv'
<1> USE DEF RingInv
<1>1. CASE GuestStep
  <2>1. CommandInv' /\ BusyInv' BY <1>1, CommandGuest, BusyGuest
  <2>2. HookInv' /\ DelayInv' BY <1>1, HookGuest, DelayGuest
  <2>3. BlockInv' /\ SupplyInv' BY <1>1, BlockGuest, SupplyGuest
  <2> QED BY <2>1, <2>2, <2>3
<1>2. CASE CpuStep
  <2>1. CommandInv' /\ BusyInv' BY <1>2, CommandCpu, BusyCpu
  <2>2. HookInv' /\ DelayInv' BY <1>2, HookCpu, DelayCpu
  <2>3. BlockInv' /\ SupplyInv' BY <1>2, BlockCpu, SupplyCpu
  <2> QED BY <2>1, <2>2, <2>3
<1>3. ASSUME NEW t \in DmaThreads, DmaStep(t) PROVE RingInv'
  <2>1. CommandInv' /\ BusyInv' BY <1>3, CommandDma, BusyDma
  <2>2. HookInv' /\ DelayInv' BY <1>3, HookDma, DelayDma
  <2>3. BlockInv' /\ SupplyInv' BY <1>3, BlockDma, SupplyDma
  <2> QED BY <2>1, <2>2, <2>3
<1>4. CASE UNCHANGED vars
  <2> USE <1>4 DEF vars, cpuVars, flagVars, ringVars, eventVars, irqVars, dmaVars, InReset
  <2>1. CommandInv' /\ BusyInv' BY DEF CommandInv, BusyInv, NoThreads
  <2>2. HookInv' /\ DelayInv' BY DEF HookInv, DelayInv
  <2>3. BlockInv' BY BlockFrame
  <2>4. SupplyInv' BY DEF SupplyInv
  <2> QED BY <2>1, <2>2, <2>3, <2>4
<1> QED BY <1>1, <1>2, <1>3, <1>4 DEF Next

\* StartDspDmaThread, DmaDataToDsp, DspProcessBlock and AutoInitEoiHook: what is counted or
\* to be counted is what is still to be taken, whatever the sizes and however blocks,
\* changes of the ring, resets and ends of interrupts fall together.
THEOREM RingLife ==
  ASSUME ~Preempted, Polite, Countable
  PROVE  Spec => []RingInv
<1>1. Commands \cap {"hiAuto", "hiSingle"} = {}
  BY DEF Polite
<1>2. Spec => []ResetInv
  BY <1>1, ResetsHold
<1>3. TypeInv /\ ThreadInv /\ ResetInv /\ RingInv /\ [Next]_vars => RingInv'
  BY RingStep
<1> QED BY <1>2, RingInit, TypesHold, ThreadLife, <1>3, PTL DEF Spec

\* InStep: between DspNextRead and DspNextWrite lie the bursts counted in DspWaveSem, for
\* every ring and every sequence of block sizes.
THEOREM ReaderInStep ==
  ASSUME ~Preempted, Polite, Countable
  PROVE  Spec => []InStep
<1>1. RingInv => InStep
  BY DEF RingInv, BlockInv, Accounts, InPlace, Taken, InStep
<1> QED BY RingLife, <1>1, PTL

\* NeverStarved: the wait without a timeout inside DspProcessBlock is for a burst that is
\* counted or about to be, in a reset too.
THEOREM Unstarved ==
  ASSUME ~Preempted, Polite, Countable
  PROVE  Spec => []NeverStarved
<1>1. RingInv => NeverStarved
  BY DEF RingInv, SupplyInv, NeverStarved
<1> QED BY RingLife, <1>1, PTL

\* The step of InterruptOwed.
RaisesOwed == \A t \in DmaThreads : RaiseInterrupt(t) => owed \/ InReset

\* InterruptOwed: the DMA thread interrupts once for a block that was handed over.
THEOREM OneInterrupt ==
  ASSUME ~Preempted, Polite, Countable
  PROVE  Spec => InterruptOwed
<1>1. RingInv => RaisesOwed
  BY DEF RingInv, BlockInv, Accounts, Sums, Waiting, Looping, RaisesOwed, RaiseInterrupt
<1> QED BY RingLife, <1>1, PTL DEF InterruptOwed, RaisesOwed

-----------------------------------------------------------------------------
(***************************************************************************)
(* Auto-init mode.  The transfer goes on because the EOI hook is there     *)
(* whenever the mode is: it is registered with a new rate, removed with    *)
(* the mode, and a thread that ends takes both with it in a reset.  So an  *)
(* interrupt that ends runs into the hook, which hands the next block over.*)
(***************************************************************************)
\* The guest does not halt the transfer or mask the channel, and sets the time constant
\* before it starts auto-init mode.
Steady == Commands \cap {"pause", "masked", "keepRate"} = {}

AutoInv ==
  /\ ~paused
  /\ cpu \in StartPlaces => op \in {"single", "auto"} /\ (op = "auto" => newRate)
  /\ ~InReset /\ mode = "auto" => hooked
  /\ cpu = "cleared" => mode # "auto"
  /\ ~InReset /\ mode = "auto" /\ cpu \in {"guest", "spin", "count", "queue"} =>
       owed \/ irq > 0

LEMMA AutoInit == Init => AutoInv
  BY DEF Init, AutoInv, StartPlaces

LEMMA AutoGuest ==
  ASSUME TypeInv, ThreadInv, ResetInv, RingInv, AutoInv, Polite, Steady, GuestStep
  PROVE  AutoInv'
<1> USE DEF Polite, Steady, TypeInv, TypeOK, TypeCpu, TypeFlags, TypeWave, TypeSync,
        TypeDma, ThreadInv, ActiveIfThread, ExitInReset, LeavesOnExit, StartIsNeeded,
        ResetInv, RingInv, CommandInv, BusyInv, BlockInv, Accounts, Sums, Looping, Waiting,
        AutoInv, InReset, NoThreads, ExitPlaces, StartPlaces, Starts, Does, cpuVars,
        flagVars, waveVars, irqVars, dmaVars
<1>1. CASE SetBlockSize
  BY <1>1 DEF SetBlockSize
<1>2. CASE SetTimeConstant
  BY <1>2 DEF SetTimeConstant
<1>3. CASE PauseDMA
  BY <1>3 DEF PauseDMA
<1>4. CASE ContinueDMA
  BY <1>4 DEF ContinueDMA
<1>5. CASE StopAuto
  BY <1>5 DEF StopAuto
<1>6. ASSUME NEW o \in Starts, StartBlock(o) PROVE AutoInv'
  BY <1>6 DEF StartBlock
<1>7. ASSUME NEW o \in {"eoi", "heal"}, Eoi(o) PROVE AutoInv'
  BY <1>7 DEF Eoi
<1>8. CASE Query
  BY <1>8 DEF Query
<1>9. CASE DspResetWrite
  BY <1>9 DEF DspResetWrite
<1> QED BY <1>1, <1>2, <1>3, <1>4, <1>5, <1>6, <1>7, <1>8, <1>9 DEF GuestStep

LEMMA AutoCpu ==
  ASSUME TypeInv, ThreadInv, ResetInv, RingInv, AutoInv, Polite, Steady, CpuStep
  PROVE  AutoInv'
<1> USE DEF Polite, Steady, TypeInv, TypeOK, TypeCpu, TypeFlags, TypeWave, TypeSync,
        TypeDma, ThreadInv, ActiveIfThread, ExitInReset, LeavesOnExit, StartIsNeeded,
        ResetInv, RingInv, CommandInv, BusyInv, BlockInv, Accounts, Sums, Looping, Waiting,
        AutoInv, InReset, NoThreads, ExitPlaces, StartPlaces, Starts, Does, cpuVars,
        flagVars, waveVars, irqVars, dmaVars
<1>1. CASE StartThread
  BY <1>1 DEF StartThread, Goto
<1>2. CASE WaitStarted
  BY <1>2 DEF WaitStarted
<1>3. CASE EnlargeBuffer
  BY <1>3 DEF EnlargeBuffer, GenerateHdrs
<1>4. CASE SetMode
  BY <1>4 DEF SetMode, SetWaveFormat, RegisterEOIHook
<1>5. CASE BeginDmaData
  BY <1>5 DEF BeginDmaData
<1>6. CASE QueueBurst
  BY <1>6 DEF QueueBurst, ReleaseSemaphore
<1>7. CASE AutoInitEoiHook
  BY <1>7 DEF AutoInitEoiHook, SetWaveFormat
<1>8. CASE Spin
  BY <1>8 DEF Spin
<1>9. CASE CountQuery
  BY <1>9 DEF CountQuery
<1>10. CASE ResetDSP
  BY <1>10 DEF ResetDSP, SignalReset
<1>11. CASE WaitResetDone
  BY <1>11 DEF WaitResetDone
<1>12. CASE StopDspDmaThread
  BY <1>12 DEF StopDspDmaThread, StopWait, ReleaseSemaphore
<1>13. CASE WaitFinished
  BY <1>13 DEF WaitFinished
<1>14. CASE Renew
  BY <1>14 DEF Renew, ClearEvents
<1>15. CASE ResetMode
  BY <1>15 DEF ResetMode
<1>16. CASE EndReset
  BY <1>16 DEF EndReset
<1> QED BY <1>1, <1>2, <1>3, <1>4, <1>5, <1>6, <1>7, <1>8, <1>9, <1>10, <1>11, <1>12, <1>13,
       <1>14, <1>15, <1>16 DEF CpuStep

LEMMA AutoDma ==
  ASSUME TypeInv, ThreadInv, ResetInv, RingInv, AutoInv, Polite, Steady,
         NEW t \in DmaThreads, DmaStep(t)
  PROVE  AutoInv'
<1> USE DEF Polite, Steady, TypeInv, TypeOK, TypeCpu, TypeFlags, TypeWave, TypeSync,
        TypeDma, ThreadInv, ActiveIfThread, ExitInReset, LeavesOnExit, StartIsNeeded,
        ResetInv, RingInv, CommandInv, BusyInv, BlockInv, Accounts, Sums, Looping, Waiting,
        AutoInv, InReset, NoThreads, ExitPlaces, StartPlaces, Starts, Does, cpuVars,
        flagVars, waveVars, irqVars, dmaVars
<1>1. CASE BeginThread(t)
  BY <1>1 DEF BeginThread, Goto
<1>2. CASE LoopTop(t)
  BY <1>2 DEF LoopTop, Goto
<1>3. CASE TakeBurst(t)
  BY <1>3 DEF TakeBurst, Goto, DelayInfinite
<1>4. CASE PutOff(t)
  BY <1>4 DEF PutOff, Goto
<1>5. CASE EndTransfer(t)
  BY <1>5 DEF EndTransfer, Goto
<1>6. CASE RaiseInterrupt(t)
  BY <1>6 DEF RaiseInterrupt, Goto, DelayInfinite, WithdrawAnswer
<1>7. CASE ResetNoticed(t)
  BY <1>7 DEF ResetNoticed, Goto, ExitAutoMode
<1>8. CASE ProcessBlock(t)
  BY <1>8 DEF ProcessBlock, Goto, SetWaveFormat
<1>9. CASE WriteBurst(t)
  BY <1>9 DEF WriteBurst, Goto
<1>10. CASE NextBurst(t)
  BY <1>10 DEF NextBurst, Goto
<1>11. CASE EndBlock(t)
  BY <1>11 DEF EndBlock, Goto, ExitAutoMode, DelayOfBlock
<1>12. CASE CloseDevice(t)
  BY <1>12 DEF CloseDevice, Goto
<1>13. CASE Deactivate(t)
  BY <1>13 DEF Deactivate, Goto
<1>14. CASE Finish(t)
  BY <1>14 DEF Finish, Goto
<1>15. CASE Unhook(t)
  BY <1>15 DEF Unhook, Goto
<1> QED BY <1>1, <1>2, <1>3, <1>4, <1>5, <1>6, <1>7, <1>8, <1>9, <1>10, <1>11, <1>12, <1>13,
       <1>14, <1>15 DEF DmaStep

LEMMA AutoStep ==
  ASSUME TypeInv, ThreadInv, ResetInv, RingInv, AutoInv, Polite, Steady, [Next]_vars
  PROVE  AutoInv'
<1>1. CASE GuestStep BY <1>1, AutoGuest
<1>2. CASE CpuStep BY <1>2, AutoCpu
<1>3. ASSUME NEW t \in DmaThreads, DmaStep(t) PROVE AutoInv'
  BY <1>3, AutoDma
<1>4. CASE UNCHANGED vars
  BY <1>4 DEF AutoInv, InReset, vars, cpuVars, flagVars, waveVars, irqVars
<1> QED BY <1>1, <1>2, <1>3, <1>4 DEF Next

\* AutoAlive: in auto-init mode a block is under way or an interrupt whose end hands the
\* next one over, for guests that neither halt nor mask and that set their rate.
THEOREM AutoGoesOn ==
  ASSUME ~Preempted, Polite, Countable, Steady
  PROVE  Spec => []AutoAlive
<1>1. Commands \cap {"hiAuto", "hiSingle"} = {}
  BY DEF Polite
<1>2. Spec => []ResetInv
  BY <1>1, ResetsHold
<1>3. TypeInv /\ ThreadInv /\ ResetInv /\ RingInv /\ AutoInv /\ [Next]_vars => AutoInv'
  BY AutoStep
<1>4. Spec => []AutoInv
  BY <1>2, AutoInit, TypesHold, ThreadLife, RingLife, <1>3, PTL DEF Spec
<1>5. RingInv /\ AutoInv => AutoAlive
  BY DEF RingInv, CommandInv, AutoInv, AutoAlive, ExitPlaces
<1> QED BY <1>4, <1>5, RingLife, PTL

-----------------------------------------------------------------------------
(***************************************************************************)
(* The waits of the CPU thread.  StartDspDmaThread waits for ThreadStarted,*)
(* ResetDSP for DspResetDone and StopDspDmaThread for ThreadFinished, none *)
(* with a timeout.  Each is answered by the DMA thread, which may itself   *)
(* be in a wait: for DspResetEvent, set before, or for a burst, which      *)
(* SupplyInv says is counted.  DspResetDone is never one of an earlier     *)
(* reset, and once it is taken the thread is out of its loop.              *)
(***************************************************************************)
\* The DMA thread, unless it waits for something that is not there.
CanMove(t) ==
  /\ dma[t] # "none"
  /\ dma[t] = "wait" => sem > 0 \/ resetEvent
  /\ dma[t] = "inner" => sem > 0
  /\ dma[t] = "raise" => ~icaLock

\* None of the three waits is a deadlock: the event is set, or a DMA thread can move.
WaitsAreServed ==
  /\ cpu = "waitStarted" => threadStarted \/ \E t \in DmaThreads : CanMove(t)
  /\ cpu = "waitDone" => resetDone \/ \E t \in DmaThreads : CanMove(t)
  /\ cpu = "waitFinished" => threadFinished \/ \E t \in DmaThreads : CanMove(t)

WakeInv ==
  /\ resetDone => InReset /\ \A t \in DmaThreads : ~Looping(t)
  /\ cpu \in {"reset", "waitDone"} =>
       \A t \in DmaThreads : dma[t] \in {"close", "leave"} => resetDone
  /\ cpu \in ExitPlaces => exitDma
  /\ cpu = "waitDone" =>
       resetDone \/ \E t \in DmaThreads : Looping(t) /\ (dma[t] = "wait" => resetEvent)
  /\ cpu \in {"stop", "waitFinished"} => \A t \in DmaThreads : ~Looping(t)
  /\ cpu = "waitFinished" =>
       threadFinished \/ \E t \in DmaThreads : dma[t] \in {"close", "leave", "finish"}
  /\ cpu = "waitStarted" => threadStarted \/ \E t \in DmaThreads : dma[t] = "begin"
  /\ icaLock => cpu \in {"hook", "dma", "queue"} /\ op = "heal"

LEMMA WakeInit == Init => WakeInv
  BY DEF Init, WakeInv, ExitPlaces

LEMMA WakeGuest ==
  ASSUME TypeInv, ThreadInv, ResetInv, CommandInv, BusyInv, WakeInv, ~Preempted, GuestStep
  PROVE  WakeInv'
<1> USE DEF TypeInv, TypeOK, TypeCpu, TypeSync, TypeDma, ThreadPlaces, ThreadInv, AtMostOne,
        ActiveIfThread, ExitInReset, LeavesOnExit, ResetInv, CommandInv, BusyInv, WakeInv,
        Looping, InReset, NoThreads, ExitPlaces, StartPlaces, Starts, Does, cpuVars,
        flagVars, eventVars, lockVars, dmaVars
<1> \A t \in DmaThreads : dma[t] \notin {"finish", "unhook"}
  BY DEF GuestStep, Undisturbed
<1>1. CASE SetBlockSize
  BY <1>1 DEF SetBlockSize
<1>2. CASE SetTimeConstant
  BY <1>2 DEF SetTimeConstant
<1>3. CASE PauseDMA
  BY <1>3 DEF PauseDMA
<1>4. CASE ContinueDMA
  BY <1>4 DEF ContinueDMA
<1>5. CASE StopAuto
  BY <1>5 DEF StopAuto
<1>6. ASSUME NEW o \in Starts, StartBlock(o) PROVE WakeInv'
  BY <1>6 DEF StartBlock
<1>7. ASSUME NEW o \in {"eoi", "heal"}, Eoi(o) PROVE WakeInv'
  BY <1>7 DEF Eoi
<1>8. CASE Query
  BY <1>8 DEF Query
<1>9. CASE DspResetWrite
  BY <1>9 DEF DspResetWrite
<1> QED BY <1>1, <1>2, <1>3, <1>4, <1>5, <1>6, <1>7, <1>8, <1>9 DEF GuestStep

LEMMA WakeCpu ==
  ASSUME TypeInv, ThreadInv, ResetInv, CommandInv, BusyInv, WakeInv, ~Preempted, CpuStep
  PROVE  WakeInv'
<1> USE DEF TypeInv, TypeOK, TypeCpu, TypeSync, TypeDma, ThreadPlaces, ThreadInv, AtMostOne,
        ActiveIfThread, ExitInReset, LeavesOnExit, ResetInv, CommandInv, BusyInv, WakeInv,
        Looping, InReset, NoThreads, ExitPlaces, StartPlaces, Starts, Does, cpuVars,
        flagVars, eventVars, lockVars, dmaVars
<1> \A t \in DmaThreads : dma[t] \notin {"finish", "unhook"}
  BY DEF CpuStep, Undisturbed
<1>1. CASE StartThread
  BY <1>1 DEF StartThread, Goto
<1>2. CASE WaitStarted
  BY <1>2 DEF WaitStarted
<1>3. CASE EnlargeBuffer
  BY <1>3 DEF EnlargeBuffer, GenerateHdrs
<1>4. CASE SetMode
  BY <1>4 DEF SetMode, SetWaveFormat, RegisterEOIHook
<1>5. CASE BeginDmaData
  BY <1>5 DEF BeginDmaData, LeaveIcaLock
<1>6. CASE QueueBurst
  BY <1>6 DEF QueueBurst, ReleaseSemaphore, LeaveIcaLock
<1>7. CASE AutoInitEoiHook
  BY <1>7 DEF AutoInitEoiHook, SetWaveFormat, LeaveIcaLock
<1>8. CASE Spin
  BY <1>8 DEF Spin
<1>9. CASE CountQuery
  BY <1>9 DEF CountQuery
<1>10. CASE ResetDSP
  BY <1>10 DEF ResetDSP, SignalReset
<1>11. CASE WaitResetDone
  BY <1>11 DEF WaitResetDone
<1>12. CASE StopDspDmaThread
  BY <1>12 DEF StopDspDmaThread, StopWait, ReleaseSemaphore
<1>13. CASE WaitFinished
  BY <1>13 DEF WaitFinished
<1>14. CASE Renew
  BY <1>14 DEF Renew, ClearEvents
<1>15. CASE ResetMode
  BY <1>15 DEF ResetMode
<1>16. CASE EndReset
  BY <1>16 DEF EndReset
<1> QED BY <1>1, <1>2, <1>3, <1>4, <1>5, <1>6, <1>7, <1>8, <1>9, <1>10, <1>11, <1>12, <1>13,
       <1>14, <1>15, <1>16 DEF CpuStep

LEMMA WakeDma ==
  ASSUME TypeInv, ThreadInv, ResetInv, CommandInv, BusyInv, WakeInv, NEW t \in DmaThreads,
         DmaStep(t)
  PROVE  WakeInv'
<1> USE DEF TypeInv, TypeOK, TypeCpu, TypeSync, TypeDma, ThreadPlaces, ThreadInv, AtMostOne,
        ActiveIfThread, ExitInReset, LeavesOnExit, ResetInv, CommandInv, BusyInv, WakeInv,
        Looping, InReset, NoThreads, ExitPlaces, StartPlaces, Starts, Does, cpuVars,
        flagVars, eventVars, lockVars, dmaVars
<1>1. CASE BeginThread(t)
  BY <1>1 DEF BeginThread, Goto
<1>2. CASE LoopTop(t)
  BY <1>2 DEF LoopTop, Goto
<1>3. CASE TakeBurst(t)
  BY <1>3 DEF TakeBurst, Goto, DelayInfinite
<1>4. CASE PutOff(t)
  BY <1>4 DEF PutOff, Goto
<1>5. CASE EndTransfer(t)
  BY <1>5 DEF EndTransfer, Goto
<1>6. CASE RaiseInterrupt(t)
  BY <1>6 DEF RaiseInterrupt, Goto, DelayInfinite, WithdrawAnswer
<1>7. CASE ResetNoticed(t)
  BY <1>7 DEF ResetNoticed, Goto, ExitAutoMode
<1>8. CASE ProcessBlock(t)
  BY <1>8 DEF ProcessBlock, Goto, SetWaveFormat
<1>9. CASE WriteBurst(t)
  BY <1>9 DEF WriteBurst, Goto
<1>10. CASE NextBurst(t)
  BY <1>10 DEF NextBurst, Goto
<1>11. CASE EndBlock(t)
  BY <1>11 DEF EndBlock, Goto, ExitAutoMode, DelayOfBlock
<1>12. CASE CloseDevice(t)
  BY <1>12 DEF CloseDevice, Goto
<1>13. CASE Deactivate(t)
  BY <1>13 DEF Deactivate, Goto
<1>14. CASE Finish(t)
  BY <1>14 DEF Finish, Goto
<1>15. CASE Unhook(t)
  BY <1>15 DEF Unhook, Goto
<1> QED BY <1>1, <1>2, <1>3, <1>4, <1>5, <1>6, <1>7, <1>8, <1>9, <1>10, <1>11, <1>12, <1>13,
       <1>14, <1>15 DEF DmaStep

LEMMA WakeStep ==
  ASSUME TypeInv, ThreadInv, ResetInv, CommandInv, BusyInv, WakeInv, ~Preempted, [Next]_vars
  PROVE  WakeInv'
<1>1. CASE GuestStep BY <1>1, WakeGuest
<1>2. CASE CpuStep BY <1>2, WakeCpu
<1>3. ASSUME NEW t \in DmaThreads, DmaStep(t) PROVE WakeInv'
  BY <1>3, WakeDma
<1>4. CASE UNCHANGED vars
  BY <1>4 DEF WakeInv, Looping, InReset, vars, cpuVars, flagVars, eventVars, lockVars,
       dmaVars
<1> QED BY <1>1, <1>2, <1>3, <1>4 DEF Next

LEMMA WakesHold ==
  ASSUME ~Preempted, Polite, Countable
  PROVE  Spec => []WakeInv
<1>1. Commands \cap {"hiAuto", "hiSingle"} = {}
  BY DEF Polite
<1>2. Spec => []ResetInv
  BY <1>1, ResetsHold
<1>3. TypeInv /\ ThreadInv /\ ResetInv /\ RingInv /\ WakeInv /\ [Next]_vars => WakeInv'
  BY WakeStep DEF RingInv
<1> QED BY <1>2, WakeInit, TypesHold, ThreadLife, RingLife, <1>3, PTL DEF Spec

\* StartDspDmaThread, ResetDSP and StopDspDmaThread: their waits without a timeout are
\* served, the safety part of ResetReturns.
THEOREM NoWaitForever ==
  ASSUME ~Preempted, Polite, Countable
  PROVE  Spec => []WaitsAreServed
<1>1. TypeInv /\ RingInv /\ WakeInv => WaitsAreServed
  <2> SUFFICES ASSUME TypeInv, RingInv, WakeInv PROVE WaitsAreServed
    OBVIOUS
  <2>1. ASSUME NEW t \in DmaThreads, dma[t] = "inner", cpu = "waitDone" PROVE sem > 0
    BY <2>1 DEF TypeInv, TypeOK, TypeRing, TypeDma, Counting, RingInv, SupplyInv, CommandInv
  <2>2. CASE cpu = "waitDone"
    BY <2>1, <2>2 DEF WaitsAreServed, CanMove, WakeInv, Looping
  <2>3. CASE cpu # "waitDone"
    BY <2>3 DEF WaitsAreServed, CanMove, WakeInv
  <2> QED BY <2>2, <2>3
<1> QED BY <1>1, WakesHold, TypesHold, RingLife, PTL

-----------------------------------------------------------------------------
(***************************************************************************)
(* The way of a block to its interrupt.  The DMA thread raises it with     *)
(* DspLock and wants host_ica_lock; the CPU thread, in ica_unwedge_stuck,  *)
(* holds that and wants DspLock.  The two never meet, because the one has  *)
(* a block under way and the other is about to start one, and the guest    *)
(* can hand over none in between: the CPU thread is not in its code.  In a *)
(* CCPU build, where the heartbeat thread heals, that last point is Calm   *)
(* (HealRefines); without it they meet (SbBeat.cfg).  What is counted or   *)
(* to be counted ends every wait for a burst.                              *)
(***************************************************************************)
LockInv == dspLock # NoThread => dma[dspLock] = "raise"

\* The DMA thread, unless it waits for something that nobody is about to give.
CanServe(t) ==
  /\ Looping(t)
  /\ dma[t] = "wait" => sem > 0 \/ cpu = "queue" \/ (delay[t] /\ dspLock = NoThread)
  /\ dma[t] = "inner" => sem > 0 \/ cpu = "queue"
  /\ dma[t] = "raise" => ~icaLock

\* A block that was handed over has a thread that can go on with it, and the CPU thread
\* waits for DspLock only while its owner can go on.
BlockIsServed ==
  /\ owed /\ ~InReset => \E t \in DmaThreads : CanServe(t)
  /\ cpu \in {"dma", "count"} =>
       dspLock = NoThread \/ \E t \in DmaThreads : CanServe(t) /\ dma[t] = "raise"

LEMMA LockInit == Init => LockInv
  BY DEF Init, LockInv

LEMMA LockGuest ==
  ASSUME TypeInv, LockInv, GuestStep
  PROVE  LockInv'
<1> USE DEF TypeInv, TypeOK, TypeSync, TypeDma, LockInv, lockVars, dmaVars
<1>1. CASE SetBlockSize
  BY <1>1 DEF SetBlockSize
<1>2. CASE SetTimeConstant
  BY <1>2 DEF SetTimeConstant
<1>3. CASE PauseDMA
  BY <1>3 DEF PauseDMA
<1>4. CASE ContinueDMA
  BY <1>4 DEF ContinueDMA
<1>5. CASE StopAuto
  BY <1>5 DEF StopAuto
<1>6. ASSUME NEW o \in Starts, StartBlock(o) PROVE LockInv'
  BY <1>6 DEF StartBlock
<1>7. ASSUME NEW o \in {"eoi", "heal"}, Eoi(o) PROVE LockInv'
  BY <1>7 DEF Eoi
<1>8. CASE Query
  BY <1>8 DEF Query
<1>9. CASE DspResetWrite
  BY <1>9 DEF DspResetWrite
<1> QED BY <1>1, <1>2, <1>3, <1>4, <1>5, <1>6, <1>7, <1>8, <1>9 DEF GuestStep

LEMMA LockCpu ==
  ASSUME TypeInv, LockInv, CpuStep
  PROVE  LockInv'
<1> USE DEF TypeInv, TypeOK, TypeSync, TypeDma, LockInv, lockVars, dmaVars
<1>1. CASE StartThread
  BY <1>1 DEF StartThread, Goto
<1>2. CASE WaitStarted
  BY <1>2 DEF WaitStarted
<1>3. CASE EnlargeBuffer
  BY <1>3 DEF EnlargeBuffer, GenerateHdrs
<1>4. CASE SetMode
  BY <1>4 DEF SetMode, SetWaveFormat, RegisterEOIHook
<1>5. CASE BeginDmaData
  BY <1>5 DEF BeginDmaData
<1>6. CASE QueueBurst
  BY <1>6 DEF QueueBurst, ReleaseSemaphore
<1>7. CASE AutoInitEoiHook
  BY <1>7 DEF AutoInitEoiHook, SetWaveFormat
<1>8. CASE Spin
  BY <1>8 DEF Spin
<1>9. CASE CountQuery
  BY <1>9 DEF CountQuery
<1>10. CASE ResetDSP
  BY <1>10 DEF ResetDSP, SignalReset
<1>11. CASE WaitResetDone
  BY <1>11 DEF WaitResetDone
<1>12. CASE StopDspDmaThread
  BY <1>12 DEF StopDspDmaThread, StopWait, ReleaseSemaphore
<1>13. CASE WaitFinished
  BY <1>13 DEF WaitFinished
<1>14. CASE Renew
  BY <1>14 DEF Renew, ClearEvents
<1>15. CASE ResetMode
  BY <1>15 DEF ResetMode
<1>16. CASE EndReset
  BY <1>16 DEF EndReset
<1> QED BY <1>1, <1>2, <1>3, <1>4, <1>5, <1>6, <1>7, <1>8, <1>9, <1>10, <1>11, <1>12, <1>13,
       <1>14, <1>15, <1>16 DEF CpuStep

LEMMA LockDma ==
  ASSUME TypeInv, LockInv, NEW t \in DmaThreads, DmaStep(t)
  PROVE  LockInv'
<1> USE DEF TypeInv, TypeOK, TypeSync, TypeDma, LockInv, lockVars, dmaVars
<1>1. CASE BeginThread(t)
  BY <1>1 DEF BeginThread, Goto
<1>2. CASE LoopTop(t)
  BY <1>2 DEF LoopTop, Goto
<1>3. CASE TakeBurst(t)
  BY <1>3 DEF TakeBurst, Goto, DelayInfinite
<1>4. CASE PutOff(t)
  BY <1>4 DEF PutOff, Goto
<1>5. CASE EndTransfer(t)
  BY <1>5 DEF EndTransfer, Goto
<1>6. CASE RaiseInterrupt(t)
  BY <1>6 DEF RaiseInterrupt, Goto, DelayInfinite, WithdrawAnswer
<1>7. CASE ResetNoticed(t)
  BY <1>7 DEF ResetNoticed, Goto, ExitAutoMode
<1>8. CASE ProcessBlock(t)
  BY <1>8 DEF ProcessBlock, Goto, SetWaveFormat
<1>9. CASE WriteBurst(t)
  BY <1>9 DEF WriteBurst, Goto
<1>10. CASE NextBurst(t)
  BY <1>10 DEF NextBurst, Goto
<1>11. CASE EndBlock(t)
  BY <1>11 DEF EndBlock, Goto, ExitAutoMode, DelayOfBlock
<1>12. CASE CloseDevice(t)
  BY <1>12 DEF CloseDevice, Goto
<1>13. CASE Deactivate(t)
  BY <1>13 DEF Deactivate, Goto
<1>14. CASE Finish(t)
  BY <1>14 DEF Finish, Goto
<1>15. CASE Unhook(t)
  BY <1>15 DEF Unhook, Goto
<1> QED BY <1>1, <1>2, <1>3, <1>4, <1>5, <1>6, <1>7, <1>8, <1>9, <1>10, <1>11, <1>12, <1>13,
       <1>14, <1>15 DEF DmaStep

LEMMA LockStep ==
  ASSUME TypeInv, LockInv, [Next]_vars
  PROVE  LockInv'
<1>1. CASE GuestStep BY <1>1, LockGuest
<1>2. CASE CpuStep BY <1>2, LockCpu
<1>3. ASSUME NEW t \in DmaThreads, DmaStep(t) PROVE LockInv'
  BY <1>3, LockDma
<1>4. CASE UNCHANGED vars
  BY <1>4 DEF LockInv, vars, lockVars, dmaVars
<1> QED BY <1>1, <1>2, <1>3, <1>4 DEF Next

\* DmaDataToDsp, DspThreadEntry and DspProcessBlock in a HAXM or Hyper-V build, whose CPU
\* thread makes the self-heal: no wait between the hand-over of a block and its interrupt
\* is a deadlock, the safety part of BlockEnds.
THEOREM NoBlockStuck ==
  ASSUME ~Preempted, Polite, Countable
  PROVE  Spec => []BlockIsServed
<1>1. Spec => []LockInv
  <2>1. TypeInv /\ LockInv /\ [Next]_vars => LockInv'
    BY LockStep
  <2> QED BY LockInit, TypesHold, <2>1, PTL DEF Spec
<1>2. TypeInv /\ ThreadInv /\ RingInv /\ WakeInv /\ LockInv => BlockIsServed
  <2> SUFFICES ASSUME TypeInv, ThreadInv, RingInv, WakeInv, LockInv PROVE BlockIsServed
    OBVIOUS
  <2>1. ASSUME NEW t \in DmaThreads, dma[t] = "raise" PROVE ~icaLock
    <3> SUFFICES ASSUME icaLock PROVE FALSE
      OBVIOUS
    <3>1. cpu \in {"hook", "dma", "queue"} /\ ~InReset
      BY DEF WakeInv, RingInv, CommandInv, ExitPlaces
    <3>2. owed /\ toQueue = 0
      BY <2>1, <3>1 DEF RingInv, BlockInv, Accounts, Sums, Looping, Waiting, Played
    <3>3. cpu # "queue"
      BY <3>2 DEF TypeInv, Counting
    <3> QED BY <3>1, <3>2, <3>3 DEF RingInv, CommandInv
  <2>2. ASSUME NEW t \in DmaThreads, dma[t] = "wait" PROVE dspLock = NoThread
    BY <2>2 DEF LockInv, ThreadInv, AtMostOne, TypeInv, TypeOK, TypeSync
  <2>3. ASSUME owed, ~InReset PROVE \E t \in DmaThreads : CanServe(t)
    <3>1. PICK t \in DmaThreads : dma[t] \notin {"none", "finish", "unhook"}
      BY <2>3 DEF RingInv, BusyInv
    <3>2. dma[t] \notin {"close", "leave"}
      BY <2>3 DEF ThreadInv, LeavesOnExit, ExitInReset, RingInv, CommandInv
    <3>3. Looping(t)
      BY <3>1, <3>2 DEF Looping, TypeInv, TypeOK, TypeDma, ThreadPlaces
    <3>4. Sums(t)
      BY <2>3, <3>3 DEF RingInv, BlockInv, Accounts
    <3>5. /\ sem \in Nat /\ toQueue \in Nat /\ rest[t] \in Nat
          /\ dma[t] = "inner" => rest[t] > 0
          /\ cpu # "queue" => toQueue = 0
          /\ delay[t] \in BOOLEAN
      BY DEF TypeInv, TypeOK, TypeCpu, TypeRing, TypeDma, Counting, RingInv, CommandInv
    <3>6. dma[t] = "inner" => sem > 0 \/ cpu = "queue"
      BY <3>4, <3>5 DEF Sums
    <3>7. ASSUME dma[t] = "wait", ~delay[t] PROVE sem > 0 \/ cpu = "queue"
      <4>1. sizes[Advance(nextRead)] \in Blocks \cup {1}
        <5>1. Advance(nextRead) \in Indices
          BY AdvanceInRing, SbAssumption DEF Advance, TypeInv, TypeOK, TypeRing, Indices
        <5> QED BY <5>1 DEF TypeInv, TypeOK, TypeRing
      <4>2. sizes[Advance(nextRead)] \in Nat /\ sizes[Advance(nextRead)] > 0
        <5>1. \A b \in Blocks \cup {1} : b \in Nat /\ b > 0
          BY SbAssumption
        <5> QED BY <4>1, <5>1, Zenon
      <4>3. sem + toQueue = sizes[Advance(nextRead)]
        BY <2>3, <3>4, <3>7 DEF Sums, Waiting
      <4> QED BY <3>5, <4>2, <4>3
    <3> QED BY <2>1, <2>2, <3>3, <3>6, <3>7 DEF CanServe
  <2>4. ASSUME dspLock # NoThread
        PROVE  \E t \in DmaThreads : CanServe(t) /\ dma[t] = "raise"
    <3>1. dspLock \in DmaThreads /\ dma[dspLock] = "raise"
      BY <2>4 DEF LockInv, TypeInv, TypeOK, TypeSync
    <3> QED BY <2>1, <3>1 DEF CanServe, Looping
  <2> QED BY <2>3, <2>4 DEF BlockIsServed
<1> QED BY <1>1, <1>2, WakesHold, TypesHold, ThreadLife, RingLife, PTL

-----------------------------------------------------------------------------
(***************************************************************************)
(* The heartbeat thread of a CCPU build.  Its heal touches neither the DMA *)
(* thread nor what starts and stops it, and it sets SbAnswerDMAPosition    *)
(* with a block, so OneDma and QueriesHaveBlock hold beside it for every   *)
(* guest.  The rest needs a calm guest, and then follows from SbDsp: each  *)
(* step of the heal is one of a CPU thread that heals.                     *)
(***************************************************************************)
TypeBeat ==
  /\ beat \in {"idle", "hook", "dma", "queue"}
  /\ beatQueue \in Nat
  /\ beat = "queue" => beatQueue > 0

BeatInv == TypeInv /\ TypeBeat

LEMMA BeatTypeStep ==
  ASSUME BeatInv, BeatEoi \/ InHook
  PROVE  BeatInv'
<1> USE SbAssumption DEF BeatInv, TypeInv, TypeOK, TypeBeat, TypeCpu, TypeFlags, TypeWave,
        TypeRing, TypeSync, TypeDma, Counting, cpuVars, flagVars, waveVars, ringVars,
        eventVars, irqVars, dmaVars
<1>1. CASE BeatEoi
  <2>1. TypeCpu' /\ TypeFlags' /\ Counting' /\ TypeBeat' BY <1>1 DEF BeatEoi
  <2>2. TypeWave' /\ TypeRing' /\ TypeDma' BY <1>1 DEF BeatEoi
  <2>3. icaLock' \in BOOLEAN BY <1>1, Zenon DEF BeatEoi
  <2>4. TypeSync' BY <1>1, <2>3 DEF BeatEoi
  <2> QED BY <2>1, <2>2, <2>4
<1>2. CASE BeatHook
  <2>1. TypeCpu' /\ TypeFlags' /\ Counting' /\ TypeBeat' BY <1>2 DEF BeatHook, Return
  <2>2. TypeWave' /\ TypeRing' /\ TypeDma' BY <1>2 DEF BeatHook, SetWaveFormat
  <2>3. TypeSync' BY <1>2 DEF BeatHook, Return
  <2> QED BY <2>1, <2>2, <2>3
<1>3. CASE BeatDmaData
  <2>0. blockSize \in Nat /\ blockSize > 0 OBVIOUS
  <2>1. TypeCpu' /\ TypeFlags' /\ Counting' /\ TypeBeat'
    <3>1. TypeBeat'
      BY <1>3, <2>0 DEF BeatDmaData, Return
    <3> QED BY <1>3, <3>1 DEF BeatDmaData
  <2>2. TypeWave' /\ TypeRing' /\ TypeDma'
    <3>1. TypeWave' /\ TypeDma'
      BY <1>3 DEF BeatDmaData
    <3>2. sizes' = sizes \/ sizes' = [sizes EXCEPT ![nextWrite] = blockSize]
      BY <1>3 DEF BeatDmaData
    <3>3. sizes' \in [Indices -> Blocks \cup {1}]
      BY <3>2
    <3>4. UNCHANGED <<total, nextRead, nextWrite, sem>>
      BY <1>3 DEF BeatDmaData
    <3> QED BY <3>1, <3>3, <3>4
  <2>3. TypeSync' BY <1>3 DEF BeatDmaData, Return
  <2> QED BY <2>1, <2>2, <2>3
<1>4. CASE BeatBurst
  <2>1. TypeCpu' /\ TypeFlags' /\ Counting' /\ TypeBeat' BY <1>4 DEF BeatBurst, Return
  <2>2. TypeWave' /\ TypeRing' /\ TypeDma'
    BY <1>4 DEF BeatBurst, Advance, ReleaseSemaphore
  <2>3. TypeSync' BY <1>4 DEF BeatBurst, Return
  <2> QED BY <2>1, <2>2, <2>3
<1> QED BY <1>1, <1>2, <1>3, <1>4 DEF InHook

\* A step beside the heartbeat's is one of SbDsp.
LEMMA BeatCases ==
  ASSUME [BeatNext]_allVars
  PROVE  ([Next]_vars /\ UNCHANGED beatVars) \/ BeatEoi \/ InHook
  BY DEF BeatNext, DspStep, Next, allVars

LEMMA BeatTypes == BeatSpec => []BeatInv
<1>1. BeatInit => BeatInv
  BY TypeInit DEF BeatInit, BeatInv, TypeBeat
<1>2. BeatInv /\ [BeatNext]_allVars => BeatInv'
  <2> SUFFICES ASSUME BeatInv, [BeatNext]_allVars PROVE BeatInv'
    OBVIOUS
  <2>1. CASE [Next]_vars /\ UNCHANGED beatVars
    BY <2>1, TypeStep DEF BeatInv, TypeBeat, beatVars
  <2> QED BY <2>1, BeatCases, BeatTypeStep
<1> QED BY <1>1, <1>2, PTL DEF BeatSpec

LEMMA BeatThreads ==
  ASSUME ~Preempted
  PROVE  BeatSpec => []ThreadInv
<1>1. BeatInit => ThreadInv
  BY ThreadInit DEF BeatInit
<1>2. BeatInv /\ ThreadInv /\ [BeatNext]_allVars => ThreadInv'
  <2> SUFFICES ASSUME BeatInv, ThreadInv, [BeatNext]_allVars PROVE ThreadInv'
    OBVIOUS
  <2>1. CASE [Next]_vars
    BY <2>1, ThreadStep DEF BeatInv
  <2>2. CASE BeatEoi \/ InHook
    <3>1. UNCHANGED <<cpuVars, flagVars, eventVars, dmaVars>>
      BY <2>2 DEF BeatEoi, InHook, BeatHook, BeatDmaData, BeatBurst
    <3> QED BY <3>1 DEF ThreadInv, AtMostOne, ActiveIfThread, ExitInReset, LeavesOnExit,
         FinishedIsNew, StartIsNeeded, RenewIsSafe, NoThreads, cpuVars, flagVars, eventVars,
         dmaVars
  <2> QED BY <2>1, <2>2, BeatCases
<1> QED BY <1>1, <1>2, BeatTypes, PTL DEF BeatSpec

\* OneDma in a CCPU build: the heartbeat's heal, at any moment of any guest, does not bring
\* a second DMA thread.
THEOREM OneThreadBesideHeal ==
  ASSUME ~Preempted
  PROVE  BeatSpec => []OneDma
<1>1. ThreadInv => OneDma
  BY DEF ThreadInv, AtMostOne, OneDma, Looping
<1> QED BY BeatThreads, <1>1, PTL

\* QueriesHaveBlock in a CCPU build: SbGetDMAPosition spins for a block, the heal's among
\* them, unless its interrupt has withdrawn the answer.
THEOREM QueryBesideHeal ==
  ASSUME "masked" \notin Commands
  PROVE  BeatSpec => []QueriesHaveBlock
<1>1. BeatInit => AnswersBlock
  BY DEF BeatInit, Init, AnswersBlock
<1>2. AnswersBlock /\ [BeatNext]_allVars => AnswersBlock'
  <2> SUFFICES ASSUME AnswersBlock, [BeatNext]_allVars PROVE AnswersBlock'
    OBVIOUS
  <2>1. CASE [Next]_vars
    BY <2>1, AnswerStep
  <2>2. CASE BeatEoi \/ InHook
    BY <2>2 DEF BeatEoi, InHook, BeatHook, BeatDmaData, BeatBurst, AnswersBlock, waveVars,
       irqVars
  <2> QED BY <2>1, <2>2, BeatCases
<1>3. AnswersBlock => QueriesHaveBlock
  BY DEF AnswersBlock, QueriesHaveBlock
<1> QED BY <1>1, <1>2, <1>3, PTL DEF BeatSpec

-----------------------------------------------------------------------------
(* A calm guest: the CPU thread is in the guest's code while the hook is at work. *)

ResetPlaces == ExitPlaces \cup {"clear", "cleared"}

CalmInv ==
  /\ cpu = "guest" => op = "none"
  /\ cpu # "queue" => toQueue = 0
  /\ resetting => cpu \in ResetPlaces
  /\ beat # "idle" => cpu = "guest" /\ icaLock
  /\ beat # "queue" => beatQueue = 0

LEMMA CalmGuest ==
  ASSUME TypeInv, CalmInv, beat = "idle", UNCHANGED beatVars, GuestStep
  PROVE  CalmInv'
<1> USE DEF CalmInv, TypeInv, TypeOK, TypeCpu, ResetPlaces, ExitPlaces, Starts, Does, cpuVars, flagVars,
        lockVars, beatVars
<1>1. CASE SetBlockSize
  BY <1>1 DEF SetBlockSize
<1>2. CASE SetTimeConstant
  BY <1>2 DEF SetTimeConstant
<1>3. CASE PauseDMA
  BY <1>3 DEF PauseDMA
<1>4. CASE ContinueDMA
  BY <1>4 DEF ContinueDMA
<1>5. CASE StopAuto
  BY <1>5 DEF StopAuto
<1>6. ASSUME NEW o \in Starts, StartBlock(o) PROVE CalmInv'
  BY <1>6 DEF StartBlock
<1>7. ASSUME NEW o \in {"eoi", "heal"}, Eoi(o) PROVE CalmInv'
  BY <1>7 DEF Eoi
<1>8. CASE Query
  BY <1>8 DEF Query
<1>9. CASE DspResetWrite
  BY <1>9 DEF DspResetWrite
<1> QED BY <1>1, <1>2, <1>3, <1>4, <1>5, <1>6, <1>7, <1>8, <1>9 DEF GuestStep

LEMMA CalmCpu ==
  ASSUME TypeInv, CalmInv, UNCHANGED beatVars, CpuStep
  PROVE  CalmInv'
<1> USE DEF CalmInv, TypeInv, TypeOK, TypeCpu, ResetPlaces, ExitPlaces, Starts, Does, cpuVars, flagVars,
        lockVars, beatVars
<1>1. CASE StartThread
  BY <1>1 DEF StartThread, Goto
<1>2. CASE WaitStarted
  BY <1>2 DEF WaitStarted
<1>3. CASE EnlargeBuffer
  BY <1>3 DEF EnlargeBuffer, GenerateHdrs
<1>4. CASE SetMode
  BY <1>4 DEF SetMode, SetWaveFormat, RegisterEOIHook
<1>5. CASE BeginDmaData
  BY <1>5 DEF BeginDmaData, LeaveIcaLock
<1>6. CASE QueueBurst
  BY <1>6 DEF QueueBurst, ReleaseSemaphore, LeaveIcaLock, Advance
<1>7. CASE AutoInitEoiHook
  BY <1>7 DEF AutoInitEoiHook, SetWaveFormat, LeaveIcaLock
<1>8. CASE Spin
  BY <1>8 DEF Spin
<1>9. CASE CountQuery
  BY <1>9 DEF CountQuery
<1>10. CASE ResetDSP
  BY <1>10 DEF ResetDSP, SignalReset
<1>11. CASE WaitResetDone
  BY <1>11 DEF WaitResetDone
<1>12. CASE StopDspDmaThread
  BY <1>12 DEF StopDspDmaThread, StopWait, ReleaseSemaphore
<1>13. CASE WaitFinished
  BY <1>13 DEF WaitFinished
<1>14. CASE Renew
  BY <1>14 DEF Renew, ClearEvents
<1>15. CASE ResetMode
  BY <1>15 DEF ResetMode
<1>16. CASE EndReset
  BY <1>16 DEF EndReset
<1> QED BY <1>1, <1>2, <1>3, <1>4, <1>5, <1>6, <1>7, <1>8, <1>9, <1>10, <1>11, <1>12,
       <1>13, <1>14, <1>15, <1>16 DEF CpuStep

LEMMA CalmDma ==
  ASSUME TypeInv, CalmInv, UNCHANGED beatVars, NEW t \in DmaThreads, DmaStep(t)
  PROVE  CalmInv'
<1> USE DEF CalmInv, TypeInv, TypeOK, TypeCpu, ResetPlaces, ExitPlaces, Starts, Does, cpuVars, flagVars,
        lockVars, beatVars
<1>1. CASE BeginThread(t)
  BY <1>1 DEF BeginThread, Goto
<1>2. CASE LoopTop(t)
  BY <1>2 DEF LoopTop, Goto
<1>3. CASE TakeBurst(t)
  BY <1>3 DEF TakeBurst, Goto, DelayInfinite
<1>4. CASE PutOff(t)
  BY <1>4 DEF PutOff, Goto
<1>5. CASE EndTransfer(t)
  BY <1>5 DEF EndTransfer, Goto
<1>6. CASE RaiseInterrupt(t)
  BY <1>6 DEF RaiseInterrupt, Goto, DelayInfinite, WithdrawAnswer
<1>7. CASE ResetNoticed(t)
  BY <1>7 DEF ResetNoticed, Goto, ExitAutoMode
<1>8. CASE ProcessBlock(t)
  BY <1>8 DEF ProcessBlock, Goto, SetWaveFormat, Advance, WaveBlockSize
<1>9. CASE WriteBurst(t)
  BY <1>9 DEF WriteBurst, Goto, Advance
<1>10. CASE NextBurst(t)
  BY <1>10 DEF NextBurst, Goto
<1>11. CASE EndBlock(t)
  BY <1>11 DEF EndBlock, Goto, ExitAutoMode, DelayOfBlock
<1>12. CASE CloseDevice(t)
  BY <1>12 DEF CloseDevice, Goto
<1>13. CASE Deactivate(t)
  BY <1>13 DEF Deactivate, Goto
<1>14. CASE Finish(t)
  BY <1>14 DEF Finish, Goto
<1>15. CASE Unhook(t)
  BY <1>15 DEF Unhook, Goto
<1> QED BY <1>1, <1>2, <1>3, <1>4, <1>5, <1>6, <1>7, <1>8, <1>9, <1>10, <1>11, <1>12,
       <1>13, <1>14, <1>15 DEF DmaStep

LEMMA CalmHeal ==
  ASSUME Calm, BeatInv, CalmInv, BeatEoi \/ InHook
  PROVE  CalmInv'
<1> USE DEF CalmInv, BeatInv, TypeBeat, ResetPlaces, ExitPlaces, cpuVars, flagVars
<1>1. CASE BeatEoi
  BY <1>1 DEF BeatEoi
<1>2. CASE BeatHook
  BY <1>2 DEF BeatHook, Return
<1>3. CASE BeatDmaData
  BY <1>3 DEF BeatDmaData, Return
<1>4. CASE BeatBurst
  <2>1. UNCHANGED <<cpu, op, toQueue, resetting>>
    BY <1>4 DEF BeatBurst
  <2>2. \/ beat' = "idle" /\ beatQueue' = 0
        \/ beat' = "queue" /\ icaLock' = icaLock
    <3>1. CASE beatQueue = 1
      BY <1>4, <3>1 DEF BeatBurst, Return
    <3>2. CASE beatQueue # 1
      <4>1. UNCHANGED <<beat, icaLock>>
        BY <1>4, <3>2 DEF BeatBurst
      <4> QED BY <1>4, <4>1 DEF BeatBurst
    <3> QED BY <3>1, <3>2
  <2>3. cpu = "guest" /\ icaLock
    BY <1>4 DEF BeatBurst
  <2> QED BY <2>1, <2>2, <2>3, Zenon
<1> QED BY <1>1, <1>2, <1>3, <1>4 DEF InHook

LEMMA CalmHolds ==
  ASSUME Calm
  PROVE  BeatSpec => []CalmInv
<1>1. BeatInit => CalmInv
  BY DEF BeatInit, Init, CalmInv
<1>2. BeatInv /\ CalmInv /\ [BeatNext]_allVars => CalmInv'
  <2> SUFFICES ASSUME BeatInv, CalmInv, [BeatNext]_allVars PROVE CalmInv'
    OBVIOUS
  <2> USE DEF BeatInv
  <2>1. CASE GuestStep /\ beat = "idle" /\ UNCHANGED beatVars
    BY <2>1, CalmGuest
  <2>2. CASE CpuStep /\ UNCHANGED beatVars
    BY <2>2, CalmCpu
  <2>3. ASSUME NEW t \in DmaThreads, DmaStep(t), UNCHANGED beatVars PROVE CalmInv'
    BY <2>3, CalmDma
  <2>4. CASE BeatEoi \/ InHook
    BY <2>4, CalmHeal
  <2>5. CASE UNCHANGED allVars
    BY <2>5 DEF CalmInv, allVars, vars, cpuVars, flagVars, lockVars, beatVars
  <2> QED BY <2>1, <2>2, <2>3, <2>4, <2>5 DEF BeatNext, DspStep
<1> QED BY <1>1, <1>2, BeatTypes, PTL DEF BeatSpec

LEMMA GuestMaps ==
  ASSUME beat = "idle", UNCHANGED beatVars, GuestStep
  PROVE  CpuHeals!GuestStep
<1> USE DEF cpuVars, flagVars, waveVars, ringVars, eventVars, lockVars, irqVars,
        dmaVars, CpuHeals!cpuVars, CpuHeals!flagVars, CpuHeals!waveVars,
        CpuHeals!ringVars, CpuHeals!eventVars, CpuHeals!lockVars, CpuHeals!irqVars,
        CpuHeals!dmaVars, beatVars, Does, CpuHeals!Does
<1>1. SetBlockSize => CpuHeals!SetBlockSize
  BY DEF SetBlockSize, CpuHeals!SetBlockSize
<1>2. SetTimeConstant => CpuHeals!SetTimeConstant
  BY DEF SetTimeConstant, CpuHeals!SetTimeConstant
<1>3. PauseDMA => CpuHeals!PauseDMA
  BY DEF PauseDMA, CpuHeals!PauseDMA
<1>4. ContinueDMA => CpuHeals!ContinueDMA
  BY DEF ContinueDMA, CpuHeals!ContinueDMA
<1>5. StopAuto => CpuHeals!StopAuto
  BY DEF StopAuto, CpuHeals!StopAuto
<1>6. Query => CpuHeals!Query
  BY DEF Query, CpuHeals!Query
<1>7. DspResetWrite => CpuHeals!DspResetWrite
  BY DEF DspResetWrite, CpuHeals!DspResetWrite
<1>8. ASSUME NEW o \in Starts, StartBlock(o) PROVE CpuHeals!StartBlock(o)
  BY <1>8 DEF Starts, StartBlock, CpuHeals!StartBlock
<1>9. ASSUME NEW o \in {"eoi", "heal"}, Eoi(o) PROVE CpuHeals!Eoi(o)
  BY <1>9 DEF Eoi, CpuHeals!Eoi
<1>10. CpuHeals!Undisturbed
  BY DEF GuestStep, Undisturbed, CpuHeals!Undisturbed
<1> QED BY <1>1, <1>2, <1>3, <1>4, <1>5, <1>6, <1>7, <1>8, <1>9, <1>10 DEF GuestStep,
       CpuHeals!GuestStep, Starts, CpuHeals!Starts

LEMMA Leaves ==
  ASSUME beat = "idle", LeaveIcaLock
  PROVE  CpuHeals!LeaveIcaLock
  BY Zenon DEF LeaveIcaLock, CpuHeals!LeaveIcaLock

LEMMA CpuMaps ==
  ASSUME beat = "idle", UNCHANGED beatVars, CpuStep
  PROVE  CpuHeals!CpuStep
<1> USE DEF cpuVars, flagVars, waveVars, ringVars, eventVars, lockVars, irqVars,
        dmaVars, CpuHeals!cpuVars, CpuHeals!flagVars, CpuHeals!waveVars,
        CpuHeals!ringVars, CpuHeals!eventVars, CpuHeals!lockVars, CpuHeals!irqVars,
        CpuHeals!dmaVars, beatVars, Does, CpuHeals!Does
<1>1. StartThread => CpuHeals!StartThread
  BY DEF StartThread, Goto, CpuHeals!StartThread, CpuHeals!Goto
<1>2. WaitStarted => CpuHeals!WaitStarted
  BY DEF WaitStarted, CpuHeals!WaitStarted
<1>3. EnlargeBuffer => CpuHeals!EnlargeBuffer
  BY DEF EnlargeBuffer, GenerateHdrs, NoSizes, Indices, CpuHeals!EnlargeBuffer,
     CpuHeals!GenerateHdrs, CpuHeals!NoSizes, CpuHeals!Indices
<1>4. SetMode => CpuHeals!SetMode
  BY DEF SetMode, SetWaveFormat, RegisterEOIHook, CpuHeals!SetMode,
     CpuHeals!SetWaveFormat, CpuHeals!RegisterEOIHook
<1>5. BeginDmaData => CpuHeals!BeginDmaData
  BY Leaves DEF BeginDmaData, CpuHeals!BeginDmaData
<1>6. QueueBurst => CpuHeals!QueueBurst
  BY Leaves DEF QueueBurst, Advance, ReleaseSemaphore, CpuHeals!QueueBurst,
     CpuHeals!Advance, CpuHeals!ReleaseSemaphore
<1>7. AutoInitEoiHook => CpuHeals!AutoInitEoiHook
  BY DEF AutoInitEoiHook, SetWaveFormat, LeaveIcaLock, CpuHeals!AutoInitEoiHook,
     CpuHeals!SetWaveFormat, CpuHeals!LeaveIcaLock
<1>8. Spin => CpuHeals!Spin
  BY DEF Spin, CpuHeals!Spin
<1>9. CountQuery => CpuHeals!CountQuery
  BY DEF CountQuery, CpuHeals!CountQuery
<1>10. ResetDSP => CpuHeals!ResetDSP
  BY DEF ResetDSP, SignalReset, CpuHeals!ResetDSP, CpuHeals!SignalReset
<1>11. WaitResetDone => CpuHeals!WaitResetDone
  BY DEF WaitResetDone, CpuHeals!WaitResetDone
<1>12. StopDspDmaThread => CpuHeals!StopDspDmaThread
  BY DEF StopDspDmaThread, StopWait, ReleaseSemaphore, CpuHeals!StopDspDmaThread,
     CpuHeals!StopWait, CpuHeals!ReleaseSemaphore
<1>13. WaitFinished => CpuHeals!WaitFinished
  BY DEF WaitFinished, CpuHeals!WaitFinished
<1>14. Renew => CpuHeals!Renew
  BY DEF Renew, ClearEvents, CpuHeals!Renew, CpuHeals!ClearEvents
<1>15. ResetMode => CpuHeals!ResetMode
  BY DEF ResetMode, CpuHeals!ResetMode
<1>16. EndReset => CpuHeals!EndReset
  BY DEF EndReset, CpuHeals!EndReset
<1>17. CpuHeals!Undisturbed
  BY DEF CpuStep, Undisturbed, CpuHeals!Undisturbed
<1> QED BY <1>1, <1>2, <1>3, <1>4, <1>5, <1>6, <1>7, <1>8, <1>9, <1>10, <1>11, <1>12,
       <1>13, <1>14, <1>15, <1>16, <1>17 DEF CpuStep, CpuHeals!CpuStep

LEMMA DmaMaps ==
  ASSUME UNCHANGED beatVars, NEW t \in DmaThreads, DmaStep(t)
  PROVE  CpuHeals!DmaStep(t)
<1> USE DEF cpuVars, flagVars, waveVars, ringVars, eventVars, lockVars, irqVars,
        dmaVars, CpuHeals!cpuVars, CpuHeals!flagVars, CpuHeals!waveVars,
        CpuHeals!ringVars, CpuHeals!eventVars, CpuHeals!lockVars, CpuHeals!irqVars,
        CpuHeals!dmaVars, beatVars, Does, CpuHeals!Does
<1>1. BeginThread(t) => CpuHeals!BeginThread(t)
  BY DEF BeginThread, Goto, CpuHeals!BeginThread, CpuHeals!Goto
<1>2. LoopTop(t) => CpuHeals!LoopTop(t)
  BY DEF LoopTop, Goto, CpuHeals!LoopTop, CpuHeals!Goto
<1>3. TakeBurst(t) => CpuHeals!TakeBurst(t)
  BY DEF TakeBurst, Goto, DelayInfinite, CpuHeals!TakeBurst, CpuHeals!Goto,
     CpuHeals!DelayInfinite
<1>4. PutOff(t) => CpuHeals!PutOff(t)
  BY DEF PutOff, Goto, CpuHeals!PutOff, CpuHeals!Goto
<1>5. EndTransfer(t) => CpuHeals!EndTransfer(t)
  BY DEF EndTransfer, Goto, CpuHeals!EndTransfer, CpuHeals!Goto
<1>6. RaiseInterrupt(t) => CpuHeals!RaiseInterrupt(t)
  BY DEF RaiseInterrupt, Goto, DelayInfinite, WithdrawAnswer, CpuHeals!RaiseInterrupt,
     CpuHeals!Goto, CpuHeals!DelayInfinite, CpuHeals!WithdrawAnswer
<1>7. ResetNoticed(t) => CpuHeals!ResetNoticed(t)
  BY DEF ResetNoticed, Goto, ExitAutoMode, CpuHeals!ResetNoticed, CpuHeals!Goto,
     CpuHeals!ExitAutoMode
<1>8. ProcessBlock(t) => CpuHeals!ProcessBlock(t)
  BY DEF ProcessBlock, Goto, SetWaveFormat, Advance, WaveBlockSize,
     CpuHeals!ProcessBlock, CpuHeals!Goto, CpuHeals!SetWaveFormat, CpuHeals!Advance,
     CpuHeals!WaveBlockSize
<1>9. WriteBurst(t) => CpuHeals!WriteBurst(t)
  BY DEF WriteBurst, Goto, Advance, CpuHeals!WriteBurst, CpuHeals!Goto, CpuHeals!Advance
<1>10. NextBurst(t) => CpuHeals!NextBurst(t)
  BY DEF NextBurst, Goto, CpuHeals!NextBurst, CpuHeals!Goto
<1>11. EndBlock(t) => CpuHeals!EndBlock(t)
  BY DEF EndBlock, Goto, ExitAutoMode, DelayOfBlock, CpuHeals!EndBlock, CpuHeals!Goto,
     CpuHeals!ExitAutoMode, CpuHeals!DelayOfBlock
<1>12. CloseDevice(t) => CpuHeals!CloseDevice(t)
  BY DEF CloseDevice, Goto, CpuHeals!CloseDevice, CpuHeals!Goto
<1>13. Deactivate(t) => CpuHeals!Deactivate(t)
  BY DEF Deactivate, Goto, CpuHeals!Deactivate, CpuHeals!Goto
<1>14. Finish(t) => CpuHeals!Finish(t)
  BY DEF Finish, Goto, CpuHeals!Finish, CpuHeals!Goto
<1>15. Unhook(t) => CpuHeals!Unhook(t)
  BY DEF Unhook, Goto, CpuHeals!Unhook, CpuHeals!Goto
<1> QED BY <1>1, <1>2, <1>3, <1>4, <1>5, <1>6, <1>7, <1>8, <1>9, <1>10, <1>11, <1>12,
       <1>13, <1>14, <1>15 DEF DmaStep, CpuHeals!DmaStep

LEMMA HealMaps ==
  ASSUME Calm, ~Preempted, BeatInv, ThreadInv, CalmInv, BeatEoi \/ InHook
  PROVE  CpuHeals!Next
<1> USE DEF BeatInv, TypeBeat, CalmInv, ResetPlaces, ExitPlaces, cpuVars, flagVars, waveVars, ringVars, eventVars, lockVars, irqVars, dmaVars,
        CpuHeals!cpuVars, CpuHeals!flagVars, CpuHeals!waveVars, CpuHeals!ringVars,
        CpuHeals!eventVars, CpuHeals!lockVars, CpuHeals!irqVars, CpuHeals!dmaVars
<1>1. CpuHeals!Undisturbed
  <2>1. cpu = "guest"
    BY DEF BeatEoi, InHook, BeatHook, BeatDmaData, BeatBurst
  <2> QED BY <2>1 DEF ThreadInv, LeavesOnExit, ExitInReset, ExitPlaces, CpuHeals!Undisturbed
<1>2. CASE BeatEoi
  <2>1. CpuHeals!Eoi("heal")
    BY <1>2 DEF BeatEoi, CpuHeals!Eoi
  <2> QED BY <1>1, <2>1 DEF CpuHeals!GuestStep, CpuHeals!Next
<1>3. CASE BeatHook
  <2>1. CpuHeals!AutoInitEoiHook
    BY <1>3 DEF BeatHook, Return, SetWaveFormat, CpuHeals!AutoInitEoiHook,
       CpuHeals!SetWaveFormat, CpuHeals!LeaveIcaLock
  <2> QED BY <1>1, <2>1 DEF CpuHeals!CpuStep, CpuHeals!Next
<1>4. CASE BeatDmaData
  <2>1. ~resetting
    BY <1>4 DEF BeatDmaData
  <2>2. CpuHeals!BeginDmaData
    BY <1>4, <2>1 DEF BeatDmaData, Return, CpuHeals!BeginDmaData, CpuHeals!LeaveIcaLock
  <2> QED BY <1>1, <2>2 DEF CpuHeals!CpuStep, CpuHeals!Next
<1>5. CASE BeatBurst
  <2> USE DEF Advance, ReleaseSemaphore, CpuHeals!QueueBurst, CpuHeals!Advance,
          CpuHeals!ReleaseSemaphore
  <2>1. beatQueue' = beatQueue - 1 /\ cpu = "guest" /\ op = "none" /\ toQueue = 0
    BY <1>5 DEF BeatBurst
  <2>2. CASE beatQueue = 1
    <3>1. Return
      BY <1>5, <2>2 DEF BeatBurst
    <3>2. CpuHeals!LeaveIcaLock
      <4>1. beat # "idle" /\ icaLock' = FALSE
        BY <1>5, <3>1 DEF BeatBurst, Return
      <4> QED BY <4>1, Zenon DEF CpuHeals!LeaveIcaLock
    <3>3. /\ (IF beat = "idle" THEN cpu ELSE beat)' = "guest"
          /\ (IF beat = "idle" THEN op ELSE "heal")' = "none"
          /\ (IF beat = "idle" THEN toQueue ELSE beatQueue)' = 0
          /\ (IF beat = "idle" THEN toQueue ELSE beatQueue) = 1
      BY <1>5, <2>1, <2>2, <3>1 DEF BeatBurst, Return
    <3>4. CpuHeals!QueueBurst
      BY <1>5, <2>2, <3>2, <3>3 DEF BeatBurst
    <3> QED BY <1>1, <3>4 DEF CpuHeals!CpuStep, CpuHeals!Next
  <2>3. CASE beatQueue # 1
    <3>1. UNCHANGED <<beat, icaLock>>
      BY <1>5, <2>3 DEF BeatBurst
    <3>2. CpuHeals!QueueBurst
      BY <1>5, <2>1, <2>3, <3>1 DEF BeatBurst, CpuHeals!LeaveIcaLock
    <3> QED BY <1>1, <3>2 DEF CpuHeals!CpuStep, CpuHeals!Next
  <2> QED BY <2>2, <2>3
<1> QED BY <1>2, <1>3, <1>4, <1>5 DEF InHook

\* picunwedge.patch, nt_timer.c: what holds of SbDsp with a CPU thread that heals holds in
\* a CCPU build as long as the healed guest spins on.
THEOREM HealRefines ==
  ASSUME Calm, ~Preempted
  PROVE  BeatSpec => HealIsDsp
<1>1. BeatInit => CpuHeals!Init
  BY DEF BeatInit, Init, NoSizes, Indices, CpuHeals!Init, CpuHeals!NoSizes, CpuHeals!Indices
<1>2. BeatInv /\ ThreadInv /\ CalmInv /\ [BeatNext]_allVars => [CpuHeals!Next]_(CpuHeals!vars)
  <2> SUFFICES ASSUME BeatInv, ThreadInv, CalmInv, [BeatNext]_allVars
               PROVE  CpuHeals!Next \/ UNCHANGED CpuHeals!vars
    OBVIOUS
  <2>1. CASE GuestStep /\ beat = "idle" /\ UNCHANGED beatVars
    BY <2>1, GuestMaps DEF CpuHeals!Next
  <2>2. CASE CpuStep /\ UNCHANGED beatVars
    <3>1. beat = "idle"
      BY <2>2 DEF CalmInv, CpuStep, StartThread, WaitStarted, EnlargeBuffer, SetMode,
         BeginDmaData, QueueBurst, AutoInitEoiHook, Spin, CountQuery, ResetDSP,
         WaitResetDone, StopDspDmaThread, WaitFinished, Renew, ResetMode, EndReset
    <3> QED BY <2>2, <3>1, CpuMaps DEF CpuHeals!Next
  <2>3. ASSUME NEW t \in DmaThreads, DmaStep(t), UNCHANGED beatVars PROVE CpuHeals!Next
    BY <2>3, DmaMaps DEF CpuHeals!Next
  <2>4. CASE BeatEoi \/ InHook
    BY <2>4, HealMaps
  <2>5. CASE UNCHANGED allVars
    BY <2>5 DEF allVars, vars, beatVars, CpuHeals!vars, cpuVars, flagVars, waveVars, ringVars, eventVars, lockVars, irqVars, dmaVars,
        CpuHeals!cpuVars, CpuHeals!flagVars, CpuHeals!waveVars, CpuHeals!ringVars,
        CpuHeals!eventVars, CpuHeals!lockVars, CpuHeals!irqVars, CpuHeals!dmaVars
  <2> QED BY <2>1, <2>2, <2>3, <2>4, <2>5 DEF BeatNext, DspStep
<1> QED BY <1>1, <1>2, BeatTypes, BeatThreads, CalmHolds, PTL
     DEF BeatSpec, HealIsDsp, CpuHeals!Spec

=============================================================================
