--------------------------- MODULE HaxmKickProofs ---------------------------
(***************************************************************************)
(* What HaxmKick promises for every set of workers.  NeverDeaf alone is    *)
(* not inductive: a worker that finds the mark set gives up, which is      *)
(* right only because a kick stands behind the mark (KickBehindMark), and  *)
(* one that finds the VCPU not running gives up, which is right only       *)
(* because g_in_haxrun is set throughout the run (RunIsMarked).            *)
(***************************************************************************)
EXTENDS HaxmKick, TLAPS

RunIsMarked == vcpu = "run" => inHaxrun
SampleIsMarked == vcpu = "sample" => inHaxrun

IInv == TypeOK /\ RunIsMarked /\ SampleIsMarked /\ KickBehindMark /\ NeverDeaf

(* The first state is one of IInv.                                         *)
LEMMA InitIInv == Init => IInv
<1> SUFFICES ASSUME Init PROVE IInv
  OBVIOUS
<1>1. TypeOK
  BY DEF Init, TypeOK
<1>2. RunIsMarked /\ SampleIsMarked /\ KickBehindMark /\ NeverDeaf
  BY DEF Init, RunIsMarked, SampleIsMarked, KickBehindMark, NeverDeaf
<1> QED BY <1>1, <1>2 DEF IInv

(* A step of a worker in cpu_interrupt keeps IInv.                         *)
LEMMA WorkerStep ==
  ASSUME IInv, NEW w \in Workers, SetFlag(w) \/ CpuInterrupt(w)
  PROVE  IInv'
<1> USE DEF IInv, TypeOK, RunIsMarked, SampleIsMarked, Move, flagVars, driverVars
<1>1. CASE SetFlag(w)
  <2>1. TypeOK' /\ RunIsMarked' /\ SampleIsMarked'
    BY <1>1 DEF SetFlag
  <2>2. worker'[w] = "test" /\ (Kicking => Kicking')
    BY <1>1 DEF SetFlag, Kicking
  <2>3. KickBehindMark'
    BY <1>1, <2>2 DEF SetFlag, KickBehindMark
  <2>4. kickPending = 1 /\ vcpu = "run" => kicked \/ Kicking
    BY DEF KickBehindMark
  <2>5. NeverDeaf'
    BY <1>1, <2>2, <2>4 DEF SetFlag, NeverDeaf, AboutToKick
  <2> QED BY <2>1, <2>3, <2>5
<1>2. CASE TestRunning(w)
  <2>1. TypeOK' /\ RunIsMarked' /\ SampleIsMarked'
    BY <1>2 DEF TestRunning
  <2>2. Kicking => Kicking'
    BY <1>2 DEF TestRunning, Kicking
  <2>3. KickBehindMark'
    BY <1>2, <2>2 DEF TestRunning, KickBehindMark
  <2>4. vcpu = "run" /\ AboutToKick => AboutToKick'
    BY <1>2 DEF TestRunning, AboutToKick
  <2>5. NeverDeaf'
    BY <1>2, <2>2, <2>4 DEF TestRunning, NeverDeaf, Pending
  <2> QED BY <2>1, <2>3, <2>5
<1>3. CASE TestPending(w)
  <2>1. TypeOK' /\ RunIsMarked' /\ SampleIsMarked'
    BY <1>3 DEF TestPending
  <2>2. Kicking => Kicking'
    BY <1>3 DEF TestPending, Kicking
  <2>3. KickBehindMark'
    BY <1>3, <2>2 DEF TestPending, KickBehindMark
  <2>4. Pending /\ AboutToKick => AboutToKick'
    BY <1>3 DEF TestPending, AboutToKick
  <2>5. NeverDeaf'
    BY <1>3, <2>2, <2>4 DEF TestPending, NeverDeaf, Pending
  <2> QED BY <2>1, <2>3, <2>5
<1>4. CASE ExchangePending(w)
  <2>1. TypeOK' /\ RunIsMarked' /\ SampleIsMarked'
    BY <1>4 DEF ExchangePending
  <2>2. Kicking \/ kickPending = 0 => Kicking'
    BY <1>4 DEF ExchangePending, Kicking
  <2>3. KickBehindMark'
    BY <1>4, <2>2 DEF ExchangePending, KickBehindMark
  <2>4. NeverDeaf'
    BY <1>4, <2>2 DEF ExchangePending, NeverDeaf, Pending
  <2> QED BY <2>1, <2>3, <2>4
<1>5. CASE Kick(w)
  BY <1>5 DEF Kick, KickBehindMark, NeverDeaf
<1> QED BY <1>1, <1>2, <1>3, <1>4, <1>5 DEF CpuInterrupt

(* A step of the VCPU thread outside the run keeps IInv.                   *)
LEMMA LoopStep == ASSUME IInv, Loop PROVE IInv'
<1> USE DEF IInv, TypeOK, RunIsMarked, SampleIsMarked, KickBehindMark, NeverDeaf,
            Kicking, flagVars, driverVars
<1>1. CASE MarkThenSample
  BY <1>1 DEF MarkThenSample, Pending
<1>2. CASE LeaveRun
  BY <1>2 DEF LeaveRun
<1>3. CASE ClearKick
  BY <1>3 DEF ClearKick
<1>4. CASE HandleIo
  BY <1>4 DEF HandleIo
<1>5. CASE HandleTimer
  BY <1>5 DEF HandleTimer, Unwedge
<1>6. CASE HandleInterrupt
  BY <1>6 DEF HandleInterrupt, Unwedge
<1>7. CASE Dispatch
  BY <1>7 DEF Dispatch, InjectHardware
<1>8. CASE TimerEvent
  BY <1>8 DEF TimerEvent
<1>9. CASE DispatchHardware
  BY <1>9 DEF DispatchHardware, InjectHardware
<1> QED BY <1>1, <1>2, <1>3, <1>4, <1>5, <1>6, <1>7, <1>8, <1>9 DEF Loop

(* A step of the guest or the driver keeps IInv.                           *)
LEMMA RunStep ==
  ASSUME IInv, ExitIo \/ ExitInterrupt \/ ExitTimer \/ GuestSetsIF
  PROVE  IInv'
<1> USE DEF IInv, TypeOK, RunIsMarked, SampleIsMarked, KickBehindMark, NeverDeaf,
            Kicking, AboutToKick, Pending, flagVars
<1>1. CASE ExitIo
  BY <1>1 DEF ExitIo, ExitWith
<1>2. CASE ExitInterrupt
  BY <1>2 DEF ExitInterrupt, ExitWith
<1>3. CASE ExitTimer
  BY <1>3 DEF ExitTimer, ExitWith
<1>4. CASE GuestSetsIF
  BY <1>4 DEF GuestSetsIF
<1> QED BY <1>1, <1>2, <1>3, <1>4

(* IInv holds in every reachable state, whatever the workers do.           *)
THEOREM KickInvariant == Spec => []IInv
<1>1. Init => IInv
  BY InitIInv
<1>2. IInv /\ [Next]_vars => IInv'
  <2> SUFFICES ASSUME IInv, [Next]_vars PROVE IInv'
    OBVIOUS
  <2>1. CASE Next
    BY <2>1, WorkerStep, LoopStep, RunStep DEF Next
  <2>2. CASE UNCHANGED vars
    BY <2>2 DEF vars, IInv, TypeOK, RunIsMarked, SampleIsMarked, KickBehindMark,
                NeverDeaf, Pending, Kicking, AboutToKick
  <2> QED BY <2>1, <2>2
<1> QED BY <1>1, <1>2, PTL DEF Spec

(* The guest never runs unaware of an interrupt: the guarantee the comment *)
(* at the top of cpu_simulate's loop gives, for any number of workers.     *)
THEOREM GuestIsAlerted == Spec => []NeverDeaf
<1>1. IInv => NeverDeaf
  BY DEF IInv
<1> QED BY <1>1, KickInvariant, PTL

(* g_kick_pending never silences the workers without a kick behind it.     *)
THEOREM MarkIsBacked == Spec => []KickBehindMark
<1>1. IInv => KickBehindMark
  BY DEF IInv
<1> QED BY <1>1, KickInvariant, PTL
=============================================================================
