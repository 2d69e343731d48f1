--------------------------- MODULE SysLevelProofs ---------------------------
(***************************************************************************)
(* Proofs about SysLevel, for any set of threads and handles.              *)
(*                                                                         *)
(* MutualExclusion is not inductive: a thread reaches 16-bit code through  *)
(* loops that give back and retake levels, and what those loops do depends *)
(* on how many levels the thread owns and on what sys_count says.  Levels  *)
(* ties the two to the place each thread is at.                            *)
(***************************************************************************)
EXTENDS SysLevel, FiniteSetTheorems, TLAPS

\* An owned section has levels, a free one has none.
Owned == /\ owner = NoThread => rec = 0
         /\ owner # NoThread => rec > 0

\* sys_count lies between 0 and n, and sys_mutex is set when it is not 0.
CountWithin(t, n) ==
  /\ sysCount[t] >= 0
  /\ sysCount[t] <= n
  /\ sysCount[t] > 0 => sysMutex[t]

\* A thread outside of the loops.
Outside(t) == op[t] = "call" /\ left[t] = 0

\* A thread that restores the levels of its innermost yield and has n of them back.
Restoring(t, n) ==
  /\ op[t] \in {"OldYield", "Wait", "DirectedYield"}
  /\ count[t] # <<>>
  /\ Head(count[t]) > 0
  /\ n >= 0
  /\ n + left[t] = Head(count[t])

Levels(t) ==
  LET n == ConfirmSysLevel(t) IN
  /\ pc[t] = "gone" => n = 0 /\ sysCount[t] = 0 /\ Outside(t)
  /\ pc[t] = "run" =>
       Outside(t) /\ CountWithin(t, n) /\ (code[t] = "wow16" => n > 0)
  /\ pc[t] = "enter" =>
       /\ CountWithin(t, n)
       /\ Outside(t) \/ (Restoring(t, n + 1) /\ sysCount[t] = n)
  /\ pc[t] \in {"check", "drop"} =>
       /\ n > 0
       /\ CountWithin(t, n - 1)
       /\ Outside(t) \/ (Restoring(t, n) /\ sysCount[t] = n - 1)
  /\ pc[t] \in {"wait", "regain"} =>
       /\ n = 0
       /\ sysCount[t] <= 0
       /\ sysCount[t] + mutexCount[t] >= 0
       /\ Outside(t) \/ (Restoring(t, mutexCount[t] + 1) /\ sysCount[t] = 0)
  /\ pc[t] = "release" =>
       /\ left[t] = n
       /\ CountWithin(t, n)
       /\ op[t] # "call"
       /\ count[t] # <<>>
  /\ pc[t] = "native" => n = 0 /\ sysCount[t] = 0 /\ Restoring(t, 0)
  /\ pc[t] = "restore" => Restoring(t, n) /\ sysCount[t] = n /\ CountWithin(t, n)
  /\ pc[t] = "create" => n > 0 /\ Outside(t) /\ CountWithin(t, n)
  /\ pc[t] \in {"close", "signal"} => n > 0 /\ Outside(t) /\ CountWithin(t, n)

\* The counts on the stack are the levels the thread owned, none of them 0
\* but the one of a thread that exits.
Stack(t) ==
  /\ gave[t] = count[t]
  /\ op[t] # "Exit" => \A i \in 1 .. Len(count[t]) : count[t][i] > 0

IInv == TypeOK /\ Owned /\ \A t \in Threads : Levels(t) /\ Stack(t)
-----------------------------------------------------------------------------
(* A step of one thread leaves what the others own and count alone.        *)
OthersKeep(t) ==
  \A u \in Threads \ {t} :
    /\ (ConfirmSysLevel(u))' = ConfirmSysLevel(u)
    /\ pc'[u] = pc[u]
    /\ code'[u] = code[u]
    /\ op'[u] = op[u]
    /\ count'[u] = count[u]
    /\ gave'[u] = gave[u]
    /\ left'[u] = left[u]
    /\ mutexCount'[u] = mutexCount[u]
    /\ sysCount'[u] = sysCount[u]
    /\ sysMutex'[u] = sysMutex[u]

\* What one step of _LeaveSysLevel does when the counter never exceeds the
\* levels owned: it gives back one level, or nothing if there is none.
LEMMA LeaveOneLevel ==
  ASSUME NEW t \in Threads, TypeOK, Owned, LeaveSysLevel(t),
         CountWithin(t, ConfirmSysLevel(t))
  PROVE  /\ ConfirmSysLevel(t) > 0 => (ConfirmSysLevel(t))' = ConfirmSysLevel(t) - 1
         /\ ConfirmSysLevel(t) = 0 => (ConfirmSysLevel(t))' = 0
         /\ (CountWithin(t, ConfirmSysLevel(t)))'
         /\ Owned'
         /\ owner' \in Threads \cup {NoThread}
         /\ rec' \in Nat
         /\ sysCount' \in [Threads -> Int]
         /\ sysMutex' \in [Threads -> BOOLEAN]
         /\ \A u \in Threads \ {t} : /\ (ConfirmSysLevel(u))' = ConfirmSysLevel(u)
                                     /\ sysCount'[u] = sysCount[u]
                                     /\ sysMutex'[u] = sysMutex[u]
  <1> USE SysLevelAssumption DEF TypeOK, Owned, CountWithin, ConfirmSysLevel
  <1>1. CASE InSync(t)
    <2>1. /\ sysCount[t] > 0
          /\ sysCount' = [sysCount EXCEPT ![t] = sysCount[t] - 1]
          /\ sysMutex' = [sysMutex EXCEPT ![t] = sysCount[t] # 1]
          /\ rec' = rec - 1
          /\ owner' = IF rec = 1 THEN NoThread ELSE owner
      BY <1>1 DEF LeaveSysLevel, InSync, RtlLeave
    <2>2. owner = t /\ rec > 0
      BY <2>1
    <2>3. sysMutex' \in [Threads -> BOOLEAN]
      BY <2>1, Zenon
    <2>4. sysMutex'[t] = (sysCount[t] # 1)
      BY <2>1, Zenon
    <2>5. \A u \in Threads \ {t} : sysMutex'[u] = sysMutex[u]
      BY <2>1, Zenon
    <2>6. sysCount' \in [Threads -> Int] /\ sysCount'[t] = sysCount[t] - 1
      BY <2>1
    <2>7. \A u \in Threads \ {t} : sysCount'[u] = sysCount[u]
      BY <2>1
    <2>8. /\ (ConfirmSysLevel(t))' = ConfirmSysLevel(t) - 1
          /\ \A u \in Threads \ {t} : (ConfirmSysLevel(u))' = ConfirmSysLevel(u)
          /\ Owned'
          /\ owner' \in Threads \cup {NoThread}
          /\ rec' \in Nat
      BY <2>1, <2>2
    <2>9. (CountWithin(t, ConfirmSysLevel(t)))'
      <3>1. sysCount'[t] > 0 => sysMutex'[t]
        BY <2>4, <2>6
      <3>2. sysCount'[t] >= 0 /\ sysCount'[t] <= (ConfirmSysLevel(t))'
        BY <2>1, <2>2, <2>6, <2>8
      <3>3. QED
        BY <3>1, <3>2
    <2>10. QED
      BY <2>2, <2>3, <2>5, <2>6, <2>7, <2>8, <2>9
  <1>2. CASE ~InSync(t)
    BY <1>2 DEF LeaveSysLevel, InSync, RtlLeave, lockVars
  <1>3. QED
    BY <1>1, <1>2

LEMMA OthersLevels ==
  ASSUME NEW t \in Threads, OthersKeep(t), \A u \in Threads : Levels(u) /\ Stack(u)
  PROVE  \A u \in Threads \ {t} : Levels(u)' /\ Stack(u)'
  BY DEF OthersKeep, Levels, Outside, Restoring, CountWithin, Stack
-----------------------------------------------------------------------------
(* The stack of counts.                                                    *)

\* What a yield finds on the stack after it pushed its count.
LEMMA Push ==
  ASSUME NEW s \in Seq(Nat), NEW n \in Nat
  PROVE  /\ <<n>> \o s \in Seq(Nat)
         /\ <<n>> \o s # <<>>
         /\ Head(<<n>> \o s) = n
         /\ Len(<<n>> \o s) = Len(s) + 1
         /\ \A i \in 1 .. Len(s) + 1 : (<<n>> \o s)[i] = IF i = 1 THEN n ELSE s[i - 1]
  OBVIOUS

\* What it leaves there when it returns.
LEMMA Pop ==
  ASSUME NEW s \in Seq(Nat), s # <<>>
  PROVE  /\ Head(s) \in Nat
         /\ Head(s) = s[1]
         /\ Tail(s) \in Seq(Nat)
         /\ Len(s) > 0
         /\ Len(Tail(s)) = Len(s) - 1
         /\ \A i \in 1 .. Len(s) - 1 : Tail(s)[i] = s[i + 1]
  OBVIOUS

\* The innermost count of a yield is not 0.
LEMMA TopPositive ==
  ASSUME NEW t \in Threads, TypeOK, Stack(t), count[t] # <<>>
  PROVE  /\ Head(count[t]) \in Nat
         /\ op[t] # "Exit" => Head(count[t]) > 0
  BY Pop DEF TypeOK, Stack
-----------------------------------------------------------------------------
(* One step of a thread keeps the types, the section and its own Levels,   *)
(* and leaves the other threads' alone: one step of the proof per action.  *)
LEMMA StepKeeps ==
  ASSUME NEW t \in Threads, TypeOK, Owned, Levels(t), Stack(t),
         \/ EnterSysLevel(t) \/ ThunkLock(t) \/ DirectedYield(t)
         \/ Native(t) \/ Task(t) \/ TaskGone(t)
  PROVE  TypeOK' /\ Owned' /\ OthersKeep(t) /\ Levels(t)'
  <1> USE SysLevelAssumption DEF Goto, vars, lockVars, yieldVars, localVars, countVars,
        RtlEnter, FinishEnter, BeginRelease, ConfirmSysLevel
  <1>p. /\ <<ConfirmSysLevel(t)>> \o count[t] \in Seq(Nat)
        /\ <<ConfirmSysLevel(t)>> \o gave[t] \in Seq(Nat)
        /\ <<ConfirmSysLevel(t)>> \o count[t] # <<>>
    BY Push DEF TypeOK
  <1>q. count[t] # <<>> =>
          /\ Tail(count[t]) \in Seq(Nat) /\ Tail(gave[t]) \in Seq(Nat)
          /\ Head(count[t]) \in Nat
          /\ op[t] # "Exit" => Head(count[t]) > 0
    BY Pop, TopPositive DEF TypeOK, Stack
  <1>1. CASE EnterSection(t)
    <2>2. TypeOK'
      BY <1>1 DEF EnterSection, TypeOK, Places, Operations
    <2>3. Owned' /\ OthersKeep(t)
      BY <1>1 DEF EnterSection, TypeOK, Owned, OthersKeep, Levels
    <2>4. Levels(t)'
      BY <1>1 DEF EnterSection, TypeOK, Owned, Levels, Outside, Restoring, CountWithin
    <2>5. QED
      BY <2>2, <2>3, <2>4
  <1>2. CASE NothingPending(t)
    <2>a. sysCount' \in [Threads -> Int] /\ mutexCount' \in [Threads -> Nat]
      BY <1>2 DEF NothingPending, TypeOK
    <2>b. sysMutex' \in [Threads -> BOOLEAN]
      BY <1>2, Zenon DEF NothingPending, TypeOK
    <2>c. yieldEvent' \in [Threads -> {"null", "clear", "set"}]
      BY <1>2 DEF NothingPending, TypeOK
    <2>d. pc' \in [Threads -> Places] /\ code' \in [Threads -> {"wow16", "native"}]
      BY <1>2 DEF NothingPending, TypeOK, Places
    <2>2. TypeOK'
      BY <1>2, <2>a, <2>b, <2>c, <2>d DEF NothingPending, TypeOK
    <2>3. Owned' /\ OthersKeep(t)
      BY <1>2 DEF NothingPending, TypeOK, Owned, OthersKeep, Levels
    <2>4. Levels(t)'
      BY <1>2 DEF NothingPending, TypeOK, Owned, Levels, Outside, Restoring, CountWithin
    <2>5. QED
      BY <2>2, <2>3, <2>4
  <1>3. CASE CaptureEvent(t)
    <2>2. TypeOK'
      BY <1>3 DEF CaptureEvent, TypeOK, Places, Operations
    <2>3. Owned' /\ OthersKeep(t)
      BY <1>3 DEF CaptureEvent, TypeOK, Owned, OthersKeep, Levels
    <2>4. Levels(t)'
      BY <1>3 DEF CaptureEvent, TypeOK, Owned, Levels, Outside, Restoring, CountWithin
    <2>5. QED
      BY <2>2, <2>3, <2>4
  <1>4. CASE DropLevels(t)
    <2>0. owner = t /\ rec > 0
      BY <1>4 DEF DropLevels, Levels, TypeOK
    <2>1. sysMutex' \in [Threads -> BOOLEAN]
      BY <1>4, Zenon DEF DropLevels, TypeOK
    <2>2. TypeOK'
      BY <1>4, <2>0, <2>1 DEF DropLevels, TypeOK, Places
    <2>3. Owned' /\ OthersKeep(t)
      BY <1>4 DEF DropLevels, TypeOK, Owned, OthersKeep, Levels
    <2>4. Levels(t)'
      BY <1>4 DEF DropLevels, TypeOK, Owned, Levels, Outside, Restoring, CountWithin
    <2>5. QED
      BY <2>2, <2>3, <2>4
  <1>5. CASE WaitYieldEvent(t)
    <2>2. TypeOK'
      BY <1>5 DEF WaitYieldEvent, TypeOK, Places, Operations
    <2>3. Owned' /\ OthersKeep(t)
      BY <1>5 DEF WaitYieldEvent, TypeOK, Owned, OthersKeep, Levels
    <2>4. Levels(t)'
      BY <1>5 DEF WaitYieldEvent, TypeOK, Owned, Levels, Outside, Restoring, CountWithin
    <2>5. QED
      BY <2>2, <2>3, <2>4
  <1>6. CASE RegainLevels(t)
    <2>0. handle[t] \in Handles \cup {NoHandle} /\ mutexCount[t] \in Nat
      BY DEF TypeOK
    <2>a. rec' \in Nat /\ owner' \in Threads /\ sysCount' \in [Threads -> Int]
      BY <1>6, <2>0 DEF RegainLevels, TypeOK
    <2>b. event' \in [Handles -> {"free", "clear", "set"}]
      BY <1>6, <2>0 DEF RegainLevels, TypeOK
    <2>c. sysMutex' \in [Threads -> BOOLEAN]
      BY <1>6, Zenon DEF RegainLevels, TypeOK
    <2>d. yieldEvent' \in [Threads -> {"null", "clear", "set"}]
      BY <1>6 DEF RegainLevels, TypeOK
    <2>e. /\ mutexCount' \in [Threads -> Nat]
          /\ handle' \in [Threads -> Handles \cup {NoHandle}]
      BY <1>6 DEF RegainLevels, TypeOK
    <2>f. pc' \in [Threads -> Places] /\ code' \in [Threads -> {"wow16", "native"}]
      BY <1>6 DEF RegainLevels, TypeOK, Places
    <2>2. TypeOK'
      BY <1>6, <2>a, <2>b, <2>c, <2>d, <2>e, <2>f DEF RegainLevels, TypeOK
    <2>3. Owned' /\ OthersKeep(t)
      BY <1>6 DEF RegainLevels, TypeOK, Owned, OthersKeep, Levels
    <2>4. Levels(t)'
      <3>1. /\ owner = NoThread /\ owner' = t /\ rec' = mutexCount[t] + 1
            /\ sysCount'[t] = sysCount[t] + mutexCount[t] + 1
            /\ count' = count /\ op' = op /\ left' = left
        BY <1>6, <2>0 DEF RegainLevels, TypeOK
      <3>2. sysMutex'[t] = TRUE
        BY <1>6, Zenon DEF RegainLevels, TypeOK
      <3>3. IF op[t] = "call" THEN pc'[t] = "run" ELSE pc'[t] = "restore"
        BY <1>6 DEF RegainLevels, TypeOK
      <3>4. /\ sysCount[t] <= 0 /\ sysCount[t] + mutexCount[t] >= 0
            /\ Outside(t) \/ (Restoring(t, mutexCount[t] + 1) /\ sysCount[t] = 0)
            /\ sysCount[t] \in Int
        BY <1>6 DEF RegainLevels, Levels, TypeOK
      <3>5. (ConfirmSysLevel(t))' = mutexCount[t] + 1
        BY <3>1
      <3>6. CASE op[t] = "call"
        BY <2>0, <3>1, <3>2, <3>3, <3>4, <3>5, <3>6 DEF Levels, Outside, Restoring, CountWithin
      <3>7. CASE op[t] # "call"
        BY <2>0, <3>1, <3>2, <3>3, <3>4, <3>5, <3>7 DEF Levels, Outside, Restoring, CountWithin
      <3>8. QED
        BY <3>6, <3>7
    <2>5. QED
      BY <2>2, <2>3, <2>4
  <1>7. CASE Released(t)
    <2>2. TypeOK'
      BY <1>7, <1>q DEF Released, TypeOK, Places, Operations, Levels
    <2>3. Owned' /\ OthersKeep(t)
      BY <1>7 DEF Released, TypeOK, Owned, OthersKeep, Levels
    <2>4. Levels(t)'
      <3>1. /\ ConfirmSysLevel(t) = 0 /\ sysCount[t] = 0
            /\ count[t] # <<>> /\ Head(count[t]) > 0 /\ Head(count[t]) \in Nat
            /\ op[t] \in {"OldYield", "Wait", "DirectedYield"}
        BY <1>7, <1>q DEF Released, TypeOK, Levels, CountWithin, Operations
      <3>2. /\ (ConfirmSysLevel(t))' = 0 /\ sysCount'[t] = 0
            /\ count' = count /\ op'[t] = op[t] /\ left'[t] = Head(count[t])
        BY <1>7, <3>1 DEF Released, TypeOK
      <3>3. pc'[t] \in {"restore", "native"}
        BY <1>7 DEF Released, TypeOK
      <3>4. QED
        BY <3>1, <3>2, <3>3 DEF TypeOK, Levels, Outside, Restoring, CountWithin
    <2>5. QED
      BY <2>2, <2>3, <2>4
  <1>8. CASE RestoreLevel(t)
    <2>2. TypeOK'
      BY <1>8 DEF RestoreLevel, TypeOK, Places, Operations
    <2>3. Owned' /\ OthersKeep(t)
      BY <1>8 DEF RestoreLevel, TypeOK, Owned, OthersKeep, Levels
    <2>4. Levels(t)'
      BY <1>8 DEF RestoreLevel, TypeOK, Owned, Levels, Outside, Restoring, CountWithin
    <2>5. QED
      BY <2>2, <2>3, <2>4
  <1>9. CASE Restored(t)
    <2>2. TypeOK'
      BY <1>9, <1>q DEF Restored, TypeOK, Places, Operations, Levels, Restoring
    <2>3. Owned' /\ OthersKeep(t)
      BY <1>9 DEF Restored, TypeOK, Owned, OthersKeep, Levels
    <2>4. Levels(t)'
      BY <1>9, <1>q DEF Restored, TypeOK, Owned, Levels, Outside, Restoring, CountWithin
    <2>5. QED
      BY <2>2, <2>3, <2>4
  <1>10. CASE CreateEvents(t)
    <2>1. PICK f \in [Others(t) -> FreeHandles], R \in SUBSET Others(t) :
            /\ yieldWait' = [p \in Threads |-> IF p \in Others(t) THEN f[p] ELSE yieldWait[p]]
            /\ event' = [h \in Handles |->
                          IF \E p \in Others(t) : f[p] = h THEN "clear" ELSE event[h]]
            /\ waiters' = [waiters EXCEPT ![t] = {f[p] : p \in R}]
      BY <1>10 DEF CreateEvents
    <2>a. yieldWait' \in [Threads -> Handles \cup {NoHandle}]
      BY <2>1 DEF FreeHandles, TypeOK
    <2>b. waiters' \in [Threads -> SUBSET Handles]
      BY <2>1 DEF FreeHandles, TypeOK
    <2>c. event' \in [Handles -> {"free", "clear", "set"}]
      BY <2>1 DEF TypeOK
    <2>2. TypeOK'
      BY <1>10, <1>p, <2>a, <2>b, <2>c DEF CreateEvents, TypeOK, Places, Operations
    <2>3. Owned' /\ OthersKeep(t)
      BY <1>10 DEF CreateEvents, TypeOK, Owned, OthersKeep, Levels
    <2>4. Levels(t)'
      BY <1>10, <1>p DEF CreateEvents, TypeOK, Owned, Levels, Outside, Restoring, CountWithin
    <2>5. QED
      BY <2>2, <2>3, <2>4
  <1>11. CASE CloseYieldEvent(t)
    <2>2. TypeOK'
      BY <1>11 DEF CloseYieldEvent, TypeOK, Places, Operations
    <2>3. Owned' /\ OthersKeep(t)
      BY <1>11 DEF CloseYieldEvent, TypeOK, Owned, OthersKeep, Levels
    <2>4. Levels(t)'
      BY <1>11 DEF CloseYieldEvent, TypeOK, Owned, Levels, Outside, Restoring, CountWithin
    <2>5. QED
      BY <2>2, <2>3, <2>4
  <1>12. CASE SignalWaiter(t)
    <2>2. TypeOK'
      BY <1>12 DEF SignalWaiter, TypeOK, Places, Operations
    <2>3. Owned' /\ OthersKeep(t)
      BY <1>12 DEF SignalWaiter, TypeOK, Owned, OthersKeep, Levels
    <2>4. Levels(t)'
      BY <1>12 DEF SignalWaiter, TypeOK, Owned, Levels, Outside, Restoring, CountWithin
    <2>5. QED
      BY <2>2, <2>3, <2>4
  <1>13. CASE DirectedYieldDone(t)
    <2>2. TypeOK'
      BY <1>13 DEF DirectedYieldDone, TypeOK, Places, Operations
    <2>3. Owned' /\ OthersKeep(t)
      BY <1>13 DEF DirectedYieldDone, TypeOK, Owned, OthersKeep, Levels
    <2>4. Levels(t)'
      BY <1>13 DEF DirectedYieldDone, TypeOK, Owned, Levels, Outside, Restoring, CountWithin
    <2>5. QED
      BY <2>2, <2>3, <2>4
  <1>14. CASE NativeReturns(t)
    <2>2. TypeOK'
      BY <1>14 DEF NativeReturns, TypeOK, Places, Operations
    <2>3. Owned' /\ OthersKeep(t)
      BY <1>14 DEF NativeReturns, TypeOK, Owned, OthersKeep, Levels
    <2>4. Levels(t)'
      BY <1>14 DEF NativeReturns, TypeOK, Owned, Levels, Outside, Restoring, CountWithin
    <2>5. QED
      BY <2>2, <2>3, <2>4
  <1>15. CASE CallEnter(t)
    <2>2. TypeOK'
      BY <1>15 DEF CallEnter, TypeOK, Places, Operations
    <2>3. Owned' /\ OthersKeep(t)
      BY <1>15 DEF CallEnter, TypeOK, Owned, OthersKeep, Levels
    <2>4. Levels(t)'
      BY <1>15 DEF CallEnter, TypeOK, Owned, Levels, Outside, Restoring, CountWithin
    <2>5. QED
      BY <2>2, <2>3, <2>4
  <1>16. CASE EnterUntracked(t)
    <2>2. TypeOK'
      BY <1>16 DEF EnterUntracked, TypeOK, Places, Operations
    <2>3. Owned' /\ OthersKeep(t)
      BY <1>16 DEF EnterUntracked, TypeOK, Owned, OthersKeep, Levels
    <2>4. Levels(t)'
      BY <1>16 DEF EnterUntracked, TypeOK, Owned, Levels, Outside, Restoring, CountWithin
    <2>5. QED
      BY <2>2, <2>3, <2>4
  <1>17. CASE Yield(t)
    <2>2. TypeOK'
      BY <1>17, <1>p DEF Yield, TypeOK, Places, Operations
    <2>3. Owned' /\ OthersKeep(t)
      BY <1>17 DEF Yield, TypeOK, Owned, OthersKeep, Levels
    <2>4. Levels(t)'
      BY <1>17, <1>p DEF Yield, TypeOK, Owned, Levels, Outside, Restoring, CountWithin
    <2>5. QED
      BY <2>2, <2>3, <2>4
  <1>18. CASE DirectedYieldFails(t)
    <2>2. TypeOK'
      BY <1>18, <1>p DEF DirectedYieldFails, TypeOK, Places, Operations
    <2>3. Owned' /\ OthersKeep(t)
      BY <1>18 DEF DirectedYieldFails, TypeOK, Owned, OthersKeep, Levels
    <2>4. Levels(t)'
      BY <1>18, <1>p DEF DirectedYieldFails, TypeOK, Owned, Levels, Outside, Restoring, CountWithin
    <2>5. QED
      BY <2>2, <2>3, <2>4
  <1>19. CASE ScanTasks(t)
    <2>2. TypeOK'
      BY <1>19 DEF ScanTasks, TypeOK, Places, Operations
    <2>3. Owned' /\ OthersKeep(t)
      BY <1>19 DEF ScanTasks, TypeOK, Owned, OthersKeep, Levels
    <2>4. Levels(t)'
      BY <1>19 DEF ScanTasks, TypeOK, Owned, Levels, Outside, Restoring, CountWithin
    <2>5. QED
      BY <2>2, <2>3, <2>4
  <1>20. CASE TaskStart(t)
    <2>2. TypeOK'
      BY <1>20 DEF TaskStart, TypeOK, Places, Operations
    <2>3. Owned' /\ OthersKeep(t)
      BY <1>20 DEF TaskStart, TypeOK, Owned, OthersKeep, Levels
    <2>4. Levels(t)'
      BY <1>20 DEF TaskStart, TypeOK, Owned, Levels, Outside, Restoring, CountWithin
    <2>5. QED
      BY <2>2, <2>3, <2>4
  <1>21. CASE TaskExit(t)
    <2>2. TypeOK'
      BY <1>21, <1>p DEF TaskExit, TypeOK, Places, Operations
    <2>3. Owned' /\ OthersKeep(t)
      BY <1>21 DEF TaskExit, TypeOK, Owned, OthersKeep, Levels
    <2>4. Levels(t)'
      BY <1>21, <1>p DEF TaskExit, TypeOK, Owned, Levels, Outside, Restoring, CountWithin
    <2>5. QED
      BY <2>2, <2>3, <2>4
  <1>22. CASE TaskGone(t)
    <2>2. TypeOK'
      BY <1>22 DEF TaskGone, TypeOK, Places, Operations
    <2>3. Owned' /\ OthersKeep(t)
      BY <1>22 DEF TaskGone, TypeOK, Owned, OthersKeep, Levels
    <2>4. Levels(t)'
      BY <1>22 DEF TaskGone, TypeOK, Owned, Levels, Outside, Restoring, CountWithin
    <2>5. QED
      BY <2>2, <2>3, <2>4
  <1>23. CASE ReleaseLevel(t)
    <2>1. LeaveSysLevel(t) /\ CountWithin(t, ConfirmSysLevel(t))
      BY <1>23 DEF ReleaseLevel, Levels
    <2>2. /\ ConfirmSysLevel(t) > 0 => (ConfirmSysLevel(t))' = ConfirmSysLevel(t) - 1
          /\ ConfirmSysLevel(t) = 0 => (ConfirmSysLevel(t))' = 0
          /\ (CountWithin(t, ConfirmSysLevel(t)))'
          /\ Owned'
          /\ owner' \in Threads \cup {NoThread}
          /\ rec' \in Nat
          /\ sysCount' \in [Threads -> Int]
          /\ sysMutex' \in [Threads -> BOOLEAN]
          /\ \A u \in Threads \ {t} : /\ (ConfirmSysLevel(u))' = ConfirmSysLevel(u)
                                      /\ sysCount'[u] = sysCount[u]
                                      /\ sysMutex'[u] = sysMutex[u]
      BY <2>1, LeaveOneLevel
    <2>3. TypeOK'
      <3>1. left' \in [Threads -> Nat] /\ code' \in [Threads -> {"wow16", "native"}]
        BY <1>23 DEF ReleaseLevel, TypeOK
      <3>2. QED
        BY <1>23, <2>2, <3>1 DEF ReleaseLevel, TypeOK
    <2>4. OthersKeep(t)
      BY <1>23, <2>2 DEF ReleaseLevel, TypeOK, OthersKeep
    <2>5. Levels(t)'
      BY <1>23, <2>2 DEF ReleaseLevel, TypeOK, Owned, Levels, Outside, CountWithin
    <2>6. QED
      BY <2>2, <2>3, <2>4, <2>5
  <1>24. CASE CallLeave(t)
    <2>1. LeaveSysLevel(t) /\ CountWithin(t, ConfirmSysLevel(t))
      BY <1>24 DEF CallLeave, Levels
    <2>2. /\ ConfirmSysLevel(t) > 0 => (ConfirmSysLevel(t))' = ConfirmSysLevel(t) - 1
          /\ ConfirmSysLevel(t) = 0 => (ConfirmSysLevel(t))' = 0
          /\ (CountWithin(t, ConfirmSysLevel(t)))'
          /\ Owned'
          /\ owner' \in Threads \cup {NoThread}
          /\ rec' \in Nat
          /\ sysCount' \in [Threads -> Int]
          /\ sysMutex' \in [Threads -> BOOLEAN]
          /\ \A u \in Threads \ {t} : /\ (ConfirmSysLevel(u))' = ConfirmSysLevel(u)
                                      /\ sysCount'[u] = sysCount[u]
                                      /\ sysMutex'[u] = sysMutex[u]
      BY <2>1, LeaveOneLevel
    <2>3. TypeOK'
      <3>1. left' \in [Threads -> Nat] /\ code' \in [Threads -> {"wow16", "native"}]
        BY <1>24 DEF CallLeave, TypeOK
      <3>2. QED
        BY <1>24, <2>2, <3>1 DEF CallLeave, TypeOK
    <2>4. OthersKeep(t)
      BY <1>24, <2>2 DEF CallLeave, TypeOK, OthersKeep
    <2>5. Levels(t)'
      BY <1>24, <2>2 DEF CallLeave, TypeOK, Owned, Levels, Outside, CountWithin
    <2>6. QED
      BY <2>2, <2>3, <2>4, <2>5
  <1>25. CASE CallBack(t)
    <2>2. TypeOK'
      BY <1>25 DEF CallBack, TypeOK, Places, Operations
    <2>3. Owned' /\ OthersKeep(t)
      BY <1>25 DEF CallBack, TypeOK, Owned, OthersKeep, Levels
    <2>4. Levels(t)'
      BY <1>25 DEF CallBack, TypeOK, Owned, Levels, Outside, Restoring, CountWithin
    <2>5. QED
      BY <2>2, <2>3, <2>4
  <1>26. CASE CallBackReturns(t)
    <2>2. TypeOK'
      BY <1>26, <1>q DEF CallBackReturns, TypeOK, Places, Operations
    <2>3. Owned' /\ OthersKeep(t)
      BY <1>26 DEF CallBackReturns, TypeOK, Owned, OthersKeep, Levels
    <2>4. Levels(t)'
      BY <1>26, <1>q DEF CallBackReturns, TypeOK, Owned, Levels, Outside, Restoring, CountWithin
    <2>5. QED
      BY <2>2, <2>3, <2>4
  <1>27. QED
    BY <1>1, <1>2, <1>3, <1>4, <1>5, <1>6, <1>7, <1>8, <1>9, <1>10, <1>11, <1>12, <1>13, <1>14, <1>15, <1>16, <1>17, <1>18, <1>19, <1>20, <1>21, <1>22, <1>23, <1>24, <1>25, <1>26 DEF EnterSysLevel, ThunkLock, DirectedYield, Native, Task

\* A step of a thread pushes a count as a yield begins, pops it as the yield
\* returns, and leaves the counts below it alone.
LEMMA StackStep ==
  ASSUME NEW t \in Threads, TypeOK, Levels(t), Stack(t),
         \/ EnterSysLevel(t) \/ ThunkLock(t) \/ DirectedYield(t)
         \/ Native(t) \/ Task(t) \/ TaskGone(t)
  PROVE  Stack(t)'
  <1> USE SysLevelAssumption DEF Goto, ConfirmSysLevel, TypeOK
  <1>1. ASSUME NEW o \in Operations, BeginRelease(t, o), o # "Exit" => ConfirmSysLevel(t) > 0,
               op[t] = "call"
        PROVE  Stack(t)'
    <2>1. /\ count'[t] = <<ConfirmSysLevel(t)>> \o count[t]
          /\ gave'[t] = <<ConfirmSysLevel(t)>> \o gave[t]
          /\ op'[t] = o
      BY <1>1 DEF BeginRelease
    <2>2. ConfirmSysLevel(t) \in Nat /\ count[t] \in Seq(Nat)
      OBVIOUS
    <2>3. ASSUME o # "Exit", NEW i \in 1 .. Len(count'[t])
          PROVE  count'[t][i] > 0
      <3>1. Len(count'[t]) = Len(count[t]) + 1 /\ Len(count[t]) \in Nat
        BY <2>1, <2>2, Push
      <3>2. count'[t][i] = IF i = 1 THEN ConfirmSysLevel(t) ELSE count[t][i - 1]
        BY <2>1, <2>2, <3>1, Push
      <3>3. QED
        BY <1>1, <2>3, <3>1, <3>2 DEF Stack
    <2>4. QED
      BY <2>1, <2>3 DEF Stack
  <1>2. CASE Restored(t)
    <2>1. /\ count[t] # <<>> /\ count[t] \in Seq(Nat) /\ op[t] # "Exit"
          /\ count'[t] = Tail(count[t]) /\ gave'[t] = Tail(gave[t])
      BY <1>2 DEF Restored, Levels, Restoring
    <2>2. ASSUME NEW i \in 1 .. Len(count'[t]) PROVE count'[t][i] > 0
      <3>1. Len(count'[t]) = Len(count[t]) - 1 /\ Len(count[t]) \in Nat
        BY <2>1, Pop
      <3>2. count'[t][i] = count[t][i + 1] /\ i + 1 \in 1 .. Len(count[t])
        BY <2>1, <3>1, Pop
      <3>3. QED
        BY <2>1, <3>2 DEF Stack
    <2>3. QED
      BY <2>1, <2>2 DEF Stack
  <1>3. CASE TaskGone(t)
    BY <1>3 DEF TaskGone, Stack
  <1>4. CASE Yield(t) \/ DirectedYieldFails(t) \/ CreateEvents(t) \/ TaskExit(t)
    <2>1. op[t] = "call"
      BY <1>4 DEF Yield, DirectedYieldFails, CreateEvents, TaskExit, Levels, Outside
    <2>2. \E o \in Operations : BeginRelease(t, o) /\ (o # "Exit" => ConfirmSysLevel(t) > 0)
      BY <1>4 DEF Yield, DirectedYieldFails, CreateEvents, TaskExit, Levels, Operations
    <2>3. QED
      BY <1>1, <2>1, <2>2
  <1>5. CASE UNCHANGED countVars /\ op'[t] # "Exit" /\ op[t] # "Exit"
    BY <1>5 DEF countVars, Stack
  <1>6. CASE UNCHANGED countVars /\ op'[t] = op[t]
    BY <1>6 DEF countVars, Stack
  <1>7. CASE TaskStart(t) \/ CallEnter(t) \/ CallBack(t) \/ CallBackReturns(t)
    BY <1>5, <1>7 DEF TaskStart, CallEnter, CallBack, CallBackReturns, Levels, Outside
  <1>8. CASE \/ EnterSection(t) \/ NothingPending(t) \/ CaptureEvent(t) \/ DropLevels(t)
             \/ WaitYieldEvent(t) \/ RegainLevels(t) \/ ReleaseLevel(t) \/ Released(t)
             \/ RestoreLevel(t) \/ CloseYieldEvent(t) \/ SignalWaiter(t)
             \/ DirectedYieldDone(t) \/ NativeReturns(t) \/ CallLeave(t)
             \/ EnterUntracked(t) \/ ScanTasks(t)
    BY <1>6, <1>8 DEF EnterSection, NothingPending, CaptureEvent, DropLevels, WaitYieldEvent,
      RegainLevels, ReleaseLevel, Released, RestoreLevel, CloseYieldEvent, SignalWaiter,
      DirectedYieldDone, NativeReturns, CallLeave, EnterUntracked, ScanTasks, localVars
  <1>9. QED
    BY <1>2, <1>3, <1>4, <1>7, <1>8 DEF EnterSysLevel, ThunkLock, DirectedYield, Native, Task

LEMMA Inductive == IInv /\ [Next]_vars => IInv'
  <1> SUFFICES ASSUME IInv, [Next]_vars PROVE IInv'
    OBVIOUS
  <1>1. CASE Next
    <2>1. PICK t \in Threads :
            \/ EnterSysLevel(t) \/ ThunkLock(t) \/ DirectedYield(t)
            \/ Native(t) \/ Task(t) \/ TaskGone(t)
      BY <1>1 DEF Next
    <2>2. TypeOK' /\ Owned' /\ OthersKeep(t) /\ Levels(t)' /\ Stack(t)'
      BY <2>1, StepKeeps, StackStep DEF IInv
    <2>3. \A u \in Threads \ {t} : Levels(u)' /\ Stack(u)'
      BY <2>2, OthersLevels DEF IInv
    <2>4. QED
      BY <2>2, <2>3 DEF IInv
  <1>2. CASE UNCHANGED vars
    BY <1>2 DEF IInv, TypeOK, Owned, Levels, Outside, Restoring, CountWithin, Stack,
      ConfirmSysLevel, vars, lockVars, yieldVars, localVars, countVars
  <1>3. QED
    BY <1>1, <1>2

LEMMA InitIInv == Init => IInv
  <1> SUFFICES ASSUME Init PROVE IInv
    OBVIOUS
  <1>1. TypeOK
    BY SysLevelAssumption DEF Init, TypeOK, Places, Operations
  <1>2. Owned
    BY DEF Init, Owned
  <1>3. \A t \in Threads : Levels(t)
    BY SysLevelAssumption DEF Init, Levels, Outside, ConfirmSysLevel
  <1>4. \A t \in Threads : Stack(t)
    BY DEF Init, Stack
  <1>5. QED
    BY <1>1, <1>2, <1>3, <1>4 DEF IInv

\* The strengthening holds in every reachable state.
THEOREM SysLevelInvariant == Spec => []IInv
  BY InitIInv, Inductive, PTL DEF Spec

\* TypeOK, for any threads and handles.
THEOREM TypeCorrect == Spec => []TypeOK
  <1>1. IInv => TypeOK
    BY DEF IInv
  <1>2. QED
    BY <1>1, SysLevelInvariant, PTL

\* Only the owner of Win16Mutex runs 16-bit code.
THEOREM Exclusion == Spec => []MutualExclusion
  <1>1. IInv => MutualExclusion
    BY SysLevelAssumption DEF IInv, TypeOK, Owned, Levels, MutualExclusion, Running16, ConfirmSysLevel
  <1>2. QED
    BY <1>1, SysLevelInvariant, PTL

\* A blocked or exited thread owns no level of Win16Mutex.
THEOREM Sleepers == Spec => []SleepersOwnNothing
  <1>1. IInv => SleepersOwnNothing
    BY SysLevelAssumption DEF IInv, TypeOK, Owned, Levels, SleepersOwnNothing, ConfirmSysLevel
  <1>2. QED
    BY <1>1, SysLevelInvariant, PTL

\* sys_count never exceeds the levels owned and is negative only in the wait.
THEOREM Counters == Spec => []CountersConsistent
  <1>1. IInv => CountersConsistent
    <2> SUFFICES ASSUME IInv, NEW t \in Threads
                 PROVE  /\ sysCount[t] <= ConfirmSysLevel(t)
                        /\ pc[t] \notin {"wait", "regain"} => sysCount[t] >= 0
      BY DEF CountersConsistent
    <2>1. /\ pc[t] \in Places /\ sysCount[t] \in Int
          /\ ConfirmSysLevel(t) \in Nat
      BY DEF IInv, TypeOK, ConfirmSysLevel
    <2>2. Levels(t)
      BY DEF IInv
    <2>3. QED
      BY <2>1, <2>2 DEF Levels, CountWithin, Places
  <1>2. QED
    BY <1>1, SysLevelInvariant, PTL

\* A yield gives back to the task exactly the levels it took from it, in the
\* section and in the counter.
THEOREM YieldDepth == Spec => YieldKeepsDepth
  <1>1. IInv /\ [Next]_vars => \A t \in Threads : LevelsReturned(t)
    <2> SUFFICES ASSUME IInv, [Next]_vars,
                        NEW t \in Threads, pc[t] = "restore", pc'[t] \in {"run", "close"}
                 PROVE  owner' = t /\ rec' = Head(gave[t]) /\ sysCount'[t] = Head(gave[t])
      BY DEF LevelsReturned
    <2>1. PICK u \in Threads :
            \/ EnterSysLevel(u) \/ ThunkLock(u) \/ DirectedYield(u)
            \/ Native(u) \/ Task(u) \/ TaskGone(u)
      BY DEF Next, vars
    <2>2. u = t
      BY <2>1, StepKeeps DEF IInv, OthersKeep
    <2>3. Restored(t)
      BY <2>1, <2>2 DEF EnterSysLevel, ThunkLock, DirectedYield, Task, EnterSection,
        NothingPending, CaptureEvent, DropLevels, WaitYieldEvent, RegainLevels,
        ReleaseLevel, Released, RestoreLevel, CreateEvents, CloseYieldEvent, SignalWaiter,
        DirectedYieldDone, Native, NativeReturns, CallBack, CallBackReturns, CallEnter,
        CallLeave, EnterUntracked, Yield,
        DirectedYieldFails, ScanTasks, TaskStart, TaskExit, TaskGone, Goto, IInv, TypeOK
    <2>4. /\ ConfirmSysLevel(t) = Head(gave[t]) /\ sysCount[t] = Head(gave[t]) /\ Head(gave[t]) > 0
          /\ owner' = owner /\ rec' = rec /\ sysCount' = sysCount
      BY <2>3 DEF Restored, IInv, TypeOK, Levels, Restoring, Stack, lockVars, ConfirmSysLevel
    <2>5. QED
      BY <2>4 DEF ConfirmSysLevel
  <1>2. QED
    BY <1>1, SysLevelInvariant, PTL DEF Spec, YieldKeepsDepth

\* SysLevel implements the abstract scheduler under the mapping of Scheduler:
\* the right to run 16-bit code is only ever given away by the task that has it.
THEOREM Implements == Spec => Scheduled
  <1> DEFINE Run == {t \in Threads : Running16(t)}
  <1>1. Init => Scheduler!Init
    BY DEF Init, Scheduler!Init, Running16
  <1>2. IInv /\ IInv' /\ [Next]_vars => [Scheduler!Next]_<<owner, Run>>
    <2> SUFFICES ASSUME IInv, IInv', [Next]_vars
                 PROVE  Scheduler!Next \/ (owner' = owner /\ Run' = Run)
      OBVIOUS
    <2>1. CASE UNCHANGED vars
      BY <2>1 DEF vars, lockVars, localVars, countVars, Running16
    <2>2. CASE Next
      <3>1. PICK t \in Threads :
              \/ EnterSysLevel(t) \/ ThunkLock(t) \/ DirectedYield(t)
              \/ Native(t) \/ Task(t) \/ TaskGone(t)
        BY <2>2 DEF Next
      <3>2. OthersKeep(t)
        BY <3>1, StepKeeps DEF IInv
      <3>3. \A u \in Threads \ {t} : u \in Run' <=> u \in Run
        BY <3>2 DEF OthersKeep, Running16
      <3>4. (t \in Run => owner = t) /\ (t \in Run' => owner' = t)
        BY DEF IInv, Levels, ConfirmSysLevel, Running16
      <3>5. owner' # owner =>
              (owner = NoThread /\ owner' = t) \/ (owner = t /\ owner' = NoThread)
        <4>1. ASSUME NEW u \in Threads, u # t, owner = u PROVE owner' = u
          <5>1. ConfirmSysLevel(u) > 0 /\ (ConfirmSysLevel(u))' = ConfirmSysLevel(u)
            BY <3>2, <4>1, SysLevelAssumption DEF OthersKeep, ConfirmSysLevel, IInv, TypeOK, Owned
          <5>2. QED
            BY <5>1 DEF ConfirmSysLevel
        <4>2. ASSUME NEW u \in Threads, u # t, owner' = u PROVE owner = u
          <5>1. (ConfirmSysLevel(u))' > 0 /\ (ConfirmSysLevel(u))' = ConfirmSysLevel(u)
            BY <3>2, <4>2, SysLevelAssumption DEF OthersKeep, ConfirmSysLevel, IInv, TypeOK, Owned
          <5>2. QED
            BY <5>1 DEF ConfirmSysLevel
        <4>3. QED
          <5>1. owner \in Threads \cup {NoThread} /\ owner' \in Threads \cup {NoThread}
            BY DEF IInv, TypeOK
          <5>2. CASE owner \in Threads \ {t}
            BY <4>1, <5>2
          <5>3. CASE owner' \in Threads \ {t}
            BY <4>2, <5>3
          <5>4. CASE owner \in {NoThread, t} /\ owner' \in {NoThread, t}
            BY <5>4
          <5>5. QED
            BY <5>1, <5>2, <5>3, <5>4
      <3>6. CASE owner' = t /\ t \in Run'
        <4>1. Run' = Run \cup {t}
          BY <3>3, <3>6
        <4>2. owner \in {NoThread, t}
          BY <3>5, <3>6
        <4>3. QED
          BY <4>1, <4>2, <3>6 DEF Scheduler!Next, Scheduler!Resume
      <3>7. CASE t \notin Run'
        <4>1. Run' = Run \ {t}
          BY <3>3, <3>7
        <4>2. CASE owner = t
          BY <4>1, <4>2, <3>5 DEF Scheduler!Next, Scheduler!Suspend
        <4>3. CASE owner # t
          <5>1. Run' = Run
            BY <4>1, <4>3, <3>4
          <5>2. QED
            BY <5>1, <4>3, <3>5 DEF Scheduler!Next, Scheduler!Resume
        <4>4. QED
          BY <4>2, <4>3
      <3>8. QED
        BY <3>4, <3>6, <3>7
    <2>3. QED
      BY <2>1, <2>2
  <1>3. QED
    BY <1>1, <1>2, SysLevelInvariant, PTL DEF Spec, Scheduled, Scheduler!Spec
-----------------------------------------------------------------------------
(* The events of the directed yields.                                      *)
(*                                                                         *)
(* HandlesFresh is not inductive: RegainLevels closes the event the thread *)
(* waited on and SignalWaiter sets it, so the proof has to know that what  *)
(* one of them touches is on nobody else's list.                           *)

\* A pending event is in one ptd only.
PendingApart ==
  \A t, u \in Threads :
    yieldWait[t] = yieldWait[u] /\ yieldWait[t] # NoHandle => t = u

\* An event is signalled by one directed yield only.
WaitersApart ==
  \A t, u \in Threads : \A h \in waiters[t] : h \in waiters[u] => t = u

\* The thread still has to go through the signalling loop of its directed yield.
Remembers(t) == op[t] = "DirectedYield" \/ pc[t] \in {"close", "signal"}

WaitersHeld == \A t \in Threads : waiters[t] # {} => Remembers(t)

\* What a thread waits on is a handle, and set once it waits no more.
CapturedOpen ==
  \A t \in Threads : Captured(t) =>
    /\ handle[t] \in Handles
    /\ pc[t] = "regain" => event[handle[t]] = "set"

EventInv == HandlesFresh /\ PendingApart /\ WaitersApart /\ WaitersHeld /\ CapturedOpen

\* A step that has nothing to do with the events: it leaves them and the
\* handles alone, and captures and forgets none.
Quiet ==
  /\ yieldWait' = yieldWait
  /\ event' = event
  /\ waiters' = waiters
  /\ handle' = handle
  /\ \A t \in Threads :
       /\ Captured(t)' => Captured(t)
       /\ pc'[t] = "regain" => pc[t] = "regain"
       /\ waiters[t] # {} => (Remembers(t))'

\* Such a step keeps EventInv.
LEMMA QuietKeeps ==
  ASSUME EventInv, Quiet
  PROVE  EventInv'
  <1>1. HandlesFresh'
    BY DEF EventInv, Quiet, HandlesFresh
  <1>2. PendingApart' /\ WaitersApart'
    BY DEF EventInv, Quiet, PendingApart, WaitersApart
  <1>3. WaitersHeld'
    BY DEF Quiet, WaitersHeld
  <1>4. CapturedOpen'
    BY DEF EventInv, Quiet, CapturedOpen
  <1>5. QED
    BY <1>1, <1>2, <1>3, <1>4 DEF EventInv

\* Which actions are quiet: the section, the counters, the thunks, the scan.
LEMMA QuietSteps ==
  ASSUME IInv, EventInv, NEW t \in Threads,
         \/ EnterSection(t)  \/ NothingPending(t)  \/ DropLevels(t)
         \/ ReleaseLevel(t)  \/ Released(t)  \/ RestoreLevel(t)
         \/ Restored(t)  \/ CloseYieldEvent(t)  \/ NativeReturns(t)
         \/ CallBack(t)  \/ CallBackReturns(t)
         \/ CallEnter(t)  \/ CallLeave(t)  \/ EnterUntracked(t)
         \/ Yield(t)  \/ DirectedYieldFails(t)  \/ ScanTasks(t)
         \/ TaskStart(t)  \/ TaskExit(t)
  PROVE  Quiet
  <1> USE DEF Quiet, Goto, lockVars, yieldVars, localVars, countVars, Captured, Remembers, TypeOK, IInv
  <1>1. CASE EnterSection(t)
    BY <1>1 DEF EnterSection, EventInv, WaitersHeld, Levels, Outside
  <1>2. CASE NothingPending(t)
    BY <1>2 DEF NothingPending, FinishEnter, EventInv, WaitersHeld, Levels, Outside
  <1>3. CASE DropLevels(t)
    BY <1>3 DEF DropLevels, EventInv, WaitersHeld, Levels, Outside
  <1>4. CASE ReleaseLevel(t)
    BY <1>4 DEF ReleaseLevel, EventInv, WaitersHeld, Levels, Outside
  <1>5. CASE Released(t)
    BY <1>5 DEF Released, EventInv, WaitersHeld, Levels, Outside
  <1>6. CASE RestoreLevel(t)
    BY <1>6 DEF RestoreLevel, EventInv, WaitersHeld, Levels, Outside
  <1>7. CASE Restored(t)
    BY <1>7 DEF Restored, EventInv, WaitersHeld, Levels, Outside
  <1>8. CASE CloseYieldEvent(t)
    BY <1>8 DEF CloseYieldEvent, EventInv, WaitersHeld, Levels, Outside
  <1>9. CASE NativeReturns(t)
    BY <1>9 DEF NativeReturns, EventInv, WaitersHeld, Levels, Outside
  <1>10. CASE CallEnter(t)
    BY <1>10 DEF CallEnter, EventInv, WaitersHeld, Levels, Outside
  <1>11. CASE CallLeave(t)
    BY <1>11 DEF CallLeave, EventInv, WaitersHeld, Levels, Outside
  <1>12. CASE EnterUntracked(t)
    BY <1>12 DEF EnterUntracked, EventInv, WaitersHeld, Levels, Outside
  <1>13. CASE Yield(t)
    BY <1>13 DEF Yield, BeginRelease, EventInv, WaitersHeld, Levels, Outside
  <1>14. CASE DirectedYieldFails(t)
    BY <1>14 DEF DirectedYieldFails, BeginRelease, EventInv, WaitersHeld, Levels, Outside
  <1>15. CASE ScanTasks(t)
    BY <1>15 DEF ScanTasks, EventInv, WaitersHeld, Levels, Outside
  <1>16. CASE TaskStart(t)
    BY <1>16 DEF TaskStart, EventInv, WaitersHeld, Levels, Outside
  <1>17. CASE TaskExit(t)
    BY <1>17 DEF TaskExit, BeginRelease, EventInv, WaitersHeld, Levels, Outside
  <1>18. CASE CallBack(t)
    BY <1>18 DEF CallBack, EventInv, WaitersHeld, Levels, Outside
  <1>19. CASE CallBackReturns(t)
    BY <1>19 DEF CallBackReturns, EventInv, WaitersHeld, Levels, Outside
  <1>20. QED
    BY <1>1, <1>2, <1>3, <1>4, <1>5, <1>6, <1>7, <1>8, <1>9, <1>10, <1>11, <1>12, <1>13, <1>14, <1>15, <1>16, <1>17, <1>18, <1>19

\* CaptureEvent: the event goes from the ptd to the thread.
LEMMA CaptureEventKeeps ==
  ASSUME IInv, EventInv, NEW t \in Threads, CaptureEvent(t)
  PROVE  EventInv'
  <1> DEFINE h == yieldWait[t]
  <1>0. /\ h \in Handles
        /\ handle' = [handle EXCEPT ![t] = h]
        /\ yieldWait' = [yieldWait EXCEPT ![t] = NoHandle]
        /\ event' = event /\ waiters' = waiters
        /\ \A u \in Threads \ {t} : pc'[u] = pc[u]
    BY DEF CaptureEvent, Goto, IInv, TypeOK
  <1>1. HandlesFresh'
    <2>1. event[h] # "free"
      BY <1>0, SysLevelAssumption DEF EventInv, HandlesFresh
    <2>2. \A u \in Threads \ {t} : yieldWait[u] # h
      BY <1>0, SysLevelAssumption DEF EventInv, PendingApart
    <2>3. \A u \in Threads \ {t} : Captured(u) => handle[u] # h /\ handle[u] # NoHandle
      BY SysLevelAssumption DEF EventInv, HandlesFresh, CapturedOpen
    <2>4. \A u \in Threads \ {t} : /\ (Captured(u))' <=> Captured(u)
                                   /\ handle'[u] = handle[u]
                                   /\ yieldWait'[u] = yieldWait[u]
      BY <1>0 DEF Captured, IInv, TypeOK
    <2>5. handle'[t] = h /\ yieldWait'[t] = NoHandle
      BY <1>0 DEF IInv, TypeOK
    <2>6. \A u \in Threads : yieldWait'[u] # NoHandle => event'[yieldWait'[u]] # "free"
      BY <1>0, <2>4, <2>5 DEF EventInv, HandlesFresh
    <2>7. \A u \in Threads : (Captured(u))' => event'[handle'[u]] # "free"
      BY <1>0, <2>1, <2>4, <2>5 DEF EventInv, HandlesFresh
    <2>8. \A u \in Threads : \A k \in waiters'[u] : event'[k] = "clear"
      BY <1>0 DEF EventInv, HandlesFresh
    <2>9. ASSUME NEW u \in Threads, NEW v \in Threads, (Captured(u))'
          PROVE  /\ handle'[u] # yieldWait'[v]
                 /\ (Captured(v))' /\ handle'[v] = handle'[u] => u = v
      BY <1>0, <2>2, <2>3, <2>4, <2>5, <2>9, SysLevelAssumption DEF EventInv, HandlesFresh
    <2>10. QED
      BY <2>6, <2>7, <2>8, <2>9 DEF HandlesFresh
  <1> USE DEF IInv, TypeOK, CaptureEvent, Goto, Captured
  <1>2. PendingApart' /\ WaitersApart'
    BY DEF EventInv, PendingApart, WaitersApart
  <1>3. WaitersHeld'
    BY DEF EventInv, WaitersHeld, Remembers
  <1>4. CapturedOpen'
    BY DEF EventInv, CapturedOpen
  <1>5. QED
    BY <1>1, <1>2, <1>3, <1>4 DEF EventInv

\* WaitYieldEvent: the wait ends on a set event only.
LEMMA WaitKeeps ==
  ASSUME IInv, EventInv, NEW t \in Threads, WaitYieldEvent(t)
  PROVE  EventInv'
  <1>a. /\ yieldWait' = yieldWait /\ event' = event /\ waiters' = waiters
        /\ handle' = handle /\ op' = op /\ event[handle[t]] = "set"
    BY DEF WaitYieldEvent, yieldVars, localVars
  <1>b. /\ pc[t] = "wait" /\ pc'[t] = "regain"
        /\ \A u \in Threads \ {t} : pc'[u] = pc[u]
    BY DEF WaitYieldEvent, Goto, IInv, TypeOK
  <1>c. \A u \in Threads : (Captured(u))' <=> Captured(u)
    BY <1>b DEF Captured
  <1>1. HandlesFresh'
    BY <1>a, <1>c DEF EventInv, HandlesFresh
  <1>2. PendingApart' /\ WaitersApart'
    BY <1>a DEF EventInv, PendingApart, WaitersApart
  <1>3. WaitersHeld'
    BY <1>a, <1>b DEF EventInv, WaitersHeld, Remembers
  <1>4. CapturedOpen'
    BY <1>a, <1>b, <1>c DEF EventInv, CapturedOpen
  <1>5. QED
    BY <1>1, <1>2, <1>3, <1>4 DEF EventInv

\* RegainLevels closes an event that is set, so no directed yield has it on
\* its list any more, and that no other thread captured.
LEMMA RegainKeeps ==
  ASSUME IInv, EventInv, NEW t \in Threads, RegainLevels(t)
  PROVE  EventInv'
  <1> DEFINE closed == handle[t]
  <1>0. /\ closed \in Handles /\ event[closed] = "set"
        /\ event' = [event EXCEPT ![closed] = "free"]
        /\ handle' = [handle EXCEPT ![t] = NoHandle]
        /\ yieldWait' = yieldWait /\ waiters' = waiters /\ op' = op
        /\ Captured(t) /\ ~(Captured(t))'
        /\ Remembers(t) => (Remembers(t))'
        /\ \A u \in Threads \ {t} : pc'[u] = pc[u]
        /\ pc'[t] \in {"run", "restore"}
    BY DEF EventInv, CapturedOpen, RegainLevels, FinishEnter, Goto, Captured, Remembers,
      IInv, TypeOK
  <1>h. /\ event \in [Handles -> {"free", "clear", "set"}]
        /\ handle \in [Threads -> Handles \cup {NoHandle}]
        /\ yieldWait \in [Threads -> Handles \cup {NoHandle}]
        /\ waiters \in [Threads -> SUBSET Handles]
    BY DEF IInv, TypeOK
  <1> USE DEF Captured
  <1>1. HandlesFresh'
    <2>1. \A u \in Threads : yieldWait[u] # closed /\ closed \notin waiters[u]
      BY <1>0, <1>h DEF EventInv, HandlesFresh
    <2>2. \A u \in Threads \ {t} : Captured(u) => handle[u] # closed
      BY <1>0, <1>h DEF EventInv, HandlesFresh
    <2>3. QED
      BY <1>0, <1>h, <2>1, <2>2 DEF EventInv, HandlesFresh, CapturedOpen
  <1>2. PendingApart' /\ WaitersApart'
    BY <1>0, <1>h DEF EventInv, PendingApart, WaitersApart
  <1>3. WaitersHeld'
    BY <1>0, <1>h DEF EventInv, WaitersHeld, Remembers
  <1>4. CapturedOpen'
    BY <1>0, <1>h DEF EventInv, CapturedOpen, HandlesFresh
  <1>5. QED
    BY <1>1, <1>2, <1>3, <1>4 DEF EventInv

\* SignalWaiter: the event leaves the only list it is on as it is set.
LEMMA SignalKeeps ==
  ASSUME IInv, EventInv, NEW t \in Threads, SignalWaiter(t)
  PROVE  EventInv'
  <1>0. PICK h \in waiters[t] :
          /\ event' = [event EXCEPT ![h] = IF event[h] = "free" THEN "free" ELSE "set"]
          /\ waiters' = [waiters EXCEPT ![t] = waiters[t] \ {h}]
    BY DEF SignalWaiter
  <1>a. h \in Handles /\ event[h] = "clear"
    BY <1>0 DEF EventInv, HandlesFresh, IInv, TypeOK
  <1>b. event' = [event EXCEPT ![h] = "set"]
    BY <1>0, <1>a
  <1>c. yieldWait' = yieldWait /\ handle' = handle /\ pc' = pc /\ op' = op
    BY DEF SignalWaiter, localVars
  <1> USE DEF IInv, TypeOK, Captured
  <1>1. HandlesFresh'
    <2>1. \A u \in Threads \ {t} : h \notin waiters[u]
      BY <1>0 DEF EventInv, WaitersApart
    <2>2. QED
      BY <1>0, <1>a, <1>b, <1>c, <2>1 DEF EventInv, HandlesFresh
  <1>2. PendingApart' /\ WaitersApart'
    BY <1>0, <1>c DEF EventInv, PendingApart, WaitersApart
  <1>3. WaitersHeld'
    BY <1>0, <1>c DEF EventInv, WaitersHeld, Remembers
  <1>4. CapturedOpen'
    BY <1>0, <1>a, <1>b, <1>c DEF EventInv, CapturedOpen
  <1>5. QED
    BY <1>1, <1>2, <1>3, <1>4 DEF EventInv

\* DirectedYieldDone: every waiter has been signalled.
LEMMA DoneKeeps ==
  ASSUME IInv, EventInv, NEW t \in Threads, DirectedYieldDone(t)
  PROVE  EventInv'
  <1>1. Quiet
    BY DEF Quiet, DirectedYieldDone, Goto, EventInv, WaitersHeld, Remembers, Captured,
      lockVars, yieldVars, localVars, IInv, TypeOK
  <1>2. QED
    BY <1>1, QuietKeeps

\* TaskGone: the thread only drops what its own ptd refers to.
LEMMA GoneKeeps ==
  ASSUME IInv, EventInv, NEW t \in Threads, TaskGone(t)
  PROVE  EventInv'
  <1> USE DEF IInv, TypeOK, TaskGone, Goto, Captured
  <1>1. HandlesFresh'
    BY SysLevelAssumption DEF EventInv, HandlesFresh, CapturedOpen
  <1>2. PendingApart' /\ WaitersApart'
    BY DEF EventInv, PendingApart, WaitersApart
  <1>3. WaitersHeld'
    BY DEF EventInv, WaitersHeld, Remembers
  <1>4. CapturedOpen'
    BY DEF EventInv, CapturedOpen
  <1>5. QED
    BY <1>1, <1>2, <1>3, <1>4 DEF EventInv

\* CreateEvents: the new events were free, so nobody refers to one of them, and
\* every task gets one of its own.
LEMMA CreateKeeps ==
  ASSUME IInv, EventInv, NEW t \in Threads, CreateEvents(t)
  PROVE  EventInv'
  <1>0. PICK f \in [Others(t) -> FreeHandles], R \in SUBSET Others(t) :
          /\ Injective(f)
          /\ yieldWait' = [u \in Threads |-> IF u \in Others(t) THEN f[u] ELSE yieldWait[u]]
          /\ event' = [h \in Handles |->
                         IF \E u \in Others(t) : f[u] = h THEN "clear" ELSE event[h]]
          /\ waiters' = [waiters EXCEPT ![t] = {f[u] : u \in R}]
    BY DEF CreateEvents
  <1>a. /\ handle' = handle /\ pc[t] = "create" /\ pc'[t] = "release"
        /\ op' = [op EXCEPT ![t] = "DirectedYield"]
        /\ pc' = [pc EXCEPT ![t] = "release"]
    BY DEF CreateEvents, BeginRelease, Goto, IInv, TypeOK
  <1>b. Others(t) \subseteq Threads
    BY DEF Others, IInv, TypeOK
  <1>c. \A u \in Others(t) : f[u] \in Handles /\ event[f[u]] = "free" /\ event'[f[u]] = "clear"
    BY <1>0 DEF FreeHandles
  <1>d. \A h \in Handles : event[h] # "free" => event'[h] = event[h]
    BY <1>0, <1>c
  <1>e. \A h \in Handles : event'[h] = "free" => event[h] = "free"
    BY <1>0
  <1>f. \A u \in Threads : (Captured(u))' <=> Captured(u)
    BY <1>a DEF Captured, IInv, TypeOK
  <1>g. \A u, v \in Others(t) : f[u] = f[v] => u = v
    BY <1>0 DEF Injective
  <1>h. /\ \A u \in Others(t) : yieldWait'[u] = f[u]
        /\ \A u \in Threads \ Others(t) : yieldWait'[u] = yieldWait[u]
    BY <1>0, <1>b
  <1>i. /\ waiters'[t] = {f[u] : u \in R}
        /\ \A u \in Threads \ {t} : waiters'[u] = waiters[u]
    BY <1>0 DEF IInv, TypeOK
  <1>j. /\ yieldWait \in [Threads -> Handles \cup {NoHandle}]
        /\ waiters \in [Threads -> SUBSET Handles]
        /\ handle \in [Threads -> Handles \cup {NoHandle}]
    BY DEF IInv, TypeOK
  <1>1. HandlesFresh'
    <2>1. ASSUME NEW u \in Threads, yieldWait'[u] # NoHandle
          PROVE  event'[yieldWait'[u]] # "free"
      <3>1. CASE u \in Others(t)
        BY <3>1, <1>c, <1>h
      <3>2. CASE u \notin Others(t)
        BY <3>2, <2>1, <1>d, <1>h, <1>j DEF EventInv, HandlesFresh
      <3>3. QED
        BY <3>1, <3>2
    <2>2. ASSUME NEW u \in Threads, (Captured(u))'
          PROVE  event'[handle'[u]] # "free"
      BY <2>2, <1>a, <1>d, <1>f DEF EventInv, HandlesFresh, CapturedOpen
    <2>3. ASSUME NEW u \in Threads, NEW h \in waiters'[u]
          PROVE  event'[h] = "clear"
      <3>1. CASE u = t
        BY <3>1, <2>3, <1>c, <1>i
      <3>2. CASE u # t
        BY <3>2, <2>3, <1>d, <1>i, <1>j DEF EventInv, HandlesFresh
      <3>3. QED
        BY <3>1, <3>2
    <2>4. ASSUME NEW u \in Threads, NEW v \in Threads, (Captured(u))'
          PROVE  /\ handle'[u] # yieldWait'[v]
                 /\ (Captured(v))' /\ handle'[v] = handle'[u] => u = v
      <3>1. Captured(u) /\ handle'[u] = handle[u] /\ event[handle[u]] # "free"
        BY <2>4, <1>a, <1>f DEF EventInv, HandlesFresh
      <3>2. handle'[u] # yieldWait'[v]
        BY <3>1, <1>c, <1>h DEF EventInv, HandlesFresh
      <3>3. (Captured(v))' /\ handle'[v] = handle'[u] => u = v
        BY <3>1, <1>a, <1>f DEF EventInv, HandlesFresh
      <3>4. QED
        BY <3>2, <3>3
    <2>5. QED
      BY <2>1, <2>2, <2>3, <2>4 DEF HandlesFresh
  <1>2. PendingApart'
    <2> SUFFICES ASSUME NEW u \in Threads, NEW v \in Threads,
                        yieldWait'[u] = yieldWait'[v], yieldWait'[u] # NoHandle
                 PROVE  u = v
      BY DEF PendingApart
    <2>1. CASE u \in Others(t) /\ v \in Others(t)
      BY <2>1, <1>g, <1>h
    <2>2. CASE u \notin Others(t) /\ v \notin Others(t)
      BY <2>2, <1>h DEF EventInv, PendingApart
    <2>3. ASSUME NEW a \in Others(t), NEW b \in Threads \ Others(t),
                 yieldWait'[a] = yieldWait'[b]
          PROVE  FALSE
      BY <2>3, <1>c, <1>h, SysLevelAssumption DEF EventInv, HandlesFresh
    <2>4. QED
      BY <2>1, <2>2, <2>3
  <1>3. WaitersApart'
    <2>1. ASSUME NEW u \in Threads \ {t}, NEW h \in waiters'[u]
          PROVE  h \notin waiters'[t]
      BY <2>1, <1>c, <1>i DEF EventInv, HandlesFresh
    <2>2. QED
      BY <2>1, <1>i DEF EventInv, WaitersApart
  <1>4. WaitersHeld'
    BY <1>a, <1>i DEF EventInv, WaitersHeld, Remembers, IInv, TypeOK
  <1>5. CapturedOpen'
    <2>1. ASSUME NEW u \in Threads, (Captured(u))'
          PROVE  handle'[u] \in Handles /\ (pc'[u] = "regain" => event'[handle'[u]] = "set")
      <3>1. Captured(u) /\ handle'[u] = handle[u] /\ pc'[u] = pc[u]
        BY <2>1, <1>a, <1>f DEF Captured, IInv, TypeOK
      <3>2. QED
        BY <3>1, <1>d DEF EventInv, CapturedOpen
    <2>2. QED
      BY <2>1 DEF CapturedOpen
  <1>6. QED
    BY <1>1, <1>2, <1>3, <1>4, <1>5 DEF EventInv

\* Every step of every thread keeps EventInv.
LEMMA EventStep == IInv /\ EventInv /\ [Next]_vars => EventInv'
  <1> SUFFICES ASSUME IInv, EventInv, [Next]_vars PROVE EventInv'
    OBVIOUS
  <1>1. CASE Next
    <2>1. PICK t \in Threads :
            \/ EnterSysLevel(t) \/ ThunkLock(t) \/ DirectedYield(t)
            \/ Native(t) \/ Task(t) \/ TaskGone(t)
      BY <1>1 DEF Next
    <2>2. CASE CaptureEvent(t) \/ WaitYieldEvent(t) \/ RegainLevels(t)
      BY <2>2, CaptureEventKeeps, WaitKeeps, RegainKeeps
    <2>3. CASE CreateEvents(t) \/ SignalWaiter(t) \/ DirectedYieldDone(t) \/ TaskGone(t)
      BY <2>3, CreateKeeps, SignalKeeps, DoneKeeps, GoneKeeps
    <2>4. CASE \/ EnterSection(t)  \/ NothingPending(t)  \/ DropLevels(t)
               \/ ReleaseLevel(t)  \/ Released(t)  \/ RestoreLevel(t)
               \/ Restored(t)  \/ CloseYieldEvent(t)  \/ NativeReturns(t)
               \/ CallBack(t)  \/ CallBackReturns(t)
               \/ CallEnter(t)  \/ CallLeave(t)  \/ EnterUntracked(t)
               \/ Yield(t)  \/ DirectedYieldFails(t)  \/ ScanTasks(t)
               \/ TaskStart(t)  \/ TaskExit(t)
      BY <2>4, QuietSteps, QuietKeeps
    <2>5. QED
      BY <2>1, <2>2, <2>3, <2>4 DEF EnterSysLevel, ThunkLock, DirectedYield, Native, Task
  <1>2. CASE UNCHANGED vars
    <2>1. Quiet
      BY <1>2 DEF Quiet, EventInv, WaitersHeld, Captured, Remembers, vars, yieldVars, localVars, countVars
    <2>2. QED
      BY <2>1, QuietKeeps
  <1>3. QED
    BY <1>1, <1>2

\* The strengthening of HandlesFresh holds in every reachable state.
THEOREM EventInvariant == Spec => []EventInv
  <1>1. Init => EventInv
    BY SysLevelAssumption DEF Init, EventInv, HandlesFresh, PendingApart, WaitersApart,
      WaitersHeld, CapturedOpen, Captured
  <1>2. QED
    BY <1>1, EventStep, SysLevelInvariant, PTL DEF Spec

\* Every event anybody still waits on, will wait on or has to set is open and
\* belongs to one task only, for any number of tasks and handles, and however
\* many of the waiters DirectedYield remembers.
THEOREM Fresh == Spec => []HandlesFresh
  <1>1. EventInv => HandlesFresh
    BY DEF EventInv
  <1>2. QED
    BY <1>1, EventInvariant, PTL
-----------------------------------------------------------------------------
(* No event is forgotten.  The list of waiters has MaxWaiters places; with *)
(* more tasks than that xxxDirectedYield creates events it will not set    *)
(* (SysLevelCap.cfg), so the theorem is for tasks that fit in the list.    *)

\* The events an orphan could come from are all on the list of the thread that
\* creates them when there is room for every other task.
LEMMA AllRemembered ==
  ASSUME IsFiniteSet(Threads), Cardinality(Threads) <= MaxWaiters + 1,
         TypeOK, NEW t \in Threads, NEW R \in SUBSET Others(t),
         \/ R = Others(t) /\ Cardinality(R) <= MaxWaiters
         \/ Cardinality(R) = MaxWaiters
  PROVE  R = Others(t)
  <1>1. /\ IsFiniteSet(Threads \ {t})
        /\ Cardinality(Threads \ {t}) = Cardinality(Threads) - 1
    BY FS_RemoveElement
  <1>2. Others(t) \in SUBSET (Threads \ {t})
    BY DEF Others, TypeOK
  <1>3. IsFiniteSet(Others(t)) /\ Cardinality(Others(t)) <= Cardinality(Threads \ {t})
    BY <1>1, <1>2, FS_Subset
  <1>4. /\ Cardinality(R) <= Cardinality(Others(t))
        /\ Cardinality(Others(t)) = Cardinality(R) => Others(t) = R
    BY <1>3, FS_Subset
  <1>5. /\ Cardinality(Others(t)) \in Nat
        /\ Cardinality(Threads) \in Nat
        /\ MaxWaiters \in Nat
    BY <1>3, FS_CardinalityType, SysLevelAssumption
  <1>6. CASE Cardinality(R) = MaxWaiters
    BY <1>1, <1>3, <1>4, <1>5, <1>6
  <1>7. QED
    BY <1>6

\* A step that neither captures nor creates nor sets an event orphans none:
\* it can only make an event nobody refers to.
LEMMA SameEventsNoOrphan ==
  ASSUME NoOrphanedEvent, event' = event, waiters' = waiters,
         \A u \in Threads : \A h \in Handles :
           (yieldWait'[u] = h \/ ((Captured(u))' /\ handle'[u] = h)) =>
             (yieldWait[u] = h \/ (Captured(u) /\ handle[u] = h))
  PROVE  NoOrphanedEvent'
  BY DEF NoOrphanedEvent

\* Every step of every thread keeps NoOrphanedEvent: the step that forgets the
\* handle in the list has set its event, the one that closes an event has had
\* it to itself.
LEMMA OrphanStep ==
  ASSUME IsFiniteSet(Threads), Cardinality(Threads) <= MaxWaiters + 1,
         IInv, EventInv, NoOrphanedEvent, [Next]_vars
  PROVE  NoOrphanedEvent'
  <1>1. CASE Next
    <2>1. PICK t \in Threads :
            \/ EnterSysLevel(t) \/ ThunkLock(t) \/ DirectedYield(t)
            \/ Native(t) \/ Task(t) \/ TaskGone(t)
      BY <1>1 DEF Next
    <2>2. CASE CreateEvents(t)
      <3>1. PICK f \in [Others(t) -> FreeHandles], R \in SUBSET Others(t) :
              /\ \/ R = Others(t) /\ Cardinality(R) <= MaxWaiters
                 \/ Cardinality(R) = MaxWaiters
              /\ yieldWait' = [u \in Threads |-> IF u \in Others(t) THEN f[u] ELSE yieldWait[u]]
              /\ event' = [h \in Handles |->
                             IF \E u \in Others(t) : f[u] = h THEN "clear" ELSE event[h]]
              /\ waiters' = [waiters EXCEPT ![t] = {f[u] : u \in R}]
        BY <2>2 DEF CreateEvents
      <3>2. R = Others(t)
        BY <3>1, AllRemembered DEF IInv
      <3>3. /\ pc[t] = "create" /\ pc' = [pc EXCEPT ![t] = "release"] /\ handle' = handle
        BY <2>2 DEF CreateEvents, BeginRelease, Goto
      <3>4. waiters[t] = {}
        BY <3>3 DEF IInv, Levels, Outside, EventInv, WaitersHeld, Remembers
      <3>5. /\ waiters'[t] = {f[u] : u \in Others(t)}
            /\ \A u \in Threads : waiters[u] \subseteq waiters'[u]
        BY <3>1, <3>2, <3>4 DEF IInv, TypeOK
      <3>6. \A h \in Handles : event[h] = "set" => event'[h] = "set"
        BY <3>1 DEF FreeHandles
      <3>7. \A u \in Threads : (Captured(u))' => Captured(u)
        BY <3>3 DEF Captured, IInv, TypeOK
      <3>8. SUFFICES ASSUME NEW u \in Threads, NEW h \in Handles,
                            yieldWait'[u] = h \/ ((Captured(u))' /\ handle'[u] = h)
                     PROVE  event'[h] = "set" \/ \E c \in Threads : h \in waiters'[c]
        BY DEF NoOrphanedEvent
      <3>9. CASE u \in Others(t) /\ yieldWait'[u] = h
        BY <3>9, <3>1, <3>5
      <3>10. CASE yieldWait[u] = h \/ (Captured(u) /\ handle[u] = h)
        BY <3>10, <3>5, <3>6 DEF NoOrphanedEvent
      <3>11. QED
        BY <3>1, <3>3, <3>7, <3>8, <3>9, <3>10
    <2>3. CASE SignalWaiter(t)
      <3>1. PICK h \in waiters[t] :
              /\ event' = [event EXCEPT ![h] = IF event[h] = "free" THEN "free" ELSE "set"]
              /\ waiters' = [waiters EXCEPT ![t] = waiters[t] \ {h}]
        BY <2>3 DEF SignalWaiter
      <3>2. h \in Handles /\ event[h] = "clear"
        BY <3>1 DEF EventInv, HandlesFresh, IInv, TypeOK
      <3>3. /\ event'[h] = "set"
            /\ \A k \in Handles : event[k] = "set" => event'[k] = "set"
            /\ \A u \in Threads : \A k \in waiters[u] : k = h \/ k \in waiters'[u]
        BY <3>1, <3>2 DEF IInv, TypeOK
      <3>4. yieldWait' = yieldWait /\ handle' = handle /\ pc' = pc
        BY <2>3 DEF SignalWaiter, localVars
      <3>5. QED
        BY <3>3, <3>4 DEF NoOrphanedEvent, Captured
    <2>4. CASE RegainLevels(t)
      <3>1. /\ event' = [event EXCEPT ![handle[t]] = "free"]
            /\ handle' = [handle EXCEPT ![t] = NoHandle]
            /\ yieldWait' = yieldWait /\ waiters' = waiters
            /\ Captured(t) /\ ~(Captured(t))'
            /\ \A u \in Threads \ {t} : pc'[u] = pc[u]
        BY <2>4 DEF RegainLevels, FinishEnter, Goto, Captured, IInv, TypeOK
      <3>2. SUFFICES ASSUME NEW u \in Threads, NEW h \in Handles,
                            yieldWait'[u] = h \/ ((Captured(u))' /\ handle'[u] = h)
                     PROVE  event'[h] = "set" \/ \E c \in Threads : h \in waiters'[c]
        BY DEF NoOrphanedEvent
      <3>3. yieldWait[u] = h \/ (u # t /\ Captured(u) /\ handle[u] = h)
        BY <3>1, <3>2 DEF Captured, IInv, TypeOK
      <3>4. h # handle[t]
        BY <3>1, <3>3 DEF EventInv, HandlesFresh
      <3>5. event'[h] = event[h]
        BY <3>1, <3>4 DEF IInv, TypeOK
      <3>6. QED
        BY <3>1, <3>3, <3>5 DEF NoOrphanedEvent
    <2>5. CASE CaptureEvent(t)
      <3>1. /\ handle' = [handle EXCEPT ![t] = yieldWait[t]]
            /\ yieldWait' = [yieldWait EXCEPT ![t] = NoHandle]
            /\ event' = event /\ waiters' = waiters
            /\ \A u \in Threads \ {t} : pc'[u] = pc[u]
        BY <2>5 DEF CaptureEvent, Goto, IInv, TypeOK
      <3>2. handle'[t] = yieldWait[t] /\ yieldWait'[t] = NoHandle
        BY <3>1 DEF IInv, TypeOK
      <3>3. \A u \in Threads \ {t} : /\ handle'[u] = handle[u]
                                     /\ yieldWait'[u] = yieldWait[u]
                                     /\ (Captured(u))' <=> Captured(u)
        BY <3>1 DEF Captured, IInv, TypeOK
      <3>4. QED
        BY <3>1, <3>2, <3>3, SameEventsNoOrphan, SysLevelAssumption
    <2>6. CASE WaitYieldEvent(t)
      BY <2>6, SameEventsNoOrphan DEF WaitYieldEvent, Goto, Captured, IInv, TypeOK,
        yieldVars, localVars, countVars
    <2>7. CASE TaskGone(t)
      <3>1. \A u \in Threads : yieldWait'[u] = yieldWait[u] \/ yieldWait'[u] = NoHandle
        BY <2>7 DEF TaskGone, IInv, TypeOK
      <3>2. /\ event' = event /\ waiters' = waiters /\ handle' = handle
            /\ \A u \in Threads : (Captured(u))' => Captured(u)
        BY <2>7 DEF TaskGone, Goto, Captured, IInv, TypeOK
      <3>3. QED
        BY <3>1, <3>2, SameEventsNoOrphan, SysLevelAssumption
    <2>8. CASE DirectedYieldDone(t)
      BY <2>8, SameEventsNoOrphan DEF DirectedYieldDone, Goto, Captured, IInv, TypeOK,
        yieldVars, localVars, countVars
    <2>9. CASE \/ EnterSection(t)  \/ NothingPending(t)  \/ DropLevels(t)
               \/ ReleaseLevel(t)  \/ Released(t)  \/ RestoreLevel(t)
               \/ Restored(t)  \/ CloseYieldEvent(t)  \/ NativeReturns(t)
               \/ CallBack(t)  \/ CallBackReturns(t)
               \/ CallEnter(t)  \/ CallLeave(t)  \/ EnterUntracked(t)
               \/ Yield(t)  \/ DirectedYieldFails(t)  \/ ScanTasks(t)
               \/ TaskStart(t)  \/ TaskExit(t)
      BY <2>9, QuietSteps, SameEventsNoOrphan DEF Quiet
    <2>10. QED
      BY <2>1, <2>2, <2>3, <2>4, <2>5, <2>6, <2>7, <2>8, <2>9
        DEF EnterSysLevel, ThunkLock, DirectedYield, Native, Task
  <1>2. CASE UNCHANGED vars
    BY <1>2, SameEventsNoOrphan DEF vars, yieldVars, localVars, countVars, Captured
  <1>3. QED
    BY <1>1, <1>2

\* With no more tasks than DirectedYield remembers, every event a task waits or
\* will wait on is set or on the list of the thread that has to set it.
THEOREM NoneOrphaned ==
  ASSUME IsFiniteSet(Threads), Cardinality(Threads) <= MaxWaiters + 1
  PROVE  Spec => []NoOrphanedEvent
  <1>1. Init => NoOrphanedEvent
    BY SysLevelAssumption DEF Init, NoOrphanedEvent, Captured
  <1>2. IInv /\ EventInv /\ NoOrphanedEvent /\ [Next]_vars => NoOrphanedEvent'
    BY OrphanStep
  <1>3. QED
    BY <1>1, <1>2, SysLevelInvariant, EventInvariant, PTL DEF Spec
=============================================================================
