------------------------------ MODULE SysLevel ------------------------------
(***************************************************************************)
(* Win16Mutex and the task switches built on it: wow32's wsyslevel.c and   *)
(* wtask.c.  Every Win16 task is an OS thread; the recursive critical      *)
(* section Win16Mutex decides which of them runs 16-bit code.  A thunk     *)
(* that calls out of 16-bit code gives one level back (RELEASE_THUNKLOCK), *)
(* a yield gives all of them back (ReleaseThunkLock), and DirectedYield    *)
(* parks every other task on an event of its own until the yielding task   *)
(* has had its turn.                                                       *)
(*                                                                         *)
(* gcsWOW is a lock of its own: it protects the task list and the          *)
(* yield_wait_event fields.  A section of gcsWOW in which the code cannot  *)
(* block is one action; DirectedYield's scan and its creation of the       *)
(* events are two.                                                         *)
(***************************************************************************)
EXTENDS Integers, FiniteSets, Sequences

CONSTANTS
  Threads,     \* OS threads that can host a Win16 task
  NoThread,
  Handles,     \* event handles of the process (bound: the open ones at a time)
  NoHandle,
  MaxWaiters,  \* MAX_DIRECTEDYIELD_WAITERS
  MaxDepth,    \* bound: levels of Win16Mutex a thread nests
  MaxNested    \* bound: xxxUserYield calls, of all threads, that wait for a
               \* window procedure they called

ASSUME SysLevelAssumption ==
  /\ NoThread \notin Threads
  /\ NoHandle \notin Handles
  /\ MaxWaiters \in Nat
  /\ MaxDepth \in Nat \ {0}
  /\ MaxNested \in Nat

VARIABLES
  owner,       \* Win16Mutex.crst.OwningThread
  rec,         \* Win16Mutex.crst.RecursionCount
  gcs,         \* owner of gcsWOW
  tasks,       \* threads whose ptd is in the list gptdTaskHead
  sysCount,    \* ptd->sys_count[1]
  sysMutex,    \* ptd->sys_mutex[1] is Win16Mutex (FALSE: NULL)
  yieldEvent,  \* ptd->yield_event: no handle, a reset event, a set event
  yieldWait,   \* ptd->yield_wait_event
  event,       \* the kernel object behind each handle
  pc,          \* where in wsyslevel.c and wtask.c each thread is
  code,        \* what a thread at "run" executes: 16-bit or native code
  op,          \* the operation whose ReleaseThunkLock or RestoreThunkLock runs;
               \* "Wait" is xxxUserYield or xxxWaitForMsgAndEvent
  count,       \* the result of ReleaseThunkLock in each call on the thread's
               \* stack, the innermost first
  gave,        \* history: the levels the thread owned as those calls began
  left,        \* iterations left of the loop it is in
  mutexCount,  \* mutex_count of _EnterSysLevel
  handle,      \* event of _EnterSysLevel
  waiters      \* ahWaiters of xxxDirectedYield, the ones still to signal

lockVars == <<owner, rec, sysCount, sysMutex>>
yieldVars == <<gcs, tasks, yieldEvent, yieldWait, event, waiters>>
countVars == <<count, gave>>
localVars == <<code, op, countVars, left, mutexCount, handle>>
vars == <<lockVars, yieldVars, localVars, pc>>

Operations == {"call", "OldYield", "Wait", "DirectedYield", "Exit"}
Places == {"gone", "run", "enter", "check", "drop", "wait", "regain",
           "release", "native", "restore", "create", "close", "signal"}

Goto(t, place) == pc' = [pc EXCEPT ![t] = place]
-----------------------------------------------------------------------------
(* The critical section and the system level counters.                     *)

\* How many levels of Win16Mutex thread t really owns.
ConfirmSysLevel(t) == IF owner = t THEN rec ELSE 0

RtlEnter(t) ==
  /\ owner \in {NoThread, t}
  /\ owner' = t
  /\ rec' = rec + 1

\* The OS does not look at who leaves.
RtlLeave ==
  /\ rec' = rec - 1
  /\ owner' = IF rec = 1 THEN NoThread ELSE owner

\* sys_count is a DWORD, so "<= 0" is "= 0".
InSync(t) == sysCount[t] > 0 /\ sysMutex[t]

\* Variant: RtlLeaveCriticalSection is called whoever owns the section.
LeaveUnchecked(t) ==
  /\ RtlLeave
  /\ sysCount' = [sysCount EXCEPT ![t] = IF InSync(t) THEN @ - 1 ELSE @]
  /\ sysMutex' = [sysMutex EXCEPT ![t] = IF InSync(t) THEN sysCount[t] # 1 ELSE @]

\* Variant: an out-of-sync counter makes the call return early.
LeaveSkipped(t) ==
  IF InSync(t)
    THEN /\ sysCount' = [sysCount EXCEPT ![t] = @ - 1]
         /\ sysMutex' = [sysMutex EXCEPT ![t] = sysCount[t] # 1]
         /\ RtlLeave
    ELSE UNCHANGED lockVars

LeaveSysLevel(t) ==
  \/ /\ InSync(t)
     /\ sysCount' = [sysCount EXCEPT ![t] = @ - 1]
     /\ sysMutex' = [sysMutex EXCEPT ![t] = sysCount[t] # 1]
     /\ RtlLeave
  \/ /\ ~InSync(t)
     /\ ConfirmSysLevel(t) > 0
     /\ RtlLeave
     /\ UNCHANGED <<sysCount, sysMutex>>
  \/ /\ ~InSync(t)
     /\ ConfirmSysLevel(t) = 0
     /\ UNCHANGED lockVars

\* The tail of _EnterSysLevel, reached with `levels` more levels owned than
\* sys_count[1] says, and the return to its caller.
FinishEnter(t, levels) ==
  /\ sysCount' = [sysCount EXCEPT ![t] = @ + levels]
  /\ sysMutex' = [sysMutex EXCEPT ![t] = TRUE]
  /\ yieldEvent' = [yieldEvent EXCEPT ![t] = IF @ = "null" THEN "null" ELSE "set"]
  /\ mutexCount' = [mutexCount EXCEPT ![t] = 0]
  /\ IF op[t] = "call"
       THEN Goto(t, "run") /\ code' = [code EXCEPT ![t] = "wow16"]
       ELSE Goto(t, "restore") /\ UNCHANGED code
-----------------------------------------------------------------------------
(* _EnterSysLevel.                                                         *)

\* RESTORE_THUNKLOCK, or CallBack16 entering 16-bit code.
CallEnter(t) ==
  /\ pc[t] = "run"
  /\ ConfirmSysLevel(t) < MaxDepth
  /\ op' = [op EXCEPT ![t] = "call"]
  /\ code' = [code EXCEPT ![t] = "native"]
  /\ Goto(t, "enter")
  /\ UNCHANGED <<lockVars, yieldVars, countVars, left, mutexCount, handle>>

EnterSection(t) ==
  /\ pc[t] = "enter"
  /\ RtlEnter(t)
  /\ Goto(t, "check")
  /\ UNCHANGED <<sysCount, sysMutex, yieldVars, localVars>>

NothingPending(t) ==
  /\ pc[t] = "check"
  /\ gcs = NoThread
  /\ yieldWait[t] = NoHandle
  /\ FinishEnter(t, 1)
  /\ UNCHANGED <<owner, rec, gcs, tasks, yieldWait, event, waiters,
                 op, countVars, left, handle>>

\* Variant: the captured handle stays in the ptd.
CaptureKeeps(t) ==
  /\ pc[t] = "check"
  /\ gcs = NoThread
  /\ yieldWait[t] # NoHandle
  /\ handle' = [handle EXCEPT ![t] = yieldWait[t]]
  /\ Goto(t, "drop")
  /\ UNCHANGED <<lockVars, yieldVars, code, op, countVars, left, mutexCount>>

\* Capture and clear ptd->yield_wait_event under gcsWOW.
CaptureEvent(t) ==
  /\ pc[t] = "check"
  /\ gcs = NoThread
  /\ yieldWait[t] # NoHandle
  /\ handle' = [handle EXCEPT ![t] = yieldWait[t]]
  /\ yieldWait' = [yieldWait EXCEPT ![t] = NoHandle]
  /\ Goto(t, "drop")
  /\ UNCHANGED <<lockVars, gcs, tasks, yieldEvent, event, waiters,
                 code, op, countVars, left, mutexCount>>

\* Leave the level just entered and every level below it.
DropLevels(t) ==
  /\ pc[t] = "drop"
  /\ mutexCount' = [mutexCount EXCEPT ![t] = rec - 1]
  /\ sysCount' = [sysCount EXCEPT ![t] = @ - (rec - 1)]
  /\ sysMutex' = [sysMutex EXCEPT ![t] = @ /\ sysCount[t] \notin 1 .. (rec - 1)]
  /\ owner' = NoThread
  /\ rec' = 0
  /\ Goto(t, "wait")
  /\ UNCHANGED <<yieldVars, code, op, countVars, left, handle>>

WaitYieldEvent(t) ==
  /\ pc[t] = "wait"
  /\ event[handle[t]] = "set"
  /\ Goto(t, "regain")
  /\ UNCHANGED <<lockVars, yieldVars, localVars>>

RegainLevels(t) ==
  /\ pc[t] = "regain"
  /\ owner = NoThread
  /\ owner' = t
  /\ rec' = mutexCount[t] + 1
  /\ event' = [event EXCEPT ![handle[t]] = "free"]
  /\ handle' = [handle EXCEPT ![t] = NoHandle]
  /\ FinishEnter(t, mutexCount[t] + 1)
  /\ UNCHANGED <<gcs, tasks, yieldWait, waiters, op, countVars, left>>

\* The section is handed out by GetpWin16Lock; a level entered through the
\* pointer is one that sys_count[1] does not know of.
EnterUntracked(t) ==
  /\ pc[t] = "run"
  /\ code[t] = "wow16"
  /\ rec < MaxDepth
  /\ RtlEnter(t)
  /\ UNCHANGED <<sysCount, sysMutex, yieldVars, localVars, pc>>
-----------------------------------------------------------------------------
(* _LeaveWin16Lock, ReleaseThunkLock and RestoreThunkLock.                 *)

\* RELEASE_THUNKLOCK; a callback may do it again with nothing left to leave.
CallLeave(t) ==
  /\ pc[t] = "run"
  /\ LeaveSysLevel(t)
  /\ code' = [code EXCEPT ![t] = "native"]
  /\ UNCHANGED <<yieldVars, op, countVars, left, mutexCount, handle, pc>>

\* Variant: the calls share one place for the count, as a global would be.
BeginReleaseShared(t, o) ==
  /\ op' = [op EXCEPT ![t] = o]
  /\ count' = [count EXCEPT ![t] = [i \in 1 .. Len(@) + 1 |-> ConfirmSysLevel(t)]]
  /\ gave' = [gave EXCEPT ![t] = <<ConfirmSysLevel(t)>> \o @]
  /\ left' = [left EXCEPT ![t] = ConfirmSysLevel(t)]
  /\ Goto(t, "release")

BeginRelease(t, o) ==
  /\ op' = [op EXCEPT ![t] = o]
  /\ count' = [count EXCEPT ![t] = <<ConfirmSysLevel(t)>> \o @]
  /\ gave' = [gave EXCEPT ![t] = <<ConfirmSysLevel(t)>> \o @]
  /\ left' = [left EXCEPT ![t] = ConfirmSysLevel(t)]
  /\ Goto(t, "release")

ReleaseLevel(t) ==
  /\ pc[t] = "release"
  /\ left[t] > 0
  /\ LeaveSysLevel(t)
  /\ left' = [left EXCEPT ![t] = @ - 1]
  /\ UNCHANGED <<yieldVars, code, op, countVars, mutexCount, handle, pc>>

Released(t) ==
  /\ pc[t] = "release"
  /\ left[t] = 0
  /\ op[t] # "Exit"
  /\ left' = [left EXCEPT ![t] = Head(count[t])]
  /\ Goto(t, IF op[t] = "OldYield" THEN "restore" ELSE "native")
  /\ UNCHANGED <<lockVars, yieldVars, code, op, countVars, mutexCount, handle>>

\* The native call returns: PeekMessage, MsgWaitForMultipleObjects, or the
\* 100 ms wait of DirectedYield for an event only this thread can set.
NativeReturns(t) ==
  /\ pc[t] = "native"
  /\ Goto(t, "restore")
  /\ UNCHANGED <<lockVars, yieldVars, localVars>>

\* The calls on the stack of thread t below the one that runs now.
Interrupted(t) == {t} \X (IF op[t] = "call" THEN 1 .. Len(count[t])
                                            ELSE 2 .. Len(count[t]))

\* PeekMessage and DispatchMessage call window procedures, and those call
\* back into 16-bit code, which may yield again: it does so with the count of
\* the interrupted xxxUserYield below it on the same stack.  (A wait in which
\* this never happens is also the one of xxxWaitForMsgAndEvent.)
CallBack(t) ==
  /\ pc[t] = "native"
  /\ op[t] = "Wait"
  /\ Cardinality(UNION {Interrupted(u) : u \in Threads}) < MaxNested
  /\ op' = [op EXCEPT ![t] = "call"]
  /\ code' = [code EXCEPT ![t] = "native"]
  /\ left' = [left EXCEPT ![t] = 0]
  /\ Goto(t, "run")
  /\ UNCHANGED <<lockVars, yieldVars, countVars, mutexCount, handle>>

\* The window procedure returns, with every level it entered left again.
CallBackReturns(t) ==
  /\ pc[t] = "run"
  /\ code[t] = "native"
  /\ count[t] # <<>>
  /\ ConfirmSysLevel(t) = 0
  /\ op' = [op EXCEPT ![t] = "Wait"]
  /\ code' = [code EXCEPT ![t] = "wow16"]
  /\ left' = [left EXCEPT ![t] = Head(count[t])]
  /\ Goto(t, "native")
  /\ UNCHANGED <<lockVars, yieldVars, countVars, mutexCount, handle>>

RestoreLevel(t) ==
  /\ pc[t] = "restore"
  /\ left[t] > 0
  /\ left' = [left EXCEPT ![t] = @ - 1]
  /\ Goto(t, "enter")
  /\ UNCHANGED <<lockVars, yieldVars, code, op, countVars, mutexCount, handle>>

Restored(t) ==
  /\ pc[t] = "restore"
  /\ left[t] = 0
  /\ Goto(t, IF op[t] = "DirectedYield" THEN "close" ELSE "run")
  /\ op' = [op EXCEPT ![t] = "call"]
  /\ count' = [count EXCEPT ![t] = Tail(@)]
  /\ gave' = [gave EXCEPT ![t] = Tail(@)]
  /\ UNCHANGED <<lockVars, yieldVars, code, left, mutexCount, handle>>

\* OldYield, or xxxUserYield and xxxWaitForMsgAndEvent around a native call.
Yield(t) ==
  /\ pc[t] = "run"
  /\ code[t] = "wow16"
  /\ \E o \in {"OldYield", "Wait"} : BeginRelease(t, o)
  /\ UNCHANGED <<lockVars, yieldVars, code, mutexCount, handle>>
-----------------------------------------------------------------------------
(* xxxDirectedYield.                                                       *)

FreeHandles == {h \in Handles : event[h] = "free"}
Others(t) == tasks \ {t}
Pending == \E p \in tasks : yieldWait[p] # NoHandle
Yielding == \E p \in tasks : yieldEvent[p] # "null"

\* Somebody else is in a directed yield: fall back to OldYield.  With a
\* yield_wait_event pending the call returns and nothing changes.
DirectedYieldFails(t) ==
  /\ pc[t] = "run"
  /\ code[t] = "wow16"
  /\ gcs = NoThread
  /\ \/ t \notin tasks
     \/ yieldEvent[t] # "null"
     \/ ~Pending /\ Yielding
  /\ BeginRelease(t, "OldYield")
  /\ UNCHANGED <<lockVars, yieldVars, code, mutexCount, handle>>

\* gcsWOW is kept from here to the end of CreateEvents.
ScanTasks(t) ==
  /\ pc[t] = "run"
  /\ code[t] = "wow16"
  /\ gcs = NoThread
  /\ t \in tasks
  /\ ~Pending
  /\ ~Yielding
  /\ Cardinality(Others(t)) <= Cardinality(FreeHandles)
  /\ gcs' = t
  /\ Goto(t, "create")
  /\ UNCHANGED <<lockVars, tasks, yieldEvent, yieldWait, event, waiters, localVars>>

Injective(f) == \A a, b \in DOMAIN f : f[a] = f[b] => a = b

\* One event per other task, of which MaxWaiters are remembered.
CreateEvents(t) ==
  /\ pc[t] = "create"
  /\ \E f \in [Others(t) -> FreeHandles], R \in SUBSET Others(t) :
       /\ Injective(f)
       /\ \/ R = Others(t) /\ Cardinality(R) <= MaxWaiters
          \/ Cardinality(R) = MaxWaiters
       /\ yieldWait' = [p \in Threads |-> IF p \in Others(t) THEN f[p] ELSE yieldWait[p]]
       /\ event' = [h \in Handles |->
                      IF \E p \in Others(t) : f[p] = h THEN "clear" ELSE event[h]]
       /\ waiters' = [waiters EXCEPT ![t] = {f[p] : p \in R}]
  /\ yieldEvent' = [yieldEvent EXCEPT ![t] = "clear"]
  /\ gcs' = NoThread
  /\ BeginRelease(t, "DirectedYield")
  /\ UNCHANGED <<lockVars, tasks, code, mutexCount, handle>>

CloseYieldEvent(t) ==
  /\ pc[t] = "close"
  /\ yieldEvent' = [yieldEvent EXCEPT ![t] = "null"]
  /\ Goto(t, "signal")
  /\ UNCHANGED <<lockVars, gcs, tasks, yieldWait, event, waiters, localVars>>

\* Variant: only handles still found in a ptd are signalled.
SignalReread(t) ==
  /\ pc[t] = "signal"
  /\ \E h \in waiters[t] :
       /\ event' = [event EXCEPT ![h] = IF \E p \in tasks : yieldWait[p] = h THEN "set" ELSE @]
       /\ waiters' = [waiters EXCEPT ![t] = @ \ {h}]
  /\ UNCHANGED <<lockVars, gcs, tasks, yieldEvent, yieldWait, localVars, pc>>

\* SetEvent on a closed handle fails and sets nothing.
SignalWaiter(t) ==
  /\ pc[t] = "signal"
  /\ \E h \in waiters[t] :
       /\ event' = [event EXCEPT ![h] = IF @ = "free" THEN "free" ELSE "set"]
       /\ waiters' = [waiters EXCEPT ![t] = @ \ {h}]
  /\ UNCHANGED <<lockVars, gcs, tasks, yieldEvent, yieldWait, localVars, pc>>

DirectedYieldDone(t) ==
  /\ pc[t] = "signal"
  /\ waiters[t] = {}
  /\ Goto(t, "run")
  /\ UNCHANGED <<lockVars, yieldVars, localVars>>
-----------------------------------------------------------------------------
(* A task starts (W32Thread) and ends (W32DestroyTask).                    *)

TaskStart(t) ==
  /\ pc[t] = "gone"
  /\ gcs = NoThread
  /\ tasks' = tasks \cup {t}
  /\ op' = [op EXCEPT ![t] = "call"]
  /\ Goto(t, "enter")
  /\ UNCHANGED <<lockVars, gcs, yieldEvent, yieldWait, event, waiters,
                 code, countVars, left, mutexCount, handle>>

TaskExit(t) ==
  /\ pc[t] = "run"
  /\ BeginRelease(t, "Exit")
  /\ code' = [code EXCEPT ![t] = "native"]
  /\ UNCHANGED <<lockVars, yieldVars, mutexCount, handle>>

\* The ptd is on the thread's stack and goes with it: a yield_wait_event in
\* it is not closed.
TaskGone(t) ==
  /\ pc[t] = "release"
  /\ left[t] = 0
  /\ op[t] = "Exit"
  /\ gcs = NoThread
  /\ tasks' = tasks \ {t}
  /\ sysCount' = [sysCount EXCEPT ![t] = 0]
  /\ sysMutex' = [sysMutex EXCEPT ![t] = FALSE]
  /\ yieldEvent' = [yieldEvent EXCEPT ![t] = "null"]
  /\ yieldWait' = [yieldWait EXCEPT ![t] = NoHandle]
  /\ op' = [op EXCEPT ![t] = "call"]
  /\ count' = [count EXCEPT ![t] = <<>>]
  /\ gave' = [gave EXCEPT ![t] = <<>>]
  /\ Goto(t, "gone")
  /\ UNCHANGED <<owner, rec, gcs, event, waiters, code, left, mutexCount, handle>>
-----------------------------------------------------------------------------
Init ==
  /\ owner = NoThread
  /\ rec = 0
  /\ gcs = NoThread
  /\ tasks = {}
  /\ sysCount = [t \in Threads |-> 0]
  /\ sysMutex = [t \in Threads |-> FALSE]
  /\ yieldEvent = [t \in Threads |-> "null"]
  /\ yieldWait = [t \in Threads |-> NoHandle]
  /\ event = [h \in Handles |-> "free"]
  /\ pc = [t \in Threads |-> "gone"]
  /\ code = [t \in Threads |-> "native"]
  /\ op = [t \in Threads |-> "call"]
  /\ count = [t \in Threads |-> <<>>]
  /\ gave = [t \in Threads |-> <<>>]
  /\ left = [t \in Threads |-> 0]
  /\ mutexCount = [t \in Threads |-> 0]
  /\ handle = [t \in Threads |-> NoHandle]
  /\ waiters = [t \in Threads |-> {}]

EnterSysLevel(t) ==
  EnterSection(t) \/ NothingPending(t) \/ CaptureEvent(t) \/ DropLevels(t)
    \/ WaitYieldEvent(t) \/ RegainLevels(t)

ThunkLock(t) ==
  ReleaseLevel(t) \/ Released(t) \/ RestoreLevel(t) \/ Restored(t)

DirectedYield(t) ==
  CreateEvents(t) \/ CloseYieldEvent(t) \/ SignalWaiter(t) \/ DirectedYieldDone(t)

Native(t) == NativeReturns(t) \/ CallBack(t) \/ CallBackReturns(t)

\* What a task decides to do when it runs.
Task(t) ==
  \/ CallEnter(t) \/ CallLeave(t) \/ EnterUntracked(t)
  \/ Yield(t) \/ DirectedYieldFails(t) \/ ScanTasks(t)
  \/ TaskStart(t) \/ TaskExit(t)

Next == \E t \in Threads :
  EnterSysLevel(t) \/ ThunkLock(t) \/ DirectedYield(t) \/ Native(t)
    \/ Task(t) \/ TaskGone(t)

Spec == Init /\ [][Next]_vars

\* Inside wsyslevel.c and wtask.c a thread keeps going; a native call returns
\* once it calls no window procedure any more; the OS grants a contended
\* critical section in the end (SwitchToThread is what the code does for it); a
\* Win16 task yields in the end, the contract of cooperative scheduling.
Fairness == \A t \in Threads :
  /\ SF_vars(EnterSysLevel(t) \/ TaskGone(t))
  /\ WF_vars(ThunkLock(t) \/ DirectedYield(t) \/ NativeReturns(t))
  /\ WF_vars(code[t] = "native" /\ CallEnter(t))
  /\ SF_vars(Yield(t))

FairSpec == Spec /\ Fairness
-----------------------------------------------------------------------------
TypeOK ==
  /\ owner \in Threads \cup {NoThread}
  /\ rec \in Nat
  /\ gcs \in Threads \cup {NoThread}
  /\ tasks \in SUBSET Threads
  /\ sysCount \in [Threads -> Int]
  /\ sysMutex \in [Threads -> BOOLEAN]
  /\ yieldEvent \in [Threads -> {"null", "clear", "set"}]
  /\ yieldWait \in [Threads -> Handles \cup {NoHandle}]
  /\ event \in [Handles -> {"free", "clear", "set"}]
  /\ pc \in [Threads -> Places]
  /\ code \in [Threads -> {"wow16", "native"}]
  /\ op \in [Threads -> Operations]
  /\ count \in [Threads -> Seq(Nat)]
  /\ gave \in [Threads -> Seq(Nat)]
  /\ left \in [Threads -> Nat]
  /\ mutexCount \in [Threads -> Nat]
  /\ handle \in [Threads -> Handles \cup {NoHandle}]
  /\ waiters \in [Threads -> SUBSET Handles]

Running16(t) == pc[t] = "run" /\ code[t] = "wow16"
Captured(t) == pc[t] \in {"drop", "wait", "regain"}

\* Only the owner of Win16Mutex runs 16-bit code, however often thunks and
\* callbacks released it before: a release too many must not take the section
\* away from another task (wsyslevel.c, the comment in _LeaveSysLevel).
MutualExclusion ==
  \A t \in Threads : Running16(t) => owner = t /\ rec > 0

\* A thread that is blocked for as long as somebody else pleases, in a yield,
\* a message wait or a directed-yield event, or that has exited, owns no level
\* of Win16Mutex: nothing but the section's owner is ever waited for.
SleepersOwnNothing ==
  \A t \in Threads : pc[t] \in {"native", "wait", "regain", "gone"} => owner # t

\* sys_count never claims a level the thread does not own, and is negative
\* only while _EnterSysLevel has given back levels it did not know of.
CountersConsistent ==
  \A t \in Threads :
    /\ sysCount[t] <= ConfirmSysLevel(t)
    /\ pc[t] \notin {"wait", "regain"} => sysCount[t] >= 0

\* A directed-yield event a task will wait on, or waits on, is set already or
\* is still on the list of the thread that has to set it: no thread hangs
\* forever on an event nobody remembers (wtask.c, the comment in
\* xxxDirectedYield).
NoOrphanedEvent ==
  \A t \in Threads : \A h \in Handles :
    (yieldWait[t] = h \/ (Captured(t) /\ handle[t] = h)) =>
      \/ event[h] = "set"
      \/ \E c \in Threads : h \in waiters[c]

\* Every handle anybody still uses is open and belongs to one task only: no
\* wait on a closed or recycled handle (wsyslevel.c, bug 2 of the comment in
\* _EnterSysLevel).
HandlesFresh ==
  /\ \A t \in Threads : yieldWait[t] # NoHandle => event[yieldWait[t]] # "free"
  /\ \A t \in Threads : Captured(t) => event[handle[t]] # "free"
  /\ \A t \in Threads : \A h \in waiters[t] : event[h] = "clear"
  /\ \A t, u \in Threads : Captured(t) =>
       /\ handle[t] # yieldWait[u]
       /\ Captured(u) /\ handle[u] = handle[t] => t = u

LevelsReturned(t) ==
  (pc[t] = "restore" /\ pc'[t] \in {"run", "close"}) =>
    owner' = t /\ rec' = Head(gave[t]) /\ sysCount'[t] = Head(gave[t])

\* A yield returns to 16-bit code with the levels it gave away, whatever ran
\* on the same stack while it waited: a window procedure that PeekMessage calls
\* may itself yield, with a count of its own (wtask.c, xxxUserYield).  The
\* counter then agrees with the section again even if it did not before.
YieldKeepsDepth == [][\A t \in Threads : LevelsReturned(t)]_vars

\* The abstract promise: holder is the owner of Win16Mutex.
Scheduler == INSTANCE Win16Scheduler WITH
  holder <- owner, running <- {t \in Threads : Running16(t)}

\* Every step of the locks, the thunks and the yields is a step the abstract
\* scheduler allows: no task loses the right to run but by its own step.
Scheduled == Scheduler!Spec

\* A task parked on a directed-yield event gets to run again, given that tasks
\* do yield and that the OS grants the section to a thread that wants it.
ParkedTaskResumes ==
  \A t \in Threads : pc[t] = "wait" ~> pc[t] \in {"run", "gone"}
=============================================================================
