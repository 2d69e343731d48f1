--------------------------- MODULE Win16Scheduler ---------------------------
(***************************************************************************)
(* What wsyslevel.c and wtask.c promise the 16-bit world: the tasks are    *)
(* separate OS threads, yet at any time at most one of them runs 16-bit    *)
(* code, and the right to do so is never taken from a task, only given.    *)
(* SysLevel implements this specification (its property Scheduled).        *)
(***************************************************************************)
CONSTANTS Threads, NoThread

VARIABLES
  holder,   \* the task that has the right to run 16-bit code
  running   \* the tasks that run 16-bit code

Init == holder = NoThread /\ running = {}

\* The right is free, or the task has it already (a nested callback).
Resume(t) ==
  /\ holder \in {NoThread, t}
  /\ holder' = t
  /\ running' \in {running, running \cup {t}}

\* Only the task itself stops running, and gives the right back or keeps it
\* for the native code it calls.
Suspend(t) ==
  /\ holder = t
  /\ holder' \in {NoThread, t}
  /\ running' = running \ {t}

Next == \E t \in Threads : Resume(t) \/ Suspend(t)

Spec == Init /\ [][Next]_<<holder, running>>
=============================================================================
