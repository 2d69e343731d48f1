----------------------------- MODULE VdmCreate ------------------------------
(***************************************************************************)
(* Creating a process for a DOS or a 16-bit Windows program: the loader's  *)
(* CreateProcessInternalW for Windows XP x64 (xpcreateproc.c), its DOS     *)
(* branch for the later Windows (BasepProcessInvalidImage, ldntvdm.c) and  *)
(* the protocol with CSRSS both follow (basevdm.c).                        *)
(*                                                                         *)
(* CSRSS keeps a record of each VDM.  The creator asks for it              *)
(* (BaseCheckVDM), and if there is none CSRSS makes one and the creator    *)
(* goes round again with ntvdm.exe in place of the program.  When that     *)
(* process exists CSRSS is told (BaseUpdateVDMEntry), and from the first   *)
(* answer until the process runs every failure has to be made undone, or   *)
(* no program can be started at that place any more.                       *)
(*                                                                         *)
(* CSRSS itself and the VDM are not in the repository; they are modelled   *)
(* as the loader uses them.                                                *)
(***************************************************************************)
EXTENDS Integers, FiniteSets

CONSTANTS
  Creators,        \* threads that call CreateProcess
  Consoles,        \* console handles
  ConsoleOf,       \* creator -> the console of its process
  Wow,             \* stands for the console handle -1: the shared Windows VDM
  Tasks,           \* numbers CSRSS gives a VDM without a console of its own
  NoTask,          \* iTask 0
  Calls,           \* what the creators call with
  Windows,         \* the Windows versions to look at: "XP", "later"
  Detaching,       \* the versions where a DOS program is started detached
  Fails,           \* the steps that may fail
  OutOfProcesses   \* the versions where NtCreateProcessEx may fail

Places == Consoles \cup {Wow} \cup Tasks
NoPlace == NoTask
Images == {"win32", "bat", "dos", "win16"}
Flags == [newConsole : BOOLEAN, detached : BOOLEAN, separate : BOOLEAN, forceDos : BOOLEAN]
Binaries == {"none", "DOS", "WIN16", "SEPWOW"}

NoFlags == [newConsole |-> FALSE, detached |-> FALSE, separate |-> FALSE, forceDos |-> FALSE]

ASSUME PlacesAreApart ==
  /\ ConsoleOf \in [Creators -> Consoles]
  /\ Wow \notin Consoles \cup Tasks
  /\ Consoles \cap Tasks = {}
  /\ NoTask \notin Places
ASSUME CallsAreCalls == Calls \subseteq [image : Images, flags : Flags]
ASSUME VersionsAreKnown == Windows \subseteq {"XP", "later"}

VARIABLES
  windows,     \* the version this runs on
  pc,          \* creator -> the step it is at
  flags,       \* creator -> dwCreationFlags as they now stand
  image,       \* creator -> what lpApplicationName now names
  binary,      \* creator -> VdmBinaryType
  task,        \* creator -> VdmTask
  creation,    \* creator -> VDMCreationState, the set of its flags
  open,        \* creator -> handles it has open
  process,     \* creator -> the process it has created
  result,      \* creator -> the local variable Result
  ret,         \* creator -> what the call returned
  given,       \* creator -> handles in the caller's lpProcessInformation
  record,      \* CSRSS: place -> state of its VDM record
  serving      \* places at which a VDM process runs

local == <<flags, image, binary, task, creation, open, process, result, ret, given>>
vars == <<windows, pc, local, record, serving>>

TypeOK ==
  /\ windows \in {"XP", "later"}
  /\ pc \in [Creators -> {"idle", "open", "section", "wow", "dos", "create", "update",
                          "thread", "accept", "short", "quickie", "undo", "done"}]
  /\ flags \in [Creators -> Flags]
  /\ image \in [Creators -> Images]
  /\ binary \in [Creators -> Binaries]
  /\ task \in [Creators -> Tasks \cup {NoTask}]
  /\ creation \in [Creators -> SUBSET {"PARTIALLY", "FULLY", "REUSED", "SUCCESSFUL"}]
  /\ open \in [Creators -> SUBSET {"file", "section", "process", "thread", "wait"}]
  /\ process \in [Creators -> {"none", "empty", "suspended", "running", "dead"}]
  /\ result \in [Creators -> {"unset", "TRUE", "FALSE"}]
  /\ ret \in [Creators -> {"none", "TRUE", "FALSE"}]
  /\ given \in [Creators -> SUBSET {"process", "thread", "wait"}]
  /\ record \in [Places -> {"none", "loading", "busy", "ready"}]
  /\ serving \in SUBSET Places

Init ==
  /\ windows \in Windows
  /\ pc = [c \in Creators |-> "idle"]
  /\ flags = [c \in Creators |-> NoFlags]
  /\ image = [c \in Creators |-> "win32"]
  /\ binary = [c \in Creators |-> "none"]
  /\ task = [c \in Creators |-> NoTask]
  /\ creation = [c \in Creators |-> {}]
  /\ open = [c \in Creators |-> {}]
  /\ process = [c \in Creators |-> "none"]
  /\ result = [c \in Creators |-> "unset"]
  /\ ret = [c \in Creators |-> "none"]
  /\ given = [c \in Creators |-> {}]
  /\ record = [k \in Places |-> "none"]
  /\ serving = {}

----------------------------------------------------------------------------
(* The message a creator sends names the record by the shared VDM, by its  *)
(* task number, or by the console of the creator.                          *)
PlaceOf(c, b, t) ==
  IF b = "WIN16" THEN Wow ELSE IF t # NoTask THEN t ELSE ConsoleOf[c]

\* Variant: always by the console.
AtConsole(c) == ConsoleOf[c]

At(c) == PlaceOf(c, binary[c], task[c])

Go(c, l) == pc' = [pc EXCEPT ![c] = l]

Result(c, r) == result' = [result EXCEPT ![c] = r]

Opened(c, hs) == open' = [open EXCEPT ![c] = @ \cup hs]

\* The locals of a call are gone when it has returned.
Forget(c) ==
  /\ flags' = [flags EXCEPT ![c] = NoFlags]
  /\ image' = [image EXCEPT ![c] = "win32"]
  /\ binary' = [binary EXCEPT ![c] = "none"]
  /\ task' = [task EXCEPT ![c] = NoTask]
  /\ creation' = [creation EXCEPT ![c] = {}]
  /\ Result(c, "unset")

\* Result = FALSE; goto Quickie, with everything else as it is.
Fail(c) ==
  /\ Go(c, "quickie")
  /\ Result(c, "FALSE")
  /\ UNCHANGED <<windows, flags, image, binary, task, creation, open, process, ret, given,
                 record, serving>>

MayFail(c, step) == step \in Fails /\ Fail(c)

\* IsWowTaskReady in the data CSRSS shows to everyone.
IsWowTaskReady == record[Wow] \in {"busy", "ready"}

\* On XP the loader is all of CreateProcess; later it is only the branch
\* for DOS programs, and the other 16-bit ones are not its concern.
Known(r) ==
  /\ windows = "XP" \/ (r.image \in {"win32", "dos"} /\ ~r.flags.forceDos)
  /\ r.flags.detached => windows \in Detaching

----------------------------------------------------------------------------
Call(c) ==
  /\ pc[c] \in {"idle", "done"}
  /\ \E r \in Calls :
       /\ Known(r)
       /\ flags' = [flags EXCEPT ![c] = r.flags]
       /\ image' = [image EXCEPT ![c] = r.image]
  /\ Go(c, "open")
  /\ open' = [open EXCEPT ![c] = {}]
  /\ process' = [process EXCEPT ![c] = "none"]
  /\ ret' = [ret EXCEPT ![c] = "none"]
  /\ given' = [given EXCEPT ![c] = {}]
  /\ UNCHANGED <<windows, binary, task, creation, result, record, serving>>

\* AppNameRetry: the file of the last round is closed, that of this one is
\* opened.
OpenImage(c) ==
  /\ pc[c] = "open"
  /\ \/ /\ Go(c, "section")
        /\ Opened(c, {"file"})
        /\ UNCHANGED <<windows, flags, image, binary, task, creation, process, result, ret, given,
                       record, serving>>
     \/ /\ "open" \in Fails
        /\ Go(c, "quickie")
        /\ Result(c, "FALSE")
        /\ open' = [open EXCEPT ![c] = @ \ {"file"}]
        /\ UNCHANGED <<windows, flags, image, binary, task, creation, process, ret, given,
                       record, serving>>

\* A Windows program forced into a DOS VDM while the shared Windows VDM is
\* there gets a separate Windows VDM instead.
Diverted(c) == image[c] = "win32" /\ flags[c].forceDos /\ IsWowTaskReady

CreateSection(c) ==
  /\ pc[c] = "section"
  /\ \/ /\ image[c] = "win32" /\ ~Diverted(c)
        /\ Go(c, "create")
        /\ Opened(c, {"section"})
        /\ UNCHANGED <<flags, image>>
     \/ /\ Diverted(c)
        /\ Go(c, "wow")
        /\ flags' = [flags EXCEPT ![c].forceDos = FALSE, ![c].separate = TRUE]
        /\ UNCHANGED <<image, open>>
     \/ /\ image[c] = "win16" /\ ~flags[c].forceDos
        /\ Go(c, "wow")
        /\ UNCHANGED <<flags, image, open>>
     \/ /\ image[c] = "dos" \/ (image[c] = "win16" /\ flags[c].forceDos)
        /\ Go(c, "dos")
        /\ UNCHANGED <<flags, image, open>>
     \/ /\ image[c] = "bat"
        /\ Go(c, "open")
        /\ image' = [image EXCEPT ![c] = "win32"]
        /\ UNCHANGED <<flags, open>>
  /\ UNCHANGED <<windows, binary, task, creation, process, result, ret, given, record, serving>>

\* What is allowed to be no section, or no image that can be run.
CreateSectionFails(c) == pc[c] = "section" /\ MayFail(c, "section")

----------------------------------------------------------------------------
(* CSRSS's answers to BasepCheckVDM, and what the creators do with them.   *)
FreeTasks ==
  {t \in Tasks : record[t] = "none" /\ \A d \in Creators : task[d] # t}

\* The task number under which CSRSS looks for the VDM of binary type b.
AskedTask(c, b) ==
  IF b = "SEPWOW" \/ (b = "DOS" /\ flags[c].newConsole) THEN FreeTasks ELSE {NoTask}

\* VDM_NOT_PRESENT: the record is made, and ntvdm.exe takes the program's
\* place.  BaseGetVdmConfigInfo can fail in between.
NotPresent(c, b, new) ==
  \E t \in AskedTask(c, b) :
    /\ record[PlaceOf(c, b, t)] = "none"
    /\ record' = [record EXCEPT ![PlaceOf(c, b, t)] = "loading"]
    /\ binary' = [binary EXCEPT ![c] = b]
    /\ task' = [task EXCEPT ![c] = t]
    /\ creation' = [creation EXCEPT ![c] = {"PARTIALLY"}]
    /\ flags' = [flags EXCEPT ![c] = new]
    /\ \/ /\ Go(c, "open")
          /\ image' = [image EXCEPT ![c] = "win32"]
          /\ Result(c, "TRUE")
       \/ /\ "config" \in Fails
          /\ Go(c, "quickie")
          /\ Result(c, "FALSE")
          /\ UNCHANGED image
    /\ UNCHANGED <<windows, open, process, ret, given, serving>>

\* VDM_PRESENT_AND_READY: the VDM there is given the program.
Ready(c, b) ==
  /\ AskedTask(c, b) = {NoTask}
  /\ record[PlaceOf(c, b, NoTask)] = "ready"
  /\ record' = [record EXCEPT ![PlaceOf(c, b, NoTask)] = "busy"]
  /\ Go(c, "short")
  /\ binary' = [binary EXCEPT ![c] = b]
  /\ task' = [task EXCEPT ![c] = NoTask]
  /\ creation' = [creation EXCEPT ![c] = {"REUSED"}]
  /\ Opened(c, {"wait"})
  /\ Result(c, "TRUE")
  /\ UNCHANGED <<windows, flags, image, process, ret, given, serving>>

\* VDM_PRESENT_NOT_READY: the call fails.
NotReady(c, b) ==
  /\ AskedTask(c, b) = {NoTask}
  /\ record[PlaceOf(c, b, NoTask)] \in {"loading", "busy"}
  /\ binary' = [binary EXCEPT ![c] = b]
  /\ Go(c, "quickie")
  /\ Result(c, "FALSE")
  /\ UNCHANGED <<windows, flags, image, task, creation, open, process, ret, given, record, serving>>

\* A 16-bit Windows program: shared or separate VDM, and a failed question
\* after the shared one is put again for a separate one.
WowBinary(c) == IF flags[c].separate THEN "SEPWOW" ELSE "WIN16"

CheckWow(c) ==
  /\ pc[c] = "wow"
  /\ \/ NotPresent(c, WowBinary(c), [flags[c] EXCEPT !.detached = FALSE, !.newConsole = FALSE])
     \/ Ready(c, WowBinary(c))
     \/ NotReady(c, WowBinary(c))

CheckWowFails(c) ==
  /\ pc[c] = "wow" /\ "check" \in Fails
  /\ binary' = [binary EXCEPT ![c] = WowBinary(c)]
  /\ \/ /\ ~flags[c].separate
        /\ flags' = [flags EXCEPT ![c].separate = TRUE]
        /\ UNCHANGED <<pc, result>>
     \/ /\ Go(c, "quickie")
        /\ Result(c, "FALSE")
        /\ UNCHANGED flags
  /\ UNCHANGED <<windows, image, task, creation, open, process, ret, given, record, serving>>

CheckDos(c) ==
  /\ pc[c] = "dos"
  /\ \/ ~flags[c].detached /\ NotPresent(c, "DOS", flags[c])
     \/ Ready(c, "DOS")
     \/ NotReady(c, "DOS")

CheckDosFails(c) == pc[c] = "dos" /\ MayFail(c, "check")

\* A detached DOS program and no VDM: the record has been made.  On XP the
\* call returns on the spot ...
BareReturn(c) ==
  /\ Go(c, "done")
  /\ Forget(c)
  /\ ret' = [ret EXCEPT ![c] = "FALSE"]

\* ... later BasepProcessInvalidImage returns it to a caller that cleans up.
InvalidDetached(c) ==
  /\ Go(c, "quickie")
  /\ Result(c, "FALSE")
  /\ binary' = [binary EXCEPT ![c] = "DOS"]
  /\ creation' = [creation EXCEPT ![c] = {"PARTIALLY"}]
  /\ UNCHANGED <<flags, image, ret>>

CheckDetached(c) ==
  /\ pc[c] = "dos" /\ flags[c].detached
  /\ \E t \in AskedTask(c, "DOS") :
       /\ record[PlaceOf(c, "DOS", t)] = "none"
       /\ record' = [record EXCEPT ![PlaceOf(c, "DOS", t)] = "loading"]
       /\ IF windows = "XP"
          THEN BareReturn(c)
          ELSE InvalidDetached(c) /\ task' = [task EXCEPT ![c] = t]
  /\ UNCHANGED <<windows, open, process, given, serving>>

----------------------------------------------------------------------------
(* The process.                                                            *)
CreateProcess(c) ==
  /\ pc[c] = "create"
  /\ Go(c, IF binary[c] = "none" THEN "thread" ELSE "update")
  /\ Opened(c, {"process"})
  /\ process' = [process EXCEPT ![c] = "empty"]
  /\ UNCHANGED <<windows, flags, image, binary, task, creation, result, ret, given, record, serving>>

\* The checks of the image before, and the priority class after.
CreateProcessFails(c) ==
  /\ pc[c] = "create"
  /\ \/ MayFail(c, "image")
     \/ /\ "priority" \in Fails
        /\ Go(c, "quickie")
        /\ Result(c, "FALSE")
        /\ Opened(c, {"process"})
        /\ process' = [process EXCEPT ![c] = "empty"]
        /\ UNCHANGED <<windows, flags, image, binary, task, creation, ret, given, record, serving>>

\* NtCreateProcessEx fails.  On XP the status is overwritten by that of
\* NtQueryInformationProcess, whose failure leaves Result as it was.
NoProcess(c) ==
  /\ pc[c] = "create" /\ windows \in OutOfProcesses
  /\ Go(c, "quickie")
  /\ IF windows = "XP" THEN UNCHANGED result ELSE Result(c, "FALSE")
  /\ UNCHANGED <<windows, flags, image, binary, task, creation, open, process, ret, given,
                 record, serving>>

\* UPDATE_VDM_PROCESS_HANDLE: CSRSS keeps the process and hands out an
\* object to wait for.
UpdateVDMEntry(c) ==
  /\ pc[c] = "update" /\ record[At(c)] = "loading"
  /\ Go(c, "thread")
  /\ Opened(c, {"wait"})
  /\ creation' = [creation EXCEPT ![c] = @ \cup {"FULLY"}]
  /\ Result(c, "TRUE")
  /\ UNCHANGED <<windows, flags, image, binary, task, process, ret, given, record, serving>>

UpdateVDMEntryFails(c) ==
  /\ pc[c] = "update"
  /\ "update" \in Fails \/ record[At(c)] # "loading"
  /\ Fail(c)

\* Parameters, stack and main thread.
CreateThread(c) ==
  /\ pc[c] = "thread"
  /\ Go(c, "accept")
  /\ Opened(c, {"thread"})
  /\ process' = [process EXCEPT ![c] = "suspended"]
  /\ Result(c, "TRUE")
  /\ UNCHANGED <<windows, flags, image, binary, task, creation, ret, given, record, serving>>

CreateThreadFails(c) == pc[c] = "thread" /\ MayFail(c, "thread")

\* BasepCreateProcess: CSRSS does not take the process, it is terminated.
AcceptFails(c) ==
  /\ pc[c] = "accept" /\ "accept" \in Fails
  /\ process' = [process EXCEPT ![c] = "dead"]
  /\ Go(c, "quickie")
  /\ Result(c, "FALSE")
  /\ UNCHANGED <<windows, flags, image, binary, task, creation, open, ret, given, record, serving>>

\* CSRSS takes it, and its thread is resumed.
Resume(c) ==
  /\ pc[c] = "accept"
  /\ Go(c, "short")
  /\ process' = [process EXCEPT ![c] = "running"]
  /\ serving' = IF binary[c] = "none" THEN serving ELSE serving \cup {At(c)}
  /\ UNCHANGED <<windows, flags, image, binary, task, creation, open, result, ret, given, record>>

----------------------------------------------------------------------------
(* The ends.                                                               *)
\* Variant: the process handle even of a VDM that was there before.
HandProcess(c) == open[c] \cap {"process", "thread"}

\* The handles the caller gets: of a VDM the object to wait for.
Handed(c) ==
  (open[c] \cap {"thread"}) \cup IF "wait" \in open[c] THEN {"wait"} ELSE {"process"}

ShortCircuit(c) ==
  /\ pc[c] = "short"
  /\ Go(c, "quickie")
  /\ Result(c, "TRUE")
  /\ creation' = [creation EXCEPT ![c] = IF @ = {} THEN {} ELSE @ \cup {"SUCCESSFUL"}]
  /\ given' = [given EXCEPT ![c] = Handed(c)]
  /\ open' = [open EXCEPT ![c] = @ \ {"process", "thread", "wait"}]
  /\ UNCHANGED <<windows, flags, image, binary, task, process, ret, record, serving>>

\* The call returns Result, or whatever the stack held where it is unset.
Return(c) ==
  /\ Go(c, "done")
  /\ \E r \in {"TRUE", "FALSE"} :
       /\ result[c] \in {"unset", r}
       /\ ret' = [ret EXCEPT ![c] = r]
  /\ Forget(c)

\* Variant: only what CSRSS knows the process of.
UndoFull(c) == "FULLY" \in creation[c] /\ "SUCCESSFUL" \notin creation[c]

ToUndo(c) == creation[c] # {} /\ "SUCCESSFUL" \notin creation[c]

\* A thread that is still there marks a failure: its process is ended.  A
\* process that never had one is gone with the last handle, and CSRSS has
\* one from the update to the undo.
Quickie(c) ==
  /\ pc[c] = "quickie"
  /\ open' = [open EXCEPT ![c] = @ \cap {"wait"}]
  /\ process' = [process EXCEPT ![c] =
                   IF "thread" \in open[c] \/ (@ = "empty" /\ "FULLY" \notin creation[c])
                   THEN "dead" ELSE @]
  /\ IF ToUndo(c)
     THEN Go(c, "undo") /\ UNCHANGED <<flags, image, binary, task, creation, result, ret>>
     ELSE Return(c)
  /\ UNCHANGED <<windows, given, record, serving>>

\* Variant: the object to wait for stays open.
UndoKeepWait(c) ==
  /\ pc[c] = "undo"
  /\ record' = [record EXCEPT ![At(c)] = "none"]
  /\ process' = [process EXCEPT ![c] = IF @ = "empty" THEN "dead" ELSE @]
  /\ Return(c)
  /\ UNCHANGED <<windows, open, given, serving>>

\* UPDATE_VDM_UNDO_CREATION.
Undo(c) ==
  /\ pc[c] = "undo"
  /\ record' = [record EXCEPT ![At(c)] = "none"]
  /\ open' = [open EXCEPT ![c] = @ \ {"wait"}]
  /\ process' = [process EXCEPT ![c] = IF @ = "empty" THEN "dead" ELSE @]
  /\ Return(c)
  /\ UNCHANGED <<windows, given, serving>>

----------------------------------------------------------------------------
(* The VDM: it takes the first program, is done with one and asks for the  *)
(* next, and ends.                                                         *)
VdmTakes(k) ==
  /\ k \in serving /\ record[k] = "loading"
  /\ record' = [record EXCEPT ![k] = "busy"]
  /\ UNCHANGED <<windows, pc, local, serving>>

VdmDone(k) ==
  /\ k \in serving /\ record[k] = "busy"
  /\ record' = [record EXCEPT ![k] = "ready"]
  /\ UNCHANGED <<windows, pc, local, serving>>

VdmExits(k) ==
  /\ k \in serving
  /\ record' = [record EXCEPT ![k] = "none"]
  /\ serving' = serving \ {k}
  /\ UNCHANGED <<windows, pc, local>>

Step(c) ==
  \/ OpenImage(c) \/ CreateSection(c) \/ CreateSectionFails(c)
  \/ CheckWow(c) \/ CheckWowFails(c)
  \/ CheckDos(c) \/ CheckDosFails(c) \/ CheckDetached(c)
  \/ CreateProcess(c) \/ CreateProcessFails(c) \/ NoProcess(c)
  \/ UpdateVDMEntry(c) \/ UpdateVDMEntryFails(c)
  \/ CreateThread(c) \/ CreateThreadFails(c)
  \/ AcceptFails(c) \/ Resume(c)
  \/ ShortCircuit(c) \/ Quickie(c) \/ Undo(c)

Next ==
  \/ \E c \in Creators : Call(c) \/ Step(c)
  \/ \E k \in Places : VdmTakes(k) \/ VdmDone(k) \/ VdmExits(k)

Spec == Init /\ [][Next]_vars

\* A creator's thread goes on, and CSRSS answers.  Nothing makes a creator
\* call, or a VDM do anything.
Fairness == \A c \in Creators : WF_vars(Step(c))

FairSpec == Spec /\ Fairness

----------------------------------------------------------------------------
(* Properties.                                                             *)

\* c has a record of its own in CSRSS and has not yet got its VDM to run,
\* nor taken the record back.
Starting(c) ==
  /\ pc[c] \notin {"idle", "short", "done"}
  /\ creation[c] # {} /\ "REUSED" \notin creation[c] /\ "SUCCESSFUL" \notin creation[c]

\* A record that waits for its VDM has one, or a creator that is at work on
\* it.  An orphan would answer every later program there with NOT_READY.
NoOrphan ==
  \A k \in Places : record[k] = "loading" =>
     k \in serving \/ \E c \in Creators : Starting(c) /\ At(c) = k

\* Two creators never start a VDM at one place.
OneStarter ==
  \A c, d \in Creators : Starting(c) /\ Starting(d) /\ At(c) = At(d) => c = d

\* No undo takes away the record of a VDM that runs.
ServedIsKnown == \A k \in serving : record[k] # "none"

\* A call that fails leaves neither a handle nor a process behind, and one
\* that succeeds has handed over all it had.
NothingLeft ==
  \A c \in Creators : pc[c] = "done" =>
    /\ open[c] = {}
    /\ ret[c] = "FALSE" => given[c] = {} /\ process[c] \in {"none", "dead"}

\* The caller that is told of success has something to wait for.
SuccessIsReal ==
  \A c \in Creators : ret[c] = "TRUE" => given[c] \cap {"process", "wait"} # {}

\* A place at which a VDM is being loaded gets it or becomes free.
LoadingEnds ==
  \A k \in Places : record[k] = "loading" ~> (k \in serving \/ record[k] # "loading")

\* The creators implement what launching promises.
stage == [k \in Places |->
            IF k \in serving THEN "serving" ELSE
            IF record[k] = "loading" THEN "starting" ELSE "free"]
launching == [c \in Creators |-> IF Starting(c) THEN At(c) ELSE NoPlace]
Outcome(c) ==
  CASE pc[c] = "idle" -> "idle"
    [] pc[c] = "short" -> "ok"
    [] pc[c] = "quickie" /\ (given[c] # {} \/ "SUCCESSFUL" \in creation[c]) -> "ok"
    [] pc[c] = "done" -> IF ret[c] = "TRUE" THEN "ok" ELSE "failed"
    [] OTHER -> "working"
outcome == [c \in Creators |-> Outcome(c)]
Launch == INSTANCE VdmLaunch
Launches == Launch!Spec
=============================================================================
