-------------------------- MODULE VdmCreateProofs ---------------------------
(***************************************************************************)
(* Proofs about VdmCreate, for any number of creators, consoles and task   *)
(* numbers, with any of the failures, where no call is left without the    *)
(* undo (NoBareReturn) and no DOS program is forced into a DOS VDM         *)
(* (DosNotForced); the runs of VdmDetached.cfg and VdmForced.cfg show what *)
(* the two let happen.                                                     *)
(*                                                                         *)
(* NoOrphan is not inductive: that a creator which gives its record up     *)
(* leaves none behind depends on its flags in VDMCreationState telling the *)
(* truth, in every round through AppNameRetry.  Local says what they mean  *)
(* at each step; Shared, that the creators' records are their own.         *)
(***************************************************************************)
EXTENDS VdmCreate, TLAPS

\* No detached DOS program on XP: CreateProcess would leave its record.
NoBareReturn == ~("XP" \in Windows /\ "XP" \in Detaching)

\* CREATE_FORCEDOS comes with Windows programs and batch files only.
DosNotForced == \A r \in Calls : r.flags.forceDos => r.image \in {"win32", "bat"}

\* What VDMCreationState and the locals beside it mean at each step.
Local(c) ==
  /\ pc[c] \in {"idle", "done"} => creation[c] = {} /\ binary[c] = "none"
  /\ pc[c] \in {"open", "section"} =>
       /\ image[c] # "win32" \/ flags[c].forceDos => creation[c] = {}
       /\ image[c] \in {"dos", "win16"} => ~flags[c].forceDos
  /\ pc[c] \in {"wow", "dos"} => creation[c] = {} /\ ~flags[c].forceDos
  /\ pc[c] \in {"open", "section", "create", "update", "thread", "accept"} =>
       /\ creation[c] = {} <=> binary[c] = "none"
       /\ creation[c] \subseteq {"PARTIALLY", "FULLY"}
  /\ pc[c] = "update" => binary[c] # "none"
  /\ pc[c] = "quickie" /\ "REUSED" \in creation[c] => "SUCCESSFUL" \in creation[c]
  /\ pc[c] = "undo" => Starting(c)
  /\ flags[c].detached => windows \in Detaching

\* A creator's record is its own, and waits for a VDM.
Shared ==
  /\ \A c \in Creators : Starting(c) => record[At(c)] = "loading" /\ At(c) \notin serving
  /\ OneStarter
  /\ NoOrphan
  /\ ServedIsKnown

IInv ==
  /\ TypeOK
  /\ windows \in Windows
  /\ \A c \in Creators : Local(c)
  /\ Shared

LEMMA PlaceOfType ==
  ASSUME NEW c \in Creators, NEW b, NEW t \in Tasks \cup {NoTask}
  PROVE  PlaceOf(c, b, t) \in Places
BY PlacesAreApart DEF PlaceOf, Places

LEMMA InitType == Init => TypeOK
BY VersionsAreKnown DEF Init, TypeOK, NoFlags, Flags, Images, Binaries

LEMMA ForgetType ==
  ASSUME TypeOK, NEW c \in Creators, Forget(c)
  PROVE  /\ flags' \in [Creators -> Flags]
         /\ image' \in [Creators -> Images]
         /\ binary' \in [Creators -> Binaries]
         /\ task' \in [Creators -> Tasks \cup {NoTask}]
         /\ creation' \in [Creators -> SUBSET {"PARTIALLY", "FULLY", "REUSED", "SUCCESSFUL"}]
         /\ result' \in [Creators -> {"unset", "TRUE", "FALSE"}]
BY DEF TypeOK, Forget, Result, NoFlags, Flags, Images, Binaries

LEMMA FailType ==
  ASSUME TypeOK, NEW c \in Creators, Fail(c)
  PROVE  TypeOK'
BY DEF TypeOK, Fail, Go, Result

\* What the checks do to dwCreationFlags.
LEMMA FlagsType ==
  ASSUME NEW f \in Flags
  PROVE  /\ [f EXCEPT !.separate = TRUE] \in Flags
         /\ [f EXCEPT !.forceDos = FALSE, !.separate = TRUE] \in Flags
         /\ [f EXCEPT !.detached = FALSE, !.newConsole = FALSE] \in Flags
BY DEF Flags

LEMMA NotPresentType ==
  ASSUME TypeOK, NEW c \in Creators, NEW b \in Binaries \ {"none"}, NEW new \in Flags,
         NotPresent(c, b, new)
  PROVE  TypeOK'
<1>1. PICK t \in AskedTask(c, b) :
        /\ record' = [record EXCEPT ![PlaceOf(c, b, t)] = "loading"]
        /\ task' = [task EXCEPT ![c] = t]
        /\ binary' = [binary EXCEPT ![c] = b]
        /\ creation' = [creation EXCEPT ![c] = {"PARTIALLY"}]
        /\ flags' = [flags EXCEPT ![c] = new]
        /\ \/ /\ Go(c, "open")
              /\ image' = [image EXCEPT ![c] = "win32"]
              /\ Result(c, "TRUE")
           \/ /\ Go(c, "quickie")
              /\ Result(c, "FALSE")
              /\ UNCHANGED image
        /\ UNCHANGED <<windows, open, process, ret, given, serving>>
  BY DEF NotPresent
<1>2. t \in Tasks \cup {NoTask}
  BY DEF AskedTask, FreeTasks
<1> QED BY <1>1, <1>2 DEF TypeOK, Go, Result, Images

LEMMA ReadyType ==
  ASSUME TypeOK, NEW c \in Creators, NEW b \in Binaries \ {"none"},
         Ready(c, b) \/ NotReady(c, b)
  PROVE  TypeOK'
BY DEF TypeOK, Ready, NotReady, Go, Result, Opened

LEMMA StepType ==
  ASSUME TypeOK, NEW c \in Creators, Step(c)
  PROVE  TypeOK'
<1>0. ASSUME Forget(c)
      PROVE  /\ flags' \in [Creators -> Flags]
             /\ image' \in [Creators -> Images]
             /\ binary' \in [Creators -> Binaries]
             /\ task' \in [Creators -> Tasks \cup {NoTask}]
             /\ creation' \in [Creators -> SUBSET {"PARTIALLY", "FULLY", "REUSED", "SUCCESSFUL"}]
             /\ result' \in [Creators -> {"unset", "TRUE", "FALSE"}]
  BY <1>0, ForgetType
<1> USE DEF TypeOK, Go, Result, Opened, Binaries, Images
<1>1. ASSUME OpenImage(c) PROVE TypeOK'
  BY <1>1 DEF OpenImage
<1>2. ASSUME CreateSection(c) PROVE TypeOK'
  <2>1. \/ UNCHANGED flags
        \/ flags' = [flags EXCEPT ![c] = [flags[c] EXCEPT !.forceDos = FALSE, !.separate = TRUE]]
    BY <1>2 DEF CreateSection
  <2>2. /\ flags \in [Creators -> Flags] /\ flags[c] \in Flags
        /\ [flags[c] EXCEPT !.separate = TRUE] \in Flags
        /\ [flags[c] EXCEPT !.forceDos = FALSE, !.separate = TRUE] \in Flags
    BY FlagsType
  <2>3. flags' \in [Creators -> Flags]
    BY <2>1, <2>2, SMTT(20)
  <2> QED BY <1>2, <2>3 DEF CreateSection
<1>3. ASSUME CreateSectionFails(c) \/ CheckDosFails(c) \/ CreateThreadFails(c) \/ UpdateVDMEntryFails(c)
      PROVE TypeOK'
  BY <1>3, FailType DEF CreateSectionFails, CheckDosFails, CreateThreadFails, UpdateVDMEntryFails, MayFail
<1>5. ASSUME CheckWow(c) PROVE TypeOK'
  <2>1. WowBinary(c) \in Binaries \ {"none"}
    BY DEF WowBinary
  <2>2. [flags[c] EXCEPT !.detached = FALSE, !.newConsole = FALSE] \in Flags
    BY FlagsType
  <2> HIDE DEF TypeOK
  <2> QED BY <1>5, <2>1, <2>2, NotPresentType, ReadyType DEF CheckWow
<1>6. ASSUME CheckWowFails(c) PROVE TypeOK'
  <2>1. \E f \in Flags : flags' = [flags EXCEPT ![c] = f]
    <3>1. [flags[c] EXCEPT !.separate = TRUE] \in Flags
      BY FlagsType
    <3>2. CASE flags' = [flags EXCEPT ![c] = [flags[c] EXCEPT !.separate = TRUE]]
      BY <3>1, <3>2
    <3>3. CASE UNCHANGED flags
      <4>1. flags' = [flags EXCEPT ![c] = flags[c]]
        BY <3>3
      <4> QED BY <4>1
    <3> QED BY <1>6, <3>2, <3>3 DEF CheckWowFails
  <2>2. flags' \in [Creators -> Flags]
    BY <2>1
  <2> QED BY <1>6, <2>2 DEF CheckWowFails, WowBinary
<1>7. ASSUME CheckDos(c) PROVE TypeOK'
  <2>1. flags[c] \in Flags /\ "DOS" \in Binaries \ {"none"}
    OBVIOUS
  <2> HIDE DEF TypeOK
  <2> QED BY <1>7, <2>1, NotPresentType, ReadyType DEF CheckDos
<1>8. ASSUME CheckDetached(c) PROVE TypeOK'
  <2>1. PICK t \in AskedTask(c, "DOS") :
          /\ record' = [record EXCEPT ![PlaceOf(c, "DOS", t)] = "loading"]
          /\ IF windows = "XP"
             THEN BareReturn(c)
             ELSE InvalidDetached(c) /\ task' = [task EXCEPT ![c] = t]
    BY <1>8 DEF CheckDetached
  <2>2. t \in Tasks \cup {NoTask}
    BY DEF AskedTask, FreeTasks
  <2>3. UNCHANGED <<windows, open, process, given, serving>>
    BY <1>8 DEF CheckDetached
  <2>4. record' \in [Places -> {"none", "loading", "busy", "ready"}]
    BY <2>1
  <2>5. CASE windows = "XP"
    <3>1. Forget(c) /\ pc' = [pc EXCEPT ![c] = "done"] /\ ret' = [ret EXCEPT ![c] = "FALSE"]
      BY <2>1, <2>5 DEF BareReturn
    <3> QED BY <1>0, <2>3, <2>4, <3>1
  <2>6. CASE windows # "XP"
    <3>1. /\ pc' = [pc EXCEPT ![c] = "quickie"]
          /\ result' = [result EXCEPT ![c] = "FALSE"]
          /\ binary' = [binary EXCEPT ![c] = "DOS"]
          /\ creation' = [creation EXCEPT ![c] = {"PARTIALLY"}]
          /\ task' = [task EXCEPT ![c] = t]
          /\ UNCHANGED <<flags, image, ret>>
      BY <2>1, <2>6 DEF InvalidDetached
    <3> QED BY <2>2, <2>3, <2>4, <3>1
  <2> QED BY <2>5, <2>6
<1>10. ASSUME CreateProcess(c) PROVE TypeOK'
  BY <1>10 DEF CreateProcess
<1>11. ASSUME CreateProcessFails(c) PROVE TypeOK'
  BY <1>11, FailType DEF CreateProcessFails, MayFail
<1>12. ASSUME NoProcess(c) PROVE TypeOK'
  BY <1>12 DEF NoProcess
<1>13. ASSUME UpdateVDMEntry(c) PROVE TypeOK'
  BY <1>13 DEF UpdateVDMEntry
<1>14. ASSUME CreateThread(c) PROVE TypeOK'
  BY <1>14 DEF CreateThread
<1>15. ASSUME AcceptFails(c) PROVE TypeOK'
  BY <1>15 DEF AcceptFails
<1>16. ASSUME Resume(c) PROVE TypeOK'
  BY <1>16, PlaceOfType DEF Resume, At
<1>17. ASSUME ShortCircuit(c) PROVE TypeOK'
  BY <1>17 DEF ShortCircuit, Handed
<1>18. ASSUME Quickie(c) PROVE TypeOK'
  BY <1>0, <1>18 DEF Quickie, Return
<1>19. ASSUME Undo(c) PROVE TypeOK'
  <2>1. At(c) \in Places
    BY PlaceOfType DEF At
  <2>2. record' \in [Places -> {"none", "loading", "busy", "ready"}]
    BY <1>19, <2>1 DEF Undo
  <2>3. ret' \in [Creators -> {"none", "TRUE", "FALSE"}]
    BY <1>19 DEF Undo, Return
  <2>4. Forget(c) /\ pc' = [pc EXCEPT ![c] = "done"]
    BY <1>19 DEF Undo, Return
  <2>5. /\ process' \in [Creators -> {"none", "empty", "suspended", "running", "dead"}]
        /\ open' \in [Creators -> SUBSET {"file", "section", "process", "thread", "wait"}]
        /\ UNCHANGED <<windows, given, serving>>
    BY <1>19 DEF Undo
  <2> QED BY <1>0, <2>2, <2>3, <2>4, <2>5
<1> HIDE DEF TypeOK
<1> QED
  BY <1>1, <1>2, <1>3, <1>5, <1>6, <1>7, <1>8, <1>10, <1>11, <1>12, <1>13, <1>14, <1>15,
     <1>16, <1>17, <1>18, <1>19 DEF Step

LEMMA NextType == TypeOK /\ [Next]_vars => TypeOK'
<1> SUFFICES ASSUME TypeOK, [Next]_vars PROVE TypeOK'
  OBVIOUS
<1>1. ASSUME NEW c \in Creators, Call(c) PROVE TypeOK'
  BY <1>1, CallsAreCalls DEF TypeOK, Call, Go
<1>2. ASSUME NEW k \in Places, VdmTakes(k) \/ VdmDone(k) \/ VdmExits(k) PROVE TypeOK'
  BY <1>2 DEF TypeOK, VdmTakes, VdmDone, VdmExits, local
<1>3. CASE UNCHANGED vars
  BY <1>3 DEF vars, local, TypeOK
<1> QED BY <1>1, <1>2, <1>3, StepType DEF Next
-----------------------------------------------------------------------------
(* The kinds of steps a creator takes, as CSRSS sees them.                 *)
Others(c) ==
  /\ windows' = windows
  /\ \A d \in Creators \ {c} :
       /\ pc'[d] = pc[d] /\ creation'[d] = creation[d] /\ binary'[d] = binary[d]
       /\ task'[d] = task[d] /\ image'[d] = image[d] /\ flags'[d] = flags[d]

Quiet(c) ==
  /\ UNCHANGED <<record, serving>>
  /\ Starting(c)' <=> Starting(c)
  /\ Starting(c) => At(c)' = At(c)

Begins(c) ==
  /\ ~Starting(c) /\ Starting(c)'
  /\ record[At(c)'] = "none"
  /\ record' = [record EXCEPT ![At(c)'] = "loading"]
  /\ UNCHANGED serving

Reuses(c) ==
  /\ ~Starting(c) /\ ~Starting(c)'
  /\ \E k \in Places : record[k] = "ready" /\ record' = [record EXCEPT ![k] = "busy"]
  /\ UNCHANGED serving

TakesBack(c) ==
  /\ Starting(c) /\ ~Starting(c)'
  /\ record' = [record EXCEPT ![At(c)] = "none"]
  /\ UNCHANGED serving

Serves(c) ==
  /\ Starting(c) /\ ~Starting(c)'
  /\ serving' = serving \cup {At(c)}
  /\ UNCHANGED record

\* The other creators are where they were.
LEMMA OthersStay ==
  ASSUME NEW c \in Creators, Others(c), NEW d \in Creators \ {c}
  PROVE  /\ Starting(d)' <=> Starting(d)
         /\ At(d)' = At(d)
         /\ Local(d) => Local(d)'
<1>1. Starting(d)' <=> Starting(d)
  BY DEF Others, Starting
<1>2. At(d)' = At(d)
  BY DEF Others, At, PlaceOf
<1>3. Local(d) => Local(d)'
  BY <1>1 DEF Others, Local
<1> QED BY <1>1, <1>2, <1>3

\* Every kind of step keeps the records their creators' own.
LEMMA SharedStep ==
  ASSUME TypeOK, TypeOK', Shared, NEW c \in Creators, Others(c),
         Quiet(c) \/ Begins(c) \/ Reuses(c) \/ TakesBack(c) \/ Serves(c)
  PROVE  Shared'
<1> DEFINE S(d) == Starting(d)
           A(d) == At(d)
<1>1. \A d \in Creators : A(d) \in Places /\ A(d)' \in Places
  <2>1. \A d \in Creators : task[d] \in Tasks \cup {NoTask} /\ task'[d] \in Tasks \cup {NoTask}
    BY DEF TypeOK
  <2> QED BY <2>1, PlaceOfType DEF At
<1>2. \A d \in Creators : d # c => (S(d)' <=> S(d)) /\ A(d)' = A(d)
  BY OthersStay
<1>3. /\ \A d \in Creators : S(d) => record[A(d)] = "loading" /\ A(d) \notin serving
      /\ \A d, e \in Creators : S(d) /\ S(e) /\ A(d) = A(e) => d = e
      /\ \A k \in Places : record[k] = "loading" =>
            k \in serving \/ \E d \in Creators : S(d) /\ A(d) = k
      /\ \A k \in serving : record[k] # "none"
  BY DEF Shared, OneStarter, NoOrphan, ServedIsKnown
<1>4. /\ record \in [Places -> {"none", "loading", "busy", "ready"}]
      /\ serving \subseteq Places
  BY DEF TypeOK
<1> DEFINE Goal ==
       /\ \A d \in Creators : S(d)' => record'[A(d)'] = "loading" /\ A(d)' \notin serving'
       /\ \A d, e \in Creators : S(d)' /\ S(e)' /\ A(d)' = A(e)' => d = e
       /\ \A k \in Places : record'[k] = "loading" =>
             k \in serving' \/ \E d \in Creators : S(d)' /\ A(d)' = k
       /\ \A k \in serving' : record'[k] # "none"
<1>5. CASE Quiet(c)
  <2>1. UNCHANGED <<record, serving>> /\ (S(c)' <=> S(c)) /\ (S(c) => A(c)' = A(c))
    BY <1>5 DEF Quiet
  <2> HIDE DEF S, A
  <2>2. Goal
    BY <1>1, <1>2, <1>3, <1>4, <2>1
  <2> QED BY <2>2 DEF Shared, OneStarter, NoOrphan, ServedIsKnown, S, A
<1>6. CASE Begins(c)
  <2>1. /\ ~S(c) /\ S(c)' /\ record[A(c)'] = "none" /\ serving' = serving
        /\ record' = [record EXCEPT ![A(c)'] = "loading"]
    BY <1>6 DEF Begins
  <2> HIDE DEF S, A
  <2>2. Goal
    BY <1>1, <1>2, <1>3, <1>4, <2>1
  <2> QED BY <2>2 DEF Shared, OneStarter, NoOrphan, ServedIsKnown, S, A
<1>7. CASE Reuses(c)
  <2>1. /\ ~S(c) /\ ~S(c)' /\ serving' = serving
        /\ \E k \in Places : record[k] = "ready" /\ record' = [record EXCEPT ![k] = "busy"]
    BY <1>7 DEF Reuses
  <2> HIDE DEF S, A
  <2>2. Goal
    BY <1>1, <1>2, <1>3, <1>4, <2>1
  <2> QED BY <2>2 DEF Shared, OneStarter, NoOrphan, ServedIsKnown, S, A
<1>8. CASE TakesBack(c)
  <2>1. /\ S(c) /\ ~S(c)' /\ serving' = serving
        /\ record' = [record EXCEPT ![A(c)] = "none"]
    BY <1>8 DEF TakesBack
  <2> HIDE DEF S, A
  <2>2. Goal
    BY <1>1, <1>2, <1>3, <1>4, <2>1
  <2> QED BY <2>2 DEF Shared, OneStarter, NoOrphan, ServedIsKnown, S, A
<1>9. CASE Serves(c)
  <2>1. /\ S(c) /\ ~S(c)' /\ record' = record
        /\ serving' = serving \cup {A(c)}
    BY <1>9 DEF Serves
  <2> HIDE DEF S, A
  <2>2. Goal
    BY <1>1, <1>2, <1>3, <1>4, <2>1
  <2> QED BY <2>2 DEF Shared, OneStarter, NoOrphan, ServedIsKnown, S, A
<1> QED BY <1>5, <1>6, <1>7, <1>8, <1>9

\* A step leaves the other creators alone.
LEMMA StepOthers ==
  ASSUME TypeOK, NEW c \in Creators, Call(c) \/ Step(c)
  PROVE  Others(c)
<1> USE DEF TypeOK, Others, Go, Result, Fail, MayFail, Forget, Return
<1>1. ASSUME Call(c) PROVE Others(c)
  BY <1>1 DEF Call
<1>2. ASSUME OpenImage(c) \/ CreateSectionFails(c) \/ CheckDosFails(c) \/ CreateProcess(c) PROVE Others(c)
  BY <1>2 DEF OpenImage, CreateSectionFails, CheckDosFails, CreateProcess
<1>3. ASSUME CreateSection(c) PROVE Others(c)
  BY <1>3 DEF CreateSection
<1>4. ASSUME CheckWow(c) \/ CheckDos(c) PROVE Others(c)
  <2>1. ASSUME NEW b, NEW new, NotPresent(c, b, new) PROVE Others(c)
    BY <2>1 DEF NotPresent
  <2>2. ASSUME NEW b, Ready(c, b) \/ NotReady(c, b) PROVE Others(c)
    BY <2>2 DEF Ready, NotReady
  <2> QED BY <1>4, <2>1, <2>2 DEF CheckWow, CheckDos
<1>5. ASSUME CheckWowFails(c) PROVE Others(c)
  BY <1>5 DEF CheckWowFails
<1>6. ASSUME CheckDetached(c) PROVE Others(c)
  BY <1>6 DEF CheckDetached, BareReturn, InvalidDetached
<1>7. ASSUME \/ CreateProcessFails(c) \/ NoProcess(c)
             \/ UpdateVDMEntry(c) \/ UpdateVDMEntryFails(c)
      PROVE Others(c)
  BY <1>7 DEF CreateProcessFails, NoProcess, UpdateVDMEntry, UpdateVDMEntryFails
<1>8. ASSUME \/ CreateThread(c) \/ CreateThreadFails(c)
             \/ AcceptFails(c) \/ Resume(c) \/ ShortCircuit(c)
      PROVE Others(c)
  BY <1>8 DEF CreateThread, CreateThreadFails, AcceptFails, Resume, ShortCircuit
<1>9. ASSUME Quickie(c) \/ Undo(c) PROVE Others(c)
  BY <1>9 DEF Quickie, Undo
<1> QED BY <1>1, <1>2, <1>3, <1>4, <1>5, <1>6, <1>7, <1>8, <1>9 DEF Step

\* NotPresent makes the creator one that is starting a VDM.
LEMMA NotPresentKind ==
  ASSUME TypeOK, NEW c \in Creators, NEW b, NEW new, NotPresent(c, b, new),
         pc[c] \in {"wow", "dos"}, creation[c] = {}
  PROVE  Begins(c)
<1>1. PICK t \in AskedTask(c, b) :
        /\ record[PlaceOf(c, b, t)] = "none"
        /\ record' = [record EXCEPT ![PlaceOf(c, b, t)] = "loading"]
        /\ binary' = [binary EXCEPT ![c] = b]
        /\ task' = [task EXCEPT ![c] = t]
        /\ creation' = [creation EXCEPT ![c] = {"PARTIALLY"}]
        /\ pc' = [pc EXCEPT ![c] = "open"] \/ pc' = [pc EXCEPT ![c] = "quickie"]
        /\ serving' = serving
  BY DEF NotPresent, Go
<1>2. At(c)' = PlaceOf(c, b, t)
  BY <1>1 DEF At, TypeOK, PlaceOf
<1>3. ~Starting(c) /\ Starting(c)'
  BY <1>1 DEF Starting, TypeOK
<1> QED BY <1>1, <1>2, <1>3 DEF Begins

LEMMA ReadyKind ==
  ASSUME TypeOK, NEW c \in Creators, NEW b,
         pc[c] \in {"wow", "dos"}, creation[c] = {}
  PROVE  /\ Ready(c, b) => Reuses(c)
         /\ NotReady(c, b) => Quiet(c)
<1>1. ASSUME Ready(c, b) PROVE Reuses(c)
  <2>1. NoTask \in Tasks \cup {NoTask} /\ PlaceOf(c, b, NoTask) \in Places
    BY PlaceOfType
  <2>2. ~Starting(c) /\ ~Starting(c)'
    BY <1>1 DEF Ready, Starting, TypeOK, Go
  <2> QED BY <1>1, <2>1, <2>2 DEF Ready, Reuses
<1>2. ASSUME NotReady(c, b) PROVE Quiet(c)
  BY <1>2 DEF NotReady, Quiet, Starting, TypeOK, Go
<1> QED BY <1>1, <1>2

\* What each step of a creator is to CSRSS.
LEMMA StepKind ==
  ASSUME TypeOK, NEW c \in Creators, Local(c), Step(c),
         NoBareReturn, windows \in Windows
  PROVE  Quiet(c) \/ Begins(c) \/ Reuses(c) \/ TakesBack(c) \/ Serves(c)
<1> USE DEF TypeOK, Go, Result, Fail, MayFail, Starting
<1>1. ASSUME \/ OpenImage(c) \/ CreateSection(c) \/ CreateSectionFails(c)
             \/ CheckDosFails(c) \/ CreateProcess(c)
      PROVE  Quiet(c)
  BY <1>1 DEF OpenImage, CreateSection, CreateSectionFails, CheckDosFails, CreateProcess,
     Quiet, At
<1>2. ASSUME CheckWow(c) \/ CheckDos(c) PROVE Begins(c) \/ Reuses(c) \/ Quiet(c)
  <2>1. pc[c] \in {"wow", "dos"} /\ creation[c] = {}
    BY <1>2 DEF CheckWow, CheckDos, Local
  <2> HIDE DEF TypeOK
  <2> QED BY <1>2, <2>1, NotPresentKind, ReadyKind DEF CheckWow, CheckDos
<1>3. ASSUME CheckWowFails(c) PROVE Quiet(c)
  BY <1>3 DEF CheckWowFails, Local, Quiet
<1>4. ASSUME CheckDetached(c) PROVE Begins(c)
  <2>1. PICK t \in AskedTask(c, "DOS") :
          /\ record[PlaceOf(c, "DOS", t)] = "none"
          /\ record' = [record EXCEPT ![PlaceOf(c, "DOS", t)] = "loading"]
          /\ InvalidDetached(c) /\ task' = [task EXCEPT ![c] = t]
    BY <1>4 DEF CheckDetached, NoBareReturn, Local
  <2>2. At(c)' = PlaceOf(c, "DOS", t)
    BY <2>1 DEF At, PlaceOf, InvalidDetached
  <2>3. ~Starting(c) /\ Starting(c)' /\ UNCHANGED serving
    BY <1>4, <2>1 DEF InvalidDetached, Local, CheckDetached
  <2> QED BY <2>1, <2>2, <2>3 DEF Begins
<1>5. ASSUME \/ CreateProcessFails(c) \/ NoProcess(c) \/ UpdateVDMEntryFails(c)
             \/ CreateThread(c) \/ CreateThreadFails(c) \/ AcceptFails(c)
      PROVE Quiet(c)
  BY <1>5 DEF CreateProcessFails, NoProcess, UpdateVDMEntryFails,
     CreateThread, CreateThreadFails, AcceptFails, Quiet, At
<1>10. ASSUME UpdateVDMEntry(c) PROVE Quiet(c)
  <2>1. /\ creation' = [creation EXCEPT ![c] = creation[c] \cup {"FULLY"}]
        /\ pc[c] = "update" /\ pc' = [pc EXCEPT ![c] = "thread"]
        /\ UNCHANGED <<record, serving, binary, task>>
    BY <1>10 DEF UpdateVDMEntry
  <2>2. creation[c] # {} => creation[c] \cup {"FULLY"} # {}
    OBVIOUS
  <2> QED BY <2>1, <2>2 DEF Quiet, At, Local
<1>6. ASSUME Resume(c) PROVE Quiet(c) \/ Serves(c)
  BY <1>6 DEF Resume, Local, Quiet, Serves
<1>7. ASSUME ShortCircuit(c) PROVE Quiet(c)
  BY <1>7 DEF ShortCircuit, Quiet
<1>8. ASSUME Quickie(c) PROVE Quiet(c)
  BY <1>8 DEF Quickie, ToUndo, Return, Forget, Quiet, Local, At
<1>9. ASSUME Undo(c) PROVE TakesBack(c)
  BY <1>9 DEF Undo, Return, Forget, TakesBack, Local
<1> QED BY <1>1, <1>2, <1>3, <1>4, <1>5, <1>6, <1>7, <1>8, <1>9, <1>10 DEF Step

\* A step keeps the meaning of its creator's VDMCreationState.
LEMMA StepLocal ==
  ASSUME TypeOK, NEW c \in Creators, Local(c), Step(c),
         NoBareReturn, windows \in Windows
  PROVE  Local(c)'
<1> USE DEF TypeOK, Go, Result, Fail, MayFail, Local, Starting
<1>1. ASSUME OpenImage(c) \/ CreateSectionFails(c) \/ CheckDosFails(c) \/ CreateProcess(c)
      PROVE  Local(c)'
  BY <1>1 DEF OpenImage, CreateSectionFails, CheckDosFails, CreateProcess
<1>2. ASSUME CreateSection(c) PROVE Local(c)'
  <2>1. /\ pc[c] = "section"
        /\ \/ flags' = flags /\ ~Diverted(c)
           \/ /\ pc' = [pc EXCEPT ![c] = "wow"] /\ image' = image /\ Diverted(c)
              /\ flags' = [flags EXCEPT ![c] = [flags[c] EXCEPT !.forceDos = FALSE, !.separate = TRUE]]
        /\ UNCHANGED <<windows, binary, task, creation>>
    BY <1>2 DEF CreateSection, Diverted
  <2>2. CASE flags' = flags /\ ~Diverted(c)
    BY <1>2, <2>1, <2>2 DEF CreateSection, Diverted
  <2>3. CASE Diverted(c)
    <3>1. /\ pc'[c] = "wow" /\ image'[c] = "win32" /\ creation[c] = {}
          /\ flags'[c] = [flags[c] EXCEPT !.forceDos = FALSE, !.separate = TRUE]
      BY <2>1, <2>3 DEF Diverted
    <3>2. flags'[c].forceDos = FALSE /\ flags'[c].detached = flags[c].detached
      BY <3>1 DEF Flags
    <3> QED BY <2>1, <3>1, <3>2
  <2> QED BY <2>1, <2>2, <2>3
<1>3. ASSUME CheckWow(c) \/ CheckDos(c) PROVE Local(c)'
  <2>0. pc[c] \in {"wow", "dos"}
    BY <1>3 DEF CheckWow, CheckDos
  <2>1. ASSUME NEW b \in Binaries \ {"none"}, NEW new \in Flags, NotPresent(c, b, new),
               ~new.forceDos, new.detached => flags[c].detached
        PROVE  Local(c)'
    <3>1. /\ pc'[c] \in {"open", "quickie"} /\ binary'[c] = b /\ creation'[c] = {"PARTIALLY"}
          /\ flags'[c] = new /\ windows' = windows
          /\ pc'[c] = "open" => image'[c] = "win32"
      BY <2>1 DEF NotPresent
    <3> QED BY <2>1, <3>1
  <2>2. ASSUME NEW b \in Binaries \ {"none"}, Ready(c, b) \/ NotReady(c, b) PROVE Local(c)'
    BY <2>0, <2>2 DEF Ready, NotReady
  <2>3. /\ "DOS" \in Binaries \ {"none"} /\ WowBinary(c) \in Binaries \ {"none"}
        /\ flags[c] \in Flags /\ ~flags[c].forceDos
    BY <2>0 DEF Binaries, WowBinary
  <2>4. /\ [flags[c] EXCEPT !.detached = FALSE, !.newConsole = FALSE] \in Flags
        /\ ~[flags[c] EXCEPT !.detached = FALSE, !.newConsole = FALSE].forceDos
        /\ ~[flags[c] EXCEPT !.detached = FALSE, !.newConsole = FALSE].detached
    BY <2>3 DEF Flags
  <2> HIDE DEF TypeOK, Local
  <2>5. CASE CheckWow(c)
    BY <2>1, <2>2, <2>3, <2>4, <2>5 DEF CheckWow
  <2>6. CASE CheckDos(c)
    BY <2>1, <2>2, <2>3, <2>6 DEF CheckDos
  <2> QED BY <1>3, <2>5, <2>6
<1>4. ASSUME CheckWowFails(c) PROVE Local(c)'
  <2>1. /\ pc[c] = "wow" /\ pc'[c] \in {"wow", "quickie"}
        /\ UNCHANGED <<windows, creation>>
        /\ flags'[c] = flags[c] \/ flags'[c] = [flags[c] EXCEPT !.separate = TRUE]
    BY <1>4 DEF CheckWowFails
  <2>2. flags'[c].forceDos = flags[c].forceDos /\ flags'[c].detached = flags[c].detached
    BY <2>1 DEF Flags
  <2> QED BY <2>1, <2>2
<1>5. ASSUME CheckDetached(c) PROVE Local(c)'
  BY <1>5 DEF CheckDetached, InvalidDetached, NoBareReturn
<1>6. ASSUME CreateProcessFails(c) \/ NoProcess(c) \/ UpdateVDMEntryFails(c) PROVE Local(c)'
  BY <1>6 DEF CreateProcessFails, NoProcess, UpdateVDMEntryFails
<1>7. ASSUME UpdateVDMEntry(c) PROVE Local(c)'
  BY <1>7 DEF UpdateVDMEntry
<1>8. ASSUME CreateThread(c) \/ CreateThreadFails(c) \/ AcceptFails(c) PROVE Local(c)'
  BY <1>8 DEF CreateThread, CreateThreadFails, AcceptFails
<1>9. ASSUME Resume(c) PROVE Local(c)'
  BY <1>9 DEF Resume
<1>10. ASSUME ShortCircuit(c) PROVE Local(c)'
  BY <1>10 DEF ShortCircuit
<1>11. ASSUME Quickie(c) PROVE Local(c)'
  BY <1>11 DEF Quickie, Return, Forget, NoFlags, ToUndo
<1>12. ASSUME Undo(c) PROVE Local(c)'
  BY <1>12 DEF Undo, Return, Forget, NoFlags
<1> QED BY <1>1, <1>2, <1>3, <1>4, <1>5, <1>6, <1>7, <1>8, <1>9, <1>10, <1>11, <1>12 DEF Step

LEMMA CallStep ==
  ASSUME TypeOK, NEW c \in Creators, Local(c), Call(c), DosNotForced
  PROVE  Local(c)' /\ Quiet(c)
<1>1. PICK r \in Calls :
        /\ r.flags.detached => windows \in Detaching
        /\ flags' = [flags EXCEPT ![c] = r.flags]
        /\ image' = [image EXCEPT ![c] = r.image]
  BY DEF Call, Known
<1>2. /\ pc[c] \in {"idle", "done"} /\ pc' = [pc EXCEPT ![c] = "open"]
      /\ UNCHANGED <<windows, binary, creation, record, serving>>
  BY DEF Call, Go
<1>3. /\ pc'[c] = "open" /\ flags'[c] = r.flags /\ image'[c] = r.image
      /\ creation[c] = {} /\ creation'[c] = {} /\ binary'[c] = "none"
  BY <1>1, <1>2 DEF TypeOK, Local
<1>4. ~Starting(c) /\ ~Starting(c)'
  BY <1>3 DEF Starting
<1>5. r.flags.forceDos => r.image \in {"win32", "bat"}
  BY DEF DosNotForced
<1>6. Local(c)'
  BY <1>1, <1>2, <1>3, <1>5 DEF Local
<1> QED BY <1>2, <1>4, <1>6 DEF Quiet

\* What the VDMs do concerns no creator's record: it has no VDM yet.
LEMMA VdmStep ==
  ASSUME TypeOK, Shared, NEW k \in Places, VdmTakes(k) \/ VdmDone(k) \/ VdmExits(k)
  PROVE  /\ Shared'
         /\ \A c \in Creators : Local(c) => Local(c)'
         /\ \A c \in Creators : (Starting(c)' <=> Starting(c)) /\ At(c)' = At(c)
<1>1. UNCHANGED <<windows, pc, local>>
  BY DEF VdmTakes, VdmDone, VdmExits
<1>2. \A c \in Creators : (Starting(c)' <=> Starting(c)) /\ At(c)' = At(c)
  BY <1>1 DEF Starting, At, PlaceOf, local
<1>3. \A c \in Creators : Local(c) => Local(c)'
  BY <1>1, <1>2 DEF Local, local
<1>4. \A c \in Creators : Starting(c) => At(c) # k
  BY DEF Shared, VdmTakes, VdmDone, VdmExits
<1>5. /\ serving' \subseteq serving
      /\ record'[k] # "loading"
      /\ k \in serving' => record'[k] # "none"
      /\ \A j \in Places \ {k} : record'[j] = record[j] /\ (j \in serving' <=> j \in serving)
  BY DEF TypeOK, VdmTakes, VdmDone, VdmExits
<1>6. \A c \in Creators : At(c) \in Places
  <2>1. \A d \in Creators : task[d] \in Tasks \cup {NoTask}
    BY DEF TypeOK
  <2> QED BY <2>1, PlaceOfType DEF At
<1>7. Shared'
  <2>1. \A c \in Creators : Starting(c)' => record'[At(c)'] = "loading" /\ At(c)' \notin serving'
    BY <1>2, <1>4, <1>5, <1>6 DEF Shared
  <2>2. OneStarter'
    BY <1>2 DEF Shared, OneStarter
  <2>3. NoOrphan'
    BY <1>2, <1>5 DEF Shared, NoOrphan
  <2>4. ServedIsKnown'
    BY <1>5 DEF Shared, ServedIsKnown, TypeOK
  <2> QED BY <2>1, <2>2, <2>3, <2>4 DEF Shared
<1> QED BY <1>2, <1>3, <1>7

LEMMA InitIInv == Init => IInv
<1> SUFFICES ASSUME Init PROVE IInv
  OBVIOUS
<1>1. \A c \in Creators : ~Starting(c) /\ Local(c)
  BY DEF Init, Starting, Local, NoFlags
<1>2. Shared
  BY <1>1 DEF Init, Shared, OneStarter, NoOrphan, ServedIsKnown
<1> QED BY <1>1, <1>2, InitType DEF Init, IInv

LEMMA NextIInv ==
  ASSUME NoBareReturn, DosNotForced, IInv, [Next]_vars
  PROVE  IInv'
<1>1. TypeOK /\ TypeOK' /\ windows \in Windows /\ Shared /\ \A c \in Creators : Local(c)
  BY NextType DEF IInv
<1>2. ASSUME NEW c \in Creators, Call(c) \/ Step(c) PROVE IInv'
  <2>1. Others(c)
    BY <1>1, <1>2, StepOthers
  <2>2. Local(c)' /\ (Quiet(c) \/ Begins(c) \/ Reuses(c) \/ TakesBack(c) \/ Serves(c))
    BY <1>1, <1>2, CallStep, StepLocal, StepKind
  <2>3. Shared'
    BY <1>1, <2>1, <2>2, SharedStep
  <2>4. \A d \in Creators : Local(d)'
    BY <1>1, <2>1, <2>2, OthersStay
  <2> QED BY <1>1, <2>1, <2>3, <2>4 DEF IInv, Others
<1>3. ASSUME NEW k \in Places, VdmTakes(k) \/ VdmDone(k) \/ VdmExits(k) PROVE IInv'
  <2>1. windows' = windows
    BY <1>3 DEF VdmTakes, VdmDone, VdmExits
  <2> QED BY <1>1, <1>3, <2>1, VdmStep DEF IInv
<1>4. CASE UNCHANGED vars
  BY <1>4 DEF vars, local, IInv, TypeOK, Local, Starting, At, PlaceOf, Shared, OneStarter,
     NoOrphan, ServedIsKnown
<1> QED BY <1>2, <1>3, <1>4 DEF Next

(* Every variable keeps its type, whatever fails.                          *)
THEOREM VdmCreateType == Spec => []TypeOK
BY InitType, NextType, PTL DEF Spec

(* The inductive invariant.                                                *)
THEOREM Invariance ==
  ASSUME NoBareReturn, DosNotForced
  PROVE  Spec => []IInv
BY InitIInv, NextIInv, PTL DEF Spec

(* No record is left waiting for a VDM that nobody starts.                 *)
THEOREM NoneOrphaned ==
  ASSUME NoBareReturn, DosNotForced
  PROVE  Spec => []NoOrphan
<1>1. IInv => NoOrphan
  BY DEF IInv, Shared
<1> QED BY <1>1, Invariance, PTL

(* One creator at a place.                                                 *)
THEOREM Exclusion ==
  ASSUME NoBareReturn, DosNotForced
  PROVE  Spec => []OneStarter
<1>1. IInv => OneStarter
  BY DEF IInv, Shared
<1> QED BY <1>1, Invariance, PTL

(* No undo hits a VDM that runs.                                           *)
THEOREM NoneForgotten ==
  ASSUME NoBareReturn, DosNotForced
  PROVE  Spec => []ServedIsKnown
<1>1. IInv => ServedIsKnown
  BY DEF IInv, Shared
<1> QED BY <1>1, Invariance, PTL

-----------------------------------------------------------------------------
(* How calls end.  Where NtCreateProcessEx may fail unreported on XP, a    *)
(* call can return TRUE with nothing (VdmNoProcess.cfg).                   *)
FailuresShow == "XP" \notin OutOfProcesses

Ends(c) ==
  /\ pc[c] \notin {"quickie", "done"} => given[c] = {}
  /\ pc[c] # "done" => ret[c] = "none"
  /\ pc[c] \in {"open", "section", "wow", "dos", "create"} => process[c] = "none"
  /\ pc[c] \in {"update", "thread"} => process[c] = "empty"
  /\ "wait" \in open[c] =>
       pc[c] = "short" \/ ("FULLY" \in creation[c] /\ "SUCCESSFUL" \notin creation[c])
  /\ pc[c] = "quickie" => result[c] \in {"TRUE", "FALSE"}
  /\ pc[c] = "quickie" /\ result[c] = "TRUE" =>
       given[c] \cap {"process", "wait"} # {} /\ ~ToUndo(c)
  /\ pc[c] = "quickie" /\ result[c] = "FALSE" => "SUCCESSFUL" \notin creation[c]
  /\ pc[c] = "undo" => result[c] = "FALSE" /\ open[c] \subseteq {"wait"}
  /\ pc[c] = "undo" \/ (pc[c] = "quickie" /\ result[c] = "FALSE") =>
       given[c] = {} /\ process[c] \in {"none", "empty", "dead"}
  /\ pc[c] = "done" =>
       /\ open[c] = {} /\ ret[c] \in {"TRUE", "FALSE"}
       /\ ret[c] = "TRUE" => given[c] \cap {"process", "wait"} # {}
       /\ ret[c] = "FALSE" => given[c] = {} /\ process[c] \in {"none", "dead"}

OthersEnd(c) ==
  \A d \in Creators \ {c} :
    /\ open'[d] = open[d] /\ process'[d] = process[d] /\ result'[d] = result[d]
    /\ ret'[d] = ret[d] /\ given'[d] = given[d]

LEMMA StepOthersEnd ==
  ASSUME TypeOK, NEW c \in Creators, Call(c) \/ Step(c)
  PROVE  OthersEnd(c)
<1> USE DEF TypeOK, OthersEnd, Go, Result, Fail, MayFail, Forget, Return, Opened
<1>1. ASSUME Call(c) PROVE OthersEnd(c)
  BY <1>1 DEF Call
<1>2. ASSUME OpenImage(c) \/ CreateSectionFails(c) \/ CheckDosFails(c) \/ CreateProcess(c)
      PROVE OthersEnd(c)
  BY <1>2 DEF OpenImage, CreateSectionFails, CheckDosFails, CreateProcess
<1>3. ASSUME CreateSection(c) PROVE OthersEnd(c)
  BY <1>3 DEF CreateSection
<1>4. ASSUME CheckWow(c) \/ CheckDos(c) PROVE OthersEnd(c)
  <2>1. ASSUME NEW b, NEW new, NotPresent(c, b, new) PROVE OthersEnd(c)
    BY <2>1 DEF NotPresent
  <2>2. ASSUME NEW b, Ready(c, b) \/ NotReady(c, b) PROVE OthersEnd(c)
    BY <2>2 DEF Ready, NotReady
  <2> QED BY <1>4, <2>1, <2>2 DEF CheckWow, CheckDos
<1>5. ASSUME CheckWowFails(c) PROVE OthersEnd(c)
  BY <1>5 DEF CheckWowFails
<1>6. ASSUME CheckDetached(c) PROVE OthersEnd(c)
  BY <1>6 DEF CheckDetached, BareReturn, InvalidDetached
<1>7. ASSUME \/ CreateProcessFails(c) \/ NoProcess(c)
             \/ UpdateVDMEntry(c) \/ UpdateVDMEntryFails(c)
      PROVE OthersEnd(c)
  BY <1>7 DEF CreateProcessFails, NoProcess, UpdateVDMEntry, UpdateVDMEntryFails
<1>8. ASSUME \/ CreateThread(c) \/ CreateThreadFails(c)
             \/ AcceptFails(c) \/ Resume(c) \/ ShortCircuit(c)
      PROVE OthersEnd(c)
  BY <1>8 DEF CreateThread, CreateThreadFails, AcceptFails, Resume, ShortCircuit
<1>9. ASSUME Quickie(c) PROVE OthersEnd(c)
  BY <1>9 DEF Quickie
<1>10. ASSUME Undo(c) PROVE OthersEnd(c)
  BY <1>10 DEF Undo
<1> QED BY <1>1, <1>2, <1>3, <1>4, <1>5, <1>6, <1>7, <1>8, <1>9, <1>10 DEF Step

LEMMA OthersEndStay ==
  ASSUME NEW c \in Creators, Others(c), OthersEnd(c), NEW d \in Creators \ {c}, Ends(d)
  PROVE  Ends(d)'
BY DEF Others, OthersEnd, Ends, ToUndo

\* A step keeps what its creator has to show for itself.
LEMMA StepEnds ==
  ASSUME TypeOK, NEW c \in Creators, Local(c), Ends(c), Step(c),
         NoBareReturn, FailuresShow, windows \in Windows
  PROVE  Ends(c)'
<1> USE DEF TypeOK, Go, Result, Fail, MayFail, Opened, Local, Ends, ToUndo
<1>1. ASSUME OpenImage(c) PROVE Ends(c)'
  BY <1>1 DEF OpenImage
<1>2. ASSUME CreateSection(c) PROVE Ends(c)'
  BY <1>2 DEF CreateSection
<1>3. ASSUME CreateSectionFails(c) \/ CheckDosFails(c) PROVE Ends(c)'
  BY <1>3 DEF CreateSectionFails, CheckDosFails
<1>4. ASSUME CheckWow(c) \/ CheckDos(c) PROVE Ends(c)'
  <2>0. pc[c] \in {"wow", "dos"}
    BY <1>4 DEF CheckWow, CheckDos
  <2>1. ASSUME NEW b, NEW new, NotPresent(c, b, new) PROVE Ends(c)'
    BY <2>0, <2>1 DEF NotPresent
  <2>2. ASSUME NEW b, Ready(c, b) \/ NotReady(c, b) PROVE Ends(c)'
    BY <2>0, <2>2 DEF Ready, NotReady
  <2> HIDE DEF TypeOK, Local, Ends
  <2> QED BY <1>4, <2>1, <2>2 DEF CheckWow, CheckDos
<1>5. ASSUME CheckWowFails(c) PROVE Ends(c)'
  BY <1>5 DEF CheckWowFails
<1>6. ASSUME CheckDetached(c) PROVE Ends(c)'
  BY <1>6 DEF CheckDetached, InvalidDetached, NoBareReturn
<1>7. ASSUME CreateProcess(c) PROVE Ends(c)'
  BY <1>7 DEF CreateProcess
<1>8. ASSUME CreateProcessFails(c) PROVE Ends(c)'
  BY <1>8 DEF CreateProcessFails
<1>9. ASSUME NoProcess(c) PROVE Ends(c)'
  BY <1>9 DEF NoProcess, FailuresShow
<1>10. ASSUME UpdateVDMEntry(c) PROVE Ends(c)'
  BY <1>10 DEF UpdateVDMEntry
<1>11. ASSUME UpdateVDMEntryFails(c) \/ CreateThreadFails(c) PROVE Ends(c)'
  BY <1>11 DEF UpdateVDMEntryFails, CreateThreadFails
<1>12. ASSUME CreateThread(c) PROVE Ends(c)'
  BY <1>12 DEF CreateThread
<1>13. ASSUME AcceptFails(c) PROVE Ends(c)'
  BY <1>13 DEF AcceptFails
<1>14. ASSUME Resume(c) PROVE Ends(c)'
  BY <1>14 DEF Resume
<1>15. ASSUME ShortCircuit(c) PROVE Ends(c)'
  BY <1>15 DEF ShortCircuit, Handed
<1>16. ASSUME Quickie(c) PROVE Ends(c)'
  BY <1>16 DEF Quickie, Return, Forget
<1>17. ASSUME Undo(c) PROVE Ends(c)'
  BY <1>17 DEF Undo, Return, Forget
<1> QED BY <1>1, <1>2, <1>3, <1>4, <1>5, <1>6, <1>7, <1>8, <1>9, <1>10, <1>11, <1>12,
       <1>13, <1>14, <1>15, <1>16, <1>17 DEF Step

EndInv == IInv /\ \A c \in Creators : Ends(c)

LEMMA InitEndInv == Init => EndInv
<1> SUFFICES ASSUME Init PROVE EndInv
  OBVIOUS
<1>1. \A c \in Creators : Ends(c)
  BY DEF Init, Ends
<1> QED BY <1>1, InitIInv DEF EndInv

LEMMA NextEndInv ==
  ASSUME NoBareReturn, DosNotForced, FailuresShow, EndInv, [Next]_vars
  PROVE  EndInv'
<1>1. /\ TypeOK /\ IInv' /\ windows \in Windows
      /\ \A c \in Creators : Local(c) /\ Ends(c)
  BY NextIInv DEF EndInv, IInv
<1>2. ASSUME NEW c \in Creators, Call(c) \/ Step(c) PROVE \A d \in Creators : Ends(d)'
  <2>1. Others(c) /\ OthersEnd(c)
    BY <1>1, <1>2, StepOthers, StepOthersEnd
  <2>2. ASSUME Call(c) PROVE Ends(c)'
    BY <1>1, <2>2 DEF Call, Ends, TypeOK, Go
  <2>3. Ends(c)'
    BY <1>1, <1>2, <2>2, StepEnds
  <2> QED BY <1>1, <2>1, <2>3, OthersEndStay
<1>3. ASSUME NEW k \in Places, VdmTakes(k) \/ VdmDone(k) \/ VdmExits(k)
      PROVE  \A d \in Creators : Ends(d)'
  BY <1>1, <1>3 DEF VdmTakes, VdmDone, VdmExits, local, Ends, ToUndo
<1>4. ASSUME UNCHANGED vars PROVE \A d \in Creators : Ends(d)'
  BY <1>1, <1>4 DEF vars, local, Ends, ToUndo
<1> QED BY <1>1, <1>2, <1>3, <1>4 DEF Next, EndInv

THEOREM EndInvariance ==
  ASSUME NoBareReturn, DosNotForced, FailuresShow
  PROVE  Spec => []EndInv
BY InitEndInv, NextEndInv, PTL DEF Spec

(* A failed call has left nothing, a successful one kept nothing.          *)
THEOREM NothingIsLeft ==
  ASSUME NoBareReturn, DosNotForced, FailuresShow
  PROVE  Spec => []NothingLeft
<1>1. EndInv => NothingLeft
  BY DEF EndInv, Ends, NothingLeft
<1> QED BY <1>1, EndInvariance, PTL

(* TRUE comes with something to wait for.                                  *)
THEOREM SuccessHolds ==
  ASSUME NoBareReturn, DosNotForced, FailuresShow
  PROVE  Spec => []SuccessIsReal
<1>1. EndInv => SuccessIsReal
  BY DEF EndInv, Ends, SuccessIsReal
<1> QED BY <1>1, EndInvariance, PTL

-----------------------------------------------------------------------------
(* Every step is one that VdmLaunch allows.                                *)
\* The outcome of a call changes once, and with the creator's start of a VDM.
Settled(c) ==
  /\ \/ Outcome(c)' = Outcome(c)
     \/ Outcome(c) = "working" /\ Outcome(c)' \in {"ok", "failed"}
  /\ Starting(c) /\ ~Starting(c)' =>
       Outcome(c)' = (IF record' = record THEN "ok" ELSE "failed")

LEMMA StepSettled ==
  ASSUME TypeOK, NEW c \in Creators, Local(c), Ends(c), Step(c),
         Starting(c) => record[At(c)] = "loading",
         NoBareReturn, FailuresShow, windows \in Windows
  PROVE  Settled(c)
<1> USE DEF TypeOK, Go, Result, Fail, MayFail, Local, Ends, Settled, Outcome, Starting
<1>1. ASSUME OpenImage(c) \/ CreateSectionFails(c) \/ CheckDosFails(c) \/ CreateProcess(c)
      PROVE  Settled(c)
  BY <1>1 DEF OpenImage, CreateSectionFails, CheckDosFails, CreateProcess
<1>2. ASSUME CreateSection(c) PROVE Settled(c)
  BY <1>2 DEF CreateSection
<1>3. ASSUME CheckWow(c) \/ CheckDos(c) PROVE Settled(c)
  <2>0. pc[c] \in {"wow", "dos"}
    BY <1>3 DEF CheckWow, CheckDos
  <2>1. ASSUME NEW b, NEW new, NotPresent(c, b, new) PROVE Settled(c)
    BY <2>0, <2>1 DEF NotPresent
  <2>2. ASSUME NEW b, Ready(c, b) \/ NotReady(c, b) PROVE Settled(c)
    BY <2>0, <2>2 DEF Ready, NotReady
  <2> HIDE DEF TypeOK, Local, Ends, Settled
  <2> QED BY <1>3, <2>1, <2>2 DEF CheckWow, CheckDos
<1>4. ASSUME CheckWowFails(c) PROVE Settled(c)
  BY <1>4 DEF CheckWowFails
<1>5. ASSUME CheckDetached(c) PROVE Settled(c)
  BY <1>5 DEF CheckDetached, InvalidDetached, NoBareReturn
<1>6. ASSUME CreateProcessFails(c) \/ NoProcess(c) \/ UpdateVDMEntryFails(c) PROVE Settled(c)
  BY <1>6 DEF CreateProcessFails, NoProcess, UpdateVDMEntryFails, FailuresShow
<1>7. ASSUME UpdateVDMEntry(c) PROVE Settled(c)
  BY <1>7 DEF UpdateVDMEntry
<1>8. ASSUME CreateThread(c) \/ CreateThreadFails(c) \/ AcceptFails(c) PROVE Settled(c)
  BY <1>8 DEF CreateThread, CreateThreadFails, AcceptFails
<1>9. ASSUME Resume(c) PROVE Settled(c)
  BY <1>9 DEF Resume
<1>10. ASSUME ShortCircuit(c) PROVE Settled(c)
  BY <1>10 DEF ShortCircuit, Handed
<1>11. ASSUME Quickie(c) PROVE Settled(c)
  BY <1>11 DEF Quickie, Return, Forget, ToUndo
<1>12. ASSUME Undo(c) PROVE Settled(c)
  <2>1. At(c) \in Places /\ record[At(c)] = "loading" /\ record'[At(c)] = "none"
    BY <1>12, PlaceOfType DEF Undo, At
  <2> QED BY <1>12, <2>1 DEF Undo, Return, Forget
<1> QED BY <1>1, <1>2, <1>3, <1>4, <1>5, <1>6, <1>7, <1>8, <1>9, <1>10, <1>11, <1>12 DEF Step

\* What the steps of each kind do to the abstract places and launches.
LEMMA KindMaps ==
  ASSUME TypeOK, TypeOK', Shared, NEW c \in Creators, Others(c)
  PROVE  /\ Quiet(c) \/ Reuses(c) => UNCHANGED <<stage, launching>>
         /\ Begins(c) =>
              /\ launching[c] = NoPlace /\ stage[At(c)'] = "free"
              /\ stage' = [stage EXCEPT ![At(c)'] = "starting"]
              /\ launching' = [launching EXCEPT ![c] = At(c)']
         /\ TakesBack(c) \/ Serves(c) =>
              /\ launching[c] # NoPlace /\ stage[launching[c]] = "starting"
              /\ launching' = [launching EXCEPT ![c] = NoPlace]
         /\ TakesBack(c) => stage' = [stage EXCEPT ![launching[c]] = "free"]
         /\ Serves(c) => stage' = [stage EXCEPT ![launching[c]] = "serving"]
<1>1. \A d \in Creators : At(d) \in Places /\ At(d)' \in Places
  <2>1. \A d \in Creators : task[d] \in Tasks \cup {NoTask} /\ task'[d] \in Tasks \cup {NoTask}
    BY DEF TypeOK
  <2> QED BY <2>1, PlaceOfType DEF At
<1>2. \A d \in Creators \ {c} : launching'[d] = launching[d]
  <2>1. ASSUME NEW d \in Creators \ {c} PROVE (Starting(d)' <=> Starting(d)) /\ At(d)' = At(d)
    BY <2>1, OthersStay
  <2> QED BY <2>1 DEF launching
<1>3. /\ record \in [Places -> {"none", "loading", "busy", "ready"}]
      /\ serving \subseteq Places /\ NoPlace \notin Places
      /\ \A k \in serving : record[k] # "none"
      /\ Starting(c) => record[At(c)] = "loading" /\ At(c) \notin serving
  BY PlacesAreApart DEF TypeOK, Shared, ServedIsKnown, NoPlace, Places
<1>4. /\ launching[c] = IF Starting(c) THEN At(c) ELSE NoPlace
      /\ launching'[c] = IF Starting(c)' THEN At(c)' ELSE NoPlace
  BY DEF launching
<1>5. \A x : launching'[c] = x => launching' = [launching EXCEPT ![c] = x]
  BY <1>2 DEF launching
<1>6. ASSUME Quiet(c) \/ Reuses(c) PROVE UNCHANGED <<stage, launching>>
  <2>1. launching' = launching
    <3>1. launching'[c] = launching[c]
      BY <1>4, <1>6 DEF Quiet, Reuses
    <3> QED BY <1>2, <3>1 DEF launching
  <2>2. stage' = stage
    BY <1>3, <1>6 DEF Quiet, Reuses, stage
  <2> QED BY <2>1, <2>2
<1>7. ASSUME Begins(c)
      PROVE  /\ launching[c] = NoPlace /\ stage[At(c)'] = "free"
             /\ stage' = [stage EXCEPT ![At(c)'] = "starting"]
             /\ launching' = [launching EXCEPT ![c] = At(c)']
  <2>1. launching[c] = NoPlace /\ launching'[c] = At(c)'
    BY <1>4, <1>7 DEF Begins
  <2> DEFINE k == At(c)'
  <2>2. /\ k \in Places /\ record[k] = "none" /\ serving' = serving
        /\ record' = [record EXCEPT ![k] = "loading"] /\ k \notin serving
    BY <1>1, <1>3, <1>7 DEF Begins
  <2> HIDE DEF k
  <2>3. stage[k] = "free" /\ stage' = [stage EXCEPT ![k] = "starting"]
    BY <1>3, <2>2 DEF stage
  <2> QED BY <1>5, <2>1, <2>3 DEF k
<1>8. ASSUME TakesBack(c) \/ Serves(c)
      PROVE  /\ launching[c] # NoPlace /\ stage[launching[c]] = "starting"
             /\ launching' = [launching EXCEPT ![c] = NoPlace]
             /\ TakesBack(c) => stage' = [stage EXCEPT ![launching[c]] = "free"]
             /\ Serves(c) => stage' = [stage EXCEPT ![launching[c]] = "serving"]
  <2>1. Starting(c) /\ ~Starting(c)'
    BY <1>8 DEF TakesBack, Serves
  <2>2. launching[c] = At(c) /\ launching'[c] = NoPlace /\ At(c) # NoPlace
    BY <1>1, <1>3, <1>4, <2>1
  <2> DEFINE k == At(c)
  <2>3. /\ k \in Places /\ record[k] = "loading" /\ k \notin serving
        /\ TakesBack(c) => serving' = serving /\ record' = [record EXCEPT ![k] = "none"]
        /\ Serves(c) => record' = record /\ serving' = serving \cup {k}
    BY <1>1, <1>3, <2>1 DEF TakesBack, Serves
  <2> HIDE DEF k
  <2>4. /\ stage[k] = "starting"
        /\ TakesBack(c) => stage' = [stage EXCEPT ![k] = "free"]
        /\ Serves(c) => stage' = [stage EXCEPT ![k] = "serving"]
    BY <1>3, <2>3 DEF stage
  <2> QED BY <1>5, <2>2, <2>4 DEF k
<1> QED BY <1>6, <1>7, <1>8

LEMMA InitImplements == Init => Launch!Init
<1> SUFFICES ASSUME Init PROVE Launch!Init
  OBVIOUS
<1>1. stage = [k \in Places |-> "free"]
  BY DEF Init, stage
<1>2. launching = [c \in Creators |-> NoPlace]
  BY DEF Init, launching, Starting
<1>3. outcome = [c \in Creators |-> "idle"]
  BY DEF Init, outcome, Outcome
<1> QED BY <1>1, <1>2, <1>3 DEF Launch!Init

LEMMA NextImplements ==
  ASSUME NoBareReturn, DosNotForced, FailuresShow, EndInv, EndInv', [Next]_vars
  PROVE  [Launch!Next]_Launch!vars
<1>1. /\ TypeOK /\ TypeOK' /\ windows \in Windows /\ Shared
      /\ \A c \in Creators : Local(c) /\ Ends(c) /\ Ends(c)'
  BY DEF EndInv, IInv
<1>2. ASSUME NEW c \in Creators, Call(c) \/ Step(c) PROVE [Launch!Next]_Launch!vars
  <2>1. Others(c) /\ OthersEnd(c)
    BY <1>1, <1>2, StepOthers, StepOthersEnd
  <2>2. outcome' = [outcome EXCEPT ![c] = Outcome(c)'] /\ outcome[c] = Outcome(c)
    <3>1. \A d \in Creators \ {c} : Outcome(d)' = Outcome(d)
      BY <2>1 DEF Others, OthersEnd, Outcome
    <3> QED BY <3>1 DEF outcome
  <2>3. CASE Call(c)
    <3>1. UNCHANGED <<stage, launching>>
      BY <1>1, <2>1, <2>3, CallStep, KindMaps
    <3>2. Outcome(c) # "working" /\ Outcome(c)' = "working"
      BY <1>1, <2>3 DEF Call, Outcome, Go, TypeOK
    <3> QED BY <2>2, <3>1, <3>2 DEF Launch!Call, Launch!Next
  <2>4. CASE Step(c)
    <3>1. Settled(c)
      BY <1>1, <2>4, StepSettled DEF Shared
    <3>2. /\ Starting(c) => Outcome(c) = "working"
          /\ Starting(c)' => Outcome(c)' = "working"
      BY <1>1 DEF Ends, Starting, Outcome, ToUndo
    <3>3. CASE Quiet(c) \/ Reuses(c)
      <4>1. UNCHANGED <<stage, launching>>
        BY <1>1, <2>1, <3>3, KindMaps
      <4>2. CASE Outcome(c)' = Outcome(c)
        BY <2>2, <4>1, <4>2 DEF Launch!vars, outcome
      <4>3. CASE Outcome(c) = "working" /\ Outcome(c)' \in {"ok", "failed"}
        <5>1. ~Starting(c)
          BY <3>2, <3>3, <4>3 DEF Quiet, Reuses
        <5>2. launching[c] = NoPlace
          BY <5>1 DEF launching
        <5>3. Launch!Settle(c, Outcome(c)')
          BY <2>2, <4>1, <4>3, <5>2 DEF Launch!Settle
        <5> QED BY <4>3, <5>3 DEF Launch!Next
      <4> QED BY <3>1, <4>2, <4>3 DEF Settled
    <3>4. CASE Begins(c)
      <4>1. Outcome(c)' = "working" /\ Outcome(c) = "working"
        BY <3>1, <3>2, <3>4 DEF Begins, Settled
      <4>2. outcome' = outcome
        BY <2>2, <4>1 DEF outcome
      <4>3. At(c)' \in Places
        <5>1. task'[c] \in Tasks \cup {NoTask}
          BY <1>1 DEF TypeOK
        <5> QED BY <5>1, PlaceOfType DEF At
      <4>4. Launch!Begin(c, At(c)')
        BY <1>1, <2>1, <2>2, <3>4, <4>1, <4>2, KindMaps DEF Launch!Begin
      <4> QED BY <4>3, <4>4 DEF Launch!Next
    <3>5. CASE TakesBack(c)
      <4>1. record' # record
        <5>1. record[At(c)] = "loading" /\ At(c) \in Places
          <6>1. task[c] \in Tasks \cup {NoTask}
            BY <1>1 DEF TypeOK
          <6> QED BY <1>1, <3>5, <6>1, PlaceOfType DEF At, TakesBack, Shared
        <5> QED BY <1>1, <3>5, <5>1 DEF TakesBack, TypeOK
      <4>2. Outcome(c)' = "failed"
        BY <3>1, <3>5, <4>1 DEF Settled, TakesBack
      <4>3. Launch!Abandon(c)
        BY <1>1, <2>1, <2>2, <3>5, <4>2, KindMaps DEF Launch!Abandon
      <4> QED BY <4>3 DEF Launch!Next
    <3>6. CASE Serves(c)
      <4>1. Outcome(c)' = "ok"
        BY <3>1, <3>6 DEF Settled, Serves
      <4>2. Launch!Serve(c)
        BY <1>1, <2>1, <2>2, <3>6, <4>1, KindMaps DEF Launch!Serve
      <4> QED BY <4>2 DEF Launch!Next
    <3> QED BY <1>1, <2>4, <3>3, <3>4, <3>5, <3>6, StepKind
  <2> QED BY <1>2, <2>3, <2>4
<1>3. ASSUME NEW k \in Places, VdmTakes(k) \/ VdmDone(k) \/ VdmExits(k)
      PROVE  [Launch!Next]_Launch!vars
  <2>1. UNCHANGED <<launching, outcome>>
    <3>1. \A c \in Creators : (Starting(c)' <=> Starting(c)) /\ At(c)' = At(c)
      BY <1>1, <1>3, VdmStep
    <3>2. launching' = launching
      BY <3>1 DEF launching
    <3>3. outcome' = outcome
      BY <1>3 DEF VdmTakes, VdmDone, VdmExits, local, outcome, Outcome
    <3> QED BY <3>2, <3>3
  <2>2. CASE VdmTakes(k) \/ VdmDone(k)
    <3>1. stage' = stage
      BY <1>1, <2>2 DEF VdmTakes, VdmDone, stage, TypeOK
    <3> QED BY <2>1, <3>1 DEF Launch!vars
  <2>3. CASE VdmExits(k)
    <3>1. stage[k] = "serving" /\ stage' = [stage EXCEPT ![k] = "free"]
      BY <1>1, <2>3 DEF VdmExits, stage, TypeOK
    <3>2. Launch!Leave(k)
      BY <2>1, <3>1 DEF Launch!Leave
    <3> QED BY <3>2 DEF Launch!Next
  <2> QED BY <1>3, <2>2, <2>3
<1>4. CASE UNCHANGED vars
  BY <1>4 DEF vars, local, Launch!vars, stage, launching, outcome, Outcome, Starting, At, PlaceOf
<1> QED BY <1>2, <1>3, <1>4 DEF Next

(* The creators implement VdmLaunch.                                       *)
THEOREM Implements ==
  ASSUME NoBareReturn, DosNotForced, FailuresShow
  PROVE  Spec => Launches
<1>1. EndInv /\ EndInv' /\ [Next]_vars => [Launch!Next]_Launch!vars
  BY NextImplements
<1>2. Spec => Launch!Init /\ [][Launch!Next]_Launch!vars
  BY <1>1, InitImplements, EndInvariance, PTL DEF Spec
<1> QED BY <1>2 DEF Launches, Launch!Spec
=============================================================================
