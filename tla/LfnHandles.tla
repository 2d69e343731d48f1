----------------------------- MODULE LfnHandles -----------------------------
(***************************************************************************)
(* The search handles of the long file name services, demlfn.c's           *)
(* gSearchHandleTable.  The table is one block of memory that grows; an    *)
(* entry in use holds a Win32 find handle and the PDB of its program, an   *)
(* unused one below nEntries has PDB 0 and, in the word that held the find *)
(* handle, the index of the next unused entry below it.                    *)
(*                                                                         *)
(* A service runs to its end before the next one starts.  The loops of     *)
(* dempLFNFreeHandleEntry and dempLFNCloseSearchHandles are taken one      *)
(* iteration at a time, everything else of a service is one action.        *)
(***************************************************************************)
EXTENDS Integers

CONSTANTS
  Pdbs,       \* segments of DOS programs' PDBs
  Shell,      \* the PDB of the first program, which does not end
  NoPdb,      \* 0
  Finds,      \* Win32 find handles
  Initial,    \* entries of the first allocation: 32
  Growth,     \* entries of each further one: 16
  Limit,      \* 0x3FFF
  Garbage,    \* what the stack may hold where a DosHandle has not been written
  HandleUnit  \* entries that get the same number: 1 when the difference at line
              \* 867 is one of addresses, sizeof(HTBLENTRY) when it is one of
              \* elements; its operands have different types

ASSUME LfnHandlesAssumption ==
  /\ Shell \in Pdbs
  /\ NoPdb \notin Pdbs
  /\ Finds \cap Int = {}
  /\ Initial \in Nat \ {0}
  /\ Growth \in Nat \ {0}
  /\ Limit \in Nat /\ Initial < Limit
  /\ Garbage \subseteq 0 .. 2 * Limit + 1
  /\ HandleUnit \in Nat \ {0}

VARIABLES
  word,       \* first word of each entry: hFind, or the next unused entry
  pdb,        \* PDB of each entry
  nEntries,
  nAllocated, \* 0: pMem is NULL
  lNextFree,
  open,       \* find handles open in Win32
  alive,      \* PDBs of the running programs
  current,    \* *pusCurrentPDB
  reply,      \* what the last call told its program
  pc,         \* where the service is
  entry,      \* dempLFNFreeHandleEntry's lEntry
  prev,       \* ... lPrevFree
  next,       \* ... lNextFree, the local one
  i,          \* dempLFNCloseSearchHandles' i
  ending      \* the program ends: entries are freed for dempLFNCloseSearchHandles

table == <<word, pdb, nEntries, nAllocated, lNextFree>>
programs == <<alive, current>>
locals == <<entry, prev, next, i, ending>>
vars == <<table, open, programs, reply, pc, locals>>

Index == 0 .. Limit - 1
FLAG_INUSE == Limit + 1
Handles == 0 .. 2 * FLAG_INUSE - 1
Replies == [status : {"none", "opened", "label", "error", "next", "closed"},
            value : Handles \cup Finds]

TypeOK ==
  /\ word \in [Index -> Finds \cup (-1 .. Limit - 1)]
  /\ pdb \in [Index -> Pdbs \cup {NoPdb}]
  /\ nAllocated \in 0 .. Limit - 1
  /\ nEntries \in 0 .. nAllocated
  /\ lNextFree \in -1 .. Limit - 1
  /\ open \subseteq Finds
  /\ alive \subseteq Pdbs
  /\ current \in alive
  /\ reply \in Replies
  /\ pc \in {"ready", "shrink", "walk", "close"}
  /\ entry \in Index
  /\ prev \in -1 .. Limit - 1
  /\ next \in -1 .. Limit - 1
  /\ i \in -1 .. Limit - 1
  /\ ending \in BOOLEAN

Init ==
  /\ word = [n \in Index |-> -1]
  /\ pdb = [n \in Index |-> NoPdb]
  /\ nEntries = 0
  /\ nAllocated = 0
  /\ lNextFree = 0
  /\ open = {}
  /\ alive = {Shell}
  /\ current = Shell
  /\ reply = [status |-> "none", value |-> 0]
  /\ pc = "ready"
  /\ entry = 0 /\ prev = -1 /\ next = -1 /\ i = -1
  /\ ending = FALSE

Tell(status, value) == reply' = [status |-> status, value |-> value]
Fail == Tell("error", 0) /\ UNCHANGED <<table, open, programs, pc, locals>>
-----------------------------------------------------------------------------
(* dempLFNAllocateHandleEntry and dempLFNGetHandleEntry.                   *)

DosHandle(n) == FLAG_INUSE + (n \div HandleUnit)

\* Variant: the entry is found whoever owns it.
FoundForAnyone(h) ==
  /\ h >= FLAG_INUSE
  /\ nAllocated # 0
  /\ h - FLAG_INUSE < nEntries
  /\ pdb[h - FLAG_INUSE] # NoPdb

\* dempLFNGetHandleEntry(h) returns an entry of the table.
Found(h) ==
  /\ h >= FLAG_INUSE
  /\ nAllocated # 0
  /\ h - FLAG_INUSE < nEntries
  /\ pdb[h - FLAG_INUSE] = current

\* Entry n becomes the search f of the current program.
Fill(n, f) ==
  /\ word' = [word EXCEPT ![n] = f]
  /\ pdb' = [pdb EXCEPT ![n] = current]

\* The first block is allocated.
AllocateFirst(f) ==
  /\ nAllocated = 0
  /\ nAllocated' = Initial
  /\ lNextFree' = -1
  /\ nEntries' = 1
  /\ Fill(0, f)
  /\ Tell("opened", DosHandle(0))

\* The highest unused entry below nEntries is taken.
AllocateFreed(f) ==
  /\ nAllocated # 0
  /\ lNextFree # -1
  /\ lNextFree' = word[lNextFree]
  /\ Fill(lNextFree, f)
  /\ Tell("opened", DosHandle(lNextFree))
  /\ UNCHANGED <<nEntries, nAllocated>>

\* The table is extended, in memory it has or after a RtlReAllocateHeap.
AllocateLast(f) ==
  /\ nAllocated # 0
  /\ lNextFree = -1
  /\ \/ nEntries < nAllocated /\ UNCHANGED nAllocated
     \/ /\ nEntries >= nAllocated
        /\ nAllocated + Growth < Limit
        /\ nAllocated' = nAllocated + Growth
  /\ nEntries' = nEntries + 1
  /\ Fill(nEntries, f)
  /\ Tell("opened", DosHandle(nEntries))
  /\ UNCHANGED lNextFree

Allocate(f) ==
  /\ AllocateFirst(f) \/ AllocateFreed(f) \/ AllocateLast(f)
  /\ open' = open \cup {f}
  /\ UNCHANGED <<programs, pc, locals>>
-----------------------------------------------------------------------------
(* dempLFNFreeHandleEntry.                                                 *)

Return ==
  /\ pc' = IF ending THEN "close" ELSE "ready"
  /\ UNCHANGED <<entry, prev, next, i, ending>>

\* The call, for the entry n whose search has just been closed.
FreeHandleEntry(n) ==
  /\ entry' = n
  /\ IF n = nEntries - 1
       THEN /\ nEntries' = nEntries - 1
            /\ pc' = "shrink"
            /\ UNCHANGED <<prev, next>>
       ELSE /\ prev' = -1
            /\ next' = lNextFree
            /\ pc' = "walk"
            /\ UNCHANGED nEntries
  /\ UNCHANGED <<word, pdb, nAllocated, lNextFree>>

\* The entries below the freed last one that are unused leave the table too.
Shrink ==
  /\ pc = "shrink"
  /\ IF lNextFree # -1 /\ lNextFree = nEntries - 1
       THEN /\ lNextFree' = word[lNextFree]
            /\ nEntries' = nEntries - 1
            /\ UNCHANGED <<pc, locals>>
       ELSE Return /\ UNCHANGED <<lNextFree, nEntries>>
  /\ UNCHANGED <<word, pdb, nAllocated, open, programs, reply>>

\* Variant: the step to the next unused entry is missing.
WalkInPlace ==
  /\ pc = "walk"
  /\ next > entry
  /\ prev' = next
  /\ UNCHANGED <<table, open, programs, reply, pc, entry, next, i, ending>>

\* Along the unused entries, to the last one above `entry`.
Walk ==
  /\ pc = "walk"
  /\ next > entry
  /\ prev' = next
  /\ next' = word[next]
  /\ UNCHANGED <<table, open, programs, reply, pc, entry, i, ending>>

\* Variant: `entry` becomes the first link wherever it belongs.
LinkFirst ==
  /\ pc = "walk"
  /\ next <= entry
  /\ word' = [word EXCEPT ![entry] = lNextFree]
  /\ lNextFree' = entry
  /\ pdb' = [pdb EXCEPT ![entry] = NoPdb]
  /\ Return
  /\ UNCHANGED <<nEntries, nAllocated, open, programs, reply>>

\* `entry` joins the unused ones.
Link ==
  /\ pc = "walk"
  /\ next <= entry
  /\ IF prev = -1
       THEN /\ word' = [word EXCEPT ![entry] = lNextFree]
            /\ lNextFree' = entry
       ELSE /\ word' = [word EXCEPT ![entry] = word[prev], ![prev] = entry]
            /\ UNCHANGED lNextFree
  /\ pdb' = [pdb EXCEPT ![entry] = NoPdb]
  /\ Return
  /\ UNCHANGED <<nEntries, nAllocated, open, programs, reply>>
-----------------------------------------------------------------------------
(* The services.                                                           *)

\* demLFNFindFirstFile (AX=714Eh) with a file that matches.  The conversion
\* of the name and of the find data may fail, and so may the allocation; the
\* find is then closed again.
FindFirst(f) ==
  /\ pc = "ready"
  /\ f \in Finds \ open
  /\ Allocate(f) \/ Fail

\* The same with CX=0808h, the search for a label: S_OK, and demLFNDispatch
\* tells a DosHandle that nothing has written.
FindFirstLabel(h) ==
  /\ pc = "ready"
  /\ Tell("label", h)
  /\ UNCHANGED <<table, open, programs, pc, locals>>

\* demWOWLFNAllocateSearchHandle: wow32 has the find already, and closes it
\* when it gets -1.
WowAllocateSearchHandle(f) ==
  /\ pc = "ready"
  /\ f \in Finds \ open
  /\ Allocate(f) \/ Fail

\* demLFNFindNextFile (AX=714Fh), and demWOWLFNGetSearchHandle.
FindNext(h) ==
  /\ pc = "ready"
  /\ \/ /\ Found(h)
        /\ Tell("next", word[h - FLAG_INUSE])
        /\ UNCHANGED <<table, open, programs, pc, locals>>
     \/ ~Found(h) /\ Fail

\* demLFNFindClose (AX=71A1h), and demWOWLFNCloseSearchHandle, whose
\* FindClose comes after the entry is freed.
FindClose(h) ==
  /\ pc = "ready"
  /\ \/ /\ Found(h)
        /\ open' = open \ {word[h - FLAG_INUSE]}
        /\ FreeHandleEntry(h - FLAG_INUSE)
        /\ Tell("closed", h)
        /\ UNCHANGED <<programs, i, ending>>
     \/ ~Found(h) /\ Fail

\* DOS ends the current program and calls demLFNDispatch with the AX of its
\* last INT 21h, no AX=71xxh: dempLFNCloseSearchHandles.
Abort ==
  /\ pc = "ready"
  /\ current # Shell
  /\ ending' = TRUE
  /\ i' = nEntries - 1
  /\ pc' = "close"
  /\ UNCHANGED <<table, open, programs, reply, entry, prev, next>>

\* Variant: the entry is freed and its find stays open.
ForgetSearchHandle ==
  /\ pc = "close"
  /\ i >= 0
  /\ i' = i - 1
  /\ IF Found(i + FLAG_INUSE)
       THEN FreeHandleEntry(i)
       ELSE UNCHANGED <<table, pc, entry, prev, next>>
  /\ UNCHANGED <<open, programs, reply, ending>>

\* One iteration of dempLFNCloseSearchHandles.
CloseSearchHandle ==
  /\ pc = "close"
  /\ i >= 0
  /\ i' = i - 1
  /\ IF Found(i + FLAG_INUSE)
       THEN /\ open' = open \ {word[i]}
            /\ FreeHandleEntry(i)
       ELSE UNCHANGED <<table, open, pc, entry, prev, next>>
  /\ UNCHANGED <<programs, reply, ending>>

\* The program is gone, and one that runs already goes on.
Exit(p) ==
  /\ pc = "close"
  /\ i < 0
  /\ p \in alive \ {current}
  /\ alive' = alive \ {current}
  /\ current' = p
  /\ ending' = FALSE
  /\ pc' = "ready"
  /\ UNCHANGED <<table, open, reply, entry, prev, next, i>>

\* A program starts; its PDB may be one that an ended program had.
Exec(p) ==
  /\ pc = "ready"
  /\ p \in Pdbs \ alive
  /\ alive' = alive \cup {p}
  /\ current' = p
  /\ UNCHANGED <<table, open, reply, pc, locals>>

\* Another Win16 task runs.
Switch(p) ==
  /\ pc = "ready"
  /\ p \in alive
  /\ current' = p
  /\ UNCHANGED <<table, open, alive, reply, pc, locals>>

\* What goes on without the program.
Step ==
  \/ Shrink
  \/ Walk
  \/ Link
  \/ CloseSearchHandle
  \/ \E p \in Pdbs : Exit(p)

Next ==
  \/ Step
  \/ \E f \in Finds : FindFirst(f) \/ WowAllocateSearchHandle(f)
  \/ \E h \in Garbage : FindFirstLabel(h)
  \/ \E h \in Handles : FindNext(h) \/ FindClose(h)
  \/ Abort
  \/ \E p \in Pdbs : Exec(p) \/ Switch(p)

Spec == Init /\ [][Next]_vars

\* A service that has begun is carried to its end by the same thread.
FairSpec == Spec /\ WF_vars(Step)
-----------------------------------------------------------------------------
(* Properties.                                                             *)

\* The entries below nEntries that are not in use.
Unused == {n \in 0 .. nEntries - 1 : pdb[n] = NoPdb}

\* The entry that dempLFNFreeHandleEntry has still to put away.
Freeing(n) == pc = "walk" /\ n = entry

\* The entries in use.
Live == {n \in 0 .. nEntries - 1 : pdb[n] # NoPdb /\ ~Freeing(n)}

\* x is the highest member of S, or -1.
Top(x, S) ==
  \/ x = -1 /\ S = {}
  \/ x \in S /\ \A y \in S : y <= x

\* The list that starts at lNextFree runs down through all unused entries and
\* no others, whatever was freed in whatever order; a wrong link hands out an
\* entry that is in use, or loses one.
FreeListSound ==
  /\ nAllocated # 0 => Top(lNextFree, Unused)
  /\ \A n \in Unused : Top(word[n], {m \in Unused : m < n})

\* The table never ends with an unused entry between two services: what
\* dempLFNFreeHandleEntry's test for the last entry relies on.
TableIsTight == pc = "ready" /\ nEntries > 0 => nEntries - 1 \notin Unused

\* The Win32 finds that are open are those of the entries in use, one each: no
\* find is leaked and none is closed that an entry still names, through the
\* failures of dempLFNAllocateHandleEntry and the ends of programs.
OneFindEach ==
  /\ open = {word[n] : n \in Live}
  /\ \A m, n \in Live : word[m] = word[n] => m = n

\* No search outlives its program: the next program with the same PDB would
\* have it under a handle it never opened.
SearchesOfTheLiving == \A n \in Live : pdb[n] \in alive

Searches ==
  [h \in {n + FLAG_INUSE : n \in Live} |->
     [pdb |-> pdb[h - FLAG_INUSE], find |-> word[h - FLAG_INUSE]]]

Abstract == INSTANCE LfnSearch WITH searches <- Searches

\* The table with its list through freed memory gives programs what LfnSearch
\* promises: a handle stands for one search of one program from open to close.
KeepsPromise == Abstract!Spec

\* The walks along the list end, so every service returns.
ServicesReturn == pc # "ready" ~> pc = "ready"
=============================================================================
