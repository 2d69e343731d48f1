------------------------------ MODULE SymCache ------------------------------
(***************************************************************************)
(* The loader's cache of private symbols, symcache.c.  The offsets of some *)
(* functions inside a system module are looked up with dbghelp and kept in *)
(* the registry together with the write time of the module's file; a later *)
(* process that finds the time unchanged and all offsets present does not  *)
(* load symbols again.                                                     *)
(*                                                                         *)
(* Every access to the registry is a step of its own.  Several processes   *)
(* do this at once, any of them may be ended at any point, and Windows     *)
(* Update exchanges the files while it restarts the system.                *)
(***************************************************************************)
EXTENDS Naturals, Sequences

CONSTANTS
  Threads,    \* threads that create processes
  Processes,
  ProcessOf,  \* [Threads -> Processes]
  Modules,    \* entries of g_aSyms64 and g_aSyms32
  Order,      \* the modules in the order of UpdateSymbolCache
  Places,     \* pairs of a registry key and a lpDLLKey
  PlaceOf,    \* [Modules -> Places]: REG_OpenLDNTVDM and REG_OpenLDNTVDMWOW64
  LastKey,    \* [Modules -> 1 .. MaxKey]: length of the entry's keys
  MaxKey,
  Versions,   \* of a module's file
  Matched,    \* modules MatchEng knows a pattern for: appinfo.dll
  PdbLacks,   \* <<module, version, key>> that SymEng_GetAddr does not find
  SigLacks,   \* <<module, version, key>> that MatchEng_FindSig does not find
  Rollback,   \* an update can be uninstalled
  MaxUpdates, \* bound on exchanges of files
  MaxKills,   \* bound on processes that are ended on the way
  None

Files == Modules \X Versions

ASSUME SymCacheAssumption ==
  /\ ProcessOf \in [Threads -> Processes]
  /\ Order \in Seq(Modules) /\ Order # <<>>
  /\ PlaceOf \in [Modules -> Places]
  /\ MaxKey \in Nat \ {0}
  /\ LastKey \in [Modules -> 1 .. MaxKey]
  /\ Versions \subseteq Nat /\ 1 \in Versions
  /\ Matched \subseteq Modules
  /\ PdbLacks \subseteq Modules \X Versions \X (1 .. MaxKey)
  /\ SigLacks \subseteq Modules \X Versions \X (1 .. MaxKey)
  /\ Rollback \in BOOLEAN
  /\ MaxUpdates \in Nat /\ MaxKills \in Nat
  /\ None \notin Files

VARIABLES
  file,       \* version of each module's file, the one every process has loaded
  published,  \* files whose symbols the server has
  time,       \* the file whose write time is stored at each place
  address,    \* the file each stored offset is of
  fUpdated,   \* UpdateSymbolCache's static of each process
  missed,     \* symbols a process last looked for in vain in a loaded module
  pc,
  mode,       \* fUpdate: "update" TRUE, "rebuild" 2, "peek" FALSE
  module,     \* the entry UpdateSymsForModule works on
  turn,       \* its position in Order, 0 for SymCache_GetDLLKey
  tm,         \* the file whose time was read, None once dwLowDateTime is 0
  i,          \* index into keys
  result,     \* what UpdateSymsForModule returns
  used,       \* offsets a thread has added to the module's base
  fetched,    \* the version whose symbols were last stored completely
  updates, kills

cache == <<time, address, fetched>>
system == <<file, published, updates, kills>>
process == <<fUpdated, missed>>
call == <<mode, module, turn, tm, i, result>>
vars == <<system, cache, process, pc, call, used>>

Keys == 1 .. MaxKey
Nothing == [k \in Keys |-> None]
Image(t) == <<module[t], file[module[t]]>>
Place(t) == PlaceOf[module[t]]

TypeOK ==
  /\ file \in [Modules -> Versions]
  /\ published \subseteq Files
  /\ time \in [Places -> Files \cup {None}]
  /\ address \in [Places -> [Keys -> Files \cup {None}]]
  /\ fUpdated \in [Processes -> BOOLEAN]
  /\ missed \in [Processes -> SUBSET (Modules \X Keys)]
  /\ pc \in [Threads -> {"idle", "time", "check", "load", "set", "match",
                         "return", "read", "resolved"}]
  /\ mode \in [Threads -> {"update", "rebuild", "peek"}]
  /\ module \in [Threads -> Modules]
  /\ turn \in [Threads -> 0 .. Len(Order)]
  /\ tm \in [Threads -> Files \cup {None}]
  /\ i \in [Threads -> 1 .. MaxKey + 1]
  /\ result \in [Threads -> BOOLEAN]
  /\ used \in [Threads -> [Keys -> Files \cup {None}]]
  /\ fetched \in [Modules -> Versions \cup {0}]
  /\ updates \in 0 .. MaxUpdates /\ kills \in 0 .. MaxKills

Init ==
  /\ file = [m \in Modules |-> 1]
  /\ published = {}
  /\ time = [p \in Places |-> None]
  /\ address = [p \in Places |-> Nothing]
  /\ fUpdated = [p \in Processes |-> FALSE]
  /\ missed = [p \in Processes |-> {}]
  /\ pc = [t \in Threads |-> "idle"]
  /\ mode = [t \in Threads |-> "update"]
  /\ module = [t \in Threads |-> Order[1]]
  /\ turn = [t \in Threads |-> 0]
  /\ tm = [t \in Threads |-> None]
  /\ i = [t \in Threads |-> 1]
  /\ result = [t \in Threads |-> FALSE]
  /\ used = [t \in Threads |-> Nothing]
  /\ fetched = [m \in Modules |-> 0]
  /\ updates = 0 /\ kills = 0

Goto(t, there) == pc' = [pc EXCEPT ![t] = there]

\* Thread t has returned to its own code; its locals are gone.
Done(t, there) ==
  /\ Goto(t, there)
  /\ turn' = [turn EXCEPT ![t] = 0]
  /\ tm' = [tm EXCEPT ![t] = None]
  /\ i' = [i EXCEPT ![t] = 1]
  /\ result' = [result EXCEPT ![t] = FALSE]

\* Nor is there anything else it still knows.
Forget(t) ==
  /\ mode' = [mode EXCEPT ![t] = "update"]
  /\ module' = [module EXCEPT ![t] = Order[1]]
  /\ used' = [used EXCEPT ![t] = Nothing]

Free(t) == pc[t] \in {"idle", "resolved"}
-----------------------------------------------------------------------------
(* Calls of UpdateSymsForModule.                                           *)

\* UpdateSymsForModule is called for m: from UpdateSymbolCache's loop at
\* position n, or from SymCache_GetDLLKey (0).
Call(t, m, n) ==
  /\ Goto(t, "time")
  /\ module' = [module EXCEPT ![t] = m]
  /\ turn' = [turn EXCEPT ![t] = n]
  /\ tm' = [tm EXCEPT ![t] = None]
  /\ i' = [i EXCEPT ![t] = 1]
  /\ UNCHANGED result

\* A thread that is to create a process: UpdateSymbolCache(TRUE), and
\* ResolveLocalSymbols' SymCache_GetDLLKey(.., TRUE) for m when it is TRUE.
UpdateSymbolCache(t) ==
  /\ Free(t)
  /\ mode' = [mode EXCEPT ![t] = "update"]
  /\ used' = [used EXCEPT ![t] = Nothing]
  /\ IF fUpdated[ProcessOf[t]]
       THEN (\E m \in Modules : Call(t, m, 0)) /\ UNCHANGED fUpdated
       ELSE /\ fUpdated' = [fUpdated EXCEPT ![ProcessOf[t]] = TRUE]
            /\ Call(t, Order[1], 1)
  /\ UNCHANGED <<system, cache, missed>>

\* RebuildSymbolCache, in a process of its own.
RebuildSymbolCache(t) ==
  /\ Free(t)
  /\ ~fUpdated[ProcessOf[t]]
  /\ mode' = [mode EXCEPT ![t] = "rebuild"]
  /\ fUpdated' = [fUpdated EXCEPT ![ProcessOf[t]] = TRUE]
  /\ Call(t, Order[1], 1)
  /\ UNCHANGED <<system, cache, missed, used>>

\* SymCache_GetDLLKey(.., FALSE) and then SymCache_GetProcAddress, as the
\* injectors do.
Peek(t, m) ==
  /\ Free(t)
  /\ mode' = [mode EXCEPT ![t] = "peek"]
  /\ used' = [used EXCEPT ![t] = Nothing]
  /\ Call(t, m, 0)
  /\ UNCHANGED <<system, cache, process>>

\* UpdateSymsForModule returns.
Result(t, r) == result' = [result EXCEPT ![t] = r] /\ Goto(t, "return")

\* Variant: only the last module's result counts.
LastUpdated(t) == result[t]

\* fUpdated, with the result of one more module.
AllUpdated(t) == fUpdated[ProcessOf[t]] /\ result[t]

\* Back in UpdateSymbolCache, `fUpdated &=`, and on to the next module; or
\* back in SymCache_GetDLLKey, which does not look at the result.
Return(t) ==
  /\ pc[t] = "return"
  /\ IF turn[t] = 0
       THEN /\ Goto(t, "read")
            /\ i' = [i EXCEPT ![t] = 1]
            /\ tm' = [tm EXCEPT ![t] = None]
            /\ result' = [result EXCEPT ![t] = FALSE]
            /\ UNCHANGED <<fUpdated, mode, module, turn, used>>
       ELSE /\ fUpdated' = [fUpdated EXCEPT ![ProcessOf[t]] = AllUpdated(t)]
            /\ \/ /\ turn[t] < Len(Order)
                  /\ Call(t, Order[turn[t] + 1], turn[t] + 1)
                  /\ UNCHANGED <<mode, used>>
               \/ /\ turn[t] = Len(Order)
                  /\ mode[t] = "update" /\ AllUpdated(t)
                  /\ \E m \in Modules : Call(t, m, 0)
                  /\ UNCHANGED <<mode, used>>
               \/ /\ turn[t] = Len(Order)
                  /\ ~(mode[t] = "update" /\ AllUpdated(t))
                  /\ Done(t, "idle") /\ Forget(t)
  /\ UNCHANGED <<system, cache, missed>>
-----------------------------------------------------------------------------
(* UpdateSymsForModule.                                                    *)

\* The time of the file is read, and compared with the stored one.
QueryTime(t) ==
  /\ pc[t] = "time"
  /\ tm' = [tm EXCEPT ![t] = Image(t)]
  /\ Goto(t, IF mode[t] # "rebuild" /\ time[Place(t)] = Image(t)
               THEN "check" ELSE "load")
  /\ UNCHANGED <<system, cache, process, mode, module, turn, i, result, used>>

\* Variant: as many offsets are looked for as any module has.
CheckEveryKey(t) ==
  /\ pc[t] = "check"
  /\ \/ /\ i[t] > MaxKey
        /\ Result(t, TRUE)
        /\ UNCHANGED i
     \/ /\ i[t] <= MaxKey
        /\ address[Place(t)][i[t]] # None
        /\ i' = [i EXCEPT ![t] = @ + 1]
        /\ UNCHANGED <<pc, result>>
     \/ /\ i[t] <= MaxKey
        /\ address[Place(t)][i[t]] = None
        /\ Goto(t, "load")
        /\ UNCHANGED <<i, result>>
  /\ UNCHANGED <<system, cache, process, mode, module, turn, tm, used>>

\* "it seems unchanged, now check if exports are present"
CheckKey(t) ==
  /\ pc[t] = "check"
  /\ \/ /\ i[t] > LastKey[module[t]]
        /\ Result(t, TRUE)
        /\ UNCHANGED i
     \/ /\ i[t] <= LastKey[module[t]]
        /\ address[Place(t)][i[t]] # None
        /\ i' = [i EXCEPT ![t] = @ + 1]
        /\ UNCHANGED <<pc, result>>
     \/ /\ i[t] <= LastKey[module[t]]
        /\ address[Place(t)][i[t]] = None
        /\ Goto(t, "load")
        /\ UNCHANGED <<i, result>>
  /\ UNCHANGED <<system, cache, process, mode, module, turn, tm, used>>

\* The symbol that is looked for; and those that were looked for in vain.
Symbol(t) == <<module[t], i[t]>>
Miss(t, S) == missed' = [missed EXCEPT ![ProcessOf[t]] = @ \cup S]

\* Variant: the time is stored before the offsets.
LoadAndStamp(t) ==
  /\ pc[t] = "load"
  /\ mode[t] # "peek"
  /\ Image(t) \in published
  /\ i' = [i EXCEPT ![t] = 1]
  /\ time' = [time EXCEPT ![Place(t)] = tm[t]]
  /\ Goto(t, "set")
  /\ UNCHANGED <<system, address, fetched, process, mode, module, turn, tm, result, used>>

\* SymEng_LoadModule succeeds, with the symbols that have been published.
Load(t) ==
  /\ pc[t] = "load"
  /\ mode[t] # "peek"
  /\ Image(t) \in published
  /\ i' = [i EXCEPT ![t] = 1]
  /\ Goto(t, "set")
  /\ UNCHANGED <<system, cache, process, mode, module, turn, tm, result, used>>

\* It succeeds also when there are no symbols to be had: dbghelp then makes do
\* with the exports, among which none of the keys is found.  UpdateSymsForModule
\* returns TRUE, what the place holds still stands, and the time is not stored.
\* Of appinfo.dll the pattern is searched for as when the load has failed.
LoadExports(t) ==
  /\ pc[t] = "load"
  /\ mode[t] # "peek" /\ module[t] \notin Matched
  /\ Miss(t, {module[t]} \X (1 .. LastKey[module[t]]))
  /\ tm' = [tm EXCEPT ![t] = None]
  /\ Result(t, TRUE)
  /\ UNCHANGED <<system, cache, fUpdated, mode, module, turn, i, used>>

\* It fails, for want of dbghelp or of the file; or it is not called.
\* appinfo.dll is then searched for a pattern.
LoadFails(t) ==
  /\ pc[t] = "load"
  /\ IF mode[t] # "peek" /\ module[t] \in Matched
       THEN /\ i' = [i EXCEPT ![t] = 1]
            /\ Goto(t, "match")
            /\ UNCHANGED result
       ELSE Result(t, FALSE) /\ UNCHANGED i
  /\ UNCHANGED <<system, cache, process, mode, module, turn, tm, used>>

\* It has been found: REG_SetDWORD of offset i.
Store(t) ==
  /\ address' = [address EXCEPT ![Place(t)][i[t]] = Image(t)]
  /\ missed' = [missed EXCEPT ![ProcessOf[t]] = @ \ {Symbol(t)}]
  /\ i' = [i EXCEPT ![t] = @ + 1]
  /\ UNCHANGED <<pc, tm>>

Lacking(t) == Append(Image(t), i[t])

\* Variant: an offset that is not found does not matter.
SetKeyOrSkip(t) ==
  /\ pc[t] = "set"
  /\ i[t] <= LastKey[module[t]]
  /\ \/ Lacking(t) \notin PdbLacks /\ Store(t)
     \/ /\ Lacking(t) \in PdbLacks
        /\ Miss(t, {Symbol(t)})
        /\ i' = [i EXCEPT ![t] = @ + 1]
        /\ UNCHANGED <<pc, tm, address>>
  /\ UNCHANGED <<system, time, fetched, fUpdated, mode, module, turn, result, used>>

\* SymEng_GetAddr finds offset i, or the time will not be stored.  For
\* appinfo.dll the search for the pattern begins instead.
SetKey(t) ==
  /\ pc[t] = "set"
  /\ i[t] <= LastKey[module[t]]
  /\ \/ Lacking(t) \notin PdbLacks /\ Store(t)
     \/ /\ Lacking(t) \in PdbLacks
        /\ IF module[t] \in Matched
             THEN /\ i' = [i EXCEPT ![t] = 1]
                  /\ Goto(t, "match")
                  /\ UNCHANGED <<tm, missed>>
             ELSE /\ tm' = [tm EXCEPT ![t] = None]
                  /\ i' = [i EXCEPT ![t] = @ + 1]
                  /\ Miss(t, {Symbol(t)})
                  /\ UNCHANGED pc
        /\ UNCHANGED address
  /\ UNCHANGED <<system, time, fetched, fUpdated, mode, module, turn, result, used>>

\* MatchEng_FindSig.
MatchKey(t) ==
  /\ pc[t] = "match"
  /\ i[t] <= LastKey[module[t]]
  /\ \/ Lacking(t) \notin SigLacks /\ Store(t)
     \/ /\ Lacking(t) \in SigLacks
        /\ tm' = [tm EXCEPT ![t] = None]
        /\ i' = [i EXCEPT ![t] = @ + 1]
        /\ UNCHANGED <<pc, address, missed>>
  /\ UNCHANGED <<system, time, fetched, fUpdated, mode, module, turn, result, used>>

\* The time is stored when no offset was missing.  With a pattern it is FALSE
\* that is returned, whatever was found.
StoreTime(t) ==
  /\ pc[t] \in {"set", "match"}
  /\ i[t] > LastKey[module[t]]
  /\ IF tm[t] # None
       THEN /\ time' = [time EXCEPT ![Place(t)] = tm[t]]
            /\ fetched' = [fetched EXCEPT ![module[t]] = tm[t][2]]
       ELSE UNCHANGED <<time, fetched>>
  /\ Result(t, pc[t] = "set")
  /\ UNCHANGED <<system, address, process, mode, module, turn, tm, i, used>>

\* SymCache_GetProcAddress of one symbol after another, to the first that is
\* missing.  An injector patches what it has found and is done.
Read(t) ==
  /\ pc[t] = "read"
  /\ \/ /\ i[t] > LastKey[module[t]]
        /\ mode[t] = "update"
        /\ Done(t, "resolved")
        /\ UNCHANGED <<mode, module, used>>
     \/ /\ i[t] > LastKey[module[t]]
        /\ mode[t] # "update"
        /\ Done(t, "idle") /\ Forget(t)
     \/ /\ i[t] <= LastKey[module[t]]
        /\ address[Place(t)][i[t]] # None
        /\ used' = [used EXCEPT ![t][i[t]] = address[Place(t)][i[t]]]
        /\ i' = [i EXCEPT ![t] = @ + 1]
        /\ UNCHANGED <<pc, mode, module, turn, tm, result>>
     \/ /\ i[t] <= LastKey[module[t]]
        /\ address[Place(t)][i[t]] = None
        /\ Done(t, "idle") /\ Forget(t)
  /\ UNCHANGED <<system, cache, process>>
-----------------------------------------------------------------------------
(* The system.                                                             *)

\* The processes of S are gone.
End(S) ==
  LET Gone == {t \in Threads : ProcessOf[t] \in S} IN
  /\ fUpdated' = [p \in Processes |-> IF p \in S THEN FALSE ELSE fUpdated[p]]
  /\ missed' = [p \in Processes |-> IF p \in S THEN {} ELSE missed[p]]
  /\ pc' = [t \in Threads |-> IF t \in Gone THEN "idle" ELSE pc[t]]
  /\ used' = [t \in Threads |-> IF t \in Gone THEN Nothing ELSE used[t]]
  /\ mode' = [t \in Threads |-> IF t \in Gone THEN "update" ELSE mode[t]]
  /\ module' = [t \in Threads |-> IF t \in Gone THEN Order[1] ELSE module[t]]
  /\ turn' = [t \in Threads |-> IF t \in Gone THEN 0 ELSE turn[t]]
  /\ tm' = [t \in Threads |-> IF t \in Gone THEN None ELSE tm[t]]
  /\ i' = [t \in Threads |-> IF t \in Gone THEN 1 ELSE i[t]]
  /\ result' = [t \in Threads |-> IF t \in Gone THEN FALSE ELSE result[t]]

\* A process ends when its threads are done.
Exit(p) ==
  /\ \A t \in Threads : ProcessOf[t] = p => Free(t)
  /\ End({p})
  /\ UNCHANGED <<cache, system>>

\* A process is ended in the middle.
Kill(p) ==
  /\ kills < MaxKills
  /\ kills' = kills + 1
  /\ End({p})
  /\ UNCHANGED <<cache, file, published, updates>>

\* The system restarts with another version of a module's file.
WindowsUpdate(m, v) ==
  /\ updates < MaxUpdates
  /\ updates' = updates + 1
  /\ v # file[m]
  /\ v > file[m] \/ Rollback
  /\ file' = [file EXCEPT ![m] = v]
  /\ End(Processes)
  /\ UNCHANGED <<cache, published, kills>>

\* The symbols of a file appear on the symbol server.
Publish(f) ==
  /\ f \in Files \ published
  /\ published' = published \cup {f}
  /\ UNCHANGED <<cache, file, updates, kills, process, pc, call, used>>

\* What a thread does on its own once it has been called.
Step(t) ==
  \/ Return(t)
  \/ QueryTime(t)
  \/ CheckKey(t)
  \/ Load(t)
  \/ LoadExports(t)
  \/ LoadFails(t)
  \/ SetKey(t)
  \/ MatchKey(t)
  \/ StoreTime(t)
  \/ Read(t)

Next ==
  \/ \E t \in Threads :
       \/ Step(t)
       \/ UpdateSymbolCache(t)
       \/ RebuildSymbolCache(t)
       \/ \E m \in Modules : Peek(t, m)
  \/ \E p \in Processes : Exit(p) \/ Kill(p)
  \/ \E m \in Modules, v \in Versions : WindowsUpdate(m, v)
  \/ \E f \in Files : Publish(f)

Spec == Init /\ [][Next]_vars

\* A thread goes on; whoever wants to start a program tries again; and now
\* and then the symbol server can be reached, whichever module it is for.  Of
\* appinfo.dll nothing is asked: the goto to its pattern leaves the module
\* loaded in dbghelp, and the process may not get another answer.
FairSpec ==
  /\ Spec
  /\ \A t \in Threads :
       /\ WF_vars(Step(t))
       /\ SF_vars(UpdateSymbolCache(t))
       /\ \A m \in Modules \ Matched : SF_vars(module[t] = m /\ Load(t))
-----------------------------------------------------------------------------
(* Properties.                                                             *)

\* UpdateSymsForModule would find that m's place needs no update.
Fresh(m) ==
  /\ time[PlaceOf[m]] = <<m, file[m]>>
  /\ \A k \in 1 .. LastKey[m] : address[PlaceOf[m]][k] # None

\* "No update needed, everything fine": what passes for unchanged is the
\* offsets of the very file, after any interleaving of processes, any kill and
\* any update.  A wrong one makes the loader call into the middle of a function.
FreshIsRight ==
  \A m \in Modules : Fresh(m) =>
    \A k \in 1 .. LastKey[m] : address[PlaceOf[m]][k] = <<m, file[m]>>

\* ResolveLocalSymbols has added offsets of the file the process has loaded to
\* its base, however stale the cache was and whoever wrote it meanwhile, but
\* for a symbol this very process last looked for in vain in what it could load
\* for that file: UpdateSymsForModule returns TRUE then, and what was stored
\* before still stands (NeverStale).
ResolvedIsRight ==
  \A t \in Threads : pc[t] = "resolved" =>
    \A k \in 1 .. LastKey[module[t]] :
      used[t][k] = Image(t) \/ <<module[t], k>> \in missed[ProcessOf[t]]

\* Without the exception, which the code does not make up for.
NeverStale ==
  \A t \in Threads : pc[t] = "resolved" =>
    \A k \in 1 .. LastKey[module[t]] : used[t][k] = Image(t)

\* readme.txt: once fetched, symbols are not fetched again until the file is
\* another one.
NotFetchedAgain ==
  [][\A t \in Threads :
       pc[t] \in {"time", "check"} /\ pc'[t] = "load" /\ mode[t] = "update" =>
         fetched[module[t]] # file[module[t]]]_vars

\* The symbols of each file can be had, or the pattern is found in it.
Available ==
  \A m \in Modules :
    LET Lacks(S) == \E k \in 1 .. LastKey[m] : <<m, file[m], k>> \in S IN
    IF m \in Matched THEN ~Lacks(SigLacks)
                     ELSE <<m, file[m]>> \in published /\ ~Lacks(PdbLacks)

\* readme.txt: when the symbols have become available the loader works again,
\* in whatever state kills, updates and failed attempts have left the cache.
WorksAgain ==
  \A t \in Threads :
    Available ~> (pc[t] = "resolved" \/ ~Available)
=============================================================================
