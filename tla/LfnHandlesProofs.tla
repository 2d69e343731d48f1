-------------------------- MODULE LfnHandlesProofs --------------------------
(***************************************************************************)
(* Proofs about LfnHandles, for any programs, finds and sizes of the       *)
(* table.                                                                  *)
(*                                                                         *)
(* FreeListSound is not inductive: that a list with one more link still    *)
(* runs down through all unused entries depends on where the walk that     *)
(* found the place was, and that shrinking the table cuts the list at its  *)
(* head depends on the entry above the list being in use.  IInv says both, *)
(* and how far the end of a program has come.                              *)
(***************************************************************************)
EXTENDS LfnHandles, TLAPS

\* The table and the service are where they can be.
Places ==
  /\ nAllocated = 0 => nEntries = 0 /\ pc \in {"ready", "close"}
  /\ pc = "ready" => ~ending
  /\ pc = "close" => ending
  /\ Shell \in alive
  /\ ending => current # Shell

\* But for a service that has still to shrink the table, its last entry is in
\* use.
Tight == pc # "shrink" /\ nEntries > 0 => nEntries - 1 \notin Unused

\* The walk stands between two unused entries, and has `entry` below it.
Walking ==
  pc = "walk" =>
    /\ entry < nEntries - 1
    /\ pdb[entry] # NoPdb
    /\ prev = -1 => next = lNextFree
    /\ prev # -1 => prev \in Unused /\ entry < prev /\ next = word[prev]

\* The entries of the program that ends are closed above i.
Ending == ending => \A n \in Live : n > i => pdb[n] # current

IInv ==
  /\ TypeOK
  /\ Places
  /\ FreeListSound
  /\ Tight
  /\ Walking
  /\ OneFindEach
  /\ SearchesOfTheLiving
  /\ Ending

LEMMA TellType ==
  ASSUME NEW s \in {"none", "opened", "label", "error", "next", "closed"},
         NEW v \in Handles \cup Finds
  PROVE  /\ [status |-> s, value |-> v] \in Replies
         /\ Tell(s, v) => reply' \in Replies
  BY DEF Replies, Tell

LEMMA InitIInv == Init => IInv
  <1> SUFFICES ASSUME Init PROVE IInv
    OBVIOUS
  <1> USE LfnHandlesAssumption
  <1>1. Unused = {} /\ Live = {}
    BY DEF Init, Unused, Live
  <1>2. TypeOK
    <2>1. 0 \in Handles
      BY DEF Handles, FLAG_INUSE
    <2>2. reply \in Replies
      BY <2>1, TellType DEF Init
    <2>3. /\ word \in [Index -> Finds \cup (-1 .. Limit - 1)]
          /\ pdb \in [Index -> Pdbs \cup {NoPdb}]
          /\ 0 \in Index /\ 0 \in 0 .. Limit - 1 /\ -1 \in -1 .. Limit - 1
          /\ 0 \in -1 .. Limit - 1 /\ 0 \in 0 .. 0
      BY DEF Init, Index
    <2> QED
      BY <2>2, <2>3 DEF Init, TypeOK
  <1>3. OneFindEach
    BY <1>1 DEF Init, OneFindEach
  <1> QED
    BY <1>1, <1>2, <1>3 DEF Init, IInv, Places, FreeListSound, Tight, Walking,
       SearchesOfTheLiving, Ending

\* The entry that Found(h) stands for is in use, by the current program.
LEMMA FoundIsLive ==
  ASSUME TypeOK, NEW h \in Handles, Found(h), pc # "walk"
  PROVE  /\ h - FLAG_INUSE \in Live
         /\ h - FLAG_INUSE \in Index
         /\ pdb[h - FLAG_INUSE] = current
  BY LfnHandlesAssumption
     DEF TypeOK, Found, Live, Freeing, Handles, FLAG_INUSE, Index

-----------------------------------------------------------------------------
(* Steps that leave the table alone.                                       *)

\* The list, the entries in use and the finds they hold are a matter of the
\* table, the open finds and the entry that is being freed.
LEMMA TableUnchanged ==
  ASSUME IInv, TypeOK', UNCHANGED <<table, open>>,
         pc # "walk", pc' # "walk"
  PROVE  /\ FreeListSound' /\ OneFindEach' /\ Walking'
         /\ Unused' = Unused /\ Live' = Live
  <1>1. Unused' = Unused /\ Live' = Live
    BY DEF table, Unused, Live, Freeing
  <1> QED
    BY <1>1 DEF IInv, table, FreeListSound, OneFindEach, Walking, Top
-----------------------------------------------------------------------------
(* Allocation.                                                             *)

\* Filling entry n, which was not in use, with the find f, which was not open.
LEMMA FillStep ==
  ASSUME IInv, pc = "ready", pc' = "ready",
         NEW f \in Finds \ open, NEW n \in Index,
         Fill(n, f),
         open' = open \cup {f},
         UNCHANGED <<programs, locals>>,
         n \notin Live,
         Live' = Live \cup {n}
  PROVE  OneFindEach' /\ SearchesOfTheLiving' /\ Ending' /\ Walking'
  <1> USE LfnHandlesAssumption DEF IInv, TypeOK
  <1>1. \A m \in Live : word'[m] = word[m] /\ pdb'[m] = pdb[m]
    BY DEF Fill, Live, Index
  <1>2. word'[n] = f /\ pdb'[n] = current
    BY DEF Fill
  <1>3. OneFindEach'
    BY <1>1, <1>2 DEF OneFindEach
  <1>4. SearchesOfTheLiving'
    BY <1>1, <1>2 DEF SearchesOfTheLiving, programs
  <1>5. Ending' /\ Walking'
    BY DEF Ending, Walking, Places, locals
  <1> QED
    BY <1>3, <1>4, <1>5

LEMMA AllocateStep ==
  ASSUME IInv, pc = "ready", NEW f \in Finds \ open, Allocate(f)
  PROVE  IInv' /\ \E n \in Index : /\ n \notin Live
                                   /\ Live' = Live \cup {n}
                                   /\ Fill(n, f)
                                   /\ Tell("opened", DosHandle(n))
  <1> USE LfnHandlesAssumption DEF IInv, TypeOK
  <1>0. UNCHANGED <<programs, pc, locals>> /\ open' = open \cup {f}
    BY DEF Allocate
  <1>1. CASE AllocateFirst(f)
    <2> USE <1>1 DEF AllocateFirst, Places
    <2>1. 0 \in Index /\ Fill(0, f)
      BY DEF Index
    <2>2. Live = {} /\ Live' = {0} /\ Unused' = {}
      BY <1>0, <2>1 DEF Live, Unused, Freeing, Fill, Index
    <2>3. DosHandle(0) \in Handles
      BY DEF DosHandle, Handles, FLAG_INUSE
    <2>4. TypeOK'
      <3>1. reply' \in Replies
        BY <2>3, TellType
      <3> QED
        BY <1>0, <2>1, <3>1 DEF Fill, Index, programs, locals
    <2>5. FreeListSound' /\ Tight'
      BY <2>2 DEF FreeListSound, Top, Tight
    <2>6. OneFindEach' /\ SearchesOfTheLiving' /\ Ending' /\ Walking'
      BY <1>0, <2>1, <2>2, FillStep
    <2>7. Places'
      BY <1>0 DEF Places, programs, locals
    <2> QED
      BY <2>1, <2>2, <2>4, <2>5, <2>6, <2>7
  <1>2. CASE AllocateFreed(f)
    <2> USE <1>2 DEF AllocateFreed
    <2> DEFINE n == lNextFree
    <2>1. n \in Unused /\ n \in Index /\ n \notin Live
      BY DEF FreeListSound, Top, Unused, Live, Index
    <2>2. Unused' = Unused \ {n} /\ Live' = Live \cup {n}
      BY <1>0, <2>1 DEF Unused, Live, Freeing, Fill, Index
    <2>3. DosHandle(n) \in Handles
      BY <2>1 DEF DosHandle, Handles, FLAG_INUSE, Index
    <2>4. TypeOK'
      <3>1. word[n] \in -1 .. Limit - 1
        BY <2>1 DEF FreeListSound, Top, Unused
      <3>2. reply' \in Replies
        BY <2>3, TellType
      <3> QED
        BY <1>0, <2>1, <3>1, <3>2 DEF Fill, programs, locals
    <2>5. FreeListSound'
      <3>1. Unused \subseteq 0 .. nEntries - 1
        BY DEF Unused
      <3>2. {m \in Unused : m < n} = Unused'
        <4>1. \A m \in Unused : m < n <=> m # n
          BY <2>1, <3>1 DEF FreeListSound, Top
        <4> QED
          BY <2>2, <4>1
      <3>3. \A k \in Unused' : /\ word'[k] = word[k]
                               /\ {m \in Unused' : m < k} = {m \in Unused : m < k}
        BY <2>2, <3>1, <3>2 DEF Fill, Index
      <3> QED
        BY <2>1, <2>2, <3>2, <3>3 DEF FreeListSound, Top
    <2>6. Tight'
      BY <1>0, <2>2 DEF Tight
    <2>7. OneFindEach' /\ SearchesOfTheLiving' /\ Ending' /\ Walking'
      BY <1>0, <2>1, <2>2, FillStep
    <2>8. Places'
      BY <1>0 DEF Places, programs, locals
    <2> QED
      BY <2>1, <2>2, <2>4, <2>5, <2>6, <2>7, <2>8
  <1>3. CASE AllocateLast(f)
    <2> USE <1>3 DEF AllocateLast
    <2> DEFINE n == nEntries
    <2>1. /\ n \in Index /\ n \notin Live
          /\ nAllocated' \in 0 .. Limit - 1 /\ nEntries' \in 0 .. nAllocated'
      BY DEF Live, Index
    <2>2. Unused = {}
      <3>1. -1 \notin Unused /\ Top(-1, Unused)
        BY DEF FreeListSound, Unused
      <3> QED
        BY <3>1 DEF Top
    <2>3. Unused' = {} /\ Live' = Live \cup {n}
      BY <1>0, <2>1, <2>2 DEF Unused, Live, Freeing, Fill, Index
    <2>4. DosHandle(n) \in Handles
      BY <2>1 DEF DosHandle, Handles, FLAG_INUSE, Index
    <2>5. TypeOK'
      <3>1. /\ word' \in [Index -> Finds \cup (-1 .. Limit - 1)]
            /\ pdb' \in [Index -> Pdbs \cup {NoPdb}]
        BY <2>1 DEF Fill
      <3>2. reply' \in Replies
        BY <2>4, TellType
      <3> QED
        BY <1>0, <2>1, <3>1, <3>2 DEF programs, locals
    <2>6. FreeListSound' /\ Tight'
      BY <2>3 DEF FreeListSound, Top, Tight
    <2>7. OneFindEach' /\ SearchesOfTheLiving' /\ Ending' /\ Walking'
      BY <1>0, <2>1, <2>3, FillStep
    <2>8. Places'
      BY <1>0, <2>1 DEF Places, programs, locals
    <2> QED
      BY <2>1, <2>3, <2>5, <2>6, <2>7, <2>8
  <1> QED
    BY <1>1, <1>2, <1>3 DEF Allocate
-----------------------------------------------------------------------------
(* Freeing.                                                                *)

\* The call of dempLFNFreeHandleEntry for an entry in use.
LEMMA FreeStep ==
  ASSUME IInv, pc \in {"ready", "close"}, NEW n \in Live,
         open' = open \ {word[n]},
         FreeHandleEntry(n),
         UNCHANGED <<programs, ending>>,
         reply' \in Replies,
         i' \in -1 .. Limit - 1,
         i' = i \/ (i' = i - 1 /\ n = i),
         pc = "close" <=> ending
  PROVE  IInv' /\ Live' = Live \ {n}
  <1> USE LfnHandlesAssumption DEF IInv, TypeOK
  <1>1. /\ n \in Index /\ n < nEntries /\ pdb[n] # NoPdb
        /\ nAllocated # 0
    BY DEF Live, Index, Places
  <1>2. Unused' = Unused /\ Live' = Live \ {n}
    <2>1. CASE n = nEntries - 1
      BY <1>1, <2>1 DEF FreeHandleEntry, Unused, Live, Freeing
    <2>2. CASE n # nEntries - 1
      BY <1>1, <2>2 DEF FreeHandleEntry, Unused, Live, Freeing
    <2> QED
      BY <2>1, <2>2
  <1>3. TypeOK'
    <2>1. UNCHANGED <<word, pdb, nAllocated, lNextFree>>
      BY DEF FreeHandleEntry
    <2>3. nEntries' = nEntries \/ nEntries' = nEntries - 1
      BY DEF FreeHandleEntry
    <2>4. nEntries' \in 0 .. nAllocated'
      BY <1>1, <2>1, <2>3 DEF Index
    <2>2. entry' \in Index /\ prev' \in -1 .. Limit - 1 /\ next' \in -1 .. Limit - 1
          /\ pc' \in {"ready", "shrink", "walk", "close"}
      BY <1>1 DEF FreeHandleEntry
    <2> QED
      BY <2>1, <2>2, <2>4 DEF programs
  <1>4. Places'
    BY <1>1 DEF FreeHandleEntry, Places, programs
  <1>5. FreeListSound'
    BY <1>2 DEF FreeHandleEntry, FreeListSound
  <1>6. Tight' /\ Walking'
    <2>1. CASE n = nEntries - 1
      <3>1. pc' = "shrink"
        BY <2>1 DEF FreeHandleEntry
      <3> QED
        BY <3>1 DEF Tight, Walking
    <2>2. CASE n # nEntries - 1
      <3>1. /\ pc' = "walk" /\ entry' = n /\ prev' = -1 /\ next' = lNextFree
            /\ UNCHANGED <<nEntries, pdb, lNextFree>>
        BY <2>2 DEF FreeHandleEntry
      <3>2. Tight'
        BY <1>2, <3>1 DEF Tight
      <3>3. n < nEntries - 1
        BY <1>1, <2>2 DEF Index
      <3> QED
        BY <1>1, <3>1, <3>2, <3>3 DEF Walking
    <2> QED
      BY <2>1, <2>2
  <1>7. OneFindEach'
    BY <1>1, <1>2 DEF FreeHandleEntry, OneFindEach
  <1>8. SearchesOfTheLiving'
    BY <1>2 DEF FreeHandleEntry, SearchesOfTheLiving, programs
  <1>9. Ending'
    <2> SUFFICES ASSUME ending, NEW m \in Live \ {n}, m > i'
                 PROVE  pdb[m] # current
      BY <1>2 DEF FreeHandleEntry, Ending, programs
    <2>1. m \in Int /\ n \in Int /\ m # n
      BY <1>1 DEF Live
    <2>2. m > i
      BY <2>1
    <2> QED
      BY <2>2 DEF Ending
  <1> QED
    BY <1>2, <1>3, <1>4, <1>5, <1>6, <1>7, <1>8, <1>9

LEMMA ShrinkStep ==
  ASSUME IInv, Shrink
  PROVE  /\ IInv' /\ Live' = Live
         /\ UNCHANGED <<word, pdb, programs, reply>>
  <1> USE LfnHandlesAssumption DEF IInv, TypeOK
  <1>0. pc = "shrink" /\ nAllocated # 0
    BY DEF Shrink, Places
  <1>1. CASE lNextFree # -1 /\ lNextFree = nEntries - 1
    <2> USE <1>0, <1>1 DEF Shrink
    <2>1. lNextFree \in Unused
      BY DEF FreeListSound, Top
    <2>2. Unused' = Unused \ {lNextFree} /\ Live' = Live
      BY <2>1 DEF Unused, Live, Freeing, locals
    <2>3. {m \in Unused : m < lNextFree} = Unused'
      BY <2>1, <2>2 DEF FreeListSound, Top, Unused
    <2>4. word[lNextFree] \in -1 .. Limit - 1
      BY <2>1 DEF FreeListSound, Top, Unused
    <2>5. TypeOK'
      BY <2>1, <2>4 DEF programs, locals, Unused
    <2>6. FreeListSound'
      <3>1. Unused \subseteq 0 .. nEntries - 1
        BY DEF Unused
      <3>2. \A k \in Unused' : {m \in Unused' : m < k} = {m \in Unused : m < k}
        BY <2>2, <2>3, <3>1
      <3> QED
        BY <2>1, <2>2, <2>3, <3>2 DEF FreeListSound
    <2>7. Tight' /\ Walking' /\ Places'
      BY DEF Tight, Walking, Places, locals, programs
    <2>8. OneFindEach' /\ SearchesOfTheLiving' /\ Ending'
      BY <2>2 DEF OneFindEach, SearchesOfTheLiving, Ending, locals, programs
    <2> QED
      BY <2>2, <2>5, <2>6, <2>7, <2>8
  <1>2. CASE ~(lNextFree # -1 /\ lNextFree = nEntries - 1)
    <2> USE <1>0, <1>2 DEF Shrink, Return
    <2>1. pc' \in {"ready", "close"}
      OBVIOUS
    <2>2. Unused' = Unused /\ Live' = Live
      BY <2>1 DEF Unused, Live, Freeing
    <2>3. nEntries > 0 => nEntries - 1 \notin Unused
      <3> SUFFICES ASSUME nEntries - 1 \in Unused PROVE FALSE
        OBVIOUS
      <3>1. lNextFree \in Unused /\ nEntries - 1 <= lNextFree
        BY DEF FreeListSound, Top
      <3> QED
        BY <3>1 DEF Unused
    <2>4. TypeOK' /\ Places'
      BY DEF programs, Places
    <2>5. FreeListSound' /\ Tight' /\ Walking'
      BY <2>1, <2>2, <2>3 DEF FreeListSound, Top, Tight, Walking
    <2>6. OneFindEach' /\ SearchesOfTheLiving' /\ Ending'
      BY <2>2 DEF OneFindEach, SearchesOfTheLiving, Ending, programs
    <2> QED
      BY <2>2, <2>4, <2>5, <2>6
  <1> QED
    BY <1>1, <1>2

LEMMA WalkStep ==
  ASSUME IInv, Walk
  PROVE  /\ IInv' /\ Live' = Live
         /\ UNCHANGED <<word, pdb, programs, reply>>
  <1> USE LfnHandlesAssumption DEF IInv, TypeOK
  <1>0. /\ UNCHANGED <<table, open, programs, reply, pc, entry, i, ending>>
        /\ pc = "walk" /\ next > entry /\ prev' = next /\ next' = word[next]
    BY DEF Walk
  <1>1. Unused' = Unused /\ Live' = Live
    BY <1>0 DEF table, Unused, Live, Freeing
  <1>2. next \in Unused
    BY <1>0 DEF Walking, Places, FreeListSound, Top, Index
  <1>3. word[next] \in -1 .. Limit - 1
    BY <1>2 DEF FreeListSound, Top, Unused
  <1>4. TypeOK'
    BY <1>0, <1>2, <1>3 DEF table, programs, Unused
  <1>5. Walking'
    BY <1>0, <1>1, <1>2 DEF Walking, table, Index
  <1>6. FreeListSound' /\ Tight' /\ Places'
    BY <1>0, <1>1 DEF FreeListSound, Tight, Places, table, programs
  <1>7. OneFindEach' /\ SearchesOfTheLiving' /\ Ending'
    BY <1>0, <1>1 DEF OneFindEach, SearchesOfTheLiving, Ending, table, programs
  <1> QED
    BY <1>0, <1>1, <1>4, <1>5, <1>6, <1>7 DEF table

\* `entry` becomes a link between the unused entry above it and the one below.
LEMMA LinkKeepsList ==
  ASSUME IInv, Link
  PROVE  FreeListSound' /\ Unused' = Unused \cup {entry}
  <1> USE LfnHandlesAssumption DEF IInv, TypeOK
  <1>0. /\ pc = "walk" /\ nAllocated # 0
        /\ entry \in Index /\ entry < nEntries - 1 /\ entry \notin Unused
        /\ Unused \subseteq Index
    BY DEF Link, Places, Walking, Unused, Index
  <1>1. Unused' = Unused \cup {entry}
    BY <1>0 DEF Link, Unused, Index
  <1>2. CASE prev = -1
    <2> USE <1>0, <1>2 DEF Link
    <2>1. /\ Top(lNextFree, Unused) /\ lNextFree <= entry
          /\ word' = [word EXCEPT ![entry] = lNextFree] /\ lNextFree' = entry
      BY DEF Walking, FreeListSound
    <2>2. \A m \in Unused : m < entry
      BY <2>1 DEF Top, Index
    <2>3. Top(lNextFree', Unused')
      BY <1>1, <2>1, <2>2 DEF Top, Index
    <2>4. {m \in Unused' : m < entry} = Unused
      <3>1. \A m \in Unused' : m < entry <=> m \in Unused
        BY <1>1, <2>2 DEF Index
      <3> QED
        BY <1>1, <3>1
    <2>5. ASSUME NEW k \in Unused
          PROVE  word'[k] = word[k]
                 /\ {m \in Unused' : m < k} = {m \in Unused : m < k}
      BY <1>1, <2>1, <2>2, <2>5 DEF Index
    <2>6. Top(word'[entry], {m \in Unused' : m < entry})
      BY <2>1, <2>4 DEF Index
    <2>7. \A k \in Unused : Top(word'[k], {m \in Unused' : m < k})
      BY <2>5 DEF FreeListSound
    <2> QED
      BY <1>1, <2>3, <2>6, <2>7 DEF FreeListSound
  <1>3. CASE prev # -1
    <2> USE <1>0, <1>3 DEF Link
    <2>1. /\ prev \in Unused /\ entry < prev /\ next = word[prev] /\ next <= entry
          /\ word' = [word EXCEPT ![entry] = word[prev], ![prev] = entry]
          /\ lNextFree' = lNextFree
      BY DEF Walking
    <2>2. Top(next, {m \in Unused : m < prev})
      BY <2>1 DEF FreeListSound
    <2>3. \A m \in Unused : m < prev => m < entry
      BY <2>1, <2>2 DEF Top, Index
    <2>4. Top(lNextFree', Unused')
      <3>1. lNextFree \in Unused /\ prev <= lNextFree /\ \A y \in Unused : y <= lNextFree
        BY <2>1 DEF FreeListSound, Top
      <3> QED
        BY <1>1, <2>1, <3>1 DEF Top, Index
    <2>5. Top(word'[entry], {m \in Unused' : m < entry})
      <3>1. {m \in Unused' : m < entry} = {m \in Unused : m < prev}
        <4>1. /\ \A m \in Unused' : m < entry => m \in Unused /\ m < prev
              /\ \A m \in Unused : m < prev => m \in Unused' /\ m < entry
          BY <1>1, <2>1, <2>3 DEF Index
        <4> QED
          BY <4>1
      <3>2. word'[entry] = next
        BY <2>1 DEF Index
      <3> QED
        BY <2>2, <3>1, <3>2
    <2>6. Top(word'[prev], {m \in Unused' : m < prev})
      <3>1. word'[prev] = entry
        BY <2>1 DEF Index
      <3>2. \A m \in Unused' : m < prev => m <= entry
        BY <1>1, <2>3 DEF Index
      <3> QED
        BY <1>1, <2>1, <3>1, <3>2 DEF Top
    <2>7. ASSUME NEW k \in Unused, k # prev
          PROVE  Top(word'[k], {m \in Unused' : m < k})
      <3>1. word'[k] = word[k] /\ Top(word[k], {m \in Unused : m < k}) /\ k \in Index
        BY <2>1, <2>7 DEF FreeListSound
      <3>2. CASE k < prev
        <4>1. {m \in Unused' : m < k} = {m \in Unused : m < k}
          BY <1>1, <2>3, <2>7, <3>2 DEF Index
        <4> QED
          BY <3>1, <4>1
      <3>3. CASE k > prev
        <4>1. word[k] \in Unused /\ word[k] < k /\ prev <= word[k]
              /\ \A y \in Unused : y < k => y <= word[k]
          BY <2>1, <3>1, <3>3 DEF Top
        <4>2. entry <= word[k]
          <5>1. word[k] \in Index /\ prev \in Index
            BY <2>1, <4>1
          <5>2. prev <= word[k] /\ entry < prev
            BY <2>1, <4>1
          <5> QED
            BY <5>1, <5>2 DEF Index
        <4>3. \A y \in Unused' : y < k => y <= word[k]
          BY <1>1, <4>1, <4>2
        <4> QED
          BY <1>1, <3>1, <4>1, <4>3 DEF Top
      <3> QED
        BY <2>1, <2>7, <3>1, <3>2, <3>3 DEF Index
    <2> HIDE <1>0, <1>3 DEF Link, IInv, TypeOK
    <2>8. \A k \in Unused : Top(word'[k], {m \in Unused' : m < k})
      BY <2>6, <2>7
    <2>9. \A k \in Unused' : Top(word'[k], {m \in Unused' : m < k})
      BY <1>1, <2>5, <2>8
    <2> QED
      BY <1>1, <2>4, <2>9 DEF FreeListSound
  <1> QED
    BY <1>1, <1>2, <1>3

LEMMA LinkStep ==
  ASSUME IInv, Link
  PROVE  /\ IInv' /\ Live' = Live
         /\ \A m \in Live : word'[m] = word[m] /\ pdb'[m] = pdb[m]
         /\ UNCHANGED <<programs, reply>>
  <1> USE LfnHandlesAssumption DEF IInv, TypeOK
  <1>0. /\ pc = "walk" /\ pc' \in {"ready", "close"}
        /\ entry \in Index /\ entry < nEntries - 1
        /\ prev # -1 => prev \in Unused
        /\ pdb' = [pdb EXCEPT ![entry] = NoPdb]
        /\ UNCHANGED <<nEntries, nAllocated, open, programs, reply, i, ending>>
    BY DEF Link, Return, Walking
  <1>1. FreeListSound' /\ Unused' = Unused \cup {entry}
    BY LinkKeepsList
  <1>2. Live' = Live
    BY <1>0 DEF Live, Freeing, Index
  <1>3. \A m \in Live : word'[m] = word[m] /\ pdb'[m] = pdb[m]
    BY <1>0 DEF Live, Freeing, Link, Unused, Index
  <1>4. TypeOK'
    <2>1. prev # -1 => word[prev] \in -1 .. Limit - 1
      BY <1>0 DEF FreeListSound, Top, Unused
    <2>2. word' \in [Index -> Finds \cup (-1 .. Limit - 1)]
      BY <1>0, <2>1 DEF Link, Index
    <2> QED
      BY <1>0, <2>2 DEF Link, Return, Index, programs
  <1>5. Tight' /\ Walking' /\ Places'
    BY <1>0, <1>1 DEF Tight, Walking, Places, Link, Return, programs
  <1>6. OneFindEach' /\ SearchesOfTheLiving' /\ Ending'
    BY <1>0, <1>2, <1>3 DEF OneFindEach, SearchesOfTheLiving, Ending, programs
  <1> QED
    BY <1>0, <1>1, <1>2, <1>3, <1>4, <1>5, <1>6
-----------------------------------------------------------------------------
(* The services that leave the table alone.                                *)

\* Any of them that also leaves the programs alone and is not the end of one.
LEMMA QuietStep ==
  ASSUME IInv, pc = "ready", reply' \in Replies,
         UNCHANGED <<table, open, programs, pc, locals>>
  PROVE  IInv' /\ Live' = Live
  <1> USE DEF IInv, TypeOK
  <1>1. TypeOK'
    BY DEF table, programs, locals
  <1>2. /\ FreeListSound' /\ OneFindEach' /\ Walking'
        /\ Unused' = Unused /\ Live' = Live
    BY <1>1, TableUnchanged
  <1>3. Places' /\ Tight'
    BY <1>2 DEF Places, Tight, table, programs, locals
  <1>4. SearchesOfTheLiving' /\ Ending'
    BY <1>2 DEF SearchesOfTheLiving, Ending, table, programs, locals
  <1> QED
    BY <1>1, <1>2, <1>3, <1>4

LEMMA FailStep ==
  ASSUME IInv, pc = "ready", Fail
  PROVE  IInv' /\ Live' = Live
  <1>1. 0 \in Handles
    BY LfnHandlesAssumption DEF Handles, FLAG_INUSE
  <1>2. reply' \in Replies
    BY <1>1, TellType DEF Fail
  <1> QED
    BY <1>2, QuietStep DEF Fail

LEMMA FindNextStep ==
  ASSUME IInv, NEW h \in Handles, FindNext(h), Found(h)
  PROVE  IInv' /\ Live' = Live
  <1>1. h - FLAG_INUSE \in Live
    BY FoundIsLive DEF IInv, FindNext
  <1>2. word[h - FLAG_INUSE] \in Finds
    BY <1>1 DEF IInv, TypeOK, OneFindEach
  <1>3. reply' \in Replies
    BY <1>2, TellType DEF FindNext, Fail
  <1> QED
    BY <1>3, QuietStep DEF FindNext, Fail

LEMMA AbortStep ==
  ASSUME IInv, Abort
  PROVE  /\ IInv' /\ Live' = Live
         /\ UNCHANGED <<word, pdb, programs, reply>>
  <1> USE LfnHandlesAssumption DEF IInv, TypeOK, Abort
  <1>1. TypeOK'
    BY DEF table, programs
  <1>2. /\ FreeListSound' /\ OneFindEach' /\ Walking'
        /\ Unused' = Unused /\ Live' = Live
    BY <1>1, TableUnchanged
  <1>3. Places' /\ Tight'
    BY <1>2 DEF Places, Tight, table, programs
  <1>4. SearchesOfTheLiving'
    BY <1>2 DEF SearchesOfTheLiving, table, programs
  <1>5. Ending'
    BY <1>2 DEF Ending, Live, table
  <1> QED
    BY <1>1, <1>2, <1>3, <1>4, <1>5 DEF table

LEMMA CloseSearchHandleStep ==
  ASSUME IInv, CloseSearchHandle
  PROVE  /\ IInv'
         /\ UNCHANGED <<programs, reply>>
         /\ \/ Found(i + FLAG_INUSE) /\ i \in Live /\ Live' = Live \ {i}
            \/ Live' = Live
         /\ UNCHANGED <<word, pdb>>
  <1> USE LfnHandlesAssumption DEF IInv, TypeOK, CloseSearchHandle
  <1>0. /\ pc = "close" /\ i \in Index /\ i + FLAG_INUSE \in Handles
        /\ i' = i - 1 /\ i' \in -1 .. Limit - 1
        /\ (i + FLAG_INUSE) - FLAG_INUSE = i
        /\ ending
    BY DEF Places, Index, Handles, FLAG_INUSE
  <1>1. CASE Found(i + FLAG_INUSE)
    <2>1. i \in Live
      BY <1>0, <1>1, FoundIsLive
    <2>2. IInv' /\ Live' = Live \ {i}
      BY <1>0, <1>1, <2>1, FreeStep
    <2> QED
      BY <1>1, <2>1, <2>2 DEF FreeHandleEntry
  <1>2. CASE ~Found(i + FLAG_INUSE)
    <2>0. UNCHANGED <<table, open, pc, entry, prev, next>>
      BY <1>2
    <2>1. TypeOK'
      BY <1>0, <2>0 DEF table, programs
    <2>2. /\ FreeListSound' /\ OneFindEach' /\ Walking'
          /\ Unused' = Unused /\ Live' = Live
      BY <1>0, <2>0, <2>1, TableUnchanged
    <2>3. Places' /\ Tight'
      BY <1>0, <2>0, <2>2 DEF Places, Tight, table, programs
    <2>4. SearchesOfTheLiving'
      BY <2>0, <2>2 DEF SearchesOfTheLiving, table, programs
    <2>5. Ending'
      <3> SUFFICES ASSUME NEW m \in Live, m > i - 1 PROVE pdb[m] # current
        BY <1>0, <2>0, <2>2 DEF Ending, table, programs
      <3>1. m \in Nat /\ m < nEntries
        BY DEF Live
      <3>2. CASE m = i
        BY <1>0, <1>2, <3>1, <3>2 DEF Found, Places, Index, FLAG_INUSE
      <3>3. CASE m > i
        BY <1>0, <3>3 DEF Ending
      <3> QED
        BY <1>0, <3>1, <3>2, <3>3 DEF Index
    <2> QED
      BY <2>0, <2>1, <2>2, <2>3, <2>4, <2>5 DEF table
  <1> QED
    BY <1>1, <1>2

LEMMA ExitStep ==
  ASSUME IInv, NEW p \in Pdbs, Exit(p)
  PROVE  /\ IInv' /\ Live' = Live
         /\ \A n \in Live : pdb[n] # current
  <1> USE LfnHandlesAssumption DEF IInv, TypeOK, Exit
  <1>0. \A n \in Live : pdb[n] # current
    BY DEF Ending, Places, Live
  <1>1. TypeOK'
    BY DEF table
  <1>2. /\ FreeListSound' /\ OneFindEach' /\ Walking'
        /\ Unused' = Unused /\ Live' = Live
    BY <1>1, TableUnchanged
  <1>3. Places' /\ Tight'
    BY <1>2 DEF Places, Tight, table
  <1>4. SearchesOfTheLiving' /\ Ending'
    BY <1>0, <1>2 DEF SearchesOfTheLiving, Ending, table
  <1> QED
    BY <1>0, <1>1, <1>2, <1>3, <1>4

LEMMA ExecSwitchStep ==
  ASSUME IInv, NEW p \in Pdbs, Exec(p) \/ Switch(p)
  PROVE  IInv' /\ Live' = Live
  <1> USE LfnHandlesAssumption DEF IInv, TypeOK, Exec, Switch
  <1>1. TypeOK'
    BY DEF table, locals
  <1>2. /\ FreeListSound' /\ OneFindEach' /\ Walking'
        /\ Unused' = Unused /\ Live' = Live
    BY <1>1, TableUnchanged
  <1>3. Places' /\ Tight'
    BY <1>2 DEF Places, Tight, table, locals
  <1>4. SearchesOfTheLiving' /\ Ending'
    BY <1>2 DEF SearchesOfTheLiving, Ending, Places, table, locals
  <1> QED
    BY <1>1, <1>2, <1>3, <1>4

LEMMA FindCloseStep ==
  ASSUME IInv, NEW h \in Handles, FindClose(h), Found(h)
  PROVE  /\ IInv' /\ h - FLAG_INUSE \in Live
         /\ Live' = Live \ {h - FLAG_INUSE}
         /\ UNCHANGED <<word, pdb, programs>>
         /\ Tell("closed", h)
  <1> DEFINE n == h - FLAG_INUSE
  <1>0. Found(h) /\ FreeHandleEntry(n) /\ Tell("closed", h)
        /\ open' = open \ {word[n]} /\ UNCHANGED <<programs, i, ending>>
        /\ pc = "ready"
    BY DEF FindClose, Fail
  <1>1. n \in Live
    BY <1>0, FoundIsLive DEF IInv
  <1>2. reply' \in Replies
    BY <1>0, TellType
  <1>3. i' \in -1 .. Limit - 1 /\ i' = i /\ (pc = "close" <=> ending)
        /\ UNCHANGED <<programs, ending>>
    BY <1>0 DEF IInv, TypeOK, Places
  <1>4. IInv' /\ Live' = Live \ {n}
    <2> HIDE DEF n
    <2> QED
      BY <1>0, <1>1, <1>2, <1>3, FreeStep
  <1> QED
    BY <1>0, <1>1, <1>4 DEF FreeHandleEntry

LEMMA NextIInv ==
  ASSUME IInv, [Next]_vars
  PROVE  IInv'
  <1>1. CASE UNCHANGED vars
    BY <1>1 DEF vars, table, programs, locals, IInv, TypeOK, Places, FreeListSound,
       Tight, Walking, OneFindEach, SearchesOfTheLiving, Ending, Unused, Live,
       Freeing, Top
  <1>2. CASE Shrink
    BY <1>2, ShrinkStep
  <1>3. CASE Walk
    BY <1>3, WalkStep
  <1>4. CASE Link
    BY <1>4, LinkStep
  <1>5. CASE CloseSearchHandle
    BY <1>5, CloseSearchHandleStep
  <1>6. ASSUME NEW p \in Pdbs, Exit(p) PROVE IInv'
    BY <1>6, ExitStep
  <1>7. ASSUME NEW f \in Finds, FindFirst(f) \/ WowAllocateSearchHandle(f)
        PROVE  IInv'
    BY <1>7, AllocateStep, FailStep DEF FindFirst, WowAllocateSearchHandle
  <1>8. ASSUME NEW h \in Garbage, FindFirstLabel(h) PROVE IInv'
    <2>1. h \in Handles
      BY LfnHandlesAssumption DEF Handles, FLAG_INUSE
    <2> QED
      BY <1>8, <2>1, TellType, QuietStep DEF FindFirstLabel
  <1>9. ASSUME NEW h \in Handles, FindNext(h) PROVE IInv'
    BY <1>9, FindNextStep, FailStep DEF FindNext
  <1>10. ASSUME NEW h \in Handles, FindClose(h) PROVE IInv'
    BY <1>10, FindCloseStep, FailStep DEF FindClose
  <1>11. CASE Abort
    BY <1>11, AbortStep
  <1>12. ASSUME NEW p \in Pdbs, Exec(p) \/ Switch(p) PROVE IInv'
    BY <1>12, ExecSwitchStep
  <1> QED
    BY <1>1, <1>2, <1>3, <1>4, <1>5, <1>6, <1>7, <1>8, <1>9, <1>10, <1>11, <1>12
       DEF Next, Step

\* The inductive invariant holds of every behaviour: the list of unused
\* entries, the places of the loops and what the entries name fit together.
THEOREM Invariance == Spec => []IInv
  BY InitIInv, NextIInv, PTL DEF Spec

\* The variables keep their types, for any number of programs, finds and
\* entries: the table never outgrows its limit.
THEOREM LfnHandlesType == Spec => []TypeOK
  BY Invariance, PTL DEF IInv

\* The list of unused entries runs down through exactly these, whatever
\* programs opened, closed or left behind (dempLFNFreeHandleEntry).
THEOREM ListSound == Spec => []FreeListSound
  BY Invariance, PTL DEF IInv

\* The last entry of the table is in use between two services.
THEOREM Tightness == Spec => []TableIsTight
  <1>1. IInv => TableIsTight
    BY DEF IInv, Tight, TableIsTight
  <1> QED
    BY <1>1, Invariance, PTL

\* The finds open in Win32 are those of the entries in use, one each.
THEOREM OneFind == Spec => []OneFindEach
  BY Invariance, PTL DEF IInv

\* A search belongs to a running program (dempLFNCloseSearchHandles).
THEOREM NoneOutlives == Spec => []SearchesOfTheLiving
  BY Invariance, PTL DEF IInv
-----------------------------------------------------------------------------
(* LfnHandles implements LfnSearch when each entry has a handle of its own. *)

Domain == {n + FLAG_INUSE : n \in Live}

\* A handle in the domain stands for one entry.
LEMMA SearchOf ==
  ASSUME TypeOK, NEW n \in Live
  PROVE  /\ n + FLAG_INUSE \in DOMAIN Searches
         /\ n + FLAG_INUSE \in Handles
         /\ Searches[n + FLAG_INUSE] = [pdb |-> pdb[n], find |-> word[n]]
  <1>1. n \in Nat /\ n < Limit /\ n + FLAG_INUSE - FLAG_INUSE = n
    BY LfnHandlesAssumption DEF Live, TypeOK, FLAG_INUSE
  <1>2. n + FLAG_INUSE \in Domain
    BY DEF Domain
  <1> QED
    BY <1>1, <1>2, LfnHandlesAssumption DEF Searches, Domain, Handles, FLAG_INUSE

\* The searches are a matter of the entries in use.
LEMMA SearchesSame ==
  ASSUME IInv, IInv', Live' = Live,
         \A n \in Live : word'[n] = word[n] /\ pdb'[n] = pdb[n]
  PROVE  Searches' = Searches
  <1>1. \A h \in Domain : h - FLAG_INUSE \in Live
    BY LfnHandlesAssumption DEF Domain, Live, IInv, TypeOK, FLAG_INUSE
  <1>2. \A h \in Domain :
          [pdb |-> pdb'[h - FLAG_INUSE], find |-> word'[h - FLAG_INUSE]]
            = [pdb |-> pdb[h - FLAG_INUSE], find |-> word[h - FLAG_INUSE]]
    BY <1>1
  <1>3. Domain' = Domain
    BY DEF Domain, FLAG_INUSE
  <1> QED
    BY <1>2, <1>3 DEF Searches, Domain, FLAG_INUSE

\* One entry leaves.
LEMMA SearchesLess ==
  ASSUME IInv, NEW n \in Live, Live' = Live \ {n}, UNCHANGED <<word, pdb>>
  PROVE  Searches' = [g \in DOMAIN Searches \ {n + FLAG_INUSE} |-> Searches[g]]
  <1>1. Live \subseteq Int /\ FLAG_INUSE \in Int
    BY LfnHandlesAssumption DEF Live, IInv, TypeOK, FLAG_INUSE
  <1>2. {m + FLAG_INUSE : m \in Live \ {n}} = Domain \ {n + FLAG_INUSE}
    BY <1>1 DEF Domain
  <1> QED
    BY <1>2 DEF Searches, Domain, FLAG_INUSE

\* One entry joins.
LEMMA SearchesMore ==
  ASSUME IInv, NEW n \in Index, n \notin Live, Live' = Live \cup {n},
         NEW f, Fill(n, f)
  PROVE  LET h == n + FLAG_INUSE
         IN  /\ h \notin DOMAIN Searches
             /\ Searches' = [g \in DOMAIN Searches \cup {h} |->
                               IF g = h THEN [pdb |-> current, find |-> f]
                                        ELSE Searches[g]]
  <1> DEFINE h == n + FLAG_INUSE
  <1>1. Live \subseteq Int /\ FLAG_INUSE \in Int /\ n \in Int
    BY LfnHandlesAssumption DEF Live, IInv, TypeOK, FLAG_INUSE, Index
  <1>2. h \notin Domain /\ h - FLAG_INUSE = n
    BY <1>1 DEF Domain
  <1>3. {m + FLAG_INUSE : m \in Live \cup {n}} = Domain \cup {h}
    BY DEF Domain
  <1>4. word'[n] = f /\ pdb'[n] = current
    BY DEF Fill, IInv, TypeOK
  <1>5. \A g \in Domain : /\ g - FLAG_INUSE \in Index
                          /\ word'[g - FLAG_INUSE] = word[g - FLAG_INUSE]
                          /\ pdb'[g - FLAG_INUSE] = pdb[g - FLAG_INUSE]
    <2> SUFFICES ASSUME NEW m \in Live
                 PROVE  m \in Index /\ word'[m] = word[m] /\ pdb'[m] = pdb[m]
      BY <1>1 DEF Domain
    <2>1. m \in Index /\ m # n
      BY LfnHandlesAssumption DEF Live, IInv, TypeOK, Index
    <2> QED
      BY <2>1 DEF Fill, IInv, TypeOK
  <1>6. DOMAIN Searches = Domain /\ DOMAIN Searches' = Domain \cup {h}
    BY <1>3 DEF Searches, Domain, FLAG_INUSE
  <1>7. \A g \in Domain : Searches'[g] = Searches[g]
    BY <1>3, <1>5 DEF Searches, Domain, FLAG_INUSE
  <1>8. Searches'[h] = [pdb |-> current, find |-> f]
    BY <1>2, <1>3, <1>4 DEF Searches, FLAG_INUSE
  <1>9. Searches' = [g \in Domain \cup {h} |-> Searches'[g]]
    BY <1>3 DEF Searches, FLAG_INUSE
  <1> QED
    BY <1>2, <1>6, <1>7, <1>8, <1>9

LEMMA InitImplements == Init => Abstract!Init
  <1> SUFFICES ASSUME Init PROVE Abstract!Init
    OBVIOUS
  <1>1. Live = {}
    BY DEF Init, Live
  <1>2. Searches = [h \in {} |-> h]
    BY <1>1 DEF Searches
  <1> QED
    BY <1>2 DEF Init, Abstract!Init

LEMMA AllocateImplements ==
  ASSUME IInv, HandleUnit = 1, pc = "ready", NEW f \in Finds \ open, Allocate(f)
  PROVE  Abstract!Next
  <1>1. PICK n \in Index : /\ n \notin Live /\ Live' = Live \cup {n}
                           /\ Fill(n, f) /\ Tell("opened", DosHandle(n))
    BY AllocateStep
  <1> DEFINE h == n + FLAG_INUSE
  <1>2. DosHandle(n) = h /\ h \in Handles
    BY LfnHandlesAssumption DEF DosHandle, Handles, Index, FLAG_INUSE
  <1>3. /\ h \notin DOMAIN Searches
        /\ Searches' = [g \in DOMAIN Searches \cup {h} |->
                          IF g = h THEN [pdb |-> current, find |-> f]
                                   ELSE Searches[g]]
    BY <1>1, SearchesMore
  <1>4. \A g \in DOMAIN Searches : Searches[g].find # f
    <2>0. DOMAIN Searches = Domain
      BY DEF Searches, Domain
    <2> SUFFICES ASSUME NEW g \in Domain PROVE Searches[g].find # f
      BY <2>0
    <2>1. PICK m \in Live : g = m + FLAG_INUSE
      BY DEF Domain
    <2>2. Searches[g] = [pdb |-> pdb[m], find |-> word[m]]
      BY <2>1, SearchOf DEF IInv
    <2>3. Searches[g].find = word[m]
      BY <2>2
    <2> QED
      BY <2>3 DEF IInv, OneFindEach
  <1>5. reply' = [status |-> "opened", value |-> h] /\ UNCHANGED <<alive, current>>
    BY <1>1, <1>2 DEF Tell, Allocate, programs
  <1>6. Abstract!Open(h, f)
    BY <1>2, <1>3, <1>4, <1>5 DEF Abstract!Open
  <1> QED
    BY <1>2, <1>6 DEF Abstract!Next

\* A step that leaves the searches, the programs and the reply alone.
LEMMA Stutter ==
  ASSUME IInv, IInv', Live' = Live, UNCHANGED <<programs, reply>>,
         \A n \in Live : word'[n] = word[n] /\ pdb'[n] = pdb[n]
  PROVE  UNCHANGED Abstract!vars
  BY SearchesSame DEF Abstract!vars, programs

LEMMA FailImplements ==
  ASSUME IInv, pc = "ready", Fail
  PROVE  Abstract!Next
  <1>1. Searches' = Searches
    BY FailStep, SearchesSame DEF Fail, table
  <1> QED
    BY <1>1 DEF Fail, Tell, programs, Abstract!Next, Abstract!Refuse

\* The search that entry n stands for leaves.
LEMMA RemoveImplements ==
  ASSUME IInv, NEW n \in Live, Live' = Live \ {n}, pdb[n] = current,
         UNCHANGED <<word, pdb>>
  PROVE  Abstract!Remove(n + FLAG_INUSE) /\ n + FLAG_INUSE \in Handles
  <1>1. /\ n + FLAG_INUSE \in DOMAIN Searches
        /\ n + FLAG_INUSE \in Handles
        /\ Searches[n + FLAG_INUSE] = [pdb |-> pdb[n], find |-> word[n]]
    BY SearchOf DEF IInv
  <1>2. Searches[n + FLAG_INUSE].pdb = current
    BY <1>1
  <1> QED
    BY <1>1, <1>2, SearchesLess DEF Abstract!Remove, Abstract!Mine

LEMMA StepImplements ==
  ASSUME IInv, HandleUnit = 1, [Next]_vars
  PROVE  [Abstract!Next]_Abstract!vars
  <1>0. IInv'
    BY NextIInv
  <1>1. CASE UNCHANGED vars
    BY <1>1 DEF vars, table, programs, Abstract!vars, Searches, Live, Freeing, locals
  <1>2. CASE Shrink
    BY <1>2, ShrinkStep, Stutter
  <1>3. CASE Walk
    BY <1>3, WalkStep, Stutter
  <1>4. CASE Link
    BY <1>4, LinkStep, Stutter
  <1>5. CASE CloseSearchHandle
    <2>1. CASE Found(i + FLAG_INUSE) /\ i \in Live /\ Live' = Live \ {i}
      <3>1. pdb[i] = current
        BY <2>1, LfnHandlesAssumption DEF Found, Live, IInv, TypeOK, FLAG_INUSE
      <3>2. Abstract!Drop(i + FLAG_INUSE) /\ i + FLAG_INUSE \in Handles
        BY <1>5, <2>1, <3>1, CloseSearchHandleStep, RemoveImplements
           DEF Abstract!Drop, programs
      <3> QED
        BY <3>2 DEF Abstract!Next
    <2>2. CASE Live' = Live
      BY <1>0, <1>5, <2>2, CloseSearchHandleStep, Stutter
    <2> QED
      BY <1>5, <2>1, <2>2, CloseSearchHandleStep
  <1>6. ASSUME NEW p \in Pdbs, Exit(p) PROVE Abstract!Next
    <2>1. Searches' = Searches
      BY <1>0, <1>6, ExitStep, SearchesSame DEF Exit, table
    <2>2. \A h \in DOMAIN Searches : Searches[h].pdb # current
      <3> SUFFICES ASSUME NEW m \in Live
                   PROVE  Searches[m + FLAG_INUSE].pdb # current
        BY DEF Searches
      <3>1. Searches[m + FLAG_INUSE] = [pdb |-> pdb[m], find |-> word[m]]
        BY SearchOf DEF IInv
      <3> QED
        BY <1>6, <3>1, ExitStep
    <2>3. current # Shell
      BY <1>6 DEF Exit, IInv, Places
    <2>4. Abstract!End(p)
      BY <1>6, <2>1, <2>2, <2>3 DEF Exit, Abstract!End
    <2> QED
      BY <2>4 DEF Abstract!Next
  <1>7. ASSUME NEW f \in Finds, FindFirst(f) \/ WowAllocateSearchHandle(f)
        PROVE  Abstract!Next
    BY <1>7, AllocateImplements, FailImplements DEF FindFirst, WowAllocateSearchHandle
  <1>8. ASSUME NEW h \in Garbage, FindFirstLabel(h) PROVE Abstract!Next
    <2>1. h \in Handles
      BY LfnHandlesAssumption DEF Handles, FLAG_INUSE
    <2>2. Searches' = Searches
      BY <1>8 DEF FindFirstLabel, Searches, Live, Freeing, table, locals
    <2>3. Abstract!Label(h)
      BY <1>8, <2>2 DEF FindFirstLabel, Tell, programs, Abstract!Label
    <2> QED
      BY <2>1, <2>3 DEF Abstract!Next
  <1>9. ASSUME NEW h \in Handles, FindNext(h) PROVE Abstract!Next
    <2>1. CASE Found(h)
      <3> DEFINE n == h - FLAG_INUSE
      <3>1. n \in Live /\ pdb[n] = current /\ n + FLAG_INUSE = h
        BY <1>9, <2>1, FoundIsLive, LfnHandlesAssumption
           DEF IInv, FindNext, Handles, FLAG_INUSE
      <3>2. h \in DOMAIN Searches /\ Searches[h] = [pdb |-> current, find |-> word[n]]
        BY <3>1, SearchOf DEF IInv
      <3>3. /\ UNCHANGED <<table, programs>>
            /\ reply' = [status |-> "next", value |-> word[n]]
        BY <1>9, <2>1 DEF FindNext, Tell
      <3>4. Searches' = Searches
        BY <1>0, <1>9, <2>1, <3>3, FindNextStep, SearchesSame DEF table
      <3>5. Abstract!Mine(h) /\ Searches[h].find = word[n]
        BY <3>2 DEF Abstract!Mine
      <3>6. Abstract!Continue(h)
        BY <3>3, <3>4, <3>5 DEF Abstract!Continue, programs
      <3> QED
        BY <3>6 DEF Abstract!Next
    <2>2. CASE ~Found(h)
      BY <1>9, <2>2, FailImplements DEF FindNext
    <2> QED
      BY <2>1, <2>2
  <1>10. ASSUME NEW h \in Handles, FindClose(h) PROVE Abstract!Next
    <2>1. CASE Found(h)
      <3> DEFINE n == h - FLAG_INUSE
      <3>1. n \in Live /\ pdb[n] = current /\ n + FLAG_INUSE = h
        BY <1>10, <2>1, FoundIsLive, LfnHandlesAssumption
           DEF IInv, FindClose, Handles, FLAG_INUSE
      <3>2. Live' = Live \ {n} /\ UNCHANGED <<word, pdb, programs>> /\ Tell("closed", h)
        BY <1>10, <2>1, FindCloseStep
      <3>3. Abstract!Remove(n + FLAG_INUSE)
        BY <3>1, <3>2, RemoveImplements
      <3>4. Abstract!Close(h)
        BY <3>1, <3>2, <3>3 DEF Abstract!Close, Tell, programs
      <3> QED
        BY <3>4 DEF Abstract!Next
    <2>2. CASE ~Found(h)
      BY <1>10, <2>2, FailImplements DEF FindClose
    <2> QED
      BY <2>1, <2>2
  <1>11. CASE Abort
    BY <1>11, AbortStep, Stutter
  <1>12. ASSUME NEW p \in Pdbs, Exec(p) \/ Switch(p) PROVE Abstract!Next
    <2>1. Searches' = Searches
      BY <1>0, <1>12, ExecSwitchStep, SearchesSame DEF Exec, Switch, table
    <2>2. Abstract!Start(p) \/ Abstract!Switch(p)
      BY <1>12, <2>1 DEF Exec, Switch, Abstract!Start, Abstract!Switch
    <2> QED
      BY <2>2 DEF Abstract!Next
  <1> QED
    BY <1>1, <1>2, <1>3, <1>4, <1>5, <1>6, <1>7, <1>8, <1>9, <1>10, <1>11, <1>12
       DEF Next, Step

\* The table keeps LfnSearch's promise, where the numbers handed out are
\* differences of addresses (demlfn.c:867).
THEOREM Implements ==
  ASSUME HandleUnit = 1
  PROVE  Spec => KeepsPromise
  <1>1. Spec => Abstract!Init /\ [][Abstract!Next]_Abstract!vars
    BY InitImplements, StepImplements, Invariance, PTL DEF Spec
  <1> QED
    BY <1>1 DEF KeepsPromise, Abstract!Spec

-----------------------------------------------------------------------------
(* The services end.  Each step that the service still has to make brings  *)
(* the pair of ToDo and Loop down in the lexicographic order of pairs of   *)
(* natural numbers, and there always is such a step: with the fairness of  *)
(* FairSpec that is ServicesReturn.                                        *)

\* Entries that the end of the program has still to look at, its Exit and the return.
ToDo ==
  IF pc = "ready" THEN 0 ELSE IF ending THEN i + 3 ELSE 1

\* How far the loop of dempLFNFreeHandleEntry has still to go at most.
Loop ==
  CASE pc = "shrink" -> nEntries + 1
    [] pc = "walk"   -> next + 2
    [] OTHER         -> 0

Descends == pc # "ready" => ToDo' < ToDo \/ (ToDo' = ToDo /\ Loop' < Loop)

\* Whatever the loop's tests find, there is a branch to take; a program that ends leaves
\* the shell behind.
GoesOn ==
  /\ ToDo \in Nat /\ Loop \in Nat
  /\ pc # "ready" =>
       \/ pc \in {"shrink", "walk"}
       \/ pc = "close" /\ (i >= 0 \/ \E p \in Pdbs : p \in alive \ {current})

\* The walk goes down the list.
LEMMA WalkDescends ==
  ASSUME IInv, pc = "walk", next > entry
  PROVE  word[next] < next /\ next \in Nat
  <1>1. nAllocated # 0
    BY DEF IInv, Places
  <1>2. next \in Unused
    <2>1. CASE prev = -1
      <3>1. next = lNextFree /\ next # -1
        BY <2>1 DEF IInv, Walking, TypeOK, Index
      <3> QED BY <1>1, <3>1 DEF IInv, FreeListSound, Top
    <2>2. CASE prev # -1
      <3>1. prev \in Unused /\ next = word[prev] /\ next # -1
        BY <2>2 DEF IInv, Walking, TypeOK, Index
      <3> QED BY <3>1 DEF IInv, FreeListSound, Top
    <2> QED BY <2>1, <2>2
  <1>3. Top(word[next], {m \in Unused : m < next})
    BY <1>2 DEF IInv, FreeListSound
  <1>4. next \in Nat
    BY <1>2 DEF Unused, IInv, TypeOK
  <1> QED BY <1>3, <1>4 DEF Top

LEMMA StepDescends ==
  ASSUME IInv, [Next]_vars
  PROVE  [Descends]_vars
  <1> SUFFICES ASSUME pc # "ready", Next PROVE ToDo' < ToDo \/ (ToDo' = ToDo /\ Loop' < Loop)
    BY DEF Descends
  <1> USE DEF ToDo, Loop
  <1>1. /\ pc \in {"shrink", "walk", "close"} /\ ending \in BOOLEAN
        /\ i \in Int /\ i >= -1 /\ next \in Int /\ next >= -1 /\ nEntries \in Nat
        /\ pc = "close" => ending
    BY DEF IInv, TypeOK, Places
  <1>2. CASE Shrink
    <2>1. CASE lNextFree # -1 /\ lNextFree = nEntries - 1
      BY <1>1, <1>2, <2>1 DEF Shrink, locals
    <2>2. CASE ~(lNextFree # -1 /\ lNextFree = nEntries - 1)
      BY <1>1, <1>2, <2>2 DEF Shrink, Return
    <2> QED BY <2>1, <2>2
  <1>3. CASE Walk
    <2>1. word[next] < next /\ word[next] \in Int
      <3>1. word[next] < next /\ next \in Nat
        BY <1>3, WalkDescends DEF Walk
      <3>2. next' = word[next] /\ next \in Index
        BY <1>3, <3>1, LfnHandlesAssumption DEF Walk, IInv, TypeOK, Index
      <3>3. IInv'
        BY NextIInv
      <3> QED BY <3>1, <3>2, <3>3 DEF IInv, TypeOK
    <2> QED BY <1>1, <1>3, <2>1 DEF Walk
  <1>4. CASE Link
    BY <1>1, <1>4 DEF Link, Return
  <1>5. CASE CloseSearchHandle
    <2>1. i' = i - 1 /\ ending /\ ending' /\ pc' \in {"close", "shrink", "walk"}
      BY <1>1, <1>5 DEF CloseSearchHandle, FreeHandleEntry
    <2> QED BY <1>1, <2>1
  <1>6. ASSUME NEW p \in Pdbs, Exit(p) PROVE ToDo' < ToDo
    BY <1>1, <1>6 DEF Exit
  <1> QED
    BY <1>2, <1>3, <1>4, <1>5, <1>6
       DEF Next, Step, FindFirst, WowAllocateSearchHandle, FindFirstLabel, FindNext,
           FindClose, Abort, Exec, Switch

\* ServicesReturn, as far as it does not depend on fairness: no step of a service leads
\* away from its end, whatever the table and the list look like.
THEOREM ServicesDescend == Spec => [][Descends]_vars
  BY Invariance, StepDescends, PTL DEF Spec

\* And no service is stuck before its end.
THEOREM ServicesGoOn == Spec => []GoesOn
  <1>1. IInv => GoesOn
    <2> SUFFICES ASSUME IInv PROVE GoesOn
      OBVIOUS
    <2>1. ToDo \in Nat /\ Loop \in Nat
      BY DEF IInv, TypeOK, ToDo, Loop
    <2>2. pc = "close" => Shell \in alive \ {current}
      BY DEF IInv, Places
    <2> QED
      BY <2>1, <2>2, LfnHandlesAssumption DEF GoesOn, IInv, TypeOK
  <1> QED
    BY Invariance, <1>1, PTL
=============================================================================
