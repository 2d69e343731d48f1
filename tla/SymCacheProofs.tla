--------------------------- MODULE SymCacheProofs ---------------------------
(***************************************************************************)
(* What the symbol cache promises for every number of processes, modules   *)
(* and symbols, when every module has a place of its own and no update is  *)
(* uninstalled.  FreshIsRight is not inductive: the write time may be      *)
(* stored because every offset before i has been found (SoFarRight), it is *)
(* the time of the file in use (TimeOfImage), and a time already stored is *)
(* of no file newer than that (TimeOfOld), so an update outdates it.       *)
(***************************************************************************)
EXTENDS SymCache, SequenceTheorems, TLAPS

\* The two cases the theorems leave to the model checker are excluded.
Apart == \A m, n \in Modules : PlaceOf[m] = PlaceOf[n] => m = n

\* The offset of key k of m is the one in the file in use.
Right(m, k) == address[PlaceOf[m]][k] = <<m, file[m]>>

TimeOfImage == \A t \in Threads : tm[t] # None => tm[t] = Image(t)

TimeOfOld ==
  \A m \in Modules :
    time[PlaceOf[m]] # None =>
      \E v \in Versions : time[PlaceOf[m]] = <<m, v>> /\ v <= file[m]

TimeMeansRight ==
  \A m \in Modules : time[PlaceOf[m]] = <<m, file[m]>> =>
    \A k \in 1 .. LastKey[m] : Right(m, k)

SoFarRight ==
  \A t \in Threads : pc[t] \in {"set", "match"} /\ tm[t] # None =>
    \A k \in 1 .. LastKey[module[t]] : k < i[t] => Right(module[t], k)

FetchedStands ==
  \A m \in Modules :
    /\ fetched[m] <= file[m]
    /\ fetched[m] = file[m] => time[PlaceOf[m]] = <<m, file[m]>>

IInv ==
  /\ TypeOK
  /\ TimeOfImage
  /\ TimeOfOld
  /\ TimeMeansRight
  /\ SoFarRight
  /\ FetchedStands

(* The constants, without the sequence.                                    *)
LEMMA Constant ==
  /\ ProcessOf \in [Threads -> Processes]
  /\ Order \in Seq(Modules) /\ Len(Order) \in Nat /\ Len(Order) >= 1
  /\ \A n \in 1 .. Len(Order) : Order[n] \in Modules
  /\ PlaceOf \in [Modules -> Places]
  /\ MaxKey \in Nat /\ MaxKey >= 1
  /\ LastKey \in [Modules -> 1 .. MaxKey]
  /\ Versions \subseteq Nat /\ 1 \in Versions
  /\ Rollback \in BOOLEAN
  /\ MaxUpdates \in Nat /\ MaxKills \in Nat
  /\ None \notin Files
<1>1. Len(Order) \in Nat /\ Len(Order) >= 1
  BY SymCacheAssumption, EmptySeq DEF SymCacheAssumption
<1> QED BY <1>1, SymCacheAssumption DEF SymCacheAssumption
-----------------------------------------------------------------------------
(* Types.                                                                  *)

LEMMA InitType == Init => TypeOK
<1> SUFFICES ASSUME Init PROVE TypeOK
  OBVIOUS
<1> USE Constant DEF Init
<1>1. Order[1] \in Modules /\ 0 \in 0 .. Len(Order) /\ 1 \in 1 .. MaxKey + 1
  OBVIOUS
<1>2. Nothing \in [Keys -> Files \cup {None}]
  BY DEF Nothing
<1> QED BY <1>1, <1>2 DEF TypeOK

(* An image is a file; the loop over the keys stays within them.           *)
LEMMA ImageType ==
  ASSUME TypeOK, NEW t \in Threads
  PROVE  /\ Image(t) \in Files /\ Place(t) \in Places
         /\ module[t] \in Modules /\ LastKey[module[t]] \in 1 .. MaxKey
<1>1. module[t] \in Modules /\ file \in [Modules -> Versions]
  BY DEF TypeOK
<1>2. file[module[t]] \in Versions
  BY <1>1
<1> QED BY <1>1, <1>2, Constant DEF Image, Place, Files

LEMMA CallType ==
  ASSUME TypeOK, NEW t \in Threads, NEW m \in Modules,
         NEW n \in 0 .. Len(Order), Call(t, m, n)
  PROVE  /\ pc' \in [Threads -> {"idle", "time", "check", "load", "set", "match",
                                 "return", "read", "resolved"}]
         /\ module' \in [Threads -> Modules]
         /\ turn' \in [Threads -> 0 .. Len(Order)]
         /\ tm' \in [Threads -> Files \cup {None}]
         /\ i' \in [Threads -> 1 .. MaxKey + 1]
         /\ result' \in [Threads -> BOOLEAN]
<1>1. 1 \in 1 .. MaxKey + 1
  BY Constant
<1> QED BY <1>1 DEF TypeOK, Call, Goto

LEMMA DoneType ==
  ASSUME TypeOK, NEW t \in Threads, NEW there \in {"idle", "resolved"}, Done(t, there)
  PROVE  /\ pc' \in [Threads -> {"idle", "time", "check", "load", "set", "match",
                                 "return", "read", "resolved"}]
         /\ turn' \in [Threads -> 0 .. Len(Order)]
         /\ tm' \in [Threads -> Files \cup {None}]
         /\ i' \in [Threads -> 1 .. MaxKey + 1]
         /\ result' \in [Threads -> BOOLEAN]
<1>1. 1 \in 1 .. MaxKey + 1 /\ 0 \in 0 .. Len(Order)
  BY Constant
<1> QED BY <1>1 DEF TypeOK, Done, Goto

LEMMA NothingType == Nothing \in [Keys -> Files \cup {None}]
BY DEF Nothing

LEMMA EndType ==
  ASSUME TypeOK, NEW S, End(S)
  PROVE  /\ fUpdated' \in [Processes -> BOOLEAN]
         /\ missed' \in [Processes -> SUBSET (Modules \X Keys)]
         /\ pc' \in [Threads -> {"idle", "time", "check", "load", "set", "match",
                                 "return", "read", "resolved"}]
         /\ mode' \in [Threads -> {"update", "rebuild", "peek"}]
         /\ module' \in [Threads -> Modules]
         /\ turn' \in [Threads -> 0 .. Len(Order)]
         /\ tm' \in [Threads -> Files \cup {None}]
         /\ i' \in [Threads -> 1 .. MaxKey + 1]
         /\ result' \in [Threads -> BOOLEAN]
         /\ used' \in [Threads -> [Keys -> Files \cup {None}]]
<1>1. Order[1] \in Modules /\ 0 \in 0 .. Len(Order) /\ 1 \in 1 .. MaxKey + 1
  BY Constant
<1>2. /\ fUpdated' \in [Processes -> BOOLEAN]
      /\ missed' \in [Processes -> SUBSET (Modules \X Keys)]
      /\ pc' \in [Threads -> {"idle", "time", "check", "load", "set", "match",
                              "return", "read", "resolved"}]
      /\ mode' \in [Threads -> {"update", "rebuild", "peek"}]
  BY DEF End, TypeOK
<1>3. /\ module' \in [Threads -> Modules]
      /\ turn' \in [Threads -> 0 .. Len(Order)]
      /\ tm' \in [Threads -> Files \cup {None}]
  BY <1>1 DEF End, TypeOK
<1>4. /\ i' \in [Threads -> 1 .. MaxKey + 1]
      /\ result' \in [Threads -> BOOLEAN]
      /\ used' \in [Threads -> [Keys -> Files \cup {None}]]
  BY <1>1, NothingType DEF End, TypeOK
<1> QED BY <1>2, <1>3, <1>4

LEMMA ForgetType ==
  ASSUME TypeOK, NEW t \in Threads, Forget(t)
  PROVE  /\ mode' \in [Threads -> {"update", "rebuild", "peek"}]
         /\ module' \in [Threads -> Modules]
         /\ used' \in [Threads -> [Keys -> Files \cup {None}]]
<1>1. Order[1] \in Modules
  BY Constant
<1> QED BY <1>1, NothingType DEF TypeOK, Forget

(* What storing an offset does to the types.                               *)
LEMMA StoreType ==
  ASSUME TypeOK, NEW t \in Threads, i[t] <= LastKey[module[t]], Store(t)
  PROVE  /\ address' \in [Places -> [Keys -> Files \cup {None}]]
         /\ i' \in [Threads -> 1 .. MaxKey + 1]
         /\ missed' \in [Processes -> SUBSET (Modules \X Keys)]
         /\ i[t] \in Keys
<1>1. i[t] \in 1 .. MaxKey + 1
  BY DEF TypeOK
<1>2. LastKey[module[t]] \in 1 .. MaxKey /\ Image(t) \in Files /\ Place(t) \in Places
  BY ImageType
<1>3. i[t] \in Keys /\ i[t] + 1 \in 1 .. MaxKey + 1
  BY <1>1, <1>2, Constant DEF Keys
<1>4. address' \in [Places -> [Keys -> Files \cup {None}]]
  BY <1>2, <1>3 DEF Store, TypeOK
<1>5. i' \in [Threads -> 1 .. MaxKey + 1]
  BY <1>3 DEF Store, TypeOK
<1>6. missed' \in [Processes -> SUBSET (Modules \X Keys)]
  BY Constant DEF Store, TypeOK
<1> QED BY <1>3, <1>4, <1>5, <1>6

(* What looking in vain does to them.                                      *)
LEMMA MissType ==
  ASSUME TypeOK, NEW t \in Threads, NEW S \in SUBSET (Modules \X Keys), Miss(t, S)
  PROVE  missed' \in [Processes -> SUBSET (Modules \X Keys)]
BY Constant DEF Miss, TypeOK

(* Every action of a call keeps the types.                                 *)
LEMMA StepType ==
  ASSUME TypeOK, NEW t \in Threads, Step(t)
  PROVE  TypeOK'
<1> USE DEF TypeOK, system, cache, process, call, Result, Goto
<1>1. ASSUME Return(t) PROVE TypeOK'
  <2>1. CASE turn[t] = 0
    <3>1. 1 \in 1 .. MaxKey + 1
      BY Constant
    <3> QED BY <1>1, <2>1, <3>1 DEF Return
  <2>2. CASE turn[t] # 0
    <3>1. /\ fUpdated' = [fUpdated EXCEPT ![ProcessOf[t]] = AllUpdated(t)]
          /\ UNCHANGED <<system, cache, missed>>
      BY <1>1, <2>2 DEF Return
    <3>2. fUpdated' \in [Processes -> BOOLEAN]
      BY <3>1, Constant DEF AllUpdated
    <3>3. turn[t] < Len(Order) => turn[t] + 1 \in 1 .. Len(Order)
      BY <2>2, Constant
    <3>4. CASE /\ turn[t] < Len(Order) /\ Call(t, Order[turn[t] + 1], turn[t] + 1)
               /\ UNCHANGED <<mode, used>>
      <4>1. Order[turn[t] + 1] \in Modules /\ turn[t] + 1 \in 0 .. Len(Order)
        BY <3>3, <3>4, Constant
      <4> QED BY <3>1, <3>2, <3>4, <4>1, CallType
    <3>5. CASE (\E m \in Modules : Call(t, m, 0)) /\ UNCHANGED <<mode, used>>
      <4>1. PICK m \in Modules : Call(t, m, 0)
        BY <3>5
      <4>2. 0 \in 0 .. Len(Order)
        BY Constant
      <4> QED BY <3>1, <3>2, <3>5, <4>1, <4>2, CallType
    <3>6. CASE Done(t, "idle") /\ Forget(t)
      BY <3>1, <3>2, <3>6, DoneType, ForgetType
    <3> QED BY <1>1, <2>2, <3>4, <3>5, <3>6 DEF Return
  <2> QED BY <2>1, <2>2
<1>2. ASSUME QueryTime(t) PROVE TypeOK'
  BY <1>2, ImageType DEF QueryTime
<1>3. ASSUME CheckKey(t) PROVE TypeOK'
  <2>1. LastKey[module[t]] \in 1 .. MaxKey
    BY ImageType
  <2>2. i[t] <= LastKey[module[t]] => i[t] + 1 \in 1 .. MaxKey + 1
    BY <2>1, Constant
  <2> QED BY <1>3, <2>2 DEF CheckKey
<1>4. ASSUME Load(t) PROVE TypeOK'
  BY <1>4, Constant DEF Load
<1>5. ASSUME LoadFails(t) PROVE TypeOK'
  <2>1. CASE mode[t] # "peek" /\ module[t] \in Matched
    <3>1. 1 \in 1 .. MaxKey + 1
      BY Constant
    <3> QED BY <1>5, <2>1, <3>1 DEF LoadFails
  <2>2. CASE ~(mode[t] # "peek" /\ module[t] \in Matched)
    BY <1>5, <2>2 DEF LoadFails
  <2> QED BY <2>1, <2>2
<1>6. ASSUME SetKey(t) PROVE TypeOK'
  <2>1. CASE Store(t)
    <3>1. /\ i[t] <= LastKey[module[t]]
          /\ UNCHANGED <<system, time, fetched, fUpdated, mode, module, turn, result, used>>
          /\ UNCHANGED <<pc, tm>>
      BY <1>6, <2>1 DEF SetKey, Store
    <3> QED BY <2>1, <3>1, StoreType
  <2>2. CASE ~Store(t)
    <3>1. i[t] + 1 \in 1 .. MaxKey + 1 /\ 1 \in 1 .. MaxKey + 1
      BY <1>6, ImageType, Constant DEF SetKey
    <3>2. i[t] \in Keys /\ module[t] \in Modules
      BY <1>6, ImageType, Constant DEF SetKey, Keys
    <3>3. missed' \in [Processes -> SUBSET (Modules \X Keys)]
      <4>1. CASE missed' = missed
        BY <4>1
      <4>2. CASE Miss(t, {Symbol(t)})
        <5>1. {Symbol(t)} \in SUBSET (Modules \X Keys)
          BY <3>2 DEF Symbol
        <5> QED BY <4>2, <5>1, MissType
      <4> QED BY <1>6, <2>2, <4>1, <4>2 DEF SetKey
    <3> QED BY <1>6, <2>2, <3>1, <3>3 DEF SetKey
  <2> QED BY <2>1, <2>2
<1>7. ASSUME MatchKey(t) PROVE TypeOK'
  <2>1. CASE Store(t)
    <3>1. /\ i[t] <= LastKey[module[t]]
          /\ UNCHANGED <<system, time, fetched, fUpdated, mode, module, turn, result, used>>
          /\ UNCHANGED <<pc, tm>>
      BY <1>7, <2>1 DEF MatchKey, Store
    <3> QED BY <2>1, <3>1, StoreType
  <2>2. CASE ~Store(t)
    <3>1. i[t] + 1 \in 1 .. MaxKey + 1
      BY <1>7, ImageType, Constant DEF MatchKey
    <3> QED BY <1>7, <2>2, <3>1 DEF MatchKey
  <2> QED BY <2>1, <2>2
<1>8. ASSUME StoreTime(t) PROVE TypeOK'
  <2>1. tm[t] # None => tm[t] \in Files /\ tm[t][2] \in Versions
    BY DEF Files
  <2>2. Place(t) \in Places /\ module[t] \in Modules
    BY ImageType
  <2> QED BY <1>8, <2>1, <2>2 DEF StoreTime
<1>9. ASSUME Read(t) PROVE TypeOK'
  <2>0. UNCHANGED <<system, cache, process>>
    BY <1>9 DEF Read
  <2>1. CASE Done(t, "resolved") /\ UNCHANGED <<mode, module, used>>
    BY <2>0, <2>1, DoneType
  <2>2. CASE Done(t, "idle") /\ Forget(t)
    BY <2>0, <2>2, DoneType, ForgetType
  <2>3. CASE /\ i[t] <= LastKey[module[t]]
             /\ used' = [used EXCEPT ![t][i[t]] = address[Place(t)][i[t]]]
             /\ i' = [i EXCEPT ![t] = @ + 1]
             /\ UNCHANGED <<pc, mode, module, turn, tm, result>>
    <3>1. LastKey[module[t]] \in 1 .. MaxKey /\ Place(t) \in Places
      BY ImageType
    <3>2. i[t] \in Keys /\ i[t] + 1 \in 1 .. MaxKey + 1
      BY <2>3, <3>1, Constant DEF Keys
    <3>3. address[Place(t)][i[t]] \in Files \cup {None}
      BY <3>1, <3>2
    <3>4. used' \in [Threads -> [Keys -> Files \cup {None}]]
      BY <2>3, <3>2, <3>3
    <3> QED BY <2>0, <2>3, <3>2, <3>4
  <2> QED BY <1>9, <2>1, <2>2, <2>3 DEF Read
<1>10. ASSUME LoadExports(t) PROVE TypeOK'
  <2>1. {module[t]} \X (1 .. LastKey[module[t]]) \in SUBSET (Modules \X Keys)
    BY ImageType, Constant DEF Keys
  <2>2. missed' \in [Processes -> SUBSET (Modules \X Keys)]
    BY <1>10, <2>1, MissType DEF LoadExports
  <2> QED BY <1>10, <2>2 DEF LoadExports
<1> QED BY <1>1, <1>2, <1>3, <1>4, <1>5, <1>6, <1>7, <1>8, <1>9, <1>10 DEF Step

LEMMA NextType == TypeOK /\ [Next]_vars => TypeOK'
<1> SUFFICES ASSUME TypeOK, [Next]_vars PROVE TypeOK'
  OBVIOUS
<1>0. 0 \in 0 .. Len(Order) /\ 1 \in 0 .. Len(Order) /\ Order[1] \in Modules
  BY Constant
<1>1. ASSUME NEW t \in Threads, Step(t) PROVE TypeOK'
  BY <1>1, StepType
<1>2. ASSUME NEW t \in Threads, UpdateSymbolCache(t) PROVE TypeOK'
  <2>1. PICK m \in Modules, n \in 0 .. Len(Order) : Call(t, m, n)
    BY <1>2, <1>0 DEF UpdateSymbolCache
  <2>2. fUpdated' \in [Processes -> BOOLEAN]
    BY <1>2 DEF UpdateSymbolCache, TypeOK
  <2>3. /\ mode' \in [Threads -> {"update", "rebuild", "peek"}]
        /\ used' \in [Threads -> [Keys -> Files \cup {None}]]
    BY <1>2, NothingType DEF UpdateSymbolCache, TypeOK
  <2>4. UNCHANGED <<system, cache, missed>>
    BY <1>2 DEF UpdateSymbolCache
  <2> QED BY <2>1, <2>2, <2>3, <2>4, CallType DEF TypeOK, system, cache, process
<1>3. ASSUME NEW t \in Threads, RebuildSymbolCache(t) PROVE TypeOK'
  <2>1. Call(t, Order[1], 1)
    BY <1>3 DEF RebuildSymbolCache
  <2>2. /\ fUpdated' \in [Processes -> BOOLEAN]
        /\ mode' \in [Threads -> {"update", "rebuild", "peek"}]
    BY <1>3 DEF RebuildSymbolCache, TypeOK
  <2>3. UNCHANGED <<system, cache, missed, used>>
    BY <1>3 DEF RebuildSymbolCache
  <2> QED BY <1>0, <2>1, <2>2, <2>3, CallType DEF TypeOK, system, cache, process
<1>4. ASSUME NEW t \in Threads, NEW m \in Modules, Peek(t, m) PROVE TypeOK'
  <2>1. Call(t, m, 0)
    BY <1>4 DEF Peek
  <2>2. /\ mode' \in [Threads -> {"update", "rebuild", "peek"}]
        /\ used' \in [Threads -> [Keys -> Files \cup {None}]]
    BY <1>4, NothingType DEF Peek, TypeOK
  <2>3. UNCHANGED <<system, cache, process>>
    BY <1>4 DEF Peek
  <2> QED BY <1>0, <2>1, <2>2, <2>3, CallType DEF TypeOK, system, cache, process
<1>5. ASSUME NEW p \in Processes, Exit(p) PROVE TypeOK'
  <2>1. End({p}) /\ UNCHANGED <<cache, system>>
    BY <1>5 DEF Exit
  <2> QED BY <2>1, EndType DEF TypeOK, system, cache, process
<1>6. ASSUME NEW p \in Processes, Kill(p) PROVE TypeOK'
  <2>1. End({p}) /\ UNCHANGED <<cache, file, published, updates>>
    BY <1>6 DEF Kill
  <2>2. kills' \in 0 .. MaxKills
    BY <1>6, Constant DEF Kill, TypeOK
  <2> QED BY <2>1, <2>2, EndType DEF TypeOK, cache
<1>7. ASSUME NEW m \in Modules, NEW v \in Versions, WindowsUpdate(m, v) PROVE TypeOK'
  <2>1. End(Processes) /\ UNCHANGED <<cache, published, kills>>
    BY <1>7 DEF WindowsUpdate
  <2>2. updates' \in 0 .. MaxUpdates /\ file' \in [Modules -> Versions]
    BY <1>7, Constant DEF WindowsUpdate, TypeOK
  <2> QED BY <2>1, <2>2, EndType DEF TypeOK, cache
<1>8. ASSUME NEW f \in Files, Publish(f) PROVE TypeOK'
  BY <1>8 DEF Publish, TypeOK, cache, process, call
<1>9. CASE UNCHANGED vars
  BY <1>9 DEF vars, TypeOK, system, cache, process, call
<1> QED BY <1>1, <1>2, <1>3, <1>4, <1>5, <1>6, <1>7, <1>8, <1>9 DEF Next

(* Every variable keeps its type.                                          *)
THEOREM SymCacheType == Spec => []TypeOK
BY InitType, NextType, PTL DEF Spec
-----------------------------------------------------------------------------
(* The invariant.                                                          *)

LEMMA InitIInv == Init => IInv
<1> SUFFICES ASSUME Init PROVE IInv
  OBVIOUS
<1>1. TypeOK
  BY InitType
<1>2. TimeOfImage /\ SoFarRight
  BY DEF Init, TimeOfImage, SoFarRight
<1>3. \A m \in Modules : time[PlaceOf[m]] = None /\ file[m] = 1 /\ fetched[m] = 0
  BY Constant DEF Init
<1>4. TimeOfOld /\ FetchedStands
  BY <1>3 DEF TimeOfOld, FetchedStands
<1>5. \A m \in Modules : <<m, file[m]>> # None
  BY <1>3, Constant DEF Files
<1>6. TimeMeansRight
  BY <1>3, <1>5 DEF TimeMeansRight
<1> QED BY <1>1, <1>2, <1>4, <1>6 DEF IInv

(* A module's image is not None.                                           *)
LEMMA ImageIsFile ==
  ASSUME TypeOK, NEW m \in Modules
  PROVE  <<m, file[m]>> # None /\ <<m, file[m]>> \in Files /\ file[m] \in Nat
<1>1. file[m] \in Versions
  BY DEF TypeOK
<1>2. <<m, file[m]>> \in Files
  BY <1>1 DEF Files
<1>3. None \notin Files /\ Versions \subseteq Nat
  BY Constant
<1> QED BY <1>1, <1>2, <1>3

(* A step that leaves the files and the cache alone, stores no time and    *)
(* brings no thread nearer to storing one.                                 *)
LEMMA Aside ==
  ASSUME IInv, TypeOK', UNCHANGED <<file, cache>>,
         \A t \in Threads : \/ tm'[t] = None
                            \/ tm'[t] = Image(t)' /\ pc'[t] \notin {"set", "match"}
                            \/ tm'[t] = Image(t)' /\ i'[t] = 1
                            \/ UNCHANGED <<pc[t], tm[t], i[t], module[t]>>
  PROVE  IInv'
<1> USE DEF IInv, cache
<1>1. TimeOfImage'
  BY DEF TimeOfImage, Image
<1>2. TimeOfOld' /\ TimeMeansRight' /\ FetchedStands'
  BY DEF TimeOfOld, TimeMeansRight, FetchedStands, Right
<1>3. SoFarRight'
  <2> SUFFICES ASSUME NEW t \in Threads, pc'[t] \in {"set", "match"}, tm'[t] # None,
                      NEW k \in 1 .. LastKey[module'[t]], k < i'[t]
               PROVE  Right(module[t], k)'
    BY DEF SoFarRight
  <2>1. i'[t] # 1
    BY Constant DEF TypeOK
  <2>2. UNCHANGED <<pc[t], tm[t], i[t], module[t]>>
    BY <2>1
  <2> QED BY <2>2 DEF SoFarRight, Right
<1> QED BY <1>1, <1>2, <1>3

(* Storing an offset of the image in use.                                  *)
LEMMA StoreKeeps ==
  ASSUME Apart, IInv, TypeOK', NEW t \in Threads, i[t] <= LastKey[module[t]],
         pc[t] \in {"set", "match"}, Store(t),
         UNCHANGED <<file, time, fetched, module>>
  PROVE  IInv'
<1> USE DEF IInv
<1>1. i[t] \in Keys /\ Place(t) \in Places /\ module[t] \in Modules
  BY StoreType, ImageType
<1>2. \A m \in Modules, k \in Keys :
        address'[PlaceOf[m]][k] =
          IF m = module[t] /\ k = i[t] THEN Image(t) ELSE address[PlaceOf[m]][k]
  BY <1>1, Constant DEF Store, Apart, Place, TypeOK
<1>3. \A m \in Modules : \A k \in 1 .. LastKey[m] : k \in Keys
  BY Constant DEF Keys
<1>4. \A m \in Modules : \A k \in 1 .. LastKey[m] : Right(m, k) => Right(m, k)'
  BY <1>2, <1>3 DEF Right, Image
<1>5. TimeOfImage' /\ TimeOfOld' /\ FetchedStands'
  BY DEF Store, TimeOfImage, TimeOfOld, FetchedStands, Image
<1>6. TimeMeansRight'
  BY <1>4 DEF TimeMeansRight
<1>7. SoFarRight'
  <2> SUFFICES ASSUME NEW u \in Threads, pc'[u] \in {"set", "match"}, tm'[u] # None,
                      NEW k \in 1 .. LastKey[module'[u]], k < i'[u]
               PROVE  Right(module[u], k)'
    BY DEF SoFarRight
  <2>1. UNCHANGED <<pc, tm, module>> /\ module[u] \in Modules
    BY DEF Store, TypeOK
  <2>2. CASE k < i[u]
    BY <1>4, <2>1, <2>2 DEF SoFarRight
  <2>3. CASE ~(k < i[u])
    <3>1. u = t /\ i'[t] = i[t] + 1
      BY <2>3 DEF Store, TypeOK
    <3>2. k = i[t]
      BY <2>3, <3>1 DEF TypeOK
    <3>3. address'[PlaceOf[module[t]]][k] = Image(t)
      BY <1>1, <1>2, <3>2
    <3> QED BY <2>1, <3>1, <3>3 DEF Right, Image
  <2> QED BY <2>2, <2>3
<1> QED BY <1>5, <1>6, <1>7

(* Storing the time, when every offset has been found.                     *)
LEMMA StoreTimeKeeps ==
  ASSUME Apart, IInv, TypeOK', NEW t \in Threads, StoreTime(t)
  PROVE  IInv'
<1> USE DEF IInv
<1>1. UNCHANGED <<file, address, module, tm, i>> /\ module[t] \in Modules
  BY ImageType DEF StoreTime, system
<1>2. CASE tm[t] = None
  <2>1. UNCHANGED <<file, cache>>
    BY <1>1, <1>2 DEF StoreTime, cache
  <2>2. \A u \in Threads : u = t \/ UNCHANGED <<pc[u], tm[u], i[u], module[u]>>
    BY <1>1 DEF StoreTime, Result, Goto, TypeOK
  <2> QED BY <1>1, <1>2, <2>1, <2>2, Aside
<1>3. CASE tm[t] # None
  <2>1. tm[t] = Image(t)
    BY <1>3 DEF TimeOfImage
  <2>2. \A m \in Modules :
          time'[PlaceOf[m]] = IF m = module[t] THEN Image(t) ELSE time[PlaceOf[m]]
    <3>1. time' = [time EXCEPT ![PlaceOf[module[t]]] = Image(t)]
      BY <1>3, <2>1 DEF StoreTime, Place
    <3> QED BY <1>1, <3>1, Constant DEF Apart, TypeOK
  <2>3. \A m \in Modules :
          fetched'[m] = IF m = module[t] THEN file[m] ELSE fetched[m]
    <3>1. fetched' = [fetched EXCEPT ![module[t]] = file[module[t]]]
      BY <1>3, <2>1 DEF StoreTime, Image
    <3> QED BY <3>1 DEF TypeOK
  <2>4. \A k \in 1 .. LastKey[module[t]] : Right(module[t], k)
    <3>1. \A k \in 1 .. LastKey[module[t]] : k < i[t]
      BY <1>1, Constant DEF StoreTime, TypeOK
    <3>2. pc[t] \in {"set", "match"}
      BY DEF StoreTime
    <3> QED BY <1>3, <3>1, <3>2 DEF SoFarRight
  <2>5. TimeOfImage'
    BY <1>1 DEF TimeOfImage, Image
  <2>6. TimeOfOld'
    <3>1. \A m \in Modules : file[m] \in Versions /\ file[m] <= file[m]
      <4> SUFFICES ASSUME NEW m \in Modules
                   PROVE  file[m] \in Versions /\ file[m] <= file[m]
        OBVIOUS
      <4>1. file[m] \in Versions
        BY DEF TypeOK
      <4>2. TypeOK
        OBVIOUS
      <4>3. file[m] \in Nat
        BY <4>2, ImageIsFile
      <4>4. file[m] <= file[m]
        BY <4>3
      <4> QED BY <4>1, <4>4
    <3> QED BY <1>1, <2>2, <3>1 DEF TimeOfOld, Image
  <2>7. TimeMeansRight'
    BY <1>1, <2>2, <2>4 DEF TimeMeansRight, Right
  <2>8. FetchedStands'
    BY <1>1, <2>2, <2>3, ImageIsFile DEF FetchedStands, Image
  <2>9. SoFarRight'
    BY <1>1 DEF SoFarRight, Right, StoreTime, Result, Goto, TypeOK
  <2> QED BY <2>5, <2>6, <2>7, <2>8, <2>9
<1> QED BY <1>2, <1>3

(* A newer file outdates what is stored for its module.                    *)
LEMMA UpdateKeeps ==
  ASSUME ~Rollback, IInv, TypeOK', NEW m \in Modules, NEW v \in Versions,
         WindowsUpdate(m, v)
  PROVE  IInv'
<1> USE DEF IInv
<1>1. file' = [file EXCEPT ![m] = v] /\ v > file[m] /\ UNCHANGED cache
  BY DEF WindowsUpdate
<1>2. v \in Nat /\ \A n \in Modules : file[n] \in Nat /\ fetched[n] \in Nat
  <2>1. Versions \subseteq Nat
    BY Constant
  <2>2. v \in Nat
    BY <2>1
  <2>3. ASSUME NEW n \in Modules PROVE file[n] \in Nat /\ fetched[n] \in Nat
    <3>1. file[n] \in Versions /\ fetched[n] \in Versions \cup {0}
      BY DEF TypeOK
    <3>2. file[n] \in Nat
      BY <2>1, <3>1
    <3>3. fetched[n] \in Nat
      <4>1. CASE fetched[n] \in Versions
        BY <2>1, <4>1
      <4>2. CASE fetched[n] = 0
        BY <4>2
      <4> QED BY <3>1, <4>1, <4>2
    <3> QED BY <3>2, <3>3
  <2> QED BY <2>2, <2>3
<1>3. file'[m] = v /\ \A n \in Modules : n # m => file'[n] = file[n]
  BY <1>1 DEF TypeOK
<1>4. \A t \in Threads : tm'[t] = None
  BY Constant DEF WindowsUpdate, End
<1>5. TimeOfImage' /\ SoFarRight'
  BY <1>4 DEF TimeOfImage, SoFarRight
<1>6. TimeOfOld'
  <2> SUFFICES ASSUME NEW n \in Modules, time[PlaceOf[n]] # None
               PROVE  \E w \in Versions : time[PlaceOf[n]] = <<n, w>> /\ w <= file'[n]
    BY <1>1 DEF TimeOfOld, cache
  <2>1. PICK w \in Versions : time[PlaceOf[n]] = <<n, w>> /\ w <= file[n]
    BY DEF TimeOfOld
  <2>2. w \in Nat /\ w <= file'[n]
    BY <1>1, <1>2, <1>3, <2>1, Constant
  <2> QED BY <2>1, <2>2
<1>7. time[PlaceOf[m]] # <<m, v>>
  <2> SUFFICES ASSUME time[PlaceOf[m]] = <<m, v>> PROVE FALSE
    OBVIOUS
  <2>1. time[PlaceOf[m]] # None
    BY Constant DEF Files
  <2>2. PICK w \in Versions : <<m, v>> = <<m, w>> /\ w <= file[m]
    BY <2>1 DEF TimeOfOld
  <2> QED BY <1>1, <1>2, <2>2
<1>8. TimeMeansRight'
  BY <1>1, <1>3, <1>7 DEF TimeMeansRight, Right, cache
<1>9. FetchedStands'
  <2>1. UNCHANGED <<fetched, time>>
    BY <1>1 DEF cache
  <2>2. fetched[m] <= file[m] /\ file[m] < v
    BY <1>1, <1>2 DEF FetchedStands
  <2>3. fetched[m] <= v /\ fetched[m] # v
    BY <1>2, <2>2
  <2> QED BY <1>3, <2>1, <2>3 DEF FetchedStands
<1> QED BY <1>5, <1>6, <1>8, <1>9

(* What a thread does by itself.                                           *)
LEMMA StepKeeps ==
  ASSUME Apart, IInv, TypeOK', NEW t \in Threads, Step(t)
  PROVE  IInv'
<1> USE DEF IInv
<1>0. \A u \in Threads : tm[u] # None => tm[u] = Image(u)
  BY DEF TimeOfImage
<1>1. ASSUME Return(t) PROVE IInv'
  <2>1. UNCHANGED <<file, cache>>
    BY <1>1 DEF Return, system
  <2>2. \A u \in Threads : tm'[u] = None \/ UNCHANGED <<pc[u], tm[u], i[u], module[u]>>
    BY <1>1 DEF Return, Call, Done, Forget, Goto, TypeOK
  <2> QED BY <2>1, <2>2, Aside
<1>2. ASSUME QueryTime(t) PROVE IInv'
  <2>1. UNCHANGED <<file, cache, module>>
    BY <1>2 DEF QueryTime, system
  <2>2. \A u \in Threads : u # t => UNCHANGED <<pc[u], tm[u], i[u], module[u]>>
    BY <1>2 DEF QueryTime, Goto, TypeOK
  <2>3. tm'[t] = Image(t)' /\ pc'[t] \notin {"set", "match"}
    BY <1>2, <2>1 DEF QueryTime, Goto, TypeOK, Image
  <2> QED BY <2>1, <2>2, <2>3, Aside
<1>3. ASSUME CheckKey(t) PROVE IInv'
  <2>1. UNCHANGED <<file, cache, module, tm>>
    BY <1>3 DEF CheckKey, system
  <2>2. \A u \in Threads : u # t => UNCHANGED <<pc[u], tm[u], i[u], module[u]>>
    BY <1>3 DEF CheckKey, Goto, Result, TypeOK
  <2>3. pc'[t] \notin {"set", "match"}
    BY <1>3 DEF CheckKey, Goto, Result, TypeOK
  <2> QED BY <1>0, <2>1, <2>2, <2>3, Aside DEF Image
<1>8. ASSUME LoadExports(t) PROVE IInv'
  <2>1. UNCHANGED <<file, cache>>
    BY <1>8 DEF LoadExports, system
  <2>2. \A u \in Threads : tm'[u] = None \/ UNCHANGED <<pc[u], tm[u], i[u], module[u]>>
    BY <1>8 DEF LoadExports, Goto, Result, TypeOK
  <2> QED BY <2>1, <2>2, Aside
<1>4. ASSUME Load(t) \/ LoadFails(t) PROVE IInv'
  <2>1. UNCHANGED <<file, cache, module, tm>>
    BY <1>4 DEF Load, LoadFails, system
  <2>2. \A u \in Threads : u # t => UNCHANGED <<pc[u], tm[u], i[u], module[u]>>
    BY <1>4 DEF Load, LoadFails, Goto, Result, TypeOK
  <2>3. i'[t] = 1 \/ pc'[t] \notin {"set", "match"}
    BY <1>4 DEF Load, LoadFails, Goto, Result, TypeOK
  <2> QED BY <1>0, <2>1, <2>2, <2>3, Aside DEF Image
<1>5. ASSUME SetKey(t) \/ MatchKey(t), Store(t) PROVE IInv'
  <2>1. pc[t] \in {"set", "match"} /\ i[t] <= LastKey[module[t]]
    BY <1>5 DEF SetKey, MatchKey
  <2>2. UNCHANGED <<file, time, fetched, module>>
    BY <1>5 DEF SetKey, MatchKey, system
  <2> QED BY <1>5, <2>1, <2>2, StoreKeeps
<1>6. ASSUME SetKey(t) \/ MatchKey(t), ~Store(t) PROVE IInv'
  <2>1. UNCHANGED <<file, cache, module>>
    BY <1>6 DEF SetKey, MatchKey, system, cache
  <2>2. \A u \in Threads : u # t => UNCHANGED <<pc[u], tm[u], i[u], module[u]>>
    BY <1>6 DEF SetKey, MatchKey, Goto, TypeOK
  <2>3. tm'[t] = None \/ (i'[t] = 1 /\ tm'[t] = tm[t])
    BY <1>6 DEF SetKey, MatchKey, Goto, TypeOK
  <2> QED BY <1>0, <2>1, <2>2, <2>3, Aside DEF Image
<1>7. ASSUME Read(t) PROVE IInv'
  <2>1. UNCHANGED <<file, cache>>
    BY <1>7 DEF Read, system
  <2>2. \A u \in Threads : u # t => UNCHANGED <<pc[u], tm[u], i[u], module[u]>>
    BY <1>7 DEF Read, Done, Forget, Goto, TypeOK
  <2>3. \/ tm'[t] = None
        \/ pc'[t] = "read" /\ tm'[t] = tm[t] /\ module'[t] = module[t]
    BY <1>7 DEF Read, Done, Goto, TypeOK
  <2>4. TypeOK /\ file' = file
    BY <2>1
  <2> QED BY <1>0, <2>1, <2>2, <2>3, <2>4, Aside DEF Image
<1> QED BY <1>1, <1>2, <1>3, <1>4, <1>5, <1>6, <1>7, <1>8, StoreTimeKeeps DEF Step

LEMMA NextIInv == Apart /\ ~Rollback /\ IInv /\ [Next]_vars => IInv'
<1> SUFFICES ASSUME Apart, ~Rollback, IInv, [Next]_vars PROVE IInv'
  OBVIOUS
<1>0. TypeOK'
  BY NextType DEF IInv
<1>1. ASSUME NEW t \in Threads, Step(t) PROVE IInv'
  BY <1>0, <1>1, StepKeeps
<1>2. ASSUME NEW t \in Threads,
             \/ UpdateSymbolCache(t)
             \/ RebuildSymbolCache(t)
             \/ \E m \in Modules : Peek(t, m)
      PROVE  IInv'
  <2>1. UNCHANGED <<file, cache>>
    BY <1>2 DEF UpdateSymbolCache, RebuildSymbolCache, Peek, system
  <2>2. \A u \in Threads : tm'[u] = None \/ UNCHANGED <<pc[u], tm[u], i[u], module[u]>>
    BY <1>2 DEF UpdateSymbolCache, RebuildSymbolCache, Peek, Call, Goto, IInv, TypeOK
  <2> QED BY <1>0, <2>1, <2>2, Aside
<1>3. ASSUME NEW p \in Processes, Exit(p) \/ Kill(p) PROVE IInv'
  <2>1. UNCHANGED <<file, cache>> /\ End({p})
    BY <1>3 DEF Exit, Kill, system
  <2>2. \A u \in Threads : tm'[u] = None \/ UNCHANGED <<pc[u], tm[u], i[u], module[u]>>
    BY <2>1 DEF End, IInv, TypeOK
  <2> QED BY <1>0, <2>1, <2>2, Aside
<1>4. ASSUME NEW m \in Modules, NEW v \in Versions, WindowsUpdate(m, v) PROVE IInv'
  BY <1>0, <1>4, UpdateKeeps
<1>5. CASE (\E f \in Files : Publish(f)) \/ UNCHANGED vars
  <2>1. UNCHANGED <<file, cache, call, pc>>
    BY <1>5 DEF Publish, vars, system
  <2> QED BY <1>0, <2>1, Aside DEF call
<1> QED BY <1>1, <1>2, <1>3, <1>4, <1>5 DEF Next

(* The invariant holds when places are apart and updates stay.             *)
THEOREM Invariance ==
  ASSUME Apart, ~Rollback
  PROVE  Spec => []IInv
<1>1. Init => IInv
  BY InitIInv
<1>2. IInv /\ [Next]_vars => IInv'
  BY NextIInv
<1> QED BY <1>1, <1>2, PTL DEF Spec

(* What passes for unchanged is right, for any interleaving of any number  *)
(* of processes, wherever they are ended.                                  *)
THEOREM Freshness ==
  ASSUME Apart, ~Rollback
  PROVE  Spec => []FreshIsRight
<1>1. IInv => FreshIsRight
  BY DEF IInv, TimeMeansRight, FreshIsRight, Fresh, Right
<1> QED BY <1>1, Invariance, PTL

(* Once stored completely, a module's symbols are loaded again only for    *)
(* another file.                                                           *)
THEOREM FetchedOnce ==
  ASSUME Apart, ~Rollback
  PROVE  Spec => NotFetchedAgain
<1> DEFINE Again(t) == pc[t] \in {"time", "check"} /\ pc'[t] = "load" /\ mode[t] = "update"
<1>1. IInv /\ [Next]_vars =>
        \A t \in Threads : Again(t) => fetched[module[t]] # file[module[t]]
  <2> SUFFICES ASSUME IInv, [Next]_vars, NEW t \in Threads, Again(t),
                      fetched[module[t]] = file[module[t]]
               PROVE  FALSE
    OBVIOUS
  <2>1. module[t] \in Modules /\ TypeOK
    BY ImageType DEF IInv
  <2>2. time[Place(t)] = Image(t)
    BY <2>1 DEF IInv, FetchedStands, Place, Image
  <2>3. \A k \in 1 .. LastKey[module[t]] : address[Place(t)][k] # None
    BY <2>1, <2>2, ImageIsFile DEF IInv, TimeMeansRight, Right, Place, Image
  <2>4. QueryTime(t) \/ CheckKey(t)
    <3>1. pc'[t] = "load" /\ pc[t] # "load"
      OBVIOUS
    <3>2. ASSUME NEW u \in Threads, u # t, Step(u) PROVE pc'[t] = pc[t]
      BY <2>1, <3>2 DEF Step, Return, Call, Done, QueryTime, CheckKey, Load, LoadExports,
           LoadFails, SetKey, MatchKey, Store, StoreTime, Read, Forget, Result, Goto, TypeOK
    <3>3. ASSUME Step(t) PROVE QueryTime(t) \/ CheckKey(t)
      BY <2>1, <3>1, <3>3 DEF Step, Return, Call, Done, Load, LoadExports,
           LoadFails, SetKey, MatchKey, Store, StoreTime, Read, Forget, Result, Goto, TypeOK
    <3>4. ASSUME NEW u \in Threads,
                 \/ UpdateSymbolCache(u)
                 \/ RebuildSymbolCache(u)
                 \/ \E m \in Modules : Peek(u, m)
          PROVE  pc'[t] # "load"
      BY <2>1, <3>1, <3>4 DEF UpdateSymbolCache, RebuildSymbolCache, Peek, Call, Goto, TypeOK
    <3>5. ASSUME NEW p \in Processes, Exit(p) \/ Kill(p) PROVE pc'[t] # "load"
      BY <2>1, <3>1, <3>5 DEF Exit, Kill, End, TypeOK
    <3>6. ASSUME NEW m \in Modules, NEW v \in Versions, WindowsUpdate(m, v)
          PROVE  pc'[t] # "load"
      BY <2>1, <3>1, <3>6 DEF WindowsUpdate, End, TypeOK
    <3>7. CASE (\E f \in Files : Publish(f)) \/ UNCHANGED vars
      BY <3>1, <3>7 DEF Publish, vars
    <3> QED BY <3>1, <3>2, <3>3, <3>4, <3>5, <3>6, <3>7 DEF Next
  <2>5. CASE QueryTime(t)
    BY <2>1, <2>2, <2>5 DEF QueryTime, Goto, TypeOK
  <2>6. CASE CheckKey(t)
    <3>1. i[t] \in 1 .. LastKey[module[t]] /\ address[Place(t)][i[t]] = None
      BY <2>1, <2>6, Constant DEF CheckKey, Goto, Result, TypeOK
    <3> QED BY <2>3, <3>1
  <2> QED BY <2>4, <2>5, <2>6
<1>2. IInv /\ [Next]_vars =>
        [\A t \in Threads :
           pc[t] \in {"time", "check"} /\ pc'[t] = "load" /\ mode[t] = "update" =>
             fetched[module[t]] # file[module[t]]]_vars
  BY <1>1
<1> QED BY <1>2, Invariance, PTL DEF Spec, NotFetchedAgain
-----------------------------------------------------------------------------
(* What ResolveLocalSymbols uses.                                          *)
(*                                                                         *)
(* ResolvedIsRight speaks of a thread that has come through the whole of   *)
(* UpdateSymbolCache, or found that its process has.  The theorem is for   *)
(* processes in which one thread creates processes (fUpdated is no lock:   *)
(* with two, the second reads it while the first has not been through yet, *)
(* SymThreads.cfg) and for modules UpdateSymbolCache goes over.            *)
Lone == \A t, u \in Threads : ProcessOf[t] = ProcessOf[u] => t = u
Covered == \A m \in Modules : \E n \in 1 .. Len(Order) : Order[n] = m

\* The stored offset of key k will do for m, or t's process has looked for it in
\* vain; a step lets it be so.
Settled(t, m, k) == Right(m, k) \/ <<m, k>> \in missed[ProcessOf[t]]
AllSettled(t, m) == \A k \in 1 .. LastKey[m] : Settled(t, m, k)
Stays(t) ==
  \A m \in Modules : \A k \in 1 .. LastKey[m] : Settled(t, m, k) => Settled(t, m, k)'

UsedRight(t, n) ==
  \A k \in 1 .. LastKey[module[t]] : k < n =>
    used[t][k] = Image(t) \/ <<module[t], k>> \in missed[ProcessOf[t]]

\* What t has found out about the modules when it is where it is: a result of
\* TRUE settles the module, and fUpdated all that the loop has passed.
Resolving(t) ==
  /\ pc[t] \in {"idle", "resolved", "read"} => turn[t] = 0
  /\ turn[t] > 0 => module[t] = Order[turn[t]]
  /\ fUpdated[ProcessOf[t]] =>
       \A n \in 1 .. Len(Order) : turn[t] = 0 \/ n < turn[t] => AllSettled(t, Order[n])
  /\ pc[t] = "check" => AllSettled(t, module[t])
  /\ pc[t] = "set" =>
       \A k \in 1 .. LastKey[module[t]] : k < i[t] => Settled(t, module[t], k)
  /\ pc[t] = "return" /\ result[t] => AllSettled(t, module[t])
  /\ mode[t] = "update" /\ turn[t] = 0 /\ pc[t] # "idle" => AllSettled(t, module[t])
  /\ pc[t] = "read" /\ mode[t] = "update" => UsedRight(t, i[t])
  /\ pc[t] = "resolved" => UsedRight(t, MaxKey + 1)

RInv == \A t \in Threads : Resolving(t)

\* A settled offset stays settled as long as the file does.
LEMMA SettledStays ==
  ASSUME Apart, IInv, file' = file,
         \/ address' = address /\ \A p \in Processes : missed[p] \subseteq missed'[p]
         \/ \E t \in Threads : Store(t) /\ i[t] <= LastKey[module[t]]
  PROVE  \A u \in Threads : Stays(u)
<1> SUFFICES ASSUME NEW u \in Threads PROVE Stays(u)
  OBVIOUS
<1>0. ProcessOf[u] \in Processes
  BY Constant
<1>1. CASE address' = address /\ \A p \in Processes : missed[p] \subseteq missed'[p]
  BY <1>0, <1>1 DEF Stays, Settled, Right
<1>2. ASSUME NEW t \in Threads, Store(t), i[t] <= LastKey[module[t]]
      PROVE  Stays(u)
  <2>1. TypeOK /\ i[t] \in Keys /\ Place(t) \in Places /\ module[t] \in Modules
    BY <1>2, StoreType, ImageType DEF IInv
  <2>2. \A m \in Modules, k \in Keys :
          address'[PlaceOf[m]][k] =
            IF m = module[t] /\ k = i[t] THEN Image(t) ELSE address[PlaceOf[m]][k]
    BY <1>2, <2>1, Constant DEF Store, Apart, Place, TypeOK
  <2>3. \A m \in Modules : \A k \in 1 .. LastKey[m] : k \in Keys
    BY Constant DEF Keys
  <2>4. \A m \in Modules : \A k \in 1 .. LastKey[m] : Right(m, k) => Right(m, k)'
    BY <2>2, <2>3 DEF Right, Image
  <2>5. \A m \in Modules, k \in Keys : m = module[t] /\ k = i[t] => Right(m, k)'
    BY <2>1, <2>2 DEF Right, Image
  <2>6. missed[ProcessOf[u]] \subseteq missed'[ProcessOf[u]] \cup {<<module[t], i[t]>>}
    BY <1>0, <1>2, <2>1 DEF Store, Symbol, TypeOK
  <2>7. ASSUME NEW m \in Modules, NEW k \in 1 .. LastKey[m],
               <<m, k>> \in missed[ProcessOf[u]]
        PROVE  Right(m, k)' \/ <<m, k>> \in missed'[ProcessOf[u]]
    BY <2>3, <2>5, <2>6, <2>7
  <2> QED BY <2>4, <2>7 DEF Stays, Settled
<1> QED BY <1>1, <1>2

\* What has been looked for in vain is added to what was before.
LEMMA MissGrows ==
  ASSUME TypeOK, NEW t \in Threads, NEW S, Miss(t, S)
  PROVE  \A p \in Processes : missed[p] \subseteq missed'[p]
BY Constant DEF Miss, TypeOK

\* A thread that does nothing keeps what it knows.
LEMMA IdleKeeps ==
  ASSUME TypeOK, NEW u \in Threads, Resolving(u), file' = file,
         Stays(u),
         UNCHANGED <<pc[u], mode[u], module[u], turn[u], i[u], result[u], used[u],
                     fUpdated[ProcessOf[u]], missed[ProcessOf[u]]>>
  PROVE  Resolving(u)'
<1>1. module[u] \in Modules
  BY DEF TypeOK
<1>2. \A m \in Modules : AllSettled(u, m) => AllSettled(u, m)'
  BY DEF AllSettled, Stays
<1>3. \A n \in 1 .. Len(Order) : AllSettled(u, Order[n]) => AllSettled(u, Order[n])'
  BY <1>2, Constant
<1>4. (pc[u] = "set" =>
         \A k \in 1 .. LastKey[module[u]] : k < i[u] => Settled(u, module[u], k))'
  BY <1>1 DEF Resolving, Stays
<1>5. \A n : UsedRight(u, n) => UsedRight(u, n)'
  BY DEF UsedRight, Image
<1> QED BY <1>1, <1>2, <1>3, <1>4, <1>5 DEF Resolving

\* Only one thread's state and its process's change.
Alone(t) ==
  \A u \in Threads \ {t} :
    UNCHANGED <<pc[u], mode[u], module[u], turn[u], i[u], result[u], used[u],
                fUpdated[ProcessOf[u]], missed[ProcessOf[u]]>>

\* UpdateSymbolCache, RebuildSymbolCache and Peek begin a call.
LEMMA BeginKeeps ==
  ASSUME Lone, Covered, IInv, RInv, NEW t \in Threads,
         \/ UpdateSymbolCache(t)
         \/ RebuildSymbolCache(t)
         \/ \E m \in Modules : Peek(t, m)
  PROVE  /\ Resolving(t)' /\ Alone(t)
         /\ file' = file /\ address' = address /\ missed' = missed
<1>1. Free(t) /\ file' = file /\ address' = address /\ missed' = missed
  BY DEF UpdateSymbolCache, RebuildSymbolCache, Peek, system, cache, process
<1>2. TypeOK /\ turn[t] = 0 /\ ProcessOf[t] \in Processes
  BY <1>1, Constant DEF RInv, Resolving, Free, IInv
<1>3. Alone(t)
  BY Constant DEF Alone, UpdateSymbolCache, RebuildSymbolCache, Peek, Call, Goto, IInv,
    TypeOK, Lone, process
<1>4. \A m \in Modules : fUpdated[ProcessOf[t]] => AllSettled(t, m)
  BY <1>2 DEF RInv, Resolving, Covered
<1>5. \A m \in Modules : AllSettled(t, m)' <=> AllSettled(t, m)
  BY <1>1 DEF AllSettled, Settled, Right
<1>6. \A n \in 1 .. Len(Order) : Order[n] \in Modules
  BY Constant
<1>7. ASSUME NEW m \in Modules, Call(t, m, 0), fUpdated' = fUpdated,
             mode'[t] = "update" => fUpdated[ProcessOf[t]]
      PROVE  Resolving(t)'
  <2>1. pc'[t] = "time" /\ turn'[t] = 0 /\ module'[t] = m
    BY <1>2, <1>7 DEF Call, Goto, TypeOK
  <2> QED BY <1>4, <1>5, <1>6, <1>7, <2>1 DEF Resolving
<1>8. ASSUME Call(t, Order[1], 1) PROVE Resolving(t)'
  <2>1. pc'[t] = "time" /\ turn'[t] = 1 /\ module'[t] = Order[1]
    BY <1>2, <1>8 DEF Call, Goto, TypeOK
  <2> QED BY <2>1 DEF Resolving
<1>9. \/ Call(t, Order[1], 1)
      \/ /\ \E m \in Modules : Call(t, m, 0)
         /\ fUpdated' = fUpdated /\ (mode'[t] = "update" => fUpdated[ProcessOf[t]])
  BY <1>2 DEF UpdateSymbolCache, RebuildSymbolCache, Peek, TypeOK, process
<1> QED BY <1>1, <1>3, <1>7, <1>8, <1>9

\* Return: the result of one more module goes into fUpdated.
LEMMA ReturnKeeps ==
  ASSUME Lone, Covered, IInv, RInv, NEW t \in Threads, Return(t)
  PROVE  /\ Resolving(t)' /\ Alone(t)
         /\ file' = file /\ address' = address /\ missed' = missed
<1>1. pc[t] = "return" /\ file' = file /\ address' = address /\ missed' = missed
  BY DEF Return, system, cache
<1>2. TypeOK /\ Resolving(t) /\ ProcessOf[t] \in Processes /\ module[t] \in Modules
  BY Constant, ImageType DEF RInv, IInv
<1>3. Alone(t)
  BY Constant DEF Alone, Return, Call, Done, Forget, Goto, IInv, TypeOK, Lone
<1> SUFFICES Resolving(t)'
  BY <1>1, <1>3
<1>4. \A m \in Modules : AllSettled(t, m)' <=> AllSettled(t, m)
  BY <1>1 DEF AllSettled, Settled, Right
<1>5. \A n \in 1 .. Len(Order) : Order[n] \in Modules
  BY Constant
<1>6. turn[t] \in 0 .. Len(Order) /\ Len(Order) \in Nat
  BY <1>2, Constant DEF TypeOK
<1>7. CASE turn[t] = 0
  <2>1. /\ pc'[t] = "read" /\ turn'[t] = 0 /\ i'[t] = 1
        /\ module'[t] = module[t] /\ mode'[t] = mode[t] /\ fUpdated' = fUpdated
    BY <1>2, <1>7 DEF Return, Goto, TypeOK
  <2>2. UsedRight(t, i[t])'
    BY <2>1 DEF UsedRight
  <2>3. fUpdated'[ProcessOf[t]] => \A n \in 1 .. Len(Order) : AllSettled(t, Order[n])'
    BY <1>2, <1>4, <1>5, <1>7, <2>1 DEF Resolving
  <2>4. mode'[t] = "update" => AllSettled(t, module[t])'
    BY <1>1, <1>2, <1>4, <1>7, <2>1 DEF Resolving
  <2> QED BY <2>1, <2>2, <2>3, <2>4 DEF Resolving
<1>8. CASE turn[t] > 0
  <2>0. fUpdated' = [fUpdated EXCEPT ![ProcessOf[t]] = AllUpdated(t)]
    BY <1>8 DEF Return
  <2>1. fUpdated'[ProcessOf[t]] => AllUpdated(t)
    BY <1>2, <2>0, Zenon DEF TypeOK
  <2>2. AllUpdated(t) => \A n \in 1 .. turn[t] : AllSettled(t, Order[n])
    BY <1>1, <1>2, <1>6, <1>8 DEF AllUpdated, Resolving
  <2>3. CASE turn[t] < Len(Order) /\ Call(t, Order[turn[t] + 1], turn[t] + 1)
    <3>1. /\ pc'[t] = "time" /\ turn'[t] = turn[t] + 1
          /\ module'[t] = Order[turn[t] + 1]
      BY <1>2, <2>3 DEF Call, Goto, TypeOK
    <3>2. \A n \in 1 .. Len(Order) : n < turn[t] + 1 => n \in 1 .. turn[t]
      BY <1>6
    <3>3. turn[t] + 1 # 0 /\ turn[t] + 1 > 0
      BY <1>6
    <3>4. fUpdated'[ProcessOf[t]] =>
            \A n \in 1 .. Len(Order) : n < turn'[t] => AllSettled(t, Order[n])'
      BY <1>4, <1>5, <2>1, <2>2, <3>1, <3>2
    <3> QED BY <3>1, <3>3, <3>4 DEF Resolving
  <2>4. CASE /\ turn[t] = Len(Order) /\ mode[t] = "update" /\ AllUpdated(t)
             /\ \E m \in Modules : Call(t, m, 0)
    <3>1. PICK m \in Modules : Call(t, m, 0)
      BY <2>4
    <3>2. pc'[t] = "time" /\ turn'[t] = 0 /\ module'[t] = m
      BY <1>2, <3>1 DEF Call, Goto, TypeOK
    <3>3. AllSettled(t, m)' /\ \A n \in 1 .. Len(Order) : AllSettled(t, Order[n])'
      BY <1>4, <1>5, <2>2, <2>4 DEF Covered
    <3> QED BY <3>2, <3>3 DEF Resolving
  <2>5. CASE turn[t] = Len(Order) /\ Done(t, "idle")
    <3>1. pc'[t] = "idle" /\ turn'[t] = 0
      BY <1>2, <2>5 DEF Done, Goto, TypeOK
    <3>2. fUpdated'[ProcessOf[t]] => \A n \in 1 .. Len(Order) : AllSettled(t, Order[n])'
      BY <1>4, <1>5, <2>1, <2>2, <2>5
    <3> QED BY <3>1, <3>2 DEF Resolving
  <2> QED BY <1>8, <2>3, <2>4, <2>5 DEF Return
<1> QED BY <1>6, <1>7, <1>8

\* What a step inside UpdateSymsForModule leaves alone.
Within(t) == /\ Alone(t)
             /\ file' = file
             /\ UNCHANGED <<fUpdated, mode, module, turn>>

LEMMA StepWithin ==
  ASSUME Lone, IInv, NEW t \in Threads,
         \/ QueryTime(t) \/ CheckKey(t) \/ Load(t) \/ LoadExports(t) \/ LoadFails(t)
         \/ SetKey(t) \/ MatchKey(t) \/ StoreTime(t)
  PROVE  /\ Within(t)
         /\ pc[t] \notin {"idle", "resolved", "read", "return"}
         /\ pc'[t] \notin {"idle", "resolved", "read"}
<1> USE DEF Within, Alone, IInv, TypeOK, Goto, Result, system, process
<1>0. \A u \in Threads \ {t} : ProcessOf[u] # ProcessOf[t]
  BY DEF Lone
<1>1. CASE QueryTime(t) \/ CheckKey(t)
  BY <1>1 DEF QueryTime, CheckKey
<1>2. CASE Load(t) \/ LoadFails(t)
  BY <1>2 DEF Load, LoadFails
<1>3. CASE SetKey(t)
  BY <1>0, <1>3, Constant DEF SetKey, Store, Miss
<1>4. CASE MatchKey(t)
  BY <1>0, <1>4, Constant DEF MatchKey, Store
<1>5. CASE StoreTime(t)
  BY <1>5 DEF StoreTime
<1>6. CASE LoadExports(t)
  BY <1>0, <1>6, Constant DEF LoadExports, Miss
<1> QED BY <1>1, <1>2, <1>3, <1>4, <1>5, <1>6

\* Such a step keeps what is known when it settles what its place says.
LEMMA WithinKeeps ==
  ASSUME IInv, NEW t \in Threads, Resolving(t), Within(t), Stays(t),
         pc[t] \notin {"idle", "resolved", "read"},
         pc'[t] \notin {"idle", "resolved", "read"},
         pc'[t] = "check" => AllSettled(t, module[t])',
         (pc[t] = "set" =>
            \A k \in 1 .. LastKey[module[t]] : k < i[t] => Settled(t, module[t], k))',
         pc'[t] = "return" /\ result'[t] => AllSettled(t, module[t])'
  PROVE  Resolving(t)'
<1>1. module[t] \in Modules /\ module' = module
  BY DEF IInv, TypeOK, Within
<1>2. \A m \in Modules : AllSettled(t, m) => AllSettled(t, m)'
  BY DEF AllSettled, Stays
<1>3. \A n \in 1 .. Len(Order) : AllSettled(t, Order[n]) => AllSettled(t, Order[n])'
  BY <1>2, Constant
<1>4. AllSettled(t, module[t]) => AllSettled(t, module[t])'
  BY <1>1, <1>2
<1> QED BY <1>1, <1>3, <1>4 DEF Resolving, Within

\* QueryTime: a stored time that is the file's own settles every offset.
LEMMA QueryTimeKeeps ==
  ASSUME Apart, Lone, IInv, NEW t \in Threads, Resolving(t), QueryTime(t)
  PROVE  Resolving(t)'
<1>1. /\ file' = file /\ address' = address /\ module' = module /\ time' = time
      /\ missed' = missed
  BY DEF QueryTime, system, cache, process
<1>2. Stays(t)
  BY <1>1, SettledStays
<1>3. module[t] \in Modules
  BY DEF IInv, TypeOK
<1>4. pc'[t] \in {"check", "load"} /\ (pc'[t] = "check" => time[Place(t)] = Image(t))
  BY DEF QueryTime, Goto, IInv, TypeOK
<1>5. time[Place(t)] = Image(t) => AllSettled(t, module[t])
  BY <1>3 DEF IInv, TimeMeansRight, AllSettled, Settled, Place, Image
<1>6. AllSettled(t, module[t]) => AllSettled(t, module[t])'
  BY <1>1, <1>2, <1>3 DEF AllSettled, Stays
<1> QED BY <1>2, <1>4, <1>5, <1>6, StepWithin, WithinKeeps

\* CheckKey and the two ways from "load": nothing is settled that was not.
LEMMA CheckKeeps ==
  ASSUME Apart, Lone, IInv, NEW t \in Threads, Resolving(t),
         CheckKey(t) \/ Load(t) \/ LoadFails(t)
  PROVE  Resolving(t)'
<1>1. file' = file /\ address' = address /\ module' = module /\ missed' = missed
  BY DEF CheckKey, Load, LoadFails, system, cache, process
<1>2. Stays(t)
  BY <1>1, SettledStays
<1>3. module[t] \in Modules
  BY DEF IInv, TypeOK
<1>4. AllSettled(t, module[t]) => AllSettled(t, module[t])'
  BY <1>1, <1>2, <1>3 DEF AllSettled, Stays
<1>5. CASE CheckKey(t)
  <2>1. pc[t] = "check" /\ pc'[t] \in {"check", "return", "load"}
    BY <1>5 DEF CheckKey, Result, Goto, IInv, TypeOK
  <2> QED BY <1>2, <1>4, <1>5, <2>1, StepWithin, WithinKeeps DEF Resolving
<1>6. CASE Load(t) \/ LoadFails(t)
  <2>1. \/ pc'[t] \in {"set", "match"} /\ i'[t] = 1
        \/ pc'[t] = "return" /\ result'[t] = FALSE
    BY <1>6 DEF Load, LoadFails, Result, Goto, IInv, TypeOK
  <2>2. \A k \in 1 .. LastKey[module'[t]] : ~(k < 1)
    BY <1>1, <1>3, Constant
  <2> QED BY <1>2, <1>6, <2>1, <2>2, StepWithin, WithinKeeps
<1> QED BY <1>5, <1>6

\* LoadExports: the symbols of the module have been looked for in vain.
LEMMA ExportsKeeps ==
  ASSUME Apart, Lone, IInv, NEW t \in Threads, Resolving(t), LoadExports(t)
  PROVE  Resolving(t)'
<1>1. file' = file /\ address' = address /\ module' = module
  BY DEF LoadExports, system, cache
<1>2. /\ ProcessOf[t] \in Processes /\ module[t] \in Modules
      /\ \A p \in Processes : missed[p] \subseteq missed'[p]
      /\ \A k \in 1 .. LastKey[module[t]] : <<module[t], k>> \in missed'[ProcessOf[t]]
  BY Constant DEF LoadExports, Miss, IInv, TypeOK
<1>3. Stays(t)
  BY <1>1, <1>2, SettledStays
<1>4. AllSettled(t, module[t])'
  BY <1>1, <1>2 DEF AllSettled, Settled
<1>5. pc'[t] = "return"
  BY DEF LoadExports, Result, Goto, IInv, TypeOK
<1> QED BY <1>3, <1>4, <1>5, StepWithin, WithinKeeps

\* SetKey: an offset is stored, or its symbol has been looked for in vain.
LEMMA SetKeeps ==
  ASSUME Apart, Lone, IInv, NEW t \in Threads, Resolving(t), SetKey(t)
  PROVE  Resolving(t)'
<1>1. /\ pc[t] = "set" /\ i[t] <= LastKey[module[t]]
      /\ file' = file /\ module' = module
      /\ \/ Store(t)
         \/ address' = address /\ \A p \in Processes : missed[p] \subseteq missed'[p]
  <2>1. Store(t) \/ (address' = address /\ (missed' = missed \/ Miss(t, {Symbol(t)})))
    BY DEF SetKey
  <2> QED BY <2>1, MissGrows DEF SetKey, IInv, system
<1>2. Stays(t)
  BY <1>1, SettledStays
<1>3. /\ module[t] \in Modules /\ Place(t) \in Places /\ i[t] \in Nat
      /\ ProcessOf[t] \in Processes
  BY ImageType, Constant DEF IInv, TypeOK
<1>4. CASE Store(t)
  <2>1. i'[t] = i[t] + 1 /\ pc' = pc
    BY <1>4 DEF Store, IInv, TypeOK
  <2>2. i[t] \in Keys
    BY <1>1, <1>4, StoreType DEF IInv
  <2>3. address'[Place(t)][i[t]] = Image(t)
    BY <1>3, <1>4, <2>2 DEF Store, IInv, TypeOK
  <2>5. ASSUME NEW k \in 1 .. LastKey[module'[t]], k < i'[t]
        PROVE  Settled(t, module[t], k)'
    <3>1. CASE k < i[t]
      BY <1>1, <1>2, <1>3, <2>5, <3>1 DEF Resolving, Stays
    <3>2. CASE k = i[t]
      BY <1>1, <2>1, <2>3, <3>2 DEF Settled, Right, Place, Image
    <3> QED BY <1>3, <2>1, <2>5, <3>1, <3>2
  <2> QED BY <1>1, <1>2, <2>1, <2>5, StepWithin, WithinKeeps
<1>5. CASE ~Store(t) /\ pc'[t] = "match"
  BY <1>2, <1>5, StepWithin, WithinKeeps
<1>6. CASE ~Store(t) /\ pc'[t] # "match"
  <2>1. /\ i'[t] = i[t] + 1 /\ pc' = pc
        /\ <<module[t], i[t]>> \in missed'[ProcessOf[t]]
    BY <1>3, <1>6 DEF SetKey, Miss, Symbol, Goto, IInv, TypeOK
  <2>2. ASSUME NEW k \in 1 .. LastKey[module'[t]], k < i'[t]
        PROVE  Settled(t, module[t], k)'
    <3>1. CASE k < i[t]
      BY <1>1, <1>2, <1>3, <2>2, <3>1 DEF Resolving, Stays
    <3>2. CASE k = i[t]
      BY <1>1, <2>1, <3>2 DEF Settled
    <3> QED BY <1>3, <2>1, <2>2, <3>1, <3>2
  <2> QED BY <1>1, <1>2, <2>1, <2>2, StepWithin, WithinKeeps
<1> QED BY <1>4, <1>5, <1>6

\* MatchKey: what the patterns find is never reported as a success.
LEMMA MatchKeeps ==
  ASSUME Apart, Lone, IInv, NEW t \in Threads, Resolving(t), MatchKey(t)
  PROVE  Resolving(t)'
<1>1. /\ pc[t] = "match" /\ pc' = pc /\ i[t] <= LastKey[module[t]]
      /\ file' = file
      /\ Store(t) \/ (address' = address /\ missed' = missed)
  BY DEF MatchKey, Store, system
<1>2. Stays(t)
  BY <1>1, SettledStays
<1> QED BY <1>1, <1>2, StepWithin, WithinKeeps

\* StoreTime: success is reported after the last offset only.
LEMMA StoreTimeResolves ==
  ASSUME Apart, Lone, IInv, NEW t \in Threads, Resolving(t), StoreTime(t)
  PROVE  Resolving(t)'
<1>1. /\ pc[t] \in {"set", "match"} /\ pc'[t] = "return" /\ i[t] > LastKey[module[t]]
      /\ result'[t] => pc[t] = "set"
      /\ file' = file /\ module' = module /\ address' = address /\ missed' = missed
  <2>1. result' = [result EXCEPT ![t] = (pc[t] = "set")]
    BY DEF StoreTime, Result
  <2>2. result'[t] => pc[t] = "set"
    BY <2>1, Zenon DEF IInv, TypeOK
  <2> QED BY <2>2 DEF StoreTime, Result, Goto, IInv, TypeOK, system, process
<1>2. Stays(t)
  BY <1>1, SettledStays
<1>3. module[t] \in Modules /\ i[t] \in Nat /\ LastKey[module[t]] \in Nat
  BY ImageType, Constant DEF IInv, TypeOK
<1>4. pc[t] = "set" => AllSettled(t, module[t])'
  BY <1>1, <1>2, <1>3 DEF Resolving, AllSettled, Stays
<1> QED BY <1>1, <1>2, <1>4, StepWithin, WithinKeeps

\* Read: the offset added to the module's base is a settled one.
LEMMA ReadKeeps ==
  ASSUME Apart, Lone, IInv, NEW t \in Threads, Resolving(t), Read(t)
  PROVE  /\ Resolving(t)' /\ Alone(t)
         /\ file' = file /\ address' = address /\ missed' = missed
<1>1. /\ pc[t] = "read" /\ turn[t] = 0
      /\ file' = file /\ address' = address /\ missed' = missed /\ fUpdated' = fUpdated
  BY DEF Read, Resolving, system, cache, process
<1>2. Alone(t)
  BY DEF Alone, Read, Done, Forget, Goto, IInv, TypeOK, process
<1> SUFFICES Resolving(t)'
  BY <1>1, <1>2
<1>3. \A m \in Modules : AllSettled(t, m)' <=> AllSettled(t, m)
  BY <1>1 DEF AllSettled, Settled, Right
<1>4. /\ module[t] \in Modules /\ i[t] \in Nat /\ LastKey[module[t]] \in 1 .. MaxKey
      /\ Place(t) \in Places /\ MaxKey \in Nat
  BY ImageType, Constant DEF IInv, TypeOK
<1>5. fUpdated'[ProcessOf[t]] => \A n \in 1 .. Len(Order) : AllSettled(t, Order[n])'
  BY <1>1, <1>3, Constant DEF Resolving
<1>6. CASE Done(t, "idle")
  <2>1. pc'[t] = "idle" /\ turn'[t] = 0
    BY <1>6 DEF Done, Goto, IInv, TypeOK
  <2> QED BY <1>5, <2>1 DEF Resolving
<1>7. CASE /\ i[t] > LastKey[module[t]] /\ mode[t] = "update"
           /\ Done(t, "resolved") /\ UNCHANGED <<mode, module, used>>
  <2>1. pc'[t] = "resolved" /\ turn'[t] = 0
    BY <1>7 DEF Done, Goto, IInv, TypeOK
  <2>2. AllSettled(t, module[t])'
    BY <1>1, <1>3, <1>4, <1>7 DEF Resolving
  <2>3. UsedRight(t, MaxKey + 1)'
    BY <1>1, <1>4, <1>7 DEF Resolving, UsedRight, Image
  <2> QED BY <1>5, <2>1, <2>2, <2>3 DEF Resolving
<1>8. CASE /\ i[t] <= LastKey[module[t]] /\ address[Place(t)][i[t]] # None
           /\ used' = [used EXCEPT ![t][i[t]] = address[Place(t)][i[t]]]
           /\ i' = [i EXCEPT ![t] = @ + 1]
           /\ UNCHANGED <<pc, mode, module, turn, tm, result>>
  <2>1. i[t] \in 1 .. LastKey[module[t]] /\ i[t] \in Keys
    BY <1>4, <1>8 DEF IInv, TypeOK, Keys
  <2>2. /\ used'[t][i[t]] = address[Place(t)][i[t]]
        /\ \A k \in Keys : k # i[t] => used'[t][k] = used[t][k]
    BY <1>8, <2>1 DEF IInv, TypeOK
  <2>3. i'[t] = i[t] + 1
    BY <1>8 DEF IInv, TypeOK
  <2>4. AllSettled(t, module[t]) => AllSettled(t, module[t])'
    BY <1>3, <1>4, <1>8
  <2>5. mode[t] = "update" => UsedRight(t, i[t])'
    <3> SUFFICES ASSUME mode[t] = "update", NEW k \in 1 .. LastKey[module'[t]], k < i'[t]
                 PROVE  (used[t][k] = Image(t) \/ <<module[t], k>> \in missed[ProcessOf[t]])'
      BY DEF UsedRight
    <3>1. k \in 1 .. LastKey[module[t]] /\ k \in Keys
      BY <1>4, <1>8 DEF Keys
    <3>2. Image(t)' = Image(t)
      BY <1>1, <1>8 DEF Image
    <3>3. CASE k < i[t]
      BY <1>1, <1>8, <2>2, <3>1, <3>2, <3>3 DEF Resolving, UsedRight
    <3>4. CASE k = i[t]
      <4>1. Settled(t, module[t], k)
        BY <1>1, <3>1 DEF Resolving, AllSettled
      <4> QED BY <1>1, <1>8, <2>2, <3>2, <3>4, <4>1 DEF Settled, Right, Place, Image
    <3> QED BY <1>4, <2>3, <3>1, <3>3, <3>4
  <2> QED BY <1>1, <1>5, <1>8, <2>4, <2>5 DEF Resolving
<1> QED BY <1>6, <1>7, <1>8 DEF Read

\* Processes end: their threads know nothing any more, the others go on.
LEMMA EndKeeps ==
  ASSUME IInv, RInv, NEW S, End(S), S # Processes => file' = file, address' = address,
         S \subseteq Processes
  PROVE  RInv'
<1> SUFFICES ASSUME NEW t \in Threads PROVE Resolving(t)'
  BY DEF RInv
<1>1. ProcessOf[t] \in Processes
  BY Constant
<1>2. CASE ProcessOf[t] \in S
  <2>1. pc'[t] = "idle" /\ turn'[t] = 0 /\ fUpdated'[ProcessOf[t]] = FALSE
    BY <1>1, <1>2 DEF End
  <2> QED BY <2>1 DEF Resolving
<1>3. CASE ProcessOf[t] \notin S
  <2>1. file' = file
    BY <1>1, <1>3
  <2>2. UNCHANGED <<pc[t], mode[t], module[t], turn[t], i[t], result[t], used[t],
                    fUpdated[ProcessOf[t]], missed[ProcessOf[t]]>>
    BY <1>1, <1>3 DEF End
  <2>3. Stays(t)
    BY <2>1, <2>2 DEF Stays, Settled, Right
  <2> QED BY <2>1, <2>2, <2>3, IdleKeeps DEF IInv, RInv
<1> QED BY <1>2, <1>3

\* Every step keeps RInv.
LEMMA NextRInv ==
  Apart /\ Lone /\ Covered /\ IInv /\ RInv /\ [Next]_vars => RInv'
<1> SUFFICES ASSUME Apart, Lone, Covered, IInv, RInv, [Next]_vars PROVE RInv'
  OBVIOUS
<1>1. ASSUME NEW t \in Threads, Resolving(t)', Alone(t), file' = file,
             \A u \in Threads : Stays(u)
      PROVE  RInv'
  BY <1>1, IdleKeeps DEF RInv, Alone, IInv
<1>2. ASSUME NEW t \in Threads,
             \/ UpdateSymbolCache(t)
             \/ RebuildSymbolCache(t)
             \/ \E m \in Modules : Peek(t, m)
             \/ Return(t)
             \/ Read(t)
      PROVE  RInv'
  <2>1. /\ Resolving(t)' /\ Alone(t)
        /\ file' = file /\ address' = address /\ missed' = missed
    BY <1>2, BeginKeeps, ReturnKeeps, ReadKeeps DEF RInv
  <2>2. \A u \in Threads : Stays(u)
    BY <2>1, SettledStays
  <2> QED BY <1>1, <2>1, <2>2
<1>3. ASSUME NEW t \in Threads,
             \/ QueryTime(t) \/ CheckKey(t) \/ Load(t) \/ LoadExports(t) \/ LoadFails(t)
             \/ SetKey(t) \/ MatchKey(t) \/ StoreTime(t)
      PROVE  RInv'
  <2>1. Resolving(t)'
    BY <1>3, QueryTimeKeeps, CheckKeeps, ExportsKeeps, SetKeeps, MatchKeeps,
       StoreTimeResolves DEF RInv
  <2>2. Alone(t) /\ file' = file
    BY <1>3, StepWithin DEF Within
  <2>3. CASE Store(t) /\ (SetKey(t) \/ MatchKey(t))
    <3>1. i[t] <= LastKey[module[t]]
      BY <2>3 DEF SetKey, MatchKey
    <3> QED BY <1>1, <2>1, <2>2, <2>3, <3>1, SettledStays
  <2>4. CASE ~(Store(t) /\ (SetKey(t) \/ MatchKey(t)))
    <3>1. address' = address /\ \A p \in Processes : missed[p] \subseteq missed'[p]
      <4>1. address' = address /\ (missed' = missed \/ \E S : Miss(t, S))
        BY <1>3, <2>4 DEF QueryTime, CheckKey, Load, LoadExports, LoadFails, SetKey,
             MatchKey, StoreTime, cache, process
      <4> QED BY <4>1, MissGrows DEF IInv
    <3> QED BY <1>1, <2>1, <2>2, <3>1, SettledStays
  <2> QED BY <2>3, <2>4
<1>4. ASSUME NEW p \in Processes, Exit(p) \/ Kill(p) PROVE RInv'
  <2>1. End({p}) /\ file' = file /\ address' = address
    BY <1>4 DEF Exit, Kill, cache, system
  <2> QED BY <2>1, EndKeeps
<1>5. ASSUME NEW m \in Modules, NEW v \in Versions, WindowsUpdate(m, v) PROVE RInv'
  <2>1. End(Processes) /\ address' = address
    BY <1>5 DEF WindowsUpdate, cache
  <2> QED BY <2>1, EndKeeps
<1>6. CASE (\E f \in Files : Publish(f)) \/ UNCHANGED vars
  <2>1. UNCHANGED <<file, address, fUpdated, missed, pc, mode, module, turn, i, result, used>>
    BY <1>6 DEF Publish, vars, system, cache, process, call
  <2>2. \A u \in Threads : Stays(u)
    BY <2>1 DEF Stays, Settled, Right
  <2> QED BY <2>1, <2>2, IdleKeeps DEF RInv, IInv
<1> QED BY <1>2, <1>3, <1>4, <1>5, <1>6 DEF Next, Step

\* A resolved thread uses the offsets of the file its process has loaded, or
\* the stored one of a symbol the process last looked for in vain, in a PDB that
\* lacks it or in mere exports: for any number of processes that update, rebuild
\* and read the cache at once, wherever they are ended.
THEOREM Resolution ==
  ASSUME Apart, ~Rollback, Lone, Covered
  PROVE  Spec => []ResolvedIsRight
<1>1. Init => RInv
  <2> SUFFICES ASSUME Init, NEW t \in Threads PROVE Resolving(t)
    BY DEF RInv
  <2>1. pc[t] = "idle" /\ turn[t] = 0 /\ ~fUpdated[ProcessOf[t]]
    BY Constant DEF Init
  <2> QED BY <2>1 DEF Resolving
<1>2. IInv /\ RInv /\ [Next]_vars => RInv'
  BY NextRInv
<1>3. IInv /\ RInv => ResolvedIsRight
  <2> SUFFICES ASSUME IInv, RInv, NEW t \in Threads, pc[t] = "resolved",
                      NEW k \in 1 .. LastKey[module[t]]
               PROVE  used[t][k] = Image(t) \/ <<module[t], k>> \in missed[ProcessOf[t]]
    BY DEF ResolvedIsRight
  <2>1. LastKey[module[t]] \in 1 .. MaxKey /\ MaxKey \in Nat
    BY ImageType, Constant DEF IInv
  <2> QED BY <2>1 DEF RInv, Resolving, UsedRight
<1> QED BY <1>1, <1>2, <1>3, Invariance, PTL DEF Spec
=============================================================================
