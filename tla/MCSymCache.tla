----------------------------- MODULE MCSymCache -----------------------------
(* Two processes, kernel32.dll with two symbols and appinfo.dll with one.  *)
EXTENDS SymCache, TLC

CONSTANTS t1, t2, p1, p2, kernel32, kernel32wow, appinfo, native, user

MCProcessOf == [t \in Threads |-> IF t = t1 THEN p1 ELSE p2]
\* The two processes, with their threads, are interchangeable.
MCSymmetry ==
  {f \in Permutations(Threads \cup Processes) :
     \A t \in Threads : f[t] \in Threads /\ f[ProcessOf[t]] = ProcessOf[f[t]]}

MCOneProcess == [t \in Threads |-> p1]
MCOrder == <<kernel32, appinfo>>
MCPlaceOf == [m \in Modules |-> IF m = kernel32 THEN native ELSE user]
MCWowOrder == <<kernel32, kernel32wow>>
MCTwoKeys == [m \in Modules |-> 2]
MCNothing == {}
MCOnePlace == [m \in Modules |-> user]
MCLastKey == [m \in Modules |-> IF m = kernel32 THEN 2 ELSE 1]
MCPdbLacks == {<<kernel32, 2, 2>>, <<appinfo, 1, 1>>}
MCAppinfoLacks == {<<appinfo, 1, 1>>}
MCSigLacks == {<<appinfo, 2, 1>>}
=============================================================================
