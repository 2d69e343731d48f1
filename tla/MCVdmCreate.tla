---------------------------- MODULE MCVdmCreate -----------------------------
(* Instances of VdmCreate: the creators share one console.                 *)
EXTENDS VdmCreate
CONSTANTS con
MCConsoleOf == [c \in Creators |-> con]

Run(i, f) == [image |-> i, flags |-> f]
Forced == [NoFlags EXCEPT !.forceDos = TRUE]
Detached == Run("dos", [NoFlags EXCEPT !.detached = TRUE])

\* What leads to each branch: a batch file, a Windows program forced into a
\* DOS VDM, DOS and 16-bit Windows programs, and a detached one.
MCCalls ==
  { Run("bat", NoFlags), Run("win32", Forced), Run("dos", NoFlags), Run("win16", NoFlags), Detached }

\* A DOS program forced into a DOS VDM.
MCForced == { Run("dos", Forced), Run("win16", NoFlags) }
MCNoFails == {}
MCFails ==
  {"open", "section", "config", "check", "image", "priority", "update", "thread", "accept"}
=============================================================================
