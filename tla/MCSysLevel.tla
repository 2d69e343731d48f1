----------------------------- MODULE MCSysLevel -----------------------------
(* Small instances of SysLevel for TLC. *)
EXTENDS SysLevel, TLC

\* Threads and handles are interchangeable.
Symmetry == Permutations(Threads) \cup Permutations(Handles)
=============================================================================
