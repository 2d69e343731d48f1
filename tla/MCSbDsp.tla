------------------------------ MODULE MCSbDsp ------------------------------
(* Small instances of SbDsp for TLC. *)
EXTENDS SbDsp, TLC

\* DMA threads are interchangeable.
Symmetry == Permutations(DmaThreads)
============================================================================
