-------------------------- MODULE MCSummaryMemory --------------------------
(* Instance of SummaryMemory for TLC: the constants are in the .cfg file.   *)
EXTENDS SummaryMemory, TLC

\* Readers run the same code, and so do writers.
CoroutineSymmetry == Permutations(Readers) \union Permutations(Writers)
=============================================================================
