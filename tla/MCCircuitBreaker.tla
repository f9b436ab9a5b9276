-------------------------- MODULE MCCircuitBreaker --------------------------
(* Instance of CircuitBreaker for TLC: the constants are in the .cfg files. *)
EXTENDS CircuitBreaker, TLC

\* The coroutines run the same code and no property names one of them.
CallerSymmetry == Permutations(Callers)
=============================================================================
