----------------------------- MODULE MCGateway -----------------------------
(* Instance of Gateway for TLC: the constants are here and in the .cfg files. *)
EXTENDS Gateway, TLC

\* Requests differ only in the route they come in by, which is chosen on arrival.
RequestSymmetry == Permutations(Requests)

Started(key, rag) ==
  [ANTHROPIC_API_KEY |-> key, ATHENA_DB_URL |-> rag, ATHENA_EMBEDDER_URL |-> rag, database |-> rag]

\* A process with a mock and one with the cloud model.
MCEnvironments == {Started(Unset, FALSE), Started("ASCII", TRUE)}
=============================================================================
