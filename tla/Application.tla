---------------------------- MODULE Application ----------------------------
(***************************************************************************)
(* What athenai.gateway.app builds at startup from its environment, as     *)
(* operators on it.  Nothing is read again later, so the environment of a  *)
(* process decides for its whole life which model answers and whether      *)
(* documents can be ingested.                                              *)
(***************************************************************************)
EXTENDS Adapters

\* What the process finds: the variables lifespan() reads, and whether the database
\* behind ATHENA_DB_URL answers.  A key with a character outside ASCII cannot be sent
\* in a header.
Environment ==
  [ANTHROPIC_API_KEY : {Unset, "ASCII", "not ASCII"},
   ATHENA_DB_URL : BOOLEAN,
   ATHENA_EMBEDDER_URL : BOOLEAN,
   database : BOOLEAN]

None == "none"

\* _build_model(): an unusable key means a mock, like no key.
backend(environment) ==
  IF environment.ANTHROPIC_API_KEY = "ASCII" THEN "cloud" ELSE "mock"

\* CloudEmbedder.__init__ has no default for api_key.
CloudEmbedder(arguments) == IF "api_key" \in arguments THEN "embedder" ELSE "TypeError"

CanConnect(environment) ==
  environment.ATHENA_DB_URL /\ environment.ATHENA_EMBEDDER_URL /\ environment.database

\* _maybe_add_document_loader(): whatever goes wrong, the application starts without.
document_loader(environment) ==
  IF CanConnect(environment) /\ CloudEmbedder({"base_url"}) = "embedder"
    THEN "loader"
    ELSE None

\* /v1/documents/ingest: a loader's exception is not caught.
document_ingest(loader) == IF loader = None THEN {"503"} ELSE {"200", "bare 500"}

\* /ready
ready(type, reply) == IF health_check(type, reply) THEN "ready" ELSE "not_ready"
=============================================================================
