# AthenaAI in TLA+

Formal models of AthenaAI (an asyncio Python framework for LLM agents: gateway,
agent loop, retrieval, memory, routing, resilience). TLC checks the models on
small instances, TLAPS proves every property of them that does not need fairness for
all values of the constants. Paths below are relative to `src/src/athenai/`.

Everything runs in one process on one event loop. Code between two awaits is
atomic, so the interleavings that matter are those at awaits: model calls,
database statements, sleeps, semaphore and lock waits. Every action of a model is
what one coroutine does between two suspensions.

To run: `tlc -config MCX.cfg MCX`, `tlapm XProofs.tla`. `PROJECT.json` lists the
runs, the lines each definition models, the mutated definitions each property was
seen to reject, the hazards, and the theorems.

## 1. Inventory

| Component | State it keeps | Operations | Interacts with | What is hard | What makes it correct |
|---|---|---|---|---|---|
| Circuit breaker `resilience/circuit_breaker.py` | state, failure count, probe successes, time of the trip | `call`, `record_*`, `is_open` | shared by coroutines; read by the router | reports of calls begun in an earlier state; cancelled calls; lazy half-open | trips after a full run of failures, quiet cooldown, closes only after probes, recovers |
| Token bucket `resilience/rate_limiter.py` | tokens, time of last refill | `acquire` | shared by coroutines | lazy refill, refused requests, long idleness | never more than burst + refill in any window |
| Timeout, retry `resilience/timeout.py`, `retry.py` | none / loop of one call | `with_timeout`, `with_retry` | wrap model calls in breakers | retries against a breaker others move; last attempt | attempts bounded, only told failures retried, ends |
| Agent executor `agents/executor.py`, `state.py` | transcript, trace, status, iteration of one run | `run` | model, tools (gathered) | tools finish in any order, fail partially; iteration cap | each outcome reaches the model under its call; terminates; status table |
| Runtime, routes, wiring `runtime/pipeline.py`, `gateway/`, `observability/metrics.py` | semaphore, counters; what was built at startup | chat, stream, agent run, ingest, ready; `lifespan` | model, agent, loader | failures after the status line is out, hang-ups while a generator is suspended, exceptions before the try block; partial startup | permits conserved, queue served, streams end with `[DONE]`, counters true; what is configured is served |
| Document loader, chunker, embedder, vector store `rag/` | chunks table | `ingest`, `reingest`, `chunk`, `embed`, `search` | PostgreSQL, embedding API | one commit per row; count read long before the inserts; crash in between; answers out of order; windows cut back to a space | no duplicates, documents whole, each row its own embedding, words kept |
| Router, scorer `routing/` | catalog; reads breakers | `select` | breakers | breaker read, then used later; OPEN that nobody flips; ties and saturated scores | picks only usable models, never a dominated one; traffic returns |
| Conversation and summary memory `memory/conversation.py`, `summary.py` | table of messages; dictionary of summaries | `add_message`, `get_recent`, `clear` | PostgreSQL, model | three reads with a model call between them; retried inserts; summaries read and written across awaits; restart loses them | retried messages keep their place; what is told twice or left untold is paid for by newer messages |
| Semantic memory `memory/semantic.py` | facts table | `store`, `search`, `delete` | PostgreSQL, context engine | corrections while searches run; ids shared by sessions | a search tells the current facts, once |
| Context engine, packing, budget `context/` | none (limits) | `build`, `pack` | semantic memory, vector store | two retrievals in flight while the tables change; greedy packing at the ceiling | ceiling kept, priority kept, system prompt kept |
| Tools `tools/` | registry | `execute`, `validate` | agent executor | arguments written by a model; values JSON cannot encode | accepted calls do not fail on their arguments |
| Model adapters, registry `models/` | none; role table | `generate`, `stream`, `health_check` | runtime, agent, retries | which failure becomes which exception | retried only if listed |
| Relevance ranker, working memory, core lifecycle, configuration, types, logging | little or none | - | - | - | - |

The last row is not modelled; section 6 says why.

## 2. Modules

| Module | Models | State and actions |
|---|---|---|
| `BreakerOps` | the breaker's methods as operators on a record | `record_failure`, `record_success`, `maybe_transition_to_half_open`, `is_open`; the time since the trip is `since_open`, saturated at `Cooldown` |
| `CircuitBreaker` | coroutines sharing one breaker | `Admit`, `Reject`, `Succeed`, `Fail`: `call()` before and after its await; `Cancel`: an outer `with_timeout` or a cancelled task, which reports nothing; `obs` is a history of the reports seen from outside |
| `TokenBucket` | specification: a bucket that is topped up at every tick | `Tick`, `Grant`, `Deny` |
| `RateLimiter` | the lazily refilled bucket | `acquire` is one step (the body never awaits under its lock); `window` is a window of time that starts at any moment |
| `AgentState`, `AgentLifecycle` | the status table; specification: what an agent run looks like to its caller | one lifecycle per run |
| `Tools` | the calculator, HTTP and SQL tools, their registry and the validator | operators from arguments to the outcomes a call may have |
| `AgentExecutor` | one `run()` with replies, directives and concurrent tools | `Ask`, `FinalAnswer`, `CallTools`, `ToolEnds` (any order), `Collect`, `CollectRaises`, `ModelRaises`, `GiveUp`; implements `AgentLifecycle` |
| `Adapters` | what `generate()`, `stream()` and `health_check()` of each adapter come to for every reply of its backend; `ModelRegistry` | operators |
| `Application` | what `lifespan()` builds from the environment, and the two routes that depend on nothing else | operators |
| `Gateway` | the request paths of one process; composes `Application`, the semaphore, the counters and `AgentLifecycle` | arrivals, model answers, stream tokens, errors, hang-ups, generator finalisation |
| `Chunker` | `parse()` and `chunk()` on texts reduced to their length and the places of their spaces | operators; `WindowEnd` is where a window is cut |
| `Ingest` | `ingest()` and `reingest()` statement by statement, extending `Chunker` | `Delete`, `Skip`, `Proceed`, `Embed` (one request to the API), `Store` (the length check), `Insert`, `Fail` at any await (the statement committed or not), `Restart` |
| `ContextEngine` | `build()` over the chunks table of `Ingest` and the facts of semantic memory | `StoreFact`, `DeleteFact`, `BeginBuild`, `FetchMemory`, `FetchRag` (in either order, each at its own moment), `FetchRaises`; `pack` goes through the items in priority order |
| `Routing` | requests routed, called and retried over one `BreakerOps` breaker and one adapter per role | `Select`, `Begin`, `Refused`, `Answer`, `Fail`, `Wake` |
| `SummaryMemory` | one session's messages and its summary | `Send`/`Added`/`AddRaises`, `Clear`; `Begin`/`Count`/`Window`/`Summarise`/`Fetch`/`Return`/`Raises`: `get_recent()` between its awaits, `Fetch` the last SELECT and `Return` the later look into the dictionary; `Restart` |
| `Ordering` | what `sorted()`, a comprehension with an `if` and `sum()` do, in a form proofs can use | operators: `Nth`, `Ascending`, `Picked`, `Summed` |

`MC*` modules hold what TLC needs besides: symmetry sets and catalogs. `*Proofs`
modules hold the theorems about the module they are named after (`ContextEngineProofs`
those about `Ingest` and `Chunker` too), `OrderLemmas` what several of them need:
least elements, induction along a sequence, ranks, sums.
`Routing` composes `select()`, `with_retry()`, `with_timeout()`, the breakers and the
adapters as the headers of `router.py` and `circuit_breaker.py` describe, and
`ContextEngine` gives `build()` the searches of `SemanticMemory` and
`PgVectorRetriever` as `memory_fn` and `rag_fn`, as the header of `engine.py`
describes; nothing in the repository wires either of them together yet.

What the data is reduced to: a reply of the model is a sequence of lines, each
text or a tool directive with arguments; a tool outcome is a value, a value
`json.dumps` refuses, or one of three kinds of error; an expression is its postfix
form with the signs of its numbers, a host its labels; a backend's reply is a status
and whether its body is as expected, no JSON, or JSON of another shape; a document's text is its length and the places of
its spaces, in the form `parse()` returns; an embedding is the index of the chunk it
was computed from, and similarity is any order of the rows; a fact is its id,
session and the number of the call that wrote it; a prompt item is its token count;
a summary is the set of messages it was made from, and the empty set where the model
answered with nothing, which the code tells no more than no summary; readings of the
clock differ, so no two messages share a `created_at` (ties, which the code leaves to
the database's order, are not modelled); scores are integers in
thousandths. Time is a counter of ticks; the breaker and the retry loop compare
differences only.

## 3. Runs

| Run | Instance | Shows |
|---|---|---|
| `breaker` | 3 callers, threshold 2, cooldown 2, 2 probes, 3 trips | see the properties in `CircuitBreaker` |
| `breaker_probe` | 2 callers | **violation** `SingleProbe` |
| `limiter` | capacity 5, rate 2, requests 0, 1, 3, 6, 6 ticks | window bound; implements `TokenBucket` |
| `agent` | replies of 2 lines, 2 iterations, 6 directives over 3 tools and an unknown one | transcript, outcomes, validated calls, result, termination; implements `AgentLifecycle` |
| `agent_isolation` | 2 lines, 2 iterations | **violation** `ToolFailuresStayLocal` |
| `gateway` | 3 requests of 5 routes, mock and cloud model, 1 permit, 2 iterations, 1 token | permits, queue, streams, counters, no starvation |
| `gateway_cap` | 2 requests, 1 permit | **violation** `ProcessWideCap` |
| `ingest` | module `MCContextEngine`: 2 workers, 1 document, texts of 0, 2 and 3 chunks, batches of 2, 2 facts, 2 sessions, 3 calls of any kind | no duplicates, whole documents, matching embeddings, whole words, true return values; packing by priority, current facts |
| `context_system` | 1 worker, 1 call | **violation** `SystemPromptKept` |
| `ingest_retry` | 1 worker, 2 calls | **violation** `RetryCompletes` |
| `routing` | 2 requests, 3 roles, 2 catalogs, 3 policies, sizes on both sides of the thresholds, 0 or 2 attempts | sound selections, retry budget, completion, return of traffic |
| `memory` | 2 readers, 2 writers, window of 2, 1 kept, 4 messages, 4 clock readings | retried inserts; what a read tells twice or leaves untold is bounded by the newer messages it has missed or returns |

Why the bounds are enough. Two or three coroutines make every kind of overlap
these components have, since each shared object reacts to one coroutine at a time;
a third is needed in `breaker` (a straggler from before the trip, a probe, and a
late arrival) and in `gateway` (a holder, and two in the queue). Thresholds of 2
separate "first", "last but one" and "last". Three trips let counts left over from
an earlier trip show. The rate limiter's requests lie below, at and above what is
refilled, and above capacity. One document suffices in `ingest`, because no
statement touches two; its texts are the shortest that cut a window back, that cut
a long word, and that need a second request to the embedding API, and its budget of
5 tokens is exceeded only by later items or by a system prompt alone, the case of
`context_system`, which `PacksByPriority` excludes. `MaxCalls`
counts ingests, stores, deletes and builds together: 3 are what it takes to write
twice and read while doing so, or to crash, retry and look. In `agent`, two
iterations give a transcript with answers before the last reply; the six directives
reach every error and both kinds of value. In `gateway`, one token separates "before"
from "after the first token", which is all `stream()` distinguishes. In `memory` the window holds 2 of 4 messages, so messages
fall out of it; sessions do not interact. In `routing` an attempt count of 2 has
one retry, and 0 is the empty loop; `FailureThreshold` 1 lets one failure of one
request open the circuit another has been routed to. `MaxTransitions`, `MaxTime`,
`MaxCalls`, `MaxTokens`, `MaxMessages` and `MaxClock` are bounds of the models
only, in guards.

`CHECK_DEADLOCK` is left on everywhere: where a model may stop because everything
is done, a named stuttering action (`Over`, `Quiet`) says so and nothing else does.

### Fairness

* `CircuitBreaker`: time passes, and a call in flight ends (answers, fails or is
  cancelled; adapters and `with_timeout` bound it). `Recovers` further assumes that
  failures and cancellations stop and that somebody goes on calling; a breaker
  nobody calls stays `OPEN`.
* `AgentExecutor`: the event loop resumes the run, and the model and every tool end
  or raise. `run()` sets no deadline of its own: the HTTP tool and the model
  adapters have client timeouts, the calculator computes, and for the SQL tool it
  is an assumption about the database. A model that asks for tools for ever is
  allowed.
* `Gateway`: handlers are resumed, model calls end, a client takes what it is sent
  or leaves, and abandoned generators are finalised by the event loop. Nothing
  obliges requests to come or clients to leave.
* `Routing`: time passes and each request goes on; requests need not come.
* `RateLimiter`, `Ingest`, `ContextEngine` and `SummaryMemory` state safety only.

## 4. What the checks found

1. **Half-open lets everybody through** (`breaker_probe`). The header of
   `circuit_breaker.py` says "one probe call is allowed through" (line 16);
   `call()` rejects only while `OPEN`, so all callers pass until the first report.
2. **One tool result can abort the run** (`agent_isolation`). "individual failures
   are caught and surfaced per-call" (`executor.py:24-25`), but `json.dumps` of a
   result is outside any `try`.
3. **The cap is not process-wide** (`gateway_cap`). `pipeline.py:20` says it is;
   agent runs call the model without the semaphore.
4. **A retried ingest may leave a document truncated** (`ingest_retry`). Rows are
   committed one by one and any row counts as "already ingested".
5. **A long system prompt is dropped** (`context_system`). `packing.py:15` says "never
   drop it" and `docs/generate_notes.py:519` "System prompt is never truncated";
   `pack()` drops it when it is longer than the whole budget and builds the prompt
   from the rest. `PacksByPriority` holds for system prompts that fit.

The models also show four disagreements between the code and its own words that have no
run of their own, the first two because they take one request and no interleaving, the
others because a passing property says how far they go:

* Ingestion can never be configured. `app.py:111` builds `CloudEmbedder` without its
  required `api_key`; the `TypeError` is taken for an unreachable database, and every
  ingest is answered 503 (`Application!document_loader`), which `routes.py:194-198`
  reserves for variables that are "unset or unreachable". The pool opened a line before
  stays open. `Ingest` and `ContextEngine` model the loader and its store as they behave
  when a program builds them itself.
* A typo in a role is a 500 (`Gateway!EnterBadRole`). `schemas.py:22-24` leaves `role` a
  plain `str` "so FastAPI can return a normal 422 validation error for typos"; the
  handlers convert it outside any `try`, and the `ValueError` ends in the server's own
  500, which no counter sees. `StreamsEndWithDone` and `CountersMatchAnswers` speak of
  streams that were opened, and approve of neither answer.
* A message may be told twice. `get_recent()` fetches the recent messages, awaits their
  arrival, and only then looks up the summary (`Fetch`, `Return`), which another call may
  have made meanwhile of a later window: it covers messages that are returned raw too,
  although `summary.py:94-96` speaks of "everything except the last keep_recent
  messages". `TellsTwiceForMissed` says how many at most.
* An old summary may replace a newer one. `_compress()` stores what the model answers
  whenever it answers; `summary.py:94-96` calls that summary fresh. `LosesForNewer` holds
  reads to their window only where they find their own summary in place.

Noted besides, without a run of their own: `clear()` leaves the
summary behind; an empty answer of the model replaces a summary, and nothing is told
of the older messages; a call admitted before a trip may report to the half-open
circuit, where its success counts as a probe (the properties of `CircuitBreaker` count
it as the code does); sessions between `keep_recent` and `max_raw_messages` are told only
their last `keep_recent` messages; a free model is scored as one of $1; `ingest()`
calls that overlap on a document store it twice (`NoDuplicatesUnlessOverlap` says
exactly how far the promise goes); a fact stored again by another session stays with
the old one; chat requests ask the cloud API for a model called "default", whatever
`ANTHROPIC_MODEL` says; a word longer than the overlap may lose characters between
two chunks (`ShortWordsKept` states the words that do not). Outside the models:
`migrations/` creates the tables with `TIMESTAMPTZ` columns, `retriever.py` and
`semantic.py` insert Unix times; the models take the tables the code itself declares.

## 5. What is proved

Every invariant and action property of the passing runs, and both refinements, for
every number of coroutines, every size of the data and every setting the named
assumptions allow. Left to TLC are five liveness properties (end of this section).

The assumptions say what the constants are and nothing about what the program does
with them: thresholds, caps, delays and bounds are natural numbers (`BreakerAssumption`,
`MaxTransitionsAssumption`, `LimiterAssumption`, `MemoryAssumption`), so is the number of
permits, 0 included, and the requests are finitely many (`GatewayAssumption`; only
`WaitersAreServed`, which TLC checks for one permit, needs a permit at all), a chunk is longer than
the overlap as `__init__` demands (`ChunkerAssumption`), texts are in the form `parse()`
returns and a batch is at least one text (`IngestAssumption`), an argument's content is
a sequence (`ExecutorAssumption`), catalogs are sequences of `ModelMetadata` and every
role's model can be built (`RoutingAssumption`), token counts are natural numbers and a
dictionary has a key once (`ContextAssumption`). TLC evaluates all of them on the runs.

Few properties are inductive; below is what each proof adds. Each of these invariants
was first checked by TLC on the instance of the corresponding run.

* `CircuitBreakerProofs` - `TypeCorrect`, `ClosedBelow`, `OpenForCooldown`,
  `TripsAfterFullRun`, `CooldownIsQuiet`, `ClosingNeedsProbes`. The properties compare
  the breaker with what was seen from outside. `CircuitInv` adds, per state, which
  counter equals which observation: closed - the failure count is the current run of
  failures; open - the time since the trip is the quiet time; half-open - the probe
  count is the current run of successes and the cooldown is over. Lemmas state the
  effect of each `BreakerOps` operator once.
* `RateLimiterProofs` - `TypeCorrect`, `WindowIsBounded`, `LazyIsEager`. The bound
  on grants forgets the tokens left; the inductive `Conservation` says that grants
  in the window plus tokens left are at most a full bucket plus the refill credited
  since the window began. `LazyIsEager` is the refinement: `acquire` maps to a grant
  or a refusal of the eager bucket and `Tick` to its refill, through lemmas on how the
  refill of two stretches of time adds up under the cap.
* `AgentExecutorProofs` - `RunImplementsLifecycle` (the refinement of `AgentLifecycle`,
  for replies of any length and any cap, 0 included) rests on `ControlInv`, which ties
  program counter, status and loop variable together. `TypeCorrect`, `PromptsAreFull`,
  `OutcomesAreKept` and `ResultsAreTrue` rest on `TraceInv`: while tools run, every
  finished one belongs to one position of the current reply (`ToolsInv`); every step
  holds one result per call, each addressed to its call (`StepsInv`); the transcript is
  the request followed by the turns of the steps so far (`TranscriptInv`); and the result
  agrees with them (`ResultInv`). A pigeonhole lemma (`Gathered`) shows that the results
  in order of completion, put back by their calls, are all there and in call order.
  `ValidationSuffices` is about one state: no evaluation of an expression, however
  long, ends in an argument error, by induction along it (`EvaluatesToValues`).
* `GatewayProofs` - `PermitsAreConserved` and `NobodyWaitsBesideAPermit` from
  `SemaphoreInv`: with the types of the phases, the permits and the queue, the two are
  inductive together (permits and holders add up; the queue holds each waiting request
  once, and is empty while a permit is free). The lemmas count holders when one enters,
  leaves, or hands its permit over. `TypeCorrect` needs the agents' own lifecycle
  (`GatewayInv`). `StreamsAreClosed` (of
  streams that were opened) needs, per phase of a request, what can have been
  sent so far (`StageInv`); `CountersTellTheTruth` needs on top of it `CountInv`, which
  compares each counter with the requests that are at a place where it has counted them:
  failing, closing and finished streams, also those whose client has gone.
* `SummaryMemoryProofs` - `TypeCorrect`, `RetriesKeepPlace`, `TwiceOnlyForMissed`,
  `LossesAreReplaced`. `MemoryInv` says that no two messages share an id or a time,
  inserts under way included (`RowsOK`, `AddingOK`); that a row an id was ever seen with,
  in a summary or by a reader, is the row it has now unless the message was cleared
  (`SeenOK`); that a message in a summary, or about to be, has `keep_recent` newer ones for
  as long as it is in the table (`ToldOK`); and what each reader has read is what the
  table held then (`ReadersOK`). So a message that is told raw and summarised has been
  pushed out of the latest `keep_recent` since, by as many newer ones as there are such
  messages (`TwiceForMissed`); and a message of the window that is in neither part was
  pushed out of the recent part by one the reader returns (`LossesAreReplaced`).
  Neither bound needs a reader to be undisturbed; the second is about reads that tell
  their own summary. A read that finds another call's summary, or an empty one, is held to
  the first bound only.
* `ContextEngineProofs` - about `Chunker`: `WordsAreKept`, by finding the window that
  holds the word (`BetweenMultiples`) and showing that cutting it back to a space spares
  the word. About `Ingest`: `NothingStoredTwice`, `EmbeddingsArePaired`,
  `DocumentsAreWhole`, `CountsAreTrue` from `IngestInv`: every row is a chunk of its text
  with its own embedding (`RowsOK`); a call's embeddings are those of the chunks it has
  sent, in order (`JobsOK`); and a document on which calls have not overlapped has at
  most one active call and rows of one call only - while that one inserts, exactly those
  it has inserted so far; if no call was broken off either, what no call is storing is
  whole or absent (`DocOK`). About `build()`: `MemoriesAreNew` from
  `BuildInv` (the row of a fact is the last one written under its id; what a build was
  told was current at the fetch), `TypeCorrect` and `PromptsKeepPriority` from `PackInv`
  (a finished build has packed what `pack()` makes of what was found). That the greedy
  choice is the first in priority order is `PackIsFirst`: below the first item on which
  another selection differs both have used the same tokens, so if that item were only in
  the other one it would have fitted. Its induction goes along the items (`Climb`).
* `RoutingProofs` - `RetriesFollowPolicy` and `TypeCorrect` from `RoutingInv`: where a
  request stands says how many attempts it has made (`RetryInv`), and no breaker counts
  past its threshold (`BreakerInv`), whatever other requests report to it.
  `SelectionIsSound` is about any one state: a model that dominates another scores
  strictly higher under each of the three policies, saturated scores included
  (`DominatesScores`), so the first of the best is not dominated.

Only model-checked: `Recovers`, `Terminates`, `WaitersAreServed`, `Completes` and
`PreferredComesBack`. They rest on fairness, and fairness on `ENABLED`, which the prover
does not handle.

What made the models provable without changing what they say: places of a sequence are
picked with cardinalities (`Ordering`) instead of `SelectSeq` and `SortSeq`, sums and the
loops of `pack()` and of the calculator are local recursive functions instead of folds,
and the cases of `Tools` and `Adapters` exclude each other, as the order of the code's
tests makes them.

## 6. Not modelled

* `context/ranking.py`: floating-point cosine similarity and a library sort, without
  state and without a caller. Similarity is any order wherever it matters.
* `TokenBudgetManager.allocate()`, `remaining()`, `reset()`: the header of `budget.py`
  says the engine calls `allocate()`; it reads `total_budget` only, and nothing else
  calls them.
* `memory/working.py`: a scratchpad nothing writes to.
* `core/lifecycle.py`: nothing calls it, and it registers nothing it would close.
* `core/config.py`, `types.py`, `protocols.py`, `exceptions.py`, `observability/logger.py`:
  declarations and formatting.
* Request validation by pydantic, CORS, the text of prompts and messages, the
  structured `metadata["tool_calls"]` path that no adapter fills, token accounting of
  responses.
* An approximate vector index (`migrations/` declares one): any rows in any order are
  allowed, so its misses are covered; what a search ought to have found is not stated.

## 7. Plan

Written in this order: breaker, limiter, executor, gateway, ingest, routing, memory,
then chunker, context engine, tools, adapters and wiring - most shared state and most
promises first; then the proofs, from the breaker and the limiter to the invariants
of every other component.

Left: proofs of the bounded parts of the liveness arguments (a run of the executor and
a routed request lower a measure at every step they take, so that only fairness is
missing); an abstract specification of the semaphore and of the retry loop that
`Gateway` and `Routing` are shown to implement, as `AgentLifecycle` and `TokenBucket`
are now; and shorter proofs for `ContextEngineProofs`, whose steps about records repeat
each other.
