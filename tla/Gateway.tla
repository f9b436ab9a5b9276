------------------------------ MODULE Gateway ------------------------------
(***************************************************************************)
(* The request paths of athenai.gateway.routes through one process:        *)
(* /v1/chat and /v1/chat/stream go through AthenaRuntime, whose semaphore  *)
(* caps their model calls; /v1/agents/run goes to the shared Agent, which  *)
(* calls the same model directly.  Handlers are coroutines on one event    *)
(* loop: a step here is what a handler does between two suspensions.       *)
(*                                                                         *)
(* The model is the one Application builds from the environment.  An agent *)
(* run is the abstract one of AgentLifecycle, an ingestion (see Ingest) a  *)
(* single step.                                                            *)
(***************************************************************************)
EXTENDS Application, Sequences, FiniteSets, SequencesExt

CONSTANTS
  Environments,     \* environments the process may be started in
  Requests,         \* requests that may arrive, each at most once
  MaxConcurrent,    \* ATHENA_MAX_CONCURRENT
  MaxIterations,    \* ATHENA_MAX_AGENT_ITER
  MaxTokens         \* bound on the tokens of one stream

ASSUME GatewayAssumption ==
  /\ Environments \subseteq Environment
  /\ IsFiniteSet(Requests)
  /\ MaxConcurrent \in Nat
  /\ MaxIterations \in Nat
  /\ MaxTokens \in Nat

VARIABLES
  environment,    \* read at startup
  endpoint,       \* per request: the route it came in by
  phase,          \* per request: where its handler is
  tokens,         \* per request: tokens streamed so far
  wire,           \* per request: what its client has received
  gone,           \* stream requests whose client has hung up
  free,           \* semaphore: permits not held
  waiters,        \* semaphore: handlers waiting, first come first served
  requests_total, \* Prometheus counter, by endpoint and status
  agent_iterations_total,
  status, turns, ended   \* agent runs, see AgentLifecycle

requestVars == <<environment, endpoint, phase, tokens, wire, gone>>
semaphoreVars == <<free, waiters>>
counterVars == <<requests_total, agent_iterations_total>>
agentVars == <<status, turns, ended>>
vars == <<requestVars, semaphoreVars, counterVars, agentVars>>

Run == INSTANCE AgentLifecycle WITH Runs <- Requests

Endpoints == {"chat", "stream", "agent", "ingest", "ready"}
Counted == {"chat", "stream", "agent"}
Absent == "absent"

\* waiting: for a permit.  model: awaiting the model.  sending: a token is handed to
\* the client, the generator suspended at its yield.  abandoned: the client left while
\* sending.  error, closing: sending [ERROR], [DONE].  agent: inside Agent.run().
Phases == {Absent, "waiting", "model", "sending", "abandoned", "error", "closing",
           "agent", "over"}
\* 500 is the handler's HTTPException; a bare 500 is the server's own.
Wire == {"200", "500", "503", "bare 500", "token", "[ERROR]", "[DONE]", "ready", "not_ready"}

model == backend(environment)

\* Handlers inside `async with self._semaphore`.
Holders == {r \in Requests : phase[r] \in {"model", "sending", "abandoned"}}

\* Agent runs awaiting model.generate().
AgentModelCalls ==
  {r \in Requests : /\ phase[r] = "agent"
                    /\ ended[r] = "live"
                    /\ status[r] = "running"
                    /\ turns[r] < MaxIterations}

TypeOK ==
  /\ environment \in Environments
  /\ endpoint \in [Requests -> Endpoints \union {Absent}]
  /\ phase \in [Requests -> Phases]
  /\ tokens \in [Requests -> 0 .. MaxTokens]
  /\ wire \in [Requests -> SUBSET Wire]
  /\ gone \in SUBSET Requests
  /\ free \in 0 .. MaxConcurrent
  /\ waiters \in Seq(Requests)
  /\ requests_total \in [Counted -> [{"success", "error"} -> Nat]]
  /\ agent_iterations_total \in Nat

Init ==
  /\ environment \in Environments
  /\ endpoint = [r \in Requests |-> Absent]
  /\ phase = [r \in Requests |-> Absent]
  /\ tokens = [r \in Requests |-> 0]
  /\ wire = [r \in Requests |-> {}]
  /\ gone = {}
  /\ free = MaxConcurrent
  /\ waiters = <<>>
  /\ requests_total = [e \in Counted |-> [s \in {"success", "error"} |-> 0]]
  /\ agent_iterations_total = 0
  /\ Run!LifecycleInit

-----------------------------------------------------------------------------
(* The semaphore.  asyncio hands a released permit to the oldest waiter.   *)

Permitted == free > 0 /\ waiters = <<>>

\* r leaves `async with` for phase p, and its permit goes to the oldest waiter.
Release(r, p) ==
  IF waiters = <<>>
    THEN /\ free' = free + 1
         /\ phase' = [phase EXCEPT ![r] = p]
         /\ UNCHANGED waiters
    ELSE /\ waiters' = Tail(waiters)
         /\ phase' = [phase EXCEPT ![r] = p, ![Head(waiters)] = "model"]
         /\ UNCHANGED free

Receive(r, what) == wire' = [wire EXCEPT ![r] = @ \union {what}]

Count(e, s) == requests_total' = [requests_total EXCEPT ![e][s] = @ + 1]

-----------------------------------------------------------------------------
(* Arrival                                                                 *)

\* A chat or stream request: AIRequest is built, for a stream the status line and the
\* headers go out, then the semaphore is entered.
Enter(r, e) ==
  /\ phase[r] = Absent
  /\ endpoint' = [endpoint EXCEPT ![r] = e]
  /\ IF Permitted
       THEN /\ phase' = [phase EXCEPT ![r] = "model"]
            /\ free' = free - 1
            /\ UNCHANGED waiters
       ELSE /\ phase' = [phase EXCEPT ![r] = "waiting"]
            /\ waiters' = Append(waiters, r)
            /\ UNCHANGED free
  /\ IF e = "stream" THEN Receive(r, "200") ELSE UNCHANGED wire
  /\ UNCHANGED <<environment, gone, tokens, counterVars, agentVars>>

\* A role outside MessageRole raises ValueError before the try block: a bare 500, counted
\* nowhere, where schemas.py:22-24 speaks of "a normal 422 validation error for typos".
EnterBadRole(r, e) ==
  /\ phase[r] = Absent
  /\ endpoint' = [endpoint EXCEPT ![r] = e]
  /\ phase' = [phase EXCEPT ![r] = "over"]
  /\ Receive(r, "bare 500")
  /\ UNCHANGED <<environment, gone, tokens, semaphoreVars, counterVars, agentVars>>

\* /v1/agents/run: Agent.run() starts at once, without the semaphore.
EnterAgent(r) ==
  /\ phase[r] = Absent
  /\ endpoint' = [endpoint EXCEPT ![r] = "agent"]
  /\ phase' = [phase EXCEPT ![r] = "agent"]
  /\ Run!Begin(r)
  /\ UNCHANGED <<environment, gone, tokens, wire, semaphoreVars, counterVars>>

\* A request answered on the spot, without the semaphore.
AnswerAtOnce(r, e, answer) ==
  /\ phase[r] = Absent
  /\ endpoint' = [endpoint EXCEPT ![r] = e]
  /\ phase' = [phase EXCEPT ![r] = "over"]
  /\ Receive(r, answer)
  /\ UNCHANGED <<environment, gone, tokens, semaphoreVars, counterVars, agentVars>>

\* /v1/documents/ingest
EnterIngest(r) ==
  \E answer \in document_ingest(document_loader(environment)) : AnswerAtOnce(r, "ingest", answer)

\* /ready: the model's health_check(), whoever holds the permits.
EnterReady(r) == \E reply \in Replies : AnswerAtOnce(r, "ready", ready(model, reply))

-----------------------------------------------------------------------------
(* /v1/chat                                                                *)

ChatAnswers(r) ==
  /\ endpoint[r] = "chat" /\ phase[r] = "model"
  /\ Answered \in Outcomes(generate, model)
  /\ Release(r, "over")
  /\ Count("chat", "success")
  /\ Receive(r, "200")
  /\ UNCHANGED <<environment, gone, endpoint, tokens, agent_iterations_total, agentVars>>

\* Mutant: the error path returns the permit and `async with` returns it again.
ChatFailsReleasingTwice(r) ==
  /\ endpoint[r] = "chat" /\ phase[r] = "model"
  /\ Outcomes(generate, model) # {Answered}
  /\ free' = free + 2
  /\ phase' = [phase EXCEPT ![r] = "over"]
  /\ Count("chat", "error")
  /\ Receive(r, "500")
  /\ UNCHANGED <<environment, gone, endpoint, tokens, waiters, agent_iterations_total, agentVars>>

\* Mutant: acquire() and release() around the model call without a finally.
ChatFailsKeepingPermit(r) ==
  /\ endpoint[r] = "chat" /\ phase[r] = "model"
  /\ Outcomes(generate, model) # {Answered}
  /\ phase' = [phase EXCEPT ![r] = "over"]
  /\ Count("chat", "error")
  /\ Receive(r, "500")
  /\ UNCHANGED <<environment, gone, endpoint, tokens, semaphoreVars, agent_iterations_total, agentVars>>

ChatFails(r) ==
  /\ endpoint[r] = "chat" /\ phase[r] = "model"
  /\ Outcomes(generate, model) # {Answered}
  /\ Release(r, "over")
  /\ Count("chat", "error")
  /\ Receive(r, "500")
  /\ UNCHANGED <<environment, gone, endpoint, tokens, agent_iterations_total, agentVars>>

-----------------------------------------------------------------------------
(* /v1/chat/stream: event_stream() over runtime.stream()                   *)

\* The model yields a token: both generators are suspended at their yields, the
\* permit still held, until the client has taken it.
StreamToken(r) ==
  /\ endpoint[r] = "stream" /\ phase[r] = "model"
  /\ Answered \in Outcomes(stream, model)
  /\ tokens[r] < MaxTokens
  /\ tokens' = [tokens EXCEPT ![r] = @ + 1]
  /\ phase' = [phase EXCEPT ![r] = "sending"]
  /\ UNCHANGED <<environment, gone, endpoint, wire, semaphoreVars, counterVars, agentVars>>

StreamSent(r) ==
  /\ phase[r] = "sending"
  /\ Receive(r, "token")
  /\ phase' = [phase EXCEPT ![r] = "model"]
  /\ UNCHANGED <<environment, gone, endpoint, tokens, semaphoreVars, counterVars, agentVars>>

\* The model is done, after one token at least: the permit is returned, success
\* counted, [DONE] under way.
StreamEnds(r) ==
  /\ endpoint[r] = "stream" /\ phase[r] = "model"
  /\ tokens[r] > 0
  /\ Release(r, "closing")
  /\ Count("stream", "success")
  /\ UNCHANGED <<environment, gone, endpoint, tokens, wire, agent_iterations_total, agentVars>>

\* Mutant: a failed stream is not counted.
StreamFailsUncounted(r) ==
  /\ endpoint[r] = "stream" /\ phase[r] = "model"
  /\ Outcomes(stream, model) # {Answered}
  /\ Release(r, "error")
  /\ UNCHANGED <<environment, gone, endpoint, tokens, wire, counterVars, agentVars>>

\* The model raises (one without a stream() at once): [ERROR] under way.
StreamFails(r) ==
  /\ endpoint[r] = "stream" /\ phase[r] = "model"
  /\ Outcomes(stream, model) # {Answered}
  /\ Release(r, "error")
  /\ Count("stream", "error")
  /\ UNCHANGED <<environment, gone, endpoint, tokens, wire, agent_iterations_total, agentVars>>

\* Mutant: the error path returns without the final [DONE].
StreamErrorSentAndOver(r) ==
  /\ phase[r] = "error"
  /\ Receive(r, "[ERROR]")
  /\ phase' = [phase EXCEPT ![r] = "over"]
  /\ UNCHANGED <<environment, gone, endpoint, tokens, semaphoreVars, counterVars, agentVars>>

StreamErrorSent(r) ==
  /\ phase[r] = "error"
  /\ Receive(r, "[ERROR]")
  /\ phase' = [phase EXCEPT ![r] = "closing"]
  /\ UNCHANGED <<environment, gone, endpoint, tokens, semaphoreVars, counterVars, agentVars>>

StreamDoneSent(r) ==
  /\ phase[r] = "closing"
  /\ Receive(r, "[DONE]")
  /\ phase' = [phase EXCEPT ![r] = "over"]
  /\ UNCHANGED <<environment, gone, endpoint, tokens, semaphoreVars, counterVars, agentVars>>

\* Mutant: the semaphore is awaited behind asyncio.shield(), so the cancelled handler
\* stays in the queue.
HangUpStaysQueued(r) ==
  /\ endpoint[r] = "stream" /\ phase[r] = "waiting"
  /\ gone' = gone \union {r}
  /\ phase' = [phase EXCEPT ![r] = "over"]
  /\ UNCHANGED <<environment, endpoint, tokens, wire, semaphoreVars, counterVars, agentVars>>

\* The client of a stream goes away and the response task is cancelled.  A handler
\* cancelled inside an await unwinds through `async with`; one suspended at a yield
\* is left behind for the event loop's async-generator finalizer.  CancelledError is
\* not an Exception: no counter moves.
HangUp(r) ==
  /\ endpoint[r] = "stream"
  /\ gone' = gone \union {r}
  /\ \/ /\ phase[r] = "waiting"
        /\ \E i \in DOMAIN waiters : waiters[i] = r /\ waiters' = RemoveAt(waiters, i)
        /\ phase' = [phase EXCEPT ![r] = "over"]
        /\ UNCHANGED free
     \/ /\ phase[r] = "model"
        /\ Release(r, "over")
     \/ /\ phase[r] = "sending"
        /\ phase' = [phase EXCEPT ![r] = "abandoned"]
        /\ UNCHANGED semaphoreVars
     \/ /\ phase[r] \in {"error", "closing"}
        /\ phase' = [phase EXCEPT ![r] = "over"]
        /\ UNCHANGED semaphoreVars
  /\ UNCHANGED <<environment, endpoint, tokens, wire, counterVars, agentVars>>

\* The finalizer closes the inner generator, which leaves its `async with`.
Finalize(r) ==
  /\ phase[r] = "abandoned"
  /\ Release(r, "over")
  /\ UNCHANGED <<environment, gone, endpoint, tokens, wire, counterVars, agentVars>>

-----------------------------------------------------------------------------
(* /v1/agents/run                                                          *)

AgentWorks(r) ==
  /\ phase[r] = "agent"
  /\ Run!UseTools(r) \/ Run!ToolsDone(r)
  /\ UNCHANGED <<requestVars, semaphoreVars, counterVars>>

\* COMPLETED and FAILED (iteration cap) alike are a success to the route.
AgentReturns(r) ==
  /\ phase[r] = "agent"
  /\ Run!Answer(r) \/ Run!GiveUp(r)
  /\ Count("agent", "success")
  /\ agent_iterations_total' = agent_iterations_total + turns'[r]
  /\ phase' = [phase EXCEPT ![r] = "over"]
  /\ Receive(r, "200")
  /\ UNCHANGED <<environment, gone, endpoint, tokens, semaphoreVars>>

AgentRaises(r) ==
  /\ phase[r] = "agent"
  /\ Run!Abort(r)
  /\ Count("agent", "error")
  /\ phase' = [phase EXCEPT ![r] = "over"]
  /\ Receive(r, "500")
  /\ UNCHANGED <<environment, gone, endpoint, tokens, semaphoreVars, agent_iterations_total>>

-----------------------------------------------------------------------------

Handle(r) ==
  \/ ChatAnswers(r) \/ ChatFails(r)
  \/ StreamToken(r) \/ StreamSent(r) \/ StreamEnds(r) \/ StreamFails(r)
  \/ StreamErrorSent(r) \/ StreamDoneSent(r) \/ Finalize(r)
  \/ AgentWorks(r) \/ AgentReturns(r) \/ AgentRaises(r)

Arrive(r) ==
  \/ \E e \in {"chat", "stream"} : Enter(r, e) \/ EnterBadRole(r, e)
  \/ EnterAgent(r) \/ EnterIngest(r) \/ EnterReady(r)

\* Every request that came has been dealt with and no more come.
Quiet ==
  /\ \A r \in Requests : phase[r] = "over"
  /\ UNCHANGED vars

Next == (\E r \in Requests : Arrive(r) \/ Handle(r) \/ HangUp(r)) \/ Quiet

Spec == Init /\ [][Next]_vars

\* The event loop resumes every handler whose await is over; model calls end (the
\* adapters set client timeouts), a client takes what it is sent or hangs up, and
\* abandoned generators are finalized.  Nothing obliges requests to arrive.
FairSpec == Spec /\ \A r \in Requests : WF_vars(Handle(r))

-----------------------------------------------------------------------------

\* No permit is lost or invented, whichever way handlers leave the model call:
\* answer, exception, hang-up while waiting, while awaiting a token or while sending
\* one (AthenaRuntime.execute and stream).
PermitsConserved == free + Cardinality(Holders) = MaxConcurrent

\* No handler waits while a permit is free, and the queue holds exactly the handlers
\* that wait, once each.
NoIdlePermit ==
  /\ free > 0 => waiters = <<>>
  /\ {waiters[i] : i \in 1 .. Len(waiters)} = {r \in Requests : phase[r] = "waiting"}
  /\ \A i, j \in 1 .. Len(waiters) : waiters[i] = waiters[j] => i = j

\* A stream that was opened with status 200 and whose client stayed has been closed by
\* [DONE] when its handler is over, after an error too ("The stream always ends with [DONE]
\* (success or failure)", routes.py:120-122).
StreamsEndWithDone ==
  \A r \in Requests \ gone :
    phase[r] = "over" /\ endpoint[r] = "stream" /\ "200" \in wire[r] => "[DONE]" \in wire[r]

\* The counters tell the truth about what clients saw: every 200 and every 500 of a
\* handler is counted once under its route, every [ERROR] as an error, every clean
\* [DONE] as a success, and no stream is counted twice.
CountersMatchAnswers ==
  LET Saw(e, w) == Cardinality({r \in Requests : endpoint[r] = e /\ w \in wire[r]})
      Clean == {r \in Requests : "[DONE]" \in wire[r] /\ "[ERROR]" \notin wire[r]}
      Ended == {r \in Requests : endpoint[r] = "stream"
                                 /\ phase[r] \in {"error", "closing", "over"}
                                 /\ "200" \in wire[r]}
  IN  /\ \A e \in {"chat", "agent"} : requests_total[e]["success"] = Saw(e, "200")
      /\ \A e \in {"chat", "agent"} : requests_total[e]["error"] = Saw(e, "500")
      /\ requests_total["stream"]["error"] >= Saw("stream", "[ERROR]")
      /\ requests_total["stream"]["success"] >= Cardinality(Clean)
      /\ requests_total["stream"]["success"] + requests_total["stream"]["error"]
           <= Cardinality(Ended)

\* Every handler waiting for a permit gets it (or its client leaves): slow, failing
\* and abandoned streams return theirs.
WaitersAreServed ==
  \A r \in Requests : phase[r] = "waiting" ~> phase[r] # "waiting"

\* "max_concurrent is a process-wide cap" on in-flight model calls (pipeline.py:20).
ProcessWideCap == Cardinality(Holders \union AgentModelCalls) <= MaxConcurrent
=============================================================================
