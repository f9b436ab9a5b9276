------------------------------ MODULE Routing ------------------------------
(***************************************************************************)
(* Requests that are routed by athenai.routing.router.ModelRouter and then *)
(* made as the headers of router.py, circuit_breaker.py and retry.py       *)
(* describe it:                                                            *)
(*     role = router.select(context, policy).selected_role                 *)
(*     with_retry(lambda: breakers[role].call(                             *)
(*                  lambda: with_timeout(model.generate, seconds)), ...)   *)
(* with one breaker per role (circuit_breaker.py:6) and the role's model   *)
(* taken from a ModelRegistry.                                             *)
(* The router reads the breakers when it selects; the call, its retries    *)
(* and its backoff come later, while other requests move the breakers.     *)
(*                                                                         *)
(* Scores are in thousandths, weights in tenths, costs in $0.001 per 1k    *)
(* tokens, latencies in milliseconds.  _transition_count is not read here  *)
(* and held at 0.                                                          *)
(***************************************************************************)
EXTENDS BreakerOps, Adapters, Ordering

CONSTANTS
  Requests,      \* coroutines that make one request after another
  Catalogs,      \* model catalogs the router may be built with
  RegistryConfig,  \* per role: the type of model AthenaConfig.model_registry gives it
  Sizes,         \* estimated_input_tokens of the requests
  Attempts,      \* RetryPolicy.max_attempts of the callers
  BaseDelay,     \* RetryPolicy.base_delay_s, in ticks
  MaxDelay,      \* RetryPolicy.max_delay_s, in ticks
  Retryable      \* which outcomes the caller lists as retryable

Roles == {"fast", "default", "reasoning"}

ModelMetadata == [role : Roles, quality : Nat, cost : Nat, latency : Nat, is_available : BOOLEAN]

Failures == {"ModelUnavailableError", "RateLimitError", "ValueError", "KeyError",
             "ToolTimeoutError", "CircuitOpenError"}

ASSUME RoutingAssumption ==
  /\ Catalogs \subseteq Seq(ModelMetadata)
  /\ Sizes \subseteq Nat
  /\ Attempts \subseteq Nat
  /\ BaseDelay \in Nat
  /\ MaxDelay \in Nat
  /\ Retryable \subseteq Failures
  /\ DOMAIN RegistryConfig = Roles
  /\ CanBuild(RegistryConfig)

VARIABLES
  catalog,    \* the router's model_catalog
  breakers,   \* per role: its CircuitBreaker
  request     \* per coroutine: the request it is making

vars == <<catalog, breakers, request>>

Nowhere == "nowhere"
Lesser(a, b) == IF a < b THEN a ELSE b

\* attempt: loop variable of with_retry.  made: history, attempts really made.
Fresh == [pc |-> "idle", role |-> Nowhere, max_attempts |-> 0,
          attempt |-> 0, last_exc |-> "none", wait |-> 0, made |-> 0]

\* The request is over; what remains is the history of its attempts.
Over(job, pc, exc) ==
  [pc |-> pc, role |-> Nowhere, max_attempts |-> job.max_attempts,
   attempt |-> 0, last_exc |-> exc, wait |-> 0, made |-> job.made]

-----------------------------------------------------------------------------
(* Policies and scores.                                                    *)

Weights(q, c, l) == [quality |-> q, cost |-> c, latency |-> l]
RoutingPolicy == {Weights(4, 3, 3), Weights(2, 6, 2), Weights(7, 1, 2)}

\* min((1 / cost) / 100, 1): a model with no price counts as one of $1.
cost_norm(m) == IF m.cost > 0 THEN Lesser(10000 \div m.cost, 1000) ELSE 10

\* min((1 / latency) / 0.01, 1)
latency_norm(m) == IF m.latency > 0 THEN Lesser(100000 \div m.latency, 1000) ELSE 1000

score(m, policy) ==
  m.quality * policy.quality + cost_norm(m) * policy.cost + latency_norm(m) * policy.latency

\* rank()[0]: the sort is stable, so the first of the best in catalog order.
Best(models, policy) ==
  models[CHOOSE i \in DOMAIN models :
           \A j \in DOMAIN models :
             \/ score(models[j], policy) < score(models[i], policy)
             \/ score(models[j], policy) = score(models[i], policy) /\ i <= j]

-----------------------------------------------------------------------------
(* select()                                                                *)

classify_complexity(tokens) ==
  IF tokens < 500 THEN "LOW" ELSE IF tokens < 2000 THEN "MEDIUM" ELSE "HIGH"

RoleFor == [LOW |-> "fast", MEDIUM |-> "default", HIGH |-> "reasoning"]

\* Mutant: only the state is asked, and it stays OPEN until somebody calls.
is_circuit_open_by_state(role) == breakers[role].state = OPEN

is_circuit_open(role) == breakers[role].state = OPEN /\ is_open(breakers[role])

available ==
  Picked(catalog, {i \in DOMAIN catalog :
                     catalog[i].is_available /\ ~is_circuit_open(catalog[i].role)})

\* [m for m in available if m.role == role]
Serving(role) == Picked(available, {i \in DOMAIN available : available[i].role = role})

\* Mutant: the matched role is taken for MEDIUM requests too.
chosen_always_matched(tokens, policy) ==
  LET preferred == Serving(RoleFor[classify_complexity(tokens)])
  IN  IF preferred # <<>> THEN Head(preferred) ELSE Best(available, policy)

\* LOW and HIGH requests go to the matched role if it is available.
chosen(tokens, policy) ==
  LET complexity == classify_complexity(tokens)
      preferred == Serving(RoleFor[complexity])
  IN  IF preferred # <<>> /\ complexity # "MEDIUM"
        THEN Head(preferred)
        ELSE Best(available, policy)

Ended(r) == request[r].pc \in {"idle", "served", "raised"}

Select(r, tokens, policy, max_attempts) ==
  /\ Ended(r)
  /\ available # <<>>
  /\ request' = [request EXCEPT ![r] =
                   [Fresh EXCEPT !.pc = "attempt", !.role = chosen(tokens, policy).role,
                                 !.max_attempts = max_attempts]]
  /\ UNCHANGED <<catalog, breakers>>

\* ModelUnavailableError
SelectRaises(r) ==
  /\ Ended(r)
  /\ available = <<>>
  /\ request' = [request EXCEPT ![r] = Over(Fresh, "raised", "ModelUnavailableError")]
  /\ UNCHANGED <<catalog, breakers>>

-----------------------------------------------------------------------------
(* with_retry()                                                            *)

Tried(job) == [job EXCEPT !.made = Lesser(@ + 1, job.max_attempts + 1)]

\* Mutant: the delay is not capped.
backoff_uncapped(attempt) == 0 .. BaseDelay * 2 ^ attempt

\* The delays after a failed attempt: jittered, growing and capped.
backoff(attempt) == {d \in 0 .. MaxDelay : d <= BaseDelay * 2 ^ attempt}

\* Mutant: every failure is retried, whatever the caller listed.
after_failure_retries_all(job, exc) ==
  IF job.attempt = job.max_attempts - 1
    THEN {Over(job, "raised", exc)}
    ELSE {[job EXCEPT !.pc = "sleeping", !.last_exc = exc, !.wait = d] : d \in backoff(job.attempt)}

\* Mutant: a retryable failure is retried on the spot, without counting it.
after_failure_in_place(job, exc) ==
  IF exc \notin Retryable THEN {Over(job, "raised", exc)} ELSE {[job EXCEPT !.last_exc = exc]}

\* What an attempt that raised exc may lead to: raise, or sleep for a random time.
after_failure(job, exc) ==
  IF exc \notin Retryable \/ job.attempt = job.max_attempts - 1
    THEN {Over(job, "raised", exc)}
    ELSE {[job EXCEPT !.pc = "sleeping", !.last_exc = exc, !.wait = d] : d \in backoff(job.attempt)}

\* The loop is empty: RuntimeError.
NoAttempts(r) ==
  /\ request[r].pc = "attempt"
  /\ request[r].attempt = request[r].max_attempts
  /\ request' = [request EXCEPT ![r] = Over(@, "raised", "RuntimeError")]
  /\ UNCHANGED <<catalog, breakers>>

\* breaker.call() up to its await: the model is called ...
Begin(r) ==
  LET b == maybe_transition_to_half_open(breakers[request[r].role])
  IN  /\ request[r].pc = "attempt"
      /\ request[r].attempt < request[r].max_attempts
      /\ b.state # OPEN
      /\ breakers' = [breakers EXCEPT ![request[r].role] = b]
      /\ request' = [request EXCEPT ![r] = Tried([@ EXCEPT !.pc = "calling"])]
      /\ UNCHANGED catalog

\* ... or the circuit has opened since the request was routed.
Refused(r) ==
  LET b == maybe_transition_to_half_open(breakers[request[r].role])
  IN  /\ request[r].pc = "attempt"
      /\ request[r].attempt < request[r].max_attempts
      /\ b.state = OPEN
      /\ \E job \in after_failure(Tried(request[r]), "CircuitOpenError") :
           request' = [request EXCEPT ![r] = job]
      /\ UNCHANGED <<catalog, breakers>>

Answer(r) ==
  /\ request[r].pc = "calling"
  /\ breakers' = [breakers EXCEPT ![request[r].role] = record_success(@)]
  /\ request' = [request EXCEPT ![r] = Over(@, "served", @.last_exc)]
  /\ UNCHANGED catalog

\* What the awaited call of a role's model can raise: what its adapter makes of a
\* reply, or ToolTimeoutError when the deadline comes first.  A mock never waits.
Raised(role) ==
  LET type == registry(RegistryConfig)[role]
  IN  (Outcomes(generate, type) \ {Answered})
        \union (IF type = "mock" THEN {} ELSE {"ToolTimeoutError"})

\* All of them are an Exception, so the breaker hears of every one.
Fail(r, exc) ==
  /\ request[r].pc = "calling"
  /\ exc \in Raised(request[r].role)
  /\ breakers' = [breakers EXCEPT ![request[r].role] =
                    [record_failure(@) EXCEPT !.transition_count = 0]]
  /\ \E job \in after_failure(request[r], exc) : request' = [request EXCEPT ![r] = job]
  /\ UNCHANGED catalog

\* asyncio.sleep() is over: the next attempt.
Wake(r) ==
  /\ request[r].pc = "sleeping"
  /\ request[r].wait = 0
  /\ request' = [request EXCEPT ![r].pc = "attempt", ![r].attempt = @ + 1]
  /\ UNCHANGED <<catalog, breakers>>

Tick ==
  /\ breakers' = [role \in Roles |-> age(breakers[role])]
  /\ request' = [r \in Requests |-> [request[r] EXCEPT !.wait = IF @ > 0 THEN @ - 1 ELSE 0]]
  /\ UNCHANGED catalog

-----------------------------------------------------------------------------

Init ==
  /\ catalog \in Catalogs
  /\ breakers = [role \in Roles |-> InitBreaker]
  /\ request = [r \in Requests |-> Fresh]

Route(r) ==
  \/ SelectRaises(r)
  \/ \E tokens \in Sizes, policy \in RoutingPolicy, n \in Attempts :
       Select(r, tokens, policy, n)

Work(r) ==
  \/ NoAttempts(r) \/ Begin(r) \/ Refused(r) \/ Answer(r)
  \/ \E exc \in Failures : Fail(r, exc)
  \/ Wake(r)

Next == (\E r \in Requests : Route(r) \/ Work(r)) \/ Tick

Spec == Init /\ [][Next]_vars

\* The clock runs and the event loop resumes every coroutine; model calls end,
\* because with_timeout bounds them.  Nothing obliges requests to be made.
FairSpec == Spec /\ WF_vars(Tick) /\ \A r \in Requests : WF_vars(Work(r))

-----------------------------------------------------------------------------

TypeOK ==
  /\ catalog \in Catalogs
  /\ breakers \in [Roles -> Breaker]
  /\ request \in [Requests ->
        [pc : {"idle", "attempt", "calling", "sleeping", "served", "raised"},
         role : Roles \union {Nowhere},
         max_attempts : Attempts \union {0}, attempt : Nat,
         last_exc : Failures \union {"none", "RuntimeError"},
         wait : 0 .. MaxDelay, made : Nat]]

\* Available, and not within cooldown_s of its circuit's trip.
Usable(m) ==
  /\ m.is_available
  /\ breakers[m.role].state = OPEN => breakers[m.role].since_open >= Cooldown

\* Better in quality and no worse in price and speed.
Dominates(m, n) ==
  /\ m.quality > n.quality
  /\ 0 < m.cost /\ m.cost <= n.cost
  /\ m.latency <= n.latency

\* Whenever a request comes, select() refuses it only if no model is usable, and else
\* picks a usable one: the matched model for LOW and HIGH requests if that is usable, and
\* otherwise one that no usable model with a price dominates (router.py:60-63, 112-113).
SelectsWell ==
  LET usable == {m \in {catalog[i] : i \in DOMAIN catalog} : Usable(m)}
      Matched(m, tier) == tier # "MEDIUM" /\ m.role = RoleFor[tier]
  IN  IF available = <<>>
        THEN usable = {}
        ELSE \A tokens \in Sizes, policy \in RoutingPolicy :
               LET tier == classify_complexity(tokens)
                   pick == chosen(tokens, policy)
               IN  /\ pick \in usable
                   /\ \/ Matched(pick, tier)
                      \/ \A m \in usable : ~Matched(m, tier) /\ ~Dominates(m, pick)

\* with_retry makes at most max_attempts calls, goes on only after failures the caller
\* listed as retryable, and gives up on a retryable one only when the attempts are used
\* up, although circuits open and half-open between the attempts (retry.py:48-53).
RetriesAsTold ==
  \A r \in Requests :
    LET job == request[r]
    IN  /\ job.made <= job.max_attempts
        /\ job.pc \in {"attempt", "sleeping", "calling", "served"} =>
             job.last_exc \in Retryable \union {"none"}
        /\ job.pc = "raised" /\ job.last_exc \in Retryable => job.made = job.max_attempts
        /\ job.pc = "served" => job.made > 0

\* Every routed request is answered or raises: neither an open circuit nor the backoff
\* keeps it for ever.
Completes == \A r \in Requests : request[r].pc = "attempt" ~> Ended(r)

\* Once calls stop failing, LOW requests are sent to the fast model again, although
\* the router never flips an OPEN circuit itself (router.py:76-80).
PreferredComesBack ==
  /\ \E i \in DOMAIN catalog : catalog[i].role = "fast" /\ catalog[i].is_available
  /\ <>[][\A r \in Requests : \A exc \in Failures : ~Fail(r, exc)]_vars
  => <>[](/\ available # <<>>
          /\ \A tokens \in Sizes, policy \in RoutingPolicy :
               classify_complexity(tokens) = "LOW" => chosen(tokens, policy).role = "fast")
=============================================================================
