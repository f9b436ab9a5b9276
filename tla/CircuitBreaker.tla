--------------------------- MODULE CircuitBreaker ---------------------------
(***************************************************************************)
(* One CircuitBreaker shared by concurrent coroutines.  A coroutine in     *)
(* call() suspends only at `await fn()`: everything before it (the flip to *)
(* HALF_OPEN and the OPEN check) is one step, and everything after it (the *)
(* report) is another.  Between the two, other coroutines and the clock    *)
(* move, so a report may reach the breaker in a state other than the one   *)
(* its call was admitted in.                                               *)
(***************************************************************************)
EXTENDS BreakerOps, FiniteSets

CONSTANTS
  Callers,          \* coroutines that share the breaker
  MaxTransitions    \* bound on _transition_count, which the code never resets

ASSUME MaxTransitionsAssumption == MaxTransitions \in Nat

VARIABLES
  cb,      \* the breaker's fields
  calls,   \* per coroutine: free, refused, or the circuit state that admitted it
  obs      \* history seen from outside: runs of reports, time since the last trip

vars == <<cb, calls, obs>>

Idle == "idle"
Rejected == "rejected"
Free == {Idle, Rejected}
InFlight(c) == calls[c] \in {CLOSED, HALF_OPEN}

Lesser(a, b) == IF a < b THEN a ELSE b

\* fail_run: failed reports since the last successful one; ok_run: successful
\* reports since the last failed one or since the first call let through after a
\* trip; quiet: time since the last trip.  Each saturates where it stops mattering.
Observations == [fail_run : 0 .. TripCount, ok_run : 0 .. CloseCount, quiet : 0 .. Cooldown]

TypeOK ==
  /\ cb \in Breaker
  /\ cb.transition_count <= MaxTransitions
  /\ calls \in [Callers -> {Idle, Rejected, CLOSED, HALF_OPEN}]
  /\ obs \in Observations

Init ==
  /\ cb = InitBreaker
  /\ calls = [c \in Callers |-> Idle]
  /\ obs = [fail_run |-> 0, ok_run |-> 0, quiet |-> Cooldown]

-----------------------------------------------------------------------------
(* call(): the step up to `await fn()`.                                    *)

Admit(c) ==
  LET b == maybe_transition_to_half_open(cb)
  IN  /\ calls[c] \in Free
      /\ b.state # OPEN
      /\ cb' = b
      /\ calls' = [calls EXCEPT ![c] = b.state]
      /\ obs' = IF cb.state = OPEN THEN [obs EXCEPT !.ok_run = 0] ELSE obs

\* CircuitOpenError, without touching the dependency.
Reject(c) ==
  LET b == maybe_transition_to_half_open(cb)
  IN  /\ calls[c] \in Free
      /\ b.state = OPEN
      /\ cb' = b
      /\ calls' = [calls EXCEPT ![c] = Rejected]
      /\ UNCHANGED obs

-----------------------------------------------------------------------------
(* call(): the step after `await fn()`.                                    *)

Succeed(c) ==
  /\ InFlight(c)
  /\ cb' = record_success(cb)
  /\ calls' = [calls EXCEPT ![c] = Idle]
  /\ obs' = [fail_run |-> 0, ok_run |-> Lesser(obs.ok_run + 1, CloseCount),
             quiet |-> obs.quiet]

Fail(c) ==
  /\ InFlight(c)
  /\ record_failure(cb).transition_count <= MaxTransitions
  /\ cb' = record_failure(cb)
  /\ calls' = [calls EXCEPT ![c] = Idle]
  /\ obs' = [fail_run |-> Lesser(obs.fail_run + 1, TripCount),
             ok_run |-> 0,
             quiet |-> IF cb.state # OPEN /\ record_failure(cb).state = OPEN
                         THEN 0 ELSE obs.quiet]

\* CancelledError (a with_timeout deadline, a dropped task) is not an Exception:
\* the except clause does not see it and nothing is reported.
Cancel(c) ==
  /\ InFlight(c)
  /\ calls' = [calls EXCEPT ![c] = Idle]
  /\ UNCHANGED <<cb, obs>>

Tick ==
  /\ cb' = age(cb)
  /\ obs' = [obs EXCEPT !.quiet = Lesser(@ + 1, Cooldown)]
  /\ UNCHANGED calls

Next ==
  \/ \E c \in Callers :
       Admit(c) \/ Reject(c) \/ Succeed(c) \/ Fail(c) \/ Cancel(c)
  \/ Tick

Spec == Init /\ [][Next]_vars

\* The clock runs, and no dependency call is awaited for ever.
FairSpec ==
  /\ Spec
  /\ WF_vars(Tick)
  /\ \A c \in Callers : WF_vars(Succeed(c) \/ Fail(c) \/ Cancel(c))

-----------------------------------------------------------------------------
(* Safety.                                                                 *)

\* A closed circuit has seen fewer than failure_threshold failures in a row, in
\* the order the reports arrived, whichever calls they belong to and however many
\* trips and recoveries came before (record_failure, record_success).
ClosedBelowThreshold == cb.state = CLOSED => obs.fail_run < TripCount

\* A closed circuit trips only at the end of a full run of failures: no count left
\* over from before the last recovery shortens the run (record_success resets it).
TripNeedsFullRun ==
  [][cb.state = CLOSED /\ cb'.state = OPEN => obs'.fail_run = TripCount]_vars

\* No call reaches the dependency within cooldown_s of a trip, although reports of
\* calls begun before the trip keep arriving meanwhile ("calls are rejected
\* immediately ... for cooldown_s seconds", circuit_breaker.py:14-15).
NoTrafficInCooldown ==
  [][\A c \in Callers : ~InFlight(c) /\ InFlight(c)' => obs.quiet = Cooldown]_vars

\* While the circuit is OPEN, is_open() answers exactly "less than cooldown_s since
\* the trip": late failures do not prolong the cooldown (circuit_breaker.py:113-114).
OpenExactlyForCooldown == cb.state = OPEN => (is_open(cb) <=> obs.quiet < Cooldown)

\* The circuit closes only after half_open_probe_count successes in a row since
\* the cooldown ended (record_success's "consecutive successes while HALF_OPEN"),
\* even when several half-open periods and late reports interleave.
ClosesOnlyAfterProbes ==
  [][cb.state # CLOSED /\ cb'.state = CLOSED =>
       cb.state = HALF_OPEN /\ obs'.ok_run = CloseCount /\ obs.quiet = Cooldown]_vars

-----------------------------------------------------------------------------
(* Liveness.                                                               *)

\* Once failures and cancellations stop, and as long as some coroutine keeps
\* calling, the circuit closes for good: neither a lost probe nor an expired
\* cooldown leaves it stuck in OPEN or HALF_OPEN.
Recovers ==
  /\ <>[][\A c \in Callers : ~Fail(c) /\ ~Cancel(c)]_vars
  /\ \E c \in Callers : WF_vars(Admit(c) \/ Reject(c))
  => <>[](cb.state = CLOSED)

-----------------------------------------------------------------------------
(* What the module's header says of HALF_OPEN.                             *)

Probes == {c \in Callers : calls[c] = HALF_OPEN}

\* "HALF_OPEN: one probe call is allowed through" (circuit_breaker.py:16): while
\* HALF_OPEN, at most one call admitted by a half-open circuit is in flight.
SingleProbe == cb.state = HALF_OPEN => Cardinality(Probes) <= 1
=============================================================================
