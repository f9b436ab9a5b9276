----------------------------- MODULE BreakerOps -----------------------------
(***************************************************************************)
(* The methods of athenai.resilience.circuit_breaker.CircuitBreaker as     *)
(* operators on the breaker's fields.  Every method body that touches the  *)
(* fields runs under an asyncio.Lock and holds no await, so each one is a  *)
(* single atomic step of the event loop, and an operator here.             *)
(*                                                                         *)
(* time.monotonic() - _opened_at is only ever compared with cooldown_s, so *)
(* the pair is kept as since_open: the time since the circuit opened,      *)
(* saturated at Cooldown, and NotOpened for _opened_at = None.             *)
(***************************************************************************)
EXTENDS Integers

CONSTANTS
  FailureThreshold,    \* failure_threshold
  Cooldown,            \* cooldown_s, in clock ticks
  HalfOpenProbeCount   \* half_open_probe_count

\* The constructor accepts any non-negative setting, zero included.
ASSUME BreakerAssumption ==
  /\ FailureThreshold \in Nat
  /\ Cooldown \in Nat
  /\ HalfOpenProbeCount \in Nat

CLOSED == "CLOSED"
OPEN == "OPEN"
HALF_OPEN == "HALF_OPEN"
CircuitState == {CLOSED, OPEN, HALF_OPEN}

NotOpened == -1

\* The failure that trips a closed circuit, and the success that closes a half
\* open one: a setting of 0 acts as 1, because the counter is incremented first.
TripCount == IF FailureThreshold = 0 THEN 1 ELSE FailureThreshold
CloseCount == IF HalfOpenProbeCount = 0 THEN 1 ELSE HalfOpenProbeCount

Breaker == [state : CircuitState,
            failure_count : 0 .. TripCount,
            since_open : NotOpened .. Cooldown,
            probe_successes : 0 .. CloseCount,
            transition_count : Nat]

InitBreaker == [state |-> CLOSED, failure_count |-> 0, since_open |-> NotOpened,
                probe_successes |-> 0, transition_count |-> 0]

-----------------------------------------------------------------------------
(* Time passes.                                                            *)
age(b) ==
  IF b.since_open \in 0 .. (Cooldown - 1)
    THEN [b EXCEPT !.since_open = @ + 1]
    ELSE b

CooldownElapsed(b) == b.since_open # NotOpened /\ b.since_open >= Cooldown

\* is_open(): the read-only question the router asks.
is_open(b) == b.state = OPEN /\ ~CooldownElapsed(b)

-----------------------------------------------------------------------------
(* The OPEN -> HALF_OPEN flip made on the way into call().                 *)

\* Mutant: the probe counter is not cleared for the new half-open period.
half_open_keeps_probes(b) ==
  IF b.state = OPEN /\ CooldownElapsed(b)
    THEN [b EXCEPT !.state = HALF_OPEN]
    ELSE b

\* Mutant: the probe counter is cleared by every call, not by the flip.
half_open_always_clears(b) ==
  [b EXCEPT !.state = IF b.state = OPEN /\ CooldownElapsed(b) THEN HALF_OPEN ELSE @,
            !.probe_successes = 0]

maybe_transition_to_half_open(b) ==
  IF b.state = OPEN /\ CooldownElapsed(b)
    THEN [b EXCEPT !.state = HALF_OPEN, !.probe_successes = 0]
    ELSE b

-----------------------------------------------------------------------------
(* Reports of a finished call.                                             *)

Trip(b) == [b EXCEPT !.state = OPEN, !.since_open = 0, !.transition_count = @ + 1]

\* Mutant: a failure that arrives while OPEN restarts the cooldown.
record_failure_restarts(b) ==
  LET counted == [b EXCEPT !.failure_count = @ + 1]
  IN  CASE b.state = HALF_OPEN -> Trip(b)
        [] b.state = OPEN -> [b EXCEPT !.since_open = 0]
        [] b.state = CLOSED ->
             IF counted.failure_count >= FailureThreshold THEN Trip(counted) ELSE counted

\* Mutant: the threshold test is strict, so the circuit trips one failure late.
record_failure_late(b) ==
  LET counted == [b EXCEPT !.failure_count = @ + 1]
  IN  CASE b.state = HALF_OPEN -> Trip(b)
        [] b.state = OPEN -> b
        [] b.state = CLOSED ->
             IF counted.failure_count > FailureThreshold THEN Trip(counted) ELSE counted

record_failure(b) ==
  LET counted == [b EXCEPT !.failure_count = @ + 1]
  IN  CASE b.state = HALF_OPEN -> Trip(b)
        [] b.state = OPEN -> b
        [] b.state = CLOSED ->
             IF counted.failure_count >= FailureThreshold THEN Trip(counted) ELSE counted

\* Mutant: closing the circuit leaves the old failure count behind.
record_success_keeps_count(b) ==
  LET probed == [b EXCEPT !.probe_successes = @ + 1]
  IN  CASE b.state = HALF_OPEN ->
             IF probed.probe_successes >= HalfOpenProbeCount
               THEN [probed EXCEPT !.state = CLOSED, !.since_open = NotOpened]
               ELSE probed
        [] b.state = CLOSED -> [b EXCEPT !.failure_count = 0]
        [] b.state = OPEN -> b

\* Mutant: a success that arrives while OPEN is treated as a probe's.
record_success_any_state(b) ==
  LET probed == [b EXCEPT !.probe_successes = @ + 1]
  IN  IF b.state = CLOSED THEN [b EXCEPT !.failure_count = 0]
      ELSE IF probed.probe_successes >= HalfOpenProbeCount
        THEN [probed EXCEPT !.state = CLOSED, !.failure_count = 0, !.since_open = NotOpened]
        ELSE probed

record_success(b) ==
  LET probed == [b EXCEPT !.probe_successes = @ + 1]
  IN  CASE b.state = HALF_OPEN ->
             IF probed.probe_successes >= HalfOpenProbeCount
               THEN [probed EXCEPT !.state = CLOSED, !.failure_count = 0,
                                   !.since_open = NotOpened]
               ELSE probed
        [] b.state = CLOSED -> [b EXCEPT !.failure_count = 0]
        [] b.state = OPEN -> b
=============================================================================
