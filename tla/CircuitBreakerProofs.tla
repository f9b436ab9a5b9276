------------------------ MODULE CircuitBreakerProofs ------------------------
(***************************************************************************)
(* Proofs about CircuitBreaker, for every number of coroutines and every   *)
(* setting of the breaker.                                                 *)
(*                                                                         *)
(* The properties speak of what is seen from outside (obs).  They are not  *)
(* inductive: the argument needs, for each circuit state, which of the     *)
(* breaker's own fields equals which observation.  CircuitInv says so.     *)
(***************************************************************************)
EXTENDS CircuitBreaker, TLAPS

ClosedInv ==
  cb.state = CLOSED => /\ cb.failure_count = obs.fail_run
                       /\ obs.fail_run < TripCount
                       /\ obs.quiet = Cooldown

OpenInv == cb.state = OPEN => cb.since_open = obs.quiet

HalfOpenInv ==
  cb.state = HALF_OPEN => /\ cb.probe_successes = obs.ok_run
                          /\ obs.ok_run < CloseCount
                          /\ obs.quiet = Cooldown

CircuitInv == TypeOK /\ ClosedInv /\ OpenInv /\ HalfOpenInv

-----------------------------------------------------------------------------

\* The settings that a zero threshold or probe count stands for are positive.
LEMMA CountsPositive == TripCount \in Nat \ {0} /\ CloseCount \in Nat \ {0}
  BY BreakerAssumption DEF TripCount, CloseCount

\* The flip to HALF_OPEN changes only the state and clears the probe counter.
LEMMA FlipEffect ==
  ASSUME NEW b \in Breaker, b.state = OPEN, CooldownElapsed(b)
  PROVE  LET r == maybe_transition_to_half_open(b)
         IN  /\ r \in Breaker
             /\ r.state = HALF_OPEN
             /\ r.probe_successes = 0
             /\ r.transition_count = b.transition_count
<1> DEFINE flipped == [b EXCEPT !.state = HALF_OPEN]
           r == [flipped EXCEPT !.probe_successes = 0]
<1>1. maybe_transition_to_half_open(b) = r
  BY DEF maybe_transition_to_half_open
<1>2. flipped \in Breaker /\ flipped.state = HALF_OPEN
      /\ flipped.transition_count = b.transition_count
  BY DEF Breaker, CircuitState
<1> HIDE DEF flipped
<1>3. r \in Breaker
  BY <1>2, CountsPositive DEF Breaker
<1>4. r.state = HALF_OPEN /\ r.probe_successes = 0 /\ r.transition_count = b.transition_count
  BY <1>2 DEF Breaker
<1>5. QED
  BY <1>1, <1>3, <1>4

\* What tripping the circuit leaves in the fields the argument uses.
LEMMA TripEffect ==
  ASSUME NEW b \in Breaker
  PROVE  /\ Trip(b) \in Breaker
         /\ Trip(b).state = OPEN
         /\ Trip(b).since_open = 0
         /\ Trip(b).transition_count = b.transition_count + 1
<1> DEFINE opened == [b EXCEPT !.state = OPEN]
           timed == [opened EXCEPT !.since_open = 0]
           r == [timed EXCEPT !.transition_count = @ + 1]
<1>1. Trip(b) = r
  BY DEF Trip
<1>2. opened \in Breaker /\ opened.state = OPEN
      /\ opened.transition_count = b.transition_count
  BY DEF Breaker, CircuitState
<1> HIDE DEF opened
<1>3. timed \in Breaker /\ timed.state = OPEN /\ timed.since_open = 0
      /\ timed.transition_count = b.transition_count
  BY <1>2, BreakerAssumption DEF Breaker, NotOpened
<1> HIDE DEF timed
<1>4. r \in Breaker /\ r.state = OPEN /\ r.since_open = 0
      /\ r.transition_count = b.transition_count + 1
  BY <1>3 DEF Breaker
<1>5. QED
  BY <1>1, <1>4

\* A failure while CLOSED is counted, and trips the circuit at the threshold.
LEMMA ClosedFailureEffect ==
  ASSUME NEW b \in Breaker, b.state = CLOSED, b.failure_count < TripCount
  PROVE  LET r == record_failure(b)
         IN  /\ r \in Breaker
             /\ b.failure_count + 1 = TripCount => r.state = OPEN /\ r.since_open = 0
             /\ b.failure_count + 1 < TripCount =>
                  r.state = CLOSED /\ r.failure_count = b.failure_count + 1
<1> DEFINE counted == [b EXCEPT !.failure_count = @ + 1]
<1>1. counted \in Breaker /\ counted.failure_count = b.failure_count + 1
      /\ counted.state = CLOSED
  BY CountsPositive DEF Breaker
<1>2. record_failure(b) =
        IF counted.failure_count >= FailureThreshold THEN Trip(counted) ELSE counted
  BY DEF record_failure, CLOSED, OPEN, HALF_OPEN
<1>3. counted.failure_count >= FailureThreshold <=> b.failure_count + 1 = TripCount
  BY <1>1, BreakerAssumption DEF TripCount, Breaker
<1>4. QED
  BY <1>1, <1>2, <1>3, TripEffect, CountsPositive DEF Breaker

\* A success while HALF_OPEN is counted, and closes the circuit at the probe count.
LEMMA HalfOpenSuccessEffect ==
  ASSUME NEW b \in Breaker, b.state = HALF_OPEN, b.probe_successes < CloseCount
  PROVE  LET r == record_success(b)
         IN  /\ r \in Breaker
             /\ r.transition_count = b.transition_count
             /\ b.probe_successes + 1 = CloseCount => r.state = CLOSED /\ r.failure_count = 0
             /\ b.probe_successes + 1 < CloseCount =>
                  r.state = HALF_OPEN /\ r.probe_successes = b.probe_successes + 1
<1> DEFINE probed == [b EXCEPT !.probe_successes = @ + 1]
           shut == [probed EXCEPT !.state = CLOSED]
           cleared == [shut EXCEPT !.failure_count = 0]
           closed == [cleared EXCEPT !.since_open = NotOpened]
<1>0. record_success(b) =
        IF probed.probe_successes >= HalfOpenProbeCount THEN closed ELSE probed
  BY DEF record_success, CLOSED, OPEN, HALF_OPEN
<1>1. probed \in Breaker /\ probed.probe_successes = b.probe_successes + 1
      /\ probed.state = HALF_OPEN /\ probed.transition_count = b.transition_count
  BY CountsPositive DEF Breaker
<1> HIDE DEF probed
<1>2. shut \in Breaker /\ shut.state = CLOSED
      /\ shut.transition_count = b.transition_count
  BY <1>1 DEF Breaker, CircuitState
<1> HIDE DEF shut
<1>3. cleared \in Breaker /\ cleared.state = CLOSED /\ cleared.failure_count = 0
      /\ cleared.transition_count = b.transition_count
  BY <1>2, CountsPositive DEF Breaker
<1> HIDE DEF cleared
<1>4. closed \in Breaker /\ closed.state = CLOSED /\ closed.failure_count = 0
      /\ closed.transition_count = b.transition_count
  BY <1>3, BreakerAssumption DEF Breaker, NotOpened
<1> HIDE DEF closed
<1>5. probed.probe_successes >= HalfOpenProbeCount <=> b.probe_successes + 1 = CloseCount
  BY <1>1, BreakerAssumption DEF CloseCount, Breaker
<1>6. QED
  BY <1>0, <1>1, <1>4, <1>5, CountsPositive DEF Breaker

\* An instance starts CLOSED with nothing counted, which satisfies the invariant.
LEMMA InitEstablishes == Init => CircuitInv
  BY BreakerAssumption, MaxTransitionsAssumption, CountsPositive
  DEF Init, CircuitInv, ClosedInv, OpenInv, HalfOpenInv, TypeOK, InitBreaker, Breaker,
      Observations, CircuitState, CLOSED, OPEN, HALF_OPEN, NotOpened, Idle, Rejected

\* Every step of a coroutine and of the clock preserves the invariant.
LEMMA StepPreserves == CircuitInv /\ [Next]_vars => CircuitInv'
<1> SUFFICES ASSUME CircuitInv, [Next]_vars PROVE CircuitInv'
  OBVIOUS
<1> USE BreakerAssumption, MaxTransitionsAssumption, CountsPositive
    DEF CircuitInv, ClosedInv, OpenInv, HalfOpenInv, TypeOK, Breaker, Observations,
        CircuitState, CLOSED, OPEN, HALF_OPEN, NotOpened, Idle, Rejected
<1>1. ASSUME NEW c \in Callers, Admit(c) PROVE CircuitInv'
  <2>1. CASE cb.state = OPEN
    <3>1. CooldownElapsed(cb)
      BY <1>1, <2>1 DEF Admit, maybe_transition_to_half_open
    <3>2. obs.quiet = Cooldown
      BY <2>1, <3>1 DEF CooldownElapsed
    <3>3. /\ cb' \in Breaker
          /\ cb'.state = HALF_OPEN
          /\ cb'.probe_successes = 0
          /\ cb'.transition_count = cb.transition_count
          /\ calls' = [calls EXCEPT ![c] = HALF_OPEN]
      BY <1>1, <2>1, <3>1, FlipEffect DEF Admit
    <3>4. obs' = [obs EXCEPT !.ok_run = 0]
      BY <1>1, <2>1 DEF Admit
    <3>5. QED
      BY <3>2, <3>3, <3>4
  <2>2. CASE cb.state # OPEN
    BY <1>1, <2>2 DEF Admit, maybe_transition_to_half_open
  <2>3. QED
    BY <2>1, <2>2
<1>2. ASSUME NEW c \in Callers, Reject(c) PROVE CircuitInv'
  BY <1>2 DEF Reject, maybe_transition_to_half_open, CooldownElapsed, Free
<1>3. ASSUME NEW c \in Callers, Succeed(c) PROVE CircuitInv'
  <2>1. CASE cb.state = HALF_OPEN
    BY <1>3, <2>1, HalfOpenSuccessEffect DEF Succeed, Lesser
  <2>2. CASE cb.state # HALF_OPEN
    BY <1>3, <2>2 DEF Succeed, record_success, Lesser
  <2>3. QED
    BY <2>1, <2>2
<1>4. ASSUME NEW c \in Callers, Fail(c) PROVE CircuitInv'
  <2>1. CASE cb.state = CLOSED
    BY <1>4, <2>1, ClosedFailureEffect DEF Fail, Lesser
  <2>2. CASE cb.state = OPEN
    BY <1>4, <2>2 DEF Fail, record_failure, Lesser
  <2>3. CASE cb.state = HALF_OPEN
    <3>1. record_failure(cb) = Trip(cb)
      BY <2>3 DEF record_failure
    <3>2. QED
      BY <1>4, <2>3, <3>1, TripEffect DEF Fail, Lesser
  <2>4. QED
    BY <2>1, <2>2, <2>3
<1>5. ASSUME NEW c \in Callers, Cancel(c) PROVE CircuitInv'
  BY <1>5 DEF Cancel, InFlight
<1>6. CASE Tick
  BY <1>6 DEF Tick, age, Lesser
<1>7. CASE UNCHANGED vars
  BY <1>7 DEF vars
<1>8. QED
  BY <1>1, <1>2, <1>3, <1>4, <1>5, <1>6, <1>7 DEF Next

-----------------------------------------------------------------------------

\* The inductive invariant holds throughout every behaviour of the breaker.
THEOREM CircuitInvariant == Spec => []CircuitInv
<1>1. CircuitInv /\ UNCHANGED vars => CircuitInv'
  BY StepPreserves
<1>2. QED
  BY InitEstablishes, StepPreserves, <1>1, PTL DEF Spec

\* Counters, timer and state of the breaker stay within their types, so that
\* _failure_count and _probe_successes never pass their thresholds.
THEOREM TypeCorrect == Spec => []TypeOK
  BY CircuitInvariant, PTL DEF CircuitInv

\* A closed circuit has seen fewer than failure_threshold failures in a row.
THEOREM ClosedBelow == Spec => []ClosedBelowThreshold
<1>1. CircuitInv => ClosedBelowThreshold
  BY DEF CircuitInv, ClosedInv, ClosedBelowThreshold
<1>2. QED
  BY CircuitInvariant, <1>1, PTL

\* While OPEN, is_open() is true exactly until cooldown_s has passed since the trip.
THEOREM OpenForCooldown == Spec => []OpenExactlyForCooldown
<1>1. CircuitInv => OpenExactlyForCooldown
  BY BreakerAssumption
  DEF CircuitInv, OpenInv, OpenExactlyForCooldown, is_open, CooldownElapsed, TypeOK,
      Observations, NotOpened
<1>2. QED
  BY CircuitInvariant, <1>1, PTL

\* record_success never opens a circuit, and of the flips only the one in call()
\* starts from OPEN: a step from CLOSED to OPEN is a failed report.
LEMMA OnlyFailureTrips ==
  ASSUME CircuitInv, [Next]_vars, cb.state # OPEN, cb'.state = OPEN
  PROVE  \E c \in Callers : Fail(c)
<1> USE DEF CLOSED, OPEN, HALF_OPEN, CircuitInv, TypeOK
<1>1. ASSUME NEW c \in Callers, Admit(c) \/ Reject(c) \/ Cancel(c) PROVE FALSE
  BY <1>1 DEF Admit, Reject, Cancel, maybe_transition_to_half_open
<1>2. ASSUME NEW c \in Callers, Succeed(c) PROVE FALSE
  <2>1. CASE cb.state = HALF_OPEN
    <3>1. cb' = record_success(cb) /\ cb.probe_successes < CloseCount /\ cb \in Breaker
      BY <1>2, <2>1 DEF Succeed, HalfOpenInv
    <3>2. cb.probe_successes + 1 <= CloseCount
      BY <3>1, CountsPositive DEF Breaker
    <3>3. QED
      BY <2>1, <3>1, <3>2, HalfOpenSuccessEffect, CountsPositive DEF Breaker
  <2>2. CASE cb.state = CLOSED
    BY <1>2, <2>2 DEF Succeed, record_success, Breaker
  <2>3. QED
    BY <2>1, <2>2 DEF Breaker, CircuitState
<1>3. ~Tick
  BY DEF Tick, age, Breaker
<1>4. ~UNCHANGED vars
  BY DEF vars
<1>5. QED
  BY <1>1, <1>2, <1>3, <1>4 DEF Next

\* A closed circuit trips only at the end of a full run of failed reports.
THEOREM TripsAfterFullRun == Spec => TripNeedsFullRun
<1>1. CircuitInv /\ [Next]_vars
        => [cb.state = CLOSED /\ cb'.state = OPEN => obs'.fail_run = TripCount]_vars
  <2> SUFFICES ASSUME CircuitInv, [Next]_vars, cb.state = CLOSED, cb'.state = OPEN
               PROVE  obs'.fail_run = TripCount
    OBVIOUS
  <2>1. PICK c \in Callers : Fail(c)
    BY OnlyFailureTrips DEF CLOSED, OPEN
  <2>2. cb' = record_failure(cb) /\ obs'.fail_run = Lesser(obs.fail_run + 1, TripCount)
    BY <2>1 DEF Fail
  <2>3. cb \in Breaker /\ cb.failure_count = obs.fail_run /\ obs.fail_run < TripCount
        /\ obs.fail_run \in Nat
    BY DEF CircuitInv, TypeOK, ClosedInv, Observations
  <2>4. ~(cb.failure_count + 1 < TripCount)
    BY <2>2, <2>3, ClosedFailureEffect DEF CLOSED, OPEN
  <2>5. QED
    BY <2>2, <2>3, <2>4, CountsPositive DEF Lesser
<1>2. QED
  BY CircuitInvariant, <1>1, PTL DEF Spec, TripNeedsFullRun

\* No call is let through within cooldown_s of a trip.
THEOREM CooldownIsQuiet == Spec => NoTrafficInCooldown
<1>1. CircuitInv /\ [Next]_vars
        => [\A c \in Callers : ~InFlight(c) /\ InFlight(c)' => obs.quiet = Cooldown]_vars
  <2> SUFFICES ASSUME CircuitInv, [Next]_vars,
                      NEW c \in Callers, ~InFlight(c), InFlight(c)'
               PROVE  obs.quiet = Cooldown
    OBVIOUS
  <2> USE DEF InFlight, CLOSED, OPEN, HALF_OPEN, Idle, Rejected
  <2>1. calls \in [Callers -> {Idle, Rejected, CLOSED, HALF_OPEN}]
    BY DEF CircuitInv, TypeOK
  <2>2. Admit(c)
    <3>1. ASSUME NEW d \in Callers, Reject(d) \/ Succeed(d) \/ Fail(d) \/ Cancel(d)
          PROVE  FALSE
      BY <2>1, <3>1 DEF Reject, Succeed, Fail, Cancel
    <3>2. ASSUME NEW d \in Callers, Admit(d) PROVE d = c
      BY <2>1, <3>2 DEF Admit
    <3>3. ~Tick /\ ~UNCHANGED vars
      BY DEF Tick, vars
    <3>4. QED
      BY <3>1, <3>2, <3>3 DEF Next
  <2>3. CASE cb.state = OPEN
    <3>1. CooldownElapsed(cb)
      BY <2>2, <2>3 DEF Admit, maybe_transition_to_half_open
    <3>2. QED
      BY <2>3, <3>1, BreakerAssumption
      DEF CircuitInv, OpenInv, TypeOK, Observations, CooldownElapsed
  <2>4. CASE cb.state # OPEN
    BY <2>4 DEF CircuitInv, ClosedInv, HalfOpenInv, TypeOK, Breaker, CircuitState
  <2>5. QED
    BY <2>3, <2>4
<1>2. QED
  BY CircuitInvariant, <1>1, PTL DEF Spec, NoTrafficInCooldown

\* The circuit closes only from HALF_OPEN, after the cooldown, on the last of
\* half_open_probe_count successes in a row.
THEOREM ClosingNeedsProbes == Spec => ClosesOnlyAfterProbes
<1> DEFINE Closing == cb.state # CLOSED /\ cb'.state = CLOSED
           Probed == cb.state = HALF_OPEN /\ obs'.ok_run = CloseCount /\ obs.quiet = Cooldown
<1>1. CircuitInv /\ [Next]_vars => [Closing => Probed]_vars
  <2> SUFFICES ASSUME CircuitInv, [Next]_vars, Closing PROVE Probed
    OBVIOUS
  <2> USE DEF CLOSED, OPEN, HALF_OPEN
  <2>0. cb \in Breaker /\ obs \in Observations
    BY DEF CircuitInv, TypeOK
  <2>1. ASSUME NEW c \in Callers, Succeed(c) PROVE Probed
    <3>1. cb.state = HALF_OPEN
      BY <2>0, <2>1 DEF Succeed, record_success, Breaker, CircuitState
    <3>2. cb.probe_successes = obs.ok_run /\ obs.ok_run < CloseCount /\ obs.quiet = Cooldown
      BY <3>1 DEF CircuitInv, HalfOpenInv
    <3>3. ~(cb.probe_successes + 1 < CloseCount)
      BY <2>0, <2>1, <3>1, <3>2, HalfOpenSuccessEffect DEF Succeed
    <3>4. QED
      BY <2>0, <2>1, <3>1, <3>2, <3>3, CountsPositive DEF Succeed, Lesser, Observations
  <2>2. ASSUME NEW c \in Callers, Admit(c) \/ Reject(c) \/ Cancel(c) PROVE FALSE
    BY <2>0, <2>2 DEF Admit, Reject, Cancel, maybe_transition_to_half_open, Breaker
  <2>3. ASSUME NEW c \in Callers, Fail(c) PROVE FALSE
    <3>1. CASE cb.state = OPEN
      BY <2>3, <3>1 DEF Fail, record_failure
    <3>2. CASE cb.state = HALF_OPEN
      BY <2>0, <2>3, <3>2, TripEffect DEF Fail, record_failure
    <3>3. QED
      BY <2>0, <3>1, <3>2 DEF Breaker, CircuitState
  <2>4. ~Tick
    BY <2>0 DEF Tick, age, Breaker
  <2>5. QED
    BY <2>1, <2>2, <2>3, <2>4 DEF Next, vars
<1>2. QED
  BY CircuitInvariant, <1>1, PTL DEF Spec, ClosesOnlyAfterProbes
=============================================================================
