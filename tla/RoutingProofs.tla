--------------------------- MODULE RoutingProofs ---------------------------
(***************************************************************************)
(* Proofs about Routing, for every number of coroutines, every catalog and *)
(* every setting of the retries and the breakers.                          *)
(*                                                                         *)
(* RetryInv counts: where a request stands says how many of its attempts   *)
(* have been made.  BreakerInv is what keeps the breakers' counters below  *)
(* their thresholds.  What select() picks needs neither: it is a fact      *)
(* about one state, of any catalog and any breakers.                       *)
(***************************************************************************)
EXTENDS Routing, OrderLemmas

-----------------------------------------------------------------------------
(* Retries                                                                 *)

Job == [pc : {"idle", "attempt", "calling", "sleeping", "served", "raised"},
        role : Roles \union {Nowhere},
        max_attempts : Attempts \union {0}, attempt : Nat,
        last_exc : Failures \union {"none", "RuntimeError"},
        wait : 0 .. MaxDelay, made : Nat]

\* Nothing but a failure the caller listed as retryable is behind the request.
Hopeful(job) == job.last_exc \in Retryable \union {"none"}

\* A request under way has a role, and where it stands says how many attempts it has made.
JobOK(job) ==
  /\ job \in Job
  /\ job.pc \in {"attempt", "calling", "sleeping"} => job.role \in Roles
  /\ job.made <= job.max_attempts
  /\ job.pc = "attempt" => job.made = job.attempt /\ Hopeful(job)
  /\ job.pc = "calling" => job.made = job.attempt + 1 /\ Hopeful(job)
  /\ job.pc = "sleeping" =>
       job.made = job.attempt + 1 /\ job.made < job.max_attempts /\ Hopeful(job)
  /\ job.pc = "served" => job.made > 0 /\ Hopeful(job)
  /\ job.pc = "raised" /\ job.last_exc \in Retryable => job.made = job.max_attempts

RetryInv ==
  /\ request \in [Requests -> Job]
  /\ \A r \in Requests : JobOK(request[r])

\* A record of a request, field by field.
Made(pc, role, m, a, e, w, d) ==
  [pc |-> pc, role |-> role, max_attempts |-> m, attempt |-> a, last_exc |-> e,
   wait |-> w, made |-> d]

LEMMA JobFields ==
  ASSUME NEW job \in Job
  PROVE  job = Made(job.pc, job.role, job.max_attempts, job.attempt, job.last_exc,
                    job.wait, job.made)
BY DEF Job, Made

LEMMA MadeFields ==
  ASSUME NEW pc, NEW role, NEW m, NEW a, NEW e, NEW w, NEW d
  PROVE  LET j == Made(pc, role, m, a, e, w, d)
         IN  /\ j.pc = pc /\ j.role = role /\ j.max_attempts = m /\ j.attempt = a
             /\ j.last_exc = e /\ j.wait = w /\ j.made = d
BY DEF Made

LEMMA OverFields ==
  ASSUME NEW job, NEW pc, NEW exc
  PROVE  Over(job, pc, exc) = Made(pc, Nowhere, job.max_attempts, 0, exc, 0, job.made)
BY DEF Over, Made

\* What the EXCEPTs of the actions make of a request.
LEMMA JobWithMade ==
  ASSUME NEW j \in Job, NEW x
  PROVE  [j EXCEPT !.made = x]
           = Made(j.pc, j.role, j.max_attempts, j.attempt, j.last_exc, j.wait, x)
BY DEF Job, Made

LEMMA JobWithWait ==
  ASSUME NEW j \in Job, NEW x
  PROVE  [j EXCEPT !.wait = x]
           = Made(j.pc, j.role, j.max_attempts, j.attempt, j.last_exc, x, j.made)
BY DEF Job, Made

LEMMA JobWithPc ==
  ASSUME NEW j \in Job, NEW x \in {"idle", "attempt", "calling", "sleeping", "served", "raised"}
  PROVE  /\ [j EXCEPT !.pc = x]
              = Made(x, j.role, j.max_attempts, j.attempt, j.last_exc, j.wait, j.made)
         /\ [j EXCEPT !.pc = x] \in Job
BY DEF Job, Made

LEMMA JobAwake ==
  ASSUME NEW j \in Job
  PROVE  [j EXCEPT !.pc = "attempt", !.attempt = @ + 1]
           = Made("attempt", j.role, j.max_attempts, j.attempt + 1, j.last_exc, j.wait, j.made)
<1> DEFINE f == [j EXCEPT !.pc = "attempt"]
<1>1. f \in Job /\ f = Made("attempt", j.role, j.max_attempts, j.attempt, j.last_exc, j.wait, j.made)
  BY JobWithPc
<1> HIDE DEF f
<1>2. [f EXCEPT !.attempt = @ + 1]
        = Made(f.pc, f.role, f.max_attempts, f.attempt + 1, f.last_exc, f.wait, f.made)
  BY <1>1 DEF Job, Made
<1>3. QED
  BY <1>1, <1>2, MadeFields DEF f

LEMMA JobAsleep ==
  ASSUME NEW j \in Job, NEW e \in Failures, NEW w
  PROVE  [j EXCEPT !.pc = "sleeping", !.last_exc = e, !.wait = w]
           = Made("sleeping", j.role, j.max_attempts, j.attempt, e, w, j.made)
<1> DEFINE f == [j EXCEPT !.pc = "sleeping"]
           g == [f EXCEPT !.last_exc = e]
<1>1. f \in Job /\ f = Made("sleeping", j.role, j.max_attempts, j.attempt, j.last_exc, j.wait, j.made)
  BY JobWithPc
<1> HIDE DEF f
<1>2. g = Made(f.pc, f.role, f.max_attempts, f.attempt, e, f.wait, f.made) /\ g \in Job
  BY <1>1 DEF Job, Made
<1> HIDE DEF g
<1>3. [g EXCEPT !.wait = w]
        = Made(g.pc, g.role, g.max_attempts, g.attempt, g.last_exc, w, g.made)
  BY <1>2, JobWithWait
<1>4. /\ f.pc = "sleeping" /\ f.role = j.role /\ f.max_attempts = j.max_attempts
      /\ f.attempt = j.attempt /\ f.made = j.made
  BY <1>1, MadeFields
<1>5. /\ g.pc = f.pc /\ g.role = f.role /\ g.max_attempts = f.max_attempts
      /\ g.attempt = f.attempt /\ g.last_exc = e /\ g.made = f.made
  BY <1>2, MadeFields
<1>6. QED
  BY <1>3, <1>4, <1>5 DEF f, g

\* A record is a request that may exist if its fields are right.
LEMMA MadeOK ==
  ASSUME NEW pc \in {"idle", "attempt", "calling", "sleeping", "served", "raised"},
         NEW role \in Roles \union {Nowhere}, NEW m \in Attempts \union {0}, NEW a \in Nat,
         NEW e \in Failures \union {"none", "RuntimeError"}, NEW w \in 0 .. MaxDelay, NEW d \in Nat,
         pc \in {"attempt", "calling", "sleeping"} => role \in Roles,
         d <= m,
         pc = "attempt" => d = a,
         pc = "calling" => d = a + 1,
         pc = "sleeping" => d = a + 1 /\ d < m,
         pc = "served" => d > 0,
         pc \in {"attempt", "calling", "sleeping", "served"} => e \in Retryable \union {"none"},
         pc = "raised" /\ e \in Retryable => d = m
  PROVE  JobOK(Made(pc, role, m, a, e, w, d))
<1> DEFINE j == Made(pc, role, m, a, e, w, d)
<1>1. /\ j.pc = pc /\ j.role = role /\ j.max_attempts = m /\ j.attempt = a
      /\ j.last_exc = e /\ j.wait = w /\ j.made = d
  BY MadeFields
<1>2. j \in Job
  BY DEF Made, Job
<1> HIDE DEF j
<1>3. JobOK(j)
  BY <1>1, <1>2 DEF JobOK, Hopeful
<1>4. QED
  BY <1>3 DEF j

LEMMA JobNumbers ==
  ASSUME NEW job \in Job
  PROVE  /\ job.max_attempts \in Nat /\ job.attempt \in Nat /\ job.made \in Nat
         /\ job.max_attempts \in Attempts \union {0} /\ job.role \in Roles \union {Nowhere}
         /\ job.last_exc \in Failures \union {"none", "RuntimeError"} /\ job.wait \in 0 .. MaxDelay
         /\ job.pc \in {"idle", "attempt", "calling", "sleeping", "served", "raised"}
<1>1. \A m \in Attempts \union {0} : m \in Nat
  BY RoutingAssumption
<1>2. /\ job.max_attempts \in Attempts \union {0} /\ job.attempt \in Nat /\ job.made \in Nat
      /\ job.role \in Roles \union {Nowhere} /\ job.wait \in 0 .. MaxDelay
      /\ job.last_exc \in Failures \union {"none", "RuntimeError"}
      /\ job.pc \in {"idle", "attempt", "calling", "sleeping", "served", "raised"}
  BY DEF Job
<1>3. job.max_attempts \in Nat
  BY <1>1, <1>2, Zenon
<1>4. QED
  BY <1>2, <1>3

LEMMA NoRequest == JobOK(Fresh)
<1>1. Fresh = Made("idle", Nowhere, 0, 0, "none", 0, 0)
  BY DEF Fresh, Made
<1>2. 0 \in 0 .. MaxDelay
  BY RoutingAssumption
<1>3. QED
  BY <1>1, <1>2, MadeOK

\* A request that ends with an exception nobody retries, or after its last attempt.
LEMMA RaisedOK ==
  ASSUME NEW job \in Job, job.made <= job.max_attempts,
         NEW exc \in Failures \union {"RuntimeError"},
         exc \in Retryable => job.made = job.max_attempts
  PROVE  JobOK(Over(job, "raised", exc))
<1>1. Over(job, "raised", exc)
        = Made("raised", Nowhere, job.max_attempts, 0, exc, 0, job.made)
  BY OverFields
<1>2. 0 \in 0 .. MaxDelay
  BY RoutingAssumption
<1>3. job.max_attempts \in Attempts \union {0} /\ job.made \in Nat
  BY JobNumbers
<1>4. JobOK(Made("raised", Nowhere, job.max_attempts, 0, exc, 0, job.made))
  BY <1>2, <1>3, MadeOK
<1>5. QED
  BY <1>1, <1>4

\* The attempt that is about to be made is counted.
LEMMA TriedFields ==
  ASSUME NEW job \in Job, job.made = job.attempt, job.attempt < job.max_attempts
  PROVE  Tried(job) = Made(job.pc, job.role, job.max_attempts, job.attempt, job.last_exc,
                           job.wait, job.made + 1)
<1>1. Lesser(job.made + 1, job.max_attempts + 1) = job.made + 1
  BY JobNumbers DEF Lesser
<1>2. Tried(job) = [job EXCEPT !.made = job.made + 1]
  BY <1>1 DEF Tried
<1>3. QED
  BY <1>2, JobWithMade

\* After a failed attempt the request ends or waits for the next one.
LEMMA AfterFailureOK ==
  ASSUME NEW job \in Job, job.made = job.attempt + 1, job.made <= job.max_attempts,
         job.role \in Roles, NEW exc \in Failures, NEW next \in after_failure(job, exc)
  PROVE  JobOK(next)
<1>1. CASE exc \notin Retryable \/ job.attempt = job.max_attempts - 1
  <2>1. next = Over(job, "raised", exc)
    BY <1>1 DEF after_failure
  <2>2. exc \in Retryable => job.made = job.max_attempts
    BY <1>1, JobNumbers
  <2>3. QED
    BY <2>1, <2>2, RaisedOK
<1>2. CASE ~ (exc \notin Retryable \/ job.attempt = job.max_attempts - 1)
  <2>1. PICK d \in backoff(job.attempt) :
          next = [job EXCEPT !.pc = "sleeping", !.last_exc = exc, !.wait = d]
    BY <1>2 DEF after_failure
  <2>2. d \in 0 .. MaxDelay
    BY <2>1 DEF backoff
  <2>3. next = Made("sleeping", job.role, job.max_attempts, job.attempt, exc, d, job.made)
    BY <2>1, JobAsleep
  <2>4. job.made < job.max_attempts
    BY <1>2, JobNumbers
  <2>5. QED
    BY <1>2, <2>2, <2>3, <2>4, MadeOK, JobNumbers
<1>3. QED
  BY <1>1, <1>2

-----------------------------------------------------------------------------
(* Breakers                                                                *)

\* A counter below its threshold, in the state that counts with it.
BreakerOK(b) ==
  /\ b \in Breaker
  /\ b.state = CLOSED => b.failure_count < TripCount
  /\ b.state = HALF_OPEN => b.probe_successes < CloseCount

BreakerInv ==
  /\ breakers \in [Roles -> Breaker]
  /\ \A role \in Roles : BreakerOK(breakers[role])

LEMMA CountsPositive == TripCount \in Nat \ {0} /\ CloseCount \in Nat \ {0}
  BY BreakerAssumption DEF TripCount, CloseCount

LEMMA NewBreakerOK == BreakerOK(InitBreaker)
  BY BreakerAssumption, CountsPositive
  DEF BreakerOK, InitBreaker, Breaker, CircuitState, CLOSED, OPEN, HALF_OPEN, NotOpened

LEMMA FlipOK ==
  ASSUME NEW b, BreakerOK(b)
  PROVE  BreakerOK(maybe_transition_to_half_open(b))
<1> DEFINE flipped == [b EXCEPT !.state = HALF_OPEN]
           r == [flipped EXCEPT !.probe_successes = 0]
<1> USE DEF BreakerOK, CLOSED, OPEN, HALF_OPEN
<1>1. maybe_transition_to_half_open(b) = IF b.state = OPEN /\ CooldownElapsed(b) THEN r ELSE b
  BY DEF maybe_transition_to_half_open
<1>2. flipped \in Breaker /\ flipped.state = HALF_OPEN
  BY DEF Breaker, CircuitState
<1> HIDE DEF flipped
<1>3. r \in Breaker /\ r.state = HALF_OPEN /\ r.probe_successes = 0
  BY <1>2, CountsPositive DEF Breaker
<1> HIDE DEF r
<1>4. QED
  BY <1>1, <1>3, CountsPositive

LEMMA TripOK ==
  ASSUME NEW b \in Breaker
  PROVE  BreakerOK(Trip(b))
<1> DEFINE opened == [b EXCEPT !.state = OPEN]
           timed == [opened EXCEPT !.since_open = 0]
           r == [timed EXCEPT !.transition_count = @ + 1]
<1>1. Trip(b) = r
  BY DEF Trip
<1>2. opened \in Breaker /\ opened.state = OPEN
  BY DEF Breaker, CircuitState
<1> HIDE DEF opened
<1>3. timed \in Breaker /\ timed.state = OPEN
  BY <1>2, BreakerAssumption DEF Breaker, NotOpened
<1> HIDE DEF timed
<1>4. r \in Breaker /\ r.state = OPEN
  BY <1>3 DEF Breaker
<1>5. QED
  BY <1>1, <1>4 DEF BreakerOK, CLOSED, OPEN, HALF_OPEN

LEMMA FailureOK ==
  ASSUME NEW b, BreakerOK(b)
  PROVE  BreakerOK([record_failure(b) EXCEPT !.transition_count = 0])
<1> DEFINE counted == [b EXCEPT !.failure_count = @ + 1]
           f == record_failure(b)
<1>1. b \in Breaker /\ b.state \in {CLOSED, OPEN, HALF_OPEN}
  BY DEF BreakerOK, Breaker, CircuitState
<1>2. BreakerOK(f)
  <2>1. CASE b.state = HALF_OPEN
    BY <1>1, <2>1, TripOK DEF record_failure, CLOSED, OPEN, HALF_OPEN
  <2>2. CASE b.state = OPEN
    BY <2>2 DEF record_failure, CLOSED, OPEN, HALF_OPEN
  <2>3. CASE b.state = CLOSED
    <3>1. counted \in Breaker /\ counted.failure_count = b.failure_count + 1
          /\ counted.state = CLOSED
      BY <2>3, CountsPositive DEF BreakerOK, Breaker
    <3>2. f = IF counted.failure_count >= FailureThreshold THEN Trip(counted) ELSE counted
      BY <2>3 DEF record_failure, CLOSED, OPEN, HALF_OPEN
    <3>3. ~ (counted.failure_count >= FailureThreshold) => counted.failure_count < TripCount
      BY <3>1, BreakerAssumption DEF TripCount, Breaker
    <3> HIDE DEF counted, f
    <3>4. QED
      BY <3>1, <3>2, <3>3, TripOK DEF BreakerOK, CLOSED, HALF_OPEN
  <2>4. QED
    BY <1>1, <2>1, <2>2, <2>3
<1> HIDE DEF f
<1> DEFINE r == [f EXCEPT !.transition_count = 0]
<1>3. /\ r \in Breaker /\ r.state = f.state /\ r.failure_count = f.failure_count
      /\ r.probe_successes = f.probe_successes
  BY <1>2 DEF BreakerOK, Breaker
<1> HIDE DEF r
<1>4. BreakerOK(r)
  BY <1>2, <1>3 DEF BreakerOK
<1>5. QED
  BY <1>4 DEF r, f

LEMMA SuccessOK ==
  ASSUME NEW b, BreakerOK(b)
  PROVE  BreakerOK(record_success(b))
<1> DEFINE probed == [b EXCEPT !.probe_successes = @ + 1]
           shut == [probed EXCEPT !.state = CLOSED]
           cleared == [shut EXCEPT !.failure_count = 0]
           closed == [cleared EXCEPT !.since_open = NotOpened]
           zeroed == [b EXCEPT !.failure_count = 0]
<1>1. b \in Breaker /\ b.state \in {CLOSED, OPEN, HALF_OPEN}
  BY DEF BreakerOK, Breaker, CircuitState
<1>2. CASE b.state = HALF_OPEN
  <2>0. record_success(b) = IF probed.probe_successes >= HalfOpenProbeCount THEN closed ELSE probed
    BY <1>2 DEF record_success, CLOSED, OPEN, HALF_OPEN
  <2>1. probed \in Breaker /\ probed.probe_successes = b.probe_successes + 1
        /\ probed.state = HALF_OPEN
    BY <1>2, CountsPositive DEF BreakerOK, Breaker
  <2>2. ~ (probed.probe_successes >= HalfOpenProbeCount) => probed.probe_successes < CloseCount
    BY <2>1, BreakerAssumption DEF CloseCount, Breaker
  <2> HIDE DEF probed
  <2>3. shut \in Breaker /\ shut.state = CLOSED
    BY <2>1 DEF Breaker, CircuitState
  <2> HIDE DEF shut
  <2>4. cleared \in Breaker /\ cleared.state = CLOSED /\ cleared.failure_count = 0
    BY <2>3, CountsPositive DEF Breaker
  <2> HIDE DEF cleared
  <2>5. closed \in Breaker /\ closed.state = CLOSED /\ closed.failure_count = 0
    BY <2>4, BreakerAssumption DEF Breaker, NotOpened
  <2> HIDE DEF closed
  <2>6. QED
    BY <2>0, <2>1, <2>2, <2>5, CountsPositive DEF BreakerOK, CLOSED, OPEN, HALF_OPEN
<1>3. CASE b.state = OPEN
  BY <1>3 DEF record_success, CLOSED, OPEN, HALF_OPEN
<1>4. CASE b.state = CLOSED
  <2>1. record_success(b) = zeroed
    BY <1>4 DEF record_success, CLOSED, OPEN, HALF_OPEN
  <2>2. zeroed \in Breaker /\ zeroed.failure_count = 0 /\ zeroed.state = CLOSED
    BY <1>1, <1>4, CountsPositive DEF Breaker
  <2> HIDE DEF zeroed
  <2>3. QED
    BY <2>1, <2>2, CountsPositive DEF BreakerOK, CLOSED, HALF_OPEN
<1>5. QED
  BY <1>1, <1>2, <1>3, <1>4

LEMMA AgeOK ==
  ASSUME NEW b, BreakerOK(b)
  PROVE  BreakerOK(age(b))
<1> DEFINE r == [b EXCEPT !.since_open = @ + 1]
<1>1. age(b) = IF b.since_open \in 0 .. (Cooldown - 1) THEN r ELSE b
  BY DEF age
<1>2. b.since_open \in 0 .. (Cooldown - 1)
        => /\ r \in Breaker /\ r.state = b.state /\ r.failure_count = b.failure_count
           /\ r.probe_successes = b.probe_successes
  BY BreakerAssumption DEF BreakerOK, Breaker, NotOpened
<1> HIDE DEF r
<1>3. QED
  BY <1>1, <1>2 DEF BreakerOK

-----------------------------------------------------------------------------
(* The steps                                                               *)

\* No request and new breakers.
LEMMA InitEstablishes == Init => RetryInv /\ BreakerInv /\ catalog \in Catalogs
<1> SUFFICES ASSUME Init PROVE RetryInv /\ BreakerInv /\ catalog \in Catalogs
  OBVIOUS
<1>1. /\ catalog \in Catalogs /\ breakers = [role \in Roles |-> InitBreaker]
      /\ request = [r \in Requests |-> Fresh]
  BY DEF Init
<1>2. RetryInv
  BY <1>1, NoRequest DEF RetryInv, JobOK
<1>3. BreakerInv
  BY <1>1, NewBreakerOK DEF BreakerInv, BreakerOK
<1>4. QED
  BY <1>1, <1>2, <1>3

\* A step that moves one request keeps RetryInv if it leaves it in order.
LEMMA OneRequest ==
  ASSUME RetryInv, NEW r \in Requests, NEW j, JobOK(j), request' = [request EXCEPT ![r] = j]
  PROVE  RetryInv'
<1>1. j \in Job
  BY DEF JobOK
<1>2. request' \in [Requests -> Job]
  BY <1>1 DEF RetryInv
<1>3. \A q \in Requests : request'[q] = IF q = r THEN j ELSE request[q]
  BY DEF RetryInv
<1>4. QED
  BY <1>2, <1>3 DEF RetryInv

\* The same for a breaker.
LEMMA OneBreaker ==
  ASSUME BreakerInv, NEW role \in Roles, NEW b, BreakerOK(b),
         breakers' = [breakers EXCEPT ![role] = b]
  PROVE  BreakerInv'
<1>1. b \in Breaker
  BY DEF BreakerOK
<1>2. breakers' \in [Roles -> Breaker]
  BY <1>1 DEF BreakerInv
<1>3. \A q \in Roles : breakers'[q] = IF q = role THEN b ELSE breakers[q]
  BY DEF BreakerInv
<1>4. QED
  BY <1>2, <1>3 DEF BreakerInv


-----------------------------------------------------------------------------
(* select()                                                                *)

\* A function on a non-empty interval takes a greatest value, and first at some place.
LEMMA GreatestFirst ==
  ASSUME NEW n \in Nat \ {0}, NEW f \in [1 .. n -> Nat]
  PROVE  \E i \in 1 .. n : \A j \in 1 .. n : f[j] < f[i] \/ (f[j] = f[i] /\ i <= j)
<1> DEFINE Top(m, i) == \A j \in 1 .. m : f[j] < f[i] \/ (f[j] = f[i] /\ i <= j)
           Bad == {m \in 1 .. n : ~ \E i \in 1 .. m : Top(m, i)}
<1>1. Bad = {}
  <2> SUFFICES ASSUME Bad # {} PROVE FALSE
    OBVIOUS
  <2>1. PICK m \in Bad : \A k \in Bad : m <= k
    <3>1. Bad \subseteq Nat
      OBVIOUS
    <3> HIDE DEF Bad
    <3>2. QED
      BY <3>1, LeastNatural
  <2>2. m \in 1 .. n /\ ~ \E i \in 1 .. m : Top(m, i)
    OBVIOUS
  <2>3. m # 1
    <3>1. f[1] \in Nat
      OBVIOUS
    <3>2. Top(1, 1)
      BY <3>1
    <3>3. QED
      BY <2>2, <3>2
  <2>4. m - 1 \in 1 .. n /\ m - 1 \notin Bad
    <3>1. m - 1 \in 1 .. n /\ ~ (m <= m - 1)
      BY <2>2, <2>3
    <3> HIDE DEF Bad
    <3>2. QED
      BY <2>1, <3>1
  <2>5. PICK i \in 1 .. m - 1 : Top(m - 1, i)
    BY <2>4
  <2>6. i \in 1 .. m /\ m \in 1 .. m /\ f[i] \in Nat /\ f[m] \in Nat
    <3> HIDE DEF Top, Bad
    <3>1. i \in 1 .. m /\ m \in 1 .. m /\ i \in 1 .. n
      BY <2>2
    <3>2. QED
      BY <2>2, <3>1
  <2>7. \A j \in 1 .. m : f[j] \in Nat /\ (j = m \/ j \in 1 .. m - 1)
    BY <2>2
  <2>8. CASE f[m] <= f[i]
    <3>1. ASSUME NEW j \in 1 .. m PROVE f[j] < f[i] \/ (f[j] = f[i] /\ i <= j)
      <4>1. CASE j = m
        BY <4>1, <2>6, <2>8
      <4>2. CASE j # m
        BY <4>2, <2>5, <2>7
      <4>3. QED
        BY <4>1, <4>2
    <3>2. Top(m, i)
      BY <3>1
    <3>3. QED
      BY <2>2, <2>6, <3>2
  <2>9. CASE f[i] < f[m]
    <3>1. Top(m, m)
      <4>1. ASSUME NEW j \in 1 .. m - 1 PROVE f[j] < f[m]
        <5>1. f[j] < f[i] \/ f[j] = f[i]
          BY <2>5
        <5>2. f[j] \in Nat
          <6>1. j \in 1 .. m
            BY <2>2
          <6>2. QED
            BY <2>7, <6>1
        <5> HIDE DEF Top, Bad
        <5>3. QED
          BY <2>6, <2>9, <5>1, <5>2
      <4>2. \A j \in 1 .. m : j = m \/ f[j] < f[m]
        BY <2>7, <4>1
      <4>3. m <= m
        BY <2>6
      <4>4. QED
        BY <4>2, <4>3
    <3>2. QED
      BY <2>2, <2>6, <3>1
  <2>10. QED
    BY <2>6, <2>8, <2>9
<1>2. n \in 1 .. n
  OBVIOUS
<1>3. QED
  BY <1>1, <1>2

\* The normalised price and speed of a model fall as it gets dearer and slower.
LEMMA Norms ==
  ASSUME NEW m \in ModelMetadata
  PROVE  cost_norm(m) \in Nat /\ latency_norm(m) \in Nat
<1>1. m.cost \in Nat /\ m.latency \in Nat
  BY DEF ModelMetadata
<1>2. \A k \in Nat : k > 0 => 10000 \div k \in Nat /\ 100000 \div k \in Nat
  OBVIOUS
<1>3. QED
  BY <1>1, <1>2 DEF cost_norm, latency_norm, Lesser

LEMMA NormsFall ==
  ASSUME NEW m \in ModelMetadata, NEW n \in ModelMetadata
  PROVE  /\ 0 < m.cost /\ m.cost <= n.cost => cost_norm(n) <= cost_norm(m)
         /\ m.latency <= n.latency => latency_norm(n) <= latency_norm(m)
<1>1. m.cost \in Nat /\ m.latency \in Nat /\ n.cost \in Nat /\ n.latency \in Nat
  BY DEF ModelMetadata
<1>2. ASSUME NEW a \in Nat, NEW x \in Nat \ {0}, NEW y \in Nat \ {0}, x <= y
      PROVE  a \div y <= a \div x /\ a \div x \in Nat /\ a \div y \in Nat
  <2>1. a \div x \in Nat /\ a \div y \in Nat
    OBVIOUS
  <2>2. a \div y <= a \div x
    BY <1>2, SMTT(30)
  <2>3. QED
    BY <2>1, <2>2
<1>3. 0 < m.cost /\ m.cost <= n.cost => cost_norm(n) <= cost_norm(m)
  <2> SUFFICES ASSUME 0 < m.cost, m.cost <= n.cost PROVE cost_norm(n) <= cost_norm(m)
    OBVIOUS
  <2>1. /\ 10000 \div n.cost <= 10000 \div m.cost
        /\ 10000 \div n.cost \in Nat /\ 10000 \div m.cost \in Nat
    <3> DEFINE a == 10000
               x == m.cost
               y == n.cost
    <3>1. a \in Nat /\ x \in Nat \ {0} /\ y \in Nat \ {0} /\ x <= y
      BY <1>1
    <3> HIDE DEF a, x, y
    <3>2. a \div y <= a \div x /\ a \div x \in Nat /\ a \div y \in Nat
      BY <3>1, <1>2, Zenon
    <3>3. QED
      BY <3>2 DEF a, x, y
  <2>2. QED
    BY <1>1, <2>1 DEF cost_norm, Lesser
<1>4. m.latency <= n.latency => latency_norm(n) <= latency_norm(m)
  <2> SUFFICES ASSUME m.latency <= n.latency PROVE latency_norm(n) <= latency_norm(m)
    OBVIOUS
  <2>1. n.latency > 0 => 100000 \div n.latency \in Nat
    BY <1>1, <1>2
  <2>2. m.latency > 0 => /\ 100000 \div n.latency <= 100000 \div m.latency
                         /\ 100000 \div m.latency \in Nat
    <3> SUFFICES ASSUME m.latency > 0
                 PROVE  /\ 100000 \div n.latency <= 100000 \div m.latency
                        /\ 100000 \div m.latency \in Nat
      OBVIOUS
    <3>1. m.latency \in Nat \ {0} /\ n.latency \in Nat \ {0}
      BY <1>1
    <3>2. QED
      BY <1>2, <3>1
  <2>3. QED
    BY <1>1, <2>1, <2>2 DEF latency_norm, Lesser
<1>5. QED
  BY <1>3, <1>4

LEMMA ScoreType ==
  ASSUME NEW m \in ModelMetadata, NEW policy \in RoutingPolicy
  PROVE  score(m, policy) \in Nat
<1>1. m.quality \in Nat /\ cost_norm(m) \in Nat /\ latency_norm(m) \in Nat
  BY Norms DEF ModelMetadata
<1>2. policy.quality \in Nat /\ policy.cost \in Nat /\ policy.latency \in Nat
  BY DEF RoutingPolicy, Weights
<1>3. \A x, y \in Nat : x * y \in Nat
  OBVIOUS
<1>4. QED
  BY <1>1, <1>2, <1>3 DEF score

\* A model that dominates another has the higher score under every policy.
LEMMA DominatesScores ==
  ASSUME NEW m \in ModelMetadata, NEW n \in ModelMetadata, NEW policy \in RoutingPolicy,
         Dominates(m, n)
  PROVE  score(n, policy) < score(m, policy)
<1>1. /\ m.quality \in Nat /\ n.quality \in Nat /\ n.quality < m.quality
      /\ cost_norm(n) <= cost_norm(m) /\ latency_norm(n) <= latency_norm(m)
      /\ cost_norm(n) \in Nat /\ cost_norm(m) \in Nat
      /\ latency_norm(n) \in Nat /\ latency_norm(m) \in Nat
  BY Norms, NormsFall DEF ModelMetadata, Dominates
<1>2. ASSUME NEW q \in Nat \ {0}, NEW c \in Nat, NEW l \in Nat, policy = Weights(q, c, l)
      PROVE  score(n, policy) < score(m, policy)
  <2>1. policy.quality = q /\ policy.cost = c /\ policy.latency = l
    BY <1>2 DEF Weights
  <2> DEFINE qm == m.quality
             qn == n.quality
             cm == cost_norm(m)
             cn == cost_norm(n)
             lm == latency_norm(m)
             ln == latency_norm(n)
  <2>2. /\ qm \in Nat /\ qn \in Nat /\ cm \in Nat /\ cn \in Nat /\ lm \in Nat /\ ln \in Nat
        /\ qn < qm /\ cn <= cm /\ ln <= lm
    BY <1>1
  <2>3. score(n, policy) = qn * q + cn * c + ln * l /\ score(m, policy) = qm * q + cm * c + lm * l
    BY <2>1 DEF score
  <2> HIDE DEF qm, qn, cm, cn, lm, ln
  <2>4. qn * q < qm * q /\ cn * c <= cm * c /\ ln * l <= lm * l
    BY <2>2
  <2>5. /\ qn * q \in Nat /\ qm * q \in Nat /\ cn * c \in Nat /\ cm * c \in Nat
        /\ ln * l \in Nat /\ lm * l \in Nat
    BY <2>2
  <2>6. QED
    BY <2>3, <2>4, <2>5
<1>3. QED
  BY <1>2 DEF RoutingPolicy


\* rank()[0] is one of the models, and none of them dominates it.
LEMMA BestIsUndominated ==
  ASSUME NEW models \in Seq(ModelMetadata), models # << >>, NEW policy \in RoutingPolicy
  PROVE  \E i \in 1 .. Len(models) :
           /\ Best(models, policy) = models[i]
           /\ \A j \in 1 .. Len(models) : ~ Dominates(models[j], models[i])
<1> DEFINE n == Len(models)
           f == [i \in 1 .. n |-> score(models[i], policy)]
           First(i) == \A j \in DOMAIN models :
                         \/ score(models[j], policy) < score(models[i], policy)
                         \/ score(models[j], policy) = score(models[i], policy) /\ i <= j
<1>1. n \in Nat \ {0} /\ DOMAIN models = 1 .. n /\ \A i \in 1 .. n : models[i] \in ModelMetadata
  OBVIOUS
<1>2. \A i \in 1 .. n : score(models[i], policy) \in Nat
  <2> HIDE DEF n
  <2>1. QED
    BY <1>1, ScoreType
<1>3. \E i \in 1 .. n : First(i)
  <2>1. f \in [1 .. n -> Nat]
    BY <1>2
  <2>2. \A i \in 1 .. n : f[i] = score(models[i], policy)
    OBVIOUS
  <2> HIDE DEF f, n
  <2>3. PICK i \in 1 .. n : \A j \in 1 .. n : f[j] < f[i] \/ (f[j] = f[i] /\ i <= j)
    BY <1>1, <2>1, GreatestFirst
  <2>4. First(i)
    BY <1>1, <2>2, <2>3
  <2>5. QED
    BY <2>4
<1> DEFINE best == CHOOSE i \in DOMAIN models : First(i)
<1>4. best \in 1 .. n /\ First(best)
  <2> HIDE DEF First, n
  <2>1. QED
    BY <1>1, <1>3
<1>5. Best(models, policy) = models[best]
  BY DEF Best
<1> HIDE DEF best, n
<1>6. ASSUME NEW j \in 1 .. n PROVE ~ Dominates(models[j], models[best])
  <2>1. \/ score(models[j], policy) < score(models[best], policy)
        \/ score(models[j], policy) = score(models[best], policy)
    BY <1>1, <1>4
  <2>2. score(models[j], policy) \in Nat /\ score(models[best], policy) \in Nat
    BY <1>2, <1>4
  <2>3. ~ (score(models[best], policy) < score(models[j], policy))
    BY <2>1, <2>2
  <2>4. models[j] \in ModelMetadata /\ models[best] \in ModelMetadata
    BY <1>1, <1>4
  <2>5. QED
    BY <2>3, <2>4, DominatesScores
<1>7. QED
  BY <1>4, <1>5, <1>6 DEF n

UsableModels == {m \in {catalog[i] : i \in DOMAIN catalog} : Usable(m)}

\* The available models are the usable ones.
LEMMA AvailableAreUsable ==
  ASSUME catalog \in Seq(ModelMetadata), breakers \in [Roles -> Breaker]
  PROVE  /\ available \in Seq(ModelMetadata)
         /\ {available[i] : i \in 1 .. Len(available)} = UsableModels
         /\ available = << >> <=> UsableModels = {}
<1> DEFINE S == {i \in DOMAIN catalog :
                   catalog[i].is_available /\ ~is_circuit_open(catalog[i].role)}
<1>0. /\ \A i \in DOMAIN catalog : catalog[i] \in ModelMetadata
      /\ DOMAIN catalog = 1 .. Len(catalog) /\ Len(catalog) \in Nat
  OBVIOUS
<1>1. ASSUME NEW m \in ModelMetadata
      PROVE  Usable(m) <=> m.is_available /\ ~is_circuit_open(m.role)
  <2>1. m.role \in Roles
    BY DEF ModelMetadata
  <2>2. breakers[m.role].since_open \in Int
    BY <2>1 DEF Breaker, NotOpened
  <2>3. CooldownElapsed(breakers[m.role]) <=> breakers[m.role].since_open >= Cooldown
    BY <2>2, BreakerAssumption DEF CooldownElapsed, NotOpened
  <2>4. QED
    BY <2>3 DEF Usable, is_circuit_open, is_open
<1>2. UsableModels = {catalog[i] : i \in S}
  BY <1>0, <1>1 DEF UsableModels
<1>3. available = Picked(catalog, S)
  BY DEF available
<1>4. S \subseteq DOMAIN catalog /\ S \subseteq Int
  BY <1>0
<1> HIDE DEF S
<1>5. /\ IsFiniteSet(S) /\ available \in Seq(ModelMetadata)
      /\ Len(available) = Cardinality(S) /\ Cardinality(S) \in Nat
      /\ \A k \in 1 .. Cardinality(S) : Nth(S, k) \in S /\ available[k] = catalog[Nth(S, k)]
      /\ S = {} <=> available = << >>
  BY <1>3, <1>4, PickedElements
<1>6. \A i \in S : \E k \in 1 .. Cardinality(S) : Nth(S, k) = i
  BY <1>4, <1>5, NthOrder
<1>7. {available[k] : k \in 1 .. Len(available)} = {catalog[i] : i \in S}
  <2>1. ASSUME NEW k \in 1 .. Cardinality(S) PROVE \E i \in S : available[k] = catalog[i]
    BY <1>5
  <2>2. ASSUME NEW i \in S PROVE \E k \in 1 .. Cardinality(S) : available[k] = catalog[i]
    BY <1>5, <1>6
  <2>3. {available[k] : k \in 1 .. Cardinality(S)} = {catalog[i] : i \in S}
    <3> DEFINE A == available
    <3> HIDE DEF A
    <3>1. {A[k] : k \in 1 .. Cardinality(S)} = {catalog[i] : i \in S}
      BY <2>1, <2>2 DEF A
    <3>2. QED
      BY <3>1 DEF A
  <2>4. QED
    BY <1>5, <2>3
<1>8. QED
  BY <1>2, <1>5, <1>7

LEMMA Complexities ==
  \A tokens : classify_complexity(tokens) \in {"LOW", "MEDIUM", "HIGH"}
BY DEF classify_complexity

\* What select() picks while something is available: a usable model, the matched one or
\* one that no usable model which is not matched dominates.
LEMMA ChosenWell ==
  ASSUME catalog \in Seq(ModelMetadata), breakers \in [Roles -> Breaker], available # << >>,
         NEW tokens, NEW policy \in RoutingPolicy
  PROVE  LET tier == classify_complexity(tokens)
             pick == chosen(tokens, policy)
             Matched(m) == tier # "MEDIUM" /\ m.role = RoleFor[tier]
         IN  /\ pick \in UsableModels /\ pick \in ModelMetadata
             /\ \/ Matched(pick)
                \/ \A m \in UsableModels : ~ Matched(m) /\ ~ Dominates(m, pick)
<1> DEFINE tier == classify_complexity(tokens)
           role == RoleFor[tier]
           T == {i \in DOMAIN available : available[i].role = role}
           preferred == Serving(role)
           n == Len(available)
<1>1. /\ available \in Seq(ModelMetadata)
      /\ {available[i] : i \in 1 .. n} = UsableModels
  BY AvailableAreUsable
<1>2. n \in Nat /\ DOMAIN available = 1 .. n /\ \A i \in 1 .. n : available[i] \in ModelMetadata
  BY <1>1
<1>3. \A i \in 1 .. n : available[i] \in UsableModels
  BY <1>1
<1>4. \A m \in UsableModels : \E i \in 1 .. n : m = available[i]
  BY <1>1
<1>5. T \subseteq DOMAIN available
  OBVIOUS
<1>6. preferred = Picked(available, T)
  BY DEF Serving
<1>7. chosen(tokens, policy) = IF preferred # << >> /\ tier # "MEDIUM"
                                 THEN Head(preferred) ELSE Best(available, policy)
  BY DEF chosen
<1>8. \A i \in T : i \in 1 .. n /\ available[i].role = role
  BY <1>2
<1>9. \A i \in 1 .. n : available[i].role = role => i \in T
  BY <1>2
<1> HIDE DEF T, preferred, n, tier, role
<1>10. /\ Cardinality(T) \in Nat /\ preferred \in Seq(ModelMetadata)
       /\ Len(preferred) = Cardinality(T)
       /\ \A k \in 1 .. Cardinality(T) : Nth(T, k) \in T /\ preferred[k] = available[Nth(T, k)]
       /\ T = {} <=> preferred = << >>
  BY <1>1, <1>5, <1>6, PickedElements
<1>11. CASE preferred # << >> /\ tier # "MEDIUM"
  <2>1. 1 \in 1 .. Cardinality(T) /\ Head(preferred) = preferred[1]
    BY <1>10, <1>11
  <2>2. Nth(T, 1) \in T /\ Head(preferred) = available[Nth(T, 1)]
    BY <1>10, <2>1
  <2>3. /\ available[Nth(T, 1)] \in UsableModels /\ available[Nth(T, 1)] \in ModelMetadata
        /\ available[Nth(T, 1)].role = role
    BY <1>2, <1>3, <1>8, <2>2
  <2>4. QED
    BY <1>7, <1>11, <2>2, <2>3 DEF tier, role
<1>12. CASE ~ (preferred # << >> /\ tier # "MEDIUM")
  <2>1. PICK i \in 1 .. n :
          /\ Best(available, policy) = available[i]
          /\ \A j \in 1 .. n : ~ Dominates(available[j], available[i])
    BY <1>1, BestIsUndominated DEF n
  <2>2. available[i] \in UsableModels /\ available[i] \in ModelMetadata
    BY <1>2, <1>3
  <2>3. ASSUME NEW m \in UsableModels
        PROVE  ~ (tier # "MEDIUM" /\ m.role = role) /\ ~ Dominates(m, available[i])
    <3>1. PICK j \in 1 .. n : m = available[j]
      BY <1>4
    <3>2. tier # "MEDIUM" => m.role # role
      BY <1>9, <1>10, <1>12, <3>1
    <3>3. QED
      BY <2>1, <3>1, <3>2
  <2>4. chosen(tokens, policy) = available[i]
    BY <1>7, <1>12, <2>1
  <2>5. QED
    BY <2>2, <2>3, <2>4 DEF tier, role
<1>13. QED
  BY <1>11, <1>12


-----------------------------------------------------------------------------
(* The steps, continued                                                    *)

RoutingInv == catalog \in Catalogs /\ RetryInv /\ BreakerInv

LEMMA CatalogType == ASSUME catalog \in Catalogs PROVE catalog \in Seq(ModelMetadata)
BY RoutingAssumption

\* Every step of a request and of the clock keeps the counts right.
LEMMA StepPreserves == RoutingInv /\ [Next]_vars => RoutingInv'
<1> SUFFICES ASSUME RoutingInv, [Next]_vars PROVE RoutingInv'
  OBVIOUS
<1>0. /\ RetryInv /\ BreakerInv /\ catalog \in Seq(ModelMetadata) /\ breakers \in [Roles -> Breaker]
      /\ \A r \in Requests : request[r] \in Job /\ JobOK(request[r])
      /\ \A role \in Roles : BreakerOK(breakers[role])
  BY CatalogType DEF RoutingInv, RetryInv, BreakerInv
<1>1. ASSUME NEW r \in Requests, SelectRaises(r) PROVE RoutingInv'
  <2>1. /\ request' = [request EXCEPT ![r] = Over(Fresh, "raised", "ModelUnavailableError")]
        /\ UNCHANGED <<catalog, breakers>>
    BY <1>1 DEF SelectRaises
  <2>2. Fresh \in Job /\ Fresh.made = 0 /\ Fresh.max_attempts = 0
    BY NoRequest DEF JobOK, Fresh
  <2>3. JobOK(Over(Fresh, "raised", "ModelUnavailableError"))
    BY <2>2, RaisedOK DEF Failures
  <2>4. RetryInv'
    BY <1>0, <2>1, <2>3, OneRequest
  <2>5. QED
    BY <2>1, <2>4 DEF RoutingInv, BreakerInv
<1>2. ASSUME NEW r \in Requests, NEW tokens \in Sizes, NEW policy \in RoutingPolicy,
             NEW n \in Attempts, Select(r, tokens, policy, n)
      PROVE  RoutingInv'
  <2> DEFINE role == chosen(tokens, policy).role
             f == [Fresh EXCEPT !.pc = "attempt"]
             g == [f EXCEPT !.role = role]
             h == [g EXCEPT !.max_attempts = n]
  <2>1. /\ request' = [request EXCEPT ![r] = h] /\ available # << >>
        /\ UNCHANGED <<catalog, breakers>>
    BY <1>2 DEF Select
  <2>2. role \in Roles
    BY <1>0, <2>1, ChosenWell DEF ModelMetadata
  <2> HIDE DEF role
  <2>3. f = Made("attempt", Nowhere, 0, 0, "none", 0, 0)
    BY DEF Fresh, Made
  <2> HIDE DEF f
  <2>4. g = Made("attempt", role, 0, 0, "none", 0, 0)
    BY <2>3 DEF Made
  <2> HIDE DEF g
  <2>5. h = Made("attempt", role, n, 0, "none", 0, 0)
    BY <2>4 DEF Made
  <2> HIDE DEF h
  <2>6. n \in Attempts \union {0} /\ 0 <= n /\ 0 \in 0 .. MaxDelay
    BY RoutingAssumption
  <2>7. JobOK(h)
    BY <2>2, <2>5, <2>6, MadeOK
  <2>8. RetryInv'
    BY <1>0, <2>1, <2>7, OneRequest
  <2>9. QED
    BY <2>1, <2>8 DEF RoutingInv, BreakerInv
<1>3. ASSUME NEW r \in Requests, NoAttempts(r) PROVE RoutingInv'
  <2>1. /\ request[r].pc = "attempt" /\ request[r].attempt = request[r].max_attempts
        /\ request' = [request EXCEPT ![r] = Over(request[r], "raised", "RuntimeError")]
        /\ UNCHANGED <<catalog, breakers>>
    BY <1>3 DEF NoAttempts
  <2>2. request[r] \in Job /\ request[r].made <= request[r].max_attempts
    BY <1>0 DEF JobOK
  <2>3. "RuntimeError" \notin Retryable
    BY RoutingAssumption DEF Failures
  <2>4. JobOK(Over(request[r], "raised", "RuntimeError"))
    BY <2>2, <2>3, RaisedOK
  <2>5. RetryInv'
    BY <1>0, <2>1, <2>4, OneRequest
  <2>6. QED
    BY <2>1, <2>5 DEF RoutingInv, BreakerInv
<1>4. ASSUME NEW r \in Requests, Begin(r) PROVE RoutingInv'
  <2> DEFINE job == request[r]
             f == [job EXCEPT !.pc = "calling"]
             b == maybe_transition_to_half_open(breakers[job.role])
  <2>1. /\ job.pc = "attempt" /\ job.attempt < job.max_attempts
        /\ breakers' = [breakers EXCEPT ![job.role] = b]
        /\ request' = [request EXCEPT ![r] = Tried(f)]
        /\ catalog' = catalog
    BY <1>4 DEF Begin
  <2>2. job \in Job /\ JobOK(job)
    BY <1>0
  <2> HIDE DEF job
  <2>3. job.role \in Roles /\ job.made = job.attempt /\ Hopeful(job)
    BY <2>1, <2>2 DEF JobOK
  <2>4. BreakerInv'
    BY <1>0, <2>1, <2>3, FlipOK, OneBreaker
  <2>5. /\ f \in Job
        /\ f = Made("calling", job.role, job.max_attempts, job.attempt, job.last_exc, job.wait, job.made)
    BY <2>2, JobWithPc
  <2> HIDE DEF f
  <2>6. /\ f.pc = "calling" /\ f.role = job.role /\ f.max_attempts = job.max_attempts
        /\ f.attempt = job.attempt /\ f.last_exc = job.last_exc /\ f.wait = job.wait
        /\ f.made = job.made
    BY <2>5, MadeFields
  <2>7. Tried(f) = Made("calling", job.role, job.max_attempts, job.attempt, job.last_exc,
                        job.wait, job.made + 1)
    BY <2>1, <2>3, <2>5, <2>6, TriedFields
  <2>8. JobOK(Tried(f))
    <3>1. /\ job.max_attempts \in Nat /\ job.attempt \in Nat /\ job.made \in Nat
          /\ job.max_attempts \in Attempts \union {0} /\ job.role \in Roles \union {Nowhere}
          /\ job.last_exc \in Failures \union {"none", "RuntimeError"} /\ job.wait \in 0 .. MaxDelay
      BY <2>2, JobNumbers
    <3>2. job.made + 1 \in Nat /\ job.made + 1 <= job.max_attempts /\ job.made + 1 = job.attempt + 1
      BY <2>1, <2>3, <3>1
    <3>3. job.last_exc \in Retryable \union {"none"}
      BY <2>3 DEF Hopeful
    <3>4. JobOK(Made("calling", job.role, job.max_attempts, job.attempt, job.last_exc,
                     job.wait, job.made + 1))
      BY <3>1, <3>2, <3>3, <2>3, MadeOK
    <3>5. QED
      BY <2>7, <3>4
  <2>9. RetryInv'
    BY <1>0, <2>1, <2>8, OneRequest
  <2>10. QED
    BY <2>1, <2>4, <2>9 DEF RoutingInv
<1>5. ASSUME NEW r \in Requests, Refused(r) PROVE RoutingInv'
  <2> DEFINE job == request[r]
  <2>1. /\ job.pc = "attempt" /\ job.attempt < job.max_attempts
        /\ UNCHANGED <<catalog, breakers>>
    BY <1>5 DEF Refused
  <2>2. PICK next \in after_failure(Tried(job), "CircuitOpenError") :
          request' = [request EXCEPT ![r] = next]
    BY <1>5 DEF Refused
  <2>3. job \in Job /\ JobOK(job)
    BY <1>0
  <2> HIDE DEF job
  <2>4. job.role \in Roles /\ job.made = job.attempt
    BY <2>1, <2>3 DEF JobOK
  <2>5. Tried(job) = Made(job.pc, job.role, job.max_attempts, job.attempt, job.last_exc,
                          job.wait, job.made + 1)
    BY <2>1, <2>3, <2>4, TriedFields
  <2>6. /\ job.max_attempts \in Nat /\ job.attempt \in Nat /\ job.made \in Nat
    BY <2>3, JobNumbers
  <2>7. Tried(job) \in Job
    <3>1. Tried(job) = [job EXCEPT !.made = job.made + 1]
      BY <2>3, <2>5, JobWithMade
    <3>2. job.made + 1 \in Nat
      BY <2>6
    <3>3. QED
      BY <2>3, <3>1, <3>2 DEF Job
  <2>8. /\ Tried(job).role = job.role /\ Tried(job).max_attempts = job.max_attempts
        /\ Tried(job).attempt = job.attempt /\ Tried(job).made = job.made + 1
    BY <2>5, MadeFields
  <2>9. Tried(job).made = Tried(job).attempt + 1 /\ Tried(job).made <= Tried(job).max_attempts
    BY <2>1, <2>4, <2>6, <2>8
  <2>10. JobOK(next)
    BY <2>2, <2>4, <2>7, <2>8, <2>9, AfterFailureOK DEF Failures
  <2>11. RetryInv'
    BY <1>0, <2>2, <2>10, OneRequest
  <2>12. QED
    BY <2>1, <2>11 DEF RoutingInv, BreakerInv
<1>6. ASSUME NEW r \in Requests, Answer(r) PROVE RoutingInv'
  <2> DEFINE job == request[r]
  <2>1. /\ job.pc = "calling"
        /\ breakers' = [breakers EXCEPT ![job.role] = record_success(breakers[job.role])]
        /\ request' = [request EXCEPT ![r] = Over(job, "served", job.last_exc)]
        /\ catalog' = catalog
    BY <1>6 DEF Answer
  <2>2. job \in Job /\ JobOK(job)
    BY <1>0
  <2> HIDE DEF job
  <2>3. job.role \in Roles /\ job.made = job.attempt + 1 /\ Hopeful(job) /\ job.made <= job.max_attempts
    BY <2>1, <2>2 DEF JobOK
  <2>4. BreakerInv'
    BY <1>0, <2>1, <2>3, SuccessOK, OneBreaker
  <2>5. Over(job, "served", job.last_exc)
          = Made("served", Nowhere, job.max_attempts, 0, job.last_exc, 0, job.made)
    BY OverFields
  <2>6. JobOK(Over(job, "served", job.last_exc))
    <3>1. /\ job.attempt \in Nat /\ job.made \in Nat /\ job.max_attempts \in Attempts \union {0}
          /\ job.last_exc \in Failures \union {"none", "RuntimeError"} /\ 0 \in 0 .. MaxDelay
      BY <2>2, JobNumbers, RoutingAssumption
    <3>2. job.made > 0
      BY <2>3, <3>1
    <3>3. job.last_exc \in Retryable \union {"none"}
      BY <2>3 DEF Hopeful
    <3> HIDE DEF job
    <3>4. JobOK(Made("served", Nowhere, job.max_attempts, 0, job.last_exc, 0, job.made))
      <4> DEFINE j == Made("served", Nowhere, job.max_attempts, 0, job.last_exc, 0, job.made)
      <4>1. /\ j.pc = "served" /\ j.max_attempts = job.max_attempts
            /\ j.last_exc = job.last_exc /\ j.made = job.made
        BY MadeFields
      <4>2. j \in Job
        BY <3>1 DEF Made, Job
      <4> HIDE DEF j
      <4>3. JobOK(j)
        BY <2>3, <3>2, <3>3, <4>1, <4>2 DEF JobOK, Hopeful
      <4>4. QED
        BY <4>3 DEF j
    <3>5. QED
      BY <2>5, <3>4
  <2>7. RetryInv'
    BY <1>0, <2>1, <2>6, OneRequest
  <2>8. QED
    BY <2>1, <2>4, <2>7 DEF RoutingInv
<1>7. ASSUME NEW r \in Requests, NEW exc \in Failures, Fail(r, exc) PROVE RoutingInv'
  <2> DEFINE job == request[r]
             b == [record_failure(breakers[job.role]) EXCEPT !.transition_count = 0]
  <2>1. /\ job.pc = "calling" /\ breakers' = [breakers EXCEPT ![job.role] = b]
        /\ catalog' = catalog
    BY <1>7 DEF Fail
  <2>2. PICK next \in after_failure(job, exc) : request' = [request EXCEPT ![r] = next]
    BY <1>7 DEF Fail
  <2>3. job \in Job /\ JobOK(job)
    BY <1>0
  <2> HIDE DEF job
  <2>4. job.role \in Roles /\ job.made = job.attempt + 1 /\ job.made <= job.max_attempts
    BY <2>1, <2>3 DEF JobOK
  <2>5. BreakerOK(b)
    BY <1>0, <2>4, FailureOK
  <2> HIDE DEF b
  <2>6. BreakerInv'
    BY <1>0, <2>1, <2>4, <2>5, OneBreaker
  <2>7. JobOK(next)
    BY <2>2, <2>3, <2>4, AfterFailureOK
  <2>8. RetryInv'
    BY <1>0, <2>2, <2>7, OneRequest
  <2>9. QED
    BY <2>1, <2>6, <2>8 DEF RoutingInv
<1>8. ASSUME NEW r \in Requests, Wake(r) PROVE RoutingInv'
  <2> DEFINE job == request[r]
             next == [job EXCEPT !.pc = "attempt", !.attempt = @ + 1]
  <2>1. job.pc = "sleeping" /\ UNCHANGED <<catalog, breakers>>
    BY <1>8 DEF Wake
  <2>2. job \in Job /\ JobOK(job) /\ request \in [Requests -> Job]
    BY <1>0 DEF RetryInv
  <2>3. request' = [request EXCEPT ![r] = next]
    BY <1>8, <2>2 DEF Wake
  <2> HIDE DEF job
  <2>4. next = Made("attempt", job.role, job.max_attempts, job.attempt + 1, job.last_exc,
                    job.wait, job.made)
    BY <2>2, JobAwake
  <2> HIDE DEF next
  <2>5. /\ job.role \in Roles /\ job.made = job.attempt + 1 /\ Hopeful(job)
        /\ job.made <= job.max_attempts
    BY <2>1, <2>2 DEF JobOK
  <2>6. JobOK(next)
    <3>1. /\ job.attempt + 1 \in Nat /\ job.made \in Nat /\ job.max_attempts \in Attempts \union {0}
          /\ job.last_exc \in Failures \union {"none", "RuntimeError"} /\ job.wait \in 0 .. MaxDelay
      BY <2>2, JobNumbers
    <3>2. job.last_exc \in Retryable \union {"none"}
      BY <2>5 DEF Hopeful
    <3>3. QED
      BY <2>4, <2>5, <3>1, <3>2, MadeOK
  <2>7. RetryInv'
    BY <1>0, <2>3, <2>6, OneRequest
  <2>8. QED
    BY <2>1, <2>7 DEF RoutingInv, BreakerInv
<1>9. CASE Tick
  <2> DEFINE Shorter(w) == IF w > 0 THEN w - 1 ELSE 0
  <2>1. /\ breakers' = [role \in Roles |-> age(breakers[role])]
        /\ request' = [r \in Requests |-> [request[r] EXCEPT !.wait = Shorter(request[r].wait)]]
        /\ catalog' = catalog
    BY <1>9 DEF Tick
  <2>2. BreakerInv'
    BY <1>0, <2>1, AgeOK DEF BreakerInv, BreakerOK
  <2>3. ASSUME NEW r \in Requests PROVE JobOK(request'[r])
    <3> DEFINE job == request[r]
               w == Shorter(job.wait)
    <3>1. job \in Job /\ JobOK(job) /\ request'[r] = [job EXCEPT !.wait = w]
      BY <1>0, <2>1
    <3>2. job.wait \in 0 .. MaxDelay /\ MaxDelay \in Nat
      BY <3>1, JobNumbers, RoutingAssumption
    <3>3. w \in 0 .. MaxDelay
      BY <3>2
    <3> HIDE DEF w, job
    <3>4. request'[r] = Made(job.pc, job.role, job.max_attempts, job.attempt, job.last_exc, w, job.made)
      BY <3>1, JobWithWait
    <3>5. /\ job.attempt \in Nat /\ job.made \in Nat
          /\ job.max_attempts \in Attempts \union {0} /\ job.role \in Roles \union {Nowhere}
          /\ job.last_exc \in Failures \union {"none", "RuntimeError"}
          /\ job.pc \in {"idle", "attempt", "calling", "sleeping", "served", "raised"}
      BY <3>1, JobNumbers
    <3>6. /\ job.pc \in {"attempt", "calling", "sleeping"} => job.role \in Roles
          /\ job.made <= job.max_attempts
          /\ job.pc = "attempt" => job.made = job.attempt
          /\ job.pc = "calling" => job.made = job.attempt + 1
          /\ job.pc = "sleeping" => job.made = job.attempt + 1 /\ job.made < job.max_attempts
          /\ job.pc = "served" => job.made > 0
          /\ job.pc \in {"attempt", "calling", "sleeping", "served"} =>
               job.last_exc \in Retryable \union {"none"}
          /\ job.pc = "raised" /\ job.last_exc \in Retryable => job.made = job.max_attempts
      BY <3>1 DEF JobOK, Hopeful
    <3>7. JobOK(Made(job.pc, job.role, job.max_attempts, job.attempt, job.last_exc, w, job.made))
      <4> DEFINE j == Made(job.pc, job.role, job.max_attempts, job.attempt, job.last_exc, w,
                           job.made)
      <4>1. /\ j.pc = job.pc /\ j.role = job.role /\ j.max_attempts = job.max_attempts
            /\ j.attempt = job.attempt /\ j.last_exc = job.last_exc /\ j.made = job.made
        BY MadeFields
      <4>2. j \in Job
        BY <3>3, <3>5 DEF Made, Job
      <4> HIDE DEF j
      <4>3. JobOK(j)
        BY <3>6, <4>1, <4>2 DEF JobOK, Hopeful
      <4>4. QED
        BY <4>3 DEF j
    <3>8. QED
      BY <3>4, <3>7
  <2>4. RetryInv'
    BY <2>1, <2>3 DEF RetryInv, JobOK
  <2>5. QED
    BY <2>1, <2>2, <2>4 DEF RoutingInv
<1>10. CASE UNCHANGED vars
  BY <1>10 DEF vars, RoutingInv, RetryInv, BreakerInv
<1>11. QED
  BY <1>1, <1>2, <1>3, <1>4, <1>5, <1>6, <1>7, <1>8, <1>9, <1>10 DEF Next, Route, Work

\* The counts of the requests and of the breakers are right in every reachable state.
THEOREM RoutingInvariant == Spec => []RoutingInv
<1>1. Init => RoutingInv
  BY InitEstablishes DEF RoutingInv
<1>2. QED
  BY <1>1, StepPreserves, PTL DEF Spec

\* Every variable keeps its type; no counter of a breaker passes its threshold, and no
\* delay the cap.
THEOREM TypeCorrect == Spec => []TypeOK
<1>1. RoutingInv => TypeOK
  BY DEF RoutingInv, RetryInv, BreakerInv, Job, TypeOK
<1>2. QED
  BY <1>1, RoutingInvariant, PTL

\* with_retry makes at most max_attempts calls, goes on only after failures the caller
\* listed, and gives up on one of those only when the attempts are used up, whatever
\* other requests do to the breaker between the attempts.
THEOREM RetriesFollowPolicy == Spec => []RetriesAsTold
<1>1. RoutingInv => RetriesAsTold
  <2> SUFFICES ASSUME RoutingInv, NEW r \in Requests
               PROVE  LET job == request[r]
                      IN  /\ job.made <= job.max_attempts
                          /\ job.pc \in {"attempt", "sleeping", "calling", "served"} =>
                               job.last_exc \in Retryable \union {"none"}
                          /\ job.pc = "raised" /\ job.last_exc \in Retryable =>
                               job.made = job.max_attempts
                          /\ job.pc = "served" => job.made > 0
    BY DEF RetriesAsTold
  <2>1. JobOK(request[r])
    BY DEF RoutingInv, RetryInv
  <2>2. QED
    BY <2>1 DEF JobOK, Hopeful
<1>2. QED
  BY <1>1, RoutingInvariant, PTL

\* select() refuses a request only if no model is usable, and else picks a usable one: the
\* matched model, or one that no usable model with a price dominates.  This is for every
\* catalog, with unpriced and instant models in it, and every state of the breakers.
THEOREM SelectionIsSound == Spec => []SelectsWell
<1>1. RoutingInv => SelectsWell
  <2> SUFFICES ASSUME RoutingInv PROVE SelectsWell
    OBVIOUS
  <2>1. catalog \in Seq(ModelMetadata) /\ breakers \in [Roles -> Breaker]
    BY CatalogType DEF RoutingInv, BreakerInv
  <2>2. available = << >> <=> UsableModels = {}
    BY <2>1, AvailableAreUsable
  <2>3. CASE available = << >>
    BY <2>2, <2>3 DEF SelectsWell, UsableModels
  <2>4. CASE available # << >>
    <3>1. ASSUME NEW tokens \in Sizes, NEW policy \in RoutingPolicy
          PROVE  LET tier == classify_complexity(tokens)
                     pick == chosen(tokens, policy)
                     Matched(m) == tier # "MEDIUM" /\ m.role = RoleFor[tier]
                 IN  /\ pick \in UsableModels
                     /\ \/ Matched(pick)
                        \/ \A m \in UsableModels : ~ Matched(m) /\ ~ Dominates(m, pick)
      BY <2>1, <2>4, ChosenWell
    <3>2. QED
      BY <2>4, <3>1 DEF SelectsWell, UsableModels
  <2>5. QED
    BY <2>3, <2>4
<1>2. QED
  BY <1>1, RoutingInvariant, PTL
=============================================================================
