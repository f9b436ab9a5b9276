---------------------------- MODULE RateLimiter ----------------------------
(***************************************************************************)
(* athenai.resilience.rate_limiter.TokenBucketRateLimiter.  The bucket is  *)
(* refilled on acquire() only, from the time since the last acquire().     *)
(* The body of acquire() runs under one asyncio.Lock and never awaits, so  *)
(* it is one step however many coroutines share the limiter.               *)
(***************************************************************************)
EXTENDS Integers

CONSTANTS
  Capacity,   \* capacity, in token units
  Rate,       \* refill_rate, in token units per clock tick
  Requests,   \* amounts acquire() may be asked for
  MaxTime     \* bound on time.monotonic()

ASSUME LimiterAssumption ==
  /\ Capacity \in Nat
  /\ Rate \in Nat
  /\ Requests \subseteq Nat
  /\ MaxTime \in Nat

VARIABLES
  tokens,        \* _tokens
  last_refill,   \* _last_refill
  now,           \* time.monotonic()
  outcome,       \* how the last acquire() ended
  window         \* history: what was granted since a moment chosen at will

vars == <<tokens, last_refill, now, outcome, window>>

Lesser(a, b) == IF a < b THEN a ELSE b

Granted == "granted"
Limited == "RateLimitError"

TypeOK ==
  /\ tokens \in 0 .. Capacity
  /\ now \in 0 .. MaxTime
  /\ last_refill \in 0 .. now
  /\ outcome \in [asked : Requests \union {0}, result : {Granted, Limited}]
  /\ window \in [start : 0 .. now, granted : Nat]

Init ==
  /\ tokens = Capacity
  /\ last_refill = 0
  /\ now = 0
  /\ outcome = [asked |-> 0, result |-> Granted]
  /\ window = [start |-> 0, granted |-> 0]

Tick ==
  /\ now < MaxTime
  /\ now' = now + 1
  /\ UNCHANGED <<tokens, last_refill, outcome, window>>

-----------------------------------------------------------------------------
(* acquire(n)                                                              *)

\* Mutant: the refill is not capped at the capacity.
uncapped == tokens + Rate * (now - last_refill)

\* _tokens once the time since _last_refill has been credited.
refilled == Lesser(Capacity, tokens + Rate * (now - last_refill))

\* Mutant: _last_refill is not advanced, so the same time is credited again.
acquire_credits_twice(n) ==
  /\ n <= refilled
  /\ tokens' = refilled - n
  /\ outcome' = [asked |-> n, result |-> Granted]
  /\ window' = [window EXCEPT !.granted = @ + n]
  /\ UNCHANGED <<now, last_refill>>

acquire(n) ==
  /\ n <= refilled
  /\ last_refill' = now
  /\ tokens' = refilled - n
  /\ outcome' = [asked |-> n, result |-> Granted]
  /\ window' = [window EXCEPT !.granted = @ + n]
  /\ UNCHANGED now

\* Mutant: a refused request drops the refill it has just computed.
acquire_refused_loses_refill(n) ==
  /\ n > refilled
  /\ last_refill' = now
  /\ outcome' = [asked |-> n, result |-> Limited]
  /\ UNCHANGED <<now, tokens, window>>

\* RateLimitError: the refill is kept, nothing is deducted.
acquire_refused(n) ==
  /\ n > refilled
  /\ last_refill' = now
  /\ tokens' = refilled
  /\ outcome' = [asked |-> n, result |-> Limited]
  /\ UNCHANGED <<now, window>>

\* An observer starts counting now.
StartWindow ==
  /\ window' = [start |-> now, granted |-> 0]
  /\ UNCHANGED <<tokens, last_refill, now, outcome>>

Next ==
  \/ Tick
  \/ \E n \in Requests : acquire(n) \/ acquire_refused(n)
  \/ StartWindow

Spec == Init /\ [][Next]_vars

-----------------------------------------------------------------------------

\* Over any stretch of time, whenever it starts and however acquire() calls and
\* refusals fall in it, the limiter grants at most one full burst plus the refill
\* of that time ("allows bursts up to capacity while enforcing a long-run rate",
\* rate_limiter.py:26).
WindowBound == window.granted <= Capacity + Rate * (now - window.start)

\* acquire()'s lazy refill is indistinguishable from a bucket refilled at every
\* tick: a request is refused exactly when such a bucket could not serve it, and a
\* refused request costs nothing (rate_limiter.py:40-45 and 64).
Eager == INSTANCE TokenBucket WITH level <- refilled
ImplementsTokenBucket == Eager!Spec
=============================================================================
