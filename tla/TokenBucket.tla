---------------------------- MODULE TokenBucket ----------------------------
(***************************************************************************)
(* What a token bucket promises, stated without the implementation's       *)
(* bookkeeping: the level rises by Rate at every tick of the clock, never  *)
(* above Capacity, and a request is granted exactly when the level covers  *)
(* it.  RateLimiter, which has no timer, is shown to implement this.       *)
(*                                                                         *)
(* Tokens are counted in a unit small enough that the refill of one tick   *)
(* is a whole number of units.                                             *)
(***************************************************************************)
EXTENDS Integers

CONSTANTS
  Capacity,   \* capacity: the burst size
  Rate,       \* refill_rate, per clock tick
  Requests,   \* amounts a caller may ask for
  MaxTime     \* bound on the clock

VARIABLES level, now, outcome

Lesser(a, b) == IF a < b THEN a ELSE b

Granted == "granted"
Limited == "RateLimitError"

Init ==
  /\ level = Capacity
  /\ now = 0
  /\ outcome = [asked |-> 0, result |-> Granted]

Tick ==
  /\ now < MaxTime
  /\ now' = now + 1
  /\ level' = Lesser(Capacity, level + Rate)
  /\ UNCHANGED outcome

Grant(n) ==
  /\ n <= level
  /\ level' = level - n
  /\ outcome' = [asked |-> n, result |-> Granted]
  /\ UNCHANGED now

Deny(n) ==
  /\ n > level
  /\ outcome' = [asked |-> n, result |-> Limited]
  /\ UNCHANGED <<level, now>>

Next == Tick \/ \E n \in Requests : Grant(n) \/ Deny(n)

Spec == Init /\ [][Next]_<<level, now, outcome>>
=============================================================================
