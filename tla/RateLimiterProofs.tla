------------------------- MODULE RateLimiterProofs -------------------------
(***************************************************************************)
(* Proofs about RateLimiter, for every capacity, rate and request size.    *)
(*                                                                         *)
(* WindowBound is not inductive: it forgets the tokens left.  The tokens   *)
(* granted in the window and the tokens left together never exceed one     *)
(* full bucket plus the refill credited since the window began.            *)
(***************************************************************************)
EXTENDS RateLimiter, TLAPS

Conservation ==
  IF window.start <= last_refill
    THEN window.granted + tokens <= Capacity + Rate * (last_refill - window.start)
    ELSE window.granted = 0

LimiterInv == TypeOK /\ Conservation

-----------------------------------------------------------------------------

\* Time credited to the bucket never lowers it.
LEMMA RateMonotone ==
  ASSUME NEW d \in Nat, NEW e \in Nat, d <= e
  PROVE  Rate * d \in Nat /\ Rate * d <= Rate * e
  BY LimiterAssumption

\* Refill over two consecutive stretches of time adds up.
LEMMA RateAdds ==
  ASSUME NEW d \in Int, NEW e \in Int
  PROVE  Rate * (d + e) = Rate * d + Rate * e
  BY LimiterAssumption

\* The refilled level is within the capacity and within what time can credit.
LEMMA RefilledBounds ==
  ASSUME TypeOK
  PROVE  /\ refilled \in 0 .. Capacity
         /\ refilled <= tokens + Rate * (now - last_refill)
<1>1. now - last_refill \in Nat
  BY LimiterAssumption DEF TypeOK
<1>2. Rate * (now - last_refill) \in Nat
  BY <1>1, RateMonotone
<1>3. QED
  BY <1>2, LimiterAssumption DEF TypeOK, refilled, Lesser

\* A full bucket and an empty window satisfy the invariant.
LEMMA InitEstablishes == Init => LimiterInv
  BY LimiterAssumption DEF Init, LimiterInv, TypeOK, Conservation

\* Crediting the elapsed time preserves conservation, before anything is deducted.
LEMMA CreditConserves ==
  ASSUME LimiterInv
  PROVE  window.granted + refilled <= Capacity + Rate * (now - window.start)
<1> USE LimiterAssumption DEF LimiterInv, TypeOK
<1>1. refilled \in Nat /\ refilled <= Capacity
      /\ refilled <= tokens + Rate * (now - last_refill)
  BY RefilledBounds
<1>2. CASE window.start <= last_refill
  <2>1. Rate * (now - window.start)
          = Rate * (now - last_refill) + Rate * (last_refill - window.start)
    <3>1. now - window.start = (now - last_refill) + (last_refill - window.start)
      OBVIOUS
    <3>2. QED
      BY <3>1, RateAdds
  <2>2. /\ Rate * (now - last_refill) \in Nat
        /\ Rate * (last_refill - window.start) \in Nat
    BY <1>2, RateMonotone
  <2>3. window.granted + tokens <= Capacity + Rate * (last_refill - window.start)
    BY <1>2 DEF Conservation
  <2>4. QED
    BY <1>1, <2>1, <2>2, <2>3
<1>3. CASE ~(window.start <= last_refill)
  <2>1. window.granted = 0
    BY <1>3 DEF Conservation
  <2>2. Rate * (now - window.start) \in Nat
    BY RateMonotone
  <2>3. QED
    BY <1>1, <2>1, <2>2
<1>4. QED
  BY <1>2, <1>3

\* Ticks, grants, refusals and a new window preserve the invariant.
LEMMA StepPreserves == LimiterInv /\ [Next]_vars => LimiterInv'
<1> SUFFICES ASSUME LimiterInv, [Next]_vars PROVE LimiterInv'
  OBVIOUS
<1> USE LimiterAssumption
<1>0. TypeOK
  BY DEF LimiterInv
<1>1. CASE Tick
  BY <1>1 DEF Tick, LimiterInv, TypeOK, Conservation
<1>2. ASSUME NEW n \in Requests, acquire(n) PROVE LimiterInv'
  <2>1. TypeOK'
    BY <1>0, <1>2, RefilledBounds DEF acquire, TypeOK
  <2>2. window'.granted + tokens' = window.granted + refilled
    BY <1>0, <1>2, RefilledBounds DEF acquire, TypeOK
  <2>3. window'.start = window.start /\ last_refill' = now
    BY <1>0, <1>2 DEF acquire, TypeOK
  <2>4. Conservation'
    BY <1>0, <2>2, <2>3, CreditConserves DEF Conservation, TypeOK
  <2>5. QED
    BY <2>1, <2>4 DEF LimiterInv
<1>3. ASSUME NEW n \in Requests, acquire_refused(n) PROVE LimiterInv'
  <2>1. TypeOK'
    BY <1>0, <1>3, RefilledBounds DEF acquire_refused, TypeOK
  <2>2. Conservation'
    BY <1>0, <1>3, CreditConserves DEF acquire_refused, Conservation, TypeOK
  <2>3. QED
    BY <2>1, <2>2 DEF LimiterInv
<1>4. CASE StartWindow
  <2>1. TypeOK'
    BY <1>0, <1>4 DEF StartWindow, TypeOK
  <2>2. Rate * (now - now) = 0
    BY <1>0 DEF TypeOK
  <2>3. Conservation'
    BY <1>0, <1>4, <2>2 DEF StartWindow, TypeOK, Conservation
  <2>4. QED
    BY <2>1, <2>3 DEF LimiterInv
<1>5. CASE UNCHANGED vars
  BY <1>5 DEF vars, LimiterInv, TypeOK, Conservation
<1>6. QED
  BY <1>1, <1>2, <1>3, <1>4, <1>5 DEF Next

-----------------------------------------------------------------------------

\* Conservation of tokens holds throughout every behaviour of the limiter.
THEOREM LimiterInvariant == Spec => []LimiterInv
  BY InitEstablishes, StepPreserves, PTL DEF Spec

\* The bucket never holds more than its capacity or fewer than zero tokens.
THEOREM TypeCorrect == Spec => []TypeOK
  BY LimiterInvariant, PTL DEF LimiterInv

\* Any stretch of time sees at most one burst plus that time's refill.
THEOREM WindowIsBounded == Spec => []WindowBound
<1>1. LimiterInv => WindowBound
  <2> SUFFICES ASSUME LimiterInv PROVE WindowBound
    OBVIOUS
  <2>1. refilled \in Nat
    BY RefilledBounds, LimiterAssumption DEF LimiterInv
  <2>2. Rate * (now - window.start) \in Nat
    BY RateMonotone DEF LimiterInv, TypeOK
  <2>3. QED
    BY <2>1, <2>2, CreditConserves, LimiterAssumption DEF WindowBound, LimiterInv, TypeOK
<1>2. QED
  BY LimiterInvariant, <1>1, PTL

-----------------------------------------------------------------------------

\* Immediately after a refill the level is what is left in the bucket.
LEMMA FreshLevel ==
  ASSUME TypeOK', last_refill' = now, now' = now
  PROVE  refilled' = tokens'
<1>1. Rate * (now' - last_refill') = 0
  <2>1. now' - last_refill' = 0
    BY LimiterAssumption DEF TypeOK
  <2>2. QED
    BY <2>1, LimiterAssumption
<1>2. refilled' = Lesser(Capacity, tokens' + Rate * (now' - last_refill'))
  BY DEF refilled
<1>3. tokens' \in 0 .. Capacity
  BY DEF TypeOK
<1>4. QED
  BY <1>1, <1>2, <1>3, LimiterAssumption DEF Lesser

\* One more tick credits one more Rate, up to the capacity.
LEMMA TickLevel ==
  ASSUME TypeOK, Tick
  PROVE  refilled' = Lesser(Capacity, refilled + Rate)
<1> USE LimiterAssumption
<1>1. now - last_refill \in Nat
  BY DEF TypeOK
<1>2. Rate * (now - last_refill) \in Nat
  BY <1>1, RateMonotone
<1>3. Rate * ((now + 1) - last_refill) = Rate * (now - last_refill) + Rate
  <2>1. (now + 1) - last_refill = (now - last_refill) + 1
    BY DEF TypeOK
  <2>2. Rate * ((now - last_refill) + 1) = Rate * (now - last_refill) + Rate * 1
    BY <1>1, RateAdds
  <2>3. QED
    BY <2>1, <2>2
<1>4. refilled' = Lesser(Capacity, tokens + Rate * ((now + 1) - last_refill))
  BY DEF Tick, refilled
<1>5. QED
  BY <1>2, <1>3, <1>4 DEF TypeOK, refilled, Lesser

\* The lazily refilled limiter implements the bucket refilled at every tick.
THEOREM LazyIsEager == Spec => ImplementsTokenBucket
<1>1. Init => Eager!Init
  <2> SUFFICES ASSUME Init PROVE Eager!Init
    OBVIOUS
  <2>1. Rate * (0 - 0) = 0
    BY LimiterAssumption
  <2>2. refilled = Capacity
    BY <2>1, LimiterAssumption DEF Init, refilled, Lesser
  <2>3. QED
    BY <2>2 DEF Init, Eager!Init, Granted, Eager!Granted
<1>2. LimiterInv /\ LimiterInv' /\ [Next]_vars => [Eager!Next]_<<refilled, now, outcome>>
  <2> SUFFICES ASSUME LimiterInv, LimiterInv', [Next]_vars
               PROVE  [Eager!Next]_<<refilled, now, outcome>>
    OBVIOUS
  <2>0. TypeOK /\ TypeOK'
    BY DEF LimiterInv
  <2>1. CASE Tick
    <3>1. refilled' = Eager!Lesser(Capacity, refilled + Rate)
      BY <2>0, <2>1, TickLevel DEF Lesser, Eager!Lesser
    <3>2. QED
      BY <2>1, <3>1 DEF Tick, Eager!Next, Eager!Tick
  <2>2. ASSUME NEW n \in Requests, acquire(n) PROVE Eager!Grant(n)
    <3>1. refilled' = tokens'
      BY <2>0, <2>2, FreshLevel DEF acquire
    <3>2. QED
      BY <2>2, <3>1 DEF acquire, Eager!Grant, Granted, Eager!Granted
  <2>3. ASSUME NEW n \in Requests, acquire_refused(n) PROVE Eager!Deny(n)
    <3>1. refilled' = tokens'
      BY <2>0, <2>3, FreshLevel DEF acquire_refused
    <3>2. QED
      BY <2>3, <3>1 DEF acquire_refused, Eager!Deny, Limited, Eager!Limited
  <2>4. CASE StartWindow \/ UNCHANGED vars
    BY <2>4 DEF StartWindow, vars, refilled
  <2>5. QED
    BY <2>1, <2>2, <2>3, <2>4 DEF Next, Eager!Next
<1>3. QED
  BY <1>1, <1>2, LimiterInvariant, PTL DEF Spec, Eager!Spec, ImplementsTokenBucket
=============================================================================
