--------------------------- MODULE GatewayProofs ----------------------------
(***************************************************************************)
(* Proofs about Gateway, for every set of requests and environments, every *)
(* number of permits and every cap: the semaphore loses no permit and lets *)
(* nobody wait beside a free one, streams are closed, counters are true.   *)
(*                                                                         *)
(* The semaphore's own invariant, SemaphoreInv, is inductive without the   *)
(* rest.  What a client has received at each place of a handler (StageInv) *)
(* closes the streams, and both carry the counters (CountInv).             *)
(***************************************************************************)
EXTENDS Gateway, FiniteSetTheorems, SequenceTheorems, TLAPS

Statuses == {"created", "running", "awaiting_tool", "completed", "failed"}

AgentsOK ==
  /\ status \in [Requests -> Statuses]
  /\ turns \in [Requests -> Nat]
  /\ ended \in [Requests -> {"live", "returned", "raised"}]

Holding == {"model", "sending", "abandoned"}

SemaphoreInv ==
  /\ phase \in [Requests -> Phases]
  /\ free \in 0 .. MaxConcurrent
  /\ waiters \in Seq(Requests)
  /\ PermitsConserved
  /\ NoIdlePermit

-----------------------------------------------------------------------------
(* The semaphore                                                           *)

\* Handlers that hold a permit are finitely many: one leaves or enters at a time.
LEMMA HoldersFinite ==
  ASSUME NEW S \in SUBSET Requests
  PROVE  /\ IsFiniteSet(S)
         /\ Cardinality(S) \in Nat
         /\ \A r \in S : Cardinality(S \ {r}) = Cardinality(S) - 1
         /\ \A r \in Requests \ S : Cardinality(S \union {r}) = Cardinality(S) + 1
<1>1. IsFiniteSet(S)
  BY FS_Subset, GatewayAssumption
<1>2. QED
  BY <1>1, FS_CardinalityType, FS_RemoveElement, FS_AddElement

\* Some of a set of requests are at most all of them.
LEMMA FewerOf ==
  ASSUME NEW T \in SUBSET Requests, NEW S, S \subseteq T
  PROVE  Cardinality(S) \in Nat /\ Cardinality(T) \in Nat /\ Cardinality(S) <= Cardinality(T)
<1>1. IsFiniteSet(T) /\ Cardinality(T) \in Nat
  BY HoldersFinite
<1>2. IsFiniteSet(S) /\ Cardinality(S) <= Cardinality(T)
  BY <1>1, FS_Subset
<1>3. QED
  BY <1>1, <1>2, FS_CardinalityType

\* Nothing changes for the semaphore when a handler moves between phases in which it
\* holds a permit, or between phases in which it neither holds nor waits for one.
LEMMA MoveKeepsSemaphore ==
  ASSUME SemaphoreInv, NEW r \in Requests, NEW p \in Phases \ {"waiting"},
         phase[r] # "waiting", p \in Holding <=> phase[r] \in Holding,
         phase' = [phase EXCEPT ![r] = p], UNCHANGED semaphoreVars
  PROVE  SemaphoreInv'
<1>1. phase' \in [Requests -> Phases]
  BY DEF SemaphoreInv
<1>2. Holders' = Holders
  BY DEF SemaphoreInv, Holders, Holding
<1>3. {q \in Requests : phase'[q] = "waiting"} = {q \in Requests : phase[q] = "waiting"}
  BY DEF SemaphoreInv
<1>4. QED
  BY <1>1, <1>2, <1>3 DEF SemaphoreInv, PermitsConserved, NoIdlePermit, semaphoreVars

\* A handler that enters takes a free permit or joins the end of the queue.
LEMMA EnterKeepsSemaphore ==
  ASSUME SemaphoreInv, NEW r \in Requests, NEW e, Enter(r, e)
  PROVE  SemaphoreInv'
<1> USE DEF SemaphoreInv
<1>0. phase[r] = Absent /\ r \notin Holders /\ "waiting" # Absent
  BY DEF Enter, Absent, Holders
<1>1. CASE Permitted
  <2>1. phase' = [phase EXCEPT ![r] = "model"] /\ free' = free - 1 /\ waiters' = waiters
    BY <1>1 DEF Enter
  <2>2. phase' \in [Requests -> Phases] /\ Holders' = Holders \union {r}
    BY <2>1 DEF Holders, Phases
  <2>3. free' \in 0 .. MaxConcurrent
    BY <2>1, <1>1, GatewayAssumption DEF Permitted
  <2>4. Cardinality(Holders') = Cardinality(Holders) + 1
    BY <2>2, <1>0, HoldersFinite DEF Holders
  <2>5. PermitsConserved'
    BY <2>1, <2>4, HoldersFinite DEF PermitsConserved, Holders
  <2>6. {q \in Requests : phase'[q] = "waiting"} = {q \in Requests : phase[q] = "waiting"}
    BY <2>1, <1>0
  <2>7. QED
    BY <2>1, <2>2, <2>3, <2>5, <2>6, <1>1 DEF NoIdlePermit, Permitted
<1>2. CASE ~Permitted
  <2>1. phase' = [phase EXCEPT ![r] = "waiting"] /\ free' = free /\ waiters' = Append(waiters, r)
    BY <1>2 DEF Enter
  <2>2. phase' \in [Requests -> Phases] /\ Holders' = Holders
    BY <2>1, <1>0 DEF Holders, Phases, Absent
  <2>3. free' = 0
    BY <2>1, <1>2 DEF NoIdlePermit, Permitted
  <2>4. PermitsConserved'
    BY <2>1, <2>2 DEF PermitsConserved
  <2>5. /\ waiters' \in Seq(Requests)
        /\ Len(waiters') = Len(waiters) + 1
        /\ \A i \in 1 .. Len(waiters) : waiters'[i] = waiters[i]
        /\ waiters'[Len(waiters) + 1] = r
    BY <2>1
  <2>6. \A i \in 1 .. Len(waiters) : waiters[i] # r
    BY <1>0 DEF NoIdlePermit
  <2>7. {waiters'[i] : i \in 1 .. Len(waiters')} = {q \in Requests : phase'[q] = "waiting"}
    <3>1. {q \in Requests : phase'[q] = "waiting"}
            = {q \in Requests : phase[q] = "waiting"} \union {r}
      BY <2>1
    <3>2. {waiters'[i] : i \in 1 .. Len(waiters')} = {waiters[i] : i \in 1 .. Len(waiters)} \union {r}
      BY <2>5
    <3>3. QED
      BY <3>1, <3>2 DEF NoIdlePermit
  <2>8. \A i, j \in 1 .. Len(waiters') : waiters'[i] = waiters'[j] => i = j
    BY <2>5, <2>6 DEF NoIdlePermit
  <2>9. NoIdlePermit'
    BY <2>3, <2>7, <2>8 DEF NoIdlePermit
  <2>10. QED
    BY <2>2, <2>3, <2>4, <2>5, <2>9, GatewayAssumption
<1>3. QED
  BY <1>1, <1>2

\* Leaving `async with` frees the permit or hands it to the oldest waiter.
LEMMA ReleaseKeepsSemaphore ==
  ASSUME SemaphoreInv, NEW r \in Requests, phase[r] \in Holding,
         NEW p \in Phases \ (Holding \union {"waiting"}), Release(r, p)
  PROVE  SemaphoreInv'
<1> USE DEF SemaphoreInv
<1>0. r \in Holders
  BY DEF Holders, Holding
<1>1. CASE waiters = << >>
  <2>1. phase' = [phase EXCEPT ![r] = p] /\ free' = free + 1 /\ waiters' = waiters
    BY <1>1 DEF Release
  <2>2. phase' \in [Requests -> Phases] /\ Holders' = Holders \ {r}
    BY <2>1 DEF Holders, Holding
  <2>3. Cardinality(Holders') = Cardinality(Holders) - 1 /\ Cardinality(Holders') \in Nat
    BY <2>2, <1>0, HoldersFinite DEF Holders
  <2>4. PermitsConserved' /\ free' \in 0 .. MaxConcurrent
    BY <2>1, <2>3, HoldersFinite, GatewayAssumption DEF PermitsConserved, Holders
  <2>5. {q \in Requests : phase'[q] = "waiting"} = {q \in Requests : phase[q] = "waiting"}
    BY <2>1 DEF Holding
  <2>6. QED
    BY <2>1, <2>2, <2>4, <2>5, <1>1 DEF NoIdlePermit
<1>2. CASE waiters # << >>
  <2> DEFINE next == Head(waiters)
  <2>1. /\ waiters' = Tail(waiters)
        /\ phase' = [phase EXCEPT ![r] = p, ![next] = "model"]
        /\ free' = free
    BY <1>2 DEF Release
  <2>2. /\ next = waiters[1] /\ next \in Requests /\ phase[next] = "waiting"
        /\ next # r /\ next \notin Holders
    BY <1>2 DEF NoIdlePermit, Holding, Holders
  <2>3. phase' \in [Requests -> Phases] /\ Holders' = (Holders \ {r}) \union {next}
    BY <2>1, <2>2 DEF Holders, Phases, Holding
  <2>4. Cardinality(Holders') = Cardinality(Holders)
    <3>1. Holders \ {r} \in SUBSET Requests /\ next \notin Holders \ {r}
      BY <2>2 DEF Holders
    <3>2. Cardinality(Holders \ {r}) = Cardinality(Holders) - 1
      BY <1>0, HoldersFinite DEF Holders
    <3>3. Cardinality((Holders \ {r}) \union {next}) = Cardinality(Holders \ {r}) + 1
      BY <2>2, <3>1, HoldersFinite
    <3>4. Cardinality(Holders) \in Nat
      BY HoldersFinite DEF Holders
    <3>5. QED
      BY <2>3, <3>2, <3>3, <3>4
  <2>5. PermitsConserved'
    BY <2>1, <2>4 DEF PermitsConserved
  <2>6. /\ waiters' \in Seq(Requests)
        /\ Len(waiters') = Len(waiters) - 1
        /\ \A i \in 1 .. Len(waiters') : waiters'[i] = waiters[i + 1]
    BY <2>1, <1>2
  <2>7. {waiters'[i] : i \in 1 .. Len(waiters')} = {q \in Requests : phase'[q] = "waiting"}
    <3>1. {q \in Requests : phase'[q] = "waiting"}
            = {q \in Requests : phase[q] = "waiting"} \ {next}
      BY <2>1, <2>2 DEF Holding
    <3>2. {waiters'[i] : i \in 1 .. Len(waiters')} = {waiters[i] : i \in 2 .. Len(waiters)}
      <4>1. \A i \in 1 .. Len(waiters') : i + 1 \in 2 .. Len(waiters)
        BY <2>6
      <4>2. \A j \in 2 .. Len(waiters) : j - 1 \in 1 .. Len(waiters') /\ (j - 1) + 1 = j
        BY <2>6
      <4>3. \A q \in {waiters'[i] : i \in 1 .. Len(waiters')} :
              q \in {waiters[i] : i \in 2 .. Len(waiters)}
        BY <2>6, <4>1
      <4>4. \A q \in {waiters[i] : i \in 2 .. Len(waiters)} :
              q \in {waiters'[i] : i \in 1 .. Len(waiters')}
        <5> SUFFICES ASSUME NEW j \in 2 .. Len(waiters)
                     PROVE  \E i \in 1 .. Len(waiters') : waiters'[i] = waiters[j]
          OBVIOUS
        <5>1. j - 1 \in 1 .. Len(waiters') /\ waiters'[j - 1] = waiters[j]
          BY <2>6, <4>2
        <5>2. QED
          BY <5>1
      <4>5. QED
        BY <4>3, <4>4
    <3>3. {waiters[i] : i \in 2 .. Len(waiters)}
            = {waiters[i] : i \in 1 .. Len(waiters)} \ {next}
      BY <2>2, <1>2 DEF NoIdlePermit
    <3>4. QED
      BY <3>1, <3>2, <3>3 DEF NoIdlePermit
  <2>8. \A i, j \in 1 .. Len(waiters') : waiters'[i] = waiters'[j] => i = j
    BY <2>6 DEF NoIdlePermit
  <2>9. free' > 0 => waiters' = << >>
    BY <2>1, <1>2 DEF NoIdlePermit
  <2>10. QED
    BY <2>1, <2>3, <2>5, <2>6, <2>7, <2>8, <2>9 DEF NoIdlePermit
<1>3. QED
  BY <1>1, <1>2

\* A cancelled waiter leaves the queue, whatever its place in it, and nobody else does.
LEMMA LeaveKeepsSemaphore ==
  ASSUME SemaphoreInv, NEW r \in Requests, phase[r] = "waiting",
         NEW k \in DOMAIN waiters, waiters[k] = r, waiters' = RemoveAt(waiters, k),
         phase' = [phase EXCEPT ![r] = "over"], UNCHANGED free
  PROVE  SemaphoreInv'
<1> USE DEF SemaphoreInv
<1>0. k \in 1 .. Len(waiters) /\ Len(waiters) \in Nat
  OBVIOUS
<1>1. phase' \in [Requests -> Phases] /\ Holders' = Holders
  BY DEF Holders, Phases
<1>2. /\ waiters' \in Seq(Requests)
      /\ Len(waiters') = Len(waiters) - 1
      /\ \A i \in 1 .. Len(waiters') :
           waiters'[i] = IF i < k THEN waiters[i] ELSE waiters[i + 1]
  <2> DEFINE before == SubSeq(waiters, 1, k - 1)
             after == SubSeq(waiters, k + 1, Len(waiters))
  <2>1. /\ before \in Seq(Requests) /\ Len(before) = k - 1
        /\ \A i \in 1 .. k - 1 : before[i] = waiters[i]
    BY <1>0
  <2>2. /\ after \in Seq(Requests) /\ Len(after) = Len(waiters) - k
        /\ \A i \in 1 .. Len(waiters) - k : after[i] = waiters[k + i]
    BY <1>0
  <2>3. waiters' = before \o after
    BY DEF RemoveAt
  <2> HIDE DEF before, after
  <2>4. /\ waiters' \in Seq(Requests)
        /\ Len(waiters') = Len(waiters) - 1
        /\ \A i \in 1 .. Len(waiters') :
             waiters'[i] = IF i <= k - 1 THEN before[i] ELSE after[i - (k - 1)]
    <3>1. /\ waiters' \in Seq(Requests)
          /\ Len(waiters') = Len(before) + Len(after)
          /\ \A i \in 1 .. Len(before) + Len(after) :
               waiters'[i] = IF i <= Len(before) THEN before[i] ELSE after[i - Len(before)]
      <4> DEFINE joined == before \o after
      <4>1. /\ joined \in Seq(Requests)
            /\ Len(joined) = Len(before) + Len(after)
            /\ \A i \in 1 .. Len(before) + Len(after) :
                 joined[i] = IF i <= Len(before) THEN before[i] ELSE after[i - Len(before)]
        <5>1. before \in Seq(Requests) /\ after \in Seq(Requests)
          BY <2>1, <2>2
        <5>2. QED
          BY <5>1, ConcatProperties, ZenonT(30)
      <4>2. waiters' = joined
        BY <2>3
      <4> HIDE DEF joined
      <4>3. QED
        BY <4>1, <4>2
    <3>2. Len(before) + Len(after) = Len(waiters) - 1
      BY <1>0, <2>1, <2>2
    <3>3. QED
      BY <2>1, <3>1, <3>2
  <2>5. ASSUME NEW i \in 1 .. Len(waiters')
        PROVE  waiters'[i] = IF i < k THEN waiters[i] ELSE waiters[i + 1]
    <3>1. CASE i < k
      <4>1. i \in 1 .. k - 1
        BY <3>1, <1>0
      <4>2. QED
        BY <4>1, <3>1, <2>1, <2>4, <1>0
    <3>2. CASE ~ (i < k)
      <4>1. i - (k - 1) \in 1 .. Len(waiters) - k /\ k + (i - (k - 1)) = i + 1 /\ ~ (i <= k - 1)
        BY <3>2, <1>0, <2>4
      <4>2. QED
        BY <4>1, <3>2, <2>2, <2>4
    <3>3. QED
      BY <3>1, <3>2
  <2>6. QED
    BY <2>4, <2>5
<1>3. {waiters'[i] : i \in 1 .. Len(waiters')} = {q \in Requests : phase'[q] = "waiting"}
  <2>1. {q \in Requests : phase'[q] = "waiting"}
          = {q \in Requests : phase[q] = "waiting"} \ {r}
    OBVIOUS
  <2>2. \A i \in 1 .. Len(waiters') : waiters'[i] \in {waiters[j] : j \in 1 .. Len(waiters)} \ {r}
    BY <1>0, <1>2 DEF NoIdlePermit
  <2>3. \A j \in 1 .. Len(waiters) :
          waiters[j] # r => \E i \in 1 .. Len(waiters') : waiters'[i] = waiters[j]
    <3> SUFFICES ASSUME NEW j \in 1 .. Len(waiters), waiters[j] # r
                 PROVE  \E i \in 1 .. Len(waiters') : waiters'[i] = waiters[j]
      OBVIOUS
    <3>1. CASE j < k
      BY <3>1, <1>0, <1>2
    <3>2. CASE j > k
      <4>1. j - 1 \in 1 .. Len(waiters') /\ ~ (j - 1 < k) /\ (j - 1) + 1 = j
        BY <3>2, <1>0, <1>2
      <4>2. QED
        BY <4>1, <1>2
    <3>3. QED
      BY <3>1, <3>2, <1>0
  <2>4. {waiters'[i] : i \in 1 .. Len(waiters')} = {waiters[j] : j \in 1 .. Len(waiters)} \ {r}
    BY <2>2, <2>3
  <2>5. QED
    BY <2>1, <2>4 DEF NoIdlePermit
<1>4. \A i, j \in 1 .. Len(waiters') : waiters'[i] = waiters'[j] => i = j
  <2> SUFFICES ASSUME NEW i \in 1 .. Len(waiters'), NEW j \in 1 .. Len(waiters'),
                      waiters'[i] = waiters'[j]
               PROVE  i = j
    OBVIOUS
  <2> DEFINE was(i0) == IF i0 < k THEN i0 ELSE i0 + 1
  <2>1. was(i) \in 1 .. Len(waiters) /\ was(j) \in 1 .. Len(waiters)
    BY <1>0, <1>2
  <2>2. waiters'[i] = waiters[was(i)] /\ waiters'[j] = waiters[was(j)]
    BY <1>2
  <2>3. was(i) = was(j)
    <3> HIDE DEF was
    <3>1. QED
      BY <2>1, <2>2 DEF NoIdlePermit
  <2>4. QED
    BY <1>0, <2>3
<1>5. free' > 0 => waiters' = << >>
  BY <1>0 DEF NoIdlePermit
<1>6. QED
  BY <1>1, <1>2, <1>3, <1>4, <1>5 DEF PermitsConserved, NoIdlePermit

\* Whatever a handler or a client does, the semaphore's invariant stays.
LEMMA StepKeepsSemaphore == SemaphoreInv /\ [Next]_vars => SemaphoreInv'
<1> SUFFICES ASSUME SemaphoreInv, [Next]_vars PROVE SemaphoreInv'
  OBVIOUS
<1> USE DEF Holding, Phases, Absent
<1>1. ASSUME NEW r \in Requests, Arrive(r) PROVE SemaphoreInv'
  <2>1. ASSUME NEW e, Enter(r, e) PROVE SemaphoreInv'
    BY <2>1, EnterKeepsSemaphore
  <2>2. ASSUME NEW e, EnterBadRole(r, e) PROVE SemaphoreInv'
    BY <2>2, MoveKeepsSemaphore DEF EnterBadRole
  <2>3. CASE EnterAgent(r)
    BY <2>3, MoveKeepsSemaphore DEF EnterAgent
  <2>4. ASSUME NEW e, NEW answer, AnswerAtOnce(r, e, answer) PROVE SemaphoreInv'
    BY <2>4, MoveKeepsSemaphore DEF AnswerAtOnce
  <2>5. QED
    BY <1>1, <2>1, <2>2, <2>3, <2>4 DEF Arrive, EnterIngest, EnterReady
<1>2. ASSUME NEW r \in Requests, Handle(r) PROVE SemaphoreInv'
  <2>1. CASE ChatAnswers(r)
    BY <2>1, ReleaseKeepsSemaphore DEF ChatAnswers
  <2>2. CASE ChatFails(r)
    BY <2>2, ReleaseKeepsSemaphore DEF ChatFails
  <2>3. CASE StreamToken(r)
    BY <2>3, MoveKeepsSemaphore DEF StreamToken
  <2>4. CASE StreamSent(r)
    BY <2>4, MoveKeepsSemaphore DEF StreamSent
  <2>5. CASE StreamEnds(r)
    BY <2>5, ReleaseKeepsSemaphore DEF StreamEnds
  <2>6. CASE StreamFails(r)
    BY <2>6, ReleaseKeepsSemaphore DEF StreamFails
  <2>7. CASE StreamErrorSent(r)
    BY <2>7, MoveKeepsSemaphore DEF StreamErrorSent
  <2>8. CASE StreamDoneSent(r)
    BY <2>8, MoveKeepsSemaphore DEF StreamDoneSent
  <2>9. CASE Finalize(r)
    BY <2>9, ReleaseKeepsSemaphore DEF Finalize
  <2>10. CASE AgentWorks(r)
    BY <2>10 DEF AgentWorks, requestVars, semaphoreVars, SemaphoreInv, PermitsConserved,
                 Holders, NoIdlePermit
  <2>11. CASE AgentReturns(r)
    BY <2>11, MoveKeepsSemaphore DEF AgentReturns
  <2>12. CASE AgentRaises(r)
    BY <2>12, MoveKeepsSemaphore DEF AgentRaises
  <2>13. QED
    BY <1>2, <2>1, <2>2, <2>3, <2>4, <2>5, <2>6, <2>7, <2>8, <2>9, <2>10, <2>11, <2>12
    DEF Handle
<1>3. ASSUME NEW r \in Requests, HangUp(r) PROVE SemaphoreInv'
  <2>1. CASE phase[r] = "waiting"
    BY <1>3, <2>1, LeaveKeepsSemaphore DEF HangUp
  <2>2. CASE phase[r] = "model"
    BY <1>3, <2>2, ReleaseKeepsSemaphore DEF HangUp
  <2>3. CASE phase[r] = "sending"
    BY <1>3, <2>3, MoveKeepsSemaphore DEF HangUp
  <2>4. CASE phase[r] \in {"error", "closing"}
    BY <1>3, <2>4, MoveKeepsSemaphore DEF HangUp
  <2>5. QED
    BY <1>3, <2>1, <2>2, <2>3, <2>4 DEF HangUp
<1>4. CASE Quiet \/ UNCHANGED vars
  <2>1. phase' = phase /\ free' = free /\ waiters' = waiters
    BY <1>4 DEF Quiet, vars, requestVars, semaphoreVars
  <2>2. QED
    BY <2>1 DEF SemaphoreInv, PermitsConserved, Holders, NoIdlePermit
<1>5. QED
  BY <1>1, <1>2, <1>3, <1>4 DEF Next

\* Every permit is free and nobody waits at startup.
LEMMA InitSemaphore == Init => SemaphoreInv
<1> SUFFICES ASSUME Init PROVE SemaphoreInv
  OBVIOUS
<1>1. Holders = {} /\ {r \in Requests : phase[r] = "waiting"} = {}
  BY DEF Init, Holders, Absent
<1>2. Cardinality(Holders) = 0
  BY <1>1, FS_EmptySet
<1>3. waiters = << >> /\ free = MaxConcurrent /\ phase \in [Requests -> Phases]
  BY DEF Init, Phases
<1>4. QED
  BY <1>1, <1>2, <1>3, GatewayAssumption DEF SemaphoreInv, PermitsConserved, NoIdlePermit

LEMMA SemaphoreInvariant == Spec => []SemaphoreInv
  BY InitSemaphore, StepKeepsSemaphore, PTL DEF Spec

\* AthenaRuntime.execute() and stream() return every permit they take, on every way out.
THEOREM PermitsAreConserved == Spec => []PermitsConserved
  BY SemaphoreInvariant, PTL DEF SemaphoreInv

\* A handler waits only while all permits are taken, and has one place in the queue.
THEOREM NobodyWaitsBesideAPermit == Spec => []NoIdlePermit
  BY SemaphoreInvariant, PTL DEF SemaphoreInv

-----------------------------------------------------------------------------
(* Types                                                                   *)

GatewayInv == TypeOK /\ AgentsOK

LEMMA InitTypes == Init => GatewayInv
  BY GatewayAssumption
  DEF Init, GatewayInv, TypeOK, AgentsOK, Statuses, Phases, Endpoints, Counted,
      Run!LifecycleInit, Run!CREATED, Run!Live

\* Counting keeps the counters naturals.
LEMMA CountType ==
  ASSUME requests_total \in [Counted -> [{"success", "error"} -> Nat]],
         NEW e \in Counted, NEW s \in {"success", "error"}, Count(e, s)
  PROVE  /\ requests_total' \in [Counted -> [{"success", "error"} -> Nat]]
         /\ requests_total'[e][s] = requests_total[e][s] + 1
         /\ \A f \in Counted, t \in {"success", "error"} :
              <<f, t>> # <<e, s>> => requests_total'[f][t] = requests_total[f][t]
<1> DEFINE row == [requests_total[e] EXCEPT ![s] = @ + 1]
<1>1. requests_total' = [requests_total EXCEPT ![e] = row]
  BY DEF Count
<1>2. row \in [{"success", "error"} -> Nat] /\ row[s] = requests_total[e][s] + 1
      /\ \A t \in {"success", "error"} : t # s => row[t] = requests_total[e][t]
  OBVIOUS
<1> HIDE DEF row
<1>3. QED
  BY <1>1, <1>2

\* An agent run keeps its types; what it has consumed can only grow by one.
LEMMA AgentTypes ==
  ASSUME AgentsOK, NEW r \in Requests,
         \/ Run!Begin(r) \/ Run!UseTools(r) \/ Run!ToolsDone(r)
         \/ Run!Answer(r) \/ Run!GiveUp(r) \/ Run!Abort(r)
  PROVE  AgentsOK'
  BY DEF AgentsOK, Statuses, Run!Begin, Run!UseTools, Run!ToolsDone, Run!Answer, Run!GiveUp,
         Run!Abort, Run!MoveTo, Run!RUNNING, Run!AWAITING_TOOL, Run!COMPLETED, Run!FAILED,
         Run!Returned, Run!Raised

LEMMA ReceiveType ==
  ASSUME wire \in [Requests -> SUBSET Wire], NEW r \in Requests, NEW w \in Wire, Receive(r, w)
  PROVE  wire' \in [Requests -> SUBSET Wire]
  BY DEF Receive

\* A token within the bound, and a sum of counts.
LEMMA OneMore == ASSUME NEW n \in Nat, NEW t \in 0 .. n, t < n PROVE t + 1 \in 0 .. n
  OBVIOUS

LEMMA SumType == ASSUME NEW m \in Nat, NEW n \in Nat PROVE m + n \in Nat
  OBVIOUS

LEMMA StepKeepsTypes == GatewayInv /\ SemaphoreInv' /\ [Next]_vars => GatewayInv'
<1> SUFFICES ASSUME GatewayInv, SemaphoreInv', [Next]_vars PROVE GatewayInv'
  OBVIOUS
<1>0. phase' \in [Requests -> Phases] /\ free' \in 0 .. MaxConcurrent /\ waiters' \in Seq(Requests)
  BY DEF SemaphoreInv
<1> USE <1>0 DEF GatewayInv, TypeOK, counterVars, agentVars, requestVars, semaphoreVars
<1>1. ASSUME NEW r \in Requests, Arrive(r) PROVE GatewayInv'
  <2>1. ASSUME NEW e \in {"chat", "stream"}, Enter(r, e) PROVE GatewayInv'
    <3>1. wire' \in [Requests -> SUBSET Wire]
      <4>1. CASE e = "stream"
        BY <2>1, <4>1, ReceiveType DEF Enter, Wire
      <4>2. CASE e # "stream"
        BY <2>1, <4>2 DEF Enter
      <4>3. QED
        BY <4>1, <4>2
    <3>2. QED
      BY <2>1, <3>1 DEF Enter, Endpoints, AgentsOK
  <2>2. ASSUME NEW e \in Endpoints, NEW answer \in Wire, AnswerAtOnce(r, e, answer)
        PROVE  GatewayInv'
    BY <2>2, ReceiveType DEF AnswerAtOnce, AgentsOK
  <2>3. ASSUME NEW e \in {"chat", "stream"}, EnterBadRole(r, e) PROVE GatewayInv'
    BY <2>2, <2>3 DEF EnterBadRole, AnswerAtOnce, Endpoints, Wire
  <2>4. CASE EnterAgent(r)
    BY <2>4, AgentTypes DEF EnterAgent, Endpoints
  <2>5. CASE EnterIngest(r)
    BY <2>2, <2>5 DEF EnterIngest, document_ingest, Wire, Endpoints
  <2>6. CASE EnterReady(r)
    BY <2>2, <2>6 DEF EnterReady, ready, Wire, Endpoints
  <2>7. QED
    BY <1>1, <2>1, <2>3, <2>4, <2>5, <2>6 DEF Arrive
<1>2. ASSUME NEW r \in Requests, Handle(r) PROVE GatewayInv'
  <2> USE DEF Wire, Counted
  <2>1. CASE ChatAnswers(r)
    BY <2>1, ReceiveType, CountType DEF ChatAnswers, AgentsOK
  <2>2. CASE ChatFails(r)
    BY <2>2, ReceiveType, CountType DEF ChatFails, AgentsOK
  <2>3. CASE StreamToken(r)
    <3>0. tokens[r] \in 0 .. MaxTokens /\ tokens[r] < MaxTokens
          /\ tokens' = [tokens EXCEPT ![r] = tokens[r] + 1]
      BY <2>3 DEF StreamToken
    <3>1. tokens[r] + 1 \in 0 .. MaxTokens
      BY <3>0, OneMore, GatewayAssumption, Zenon
    <3>2. tokens' \in [Requests -> 0 .. MaxTokens]
      BY <3>0, <3>1
    <3>3. QED
      BY <2>3, <3>2 DEF StreamToken, AgentsOK
  <2>4. CASE StreamSent(r)
    BY <2>4, ReceiveType DEF StreamSent, AgentsOK
  <2>5. CASE StreamEnds(r)
    BY <2>5, CountType DEF StreamEnds, AgentsOK
  <2>6. CASE StreamFails(r)
    BY <2>6, CountType DEF StreamFails, AgentsOK
  <2>7. CASE StreamErrorSent(r)
    BY <2>7, ReceiveType DEF StreamErrorSent, AgentsOK
  <2>8. CASE StreamDoneSent(r)
    BY <2>8, ReceiveType DEF StreamDoneSent, AgentsOK
  <2>9. CASE Finalize(r)
    BY <2>9 DEF Finalize, AgentsOK
  <2>10. CASE AgentWorks(r)
    BY <2>10, AgentTypes DEF AgentWorks
  <2>11. CASE AgentReturns(r)
    <3>1. AgentsOK'
      BY <2>11, AgentTypes DEF AgentReturns
    <3>2. turns'[r] \in Nat
      BY <3>1 DEF AgentsOK
    <3>3. agent_iterations_total' = agent_iterations_total + turns'[r]
      BY <2>11 DEF AgentReturns
    <3>4. agent_iterations_total \in Nat
      OBVIOUS
    <3>5. agent_iterations_total' \in Nat
      BY <3>2, <3>3, <3>4, SumType, Zenon
    <3>6. QED
      BY <2>11, <3>1, <3>5, ReceiveType, CountType DEF AgentReturns
  <2>12. CASE AgentRaises(r)
    BY <2>12, AgentTypes, ReceiveType, CountType DEF AgentRaises
  <2>13. QED
    BY <1>2, <2>1, <2>2, <2>3, <2>4, <2>5, <2>6, <2>7, <2>8, <2>9, <2>10, <2>11, <2>12
    DEF Handle
<1>3. ASSUME NEW r \in Requests, HangUp(r) PROVE GatewayInv'
  BY <1>3 DEF HangUp, AgentsOK
<1>4. CASE Quiet \/ UNCHANGED vars
  BY <1>4 DEF Quiet, vars, AgentsOK
<1>5. QED
  BY <1>1, <1>2, <1>3, <1>4 DEF Next

\* The variables of the gateway keep their types.
THEOREM TypeCorrect == Spec => []TypeOK
<1>1. Spec => []GatewayInv
  BY SemaphoreInvariant, InitTypes, StepKeepsTypes, PTL DEF Spec
<1>2. QED
  BY <1>1, PTL DEF GatewayInv

-----------------------------------------------------------------------------
(* What a client has received at each place of its handler                 *)

\* A client of a stream has the status line and nothing else but these.
Opened(received, others) == "200" \in received /\ received \subseteq {"200"} \union others

Stage(r) ==
  /\ phase[r] = Absent => wire[r] = {} /\ endpoint[r] = Absent
  /\ phase[r] \in {"waiting", "model"} =>
       \/ endpoint[r] = "chat" /\ wire[r] = {}
       \/ endpoint[r] = "stream" /\ Opened(wire[r], {"token"})
  /\ phase[r] \in {"sending", "abandoned", "error"} =>
       endpoint[r] = "stream" /\ Opened(wire[r], {"token"})
  /\ phase[r] = "abandoned" => r \in gone
  /\ phase[r] = "closing" => endpoint[r] = "stream" /\ Opened(wire[r], {"token", "[ERROR]"})
  /\ phase[r] = "agent" => endpoint[r] = "agent" /\ wire[r] = {}
  /\ phase[r] = "over" => endpoint[r] # Absent
  /\ phase[r] = "over" /\ endpoint[r] = "stream" /\ r \notin gone /\ "200" \in wire[r] =>
       "[DONE]" \in wire[r]
  /\ "[DONE]" \in wire[r] => endpoint[r] = "stream" /\ phase[r] = "over"

StageInv == \A r \in Requests : Stage(r)

\* A step of one request leaves the others as they are, except that it may hand one of
\* them a permit.
OthersStay(r) ==
  \A q \in Requests \ {r} :
    /\ endpoint'[q] = endpoint[q]
    /\ wire'[q] = wire[q]
    /\ q \in gone' <=> q \in gone
    /\ phase'[q] = phase[q] \/ (phase[q] = "waiting" /\ phase'[q] = "model")

\* The same of Release: r itself goes where it is told to.
Moved(r, p) ==
  /\ phase'[r] = p
  /\ \A q \in Requests \ {r} :
       phase'[q] = phase[q] \/ (phase[q] = "waiting" /\ phase'[q] = "model")

LEMMA ReleaseEffect ==
  ASSUME SemaphoreInv, NEW r \in Requests, phase[r] \in Holding, NEW p, Release(r, p)
  PROVE  Moved(r, p)
<1> USE DEF Moved
<1>1. CASE waiters = << >>
  BY <1>1 DEF Release, SemaphoreInv
<1>2. CASE waiters # << >>
  <2>1. waiters[1] = Head(waiters) /\ 1 \in 1 .. Len(waiters)
    BY <1>2 DEF SemaphoreInv
  <2>2. Head(waiters) \in {q \in Requests : phase[q] = "waiting"}
    BY <2>1 DEF SemaphoreInv, NoIdlePermit
  <2>3. Head(waiters) # r
    BY <2>2 DEF Holding
  <2>4. phase' = [phase EXCEPT ![r] = p, ![Head(waiters)] = "model"]
    BY <1>2 DEF Release
  <2>5. QED
    BY <2>2, <2>3, <2>4 DEF SemaphoreInv
<1>3. QED
  BY <1>1, <1>2

\* So it is enough to look at the request that moves.
LEMMA OthersKeepStage ==
  ASSUME StageInv, NEW r \in Requests, OthersStay(r), Stage(r)'
  PROVE  StageInv'
<1> SUFFICES ASSUME NEW q \in Requests \ {r} PROVE Stage(q)'
  BY DEF StageInv
<1>1. CASE phase'[q] = phase[q]
  BY <1>1 DEF StageInv, OthersStay, Stage, Absent
<1>2. CASE phase[q] = "waiting" /\ phase'[q] = "model"
  BY <1>2 DEF StageInv, OthersStay, Stage, Absent
<1>3. QED
  BY <1>1, <1>2 DEF OthersStay

\* The status line of a stream goes out before anything else.
LEMMA OpenedByEnter ==
  ASSUME GatewayInv, NEW r \in Requests, NEW e \in {"chat", "stream"}, Enter(r, e), wire[r] = {}
  PROVE  /\ e = "stream" => Opened(wire'[r], {"token"}) /\ "[DONE]" \notin wire'[r]
         /\ e = "chat" => wire'[r] = {}
         /\ \A q \in Requests \ {r} : wire'[q] = wire[q]
<1>1. wire \in [Requests -> SUBSET Wire]
  BY DEF GatewayInv, TypeOK
<1>2. CASE e = "stream"
  <2>1. wire' = [wire EXCEPT ![r] = wire[r] \union {"200"}]
    BY <1>2 DEF Enter, Receive
  <2>2. wire'[r] = wire[r] \union {"200"} /\ \A q \in Requests \ {r} : wire'[q] = wire[q]
    BY <1>1, <2>1
  <2>3. "200" \in wire'[r] /\ \A w \in wire'[r] : w = "200"
    BY <2>2
  <2>4. QED
    BY <1>2, <2>2, <2>3 DEF Opened
<1>3. CASE e = "chat"
  BY <1>3 DEF Enter
<1>4. QED
  BY <1>2, <1>3

LEMMA ArriveKeepsStage ==
  ASSUME StageInv, GatewayInv, NEW r \in Requests, Arrive(r)
  PROVE  OthersStay(r) /\ Stage(r)'
<1> USE DEF StageInv, Stage, Opened, OthersStay, GatewayInv, TypeOK, Absent
<1>1. ASSUME NEW e \in {"chat", "stream"}, Enter(r, e) PROVE OthersStay(r) /\ Stage(r)'
  <2>1. /\ phase[r] = Absent /\ wire[r] = {}
        /\ endpoint' = [endpoint EXCEPT ![r] = e] /\ gone' = gone
        /\ \E p \in {"model", "waiting"} : phase' = [phase EXCEPT ![r] = p]
    BY <1>1 DEF Enter
  <2>2. /\ e = "stream" => Opened(wire'[r], {"token"}) /\ "[DONE]" \notin wire'[r]
        /\ e = "chat" => wire'[r] = {}
        /\ \A q \in Requests \ {r} : wire'[q] = wire[q]
    BY <1>1, <2>1, OpenedByEnter
  <2> HIDE DEF Opened
  <2>3. QED
    BY <2>1, <2>2
<1>2. ASSUME NEW e \in {"chat", "stream"}, EnterBadRole(r, e) PROVE OthersStay(r) /\ Stage(r)'
  BY <1>2 DEF EnterBadRole, Receive
<1>3. CASE EnterAgent(r)
  BY <1>3 DEF EnterAgent
<1>4. ASSUME NEW e \in {"ingest", "ready"}, NEW answer \in Wire \ {"[DONE]"},
             AnswerAtOnce(r, e, answer)
      PROVE  OthersStay(r) /\ Stage(r)'
  BY <1>4 DEF AnswerAtOnce, Receive
<1>5. CASE EnterIngest(r)
  BY <1>4, <1>5 DEF EnterIngest, document_ingest, Wire
<1>6. CASE EnterReady(r)
  BY <1>4, <1>6 DEF EnterReady, ready, Wire
<1>7. QED
  BY <1>1, <1>2, <1>3, <1>5, <1>6 DEF Arrive

LEMMA HandleKeepsStage ==
  ASSUME StageInv, GatewayInv, SemaphoreInv, NEW r \in Requests, Handle(r)
  PROVE  OthersStay(r) /\ Stage(r)'
<1> USE DEF StageInv, Stage, Opened, OthersStay, Absent
<1>0. wire \in [Requests -> SUBSET Wire] /\ phase \in [Requests -> Phases]
  BY DEF GatewayInv, TypeOK
<1>1. CASE ChatAnswers(r)
  <2>1. phase[r] \in Holding /\ Release(r, "over")
    BY <1>1 DEF ChatAnswers, Holding
  <2>2. Moved(r, "over")
    BY <2>1, ReleaseEffect
  <2>3. QED
    BY <1>0, <1>1, <2>2 DEF ChatAnswers, Moved, Receive
<1>2. CASE ChatFails(r)
  <2>1. phase[r] \in Holding /\ Release(r, "over")
    BY <1>2 DEF ChatFails, Holding
  <2>2. Moved(r, "over")
    BY <2>1, ReleaseEffect
  <2>3. QED
    BY <1>0, <1>2, <2>2 DEF ChatFails, Moved, Receive
<1>3. CASE StreamToken(r)
  BY <1>0, <1>3 DEF StreamToken, semaphoreVars
<1>4. CASE StreamSent(r)
  BY <1>0, <1>4 DEF StreamSent, Receive
<1>5. CASE StreamEnds(r)
  <2>1. phase[r] \in Holding /\ Release(r, "closing")
    BY <1>5 DEF StreamEnds, Holding
  <2>2. Moved(r, "closing")
    BY <2>1, ReleaseEffect
  <2>3. QED
    BY <1>0, <1>5, <2>2 DEF StreamEnds, Moved
<1>6. CASE StreamFails(r)
  <2>1. phase[r] \in Holding /\ Release(r, "error")
    BY <1>6 DEF StreamFails, Holding
  <2>2. Moved(r, "error")
    BY <2>1, ReleaseEffect
  <2>3. QED
    BY <1>0, <1>6, <2>2 DEF StreamFails, Moved
<1>7. CASE StreamErrorSent(r)
  BY <1>0, <1>7 DEF StreamErrorSent, Receive
<1>8. CASE StreamDoneSent(r)
  BY <1>0, <1>8 DEF StreamDoneSent, Receive
<1>9. CASE Finalize(r)
  <2>1. phase[r] \in Holding /\ Release(r, "over")
    BY <1>9 DEF Finalize, Holding
  <2>2. Moved(r, "over")
    BY <2>1, ReleaseEffect
  <2>3. QED
    BY <1>0, <1>9, <2>2 DEF Finalize, Moved
<1>10. CASE AgentWorks(r)
  BY <1>0, <1>10 DEF AgentWorks, requestVars
<1>11. CASE AgentReturns(r)
  BY <1>0, <1>11 DEF AgentReturns, Receive
<1>12. CASE AgentRaises(r)
  BY <1>0, <1>12 DEF AgentRaises, Receive
<1>13. QED
  BY <1>1, <1>2, <1>3, <1>4, <1>5, <1>6, <1>7, <1>8, <1>9, <1>10, <1>11, <1>12 DEF Handle

LEMMA HangUpKeepsStage ==
  ASSUME StageInv, GatewayInv, SemaphoreInv, NEW r \in Requests, HangUp(r)
  PROVE  OthersStay(r) /\ Stage(r)'
<1> USE DEF StageInv, Stage, Opened, OthersStay, Absent
<1>0. phase \in [Requests -> Phases]
  BY DEF GatewayInv, TypeOK
<1>1. CASE phase[r] = "model"
  <2>1. phase[r] \in Holding /\ Release(r, "over")
    BY <1>1 DEF HangUp, Holding
  <2>2. Moved(r, "over")
    BY <2>1, ReleaseEffect
  <2>3. QED
    BY <1>0, <1>1, <2>2 DEF HangUp, Moved
<1>2. CASE phase[r] # "model"
  BY <1>0, <1>2 DEF HangUp
<1>3. QED
  BY <1>1, <1>2

LEMMA StepKeepsStage ==
  StageInv /\ GatewayInv /\ SemaphoreInv /\ [Next]_vars => StageInv'
<1> SUFFICES ASSUME StageInv, GatewayInv, SemaphoreInv, [Next]_vars PROVE StageInv'
  OBVIOUS
<1>1. ASSUME NEW r \in Requests, Arrive(r) \/ Handle(r) \/ HangUp(r) PROVE StageInv'
  BY <1>1, ArriveKeepsStage, HandleKeepsStage, HangUpKeepsStage, OthersKeepStage
<1>2. CASE Quiet \/ UNCHANGED vars
  BY <1>2 DEF Quiet, vars, requestVars, StageInv, Stage
<1>3. QED
  BY <1>1, <1>2 DEF Next

LEMMA StageInvariant == Spec => [](StageInv /\ GatewayInv /\ SemaphoreInv)
<1>1. Init => StageInv
  BY DEF Init, StageInv, Stage, Absent
<1>2. QED
  BY <1>1, InitTypes, InitSemaphore, StepKeepsTypes, StepKeepsSemaphore, StepKeepsStage, PTL
  DEF Spec

\* /v1/chat/stream closes every stream whose client stayed, after an error too.
THEOREM StreamsAreClosed == Spec => []StreamsEndWithDone
<1>1. StageInv => StreamsEndWithDone
  BY DEF StageInv, Stage, StreamsEndWithDone
<1>2. QED
  BY <1>1, StageInvariant, PTL

-----------------------------------------------------------------------------
(* The counters and what clients have received                             *)

SeenBy(q, e, w) == endpoint[q] = e /\ w \in wire[q]

\* A stream that has failed and whose client has been, or is being, told.
Fails(q) == endpoint[q] = "stream" /\ ("[ERROR]" \in wire[q] \/ phase[q] = "error")

\* A stream closed, or being closed, without an error.
Succeeds(q) == /\ endpoint[q] = "stream"
               /\ "[DONE]" \in wire[q] \/ phase[q] = "closing"
               /\ "[ERROR]" \notin wire[q]

\* A stream past its model call.
Finishes(q) == /\ endpoint[q] = "stream"
               /\ phase[q] \in {"error", "closing", "over"}
               /\ "200" \in wire[q]

Seen(e, w) == {q \in Requests : SeenBy(q, e, w)}
Failing == {q \in Requests : Fails(q)}
Succeeding == {q \in Requests : Succeeds(q)}
Finished == {q \in Requests : Finishes(q)}

CodeOf == [success |-> "200", error |-> "500"]

CountInv ==
  /\ \A e \in {"chat", "agent"}, s \in {"success", "error"} :
       requests_total[e][s] = Cardinality(Seen(e, CodeOf[s]))
  /\ requests_total["stream"]["error"] >= Cardinality(Failing)
  /\ requests_total["stream"]["success"] >= Cardinality(Succeeding)
  /\ requests_total["stream"]["success"] + requests_total["stream"]["error"]
       <= Cardinality(Finished)

\* A set of requests from which, or to which, at most r moves.
LEMMA OneMoves ==
  ASSUME NEW S \in SUBSET Requests, NEW T \in SUBSET Requests, NEW r \in Requests,
         \A q \in Requests \ {r} : q \in S <=> q \in T
  PROVE  /\ Cardinality(S) \in Nat /\ Cardinality(T) \in Nat
         /\ (r \in S <=> r \in T) => Cardinality(T) = Cardinality(S)
         /\ r \notin S /\ r \in T => Cardinality(T) = Cardinality(S) + 1
         /\ r \in S /\ r \notin T => Cardinality(T) = Cardinality(S) - 1
<1>1. (r \in S <=> r \in T) => T = S
  OBVIOUS
<1>2. r \notin S /\ r \in T => T = S \union {r}
  OBVIOUS
<1>3. r \in S /\ r \notin T => T = S \ {r}
  OBVIOUS
<1>4. QED
  BY <1>1, <1>2, <1>3, HoldersFinite

\* How the numbers of requests in each set follow the request r that moves.
LEMMA SetsFollow ==
  ASSUME NEW r \in Requests, OthersStay(r)
  PROVE  /\ \A e, w : /\ Cardinality(Seen(e, w)) \in Nat
                      /\ Cardinality(Seen(e, w))' \in Nat
                      /\ (SeenBy(r, e, w) <=> SeenBy(r, e, w)') =>
                           Cardinality(Seen(e, w))' = Cardinality(Seen(e, w))
                      /\ ~ SeenBy(r, e, w) /\ SeenBy(r, e, w)' =>
                           Cardinality(Seen(e, w))' = Cardinality(Seen(e, w)) + 1
         /\ Cardinality(Failing) \in Nat /\ Cardinality(Failing)' \in Nat
         /\ (Fails(r)' => Fails(r)) => Cardinality(Failing)' <= Cardinality(Failing)
         /\ Cardinality(Failing)' <= Cardinality(Failing) + 1
         /\ Cardinality(Succeeding) \in Nat /\ Cardinality(Succeeding)' \in Nat
         /\ (Succeeds(r)' => Succeeds(r)) => Cardinality(Succeeding)' <= Cardinality(Succeeding)
         /\ Cardinality(Succeeding)' <= Cardinality(Succeeding) + 1
         /\ Cardinality(Finished) \in Nat /\ Cardinality(Finished)' \in Nat
         /\ (Finishes(r) => Finishes(r)') => Cardinality(Finished)' >= Cardinality(Finished)
         /\ ~ Finishes(r) /\ Finishes(r)' => Cardinality(Finished)' = Cardinality(Finished) + 1
<1>1. ASSUME NEW e, NEW w
      PROVE  /\ Cardinality(Seen(e, w)) \in Nat
             /\ Cardinality(Seen(e, w))' \in Nat
             /\ (SeenBy(r, e, w) <=> SeenBy(r, e, w)') =>
                  Cardinality(Seen(e, w))' = Cardinality(Seen(e, w))
             /\ ~ SeenBy(r, e, w) /\ SeenBy(r, e, w)' =>
                  Cardinality(Seen(e, w))' = Cardinality(Seen(e, w)) + 1
  <2>1. Seen(e, w) \in SUBSET Requests /\ Seen(e, w)' \in SUBSET Requests
        /\ (r \in Seen(e, w) <=> SeenBy(r, e, w)) /\ (r \in Seen(e, w)' <=> SeenBy(r, e, w)')
    BY DEF Seen
  <2>2. \A q \in Requests \ {r} : q \in Seen(e, w) <=> q \in Seen(e, w)'
    BY DEF Seen, SeenBy, OthersStay
  <2>3. QED
    BY <2>1, <2>2, OneMoves
<1>2. /\ Cardinality(Failing) \in Nat /\ Cardinality(Failing)' \in Nat
      /\ (Fails(r)' => Fails(r)) => Cardinality(Failing)' <= Cardinality(Failing)
      /\ Cardinality(Failing)' <= Cardinality(Failing) + 1
  <2>1. Failing \in SUBSET Requests /\ Failing' \in SUBSET Requests
        /\ (r \in Failing <=> Fails(r)) /\ (r \in Failing' <=> Fails(r)')
    BY DEF Failing
  <2>2. \A q \in Requests \ {r} : q \in Failing <=> q \in Failing'
    BY DEF Failing, Fails, OthersStay
  <2>3. QED
    BY <2>1, <2>2, OneMoves
<1>3. /\ Cardinality(Succeeding) \in Nat /\ Cardinality(Succeeding)' \in Nat
      /\ (Succeeds(r)' => Succeeds(r)) => Cardinality(Succeeding)' <= Cardinality(Succeeding)
      /\ Cardinality(Succeeding)' <= Cardinality(Succeeding) + 1
  <2>1. Succeeding \in SUBSET Requests /\ Succeeding' \in SUBSET Requests
        /\ (r \in Succeeding <=> Succeeds(r)) /\ (r \in Succeeding' <=> Succeeds(r)')
    BY DEF Succeeding
  <2>2. \A q \in Requests \ {r} : q \in Succeeding <=> q \in Succeeding'
    BY DEF Succeeding, Succeeds, OthersStay
  <2>3. QED
    BY <2>1, <2>2, OneMoves
<1>4. /\ Cardinality(Finished) \in Nat /\ Cardinality(Finished)' \in Nat
      /\ (Finishes(r) => Finishes(r)') => Cardinality(Finished)' >= Cardinality(Finished)
      /\ ~ Finishes(r) /\ Finishes(r)' => Cardinality(Finished)' = Cardinality(Finished) + 1
  <2>1. Finished \in SUBSET Requests /\ Finished' \in SUBSET Requests
        /\ (r \in Finished <=> Finishes(r)) /\ (r \in Finished' <=> Finishes(r)')
    BY DEF Finished
  <2>2. \A q \in Requests \ {r} : q \in Finished <=> q \in Finished'
    BY DEF Finished, Finishes, OthersStay
  <2>3. QED
    BY <2>1, <2>2, OneMoves
<1>5. QED
  BY <1>1, <1>2, <1>3, <1>4

\* A step of r that counts nothing shows nothing countable.
LEMMA UncountedStep ==
  ASSUME CountInv, GatewayInv, NEW r \in Requests, OthersStay(r),
         UNCHANGED requests_total,
         \A e \in {"chat", "agent"}, w \in {"200", "500"} : SeenBy(r, e, w) <=> SeenBy(r, e, w)',
         Fails(r)' => Fails(r), Succeeds(r)' => Succeeds(r), Finishes(r) => Finishes(r)'
  PROVE  CountInv'
<1>1. \A s \in {"success", "error"} : CodeOf[s] \in {"200", "500"}
  BY DEF CodeOf
<1>2. ASSUME NEW e \in {"chat", "agent"}, NEW s \in {"success", "error"}
      PROVE  requests_total'[e][s] = Cardinality(Seen(e, CodeOf[s]))'
  <2>1. Cardinality(Seen(e, CodeOf[s]))' = Cardinality(Seen(e, CodeOf[s]))
    BY <1>1, SetsFollow
  <2>2. QED
    BY <2>1 DEF CountInv
<1>3. /\ requests_total["stream"]["error"] \in Nat
      /\ requests_total["stream"]["success"] \in Nat
  BY DEF GatewayInv, TypeOK, Counted
<1>4. /\ requests_total["stream"]["error"] >= Cardinality(Failing)'
      /\ requests_total["stream"]["success"] >= Cardinality(Succeeding)'
      /\ requests_total["stream"]["success"] + requests_total["stream"]["error"]
           <= Cardinality(Finished)'
  BY <1>3, SetsFollow DEF CountInv
<1>5. QED
  BY <1>2, <1>4 DEF CountInv

\* A chat or agent handler that answers counts what it answers.
LEMMA CountedAnswer ==
  ASSUME CountInv, GatewayInv, NEW r \in Requests, OthersStay(r),
         NEW e \in {"chat", "agent"}, NEW s \in {"success", "error"}, Count(e, s),
         endpoint[r] = e, endpoint'[r] = e, wire[r] = {}, wire'[r] = {CodeOf[s]}
  PROVE  CountInv'
<1>1. CodeOf["success"] = "200" /\ CodeOf["error"] = "500"
  BY DEF CodeOf
<1>2. ASSUME NEW f \in {"chat", "agent"}, NEW t \in {"success", "error"}
      PROVE  requests_total'[f][t] = Cardinality(Seen(f, CodeOf[t]))'
  <2>1. CASE f = e /\ t = s
    <3>1. ~ SeenBy(r, f, CodeOf[t]) /\ SeenBy(r, f, CodeOf[t])'
      BY <2>1 DEF SeenBy
    <3>2. requests_total'[f][t] = requests_total[f][t] + 1
      BY <2>1, CountType DEF GatewayInv, TypeOK, Counted
    <3>3. QED
      BY <3>1, <3>2, SetsFollow DEF CountInv
  <2>2. CASE ~ (f = e /\ t = s)
    <3>1. SeenBy(r, f, CodeOf[t]) <=> SeenBy(r, f, CodeOf[t])'
      BY <2>2, <1>1 DEF SeenBy
    <3>2. requests_total'[f][t] = requests_total[f][t]
      BY <2>2, CountType DEF GatewayInv, TypeOK, Counted
    <3>3. QED
      BY <3>1, <3>2, SetsFollow DEF CountInv
  <2>3. QED
    BY <2>1, <2>2
<1>3. /\ requests_total'["stream"]["error"] = requests_total["stream"]["error"]
      /\ requests_total'["stream"]["success"] = requests_total["stream"]["success"]
      /\ requests_total["stream"]["error"] \in Nat
      /\ requests_total["stream"]["success"] \in Nat
  BY CountType DEF GatewayInv, TypeOK, Counted
<1>4. ~ Fails(r)' /\ ~ Succeeds(r)' /\ ~ Finishes(r)
  BY DEF Fails, Succeeds, Finishes
<1>5. /\ requests_total'["stream"]["error"] >= Cardinality(Failing)'
      /\ requests_total'["stream"]["success"] >= Cardinality(Succeeding)'
      /\ requests_total'["stream"]["success"] + requests_total'["stream"]["error"]
           <= Cardinality(Finished)'
  BY <1>3, <1>4, SetsFollow DEF CountInv
<1>6. QED
  BY <1>2, <1>5 DEF CountInv

\* A stream counts its end when it leaves the model, before it closes.
LEMMA CountedStream ==
  ASSUME CountInv, GatewayInv, NEW r \in Requests, OthersStay(r),
         NEW s \in {"success", "error"}, Count("stream", s),
         endpoint[r] = "stream", endpoint'[r] = "stream",
         ~ Finishes(r), Finishes(r)',
         s = "error" => (Succeeds(r)' => Succeeds(r)),
         s = "success" => (Fails(r)' => Fails(r))
  PROVE  CountInv'
<1>1. ASSUME NEW f \in {"chat", "agent"}, NEW t \in {"success", "error"}
      PROVE  requests_total'[f][t] = Cardinality(Seen(f, CodeOf[t]))'
  <2>1. SeenBy(r, f, CodeOf[t]) <=> SeenBy(r, f, CodeOf[t])'
    BY DEF SeenBy
  <2>2. requests_total'[f][t] = requests_total[f][t]
    BY CountType DEF GatewayInv, TypeOK, Counted
  <2>3. QED
    BY <2>1, <2>2, SetsFollow DEF CountInv
<1>2. /\ requests_total'["stream"][s] = requests_total["stream"][s] + 1
      /\ \A t \in {"success", "error"} \ {s} :
           requests_total'["stream"][t] = requests_total["stream"][t]
      /\ requests_total["stream"]["error"] \in Nat
      /\ requests_total["stream"]["success"] \in Nat
  BY CountType DEF GatewayInv, TypeOK, Counted
<1>3. /\ requests_total'["stream"]["error"] >= Cardinality(Failing)'
      /\ requests_total'["stream"]["success"] >= Cardinality(Succeeding)'
      /\ requests_total'["stream"]["success"] + requests_total'["stream"]["error"]
           <= Cardinality(Finished)'
  <2>1. CASE s = "error"
    BY <2>1, <1>2, SetsFollow DEF CountInv
  <2>2. CASE s = "success"
    BY <2>2, <1>2, SetsFollow DEF CountInv
  <2>3. QED
    BY <2>1, <2>2
<1>4. QED
  BY <1>1, <1>3 DEF CountInv

LEMMA StepKeepsCounts ==
  CountInv /\ StageInv /\ GatewayInv /\ SemaphoreInv /\ [Next]_vars => CountInv'
<1> SUFFICES ASSUME CountInv, StageInv, GatewayInv, SemaphoreInv, [Next]_vars PROVE CountInv'
  OBVIOUS
<1>0. /\ wire \in [Requests -> SUBSET Wire] /\ phase \in [Requests -> Phases]
      /\ endpoint \in [Requests -> Endpoints \union {Absent}]
  BY DEF GatewayInv, TypeOK
<1>1. ASSUME NEW r \in Requests, Arrive(r) PROVE CountInv'
  <2>0. OthersStay(r)
    BY <1>1, ArriveKeepsStage
  <2>1. UNCHANGED requests_total
    BY <1>1 DEF Arrive, Enter, EnterBadRole, EnterAgent, EnterIngest, EnterReady, AnswerAtOnce,
                counterVars
  <2>2. /\ endpoint[r] = Absent /\ wire[r] = {} /\ phase[r] = Absent
        /\ endpoint'[r] \in {"chat", "agent"} => wire'[r] \subseteq {"bare 500"}
        /\ endpoint'[r] = "stream" => /\ wire'[r] \subseteq {"200", "bare 500"}
                                      /\ phase'[r] = "over" => wire'[r] \subseteq {"bare 500"}
        /\ phase'[r] \notin {"error", "closing"}
    <3>1. endpoint[r] = Absent /\ wire[r] = {} /\ phase[r] = Absent
      BY <1>1 DEF Arrive, Enter, EnterBadRole, EnterAgent, EnterIngest, EnterReady, AnswerAtOnce,
                  StageInv, Stage, Absent
    <3> USE <1>0, <3>1
    <3>2. CASE \E e \in {"chat", "stream"} : Enter(r, e)
      <4>1. PICK e \in {"chat", "stream"} : Enter(r, e)
        BY <3>2
      <4>2. endpoint'[r] = e /\ phase'[r] \in {"model", "waiting"}
        BY <4>1 DEF Enter
      <4>3. e = "chat" => wire'[r] = {}
        BY <4>1, OpenedByEnter
      <4>4. e = "stream" => wire'[r] \subseteq {"200"}
        BY <4>1 DEF Enter, Receive
      <4>5. QED
        BY <4>2, <4>3, <4>4
    <3>3. CASE \E e \in {"chat", "stream"} : EnterBadRole(r, e)
      <4>1. phase'[r] = "over" /\ wire' = [wire EXCEPT ![r] = wire[r] \union {"bare 500"}]
        BY <3>3 DEF EnterBadRole, Receive
      <4>2. wire'[r] = wire[r] \union {"bare 500"}
        BY <4>1
      <4>3. wire'[r] \subseteq {"bare 500"}
        BY <4>2
      <4>4. QED
        BY <4>1, <4>3
    <3>4. CASE EnterAgent(r)
      BY <3>4 DEF EnterAgent
    <3>5. CASE EnterIngest(r) \/ EnterReady(r)
      BY <3>5 DEF EnterIngest, EnterReady, AnswerAtOnce, Receive
    <3>6. QED
      BY <1>1, <3>2, <3>3, <3>4, <3>5 DEF Arrive
  <2>3. QED
    BY <2>0, <2>1, <2>2, UncountedStep DEF SeenBy, Fails, Succeeds, Finishes, Absent
<1>2. ASSUME NEW r \in Requests, Handle(r) PROVE CountInv'
  <2>0. OthersStay(r)
    BY <1>2, HandleKeepsStage
  <2> USE <1>0 DEF StageInv, Stage, Opened, Absent
  <2>1. CASE ChatAnswers(r)
    BY <2>0, <2>1, CountedAnswer DEF ChatAnswers, Receive, CodeOf
  <2>2. CASE ChatFails(r)
    BY <2>0, <2>2, CountedAnswer DEF ChatFails, Receive, CodeOf
  <2>3. CASE StreamToken(r)
    BY <2>0, <2>3, UncountedStep DEF StreamToken, counterVars, SeenBy, Fails, Succeeds, Finishes
  <2>4. CASE StreamSent(r)
    BY <2>0, <2>4, UncountedStep DEF StreamSent, Receive, counterVars, SeenBy, Fails, Succeeds, Finishes
  <2>5. CASE StreamEnds(r)
    <3>1. Moved(r, "closing")
      BY <2>5, ReleaseEffect DEF StreamEnds, Holding
    <3>2. QED
      BY <2>0, <2>5, <3>1, CountedStream DEF StreamEnds, Moved, Fails, Succeeds, Finishes
  <2>6. CASE StreamFails(r)
    <3>1. Moved(r, "error")
      BY <2>6, ReleaseEffect DEF StreamFails, Holding
    <3>2. QED
      BY <2>0, <2>6, <3>1, CountedStream DEF StreamFails, Moved, Fails, Succeeds, Finishes
  <2>7. CASE StreamErrorSent(r)
    BY <2>0, <2>7, UncountedStep
    DEF StreamErrorSent, Receive, counterVars, SeenBy, Fails, Succeeds, Finishes
  <2>8. CASE StreamDoneSent(r)
    BY <2>0, <2>8, UncountedStep
    DEF StreamDoneSent, Receive, counterVars, SeenBy, Fails, Succeeds, Finishes
  <2>9. CASE Finalize(r)
    <3>1. Moved(r, "over")
      BY <2>9, ReleaseEffect DEF Finalize, Holding
    <3>2. QED
      BY <2>0, <2>9, <3>1, UncountedStep DEF Finalize, Moved, counterVars, SeenBy, Fails, Succeeds, Finishes
  <2>10. CASE AgentWorks(r)
    BY <2>0, <2>10, UncountedStep
    DEF AgentWorks, requestVars, counterVars, SeenBy, Fails, Succeeds, Finishes
  <2>11. CASE AgentReturns(r)
    BY <2>0, <2>11, CountedAnswer DEF AgentReturns, Receive, CodeOf
  <2>12. CASE AgentRaises(r)
    BY <2>0, <2>12, CountedAnswer DEF AgentRaises, Receive, CodeOf
  <2>13. QED
    BY <1>2, <2>1, <2>2, <2>3, <2>4, <2>5, <2>6, <2>7, <2>8, <2>9, <2>10, <2>11, <2>12
    DEF Handle
<1>3. ASSUME NEW r \in Requests, HangUp(r) PROVE CountInv'
  <2>0. OthersStay(r)
    BY <1>3, HangUpKeepsStage
  <2>1. phase'[r] \in {"over", "abandoned"}
    <3>1. CASE phase[r] = "model"
      <4>1. Moved(r, "over")
        BY <1>3, <3>1, ReleaseEffect DEF HangUp, Holding
      <4>2. QED
        BY <4>1 DEF Moved
    <3>2. CASE phase[r] # "model"
      BY <1>0, <1>3, <3>2 DEF HangUp
    <3>3. QED
      BY <3>1, <3>2
  <2>2. /\ endpoint' = endpoint /\ wire' = wire /\ requests_total' = requests_total
        /\ phase[r] \in {"waiting", "model", "sending", "error", "closing"}
        /\ phase[r] \in {"error", "closing"} => phase'[r] = "over"
    BY <1>0, <1>3 DEF HangUp, counterVars
  <2>3. /\ \A e, w : SeenBy(r, e, w) <=> SeenBy(r, e, w)'
        /\ Fails(r)' => Fails(r)
        /\ Succeeds(r)' => Succeeds(r)
        /\ Finishes(r) => Finishes(r)'
    <3>1. \A e, w : SeenBy(r, e, w) <=> SeenBy(r, e, w)'
      BY <2>2 DEF SeenBy
    <3>2. Fails(r)' => Fails(r)
      BY <2>1, <2>2 DEF Fails
    <3>3. Succeeds(r)' => Succeeds(r)
      BY <2>1, <2>2 DEF Succeeds
    <3>4. Finishes(r) => Finishes(r)'
      BY <2>1, <2>2 DEF Finishes
    <3>5. QED
      BY <3>1, <3>2, <3>3, <3>4
  <2>4. QED
    BY <2>0, <2>2, <2>3, UncountedStep
<1>4. CASE Quiet \/ UNCHANGED vars
  <2>1. /\ endpoint' = endpoint /\ wire' = wire /\ phase' = phase
        /\ requests_total' = requests_total
    BY <1>4 DEF Quiet, vars, requestVars, counterVars
  <2>2. /\ \A e, w : Seen(e, w)' = Seen(e, w)
        /\ Failing' = Failing /\ Succeeding' = Succeeding /\ Finished' = Finished
    BY <2>1 DEF Seen, Failing, Succeeding, Finished, SeenBy, Fails, Succeeds, Finishes
  <2>3. QED
    BY <2>1, <2>2 DEF CountInv
<1>5. QED
  BY <1>1, <1>2, <1>3, <1>4 DEF Next

LEMMA InitCounts == Init => CountInv
<1> SUFFICES ASSUME Init PROVE CountInv
  OBVIOUS
<1>1. (\A e, w : Seen(e, w) = {}) /\ Failing = {} /\ Succeeding = {} /\ Finished = {}
  BY DEF Init, Seen, SeenBy, Failing, Fails, Succeeding, Succeeds, Finished, Finishes, Absent
<1>2. \A e \in Counted, s \in {"success", "error"} : requests_total[e][s] = 0
  BY DEF Init
<1>3. QED
  BY <1>1, <1>2, FS_EmptySet DEF CountInv, Counted

\* /metrics agrees with what the clients of each route were sent.
THEOREM CountersTellTheTruth == Spec => []CountersMatchAnswers
<1>1. Spec => []CountInv
  BY InitCounts, StepKeepsCounts, StageInvariant, PTL DEF Spec
<1>2. CountInv /\ StageInv /\ GatewayInv => CountersMatchAnswers
  <2> SUFFICES ASSUME CountInv, StageInv, GatewayInv PROVE CountersMatchAnswers
    OBVIOUS
  <2> DEFINE Saw(e, w) == {r \in Requests : endpoint[r] = e /\ w \in wire[r]}
             Clean == {r \in Requests : "[DONE]" \in wire[r] /\ "[ERROR]" \notin wire[r]}
             Ended == {r \in Requests : endpoint[r] = "stream"
                                        /\ phase[r] \in {"error", "closing", "over"}
                                        /\ "200" \in wire[r]}
  <2>1. \A e, w : Saw(e, w) = Seen(e, w)
    BY DEF Seen, SeenBy
  <2>2. Saw("stream", "[ERROR]") \subseteq Failing /\ Clean \subseteq Succeeding
    BY DEF Failing, Fails, Succeeding, Succeeds, StageInv, Stage
  <2>3. Ended = Finished
    BY DEF Finished, Finishes
  <2>4. /\ Cardinality(Saw("stream", "[ERROR]")) <= Cardinality(Failing)
        /\ Cardinality(Clean) <= Cardinality(Succeeding)
        /\ Cardinality(Failing) \in Nat /\ Cardinality(Succeeding) \in Nat
        /\ Cardinality(Saw("stream", "[ERROR]")) \in Nat /\ Cardinality(Clean) \in Nat
    <3>1. Failing \in SUBSET Requests /\ Succeeding \in SUBSET Requests
      BY DEF Failing, Succeeding
    <3>2. QED
      BY <2>2, <3>1, FewerOf
  <2>5. \A e \in {"chat", "agent"} :
          /\ requests_total[e]["success"] = Cardinality(Saw(e, "200"))
          /\ requests_total[e]["error"] = Cardinality(Saw(e, "500"))
    <3> SUFFICES ASSUME NEW e \in {"chat", "agent"}
                 PROVE  /\ requests_total[e]["success"] = Cardinality(Saw(e, "200"))
                        /\ requests_total[e]["error"] = Cardinality(Saw(e, "500"))
      OBVIOUS
    <3>1. /\ requests_total[e]["success"] = Cardinality(Seen(e, CodeOf["success"]))
          /\ requests_total[e]["error"] = Cardinality(Seen(e, CodeOf["error"]))
      BY DEF CountInv
    <3>2. CodeOf["success"] = "200" /\ CodeOf["error"] = "500"
      BY DEF CodeOf
    <3> HIDE DEF Saw
    <3>3. QED
      BY <2>1, <3>1, <3>2
  <2>6. /\ requests_total["stream"]["error"] \in Nat
        /\ requests_total["stream"]["success"] \in Nat
    BY DEF GatewayInv, TypeOK, Counted
  <2> HIDE DEF Saw, Clean, Ended
  <2>7. /\ requests_total["stream"]["error"] >= Cardinality(Saw("stream", "[ERROR]"))
        /\ requests_total["stream"]["success"] >= Cardinality(Clean)
        /\ requests_total["stream"]["success"] + requests_total["stream"]["error"]
             <= Cardinality(Ended)
    BY <2>3, <2>4, <2>6 DEF CountInv
  <2>8. QED
    BY <2>5, <2>7 DEF CountersMatchAnswers, Saw, Clean, Ended
<1>3. QED
  BY <1>1, <1>2, StageInvariant, PTL
=============================================================================
