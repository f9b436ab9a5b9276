------------------------ MODULE AgentExecutorProofs ------------------------
(***************************************************************************)
(* run() implements the agent lifecycle, for every iteration cap (0        *)
(* included), every set of tools and replies of any length.  The           *)
(* refinement needs to know how the program counter, the status and the    *)
(* loop variable move together: ControlInv.                                *)
(***************************************************************************)
EXTENDS AgentExecutor, OrderLemmas, SequenceTheorems

ControlInv ==
  /\ iteration \in 0 .. MaxIterations
  /\ pc \in {"start", "loop", "model", "tools", "returned", "raised"}
  /\ status \in AgentStatus
  /\ blame \in {"nothing", "model", "tool"}
  /\ blame # "nothing" <=> pc = "raised"
  /\ pc = "start" => status = CREATED /\ iteration = 0
  /\ pc \in {"loop", "model"} => status = RUNNING
  /\ pc = "tools" => status = AWAITING_TOOL
  /\ pc \in {"model", "tools"} => iteration < MaxIterations
  /\ pc = "returned" => status \in {COMPLETED, FAILED}
  /\ pc = "raised" => status \in {RUNNING, AWAITING_TOOL}

-----------------------------------------------------------------------------

\* run() starts in CREATED, before its first iteration.
LEMMA InitEstablishes == Init => ControlInv
  BY ExecutorAssumption DEF Init, ControlInv, AgentStatus, CREATED

\* Every step of run() and of a tool keeps the three in agreement.
LEMMA StepPreserves == ControlInv /\ [Next]_vars => ControlInv'
<1> SUFFICES ASSUME ControlInv, [Next]_vars PROVE ControlInv'
  OBVIOUS
<1> USE ExecutorAssumption
    DEF ControlInv, AgentStatus, CREATED, RUNNING, AWAITING_TOOL, COMPLETED, FAILED
<1>1. CASE Start
  BY <1>1 DEF Start
<1>2. CASE Ask
  BY <1>2 DEF Ask
<1>3. CASE GiveUp
  BY <1>3 DEF GiveUp
<1>4. ASSUME NEW content \in Contents, FinalAnswer(content) PROVE ControlInv'
  BY <1>4 DEF FinalAnswer
<1>5. ASSUME NEW content \in Contents, CallTools(content) PROVE ControlInv'
  BY <1>5 DEF CallTools
<1>6. CASE ModelRaises
  BY <1>6 DEF ModelRaises
<1>7. ASSUME NEW i \in 1 .. MaxLines, NEW outcome, ToolEnds(i, outcome) PROVE ControlInv'
  BY <1>7 DEF ToolEnds
<1>8. CASE Collect
  BY <1>8 DEF Collect, AllFinished
<1>9. CASE CollectRaises
  BY <1>9 DEF CollectRaises, AllFinished
<1>10. CASE Over \/ UNCHANGED vars
  BY <1>10 DEF Over, vars
<1>11. QED
  BY <1>1, <1>2, <1>3, <1>4, <1>5, <1>6, <1>7, <1>8, <1>9, <1>10 DEF Next, Step

\* Program counter, status and loop variable agree in every reachable state.
THEOREM ControlInvariant == Spec => []ControlInv
  BY InitEstablishes, StepPreserves, PTL DEF Spec

-----------------------------------------------------------------------------

\* run() follows the lifecycle of agents/state.py: legal edges only, at most
\* max_iterations replies consumed, one end.
THEOREM RunImplementsLifecycle == Spec => ImplementsLifecycle
<1> DEFINE aStatus == [r \in {Self} |-> status]
           aTurns == [r \in {Self} |-> iteration + ReplyInHand]
           aEnded == [r \in {Self} |-> IF pc \in {"returned", "raised"} THEN pc ELSE "live"]
<1> USE DEF CREATED, RUNNING, AWAITING_TOOL, COMPLETED, FAILED
<1>1. Init => Lifecycle!LifecycleInit
  BY DEF Init, Lifecycle!LifecycleInit, Lifecycle!CREATED, Lifecycle!Live, ReplyInHand
<1>2. ControlInv /\ ControlInv' /\ [Next]_vars
        => [Lifecycle!LifecycleNext]_<<aStatus, aTurns, aEnded>>
  <2> SUFFICES ASSUME ControlInv, ControlInv', [Next]_vars
               PROVE  [Lifecycle!LifecycleNext]_<<aStatus, aTurns, aEnded>>
    OBVIOUS
  <2> USE DEF Lifecycle!CREATED, Lifecycle!RUNNING, Lifecycle!AWAITING_TOOL,
              Lifecycle!COMPLETED, Lifecycle!FAILED
  <2>0. /\ Lifecycle!transition(CREATED, RUNNING)
        /\ Lifecycle!transition(RUNNING, AWAITING_TOOL)
        /\ Lifecycle!transition(RUNNING, COMPLETED)
        /\ Lifecycle!transition(RUNNING, FAILED)
        /\ Lifecycle!transition(AWAITING_TOOL, RUNNING)
    BY DEF Lifecycle!transition, Lifecycle!TRANSITIONS, Lifecycle!AgentStatus
  <2> USE <2>0, ExecutorAssumption
      DEF ControlInv, AgentStatus, ReplyInHand, Lifecycle!MoveTo, Lifecycle!Live,
          Lifecycle!Returned, Lifecycle!Raised
  <2>1. Start => Lifecycle!Begin(Self)
    BY DEF Start, Lifecycle!Begin
  <2>2. Ask => UNCHANGED <<aStatus, aTurns, aEnded>>
    BY DEF Ask
  <2>3. ASSUME GiveUp PROVE Lifecycle!GiveUp(Self)
    <3>1. /\ iteration = MaxIterations /\ iteration' = iteration
          /\ status = RUNNING /\ status' = FAILED
          /\ pc = "loop" /\ pc' = "returned"
      BY <2>3 DEF GiveUp
    <3>2. ReplyInHand = 0 /\ ReplyInHand' = 0
      BY <3>1
    <3>3. aTurns[Self] = MaxIterations /\ aTurns' = aTurns
      BY <3>1, <3>2
    <3>4. aStatus[Self] = RUNNING /\ aStatus' = [aStatus EXCEPT ![Self] = FAILED]
      BY <3>1
    <3>5. aEnded[Self] = "live" /\ aEnded' = [aEnded EXCEPT ![Self] = "returned"]
      BY <3>1
    <3>6. QED
      BY <3>3, <3>4, <3>5, Zenon DEF Lifecycle!GiveUp
  <2>4. ASSUME NEW content \in Contents, FinalAnswer(content) PROVE Lifecycle!Answer(Self)
    <3>1. /\ iteration < MaxIterations /\ iteration' = iteration /\ iteration \in Nat
          /\ status = RUNNING /\ status' = COMPLETED
          /\ pc = "model" /\ pc' = "returned"
      BY <2>4 DEF FinalAnswer
    <3>2. ReplyInHand = 0 /\ ReplyInHand' = 1
      BY <3>1
    <3>3. aTurns[Self] < MaxIterations /\ aTurns' = [aTurns EXCEPT ![Self] = @ + 1]
      BY <3>1, <3>2
    <3>4. aStatus[Self] = RUNNING /\ aStatus' = [aStatus EXCEPT ![Self] = COMPLETED]
      BY <3>1
    <3>5. aEnded[Self] = "live" /\ aEnded' = [aEnded EXCEPT ![Self] = "returned"]
      BY <3>1
    <3>6. QED
      BY <3>3, <3>4, <3>5, Zenon DEF Lifecycle!Answer
  <2>5. ASSUME NEW content \in Contents, CallTools(content) PROVE Lifecycle!UseTools(Self)
    <3>1. /\ iteration < MaxIterations /\ iteration' = iteration /\ iteration \in Nat
          /\ status = RUNNING /\ status' = AWAITING_TOOL
          /\ pc = "model" /\ pc' = "tools"
      BY <2>5 DEF CallTools
    <3>2. ReplyInHand = 0 /\ ReplyInHand' = 1
      BY <3>1
    <3>3. aTurns[Self] < MaxIterations /\ aTurns' = [aTurns EXCEPT ![Self] = @ + 1]
      BY <3>1, <3>2
    <3>4. aStatus[Self] = RUNNING /\ aStatus' = [aStatus EXCEPT ![Self] = AWAITING_TOOL]
      BY <3>1
    <3>5. aEnded[Self] = "live" /\ aEnded' = aEnded
      BY <3>1
    <3>6. QED
      BY <3>3, <3>4, <3>5, Zenon DEF Lifecycle!UseTools
  <2>6. ModelRaises => Lifecycle!Abort(Self)
    BY DEF ModelRaises, Lifecycle!Abort
  <2>7. ASSUME NEW i \in 1 .. MaxLines, NEW outcome, ToolEnds(i, outcome)
        PROVE  UNCHANGED <<aStatus, aTurns, aEnded>>
    BY <2>7 DEF ToolEnds
  <2>8. Collect => Lifecycle!ToolsDone(Self)
    BY DEF Collect, AllFinished, Lifecycle!ToolsDone
  <2>9. CollectRaises => Lifecycle!Abort(Self)
    BY DEF CollectRaises, AllFinished, Lifecycle!Abort
  <2>10. Over \/ UNCHANGED vars => UNCHANGED <<aStatus, aTurns, aEnded>>
    BY DEF Over, vars
  <2>11. QED
    BY <2>1, <2>2, <2>3, <2>4, <2>5, <2>6, <2>7, <2>8, <2>9, <2>10
    DEF Next, Step, Lifecycle!LifecycleNext
<1>3. QED
  BY <1>1, <1>2, ControlInvariant, PTL
  DEF Spec, ImplementsLifecycle, Lifecycle!LifecycleSpec, Lifecycle!lifecycleVars

-----------------------------------------------------------------------------
(* Histories                                                               *)

\* FlattenSeq as a recursion: its partial concatenations.
Partial(f, s, n) == \A i \in 1 .. n : f[i] = IF i = 1 THEN s[1] ELSE f[i - 1] \o s[i]

LEMMA PartialExists ==
  ASSUME NEW M, NEW s \in Seq(Seq(M)), s # << >>
  PROVE  \E f \in [1 .. Len(s) -> Seq(M)] : Partial(f, s, Len(s))
<1> DEFINE n == Len(s) - 1
           t == [i \in 1 .. n |-> [d \in Seq(M) |-> d \o s[i + 1]]]
<1>1. n \in Nat /\ \A i \in 1 .. Len(s) : s[i] \in Seq(M)
  OBVIOUS
<1>2. t \in [1 .. n -> [Seq(M) -> Seq(M)]]
  <2>1. ASSUME NEW i \in 1 .. n, NEW d \in Seq(M) PROVE d \o s[i + 1] \in Seq(M)
    <3>1. i + 1 \in 1 .. Len(s)
      OBVIOUS
    <3>2. s[i + 1] \in Seq(M)
      BY <1>1, <3>1
    <3>3. QED
      BY <3>2, ConcatProperties
  <2>2. QED
    BY <2>1
<1>3. s[1] \in Seq(M) /\ 1 \in 1 .. Len(s)
  OBVIOUS
<1>4. PICK g \in [0 .. n -> Seq(M)] : Unfolds(g, n, s[1], t)
  <2> HIDE DEF n, t
  <2>1. QED
    BY <1>1, <1>2, <1>3, UnfoldExists
<1> DEFINE f == [i \in 1 .. Len(s) |-> g[i - 1]]
<1>5. f \in [1 .. Len(s) -> Seq(M)]
  OBVIOUS
<1>6. ASSUME NEW i \in 1 .. Len(s) PROVE f[i] = IF i = 1 THEN s[1] ELSE f[i - 1] \o s[i]
  <2>1. CASE i = 1
    BY <1>4, <2>1 DEF Unfolds
  <2>2. CASE i # 1
    <3>1. i - 1 \in 1 .. n /\ i - 1 \in 1 .. Len(s) /\ (i - 1) - 1 \in 0 .. n /\ (i - 1) + 1 = i
      BY <1>1, <2>2
    <3>2. g[i - 1] = t[i - 1][g[(i - 1) - 1]] /\ g[(i - 1) - 1] \in Seq(M)
      BY <1>4, <3>1 DEF Unfolds
    <3>3. t[i - 1][g[(i - 1) - 1]] = g[(i - 1) - 1] \o s[i]
      BY <3>1, <3>2
    <3>4. f[i] = g[i - 1] /\ f[i - 1] = g[(i - 1) - 1]
      BY <3>1
    <3>5. QED
      BY <2>2, <3>2, <3>3, <3>4
  <2>3. QED
    BY <2>1, <2>2
<1>7. QED
  <2> HIDE DEF f
  <2>1. QED
    BY <1>5, <1>6 DEF Partial

\* Two of them agree up to where the sequences agree.
LEMMA PartialUnique ==
  ASSUME NEW s, NEW u, NEW f, NEW g, NEW n \in Nat,
         Partial(f, s, n), Partial(g, u, n), \A i \in 1 .. n : s[i] = u[i]
  PROVE  \A i \in 1 .. n : f[i] = g[i]
<1> DEFINE Bad == {i \in 1 .. n : f[i] # g[i]}
<1>1. Bad = {}
  <2> SUFFICES ASSUME Bad # {} PROVE FALSE
    OBVIOUS
  <2>1. PICK m \in Bad : \A k \in Bad : m <= k
    <3>1. Bad \subseteq Nat
      OBVIOUS
    <3> HIDE DEF Bad
    <3>2. QED
      BY <3>1, LeastNatural
  <2>2. m \in 1 .. n /\ f[m] # g[m]
    OBVIOUS
  <2>3. m # 1
    BY <2>2 DEF Partial
  <2>4. m - 1 \in 1 .. n /\ ~ (m <= m - 1)
    BY <2>2, <2>3
  <2>5. f[m - 1] = g[m - 1]
    BY <2>1, <2>4
  <2>6. f[m] = f[m - 1] \o s[m] /\ g[m] = g[m - 1] \o u[m]
    BY <2>2, <2>3 DEF Partial
  <2>7. QED
    BY <2>2, <2>5, <2>6
<1>2. QED
  BY <1>1

\* The last of them is FlattenSeq's.
LEMMA FlattenPartial ==
  ASSUME NEW M, NEW s \in Seq(Seq(M)), s # << >>,
         NEW f \in [1 .. Len(s) -> Seq(M)], Partial(f, s, Len(s))
  PROVE  FlattenSeq(s) = f[Len(s)]
<1> DEFINE Flatten(h) == h = [i \in 1 .. Len(s) |-> IF i = 1 THEN s[i] ELSE h[i - 1] \o s[i]]
<1>1. Flatten(f)
  BY DEF Partial
<1>2. Flatten(CHOOSE h : Flatten(h))
  <2> HIDE DEF Flatten
  <2>1. QED
    BY <1>1
<1>3. PICK g : g = CHOOSE h : Flatten(h)
  OBVIOUS
<1>4. Partial(g, s, Len(s))
  <2>1. Flatten(g)
    <3> HIDE DEF Flatten
    <3>1. QED
      BY <1>2, <1>3
  <2>2. QED
    BY <2>1 DEF Partial
<1>5. Len(s) \in 1 .. Len(s) /\ Len(s) \in Nat
  OBVIOUS
<1>6. f[Len(s)] = g[Len(s)]
  <2> HIDE DEF Flatten
  <2>1. \A i \in 1 .. Len(s) : s[i] = s[i]
    OBVIOUS
  <2>2. \A i \in 1 .. Len(s) : f[i] = g[i]
    BY <1>4, <1>5, <2>1, PartialUnique
  <2>3. QED
    BY <1>5, <2>2
<1>7. FlattenSeq(s) = g[Len(s)]
  BY <1>3 DEF FlattenSeq
<1>8. QED
  BY <1>6, <1>7

\* A turn added to the turns is a turn added to the history.
LEMMA FlattenAppend ==
  ASSUME NEW M, NEW s \in Seq(Seq(M)), NEW t \in Seq(M)
  PROVE  /\ FlattenSeq(s) \in Seq(M)
         /\ FlattenSeq(Append(s, t)) = FlattenSeq(s) \o t
<1> DEFINE u == Append(s, t)
           n == Len(s)
<1>1. u \in Seq(Seq(M)) /\ u # << >> /\ Len(u) = n + 1 /\ u[n + 1] = t /\ n \in Nat
      /\ \A i \in 1 .. n : u[i] = s[i]
  <2>1. u \in Seq(Seq(M)) /\ Len(u) = Len(s) + 1 /\ n \in Nat
    OBVIOUS
  <2>2. u[Len(s) + 1] = t /\ \A i \in 1 .. Len(s) : u[i] = s[i]
    OBVIOUS
  <2>3. u # << >>
    <3>1. Len(u) # 0
      BY <2>1
    <3> HIDE DEF u
    <3>2. QED
      BY <3>1
  <2>4. QED
    BY <2>1, <2>2, <2>3
<1> HIDE DEF u
<1>2. PICK g \in [1 .. Len(u) -> Seq(M)] : Partial(g, u, Len(u))
  BY <1>1, PartialExists
<1>3. FlattenSeq(u) = g[n + 1]
  BY <1>1, <1>2, FlattenPartial
<1>4. CASE s = << >>
  <2>1. FlattenSeq(s) = << >> /\ n = 0
    BY <1>4 DEF FlattenSeq
  <2>2. g[1] = u[1]
    BY <1>1, <1>2, <2>1 DEF Partial
  <2>3. << >> \o t = t
    BY ConcatEmptySeq
  <2>4. QED
    BY <1>1, <1>3, <2>1, <2>2, <2>3 DEF u
<1>5. CASE s # << >>
  <2>1. PICK f \in [1 .. Len(s) -> Seq(M)] : Partial(f, s, Len(s))
    BY <1>5, PartialExists
  <2>2. FlattenSeq(s) = f[n]
    BY <1>5, <2>1, FlattenPartial
  <2>3. n \in 1 .. n /\ n + 1 \in 1 .. Len(u) /\ n + 1 # 1 /\ (n + 1) - 1 = n /\ f[n] \in Seq(M)
    <3>1. n # 0
      BY <1>5
    <3>2. f \in [1 .. n -> Seq(M)]
      BY <2>1
    <3> HIDE DEF n
    <3>3. n \in 1 .. n
      BY <1>1, <3>1
    <3>4. f[n] \in Seq(M)
      BY <3>2, <3>3
    <3>5. n + 1 \in 1 .. Len(u) /\ n + 1 # 1 /\ (n + 1) - 1 = n
      BY <1>1, <3>1
    <3>6. QED
      BY <3>3, <3>4, <3>5
  <2>4. \A i \in 1 .. n : f[i] = g[i]
    <3>1. Partial(f, s, n)
      BY <2>1
    <3> HIDE DEF n
    <3>2. Partial(g, u, n)
      <4>1. \A i \in 1 .. n : i \in 1 .. Len(u)
        BY <1>1
      <4>2. QED
        BY <1>2, <4>1 DEF Partial
    <3>3. \A i \in 1 .. n : s[i] = u[i]
      BY <1>1
    <3>4. n \in Nat
      BY <1>1
    <3>5. QED
      BY <3>1, <3>2, <3>3, <3>4, PartialUnique
  <2>5. g[n + 1] = g[n] \o u[n + 1]
    BY <1>2, <2>3 DEF Partial
  <2>6. QED
    BY <1>1, <1>3, <2>2, <2>3, <2>4, <2>5 DEF u
<1>6. QED
  BY <1>4, <1>5

-----------------------------------------------------------------------------
(* The trace                                                               *)

\* The answer of a call: its own outcome, whichever it was.
AnswerOf(call, answer) ==
  answer \in Answers /\ answer.to = call /\ answer.is \in execute_tool(call)

\* A step of the trace holds the calls of its reply and an answer to each of them.
Traced ==
  {s \in [iteration : Nat, model_response : Contents, tool_calls : Seq(Call),
          tool_results : Seq(Answers)] :
     /\ s.tool_calls = parse_tool_calls(s.model_response)
     /\ Len(s.tool_results) = Len(s.tool_calls)
     /\ \A i \in 1 .. Len(s.tool_calls) : AnswerOf(s.tool_calls[i], s.tool_results[i])}

\* While tools run, each that has ended has answered its own call, once.
ToolsInv ==
  pc = "tools" =>
    /\ tool_calls = parse_tool_calls(response)
    /\ tool_calls # << >>
    /\ \A k \in 1 .. Len(finished) :
         /\ finished[k].index \in 1 .. Len(tool_calls)
         /\ AnswerOf(tool_calls[finished[k].index], finished[k].answer)
    /\ \A k, l \in 1 .. Len(finished) : finished[k].index = finished[l].index => k = l

\* Every iteration that is over used tools and left a step; the final answer is a step too.
StepsInv ==
  /\ steps \in Seq(Traced)
  /\ Len(steps) <= MaxIterations
  /\ Len(steps) = iteration + (IF status = COMPLETED THEN 1 ELSE 0)
  /\ \A k \in 1 .. iteration : steps[k].tool_calls # << >>
  /\ status = COMPLETED => steps[Len(steps)].tool_calls = << >>

ResultInv ==
  pc = "returned" =>
    /\ result.total_iterations = Len(steps)
    /\ result.steps = Len(steps)
    /\ status = FAILED => iteration = MaxIterations
    /\ steps # << >> => result.final_answer = steps[Len(steps)].model_response

Turns(trace) == [k \in 1 .. Len(trace) |-> Turn(trace[k])]

\* The history is the user's message and the turns of the trace, until a message that
\* cannot be encoded breaks the last one off.
TranscriptInv ==
  pc \in {"start", "loop", "model", "tools"} =>
    messages = <<UserMessage>> \o FlattenSeq(Turns(steps))

TraceInv ==
  /\ ControlInv
  /\ response \in Contents
  /\ tool_calls \in Seq(Call)
  /\ Len(tool_calls) <= MaxLines
  /\ finished \in Seq(Finished)
  /\ ToolsInv
  /\ StepsInv
  /\ ResultInv
  /\ TranscriptInv

-----------------------------------------------------------------------------
(* Replies, answers and turns                                              *)

\* A reply is a sequence of at most MaxLines lines.
LEMMA ContentsType ==
  ASSUME NEW content \in Contents
  PROVE  content \in Seq(Call \union {TextLine, MalformedLine}) /\ Len(content) \in 0 .. MaxLines
<1> DEFINE L == Call \union {TextLine, MalformedLine}
<1>1. PICK n \in 0 .. MaxLines : content \in [1 .. n -> L]
  BY DEF Contents
<1> HIDE DEF L
<1>2. content \in Seq(L) /\ Len(content) = n
  BY <1>1
<1>3. QED
  BY <1>2 DEF L

\* Directives, and only they, are calls.
LEMMA CallLines ==
  \A l \in Call \union {TextLine, MalformedLine} : l.kind = "call" <=> l \in Call
BY ExecutorAssumption DEF TextLine, MalformedLine

LEMMA ParsedCalls ==
  ASSUME NEW content \in Contents
  PROVE  /\ parse_tool_calls(content) \in Seq(Call)
         /\ Len(parse_tool_calls(content)) \in 0 .. MaxLines
         /\ parse_tool_calls(content)
              = Picked(content, {i \in DOMAIN content : content[i] \in Call})
<1> DEFINE L == Call \union {TextLine, MalformedLine}
           S == {i \in DOMAIN content : content[i].kind = "call"}
<1>1. content \in Seq(L) /\ Len(content) \in 0 .. MaxLines
  BY ContentsType
<1>2. \A i \in DOMAIN content : content[i] \in L
  BY <1>1
<1>3. S = {i \in DOMAIN content : content[i] \in Call} /\ \A i \in S : content[i] \in Call
  BY <1>2, CallLines
<1>4. S \subseteq DOMAIN content
  OBVIOUS
<1>5. parse_tool_calls(content) = Picked(content, S)
  BY DEF parse_tool_calls
<1> HIDE DEF L, S
<1>6. /\ Picked(content, S) \in Seq(L) /\ Cardinality(S) \in 0 .. Len(content)
      /\ Len(Picked(content, S)) = Cardinality(S)
      /\ \A k \in 1 .. Cardinality(S) : Nth(S, k) \in S /\ Picked(content, S)[k] = content[Nth(S, k)]
  BY <1>1, <1>4, PickedElements
<1>7. \A k \in 1 .. Cardinality(S) : Picked(content, S)[k] \in Call
  BY <1>3, <1>6, Zenon
<1>8. Picked(content, S) \in Seq(Call)
  BY <1>6, <1>7
<1>9. Len(Picked(content, S)) \in 0 .. MaxLines
  <2>1. MaxLines \in Nat
    BY ExecutorAssumption
  <2>2. QED
    BY <1>1, <1>6, <2>1
<1>10. QED
  BY <1>3, <1>5, <1>8, <1>9

\* When as many tools have ended as were called, every call has its answer.
LEMMA Gathered ==
  ASSUME ToolsInv, tool_calls \in Seq(Call), finished \in Seq(Finished), AllFinished
  PROVE  /\ gather(finished) \in Seq(Answers)
         /\ Len(gather(finished)) = Len(tool_calls)
         /\ \A i \in 1 .. Len(tool_calls) : AnswerOf(tool_calls[i], gather(finished)[i])
<1> DEFINE n == Len(tool_calls)
           f == [k \in 1 .. n |-> finished[k].index]
<1>1. n \in Nat /\ Len(finished) = n /\ pc = "tools"
  BY DEF AllFinished
<1>2. f \in [1 .. n -> 1 .. n] /\ \A k, l \in 1 .. n : f[k] = f[l] => k = l
  BY <1>1 DEF ToolsInv
<1>3. \A k \in 1 .. n : AnswerOf(tool_calls[finished[k].index], finished[k].answer)
  BY <1>1 DEF ToolsInv
<1>4. \A i \in 1 .. n : \E k \in 1 .. n : finished[k].index = i
  <2>1. IsFiniteSet(1 .. n)
    <3>1. n \in Int /\ 1 \in Int
      BY <1>1
    <3> HIDE DEF n
    <3>2. QED
      BY <3>1, FS_Interval
  <2>2. f \in Injection(1 .. n, 1 .. n)
    <3> HIDE DEF f, n
    <3>1. QED
      BY <1>2 DEF Injection, IsInjective
  <2>3. f \in Surjection(1 .. n, 1 .. n)
    <3> HIDE DEF f, n
    <3>1. QED
      BY <2>1, <2>2, FS_Injection
  <2>4. \A i \in 1 .. n : \E k \in 1 .. n : f[k] = i
    <3> HIDE DEF f, n
    <3>1. QED
      BY <2>3 DEF Surjection
  <2>5. QED
    BY <2>4
<1>5. ToSet(finished) = {finished[k] : k \in 1 .. n}
  BY <1>1 DEF ToSet
<1>6. ASSUME NEW i \in 1 .. n PROVE AnswerOf(tool_calls[i], gather(finished)[i])
  <2> DEFINE c == CHOOSE a \in ToSet(finished) : a.index = i
  <2>1. c \in ToSet(finished) /\ c.index = i
    BY <1>4, <1>5
  <2>2. gather(finished)[i] = c.answer
    BY <1>1 DEF gather
  <2> HIDE DEF c
  <2>3. PICK k \in 1 .. n : c = finished[k]
    BY <1>5, <2>1
  <2>4. QED
    BY <1>3, <2>1, <2>2, <2>3
<1>7. gather(finished) \in Seq(Answers) /\ Len(gather(finished)) = n
  <2>1. \A i \in 1 .. n : gather(finished)[i] \in Answers
    BY <1>6 DEF AnswerOf
  <2>2. DOMAIN gather(finished) = 1 .. n /\ gather(finished) = [i \in 1 .. n |-> gather(finished)[i]]
    BY <1>1 DEF gather
  <2> HIDE DEF n
  <2>3. gather(finished) \in [1 .. n -> Answers]
    BY <2>1, <2>2
  <2>4. QED
    BY <1>1, <2>3
<1>8. QED
  BY <1>6, <1>7

\* What run() may send to the model.
History ==
  {UserMessage} \union {ToolMessage(a.to, a) : a \in Answers}
                \union {AssistantMessage(content) : content \in Contents}

LEMMA TurnType ==
  ASSUME NEW s \in Traced
  PROVE  Turn(s) \in Seq(History)
<1> DEFINE n == Len(s.tool_calls)
           T == [i \in 1 .. n |->
                   [role |-> "tool", name |-> s.tool_calls[i].name,
                    content |-> [to |-> s.tool_calls[i], is |-> s.tool_results[i].is]]]
<1>1. /\ s.model_response \in Contents /\ n \in Nat
      /\ \A i \in 1 .. n : AnswerOf(s.tool_calls[i], s.tool_results[i])
  BY DEF Traced
<1>2. ASSUME NEW i \in 1 .. n PROVE T[i] \in History
  <2>1. s.tool_results[i] \in Answers /\ s.tool_results[i].to = s.tool_calls[i]
    BY <1>1 DEF AnswerOf
  <2>2. s.tool_results[i] = [to |-> s.tool_calls[i], is |-> s.tool_results[i].is]
    BY <2>1 DEF Answers
  <2>3. T[i] = ToolMessage(s.tool_results[i].to, s.tool_results[i])
    BY <2>1, <2>2 DEF ToolMessage
  <2>4. QED
    BY <2>1, <2>3 DEF History
<1>3. T \in Seq(History)
  <2>1. T = [i \in 1 .. n |-> T[i]]
    OBVIOUS
  <2>2. n \in Nat
    BY <1>1
  <2> HIDE DEF T, n
  <2>3. T \in [1 .. n -> History]
    BY <1>2, <2>1
  <2>4. QED
    BY <2>2, <2>3
<1>4. AssistantMessage(s.model_response) \in History
  BY <1>1 DEF History
<1>5. <<AssistantMessage(s.model_response)>> \in Seq(History)
  BY <1>4
<1>6. Turn(s) = T \o <<AssistantMessage(s.model_response)>>
  BY DEF Turn
<1> HIDE DEF T
<1>7. QED
  BY <1>3, <1>5, <1>6, ConcatProperties

\* A step added to the trace adds its turn to the history.
LEMMA TurnAdded ==
  ASSUME NEW trace \in Seq(Traced), NEW s \in Traced
  PROVE  <<UserMessage>> \o FlattenSeq(Turns(Append(trace, s)))
           = (<<UserMessage>> \o FlattenSeq(Turns(trace))) \o Turn(s)
<1>1. Turn(s) \in Seq(History) /\ \A k \in 1 .. Len(trace) : Turn(trace[k]) \in Seq(History)
  BY TurnType
<1>2. Turns(trace) \in Seq(Seq(History)) /\ Len(Turns(trace)) = Len(trace)
  BY <1>1 DEF Turns
<1>3. Turns(Append(trace, s)) = Append(Turns(trace), Turn(s))
  <2>1. /\ Len(Append(trace, s)) = Len(trace) + 1
        /\ \A k \in 1 .. Len(trace) : Append(trace, s)[k] = trace[k]
        /\ Append(trace, s)[Len(trace) + 1] = s
    OBVIOUS
  <2>2. QED
    BY <2>1 DEF Turns
<1>4. /\ FlattenSeq(Turns(trace)) \in Seq(History)
      /\ FlattenSeq(Append(Turns(trace), Turn(s))) = FlattenSeq(Turns(trace)) \o Turn(s)
  BY <1>1, <1>2, FlattenAppend
<1>5. <<UserMessage>> \in Seq(History)
  BY DEF History
<1> DEFINE first == <<UserMessage>>
           told == FlattenSeq(Turns(trace))
           turn == Turn(s)
<1>6. first \o (told \o turn) = (first \o told) \o turn
  <2>1. first \in Seq(History) /\ told \in Seq(History) /\ turn \in Seq(History)
    BY <1>1, <1>4, <1>5
  <2> HIDE DEF first, told, turn
  <2>2. QED
    BY <2>1, ConcatAssociative
<1>7. FlattenSeq(Turns(Append(trace, s))) = told \o turn
  BY <1>3, <1>4
<1>8. QED
  BY <1>6, <1>7

-----------------------------------------------------------------------------
(* The steps of run()                                                      *)

\* run() starts with an empty trace and the user's message.
LEMMA InitTrace == Init => TraceInv
<1> SUFFICES ASSUME Init PROVE TraceInv
  OBVIOUS
<1>1. /\ pc = "start" /\ status = CREATED /\ iteration = 0 /\ messages = <<UserMessage>>
      /\ steps = << >> /\ response = << >> /\ tool_calls = << >> /\ finished = << >>
  BY DEF Init
<1>2. ControlInv
  BY InitEstablishes
<1>3. response \in Contents
  <2>1. << >> \in [1 .. 0 -> Call \union {TextLine, MalformedLine}]
    OBVIOUS
  <2>2. 0 \in 0 .. MaxLines
    BY ExecutorAssumption
  <2>3. QED
    BY <1>1, <2>1, <2>2 DEF Contents
<1>4. tool_calls \in Seq(Call) /\ Len(tool_calls) <= MaxLines /\ finished \in Seq(Finished)
  BY <1>1, ExecutorAssumption
<1>5. StepsInv
  BY <1>1, ExecutorAssumption DEF StepsInv, CREATED, COMPLETED
<1>6. TranscriptInv
  <2>1. Turns(steps) = << >>
    BY <1>1 DEF Turns
  <2>2. FlattenSeq(<< >>) = << >>
    BY DEF FlattenSeq
  <2>3. <<UserMessage>> \o << >> = <<UserMessage>>
    BY ConcatEmptySeq
  <2>4. QED
    BY <1>1, <2>1, <2>2, <2>3 DEF TranscriptInv
<1>7. QED
  BY <1>1, <1>2, <1>3, <1>4, <1>5, <1>6 DEF TraceInv, ToolsInv, ResultInv

\* The last reply becomes a step without calls.
LEMMA FinalAnswerKeepsTrace ==
  ASSUME TraceInv, ControlInv', NEW content \in Contents, FinalAnswer(content)
  PROVE  TraceInv'
<1> DEFINE s == [iteration |-> iteration, model_response |-> content,
                 tool_calls |-> << >>, tool_results |-> << >>]
<1>1. /\ pc = "model" /\ pc' = "returned" /\ status' = COMPLETED
      /\ parse_tool_calls(content) = << >>
      /\ steps' = Append(steps, s)
      /\ result' = [final_answer |-> content, steps |-> Len(steps) + 1,
                    total_iterations |-> iteration + 1]
      /\ response' = content
      /\ UNCHANGED <<iteration, messages, tool_calls, finished, blame>>
  BY DEF FinalAnswer
<1>2. /\ steps \in Seq(Traced) /\ Len(steps) = iteration /\ iteration \in Nat
      /\ iteration < MaxIterations /\ MaxIterations \in Nat
      /\ \A k \in 1 .. iteration : steps[k].tool_calls # << >>
  BY <1>1, ExecutorAssumption DEF TraceInv, ControlInv, StepsInv, RUNNING, COMPLETED
<1>3. s \in Traced
  BY <1>1, <1>2 DEF Traced
<1>4. s.model_response = content /\ s.tool_calls = << >>
  OBVIOUS
<1> HIDE DEF s
<1>5. /\ steps' \in Seq(Traced) /\ Len(steps') = iteration + 1 /\ steps'[iteration + 1] = s
      /\ \A k \in 1 .. iteration : steps'[k] = steps[k]
  BY <1>1, <1>2, <1>3
<1>6. StepsInv'
  BY <1>1, <1>2, <1>4, <1>5 DEF StepsInv
<1>7. ResultInv'
  BY <1>1, <1>2, <1>4, <1>5 DEF ResultInv, COMPLETED, FAILED
<1>8. QED
  BY <1>1, <1>6, <1>7 DEF TraceInv, ToolsInv, TranscriptInv

\* The answers of an iteration become a step, and its turn the next messages.
LEMMA CollectKeepsTrace ==
  ASSUME TraceInv, ControlInv', Collect
  PROVE  TraceInv'
<1> DEFINE answers == gather(finished)
           s == [iteration |-> iteration, model_response |-> response,
                 tool_calls |-> tool_calls, tool_results |-> answers]
<1>1. /\ AllFinished /\ pc = "tools" /\ pc' = "loop" /\ status' = RUNNING
      /\ iteration' = iteration + 1
      /\ messages' = messages \o ToolMessages(answers) \o <<AssistantMessage(response)>>
      /\ steps' = Append(steps, s)
      /\ UNCHANGED <<response, tool_calls, finished, result, blame>>
  BY DEF Collect, AllFinished
<1>2. /\ steps \in Seq(Traced) /\ Len(steps) = iteration /\ iteration \in Nat
      /\ iteration < MaxIterations /\ MaxIterations \in Nat
      /\ \A k \in 1 .. iteration : steps[k].tool_calls # << >>
  BY <1>1, ExecutorAssumption DEF TraceInv, ControlInv, StepsInv, AWAITING_TOOL, COMPLETED
<1>3. /\ ToolsInv /\ tool_calls \in Seq(Call) /\ response \in Contents
      /\ finished \in Seq(Finished) /\ tool_calls = parse_tool_calls(response)
      /\ tool_calls # << >> /\ messages = <<UserMessage>> \o FlattenSeq(Turns(steps))
  BY <1>1 DEF TraceInv, ToolsInv, TranscriptInv
<1>4. /\ answers \in Seq(Answers) /\ Len(answers) = Len(tool_calls)
      /\ \A i \in 1 .. Len(tool_calls) : AnswerOf(tool_calls[i], answers[i])
  BY <1>1, <1>3, Gathered
<1> HIDE DEF answers
<1>5. s \in Traced
  BY <1>2, <1>3, <1>4 DEF Traced
<1>6. ToolMessages(answers) \o <<AssistantMessage(response)>> = Turn(s)
  <2>1. ASSUME NEW i \in 1 .. Len(tool_calls)
        PROVE  answers[i] = [to |-> tool_calls[i], is |-> answers[i].is]
    BY <1>4 DEF AnswerOf, Answers
  <2>2. \A i \in 1 .. Len(tool_calls) :
          ToolMessage(tool_calls[i], answers[i])
            = [role |-> "tool", name |-> tool_calls[i].name,
               content |-> [to |-> tool_calls[i], is |-> answers[i].is]]
    BY <2>1 DEF ToolMessage
  <2>3. ToolMessages(answers)
          = [i \in 1 .. Len(tool_calls) |->
               [role |-> "tool", name |-> tool_calls[i].name,
                content |-> [to |-> tool_calls[i], is |-> answers[i].is]]]
    BY <1>4, <2>2 DEF ToolMessages
  <2>4. QED
    BY <2>3 DEF Turn
<1>7. messages' = messages \o Turn(s)
  <2>1. ToolMessages(answers) \in Seq(History) /\ <<AssistantMessage(response)>> \in Seq(History)
    <3>1. \A i \in 1 .. Len(answers) : ToolMessage(tool_calls[i], answers[i]) \in History
      BY <1>4 DEF History, AnswerOf
    <3>2. AssistantMessage(response) \in History
      BY <1>3 DEF History
    <3>3. QED
      BY <1>4, <3>1, <3>2 DEF ToolMessages
  <2>2. messages \in Seq(History)
    <3>1. \A k \in 1 .. Len(steps) : Turn(steps[k]) \in Seq(History)
      BY <1>2, TurnType
    <3>2. Turns(steps) \in Seq(Seq(History))
      BY <1>2, <3>1 DEF Turns
    <3>3. FlattenSeq(Turns(steps)) \in Seq(History)
      BY <2>1, <3>2, FlattenAppend
    <3>4. <<UserMessage>> \in Seq(History)
      BY DEF History
    <3>5. QED
      BY <1>3, <3>3, <3>4, ConcatProperties
  <2>3. (messages \o ToolMessages(answers)) \o <<AssistantMessage(response)>>
          = messages \o (ToolMessages(answers) \o <<AssistantMessage(response)>>)
    BY <2>1, <2>2, ConcatAssociative
  <2>4. QED
    BY <1>1, <1>6, <2>3
<1>8. s.tool_calls = tool_calls
  OBVIOUS
<1> HIDE DEF s
<1>9. TranscriptInv'
  <2>1. <<UserMessage>> \o FlattenSeq(Turns(Append(steps, s)))
          = (<<UserMessage>> \o FlattenSeq(Turns(steps))) \o Turn(s)
    BY <1>2, <1>5, TurnAdded
  <2>2. QED
    BY <1>1, <1>3, <1>7, <2>1 DEF TranscriptInv
<1>10. /\ steps' \in Seq(Traced) /\ Len(steps') = iteration + 1 /\ steps'[iteration + 1] = s
       /\ \A k \in 1 .. iteration : steps'[k] = steps[k]
  BY <1>1, <1>2, <1>5
<1>11. StepsInv'
  BY <1>1, <1>2, <1>3, <1>8, <1>10 DEF StepsInv, RUNNING, COMPLETED
<1>12. QED
  BY <1>1, <1>9, <1>11 DEF TraceInv, ToolsInv, ResultInv

\* Every step of run() and of a tool preserves TraceInv.
LEMMA StepKeepsTrace == TraceInv /\ ControlInv' /\ [Next]_vars => TraceInv'
<1> SUFFICES ASSUME TraceInv, ControlInv', [Next]_vars PROVE TraceInv'
  OBVIOUS
<1> USE DEF CREATED, RUNNING, AWAITING_TOOL, COMPLETED, FAILED
<1>0. /\ ControlInv /\ MaxIterations \in Nat /\ iteration \in Nat
      /\ steps \in Seq(Traced) /\ Len(steps) \in Nat
  BY ExecutorAssumption DEF TraceInv, StepsInv, ControlInv
<1>1. CASE Start
  BY <1>1, <1>0 DEF Start, TraceInv, ControlInv, ToolsInv, StepsInv, ResultInv, TranscriptInv
<1>2. CASE Ask
  BY <1>2, <1>0 DEF Ask, TraceInv, ControlInv, ToolsInv, StepsInv, ResultInv, TranscriptInv
<1>3. CASE GiveUp
  <2>1. /\ pc = "loop" /\ pc' = "returned" /\ status = RUNNING /\ status' = FAILED
        /\ iteration = MaxIterations
        /\ result'.steps = Len(steps) /\ result'.total_iterations = MaxIterations
        /\ steps # << >> => result'.final_answer = steps[Len(steps)].model_response
        /\ UNCHANGED <<iteration, messages, steps, response, tool_calls, finished>>
    BY <1>3, <1>0 DEF GiveUp, ControlInv, Last
  <2>2. Len(steps) = iteration
    <3>1. Len(steps) = iteration + 0
      BY <2>1 DEF TraceInv, StepsInv
    <3>2. QED
      BY <1>0, <3>1
  <2>3. StepsInv'
    BY <2>1, <2>2 DEF TraceInv, StepsInv
  <2>4. ResultInv'
    BY <2>1, <2>2 DEF ResultInv
  <2>5. QED
    BY <2>1, <2>3, <2>4 DEF TraceInv, ToolsInv, TranscriptInv
<1>4. ASSUME NEW content \in Contents, FinalAnswer(content) PROVE TraceInv'
  BY <1>4, FinalAnswerKeepsTrace
<1>5. ASSUME NEW content \in Contents, CallTools(content) PROVE TraceInv'
  <2>1. /\ pc = "model" /\ pc' = "tools" /\ status = RUNNING /\ status' = AWAITING_TOOL
        /\ response' = content /\ tool_calls' = parse_tool_calls(content)
        /\ parse_tool_calls(content) # << >> /\ finished' = << >>
        /\ UNCHANGED <<iteration, messages, steps, result>>
    BY <1>5, <1>0 DEF CallTools, ControlInv
  <2>2. tool_calls' \in Seq(Call) /\ Len(tool_calls') <= MaxLines
    <3>1. /\ parse_tool_calls(content) \in Seq(Call)
          /\ Len(parse_tool_calls(content)) \in 0 .. MaxLines /\ MaxLines \in Nat
      BY ParsedCalls, ExecutorAssumption
    <3>2. QED
      BY <2>1, <3>1
  <2>3. ToolsInv' /\ finished' \in Seq(Finished)
    BY <2>1 DEF ToolsInv
  <2>4. StepsInv'
    BY <2>1 DEF TraceInv, StepsInv
  <2>5. QED
    BY <2>1, <2>2, <2>3, <2>4 DEF TraceInv, ResultInv, TranscriptInv
<1>6. CASE ModelRaises
  BY <1>6, <1>0 DEF ModelRaises, TraceInv, ToolsInv, StepsInv, ResultInv, TranscriptInv
<1>7. ASSUME NEW i \in 1 .. MaxLines, NEW outcome \in Outcomes, ToolEnds(i, outcome)
      PROVE  TraceInv'
  <2> DEFINE answer == [to |-> tool_calls[i], is |-> outcome]
             n == Len(finished)
  <2>1. /\ pc = "tools" /\ i \in 1 .. Len(tool_calls)
        /\ \A k \in 1 .. Len(finished) : finished[k].index # i
        /\ outcome \in execute_tool(tool_calls[i])
        /\ finished' = Append(finished, [index |-> i, answer |-> answer])
        /\ UNCHANGED <<pc, status, iteration, messages, steps, response, tool_calls, result>>
    BY <1>7 DEF ToolEnds
  <2>2. ToolsInv /\ tool_calls \in Seq(Call) /\ finished \in Seq(Finished)
    BY DEF TraceInv
  <2>3. tool_calls[i] \in Call /\ i \in Nat
    BY <2>1, <2>2
  <2>4. answer \in Answers /\ answer.to = tool_calls[i] /\ answer.is = outcome
    BY <2>3 DEF Answers
  <2>5. AnswerOf(tool_calls[i], answer)
    BY <2>1, <2>4 DEF AnswerOf
  <2> HIDE DEF answer
  <2>6. [index |-> i, answer |-> answer] \in Finished
    BY <2>3, <2>4 DEF Finished
  <2>7. /\ finished' \in Seq(Finished) /\ Len(finished') = n + 1 /\ n \in Nat
        /\ \A k \in 1 .. n : finished'[k] = finished[k]
        /\ finished'[n + 1] = [index |-> i, answer |-> answer]
    BY <2>1, <2>2, <2>6
  <2> HIDE DEF n
  <2>8. ASSUME NEW k \in 1 .. n + 1
        PROVE  /\ finished'[k].index \in 1 .. Len(tool_calls)
               /\ AnswerOf(tool_calls[finished'[k].index], finished'[k].answer)
    <3>1. CASE k = n + 1
      BY <2>1, <2>5, <2>7, <3>1
    <3>2. CASE k # n + 1
      <4>1. k \in 1 .. n /\ k \in 1 .. Len(finished)
        BY <2>7, <3>2 DEF n
      <4>2. QED
        BY <2>1, <2>2, <2>7, <4>1 DEF ToolsInv
    <3>3. QED
      BY <3>1, <3>2
  <2>9. ASSUME NEW k \in 1 .. n + 1, NEW l \in 1 .. n + 1,
               finished'[k].index = finished'[l].index
        PROVE  k = l
    <3>1. \A j \in 1 .. n : finished'[j].index = finished[j].index /\ finished[j].index # i
      BY <2>1, <2>7 DEF n
    <3>2. finished'[n + 1].index = i
      BY <2>7
    <3>3. \A j \in 1 .. n + 1 : j = n + 1 \/ j \in 1 .. n
      BY <2>7
    <3>4. CASE k \in 1 .. n /\ l \in 1 .. n
      BY <2>1, <2>2, <2>9, <3>1, <3>4 DEF ToolsInv, n
    <3>5. QED
      BY <2>9, <3>1, <3>2, <3>3, <3>4
  <2>10. ToolsInv'
    BY <2>1, <2>2, <2>7, <2>8, <2>9 DEF ToolsInv
  <2>11. QED
    BY <2>1, <2>7, <2>10 DEF TraceInv, StepsInv, ResultInv, TranscriptInv
<1>8. CASE Collect
  BY <1>8, CollectKeepsTrace
<1>9. CASE CollectRaises
  <2>1. /\ pc' = "raised"
        /\ UNCHANGED <<status, iteration, steps, response, tool_calls, finished, result>>
    BY <1>9 DEF CollectRaises
  <2>2. StepsInv'
    BY <2>1 DEF TraceInv, StepsInv
  <2>3. QED
    BY <2>1, <2>2 DEF TraceInv, ToolsInv, ResultInv, TranscriptInv
<1>10. CASE Over \/ UNCHANGED vars
  <2>1. UNCHANGED vars
    BY <1>10 DEF Over
  <2>2. StepsInv' /\ ToolsInv' /\ ResultInv' /\ TranscriptInv'
    BY <2>1 DEF vars, TraceInv, StepsInv, ToolsInv, ResultInv, TranscriptInv
  <2>3. QED
    BY <2>1, <2>2 DEF vars, TraceInv
<1>11. QED
  BY <1>1, <1>2, <1>3, <1>4, <1>5, <1>6, <1>7, <1>8, <1>9, <1>10 DEF Next, Step

\* The trace, the history and the answers agree in every reachable state.
THEOREM TraceInvariant == Spec => []TraceInv
<1>1. TraceInv /\ [Next]_vars => TraceInv'
  BY StepPreserves, StepKeepsTrace DEF TraceInv
<1>2. QED
  BY InitTrace, <1>1, PTL DEF Spec

\* Every variable keeps its type, and the trace is never longer than max_iterations.
THEOREM TypeCorrect == Spec => []TypeOK
<1>1. TraceInv => TypeOK
  BY ExecutorAssumption DEF TraceInv, ControlInv, StepsInv, TypeOK
<1>2. QED
  BY <1>1, TraceInvariant, PTL

\* Every directive of a reply that parses is executed, and its outcome recorded at its own
\* position of the step, whatever order the tools ended in; a call of a tool nobody
\* registered fails.
THEOREM OutcomesAreKept == Spec => []OutcomesStayWithTheirCalls
<1>1. TraceInv => OutcomesStayWithTheirCalls
  <2> SUFFICES ASSUME TraceInv, NEW k \in 1 .. Len(steps)
               PROVE  /\ steps[k].tool_calls
                           = Picked(steps[k].model_response,
                                    {i \in DOMAIN steps[k].model_response :
                                       steps[k].model_response[i] \in Call})
                      /\ Len(steps[k].tool_results) = Len(steps[k].tool_calls)
                      /\ \A i \in 1 .. Len(steps[k].tool_calls) :
                           /\ steps[k].tool_results[i].to = steps[k].tool_calls[i]
                           /\ steps[k].tool_calls[i].name \notin Registered
                                => steps[k].tool_results[i].is \in Errors
    BY DEF OutcomesStayWithTheirCalls
  <2>1. steps[k] \in Traced
    BY DEF TraceInv, StepsInv
  <2>2. /\ steps[k].tool_calls = parse_tool_calls(steps[k].model_response)
        /\ steps[k].model_response \in Contents
        /\ Len(steps[k].tool_results) = Len(steps[k].tool_calls)
        /\ \A i \in 1 .. Len(steps[k].tool_calls) :
             AnswerOf(steps[k].tool_calls[i], steps[k].tool_results[i])
    BY <2>1 DEF Traced
  <2>3. \A call : call.name \notin Registered => execute_tool(call) = {Failed}
    BY DEF execute_tool, execute
  <2>4. Failed \in Errors
    BY DEF Errors
  <2>5. QED
    BY <2>2, <2>3, <2>4, ParsedCalls DEF AnswerOf
<1>2. QED
  BY <1>1, TraceInvariant, PTL

\* Whenever run() calls the model, it sends the user's message and the turns of the trace,
\* each tool's message with that tool's own answer.
THEOREM PromptsAreFull == Spec => []PromptIsFullTranscript
<1>1. TraceInv => PromptIsFullTranscript
  BY DEF TraceInv, TranscriptInv, PromptIsFullTranscript, Turns
<1>2. QED
  BY <1>1, TraceInvariant, PTL

\* What run() returns agrees with its trace: the counts, the answer, and COMPLETED exactly
\* when the last reply asked for no tool.
THEOREM ResultsAreTrue == Spec => []ResultMatchesTrace
<1>1. TraceInv => ResultMatchesTrace
  <2> SUFFICES ASSUME TraceInv, pc = "returned"
               PROVE  /\ result.total_iterations = Len(steps)
                      /\ result.steps = Len(steps)
                      /\ \A k \in 1 .. Len(steps) :
                           steps[k].tool_calls = << >> <=> (status = COMPLETED /\ k = Len(steps))
                      /\ status = COMPLETED => steps # << >>
                      /\ status = FAILED => Len(steps) = MaxIterations
                      /\ steps # << >> => result.final_answer = Last(steps).model_response
    BY DEF ResultMatchesTrace
  <2> USE DEF COMPLETED, FAILED
  <2>1. steps \in Seq(Traced) /\ iteration \in Nat /\ status \in {COMPLETED, FAILED}
    BY ExecutorAssumption DEF TraceInv, StepsInv, ControlInv
  <2>2. /\ status = COMPLETED => Len(steps) = iteration + 1
        /\ status = FAILED => Len(steps) = iteration /\ iteration = MaxIterations
    BY <2>1 DEF TraceInv, StepsInv, ResultInv
  <2>3. \A k \in 1 .. Len(steps) :
          steps[k].tool_calls = << >> <=> (status = COMPLETED /\ k = Len(steps))
    <3>1. /\ \A k \in 1 .. iteration : steps[k].tool_calls # << >>
          /\ status = COMPLETED => steps[Len(steps)].tool_calls = << >>
      BY DEF TraceInv, StepsInv
    <3>2. QED
      BY <2>1, <2>2, <3>1
  <2>4. /\ result.total_iterations = Len(steps) /\ result.steps = Len(steps)
        /\ steps # << >> => result.final_answer = Last(steps).model_response
    BY DEF TraceInv, ResultInv, Last
  <2>5. (status = COMPLETED => steps # << >>) /\ (status = FAILED => Len(steps) = MaxIterations)
    BY <2>1, <2>2
  <2>6. QED
    BY <2>3, <2>4, <2>5
<1>2. QED
  BY <1>1, TraceInvariant, PTL

-----------------------------------------------------------------------------
(* Validated calls                                                         *)

\* What an expression may come to, as a number or as the error in its place.
Values == Signs \union {Unserialisable, Denied, Failed}

LEMMA BinOpValues ==
  ASSUME NEW op, NEW l \in Values, NEW r \in Values
  PROVE  BinOp(op, l, r) \subseteq Values
<1> USE DEF Values, Signs, Unserialisable, Denied, Failed
<1>1. Arithmetic(op, l, r) \subseteq Values
  BY DEF Arithmetic
<1>2. QED
  BY <1>1 DEF BinOp

LEMMA NegatedValues == \A v \in Values : Negated(v) \in Values
BY DEF Negated, Values, Signs

\* A node leaves a stack of values.
LEMMA NodeValues ==
  ASSUME NEW stack \in Seq(Values), NEW node
  PROVE  eval_node(stack, node) \subseteq Seq(Values)
<1> DEFINE n == Len(stack)
           Below(k) == SubSeq(stack, 1, n - k)
<1>0. n \in Nat /\ Signs \subseteq Values /\ Denied \in Values
  BY DEF Values
<1>1. << Denied >> \in Seq(Values) /\ Append(stack, Denied) \in Seq(Values)
  BY <1>0
<1>2. n > 0 => stack[n] \in Values /\ Below(1) \in Seq(Values)
  BY <1>0
<1>3. n > 1 => stack[n - 1] \in Values /\ Below(2) \in Seq(Values)
  BY <1>0
<1>4. node \in Signs => Append(stack, node) \in Seq(Values)
  BY <1>0
<1>5. n > 0 => Append(Below(1), Negated(stack[n])) \in Seq(Values)
  <2> SUFFICES ASSUME n > 0 PROVE Append(Below(1), Negated(stack[n])) \in Seq(Values)
    OBVIOUS
  <2>1. Negated(stack[n]) \in Values /\ Below(1) \in Seq(Values)
    BY <1>2, NegatedValues
  <2> HIDE DEF Below, n
  <2>2. QED
    BY <2>1
<1>6. n > 1 => \A v \in BinOp(node, stack[n - 1], stack[n]) : Append(Below(2), v) \in Seq(Values)
  <2> SUFFICES ASSUME n > 1, NEW v \in BinOp(node, stack[n - 1], stack[n])
               PROVE  Append(Below(2), v) \in Seq(Values)
    OBVIOUS
  <2>1. stack[n] \in Values /\ stack[n - 1] \in Values /\ Below(2) \in Seq(Values)
    BY <1>0, <1>2, <1>3
  <2> HIDE DEF Below, n
  <2>2. v \in Values
    BY <2>1, BinOpValues
  <2>3. QED
    BY <2>1, <2>2
<1>7. eval_node(stack, node)
        = CASE node \in Signs -> {Append(stack, node)}
            [] node = "usub" /\ n > 0 -> {Append(Below(1), Negated(stack[n]))}
            [] node = "uadd" /\ n > 0 -> {stack}
            [] node \in ALLOWED_BINOPS /\ n > 1 ->
                 {Append(Below(2), v) : v \in BinOp(node, stack[n - 1], stack[n])}
            [] \/ node \in {"usub", "uadd"} /\ n = 0
               \/ node \in ALLOWED_BINOPS /\ n < 2 -> {<< Denied >>}
            [] OTHER -> {Append(stack, Denied)}
  BY DEF eval_node
<1> HIDE DEF Below, n
<1>8. QED
  BY <1>1, <1>4, <1>5, <1>6, <1>7

\* No expression ends in an argument error.
LEMMA EvaluatesToValues ==
  ASSUME NEW expression, Len(expression) \in Nat
  PROVE  ArgumentError \notin evaluate(expression)
<1> DEFINE n == Len(expression)
           D == SUBSET Seq(Values)
           Turn1(i, d) == UNION {eval_node(stack, expression[i]) : stack \in d}
           t == [i \in 1 .. n |-> [d \in D |-> Turn1(i, d)]]
           Fixed(h) == h = [i \in 0 .. n |->
                              IF i = 0 THEN {<< >>}
                              ELSE UNION {eval_node(stack, expression[i]) : stack \in h[i - 1]}]
<1>1. \A i \in 1 .. n : \A d \in D : Turn1(i, d) \in D
  BY NodeValues
<1>2. {<< >>} \in D
  OBVIOUS
<1>3. PICK f \in [0 .. n -> D] : Unfolds(f, n, {<< >>}, t)
  <2>1. t \in [1 .. n -> [D -> D]] /\ n \in Nat
    <3> HIDE DEF Turn1, D
    <3>1. QED
      BY <1>1
  <2> HIDE DEF t, D, n
  <2>2. QED
    BY <1>2, <2>1, UnfoldExists
<1>4. Fixed(f)
  <2>1. DOMAIN f = 0 .. n /\ f[0] = {<< >>}
    BY <1>3 DEF Unfolds
  <2>2. ASSUME NEW i \in 1 .. n PROVE f[i] = Turn1(i, f[i - 1])
    <3>1. f[i] = t[i][f[i - 1]]
      <4> HIDE DEF t
      <4>1. QED
        BY <1>3 DEF Unfolds
    <3>2. f[i - 1] \in D
      <4> HIDE DEF D
      <4>1. QED
        BY <1>3
    <3> HIDE DEF Turn1, D
    <3>3. QED
      BY <3>1, <3>2
  <2>3. \A i \in 0 .. n : i = 0 \/ i \in 1 .. n
    OBVIOUS
  <2>4. f = [i \in 0 .. n |-> f[i]]
    BY <1>3
  <2> HIDE DEF n
  <2>5. QED
    BY <2>1, <2>2, <2>3, <2>4
<1>5. PICK h : h = CHOOSE g : Fixed(g)
  OBVIOUS
<1>6. Fixed(h)
  <2> HIDE DEF Fixed
  <2>1. QED
    BY <1>4, <1>5
<1>7. \A i \in 0 .. n : h[i] \in D
  <2> DEFINE Bad == {i \in 0 .. n : h[i] \notin D}
  <2> SUFFICES ASSUME Bad # {} PROVE FALSE
    OBVIOUS
  <2>1. PICK m \in Bad : \A k \in Bad : m <= k
    <3>1. Bad \subseteq Nat
      OBVIOUS
    <3> HIDE DEF Bad
    <3>2. QED
      BY <3>1, LeastNatural
  <2>2. m \in 0 .. n /\ h[m] \notin D
    OBVIOUS
  <2>3. m # 0
    BY <1>2, <1>6, <2>2
  <2>4. m \in 1 .. n /\ m - 1 \in 0 .. n /\ ~ (m <= m - 1)
    BY <2>2, <2>3
  <2>5. h[m - 1] \in D
    <3> HIDE DEF D
    <3>1. QED
      BY <2>1, <2>4
  <2>6. h[m] = Turn1(m, h[m - 1])
    BY <1>6, <2>2, <2>3
  <2>7. QED
    <3> HIDE DEF Turn1, D
    <3>1. QED
      BY <1>1, <2>2, <2>4, <2>5, <2>6
<1>8. evaluate(expression) = {Evaluated(stack) : stack \in h[n]}
  BY <1>5 DEF evaluate
<1>9. n \in 0 .. n
  OBVIOUS
<1>10. \A stack \in Seq(Values) : Evaluated(stack) # ArgumentError
  <2> SUFFICES ASSUME NEW stack \in Seq(Values) PROVE Evaluated(stack) # ArgumentError
    OBVIOUS
  <2>1. Len(stack) = 1 => stack[1] \in Values
    OBVIOUS
  <2>2. QED
    BY <2>1 DEF Evaluated, Values, Signs, Value, Denied, Unserialisable, Failed, ArgumentError
<1>11. QED
  BY <1>7, <1>8, <1>9, <1>10

\* A call the validator accepts does not end in an argument error.
LEMMA ValidatedCall ==
  ASSUME NEW call \in Call, call.name \in Registered,
         validate(call.name, call.arguments, Registered)
  PROVE  ArgumentError \notin execute_tool(call)
<1> DEFINE args == call.arguments
<1> USE DEF Value, Unserialisable, Denied, Failed, ArgumentError
<1>1. call.name \in {"calculator", "http_get", "sql_query"}
  BY ExecutorAssumption DEF Schemas
<1>2. /\ Schemas[call.name].required \subseteq DOMAIN args
      /\ \A key \in DOMAIN args \intersect DOMAIN Schemas[call.name].properties :
           IsInstance(args[key], Schemas[call.name].properties[key])
  BY DEF validate, validate_schema, TypesMatch
<1>3. \A key \in DOMAIN args : Len(args[key].content) \in Nat
  BY ExecutorAssumption
<1>4. CASE call.name = "calculator"
  <2>1. "expression" \in DOMAIN args /\ IsInstance(args["expression"], "string")
    BY <1>2, <1>4 DEF Schemas
  <2>2. ~ Lacks(args, "expression") /\ ~ Mistyped(args, "expression", "string")
    BY <2>1 DEF Lacks, Mistyped, IsInstance
  <2>3. execute_tool(call) = evaluate(args.expression.content)
    BY <1>4, <2>2 DEF execute_tool, execute, calculator
  <2>4. QED
    BY <1>3, <2>1, <2>3, EvaluatesToValues
<1>5. CASE call.name = "http_get"
  <2>1. /\ "url" \in DOMAIN args /\ IsInstance(args["url"], "string")
        /\ "headers" \in DOMAIN args => IsInstance(args["headers"], "object")
    BY <1>2, <1>5 DEF Schemas
  <2>2. /\ ~ Lacks(args, "url") /\ ~ Mistyped(args, "url", "string")
        /\ ~ Mistyped(args, "headers", "object")
    BY <2>1 DEF Lacks, Mistyped, IsInstance
  <2>3. execute_tool(call) = http_get(args)
    BY <1>5 DEF execute_tool, execute
  <2>4. http_get(args) \subseteq {Denied, Value, Failed}
    BY <2>2 DEF http_get
  <2>5. ArgumentError \notin {Denied, Value, Failed}
    OBVIOUS
  <2> HIDE DEF args
  <2>6. QED
    BY <2>3, <2>4, <2>5, Zenon
<1>6. CASE call.name = "sql_query"
  <2>1. /\ "query" \in DOMAIN args /\ IsInstance(args["query"], "string")
        /\ "limit" \in DOMAIN args => IsInstance(args["limit"], "integer")
    BY <1>2, <1>6 DEF Schemas
  <2>2. /\ ~ Lacks(args, "query") /\ ~ Mistyped(args, "query", "string")
        /\ ~ (Mistyped(args, "limit", "integer") /\ Mistyped(args, "limit", "boolean"))
    BY <2>1 DEF Lacks, Mistyped, IsInstance
  <2>3. execute_tool(call) = sql_query(args)
    BY <1>6 DEF execute_tool, execute
  <2>4. sql_query(args) \subseteq {Denied, Value, Unserialisable, Failed}
    BY <2>2 DEF sql_query
  <2>5. ArgumentError \notin {Denied, Value, Unserialisable, Failed}
    OBVIOUS
  <2> HIDE DEF args
  <2>6. QED
    BY <2>3, <2>4, <2>5, Zenon
<1>7. QED
  BY <1>1, <1>4, <1>5, <1>6

\* A call the validator accepts, made by the executor, never fails for an argument that
\* is missing or of a type the tool cannot take.
THEOREM ValidationSuffices == Spec => []ValidatedCallsRun
<1>1. TraceInv => ValidatedCallsRun
  <2> SUFFICES ASSUME TraceInv, NEW k \in 1 .. Len(steps),
                      NEW i \in 1 .. Len(steps[k].tool_calls),
                      steps[k].tool_calls[i].name \in Registered,
                      validate(steps[k].tool_calls[i].name, steps[k].tool_calls[i].arguments,
                               Registered)
               PROVE  steps[k].tool_results[i].is # ArgumentError
    BY DEF ValidatedCallsRun
  <2>1. steps[k] \in Traced
    BY DEF TraceInv, StepsInv
  <2>2. /\ steps[k].tool_calls[i] \in Call
        /\ AnswerOf(steps[k].tool_calls[i], steps[k].tool_results[i])
    BY <2>1 DEF Traced
  <2>3. QED
    BY <2>2, ValidatedCall DEF AnswerOf
<1>2. QED
  BY <1>1, TraceInvariant, PTL
=============================================================================
