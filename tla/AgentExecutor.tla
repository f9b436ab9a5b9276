--------------------------- MODULE AgentExecutor ---------------------------
(***************************************************************************)
(* One call of athenai.agents.executor.AgentExecutor.run(), with the tools *)
(* of an iteration running concurrently under asyncio.gather.  Agent.run() *)
(* only forwards to it.  run() suspends at `await model.generate()` and at *)
(* `await asyncio.gather()`; the code between two suspensions is one       *)
(* action, except that the test of the for loop is an action of its own.   *)
(*                                                                         *)
(* A model reply is the sequence of its lines, each a TOOL_CALL directive, *)
(* a line with the prefix that does not parse, or text.  The structured    *)
(* metadata["tool_calls"] path is left out: no adapter fills it.           *)
(***************************************************************************)
EXTENDS Tools, AgentState, Ordering

CONSTANTS
  Registered,      \* names in the ToolRegistry
  Call,            \* directives the model may write
  MaxLines,        \* bound on the lines of a reply
  MaxIterations    \* max_iterations

ASSUME ExecutorAssumption ==
  /\ MaxIterations \in Nat
  /\ MaxLines \in Nat
  /\ Registered \subseteq DOMAIN Schemas
  /\ \A call \in Call :
       /\ call.kind = "call"
       /\ \A key \in DOMAIN call.arguments : Len(call.arguments[key].content) \in Nat

VARIABLES
  pc,           \* where run() is
  status,       \* AgentStatus
  iteration,    \* loop variable
  messages,     \* history sent to the model
  steps,        \* list of AgentStep
  response,     \* reply of the current iteration
  tool_calls,   \* calls parsed from it
  finished,     \* answers of this iteration's tools, in completion order
  result,       \* the AgentResult returned
  blame         \* history: which await the escaping exception came from

vars == <<pc, status, iteration, messages, steps, response, tool_calls, finished,
          result, blame>>

-----------------------------------------------------------------------------
(* Replies, calls and answers                                              *)

TextLine == [kind |-> "text", name |-> "none"]
MalformedLine == [kind |-> "malformed", name |-> "none"]
Contents == UNION {[1 .. n -> Call \union {TextLine, MalformedLine}] : n \in 0 .. MaxLines}

\* Malformed directives are skipped, not reported.
parse_tool_calls(content) == Picked(content, {i \in DOMAIN content : content[i].kind = "call"})

\* What a call can come back with: a value, encodable or not, or the error it raised.
execute_tool(call) == execute(Registered, call.name, call.arguments)

Answers == [to : Call, is : Outcomes]
Finished == [index : Nat, answer : Answers]

\* asyncio.gather: the i-th result is the i-th awaitable's, whenever it completed.
gather(fin) ==
  [i \in 1 .. Len(fin) |-> (CHOOSE f \in ToSet(fin) : f.index = i).answer]

UserMessage == [role |-> "user"]
ToolMessage(call, answer) == [role |-> "tool", name |-> call.name, content |-> answer]
AssistantMessage(content) == [role |-> "assistant", content |-> content]

NoResult == [final_answer |-> <<>>, steps |-> 0, total_iterations |-> 0]

-----------------------------------------------------------------------------

Init ==
  /\ pc = "start"
  /\ status = CREATED
  /\ iteration = 0
  /\ messages = <<UserMessage>>
  /\ steps = <<>>
  /\ response = <<>>
  /\ tool_calls = <<>>
  /\ finished = <<>>
  /\ result = NoResult
  /\ blame = "nothing"

Start ==
  /\ pc = "start"
  /\ transition(status, RUNNING)
  /\ status' = RUNNING
  /\ pc' = "loop"
  /\ UNCHANGED <<iteration, messages, steps, response, tool_calls, finished, result, blame>>

\* Mutant: the loop runs one iteration too many.
AskPastCap ==
  /\ pc = "loop"
  /\ iteration <= MaxIterations
  /\ pc' = "model"
  /\ UNCHANGED <<status, iteration, messages, steps, response, tool_calls, finished,
                 result, blame>>

\* for iteration in range(max_iterations): send the history to the model.
Ask ==
  /\ pc = "loop"
  /\ iteration < MaxIterations
  /\ pc' = "model"
  /\ UNCHANGED <<status, iteration, messages, steps, response, tool_calls, finished,
                 result, blame>>

\* The loop ran out: the last reply stands in for an answer.
GiveUp ==
  /\ pc = "loop"
  /\ iteration = MaxIterations
  /\ transition(status, FAILED)
  /\ status' = FAILED
  /\ result' = [final_answer |-> IF steps = <<>> THEN <<TextLine>> ELSE Last(steps).model_response,
                steps |-> Len(steps), total_iterations |-> MaxIterations]
  /\ pc' = "returned"
  /\ UNCHANGED <<iteration, messages, steps, response, tool_calls, finished, blame>>

\* Mutant: an answer is reported with the index of its iteration, not the count.
FinalAnswerOffByOne(content) ==
  /\ pc = "model"
  /\ parse_tool_calls(content) = <<>>
  /\ transition(status, COMPLETED)
  /\ status' = COMPLETED
  /\ steps' = Append(steps, [iteration |-> iteration, model_response |-> content,
                             tool_calls |-> <<>>, tool_results |-> <<>>])
  /\ result' = [final_answer |-> content, steps |-> Len(steps) + 1,
                total_iterations |-> iteration]
  /\ response' = content
  /\ pc' = "returned"
  /\ UNCHANGED <<iteration, messages, tool_calls, finished, blame>>

\* A reply without directives is the answer.
FinalAnswer(content) ==
  /\ pc = "model"
  /\ parse_tool_calls(content) = <<>>
  /\ transition(status, COMPLETED)
  /\ status' = COMPLETED
  /\ steps' = Append(steps, [iteration |-> iteration, model_response |-> content,
                             tool_calls |-> <<>>, tool_results |-> <<>>])
  /\ result' = [final_answer |-> content, steps |-> Len(steps) + 1,
                total_iterations |-> iteration + 1]
  /\ response' = content
  /\ pc' = "returned"
  /\ UNCHANGED <<iteration, messages, tool_calls, finished, blame>>

\* A reply with directives launches all of them at once.
CallTools(content) ==
  /\ pc = "model"
  /\ parse_tool_calls(content) # <<>>
  /\ transition(status, AWAITING_TOOL)
  /\ status' = AWAITING_TOOL
  /\ response' = content
  /\ tool_calls' = parse_tool_calls(content)
  /\ finished' = <<>>
  /\ pc' = "tools"
  /\ UNCHANGED <<iteration, messages, steps, result, blame>>

\* model.generate() raises: nothing in run() catches it.
ModelRaises ==
  /\ pc = "model"
  /\ pc' = "raised"
  /\ blame' = "model"
  /\ UNCHANGED <<status, iteration, messages, steps, response, tool_calls, finished, result>>

\* One of the gathered tools returns or raises.
ToolEnds(i, outcome) ==
  /\ pc = "tools"
  /\ i \in 1 .. Len(tool_calls)
  /\ \A k \in 1 .. Len(finished) : finished[k].index # i
  /\ outcome \in execute_tool(tool_calls[i])
  /\ finished' = Append(finished, [index |-> i, answer |-> [to |-> tool_calls[i], is |-> outcome]])
  /\ UNCHANGED <<pc, status, iteration, messages, steps, response, tool_calls, result, blame>>

\* Mutant: a tool that raised is awaited for ever.
AllSucceeded ==
  /\ pc = "tools"
  /\ Len(finished) = Len(tool_calls)
  /\ \A k \in 1 .. Len(finished) : finished[k].answer.is \notin Errors

AllFinished == pc = "tools" /\ Len(finished) = Len(tool_calls)

ToolMessages(answers) ==
  [i \in 1 .. Len(answers) |-> ToolMessage(tool_calls[i], answers[i])]

\* Mutant: a failed call gets no message, as if it had not been made.
CollectDropsErrors ==
  LET answers == gather(finished)
  IN  /\ AllFinished
      /\ \A i \in 1 .. Len(answers) : answers[i].is # Unserialisable
      /\ messages' = messages
                     \o SelectSeq(ToolMessages(answers), LAMBDA m : m.content.is \notin Errors)
                     \o <<AssistantMessage(response)>>
      /\ steps' = Append(steps, [iteration |-> iteration, model_response |-> response,
                                 tool_calls |-> tool_calls, tool_results |-> answers])
      /\ transition(status, RUNNING)
      /\ status' = RUNNING
      /\ iteration' = iteration + 1
      /\ pc' = "loop"
      /\ UNCHANGED <<response, tool_calls, finished, result, blame>>

\* Mutant: the answers are taken in the order the tools completed.
CollectAsCompleted ==
  LET answers == [i \in 1 .. Len(finished) |-> finished[i].answer]
  IN  /\ AllFinished
      /\ \A i \in 1 .. Len(answers) : answers[i].is # Unserialisable
      /\ messages' = messages \o ToolMessages(answers) \o <<AssistantMessage(response)>>
      /\ steps' = Append(steps, [iteration |-> iteration, model_response |-> response,
                                 tool_calls |-> tool_calls, tool_results |-> answers])
      /\ transition(status, RUNNING)
      /\ status' = RUNNING
      /\ iteration' = iteration + 1
      /\ pc' = "loop"
      /\ UNCHANGED <<response, tool_calls, finished, result, blame>>

\* gather() has every answer: record them in call order, then the assistant turn.
Collect ==
  LET answers == gather(finished)
  IN  /\ AllFinished
      /\ \A i \in 1 .. Len(answers) : answers[i].is # Unserialisable
      /\ messages' = messages \o ToolMessages(answers) \o <<AssistantMessage(response)>>
      /\ steps' = Append(steps, [iteration |-> iteration, model_response |-> response,
                                 tool_calls |-> tool_calls, tool_results |-> answers])
      /\ transition(status, RUNNING)
      /\ status' = RUNNING
      /\ iteration' = iteration + 1
      /\ pc' = "loop"
      /\ UNCHANGED <<response, tool_calls, finished, result, blame>>

\* json.dumps raises TypeError on the first value it cannot encode: the messages of
\* the calls before it are already appended, and the exception leaves run().
CollectRaises ==
  LET answers == gather(finished)
  IN  /\ AllFinished
      /\ \E k \in 1 .. Len(answers) :
           /\ answers[k].is = Unserialisable
           /\ \A i \in 1 .. (k - 1) : answers[i].is # Unserialisable
           /\ messages' = messages \o SubSeq(ToolMessages(answers), 1, k - 1)
      /\ pc' = "raised"
      /\ blame' = "tool"
      /\ UNCHANGED <<status, iteration, steps, response, tool_calls, finished, result>>

Step ==
  \/ Start \/ Ask \/ GiveUp
  \/ \E content \in Contents : FinalAnswer(content) \/ CallTools(content)
  \/ ModelRaises
  \/ \E i \in 1 .. MaxLines : \E outcome \in Outcomes : ToolEnds(i, outcome)
  \/ Collect \/ CollectRaises

\* run() is over.
Over ==
  /\ pc \in {"returned", "raised"}
  /\ UNCHANGED vars

Next == Step \/ Over

Spec == Init /\ [][Next]_vars

\* The event loop keeps running, and model and tool calls end: the adapters and the
\* HTTP tool have client timeouts, the calculator does not await.
FairSpec == Spec /\ WF_vars(Step)

-----------------------------------------------------------------------------

TypeOK ==
  /\ pc \in {"start", "loop", "model", "tools", "returned", "raised"}
  /\ status \in AgentStatus
  /\ iteration \in 0 .. MaxIterations
  /\ Len(steps) \in 0 .. MaxIterations
  /\ response \in Contents
  /\ Len(tool_calls) \in 0 .. MaxLines
  /\ finished \in Seq(Finished)
  /\ blame \in {"nothing", "model", "tool"}

\* What one step of the trace adds to the history.
Turn(s) ==
  [i \in 1 .. Len(s.tool_calls) |->
     [role |-> "tool", name |-> s.tool_calls[i].name,
      content |-> [to |-> s.tool_calls[i], is |-> s.tool_results[i].is]]]
  \o <<AssistantMessage(s.model_response)>>

\* Every request to the model carries, for each earlier iteration in order, one
\* message per tool call of that iteration, in call order and holding that call's own
\* answer or error, whatever order the concurrent tools finished in, and then the
\* reply that asked for them.
PromptIsFullTranscript ==
  pc = "model" =>
    messages = <<UserMessage>> \o FlattenSeq([k \in 1 .. Len(steps) |-> Turn(steps[k])])

\* Every directive of a reply that parses is executed and its outcome recorded at its
\* own position of the step, so failures are surfaced per call (executor.py:24-25).
OutcomesStayWithTheirCalls ==
  \A k \in 1 .. Len(steps) :
    /\ LET reply == steps[k].model_response
       IN  steps[k].tool_calls = Picked(reply, {i \in DOMAIN reply : reply[i] \in Call})
    /\ Len(steps[k].tool_results) = Len(steps[k].tool_calls)
    /\ \A i \in 1 .. Len(steps[k].tool_calls) :
         /\ steps[k].tool_results[i].to = steps[k].tool_calls[i]
         /\ steps[k].tool_calls[i].name \notin Registered => steps[k].tool_results[i].is \in Errors

\* ToolValidator, "a standalone pre-flight check" nobody runs before the executor
\* (validator.py:4-8), is enough where it is run: a call it accepts never fails for an
\* argument that is missing or of a type the tool cannot take.
ValidatedCallsRun ==
  \A k \in 1 .. Len(steps) : \A i \in 1 .. Len(steps[k].tool_calls) :
    LET call == steps[k].tool_calls[i]
    IN  call.name \in Registered /\ validate(call.name, call.arguments, Registered) =>
          steps[k].tool_results[i].is # ArgumentError

\* A returned AgentResult counts its own steps, is COMPLETED exactly when the last
\* reply asked for no tool, and answers with that reply; a capped run used every
\* iteration on tools (executor.py:70-76).
ResultMatchesTrace ==
  pc = "returned" =>
    /\ result.total_iterations = Len(steps)
    /\ result.steps = Len(steps)
    /\ \A k \in 1 .. Len(steps) :
         steps[k].tool_calls = <<>> <=> (status = COMPLETED /\ k = Len(steps))
    /\ status = COMPLETED => steps # <<>>
    /\ status = FAILED => Len(steps) = MaxIterations
    /\ steps # <<>> => result.final_answer = Last(steps).model_response

\* run() ends: the iteration cap stops a model that never stops asking for tools, and
\* no legal-transition check leaves it stuck.
Terminates == <>(pc \in {"returned", "raised"})

\* "individual failures are caught and surfaced per-call, not globally"
\* (executor.py:24-25): what a tool does never ends the run.
ToolFailuresStayLocal == blame # "tool"

-----------------------------------------------------------------------------
(* run() implements the lifecycle of agents/state.py.                      *)

Self == "run"

\* 1 while the reply of the current iteration has been consumed but not counted.
ReplyInHand == IF pc = "tools" \/ status = COMPLETED \/ blame = "tool" THEN 1 ELSE 0

Lifecycle == INSTANCE AgentLifecycle WITH
  Runs <- {Self},
  status <- [r \in {Self} |-> status],
  turns <- [r \in {Self} |-> iteration + ReplyInHand],
  ended <- [r \in {Self} |-> IF pc \in {"returned", "raised"} THEN pc ELSE "live"]

\* Statuses change along the legal edges only, with at most max_iterations replies
\* consumed, and a run ends exactly once.
ImplementsLifecycle == Lifecycle!LifecycleSpec
=============================================================================
