--------------------------- MODULE AgentLifecycle ---------------------------
(***************************************************************************)
(* What AgentExecutor.run() promises of each run, without messages, steps  *)
(* or tools: it moves through the statuses of agents/state.py along the    *)
(* legal edges only, asks the model at most MaxIterations times, and ends  *)
(* with a result (answer found, or cap reached) or with an exception.      *)
(* AgentExecutor is shown to implement this, and Gateway uses it for the   *)
(* agent runs it hosts.                                                    *)
(***************************************************************************)
EXTENDS Integers, AgentState

CONSTANTS
  Runs,            \* calls of run(), each with its own history
  MaxIterations    \* max_iterations

VARIABLES
  status,   \* per run: AgentStatus
  turns,    \* per run: model replies consumed
  ended     \* per run: whether and how run() ended

lifecycleVars == <<status, turns, ended>>

Live == "live"
Returned == "returned"
Raised == "raised"

LifecycleInit ==
  /\ status = [r \in Runs |-> CREATED]
  /\ turns = [r \in Runs |-> 0]
  /\ ended = [r \in Runs |-> Live]

MoveTo(r, target) ==
  /\ ended[r] = Live
  /\ transition(status[r], target)
  /\ status' = [status EXCEPT ![r] = target]

Begin(r) ==
  /\ status[r] = CREATED
  /\ MoveTo(r, RUNNING)
  /\ UNCHANGED <<turns, ended>>

\* The model asked for tools.
UseTools(r) ==
  /\ turns[r] < MaxIterations
  /\ MoveTo(r, AWAITING_TOOL)
  /\ turns' = [turns EXCEPT ![r] = @ + 1]
  /\ UNCHANGED ended

\* All tools have answered.
ToolsDone(r) ==
  /\ status[r] = AWAITING_TOOL
  /\ MoveTo(r, RUNNING)
  /\ UNCHANGED <<turns, ended>>

\* The model replied without asking for tools.
Answer(r) ==
  /\ turns[r] < MaxIterations
  /\ MoveTo(r, COMPLETED)
  /\ turns' = [turns EXCEPT ![r] = @ + 1]
  /\ ended' = [ended EXCEPT ![r] = Returned]

\* The cap is reached without an answer.
GiveUp(r) ==
  /\ turns[r] = MaxIterations
  /\ status[r] = RUNNING
  /\ MoveTo(r, FAILED)
  /\ ended' = [ended EXCEPT ![r] = Returned]
  /\ UNCHANGED turns

\* An exception leaves run(): the status variable is simply abandoned.
Abort(r) ==
  /\ ended[r] = Live
  /\ status[r] \in {RUNNING, AWAITING_TOOL}
  /\ ended' = [ended EXCEPT ![r] = Raised]
  /\ UNCHANGED <<status, turns>>

LifecycleNext ==
  \E r \in Runs :
    Begin(r) \/ UseTools(r) \/ ToolsDone(r) \/ Answer(r) \/ GiveUp(r) \/ Abort(r)

LifecycleSpec == LifecycleInit /\ [][LifecycleNext]_lifecycleVars
=============================================================================
