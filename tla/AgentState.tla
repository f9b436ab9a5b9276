----------------------------- MODULE AgentState -----------------------------
(* Statuses of an agent run and their legal edges (athenai.agents.state).   *)

CREATED == "created"
RUNNING == "running"
AWAITING_TOOL == "awaiting_tool"
COMPLETED == "completed"
FAILED == "failed"
AgentStatus == {CREATED, RUNNING, AWAITING_TOOL, COMPLETED, FAILED}

\* _TRANSITIONS: terminal statuses have no outgoing edge.
TRANSITIONS ==
  [s \in AgentStatus |->
     CASE s = CREATED -> {RUNNING}
       [] s = RUNNING -> {AWAITING_TOOL, COMPLETED, FAILED}
       [] s = AWAITING_TOOL -> {RUNNING, FAILED}
       [] s \in {COMPLETED, FAILED} -> {}]

\* transition(current, target) returns the target, or raises ValueError when the edge
\* is not in the table.  The actions take it as a guard, which never holds a step of
\* run() back: ControlInvariant fixes the status at every point where it is called.
transition(current, target) == target \in TRANSITIONS[current]
=============================================================================
