-------------------------- MODULE MCContextEngine ---------------------------
(* Instance of ContextEngine for TLC: the other constants are in the .cfg.  *)
EXTENDS ContextEngine

\* Two windows: the first is cut back, and the long second word loses its beginning.
MCTwoChunks == [len |-> 9, spaces |-> {2}]
\* Three windows in two requests: "aaaaa bb cccc".
MCThreeChunks == [len |-> 13, spaces |-> {5, 8}]
MCTexts == {Blank, MCTwoChunks, MCThreeChunks}

Limited(bucket, tokens) == [bucket |-> bucket, tokens |-> tokens]
MCAllocations == <<Limited("system", 1), Limited("conversation", 2), Limited("memory", 1),
                   Limited("rag", 1)>>

\* A request that nearly fills the budget and one whose system prompt exceeds it.
MCRequests ==
  {[session |-> "s1", system |-> 1, conversation |-> << 2, 1 >>, tools |-> << 1 >>],
   [session |-> AllSessions, system |-> 6, conversation |-> << 3 >>, tools |-> << 1 >>]}

\* Workers run the same code and are interchangeable.
WorkerSymmetry == Permutations(Workers)
=============================================================================
