SPECIFICATION ContextSpec
CONSTANTS
  ChunkSize = 2
  Overlap = 1
  BatchSize = 2
  Workers = {w1}
  Documents = {"d1"}
  Texts <- MCTexts
  MaxCalls = 1
  Sessions = {"s1"}
  FactIds = {"f1"}
  FactTokens = 2
  Requests <- MCRequests
  Limit = 1
  Allocations <- MCAllocations
INVARIANT SystemPromptKept
