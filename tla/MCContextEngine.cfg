SPECIFICATION ContextSpec
CONSTANTS
  ChunkSize = 2
  Overlap = 1
  BatchSize = 2
  Workers = {w1, w2}
  Documents = {"d1"}
  Texts <- MCTexts
  MaxCalls = 3
  Sessions = {"s1", "s2"}
  FactIds = {"f1", "f2"}
  FactTokens = 2
  Requests <- MCRequests
  Limit = 2
  Allocations <- MCAllocations
SYMMETRY WorkerSymmetry
INVARIANTS
  ContextTypeOK
  NoDuplicatesUnlessOverlap
  WholeUnlessDisturbed
  EmbeddingsMatch
  ShortWordsKept
  PacksByPriority
  MemoriesAreCurrent
PROPERTIES
  ReturnsRowCount
