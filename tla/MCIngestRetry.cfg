SPECIFICATION Spec
CONSTANTS
  ChunkSize = 2
  Overlap = 1
  BatchSize = 2
  Workers = {w1}
  Documents = {"d1"}
  Texts <- MCTexts
  MaxCalls = 2
PROPERTIES
  RetryCompletes
