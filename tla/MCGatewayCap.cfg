SPECIFICATION Spec
CONSTANTS
  Environments <- MCEnvironments
  Requests = {r1, r2}
  MaxConcurrent = 1
  MaxIterations = 1
  MaxTokens = 1
SYMMETRY RequestSymmetry
INVARIANTS
  ProcessWideCap
