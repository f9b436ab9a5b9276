SPECIFICATION FairSpec
CONSTANTS
  Environments <- MCEnvironments
  Requests = {r1, r2, r3}
  MaxConcurrent = 1
  MaxIterations = 2
  MaxTokens = 1
INVARIANTS
  TypeOK
  PermitsConserved
  NoIdlePermit
  StreamsEndWithDone
  CountersMatchAnswers
PROPERTIES
  WaitersAreServed
