SPECIFICATION Spec
CONSTANTS
  Capacity = 5
  Rate = 2
  Requests = {0, 1, 3, 6}
  MaxTime = 6
INVARIANTS
  TypeOK
  WindowBound
PROPERTIES
  ImplementsTokenBucket
