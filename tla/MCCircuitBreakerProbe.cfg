SPECIFICATION Spec
CONSTANTS
  FailureThreshold = 1
  Cooldown = 1
  HalfOpenProbeCount = 1
  MaxTransitions = 2
  Callers = {c1, c2}
SYMMETRY CallerSymmetry
INVARIANTS
  SingleProbe
