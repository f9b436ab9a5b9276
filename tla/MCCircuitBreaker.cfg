SPECIFICATION FairSpec
CONSTANTS
  FailureThreshold = 2
  Cooldown = 2
  HalfOpenProbeCount = 2
  MaxTransitions = 3
  Callers = {c1, c2, c3}
INVARIANTS
  TypeOK
  ClosedBelowThreshold
  OpenExactlyForCooldown
PROPERTIES
  TripNeedsFullRun
  NoTrafficInCooldown
  ClosesOnlyAfterProbes
  Recovers
