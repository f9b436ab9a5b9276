SPECIFICATION FairSpec
CONSTANTS
  FailureThreshold = 1
  Cooldown = 1
  HalfOpenProbeCount = 1
  Requests = {r1, r2}
  Catalogs <- MCCatalogs
  RegistryConfig <- MCRegistryConfig
  Sizes = {499, 500, 2000}
  Attempts = {0, 2}
  BaseDelay = 2
  MaxDelay = 1
  Retryable = {"ModelUnavailableError", "CircuitOpenError"}
INVARIANTS
  TypeOK
  RetriesAsTold
  SelectsWell
PROPERTIES
  Completes
  PreferredComesBack
