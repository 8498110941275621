SPECIFICATION MCSpec
SYMMETRY Overlaps
CONSTANTS
  a = a
  b = b
  c = c
  m1 = m1
  m2 = m2
  p1 = p1
  Operations = {a, b, c}
  MaxVersion = 5
  NoOne = NoOne
  Providers = {p1}
  Models = {m1, m2}
  Capabilities = {"chat"}
  ProviderOf <- MCProviderOf
  FailureThreshold = 2
  MaxFailures = 2
  TransientCooldown <- MCTransient
  CredentialCooldown <- MCCredential
  RetryAfters = {1}
  Codes = {0, 400, 401, 403, 404, 429, 500}
  Listed = {m1, m2}
  Candidates <- MCCandidates
  Owner <- MCOwner
  MaxReloads = 2
  ProbeModels = {m1, m2}
  Functions <- MCFunctions
  Expensive = {"image", "video"}
  DailyLimit = 3
  LastDay = 2
  Tracked = {m1, m2}
  MaxRequests = 2
  MaxInstalls = 2
  Subjects = {"health", "inventory", "usage", "probing", "service", "breaker"}
INVARIANTS
  ReturnedIsSaved
  PoolIsComplete
  CacheIsStore
  DailyBudgetHolds
  CommandTakesEffect
  UninstalledStaysAway
  HealthyImpliesAvailable
  ExhaustedTargetIsGated
PROPERTIES
  SavedInOrder
  NeverUncounted
