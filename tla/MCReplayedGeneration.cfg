SPECIFICATION GatewaySpec
CONSTANTS
  p1 = p1
  m1 = m1
  m2 = m2
  r1 = r1
  r2 = r2
  Providers <- MCProviders
  Models <- MCModels
  ProviderOf <- MCProviderOf
  FailureThreshold = 1
  MaxFailures = 1
  TransientCooldown <- MCTransient
  CredentialCooldown <- MCCredential
  ChatCapability = "chat"
  Capabilities = {"chat", "image"}
  RetryAfters = {1}
  Codes = {401, 500}
  Requests = {r1, r2}
  Kinds <- ToolImageOnly
  CandidateLists <- ShortLists
  Maintained <- MaintainNothing
  RetryBudget = 1
INVARIANT NonIdempotentSentOnce
