SPECIFICATION MCSpec
CHECK_DEADLOCK FALSE
CONSTANTS
  free = free
  m1 = m1
  m2 = m2
  m3 = m3
  openrouter = openrouter
  other = other
  NoPlan = NoPlan
  shared = shared
  gone = gone
  Catalog <- FourModels
  Names <- RouteNames
  UpstreamID <- UpstreamIDs
  ProviderIDs <- TwoProviders
  ProviderOf <- Owners
  Score <- Scores
  Rank <- Ranks
  Preferred = free
  MaxAttempts = 2
  Routes <- AllRoutes
  Seeds = {0, 5, 15}
  SeedSpan = 16
  NextPeriod = 2
  a = a
  b = b
  c = c
  Callers = {a, b, c}
  MaxConcurrent = 1
  QueueSize = 2
  RateTenths = 6
  NoLimiter = NoLimiter
  ValidationModels = {m1, m2, m3}
  Functions <- Listing
  Owner <- Owners
  Replies <- Responses
  Concurrency = 2
  NoProbe = NoProbe
INVARIANTS
  PlannedAreSelectable
  PlannedOnce
  ConfiguredReachable
  AdvertisedIsServed
  BestScoredKept
  ChannelsAccounted
  OneLimiter
  ReportIsComplete
PROPERTIES
  SessionKeepsPrimary
  NoTokenLost
  AcquireReturns
  CommandEnds
