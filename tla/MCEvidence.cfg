SPECIFICATION Spec
CONSTANTS
  m = m
  chat = chat
  image = image
  Models <- MCModels
  Functions <- MCFunctions
  Capabilities <- MCCapabilities
  Definitions <- MCDefinitions
  Overrides <- MCOverrides
  MaxInterventions = 2
INVARIANTS
  EligibleWasProven
PROPERTIES
  EvidenceSurvives
  SyncReconciles
