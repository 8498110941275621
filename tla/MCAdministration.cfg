SPECIFICATION Spec
CONSTANTS
  Keys = {k1, k2}
  EnvKey = EnvKey
  NoKey = NoKey
  InKeychain = InKeychain
  Hidden = Hidden
  Editors = {e1}
  NoPut = NoPut
  MaxRevision = 3
SYMMETRY Symmetry
INVARIANTS
  RegistryFollowsStores
PROPERTIES
  NoLostUpdate
  AnsweredIsStored
  FailureLeavesNoTrace
