SPECIFICATION Spec
CONSTANTS
  Clients = {c1, c2}
  Vaults = {v1, v2}
  Phrases = {p1, p2}
  Keys = {k1, k2}
  Hosts = {h1}
  NoVault = NoVault
  NoPhrase = NoPhrase
  NoKey = NoKey
  NoCheck = NoCheck
  ConflictRetries = 1
  Gated = FALSE
  ServerReset = TRUE
  VersionsRestart = FALSE
  MaxCalls = 3
  MaxFaults = 1
SYMMETRY MCSymmetry
INVARIANTS HoldsWhatItNames OnlyOverlapLosesKeys
PROPERTIES ActsAsOneVault ChangeIsProved
CHECK_DEADLOCK FALSE
