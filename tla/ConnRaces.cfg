SPECIFICATION Spec
CONSTANTS
  Calls = {c1, c2}
  Ladder = Ladder
  NoProc = NoProc
  Hosts = {h1, h2, h3}
  NoHost = NoHost
  Gateway = {h2, h3}
  Refused = {h3}
  Keys = {k1, k2}
  NoKey = NoKey
  Gens = {g1, g2, g3}
  NoGen = NoGen
  Retries = 2
  MaxCalls = 3
  MaxFaults = 2
  CalmUser = FALSE
SYMMETRY MCSymmetry
INVARIANTS TrustIsForHost DialerAlone NoOrphan
CHECK_DEADLOCK FALSE
