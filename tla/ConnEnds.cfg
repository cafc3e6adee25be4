SPECIFICATION FairSpec
CONSTANTS
  Calls = {c1, c2}
  Ladder = Ladder
  NoProc = NoProc
  Hosts = {h1}
  NoHost = NoHost
  Gateway = {}
  Refused = {}
  Keys = {k1}
  NoKey = NoKey
  Gens = {g1, g2, g3, g4}
  NoGen = NoGen
  Retries = 1
  MaxCalls = 3
  MaxFaults = 1
  CalmUser = TRUE
PROPERTIES CloseReleases DialConcludes TerminalsRecovered
CHECK_DEADLOCK FALSE
