SPECIFICATION FairSpec
CONSTANTS
  Ports = {22, 3000}
  Interesting = {3000}
  SshConfig = {}
  MissLimit = 2
  MaxActive = 1
  MaxGens = 2
  MaxQueue = 1
  MaxIntents = 2
  MaxFaults = 1
INVARIANTS TableInStep
PROPERTIES DropsAreEarned IntentsSettle
CHECK_DEADLOCK FALSE
