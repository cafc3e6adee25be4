SPECIFICATION FairSpec
CONSTANTS
  Hosts = {h1, h2}
  NoHost = NoHost
  Ids = {i1, i2, i3}
  NoId = NoId
  Calls = {c1, c2}
  NoCall = NoCall
  MaxAttempts = 2
  MaxGestures = 3
  MaxFaults = 2
INVARIANTS OneSchedule LearnsOfLoss LeftStaysLeft
PROPERTIES HealthyLinkKept RecoveryEnds
CHECK_DEADLOCK FALSE
