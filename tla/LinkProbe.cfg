SPECIFICATION FairSpec
CONSTANTS
  Hosts = {h1}
  NoHost = NoHost
  Ids = {i1, i2}
  NoId = NoId
  Calls = {c1, c2}
  NoCall = NoCall
  MaxAttempts = 2
  MaxGestures = 3
  MaxFaults = 2
PROPERTY FirstNoticeWins
CHECK_DEADLOCK FALSE
