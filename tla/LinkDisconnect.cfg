SPECIFICATION Spec
CONSTANTS
  Hosts = {h1}
  NoHost = NoHost
  Ids = {i1, i2}
  NoId = NoId
  Calls = {c1, c2}
  NoCall = NoCall
  MaxAttempts = 2
  MaxGestures = 3
  MaxFaults = 2
INVARIANT DisconnectStays
CHECK_DEADLOCK FALSE
