SPECIFICATION Spec
CONSTANTS
  Conns = {k1, k2}
  NoConn = NoConn
  OneFramePerTask = TRUE
  MaxChannel = 1
  MaxUnits = 2
  MaxQueue = 2
  MaxOps = 4
  MaxFaults = 1
INVARIANTS NobodyWaits NothingTorn NoStrayProcess
CHECK_DEADLOCK FALSE
