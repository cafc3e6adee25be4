SPECIFICATION Spec
CONSTANTS
  Sessions = {s1, s2}
  Recs = {r1, r2}
  Chans = {p1, p2}
  NoChan = NoChan
  Calls = {c1, c2}
  Ladder = Ladder
  NoProc = NoProc
  MaxOpen = 1
  MaxSteps = 4
  MaxInput = 2
  MaxOutput = 1
  MaxFaults = 1
SYMMETRY MCSymmetry
INVARIANTS PoolAccounts PumpServesPty ReadInStep
PROPERTIES NothingAfterFailure
CHECK_DEADLOCK FALSE
