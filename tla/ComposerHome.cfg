SPECIFICATION Spec
CONSTANTS
  Sessions = {x1, x2}
  NoSession = NoSession
  Names = {n1, n2}
  Unborn = Unborn
  Gone = Gone
  MaxConns = 1
  Words = {w1, w2}
  Files = {f1}
  Recs = {r1, r2, r3, r4, r5}
  NoRec = NoRec
  Batches = {b1}
  NoBatch = NoBatch
  Sends = {s1}
  NoText = NoText
  HistoryLimit = 1
  ParkedLimit = 1
  MaxCalls = 4
  MaxFaults = 0
INVARIANT DraftStaysHome
CHECK_DEADLOCK FALSE
