SPECIFICATION Spec
CONSTANTS
  d1 = d1
  d2 = d2
  f1 = f1
  f2 = f2
  Devices = {d1, d2}
  Aliases = {a1, a2}
  Fields = {}
  Owned <- MCOwned
  NoValue = NoValue
  NoEntry = NoEntry
  ConflictRetries = 1
  MaxWrites = 4
  LossyPush = FALSE
SYMMETRY MCSymmetry
PROPERTIES OnlyUntickRemoves UntickIsOneShot
CHECK_DEADLOCK FALSE
