SPECIFICATION FairSpec
CONSTANTS
  d1 = d1
  d2 = d2
  f1 = f1
  f2 = f2
  Devices = {d1, d2}
  Aliases = {a1}
  Fields = {f1, f2}
  Owned <- MCOwned
  NoValue = NoValue
  NoEntry = NoEntry
  ConflictRetries = 1
  MaxWrites = 4
  LossyPush = TRUE
INVARIANTS RoundIsSound
PROPERTIES FieldsCarried FailsClosed RoundEnds
CHECK_DEADLOCK FALSE
