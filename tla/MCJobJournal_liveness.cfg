\* A stopped program need not be started again.
CHECK_DEADLOCK FALSE
SPECIFICATION FairSpec
CONSTANTS
  a = a
  b = b
  c = c
  d = d
  k = k
  h1 = h1
  h2 = h2
  NoKey = NoKey
  JobIds = {a, b, c}
  Keys = {k}
  Handlers = {h1, h2}
  Envelopes <- MCEnvelopes
  MaySaveFail = TRUE
  MayLoadFail = FALSE
  MaxTime = 2
  MaxGeneration = 1
  MaxRecords = 3
  MaxActive = 1
  Retention = 1
INVARIANT ActiveHasHandler
PROPERTY BusyIsTransient
