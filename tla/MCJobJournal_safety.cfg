\* A stopped program need not be started again.
CHECK_DEADLOCK FALSE
SPECIFICATION Spec
CONSTANTS
  a = a
  b = b
  c = c
  d = d
  k = k
  h1 = h1
  h2 = h2
  NoKey = NoKey
  JobIds = {a, b, c}
  Keys = {k}
  Handlers = {h1, h2}
  Envelopes <- MCPaddedEnvelopes
  MaySaveFail = FALSE
  MayLoadFail = FALSE
  MaxTime = 1
  MaxGeneration = 2
  MaxRecords = 1
  MaxActive = 1
  Retention = 0
INVARIANTS TypeOK AtMostOnce CapacityBound ResultReplayable
PROPERTY TerminalSticks
