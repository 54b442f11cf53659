\* A stopped program need not be started again.
CHECK_DEADLOCK FALSE
SPECIFICATION FairSpec
CONSTANTS
  Poll = Poll
  Heart = Heart
  Nobody = Nobody
  f1 = f1
  f2 = f2
  d = d
  f = f
  Caps = {f1, f2}
  NoCaps = NoCaps
  DbOps = {d}
  FileOps = {f}
  NoOp = NoOp
  StartOnce = FALSE
  MaxLaunch = 0
  MaxFaults = 2
  MaxRuns = 1
PROPERTIES SessionRenewed OperationsServed
