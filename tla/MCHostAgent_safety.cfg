\* A stopped program need not be started again.
CHECK_DEADLOCK FALSE
SPECIFICATION Spec
CONSTANTS
  Poll = Poll
  Heart = Heart
  Nobody = Nobody
  f1 = f1
  f2 = f2
  d = d
  f = f
  Caps = {f1, f2}
  NoCaps = NoCaps
  DbOps = {d}
  FileOps = {f}
  NoOp = NoOp
  StartOnce = TRUE
  MaxLaunch = 1
  MaxFaults = 1
  MaxRuns = 2
INVARIANTS TypeOK FingerprintIsUploaded ProfileIsNewest BootstrapOnce
