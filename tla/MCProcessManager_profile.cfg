SPECIFICATION Spec
CONSTANTS
  c1 = c1
  c2 = c2
  Callers = {c1, c2}
  Nobody = Nobody
  Ops <- StartStopStatus
  Generations = {1, 2}
  Changes <- Newer
  Threshold = 1
  MaxPid = 2
  MaxRuns = 1
  MayFail = FALSE
  MayCrash = FALSE
INVARIANT OneServerInFirstRun
\* A stopped program need not be started again.
CHECK_DEADLOCK FALSE
