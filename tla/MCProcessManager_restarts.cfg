SPECIFICATION Spec
CONSTANTS
  c1 = c1
  c2 = c2
  Callers = {c1, c2}
  Nobody = Nobody
  Ops <- StartStopStatus
  Generations = {1}
  Changes = {}
  Threshold = 1
  MaxPid = 2
  MaxRuns = 2
  MayFail = TRUE
  MayCrash = TRUE
SYMMETRY Symmetric
INVARIANTS TypeOK OneServerInFirstRun ChildInMemory FileIsTrue
\* A stopped program need not be started again.
CHECK_DEADLOCK FALSE
