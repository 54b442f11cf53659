SPECIFICATION FairSpec
CONSTANTS
  c1 = c1
  c2 = c2
  Callers = {c1, c2}
  Nobody = Nobody
  Ops <- RestarterAndStopper
  Generations = {1, 2}
  Changes <- Newer
  Threshold = 1
  MaxPid = 1
  MaxRuns = 1
  MayFail = FALSE
  MayCrash = FALSE
PROPERTIES CallsReturn
\* A stopped program need not be started again.
CHECK_DEADLOCK FALSE
