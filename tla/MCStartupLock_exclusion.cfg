SPECIFICATION FairSpec
CONSTANTS
  s1 = s1
  s2 = s2
  s3 = s3
  Starters = {s1, s2, s3}
  NoStarter = NoStarter
  Processes <- TwoProcesses
  StaleAfter = 2
  MaxErrors = 1
  MaxCrashes = 1
INVARIANTS TypeOK ExclusiveUntilStale
PROPERTIES ImplementsMutex LockRecovers CallReturns
