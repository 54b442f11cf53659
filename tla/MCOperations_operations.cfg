CONSTANTS
  r1 = r1
  r2 = r2
  r3 = r3
  s1 = s1
  s2 = s2
  Requests = {r1, r2, r3}
  MaxTransfers = 2
  ChunkSize = 2
  MaxLength = 3
  MaxChanges = 2
  Servers = {s1, s2}
  Keep = 2
  MaxSecond = 2
  MaxBackups = 3
  MaxOperations = 3
SYMMETRY Symmetric
SPECIFICATION Spec
\* Deadlock is off: the requests and the clock are bounded.
CHECK_DEADLOCK FALSE
INVARIANTS TypeOK ReportsAreTrue
PROPERTY BackupsAreKept
