CONSTANTS
  w1 = w1
  w2 = w2
  u1 = u1
  u2 = u2
  Installers = {w1, w2}
  Updates = {u1, u2}
  AutoInstallEnabled = TRUE
  AutoStartAfterConfig = TRUE
  AutoStartAfterInstall = TRUE
  MaxStarts = 1
SYMMETRY Symmetric
CONSTRAINT Followed
SPECIFICATION Spec
\* Deadlock is off: the program may be gone for good.
CHECK_DEADLOCK FALSE
INVARIANTS TypeOK InstallFlags ReplaceIsSafe
