SPECIFICATION Spec
CONSTANTS
  Requests = {r1, r2, r3}
  MaxFailed = 2
  MaxCount = 3
  MaxPasswords = 3
  MaxSecrets = 1
SYMMETRY Symmetry
INVARIANTS
  FailuresLock 
CHECK_DEADLOCK FALSE
