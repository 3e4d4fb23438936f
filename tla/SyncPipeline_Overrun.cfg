SPECIFICATION Spec
CONSTANTS
  Request = {r1, r2, r3}
  LOCK_TTL = 2
  MaxRun = 4
  MaxFailures = 2
  Faults = TRUE
  None = None
CHECK_DEADLOCK FALSE
INVARIANT MutualExclusion
