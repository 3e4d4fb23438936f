SPECIFICATION FairSpec
CONSTANTS
  Request = {r1, r2}
  LOCK_TTL = 2
  MaxRun = 1
  MaxFailures = 2
  Faults = TRUE
  None = None
CHECK_DEADLOCK FALSE
INVARIANTS TypeOK MutualExclusion EveryStepAccountedFor
PROPERTY LockComesFree
