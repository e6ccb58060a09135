SPECIFICATION Spec
CONSTANTS
  Events = {e1, e2}
  Posts = {p1}
  Flushes = {f1, f2}
  None = None
  ChunkSize = 2
  Capacity = 2
  MaxAttempts = 2
  CronRecovers = FALSE
  LastMinute = 1
  MaxWakeups = 2
  MaxCrashes = 0
  MaxErrors = 1
  MaxDeferrals = 1
  MaxStalls = 1
  MaxResets = 0
  Reconfigures = TRUE
SYMMETRY RequestSymmetry
INVARIANTS RunsOnce AcceptedRan
PROPERTIES ImplementsDelivery DecidedUnderLease
CHECK_DEADLOCK FALSE
