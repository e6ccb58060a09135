SPECIFICATION Spec
CONSTANTS
  Events = {e1, e2}
  Posts = {p1}
  Flushes = {f1}
  None = None
  ChunkSize = 2
  Capacity = 2
  MaxAttempts = 5
  CronRecovers = FALSE
  LastMinute = 1
  MaxWakeups = 1
  MaxCrashes = 0
  MaxErrors = 0
  MaxDeferrals = 0
  MaxStalls = 0
  MaxResets = 0
  Reconfigures = FALSE
INVARIANTS NoneLeftBehind
CHECK_DEADLOCK FALSE
