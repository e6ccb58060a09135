SPECIFICATION FairSpec
CONSTANTS
  Events = {e1, e2}
  Posts = {p1}
  Flushes = {f1}
  None = None
  ChunkSize = 1
  Capacity = 1
  MaxAttempts = 1
  CronRecovers = TRUE
  LastMinute = 1
  MaxWakeups = 1
  MaxCrashes = 1
  MaxErrors = 1
  MaxDeferrals = 0
  MaxStalls = 0
  MaxResets = 1
  Reconfigures = FALSE
INVARIANTS ChunksBounded BacklogBounded AckedIsKept
PROPERTIES EventsHandled
CHECK_DEADLOCK FALSE
