SPECIFICATION FairSpec
CONSTANTS
  Events = {e1}
  Posts = {p1}
  Flushes = {f1}
  None = None
  ChunkSize = 1
  Capacity = 1
  MaxAttempts = 5
  CronRecovers = FALSE
  LastMinute = 1
  MaxWakeups = 1
  MaxCrashes = 0
  MaxErrors = 0
  MaxDeferrals = 1
  MaxStalls = 0
  MaxResets = 0
  Reconfigures = FALSE
PROPERTIES EventsHandled
CHECK_DEADLOCK FALSE
