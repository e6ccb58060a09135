SPECIFICATION FairSpec
CONSTANTS
  Events = {e1, e2}
  Dispatchers = {d1}
  Tokens = {t1, t2, t3}
  None = None
  ClaimLimit = 1
  MaxAttempts = 2
  LeaseTime = 1
  MaxBackoff = 2
  Retention = 2
  Horizon = 3
  MaxCrashes = 2
PROPERTIES EventuallySettled
CHECK_DEADLOCK FALSE
