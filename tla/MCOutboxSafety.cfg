SPECIFICATION Spec
CONSTANTS
  Events = {e1, e2}
  Dispatchers = {d1, d2}
  Tokens = {t1, t2, t3, t4}
  None = None
  ClaimLimit = 2
  MaxAttempts = 2
  LeaseTime = 1
  MaxBackoff = 1
  Retention = 1
  Horizon = 2
  MaxCrashes = 1
SYMMETRY PassSymmetry
INVARIANTS ExclusiveLease NoEventLost
PROPERTIES FencedWrites
CHECK_DEADLOCK FALSE
