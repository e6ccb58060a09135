SPECIFICATION FairSpec
CONSTANTS
  Writes = {w1}
  Owners = {b1, b2}
  NoOwner = NoOwner
  Attempts = 3
  LeaseTime = 2
  MaxFaults = 3
INVARIANTS OneMoment PermitCoversWrite
PROPERTIES GateReopens PermitsReturn
CHECK_DEADLOCK FALSE
