SPECIFICATION FairSpec
CONSTANTS
  Handlers = {h1, h2}
  Occurrences = {o1}
  Data = {w1, f1}
  WorkerData = {w1}
  NoData = NoData
  LeaseTime = 1
  MaxStall = 1
  MaxAttempts = 3
  MaxEdits = 1
  MaxFaults = 1
INVARIANTS WorkerRunsOnce SameDefinition LeaseRunsOnce CompletedDidRun
PROPERTIES ImplementsLedger EventuallyClosed
CHECK_DEADLOCK FALSE
