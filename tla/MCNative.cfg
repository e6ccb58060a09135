SPECIFICATION FairSpec
CONSTANTS
  r1 = r1
  r2 = r2
  Callers = {p1, p2}
  Ids = {r1, r2}
  MaxConcurrent = 1
  MaxDaily = 2
  MaxSteps = 3
  Generations = {0, 1}
  NoPass = NoPass
  Flow <- TwoFlows
  MaxAttempts = 2
  MaxSends = 2
  MaxEvents = 1
INVARIANTS NodesOnceInOrder SendsBounded WorkIsMetered SlotsAccounted
PROPERTIES ConcurrencyBounded EndedStays RunsEnd
CHECK_DEADLOCK FALSE
