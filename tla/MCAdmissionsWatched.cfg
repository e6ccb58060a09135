SPECIFICATION Spec
CONSTANTS
  s1 = s1
  s2 = s2
  Subscriptions = {s1, s2}
  Posts = {p1}
  None = None
  ChangedFields <- OneField
  Watched <- StageWatched
  FirstMode <- Batched
  MaxChanges = 0
  MaxErrors = 0
INVARIANTS DeliveredIsDecided
CHECK_DEADLOCK FALSE
