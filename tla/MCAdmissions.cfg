SPECIFICATION FairSpec
CONSTANTS
  s1 = s1
  s2 = s2
  Subscriptions = {s1, s2}
  Posts = {p1, p2}
  None = None
  ChangedFields <- OneField
  Watched <- NoneWatched
  FirstMode <- Mixed
  MaxChanges = 1
  MaxErrors = 2
INVARIANTS ReceiptOwnsEvent AcceptedWasStarted DeliveredIsDecided
PROPERTIES ImplementsDelivery NotReopened EventuallyDelivered
CHECK_DEADLOCK FALSE
