SPECIFICATION FairSpec
CONSTANTS
  Records = {r1, r2}
  Initially = {r1}
  MaxIds = 3
  MaxWrites = 1
  MaxEvents = 1
  PageSize = 1
  None = None
INVARIANTS NoEditLost EditsShown ReplicaCurrent AppliedAsMade
PROPERTIES EditsSettle
CHECK_DEADLOCK FALSE
