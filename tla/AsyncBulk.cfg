SPECIFICATION Spec
CONSTANTS
  Entries = {e1, e2, e3}
  Initials = {{}, {e1, e2}}
  Modes = {"insert", "remove"}
  Requested = 0
  MaxAdds = 5
  MaxFlushes = 2
INVARIANTS TypeOK NothingLost BulkIsRelevant OnlyQueueLost
PROPERTIES StatsExact FlushAppliesCollected CallsReturn
