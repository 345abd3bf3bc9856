SPECIFICATION FairSpec
CONSTANTS
  Null = Null
  Notifications = {1, 2}
  Deleted = {2}
  Priority <- UrgentFirst
  Workers = {w1, w2}
  Requests <- QueueRequests
  BatchSize = 1
  MaxRetries = 1
  Connections = 3
INVARIANTS TypeOK ClaimsHold OutcomesAgree
PROPERTY EntriesSettle
CHECK_DEADLOCK FALSE
