SPECIFICATION FairSchedulerSpec
CONSTANTS
  Null = Null
  Tasks = {1, 2, 3}
  Reliable = {1, 3}
  BatchSize = 2
  CacheSize = 1
  Dated <- Reminders
  Callers = {c1}
  Coroutines = {l1, l2}
INVARIANTS SchedulerTypeOK LoopsOwned DispatchedOnce
PROPERTY AllDispatched
