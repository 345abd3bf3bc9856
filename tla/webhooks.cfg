SPECIFICATION Spec
CONSTANTS
  Null = Null
  Hooks = {1, 2, 3}
  Names = {"a", "b"}
  SeedHooks <- OneHook
  Scenarios <- WebhookScenarios
  Requests <- WebhookRequests
INVARIANTS TypeOK AttemptsBounded RollupMatchesLogs
PROPERTY DeletionDisables
CHECK_DEADLOCK FALSE
