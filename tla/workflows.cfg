SPECIFICATION Spec
CONSTANTS
  Null = Null
  Steps = {1, 2, 3}
  InitialSteps = {1, 2}
  Gated = {1, 2}
  Approvals = {1, 2, 3}
  Scenarios <- WorkflowScenarios
  Requests <- WorkflowRequests
  Connections = 2
INVARIANTS TypeOK LastDecisionUnblocks LastStepCompletesWorkflow
PROPERTY StampedFinal
CHECK_DEADLOCK FALSE
