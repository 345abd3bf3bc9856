SPECIFICATION Spec
CONSTANTS
  Null = Null
  Ids = {1, 2, 3, 4}
  Names = {"a", "b", "c", "d"}
  Types = {"EMAIL", "SMS"}
  SeedIntegrations <- ThreeIntegrations
  Scenarios <- IntegrationScenarios
  Requests <- IntegrationRequests
INVARIANT TypeOK
PROPERTIES SecondDefaultIsLate DefaultSurvives
CHECK_DEADLOCK FALSE
