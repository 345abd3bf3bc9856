SPECIFICATION Spec
CONSTANTS
  Null = Null
  UserIds = {1, 2, 3, 4}
  LeadIds = {1, 2, 3, 4}
  PropertyIds = {1, 2, 3}
  CustomerIds = {1, 2, 3}
  Phones = {1, 2, 3, 4}
  Emails = {1, 2, 3, 4}
  Codes = {1, 2, 3}
  Passwords = {"x", "y", "z"}
  Referenced = {1}
  Seed <- SeedTables
  Scenarios <- DirectoryScenarios
  Requests <- DirectoryRequests
INVARIANT TypeOK
PROPERTIES LeadContactsDistinct ClosedStaysClosed ListingsConsistent
CHECK_DEADLOCK FALSE
