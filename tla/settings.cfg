SPECIFICATION Spec
CONSTANTS
  Null = Null
  Deleted = Deleted
  Redacted = Redacted
  Keys = {"host", "token", "limit"}
  Category <- TwoCategories
  Values = {"old", "new"}
  Protected = {"limit"}
  Committed <- TwoSettings
  Requests <- SettingsRequests
INVARIANTS TypeOK CacheRecovers
CHECK_DEADLOCK FALSE
