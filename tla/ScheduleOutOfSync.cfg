SPECIFICATION Spec
CONSTANTS
  Target = {"t1"}
  UserCron = {"daily", "hourly"}
  Fallback = "fallback"
  Invalid = "invalid"
  NoJob = NoJob
  NoFlow = NoFlow
  NoRecord = NoRecord
  Settings <- FewSettings
  QueueMode = FALSE
  Overlap = TRUE
  MaxRequests = 3
  MaxRecords = 2
  Fires = {"f1"}
  BatchSize = 2
  MaxCrashes = 0
INVARIANTS
  InSync
CHECK_DEADLOCK FALSE
