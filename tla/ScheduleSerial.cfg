SPECIFICATION Spec
CONSTANTS
  Target = {"t1"}
  UserCron = {"daily", "hourly"}
  Fallback = "fallback"
  Invalid = "invalid"
  NoJob = NoJob
  NoFlow = NoFlow
  NoRecord = NoRecord
  Settings <- AllSettings
  QueueMode = FALSE
  Overlap = FALSE
  MaxRequests = 4
  MaxRecords = 2
  Fires = {"f1"}
  BatchSize = 2
  MaxCrashes = 1
INVARIANTS
  ScheduleTypeOK
  InSync
  RecordFollowsFlow
CHECK_DEADLOCK FALSE
