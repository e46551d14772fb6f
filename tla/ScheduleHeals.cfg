SPECIFICATION FairSpec
CONSTANTS
  Target = {"t1"}
  UserCron = {"daily", "hourly"}
  Fallback = "fallback"
  Invalid = "invalid"
  NoJob = NoJob
  NoFlow = NoFlow
  NoRecord = NoRecord
  Settings <- FewSettings
  QueueMode = TRUE
  Overlap = TRUE
  MaxRequests = 2
  MaxRecords = 2
  Fires = {"f1", "f2"}
  BatchSize = 2
  MaxCrashes = 1
PROPERTIES
  GhostJobsVanish
  OverdueGetDisabled
CHECK_DEADLOCK FALSE
