\* Two workers with lost connections, failing transactions and a crash.  Three
\* logs in each table, deleted two at a time.
SPECIFICATION WorkerSpec
CONSTANTS
  Workers = {w1, w2}
  NoWorker = none
  Durations = {1, 2}
  MaxTime = 2
  MaxErrors = 1
  MaxLosses = 1
  MaxCrashes = 1
  MemoryCapacity = 2
  RequestRetention = 1
  AuditRetention = 2
  CleanupBatch = 2
  MaxLogTime = 3
  MaxRecords = 5
  MaxRows = 3
  MaxSetBacks = 1
  MaxJobs = 1
INVARIANTS
  LockReturned
  Exclusive
  LogsKept
PROPERTIES
  EachCycleLasts
  DueDone
CHECK_DEADLOCK FALSE
