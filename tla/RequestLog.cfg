\* A buffer of three, batches of two, and enough requests to fill it while a
\* batch is being written.  One request with two bans and a death of the
\* process, or two requests.
SPECIFICATION LogsSpec
CONSTANTS
  Capacity = 3
  BatchSize = 2
  CompactAt = 4
  MaxLogs = 6
  MaxRetries = 2
  MaxBans = 2
  MaxDeaths = 1
INVARIANTS
  MemoryBounded
  DropsTold
  RequestsTold
PROPERTIES
  QueueSpec
  BannedStop
  AllEnds
CHECK_DEADLOCK FALSE
