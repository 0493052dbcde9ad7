\* Two requests of two processes with a database, every order of requests without;
\* and two limiters with a capacity of two calls.
SPECIFICATION BackendSpec
CONSTANTS
  Mints = {5, 6}
  Weights = {"publisher", "worker", "supervisor"}
  WeightTotal = 1
  PatchSizes = {2}
  Processes = {api, worker}
  Followed = {"worker", "mint"}
  Requests = {r1, r2}
  None = none
  MaxClosings = 1
  ApiProcesses = {1, 2}
  PerMinute = 2
  Burst = 0
  Expiry = 3
  MaxAhead = 1
  MaxClock = 4
  MaxCalls = 2
  MaxLost = 1
SYMMETRY Symmetry
INVARIANTS
  RulesKept
  StagedKept
  MemoryRulesKept
  LimitsKept
CHECK_DEADLOCK FALSE
