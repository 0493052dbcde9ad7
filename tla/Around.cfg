\* Two API processes and a worker on one database; two agents and a table for
\* one challenge.  Two commands at once on the files, three in all; two retries of
\* a call; two queries of three pages each and two drawers, with two refreshes and
\* two errors.
SPECIFICATION AroundSpec
CONSTANTS
  Apis = {1, 2}
  WorkerProcesses = {3}
  RuleSet = {1, 2}
  MaxCycle = 2
  MaxWrites = 1
  MaxUpdates = 1
  MaxStops = 2
  Addresses = {1, 2}
  Requests = {1, 2}
  Ttl = 2
  SweepInterval = 3
  MaxEntries = 1
  MaxChallenges = 3
  MaxTime = 3
  Shells = {1, 2}
  Values = {1, 2}
  MaxCommands = 3
  MaxKeys = 2
  MaxFailures = 1
  MaxRetries = 2
  Queries = {1, 2}
  Pages = 3
  Ids = {1, 2}
  MaxChanges = 3
  MaxRefreshes = 2
  MaxOpens = 3
  MaxErrors = 2
INVARIANTS
  StartsRight
  ChallengesKept
  FilesKept
  CallsTold
  ViewsMatch
PROPERTIES
  StartsEnd
  ClientRests
CHECK_DEADLOCK FALSE
