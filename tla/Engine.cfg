\* The engine with tasks that allow no repeats: two tasks and one dispute, reopened
\* once, or one task and two disputes, reopened twice; two agents' snapshots with
\* three commits, or two when calls overlap.
SPECIFICATION EngineSpec
CONSTANTS
  Agents = {1, 2, 3}
  Tasks = {1, 2}
  Subs = {1, 2}
  Disps = {1, 2}
  Cycles = {1, 2}
  InitialAgentBalance = 7
  MintPerCycle = 1
  TaxRateBps = 500
  TaxMin = 1
  TerminationPenaltyBps = 1000
  PublisherWorkload = 1
  WorkerWorkload = 1
  VoteWorkload = 4
  DisputeQuorum = 1
  DisputeApprovalBps = 6000
  Publishers = {1}
  Workers = {2}
  Supervisors = {3}
  SlotCounts = {1, 2}
  Rewards = {2}
  RepeatOptions = {FALSE}
  VoteWeights = {1}
  Expiring = {1}
  MaxAged = 2
  MaxReopens = 2
  Members = {1, 2}
  Calls = {1, 2}
  MaxCommits = 3
  MaxBalance = 3
INVARIANTS
  SnapshotsTrue
PROPERTIES
  EngineSound
  CommitsSerial
CHECK_DEADLOCK FALSE
