\* Cycles close when tasks allow repeats, and a worker spends the payout of a dispute
\* that is reopened.
SPECIFICATION MarketSpec
CONSTANTS
  Agents = {1, 2, 3}
  Tasks = {1, 2, 3}
  Subs = {1, 2}
  Disps = {1}
  Cycles = {1, 2}
  InitialAgentBalance = 5
  MintPerCycle = 1
  TaxRateBps = 500
  TaxMin = 1
  TerminationPenaltyBps = 10000
  PublisherWorkload = 1
  WorkerWorkload = 1
  VoteWorkload = 4
  DisputeQuorum = 1
  DisputeApprovalBps = 6000
  Publishers = {1, 2}
  Workers = {2}
  Supervisors = {3}
  SlotCounts = {1, 2}
  Rewards = {1, 2, 8}
  RepeatOptions = {TRUE}
  VoteWeights = {1}
  Expiring = {1}
  MaxAged = 2
  MaxReopens = 1
  MaxCrashes = 1
PROPERTIES
  EveryCycleCloses
  DebtorsBanned
CHECK_DEADLOCK FALSE
