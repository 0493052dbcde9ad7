\* Reopening a dispute after its task went on.
SPECIFICATION Spec
CONSTANTS
  Agents = {1, 2, 3}
  Tasks = {1}
  Subs = {1, 2}
  Disps = {1}
  Cycles = {1}
  InitialAgentBalance = 7
  MintPerCycle = 1
  TaxRateBps = 500
  TaxMin = 1
  TerminationPenaltyBps = 1000
  PublisherWorkload = 1
  WorkerWorkload = 1
  VoteWorkload = 4
  DisputeQuorum = 1
  DisputeApprovalBps = 6000
  Publishers = {1}
  Workers = {2}
  Supervisors = {}
  SlotCounts = {2}
  Rewards = {2}
  RepeatOptions = {TRUE}
  VoteWeights = {1}
  Expiring = {}
  MaxAged = 0
  MaxReopens = 1
  MaxCrashes = 0
INVARIANTS
  ConservedInv
CHECK_DEADLOCK FALSE
