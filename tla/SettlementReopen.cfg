\* The same market with one dispute that may be reopened once.
SPECIFICATION Spec
CONSTANTS
  Agents = {1, 2, 3}
  Tasks = {1, 2}
  Subs = {1, 2}
  Disps = {1}
  Cycles = {1, 2}
  InitialAgentBalance = 7
  MintPerCycle = 1
  TaxRateBps = 500
  TaxMin = 1
  TerminationPenaltyBps = 1000
  PublisherWorkload = 1
  WorkerWorkload = 1
  VoteWorkload = 4
  DisputeQuorum = 1
  DisputeApprovalBps = 6000
  Publishers = {1}
  Workers = {2}
  Supervisors = {3}
  SlotCounts = {1}
  Rewards = {2}
  RepeatOptions = {TRUE}
  VoteWeights = {1}
  Expiring = {1}
  MaxAged = 2
  MaxReopens = 1
  MaxCrashes = 0
INVARIANTS
  RowsAgree
PROPERTIES
  DisputesStand
  RoundsUndone
  ReviewImplemented
  ImplementsEngine
CHECK_DEADLOCK FALSE
