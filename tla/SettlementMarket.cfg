\* Two tasks of one publisher, with and without repeats, whom one unpaid dispute
\* makes insolvent, through the close of a cycle, with one interrupted transaction.
SPECIFICATION Spec
CONSTANTS
  Agents = {1, 2, 3}
  Tasks = {1, 2}
  Subs = {1, 2}
  Disps = {1}
  Cycles = {1, 2}
  InitialAgentBalance = 7
  MintPerCycle = 1
  TaxRateBps = 500
  TaxMin = 1
  TerminationPenaltyBps = 1000
  PublisherWorkload = 1
  WorkerWorkload = 1
  VoteWorkload = 4
  DisputeQuorum = 1
  DisputeApprovalBps = 6000
  Publishers = {1}
  Workers = {2}
  Supervisors = {3}
  SlotCounts = {1, 2}
  Rewards = {2}
  RepeatOptions = {TRUE, FALSE}
  VoteWeights = {1}
  Expiring = {1}
  MaxAged = 2
  MaxReopens = 0
  MaxCrashes = 1
INVARIANTS
  MoneyKept
PROPERTIES
  ClosesCleanly
CHECK_DEADLOCK FALSE
