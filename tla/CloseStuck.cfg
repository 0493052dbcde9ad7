\* A second submission to a task without repeats times out.
SPECIFICATION FairSpec
CONSTANTS
  Agents = {1, 2, 3}
  Tasks = {1}
  Subs = {1, 2}
  Disps = {}
  Cycles = {1, 2}
  InitialAgentBalance = 7
  MintPerCycle = 1
  TaxRateBps = 500
  TaxMin = 1
  TerminationPenaltyBps = 1000
  PublisherWorkload = 1
  WorkerWorkload = 1
  VoteWorkload = 4
  DisputeQuorum = 1
  DisputeApprovalBps = 6000
  Publishers = {1}
  Workers = {2}
  Supervisors = {}
  SlotCounts = {2}
  Rewards = {2}
  RepeatOptions = {FALSE}
  VoteWeights = {1}
  Expiring = {1}
  MaxAged = 2
  MaxReopens = 0
  MaxCrashes = 0
PROPERTIES
  CyclesClose
CHECK_DEADLOCK FALSE
