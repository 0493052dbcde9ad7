\* One worker, two tasks with or without repeats, up to three submissions, one
\* dispute; every list, of three rows and two instants, read row by row; an activity
\* in two days of four hours whose zone changes its clocks at any of them; a dispute
\* of two voters and three rounds.
SPECIFICATION ReadsSpec
CONSTANTS
  Agents = {1, 2}
  Tasks = {1, 2}
  Subs = {1, 2, 3}
  Disps = {1}
  Cycles = {1}
  InitialAgentBalance = 7
  MintPerCycle = 1
  TaxRateBps = 500
  TaxMin = 1
  TerminationPenaltyBps = 1000
  PublisherWorkload = 1
  WorkerWorkload = 1
  VoteWorkload = 4
  DisputeQuorum = 1
  DisputeApprovalBps = 6000
  Publishers = {1}
  Workers = {2}
  Supervisors = {}
  SlotCounts = {2}
  Rewards = {2}
  RepeatOptions = {TRUE, FALSE}
  VoteWeights = {1}
  Expiring = {1}
  MaxAged = 0
  MaxReopens = 1
  Targets = {1, 2}
  Rows = {1, 2, 3}
  PageLimit = 1
  MaxKey = 1
  Events = {1}
  DayLength = 4
  MaxOffset = 1
  Window = 2
  MaxClock = 7
  MaxCycles = 2
  Voters = {1, 2}
  MaxRounds = 3
INVARIANTS
  TodosRight
  PagesRight
  DaysRight
  DisputeRight
CHECK_DEADLOCK FALSE
