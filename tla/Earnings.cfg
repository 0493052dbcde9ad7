\* Every pool and workload of three agents up to small bounds; two tasks with a
\* dispute each and four new rounds, or one task and three instants.  Reputations
\* from 0 to 10 half points.
SPECIFICATION EarningsSpec
CONSTANTS
  Agents = {1, 2, 3}
  MintPerCycle = 0
  Fees = {1, 3}
  Workloads = {0, 1, 4}
  MaxPool = 12
  MaxLoad = 6
  Precision = 53
  Tasks = {1, 2}
  Supervisors = {"s"}
  RepStart = 5
  RepMax = 10
  MaxClock = 3
  MaxReopens = 4
PROPERTIES
  StandingEarned
  PoolSplit
CHECK_DEADLOCK FALSE
