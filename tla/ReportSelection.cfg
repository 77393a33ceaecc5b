SPECIFICATION Spec
CONSTANTS
  Inputs <- MCInputs
  Children <- MCChildren
  Requests = {r1, r2}
  Workers = {w1}
  MaxAttempts = 2
  Stale = 0
  MaxJobs = 6
  MaxTime = 2
  MaxFaults = 1
INVARIANT LinksAreReports
PROPERTY EveryJobEnds
CHECK_DEADLOCK FALSE
