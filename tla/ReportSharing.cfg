SPECIFICATION Spec
CONSTANTS
  Inputs = {i1, i2}
  Children <- NoChildren
  Requests = {r1, r2, r3}
  Workers = {w1, w2}
  MaxAttempts = 2
  Stale = 1
  MaxJobs = 3
  MaxTime = 2
  MaxFaults = 3
SYMMETRY Symmetry
INVARIANTS OneActivePerInput SharedOnlyWhenLate RefusedOnlyIfOvertaken
PROPERTY VerdictStands
CHECK_DEADLOCK FALSE
