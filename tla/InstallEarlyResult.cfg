SPECIFICATION Spec
CONSTANTS
  None = None
  NoRow = NoRow
  Draft = Draft
  s1 = s1
  r1 = r1
  r2 = r2
  SuccessExitCodes <- AllowList
  Servers = {s1}
  Requests = {r1, r2}
  Reports <- PolicyReports
  Window = 2
  MaxTime = 6
INVARIANT UnmatchedMeansNoTask
CHECK_DEADLOCK FALSE
