SPECIFICATION Spec
CONSTANTS
  None = None
  NoRow = NoRow
  Draft = Draft
  s1 = s1
  r1 = r1
  r2 = r2
  SuccessExitCodes <- AllowList
  Servers = {s1}
  Requests = {r1, r2}
  Reports <- FreeReports
  Window = 1
  MaxTime = 4
INVARIANTS AtMostOnePending NoGhostPending ReportedOutcomeStands ZombieOnlyIfPublishedLate
PROPERTIES PendingEnds ImplementsLifecycle
CHECK_DEADLOCK FALSE
