SPECIFICATION Spec
CONSTANTS
  c1 = c1
  c2 = c2
  c3 = c3
  c4 = c4
  m1 = m1
  m2 = m2
  m3 = m3
  m4 = m4
  a1 = a1
  Copies = {c1, c2, c3, c4}
  Ids = {m1, m2, m3, m4}
  Agents = {a1}
  MsgOf <- QueueMsgOf
  KindOf <- QueueKindOf
  AgentOf <- QueueAgent
  Malformed = {m3}
  Unmatchable = {m2}
  ClockSkewed = {m4}
  Prefetch = 1
  MaxAttempts = 2
  MaxFaults = 1
PROPERTIES EverySettled StopsWhenTold
CHECK_DEADLOCK FALSE
