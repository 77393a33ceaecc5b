SPECIFICATION Spec
CONSTANTS
  c1 = c1
  c2 = c2
  c3 = c3
  c4 = c4
  m1 = m1
  m2 = m2
  m3 = m3
  m4 = m4
  a1 = a1
  Copies = {c1, c2}
  Ids = {m1}
  Agents = {a1}
  MsgOf <- TwinMsgOf
  KindOf <- TwinKindOf
  AgentOf <- TwinAgent
  Malformed = {}
  Unmatchable = {}
  ClockSkewed = {m1}
  Prefetch = 2
  MaxAttempts = 2
  MaxFaults = 3
SYMMETRY TwinSymmetry
INVARIANTS StoredOnceUnlessReopened NoSilentLoss
CHECK_DEADLOCK FALSE
