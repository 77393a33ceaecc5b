SPECIFICATION Spec
CONSTANTS
    None = None
    Handlers = {h1, h2}
    Readers = {r1}
    Configs = {c1, c2}
    FirstConfig = c1
    Tolerance = 5
    Jitter = 1
    Ttl <- MCTtl
    Offset <- MCOffset
    Lacking <- MCLacking
    OnlineTtl = 2
    MaxTime = 3
    MaxEvents = 1
    MaxPending = 2
    MaxFaults = 1
SYMMETRY Symmetry
INVARIANTS
    RedisFollowsTables
    HistoryExplainsRow
    EventsAreCounted
CHECK_DEADLOCK FALSE
