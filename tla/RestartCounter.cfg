SPECIFICATION RestartSpec
CONSTANTS
  h1 = h1
  h2 = h2
  h3 = h3
  h4 = h4
  h5 = h5
  b0 = b0
  b1 = b1
  b2 = b2
  None = None
  Handlers = {h1, h2, h3, h4, h5}
  Starts = {b0, b1, b2}
  StartOf <- MixedStarts
  First = b0
  Threshold = 3
  MaxRedisFaults = 2
INVARIANT NoRestartMissed
CHECK_DEADLOCK FALSE
