CONSTANTS
  Clients = {c1, c2}
  Reqs = {1, 2, 3}
  Closers = {c1}
  None = None
  Disconnects = TRUE
  MaxRestarts = 0
  MaxCalls = 1
  MaxFails = 1
SPECIFICATION HarnessSpec
INVARIANT ResultsReachTheLog
PROPERTIES EveryCallEnds
CHECK_DEADLOCK FALSE
