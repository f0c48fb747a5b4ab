CONSTANTS
  Clients = {c1, c2}
  Reqs = {1, 2, 3, 4}
  Closers = {}
  None = None
  Disconnects = FALSE
  MaxRestarts = 0
  MaxCalls = 1
  MaxFails = 0
SPECIFICATION HarnessSpec
PROPERTY LateResultsRefused
CHECK_DEADLOCK FALSE
