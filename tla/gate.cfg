CONSTANTS
  Clients = {c1, c2}
  Reqs = {r1, r2, r3}
  Closers = {d1}
  None = None
  Disconnects = TRUE
  MaxRestarts = 1
SPECIFICATION Spec
SYMMETRY Interchangeable
INVARIANTS OneLogicalTurn ToolUseAccounted
PROPERTIES AnsweredInPlace TerminalIsFinal ImplementsOwnership
CHECK_DEADLOCK FALSE
