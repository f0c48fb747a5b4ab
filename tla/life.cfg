CONSTANTS
  Starts = {c1, c2}
  Execs = {e1}
  Stops = {s1}
  Deletes = {d1}
  Revokes = {k1}
  Subs = {b1, b2}
  c1 = c1
  c2 = c2
  b1 = b1
  b2 = b2
  None = None
  MaxSubs = 1
  MaxTurns = 2
  MaxCalls = 4
  MaxFaults = 1
SPECIFICATION Spec
SYMMETRY Symmetry
INVARIANTS NothingOrphaned ClosedIsQuiet EndedOnce SlotsBounded
CHECK_DEADLOCK FALSE
