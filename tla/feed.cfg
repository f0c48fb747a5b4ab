CONSTANTS
  Writers = {w1, w2}
  Watchers = {s1}
  None = None
  Starts = {0, None}
  Capacity = 2
  Chunk = 1
  MaxBatch = 2
  MaxRows = 3
  MaxConnects = 2
SPECIFICATION Spec
INVARIANTS ExactlyOnceInOrder SeamHasNoGap
PROPERTY CaughtUp
CHECK_DEADLOCK FALSE
