CONSTANTS
  Viewers = {v1, v2}
  None = None
  MaxLog = 2
  MaxStreams = 2
  MaxLags = 1
  MaxFaults = 1
SPECIFICATION Spec
INVARIANTS FollowsTheLog OneUpstream JoinsOnce
PROPERTY ToldOfEnd
CHECK_DEADLOCK FALSE
