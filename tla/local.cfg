CONSTANTS
  host = host
  boxed = boxed
  Ids = {host, boxed}
  Boxed = {boxed}
  Tool = tool
  None = None
  MaxRunning = 2
  MaxBoxes = 2
  MaxFaults = 1
SPECIFICATION Spec
INVARIANTS ReportOrder AdvertisedWhenTracked CloseStopsEveryBox
PROPERTY EveryLaunchEnds
CHECK_DEADLOCK FALSE
