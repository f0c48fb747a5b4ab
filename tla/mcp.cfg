CONSTANTS
  MaxCalls = 5
  Pipe = 2
  MaxAsks = 1
SPECIFICATION McpSpec
INVARIANTS OwnAnswer LostOnlyByATear
PROPERTY EveryCallReturns
CHECK_DEADLOCK FALSE
