CONSTANTS
  a = a
  Runs = {r1, r2}
  Agents = {a}
  AgentOf <- OneAgent
  Talking = {r1}
  Streams = {out}
  MaxLineLen = 0
  LineBytesMax = 1
  MaxBytes = 4
  AgentNames = {"", "m", "n"}
  Tokens = {"s", "t"}
SPECIFICATION LaunchSpec
INVARIANTS OneAtATime OutputComplete
PROPERTIES FlagComesDown StopsInTime
CHECK_DEADLOCK FALSE
