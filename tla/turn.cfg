SPECIFICATION Spec
CONSTANTS
  a = a
  b = b
  Ids = {a, b}
  None = None
  Kinds <- TwoKinds
  MaxIterations = 2
  Size = 1
  MaxTokens = 3
  Usages <- FewUsages
  MaxBlocks = 2
  MaxMessages = 3
  MaxRestarts = 1
  Drops = TRUE
SYMMETRY Symmetry
INVARIANTS RequestAccepted AnswersAreOwned
PROPERTIES CrossingHonoured ImplementsConversation
CHECK_DEADLOCK FALSE
