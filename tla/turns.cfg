SPECIFICATION FairSpec
CONSTANTS
  Prompts = {p1, p2}
  None = None
  MaxRetries = 1
  KeepRecent = 2
  Scenarios <- EveryScenario
INVARIANTS
  ConversationIsKept
PROPERTIES
  EndIsTold
  EverySettles
CHECK_DEADLOCK FALSE
