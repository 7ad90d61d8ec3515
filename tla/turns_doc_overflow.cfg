SPECIFICATION FairSpec
CONSTANTS
  Prompts = {p1, p2}
  None = None
  MaxRetries = 1
  KeepRecent = 2
  Scenarios <- EveryScenario
PROPERTIES
  OverflowRetried
CHECK_DEADLOCK FALSE
