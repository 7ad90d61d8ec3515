SPECIFICATION MCSpec
CONSTANTS
  MaxWrites = 3
  MaxStalls = 1
  SteeringMode = "one-at-a-time"
  FollowUpMode = "all"
  MaxRuns = 2
  MaxTurns = 1
  MaxCalls = 2
  MaxFailures = 1
INVARIANTS
  CommandIsWhole
  SessionIsKept
  OutputIsKept
PROPERTIES
  ExecEnds
  CallsSettle
CHECK_DEADLOCK FALSE
