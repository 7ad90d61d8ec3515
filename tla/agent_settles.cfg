SPECIFICATION MCSpec
CONSTANTS
  ListenerCount = 2
  Fatal = {1}
  ToolExecution = "parallel"
  SequentialTools = TRUE
  SteeringMode = "all"
  FollowUpMode = "one-at-a-time"
  TurnLimit = 2
  CallLimit = 2
  MaxBatch = 2
  MaxCalls = 3
  MaxTexts = 1
  MaxRuns = 1
  MaxFailures = 1
  Contents <- MCContents
  Sizes <- MCSizes
  MaxResizes = 1
  MaxForces = 1
  Streams <- MCStreams
INVARIANTS
  TypeOK
  RunsEndProperly
  TerminalIsKnown
  TypedArrives
PROPERTIES
  RunsAndTerminalSettle
CHECK_DEADLOCK FALSE
