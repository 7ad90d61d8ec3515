SPECIFICATION MCSpec
CONSTANTS
  ListenerCount = 3
  Fatal = {1, 2}
  ToolExecution = "parallel"
  SequentialTools = FALSE
  SteeringMode = "one-at-a-time"
  FollowUpMode = "all"
  TurnLimit = 0
  CallLimit = 0
  MaxBatch = 2
  MaxCalls = 2
  MaxTexts = 1
  MaxRuns = 2
  MaxFailures = 2
INVARIANTS
  ContextIsTranscript
  OnlyFinishedResponsesExecute
  ResultsAreHonest
PROPERTIES
  KeepsConversation
  AcceptedResultsAreFinal
  NoExecutionAfterAbort
  MessagesConserved
CHECK_DEADLOCK FALSE
