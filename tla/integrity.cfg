SPECIFICATION Spec
CONSTANTS
  test = test
  Command = {test}
  Nobody = Nobody
  MaxAttempts = 1
  MaxValidations = 2
  Scenarios <- MCScenarios
INVARIANTS
  EvidenceIsSound
PROPERTIES
  CompletionIsDecided
CHECK_DEADLOCK FALSE
