SPECIFICATION Spec
CONSTANTS
  MaxTries = 2
  LongRunning = {FALSE}
  InRecipe = {FALSE}
  Cancelable = TRUE
  MaxExes = 2
  MaxClock = 2
  MaxRequeues = 1
  MaxEpoch = 2
INVARIANTS
  TypeOK
  EveryExecutionHasACause
  StatusIsOfLatestExecution
  NodeAndErrorFitStatus
  ExecutionNumbersAreUnique
  UnfinishedIsAccountedFor
PROPERTIES
  FollowsLifecycle
