SPECIFICATION Spec
CONSTANTS
  OfferIds = {o1, o2}
  Names = {"paused"}
  Scenarios <- MCScenarios
CHECK_DEADLOCK FALSE
INVARIANTS SystemTasksScheduled
