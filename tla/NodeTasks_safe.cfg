SPECIFICATION Spec
CONSTANTS
  JobExes = {"e1", "e2"}
  MaxPerCleanup = 1
  Agents = {"a1", "a2"}
  FirstAgent = "a1"
  NextAgent <- TwoInTurn
  MaxTasks = 2
  Scenarios <- SafetyScenarios
INVARIANTS
  TypeOK
  NotForgotten
  HeldTaskIsLive
  StateIsCurrent
