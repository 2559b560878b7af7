SPECIFICATION FairSpec
CONSTANTS
  JobExes = {"e1"}
  MaxPerCleanup = 1
  Agents = {"a1"}
  FirstAgent = "a1"
  NextAgent <- Always
  MaxTasks = 1
  Scenarios <- LiveScenarios
PROPERTIES
  BecomesReady
  AllCleanedUp
