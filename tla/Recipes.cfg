SPECIFICATION Spec
CONSTANTS
  MaxTries = 1
  MaxClock = 2
  MaxRecipes = 3
  Scenarios <- RecipeCases
INVARIANTS
  TypeOK
  LatestIsUnique
  NodesHaveTheirJobs
  CompletedRecipeIsComplete
  NoneForgotten
  LatestIsLive
  ParentsFirst
CHECK_DEADLOCK FALSE
