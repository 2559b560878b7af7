SPECIFICATION FairSpec
CONSTANTS
  MaxTries = 1
  LongRunning = {TRUE, FALSE}
  InRecipe = {TRUE}
  Cancelable = FALSE
  MaxExes = 2
  MaxClock = 1
  MaxRequeues = 1
  MaxEpoch = 1
PROPERTIES
  JobEnds
  ObsoleteExecutionsStop
  ReadyIsQueued
