SPECIFICATION Spec
CONSTANTS
  MaxTries = 1
  LongRunning = {FALSE}
  InRecipe = {FALSE}
  Cancelable = TRUE
  MaxExes = 2
  MaxClock = 2
  MaxRequeues = 1
  MaxEpoch = 1
PROPERTY RepeatedHasNoEffect
