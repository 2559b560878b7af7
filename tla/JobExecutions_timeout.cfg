SPECIFICATION FairSpec
CONSTANTS
  NumTasks = 1
  JobExes = {e1}
  Cancelable = {}
  CanTimeOut = {e1}
  MaxLost = 1
  RacyRequests = FALSE
PROPERTY TimedOutLeaves
