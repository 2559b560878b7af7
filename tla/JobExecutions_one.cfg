SPECIFICATION Spec
CONSTANTS
  NumTasks = 2
  JobExes = {e1}
  Cancelable = {e1}
  CanTimeOut = {e1}
  MaxLost = 1
  RacyRequests = FALSE
INVARIANTS
  TypeOK
  CompletedRanAllTasks
  KilledHasEnded
  OneTaskAtATime
  CleanupAfterDead
  ReportedWhenRemoved
PROPERTIES
  EndIsFinal
