CONSTANTS
  Task = {t1, t2, t3}
  NoTask = NoTask
  Action = {act}
  GoToPlaceSupported = TRUE
SPECIFICATION FairSpec
CHECK_DEADLOCK FALSE
INVARIANTS
  ExecutionsAreServed
  ActivityIsCurrent
  ManagerWorksForAwaited
PROPERTIES
  ActivityLostToLateResultOnly
  SentGoalsFinish
