CONSTANTS
  Task = {t1, t2}
  NoTask = NoTask
SPECIFICATION Spec
CHECK_DEADLOCK FALSE
INVARIANT
  CancelReachesNav2
