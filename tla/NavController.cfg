CONSTANTS
  Task = {t1, t2, t3}
  NoTask = NoTask
SPECIFICATION Spec
SYMMETRY Symmetry
CHECK_DEADLOCK FALSE
INVARIANTS
  GoalInFlightIsOurs
  TaskIsDriven
  OwnCommandStopsAtObstacle
  IdleMeansStopped
