CONSTANTS
  Task = {t1}
  NoTask = NoTask
SPECIFICATION CmdVelSpec
CHECK_DEADLOCK FALSE
PROPERTY
  HoldsAtObstacle
