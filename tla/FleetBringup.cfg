SPECIFICATION Spec
CONSTANTS
  Count = 7
  Slack = 5
  Patience = 12
  MaxCrashes = 2
INVARIANTS
  MissingNodesCrashed
PROPERTIES
  GivesUpOnLateRobotsOnly
  NavComesUp
CHECK_DEADLOCK FALSE
