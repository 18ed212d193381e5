SPECIFICATION Spec
CONSTANTS
  LinSteps = 3
  AngSteps = 1
  BrakeSteps = 5
INVARIANTS
  TypeOK
  WithinLimits
PROPERTIES
  DrivesSmoothly
  RampOnlySlows
  ForceStopStops
  HaltedUntilMotionKey
CHECK_DEADLOCK FALSE
