SPECIFICATION TracerSpec
CHECK_DEADLOCK FALSE
INVARIANTS
  NeverAhead
  ShowsFurthestStage
