CONSTANT
  MaxRuns = 2
SPECIFICATION FairSpec
CHECK_DEADLOCK FALSE
INVARIANTS
  ButtonsFollowProcess
  LabelAgreesWithLight
PROPERTIES
  StopEnds
  RmfLightsComeOn
  
