CONSTANT
  Robot = {r1, r2, r3}
SPECIFICATION FairSpec
INVARIANTS
  TimerOutlivesRegistration
  OnlyCommonRobotsRegistered
PROPERTIES
  CommonRobotsGetRegistered
