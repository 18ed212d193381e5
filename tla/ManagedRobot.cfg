CONSTANTS
  Task = {t1, t2, t3}
  NoTask = NoTask
SPECIFICATION FairSpec
CHECK_DEADLOCK FALSE
INVARIANTS
  TypeOK
  HandleFollowsTask
  CurrentGoalIsTheOpenOne
  CancelFlagFollowsGoal
  StateMachineFollowsController
  StateMachineConsistent
  ArrivalConfirmed
PROPERTIES
  ImplementsNavigationGoals
  GoalsAnsweredUnlessHung
