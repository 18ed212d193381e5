------------------------- MODULE ManagedRobot_proofs -------------------------
(***************************************************************************)
(* Proofs about ManagedRobot, for any set of tasks.                        *)
(*                                                                         *)
(* InductiveInvariant is shown to hold initially and to be preserved, one  *)
(* lemma for each action of Next; every safety property of the module is   *)
(* one of its conjuncts.  The same invariant then justifies the step by    *)
(* step mapping to NavigationGoals.                                        *)
(***************************************************************************)
EXTENDS ManagedRobot, TLAPS

(***************************************************************************)
(* The state machine alone, under any order of its triggers, on_recover    *)
(* included, which no caller of the repository fires.                      *)
(***************************************************************************)

(* Every trigger keeps types and agreement.                                *)
LEMMA TriggersKeepInvariant ==
  ASSUME SM!TypeOK, SM!Consistent, [SM!Next]_(SM!smVars)
  PROVE  SM!TypeOK' /\ SM!Consistent'
<1> USE NoTaskAssumption
    DEF SM!TypeOK, SM!Consistent, SM!TaskOrNone, SM!Reason, SM!NoReason, SM!smVars
<1>1. ASSUME NEW t \in Task, SM!OnNavigate(t)
      PROVE  SM!TypeOK' /\ SM!Consistent'
  BY <1>1 DEF SM!OnNavigate
<1>2. CASE SM!OnNavigateAccepted
  BY <1>2 DEF SM!OnNavigateAccepted
<1>3. CASE SM!OnSuccess
  BY <1>3 DEF SM!OnSuccess
<1>4. ASSUME NEW r \in SM!Reason, SM!OnError(r)
      PROVE  SM!TypeOK' /\ SM!Consistent'
  BY <1>4 DEF SM!OnError
<1>5. CASE SM!OnRecover
  BY <1>5 DEF SM!OnRecover
<1>6. CASE UNCHANGED SM!smVars
  BY <1>6
<1> QED
  BY <1>1, <1>2, <1>3, <1>4, <1>5, <1>6 DEF SM!Next

(* State, task and error reason agree whatever the order of the triggers,  *)
(* for any set of tasks (RobotStateMachine.cpp:20-142).                    *)
THEOREM MachineConsistent == SM!Spec => [](SM!TypeOK /\ SM!Consistent)
<1>1. SM!Init => SM!TypeOK /\ SM!Consistent
  BY NoTaskAssumption
     DEF SM!Init, SM!TypeOK, SM!Consistent, SM!TaskOrNone, SM!Reason, SM!NoReason
<1>2. SM!TypeOK /\ SM!Consistent /\ [SM!Next]_(SM!smVars)
        => (SM!TypeOK /\ SM!Consistent)'
  BY TriggersKeepInvariant
<1> QED
  BY <1>1, <1>2, PTL DEF SM!Spec

(***************************************************************************)
(* The wired robot.                                                        *)
(***************************************************************************)

(* The vocabulary of the types is expanded throughout.                     *)
USE NoTaskAssumption
    DEF TaskOrNone, NC!TaskOrNone, NC!Nav2!TaskOrNone, SM!TaskOrNone,
        GoalStatus, NC!Phase, NC!NoResult, SM!Reason, SM!NoReason

(* The program starts in the invariant.                                    *)
LEMMA InitInvariant == Init => InductiveInvariant
<1> SUFFICES ASSUME Init PROVE InductiveInvariant
  OBVIOUS
<1> USE DEF Init, NC!Init, NC!Nav2!Init, SM!Init
<1>1. TypeOK
  BY DEF TypeOK, NC!TypeOK, NC!Nav2!TypeOK, SM!TypeOK
<1>2. NC!Nav2!ClientAgrees /\ Nav2AskedOnce /\ Nav2GoalAccepted
  BY DEF NC!Nav2!ClientAgrees, Nav2AskedOnce, Nav2GoalAccepted
<1>3. HandleFollowsTask /\ CurrentGoalIsTheOpenOne /\ CancelFlagFollowsGoal
  BY DEF HandleFollowsTask, CurrentGoalIsTheOpenOne, CancelFlagFollowsGoal
<1>4. StateMachineFollowsController /\ StateMachineConsistent /\ MachineWaitsForNav2
  BY DEF StateMachineFollowsController, StateMachineConsistent, SM!Consistent,
         MachineWaitsForNav2
<1>5. GoalInFlightIsOurs /\ ArrivalConfirmed
  BY DEF GoalInFlightIsOurs, NC!GoalInFlightIsOurs, ArrivalConfirmed, NC!ArrivalConfirmed
<1> QED
  BY <1>1, <1>2, <1>3, <1>4, <1>5 DEF InductiveInvariant

(***************************************************************************)
(* One lemma for each action.  Each takes the state apart in the same five *)
(* groups: types, the Nav2 client and its goal, the action server's goals, *)
(* the state machine, and what is known of Nav2's answer.                  *)
(***************************************************************************)

(* A new goal: the controller either dispatches it or hangs.               *)
LEMMA HandleAcceptedStep ==
  ASSUME InductiveInvariant,
         NEW t \in Task, NEW m \in BOOLEAN, NEW s \in BOOLEAN, HandleAccepted(t, m, s)
  PROVE  InductiveInvariant'
<1> USE DEF HandleAccepted, NC!Navigate, NC!DispatchNextWaypoint, NC!Nav2!Refuses,
         NC!Nav2!SendGoal, NC!Nav2!CancelGoal, NC!nav2Vars, SM!OnNavigate, SM!smVars
<1>1. TypeOK'
  <2>1. NC!Nav2!TypeOK'
    BY DEF InductiveInvariant, TypeOK, NC!TypeOK, NC!Nav2!TypeOK, NC!Nav2!ClientAgrees
  <2>2. NC!TypeOK'
    BY <2>1 DEF InductiveInvariant, TypeOK, NC!TypeOK
  <2>3. SM!TypeOK'
    BY DEF InductiveInvariant, TypeOK, SM!TypeOK
  <2>4. goalStatus' \in [Task -> GoalStatus] /\ currentGoal' \in TaskOrNone
    BY DEF InductiveInvariant, TypeOK
  <2> QED
    BY <2>1, <2>2, <2>3, <2>4 DEF TypeOK
<1>2. NC!Nav2!ClientAgrees' /\ Nav2AskedOnce' /\ Nav2GoalAccepted'
  BY DEF InductiveInvariant, TypeOK, NC!TypeOK, NC!Nav2!TypeOK, SM!TypeOK,
         NC!Nav2!ClientAgrees, Nav2AskedOnce, Nav2GoalAccepted
<1>3. HandleFollowsTask' /\ CurrentGoalIsTheOpenOne' /\ CancelFlagFollowsGoal'
  BY DEF InductiveInvariant, TypeOK, NC!TypeOK, NC!Nav2!TypeOK, SM!TypeOK,
         HandleFollowsTask, CurrentGoalIsTheOpenOne, CancelFlagFollowsGoal
<1>4. StateMachineFollowsController' /\ StateMachineConsistent' /\ MachineWaitsForNav2'
  BY DEF InductiveInvariant, TypeOK, NC!TypeOK, NC!Nav2!TypeOK, SM!TypeOK,
         HandleFollowsTask, StateMachineFollowsController, StateMachineConsistent,
         SM!Consistent, MachineWaitsForNav2, NC!Nav2!ClientAgrees,
         ArrivalConfirmed, NC!ArrivalConfirmed
<1>5. GoalInFlightIsOurs' /\ ArrivalConfirmed'
  BY DEF InductiveInvariant, TypeOK, NC!TypeOK, NC!Nav2!TypeOK, SM!TypeOK,
         NC!Nav2!ClientAgrees, HandleFollowsTask, GoalInFlightIsOurs,
         NC!GoalInFlightIsOurs, ArrivalConfirmed, NC!ArrivalConfirmed
<1> QED
  BY <1>1, <1>2, <1>3, <1>4, <1>5 DEF InductiveInvariant

(* A cancel request marks the goal in hand.                                *)
LEMMA HandleCancelStep ==
  ASSUME InductiveInvariant,
         NEW t \in Task, HandleCancel(t)
  PROVE  InductiveInvariant'
<1> USE DEF HandleCancel, NC!CancelAll, NC!Nav2!CancelGoal, smVars
<1>1. TypeOK'
  <2>1. NC!Nav2!TypeOK'
    BY DEF InductiveInvariant, TypeOK, NC!TypeOK, NC!Nav2!TypeOK, NC!Nav2!ClientAgrees
  <2>2. NC!TypeOK'
    BY <2>1 DEF InductiveInvariant, TypeOK, NC!TypeOK
  <2>3. SM!TypeOK'
    BY DEF InductiveInvariant, TypeOK, SM!TypeOK
  <2>4. goalStatus' \in [Task -> GoalStatus] /\ currentGoal' \in TaskOrNone
    BY DEF InductiveInvariant, TypeOK
  <2> QED
    BY <2>1, <2>2, <2>3, <2>4 DEF TypeOK
<1>2. NC!Nav2!ClientAgrees' /\ Nav2AskedOnce' /\ Nav2GoalAccepted'
  BY DEF InductiveInvariant, TypeOK, NC!TypeOK, NC!Nav2!TypeOK, SM!TypeOK,
         NC!Nav2!ClientAgrees, Nav2AskedOnce, Nav2GoalAccepted
<1>3. HandleFollowsTask' /\ CurrentGoalIsTheOpenOne' /\ CancelFlagFollowsGoal'
  BY DEF InductiveInvariant, TypeOK, NC!TypeOK, NC!Nav2!TypeOK, SM!TypeOK,
         HandleFollowsTask, CurrentGoalIsTheOpenOne, CancelFlagFollowsGoal
<1>4. StateMachineFollowsController' /\ StateMachineConsistent' /\ MachineWaitsForNav2'
  BY DEF InductiveInvariant, TypeOK, NC!TypeOK, NC!Nav2!TypeOK, SM!TypeOK,
         HandleFollowsTask, StateMachineFollowsController, StateMachineConsistent,
         SM!Consistent, MachineWaitsForNav2, NC!Nav2!ClientAgrees,
         ArrivalConfirmed, NC!ArrivalConfirmed
<1>5. GoalInFlightIsOurs' /\ ArrivalConfirmed'
  BY DEF InductiveInvariant, TypeOK, NC!TypeOK, NC!Nav2!TypeOK, SM!TypeOK,
         NC!Nav2!ClientAgrees, HandleFollowsTask, GoalInFlightIsOurs,
         NC!GoalInFlightIsOurs, ArrivalConfirmed, NC!ArrivalConfirmed
<1> QED
  BY <1>1, <1>2, <1>3, <1>4, <1>5 DEF InductiveInvariant

(* Nav2's goal response lets the machine navigate.                         *)
LEMMA Nav2AcceptedStep ==
  ASSUME InductiveInvariant, Nav2Accepted
  PROVE  InductiveInvariant'
<1> USE DEF Nav2Accepted, NC!OnNav2Accepted, NC!Nav2!GoalAccepted, NC!ncVars,
         SM!OnNavigateAccepted, serverVars
<1>1. TypeOK'
  <2>1. NC!Nav2!TypeOK'
    BY DEF InductiveInvariant, TypeOK, NC!TypeOK, NC!Nav2!TypeOK, NC!Nav2!ClientAgrees
  <2>2. NC!TypeOK'
    BY <2>1 DEF InductiveInvariant, TypeOK, NC!TypeOK
  <2>3. SM!TypeOK'
    BY DEF InductiveInvariant, TypeOK, SM!TypeOK
  <2>4. goalStatus' \in [Task -> GoalStatus] /\ currentGoal' \in TaskOrNone
    BY DEF InductiveInvariant, TypeOK
  <2> QED
    BY <2>1, <2>2, <2>3, <2>4 DEF TypeOK
<1>2. NC!Nav2!ClientAgrees' /\ Nav2AskedOnce' /\ Nav2GoalAccepted'
  BY DEF InductiveInvariant, TypeOK, NC!TypeOK, NC!Nav2!TypeOK, SM!TypeOK,
         NC!Nav2!ClientAgrees, Nav2AskedOnce, Nav2GoalAccepted
<1>3. HandleFollowsTask' /\ CurrentGoalIsTheOpenOne' /\ CancelFlagFollowsGoal'
  BY DEF InductiveInvariant, TypeOK, NC!TypeOK, NC!Nav2!TypeOK, SM!TypeOK,
         HandleFollowsTask, CurrentGoalIsTheOpenOne, CancelFlagFollowsGoal
<1>4. StateMachineFollowsController' /\ StateMachineConsistent' /\ MachineWaitsForNav2'
  BY DEF InductiveInvariant, TypeOK, NC!TypeOK, NC!Nav2!TypeOK, SM!TypeOK,
         HandleFollowsTask, StateMachineFollowsController, StateMachineConsistent,
         SM!Consistent, MachineWaitsForNav2, NC!Nav2!ClientAgrees,
         ArrivalConfirmed, NC!ArrivalConfirmed
<1>5. GoalInFlightIsOurs' /\ ArrivalConfirmed'
  BY DEF InductiveInvariant, TypeOK, NC!TypeOK, NC!Nav2!TypeOK, SM!TypeOK,
         NC!Nav2!ClientAgrees, HandleFollowsTask, GoalInFlightIsOurs,
         NC!GoalInFlightIsOurs, ArrivalConfirmed, NC!ArrivalConfirmed
<1> QED
  BY <1>1, <1>2, <1>3, <1>4, <1>5 DEF InductiveInvariant

(* A rejected Nav2 goal ends the task it was sent for.                     *)
LEMMA Nav2RejectedStep ==
  ASSUME InductiveInvariant, Nav2Rejected
  PROVE  InductiveInvariant'
<1> USE DEF Nav2Rejected, NC!OnNav2Rejected, NC!Nav2!GoalRejected, NC!AbortTask,
         TaskAborted, SM!OnError, SM!smVars, EndGoal
<1>1. TypeOK'
  <2>1. NC!Nav2!TypeOK'
    BY DEF InductiveInvariant, TypeOK, NC!TypeOK, NC!Nav2!TypeOK, NC!Nav2!ClientAgrees
  <2>2. NC!TypeOK'
    BY <2>1 DEF InductiveInvariant, TypeOK, NC!TypeOK
  <2>3. SM!TypeOK'
    BY DEF InductiveInvariant, TypeOK, SM!TypeOK
  <2>4. goalStatus' \in [Task -> GoalStatus] /\ currentGoal' \in TaskOrNone
    BY DEF InductiveInvariant, TypeOK
  <2> QED
    BY <2>1, <2>2, <2>3, <2>4 DEF TypeOK
<1>2. NC!Nav2!ClientAgrees' /\ Nav2AskedOnce' /\ Nav2GoalAccepted'
  BY DEF InductiveInvariant, TypeOK, NC!TypeOK, NC!Nav2!TypeOK, SM!TypeOK,
         NC!Nav2!ClientAgrees, Nav2AskedOnce, Nav2GoalAccepted
<1>3. HandleFollowsTask' /\ CurrentGoalIsTheOpenOne' /\ CancelFlagFollowsGoal'
  BY DEF InductiveInvariant, TypeOK, NC!TypeOK, NC!Nav2!TypeOK, SM!TypeOK,
         HandleFollowsTask, CurrentGoalIsTheOpenOne, CancelFlagFollowsGoal
<1>4. StateMachineFollowsController' /\ StateMachineConsistent' /\ MachineWaitsForNav2'
  BY DEF InductiveInvariant, TypeOK, NC!TypeOK, NC!Nav2!TypeOK, SM!TypeOK,
         HandleFollowsTask, StateMachineFollowsController, StateMachineConsistent,
         SM!Consistent, MachineWaitsForNav2, NC!Nav2!ClientAgrees,
         ArrivalConfirmed, NC!ArrivalConfirmed
<1>5. GoalInFlightIsOurs' /\ ArrivalConfirmed'
  BY DEF InductiveInvariant, TypeOK, NC!TypeOK, NC!Nav2!TypeOK, SM!TypeOK,
         NC!Nav2!ClientAgrees, HandleFollowsTask, GoalInFlightIsOurs,
         NC!GoalInFlightIsOurs, ArrivalConfirmed, NC!ArrivalConfirmed
<1> QED
  BY <1>1, <1>2, <1>3, <1>4, <1>5 DEF InductiveInvariant

(* Nav2's success is latched for the task it was sent for.                 *)
LEMMA Nav2SucceededStep ==
  ASSUME InductiveInvariant, Nav2Succeeded
  PROVE  InductiveInvariant'
<1> USE DEF Nav2Succeeded, NC!OnNav2Succeeded, NC!Nav2!GoalResult, smVars, serverVars
<1>1. TypeOK'
  <2>1. NC!Nav2!TypeOK'
    BY DEF InductiveInvariant, TypeOK, NC!TypeOK, NC!Nav2!TypeOK, NC!Nav2!ClientAgrees
  <2>2. NC!TypeOK'
    BY <2>1 DEF InductiveInvariant, TypeOK, NC!TypeOK
  <2>3. SM!TypeOK'
    BY DEF InductiveInvariant, TypeOK, SM!TypeOK
  <2>4. goalStatus' \in [Task -> GoalStatus] /\ currentGoal' \in TaskOrNone
    BY DEF InductiveInvariant, TypeOK
  <2> QED
    BY <2>1, <2>2, <2>3, <2>4 DEF TypeOK
<1>2. NC!Nav2!ClientAgrees' /\ Nav2AskedOnce' /\ Nav2GoalAccepted'
  BY DEF InductiveInvariant, TypeOK, NC!TypeOK, NC!Nav2!TypeOK, SM!TypeOK,
         NC!Nav2!ClientAgrees, Nav2AskedOnce, Nav2GoalAccepted
<1>3. HandleFollowsTask' /\ CurrentGoalIsTheOpenOne' /\ CancelFlagFollowsGoal'
  BY DEF InductiveInvariant, TypeOK, NC!TypeOK, NC!Nav2!TypeOK, SM!TypeOK,
         HandleFollowsTask, CurrentGoalIsTheOpenOne, CancelFlagFollowsGoal
<1>4. StateMachineFollowsController' /\ StateMachineConsistent' /\ MachineWaitsForNav2'
  BY DEF InductiveInvariant, TypeOK, NC!TypeOK, NC!Nav2!TypeOK, SM!TypeOK,
         HandleFollowsTask, StateMachineFollowsController, StateMachineConsistent,
         SM!Consistent, MachineWaitsForNav2, NC!Nav2!ClientAgrees,
         ArrivalConfirmed, NC!ArrivalConfirmed
<1>5. GoalInFlightIsOurs' /\ ArrivalConfirmed'
  BY DEF InductiveInvariant, TypeOK, NC!TypeOK, NC!Nav2!TypeOK, SM!TypeOK,
         NC!Nav2!ClientAgrees, HandleFollowsTask, GoalInFlightIsOurs,
         NC!GoalInFlightIsOurs, ArrivalConfirmed, NC!ArrivalConfirmed
<1> QED
  BY <1>1, <1>2, <1>3, <1>4, <1>5 DEF InductiveInvariant

(* Nav2's failure ends the task, if there still is one.                    *)
LEMMA Nav2FailedStep ==
  ASSUME InductiveInvariant, Nav2Failed
  PROVE  InductiveInvariant'
<1> USE DEF Nav2Failed, NC!OnNav2Failed, NC!Nav2!GoalResult, NC!Nav2!ResultCode, NC!AbortTask,
         TaskAborted, SM!OnError, SM!smVars, EndGoal
<1>1. TypeOK'
  <2>1. NC!Nav2!TypeOK'
    BY DEF InductiveInvariant, TypeOK, NC!TypeOK, NC!Nav2!TypeOK, NC!Nav2!ClientAgrees
  <2>2. NC!TypeOK'
    BY <2>1 DEF InductiveInvariant, TypeOK, NC!TypeOK
  <2>3. SM!TypeOK'
    BY DEF InductiveInvariant, TypeOK, SM!TypeOK
  <2>4. goalStatus' \in [Task -> GoalStatus] /\ currentGoal' \in TaskOrNone
    BY DEF InductiveInvariant, TypeOK
  <2> QED
    BY <2>1, <2>2, <2>3, <2>4 DEF TypeOK
<1>2. NC!Nav2!ClientAgrees' /\ Nav2AskedOnce' /\ Nav2GoalAccepted'
  BY DEF InductiveInvariant, TypeOK, NC!TypeOK, NC!Nav2!TypeOK, SM!TypeOK,
         NC!Nav2!ClientAgrees, Nav2AskedOnce, Nav2GoalAccepted
<1>3. HandleFollowsTask' /\ CurrentGoalIsTheOpenOne' /\ CancelFlagFollowsGoal'
  BY DEF InductiveInvariant, TypeOK, NC!TypeOK, NC!Nav2!TypeOK, SM!TypeOK,
         HandleFollowsTask, CurrentGoalIsTheOpenOne, CancelFlagFollowsGoal
<1>4. StateMachineFollowsController' /\ StateMachineConsistent' /\ MachineWaitsForNav2'
  BY DEF InductiveInvariant, TypeOK, NC!TypeOK, NC!Nav2!TypeOK, SM!TypeOK,
         HandleFollowsTask, StateMachineFollowsController, StateMachineConsistent,
         SM!Consistent, MachineWaitsForNav2, NC!Nav2!ClientAgrees,
         ArrivalConfirmed, NC!ArrivalConfirmed
<1>5. GoalInFlightIsOurs' /\ ArrivalConfirmed'
  BY DEF InductiveInvariant, TypeOK, NC!TypeOK, NC!Nav2!TypeOK, SM!TypeOK,
         NC!Nav2!ClientAgrees, HandleFollowsTask, GoalInFlightIsOurs,
         NC!GoalInFlightIsOurs, ArrivalConfirmed, NC!ArrivalConfirmed
<1> QED
  BY <1>1, <1>2, <1>3, <1>4, <1>5 DEF InductiveInvariant

(* The tick ends a cancelled task.                                         *)
LEMMA TickCancelStep ==
  ASSUME InductiveInvariant, TickCancel
  PROVE  InductiveInvariant'
<1> USE DEF TickCancel, NC!TickCancel, NC!AbortTask, NC!nav2Vars,
         TaskAborted, SM!OnError, SM!smVars, EndGoal
<1>1. TypeOK'
  <2>1. NC!Nav2!TypeOK'
    BY DEF InductiveInvariant, TypeOK, NC!TypeOK, NC!Nav2!TypeOK, NC!Nav2!ClientAgrees
  <2>2. NC!TypeOK'
    BY <2>1 DEF InductiveInvariant, TypeOK, NC!TypeOK
  <2>3. SM!TypeOK'
    BY DEF InductiveInvariant, TypeOK, SM!TypeOK
  <2>4. goalStatus' \in [Task -> GoalStatus] /\ currentGoal' \in TaskOrNone
    BY DEF InductiveInvariant, TypeOK
  <2> QED
    BY <2>1, <2>2, <2>3, <2>4 DEF TypeOK
<1>2. NC!Nav2!ClientAgrees' /\ Nav2AskedOnce' /\ Nav2GoalAccepted'
  BY DEF InductiveInvariant, TypeOK, NC!TypeOK, NC!Nav2!TypeOK, SM!TypeOK,
         NC!Nav2!ClientAgrees, Nav2AskedOnce, Nav2GoalAccepted
<1>3. HandleFollowsTask' /\ CurrentGoalIsTheOpenOne' /\ CancelFlagFollowsGoal'
  BY DEF InductiveInvariant, TypeOK, NC!TypeOK, NC!Nav2!TypeOK, SM!TypeOK,
         HandleFollowsTask, CurrentGoalIsTheOpenOne, CancelFlagFollowsGoal
<1>4. StateMachineFollowsController' /\ StateMachineConsistent' /\ MachineWaitsForNav2'
  BY DEF InductiveInvariant, TypeOK, NC!TypeOK, NC!Nav2!TypeOK, SM!TypeOK,
         HandleFollowsTask, StateMachineFollowsController, StateMachineConsistent,
         SM!Consistent, MachineWaitsForNav2, NC!Nav2!ClientAgrees,
         ArrivalConfirmed, NC!ArrivalConfirmed
<1>5. GoalInFlightIsOurs' /\ ArrivalConfirmed'
  BY DEF InductiveInvariant, TypeOK, NC!TypeOK, NC!Nav2!TypeOK, SM!TypeOK,
         NC!Nav2!ClientAgrees, HandleFollowsTask, GoalInFlightIsOurs,
         NC!GoalInFlightIsOurs, ArrivalConfirmed, NC!ArrivalConfirmed
<1> QED
  BY <1>1, <1>2, <1>3, <1>4, <1>5 DEF InductiveInvariant

(* The tick reports a completed task.                                      *)
LEMMA TickCompleteStep ==
  ASSUME InductiveInvariant, TickComplete
  PROVE  InductiveInvariant'
<1> USE DEF TickComplete, NC!TickComplete, NC!CompleteTask, NC!nav2Vars,
         TaskSucceeded, SM!OnSuccess, SM!smVars, EndGoal
<1>1. TypeOK'
  <2>1. NC!Nav2!TypeOK'
    BY DEF InductiveInvariant, TypeOK, NC!TypeOK, NC!Nav2!TypeOK, NC!Nav2!ClientAgrees
  <2>2. NC!TypeOK'
    BY <2>1 DEF InductiveInvariant, TypeOK, NC!TypeOK
  <2>3. SM!TypeOK'
    BY DEF InductiveInvariant, TypeOK, SM!TypeOK
  <2>4. goalStatus' \in [Task -> GoalStatus] /\ currentGoal' \in TaskOrNone
    BY DEF InductiveInvariant, TypeOK
  <2> QED
    BY <2>1, <2>2, <2>3, <2>4 DEF TypeOK
<1>2. NC!Nav2!ClientAgrees' /\ Nav2AskedOnce' /\ Nav2GoalAccepted'
  BY DEF InductiveInvariant, TypeOK, NC!TypeOK, NC!Nav2!TypeOK, SM!TypeOK,
         NC!Nav2!ClientAgrees, Nav2AskedOnce, Nav2GoalAccepted
<1>3. HandleFollowsTask' /\ CurrentGoalIsTheOpenOne' /\ CancelFlagFollowsGoal'
  BY DEF InductiveInvariant, TypeOK, NC!TypeOK, NC!Nav2!TypeOK, SM!TypeOK,
         HandleFollowsTask, CurrentGoalIsTheOpenOne, CancelFlagFollowsGoal
<1>4. StateMachineFollowsController' /\ StateMachineConsistent' /\ MachineWaitsForNav2'
  BY DEF InductiveInvariant, TypeOK, NC!TypeOK, NC!Nav2!TypeOK, SM!TypeOK,
         HandleFollowsTask, StateMachineFollowsController, StateMachineConsistent,
         SM!Consistent, MachineWaitsForNav2, NC!Nav2!ClientAgrees,
         ArrivalConfirmed, NC!ArrivalConfirmed
<1>5. GoalInFlightIsOurs' /\ ArrivalConfirmed'
  BY DEF InductiveInvariant, TypeOK, NC!TypeOK, NC!Nav2!TypeOK, SM!TypeOK,
         NC!Nav2!ClientAgrees, HandleFollowsTask, GoalInFlightIsOurs,
         NC!GoalInFlightIsOurs, ArrivalConfirmed, NC!ArrivalConfirmed
<1> QED
  BY <1>1, <1>2, <1>3, <1>4, <1>5 DEF InductiveInvariant

(* The tick moves a task from phase to phase.                              *)
LEMMA TickControlStep ==
  ASSUME InductiveInvariant,
         NEW a \in BOOLEAN, NEW n \in BOOLEAN, NEW r \in BOOLEAN, TickControl(a, n, r)
  PROVE  InductiveInvariant'
<1> USE DEF TickControl, NC!TickControl, NC!TickHeld, NC!TickNoPose, NC!TickMoving,
         NC!TickPreRotation, NC!TickWaiting, NC!TickFinalRotation, NC!TickTranslating,
         NC!Advanced, NC!nav2Vars, smVars, serverVars
<1>1. TypeOK'
  <2>1. NC!Nav2!TypeOK'
    BY DEF InductiveInvariant, TypeOK, NC!TypeOK, NC!Nav2!TypeOK, NC!Nav2!ClientAgrees
  <2>2. NC!TypeOK'
    BY <2>1 DEF InductiveInvariant, TypeOK, NC!TypeOK
  <2>3. SM!TypeOK'
    BY DEF InductiveInvariant, TypeOK, SM!TypeOK
  <2>4. goalStatus' \in [Task -> GoalStatus] /\ currentGoal' \in TaskOrNone
    BY DEF InductiveInvariant, TypeOK
  <2> QED
    BY <2>1, <2>2, <2>3, <2>4 DEF TypeOK
<1>2. NC!Nav2!ClientAgrees' /\ Nav2AskedOnce' /\ Nav2GoalAccepted'
  BY DEF InductiveInvariant, TypeOK, NC!TypeOK, NC!Nav2!TypeOK, SM!TypeOK,
         NC!Nav2!ClientAgrees, Nav2AskedOnce, Nav2GoalAccepted
<1>3. HandleFollowsTask' /\ CurrentGoalIsTheOpenOne' /\ CancelFlagFollowsGoal'
  BY DEF InductiveInvariant, TypeOK, NC!TypeOK, NC!Nav2!TypeOK, SM!TypeOK,
         HandleFollowsTask, CurrentGoalIsTheOpenOne, CancelFlagFollowsGoal
<1>4. StateMachineFollowsController' /\ StateMachineConsistent' /\ MachineWaitsForNav2'
  BY DEF InductiveInvariant, TypeOK, NC!TypeOK, NC!Nav2!TypeOK, SM!TypeOK,
         HandleFollowsTask, StateMachineFollowsController, StateMachineConsistent,
         SM!Consistent, MachineWaitsForNav2, NC!Nav2!ClientAgrees,
         ArrivalConfirmed, NC!ArrivalConfirmed
<1>5. GoalInFlightIsOurs' /\ ArrivalConfirmed'
  BY DEF InductiveInvariant, TypeOK, NC!TypeOK, NC!Nav2!TypeOK, SM!TypeOK,
         NC!Nav2!ClientAgrees, HandleFollowsTask, GoalInFlightIsOurs,
         NC!GoalInFlightIsOurs, ArrivalConfirmed, NC!ArrivalConfirmed
<1> QED
  BY <1>1, <1>2, <1>3, <1>4, <1>5 DEF InductiveInvariant

(* A pose from localisation.                                               *)
LEMMA AmclPoseStep ==
  ASSUME InductiveInvariant, AmclPose
  PROVE  InductiveInvariant'
<1> USE DEF AmclPose, NC!UpdatePose, NC!nav2Vars, NC!taskVars, smVars, serverVars
<1>1. TypeOK'
  <2>1. NC!Nav2!TypeOK'
    BY DEF InductiveInvariant, TypeOK, NC!TypeOK, NC!Nav2!TypeOK, NC!Nav2!ClientAgrees
  <2>2. NC!TypeOK'
    BY <2>1 DEF InductiveInvariant, TypeOK, NC!TypeOK
  <2>3. SM!TypeOK'
    BY DEF InductiveInvariant, TypeOK, SM!TypeOK
  <2>4. goalStatus' \in [Task -> GoalStatus] /\ currentGoal' \in TaskOrNone
    BY DEF InductiveInvariant, TypeOK
  <2> QED
    BY <2>1, <2>2, <2>3, <2>4 DEF TypeOK
<1>2. NC!Nav2!ClientAgrees' /\ Nav2AskedOnce' /\ Nav2GoalAccepted'
  BY DEF InductiveInvariant, TypeOK, NC!TypeOK, NC!Nav2!TypeOK, SM!TypeOK,
         NC!Nav2!ClientAgrees, Nav2AskedOnce, Nav2GoalAccepted
<1>3. HandleFollowsTask' /\ CurrentGoalIsTheOpenOne' /\ CancelFlagFollowsGoal'
  BY DEF InductiveInvariant, TypeOK, NC!TypeOK, NC!Nav2!TypeOK, SM!TypeOK,
         HandleFollowsTask, CurrentGoalIsTheOpenOne, CancelFlagFollowsGoal
<1>4. StateMachineFollowsController' /\ StateMachineConsistent' /\ MachineWaitsForNav2'
  BY DEF InductiveInvariant, TypeOK, NC!TypeOK, NC!Nav2!TypeOK, SM!TypeOK,
         HandleFollowsTask, StateMachineFollowsController, StateMachineConsistent,
         SM!Consistent, MachineWaitsForNav2, NC!Nav2!ClientAgrees,
         ArrivalConfirmed, NC!ArrivalConfirmed
<1>5. GoalInFlightIsOurs' /\ ArrivalConfirmed'
  BY DEF InductiveInvariant, TypeOK, NC!TypeOK, NC!Nav2!TypeOK, SM!TypeOK,
         NC!Nav2!ClientAgrees, HandleFollowsTask, GoalInFlightIsOurs,
         NC!GoalInFlightIsOurs, ArrivalConfirmed, NC!ArrivalConfirmed
<1> QED
  BY <1>1, <1>2, <1>3, <1>4, <1>5 DEF InductiveInvariant

(* A pose from Nav2's feedback.                                            *)
LEMMA Nav2PoseStep ==
  ASSUME InductiveInvariant, Nav2Pose
  PROVE  InductiveInvariant'
<1> USE DEF Nav2Pose, NC!OnNav2Pose, NC!Nav2!Feedback, NC!Nav2!nav2Vars, NC!taskVars,
         smVars, serverVars
<1>1. TypeOK'
  <2>1. NC!Nav2!TypeOK'
    BY DEF InductiveInvariant, TypeOK, NC!TypeOK, NC!Nav2!TypeOK, NC!Nav2!ClientAgrees
  <2>2. NC!TypeOK'
    BY <2>1 DEF InductiveInvariant, TypeOK, NC!TypeOK
  <2>3. SM!TypeOK'
    BY DEF InductiveInvariant, TypeOK, SM!TypeOK
  <2>4. goalStatus' \in [Task -> GoalStatus] /\ currentGoal' \in TaskOrNone
    BY DEF InductiveInvariant, TypeOK
  <2> QED
    BY <2>1, <2>2, <2>3, <2>4 DEF TypeOK
<1>2. NC!Nav2!ClientAgrees' /\ Nav2AskedOnce' /\ Nav2GoalAccepted'
  BY DEF InductiveInvariant, TypeOK, NC!TypeOK, NC!Nav2!TypeOK, SM!TypeOK,
         NC!Nav2!ClientAgrees, Nav2AskedOnce, Nav2GoalAccepted
<1>3. HandleFollowsTask' /\ CurrentGoalIsTheOpenOne' /\ CancelFlagFollowsGoal'
  BY DEF InductiveInvariant, TypeOK, NC!TypeOK, NC!Nav2!TypeOK, SM!TypeOK,
         HandleFollowsTask, CurrentGoalIsTheOpenOne, CancelFlagFollowsGoal
<1>4. StateMachineFollowsController' /\ StateMachineConsistent' /\ MachineWaitsForNav2'
  BY DEF InductiveInvariant, TypeOK, NC!TypeOK, NC!Nav2!TypeOK, SM!TypeOK,
         HandleFollowsTask, StateMachineFollowsController, StateMachineConsistent,
         SM!Consistent, MachineWaitsForNav2, NC!Nav2!ClientAgrees,
         ArrivalConfirmed, NC!ArrivalConfirmed
<1>5. GoalInFlightIsOurs' /\ ArrivalConfirmed'
  BY DEF InductiveInvariant, TypeOK, NC!TypeOK, NC!Nav2!TypeOK, SM!TypeOK,
         NC!Nav2!ClientAgrees, HandleFollowsTask, GoalInFlightIsOurs,
         NC!GoalInFlightIsOurs, ArrivalConfirmed, NC!ArrivalConfirmed
<1> QED
  BY <1>1, <1>2, <1>3, <1>4, <1>5 DEF InductiveInvariant

(* An obstacle message.                                                    *)
LEMMA ObstacleStep ==
  ASSUME InductiveInvariant,
         NEW d \in BOOLEAN, Obstacle(d)
  PROVE  InductiveInvariant'
<1> USE DEF Obstacle, NC!ObstacleMsg, NC!nav2Vars, NC!taskVars, smVars, serverVars
<1>1. TypeOK'
  <2>1. NC!Nav2!TypeOK'
    BY DEF InductiveInvariant, TypeOK, NC!TypeOK, NC!Nav2!TypeOK, NC!Nav2!ClientAgrees
  <2>2. NC!TypeOK'
    BY <2>1 DEF InductiveInvariant, TypeOK, NC!TypeOK
  <2>3. SM!TypeOK'
    BY DEF InductiveInvariant, TypeOK, SM!TypeOK
  <2>4. goalStatus' \in [Task -> GoalStatus] /\ currentGoal' \in TaskOrNone
    BY DEF InductiveInvariant, TypeOK
  <2> QED
    BY <2>1, <2>2, <2>3, <2>4 DEF TypeOK
<1>2. NC!Nav2!ClientAgrees' /\ Nav2AskedOnce' /\ Nav2GoalAccepted'
  BY DEF InductiveInvariant, TypeOK, NC!TypeOK, NC!Nav2!TypeOK, SM!TypeOK,
         NC!Nav2!ClientAgrees, Nav2AskedOnce, Nav2GoalAccepted
<1>3. HandleFollowsTask' /\ CurrentGoalIsTheOpenOne' /\ CancelFlagFollowsGoal'
  BY DEF InductiveInvariant, TypeOK, NC!TypeOK, NC!Nav2!TypeOK, SM!TypeOK,
         HandleFollowsTask, CurrentGoalIsTheOpenOne, CancelFlagFollowsGoal
<1>4. StateMachineFollowsController' /\ StateMachineConsistent' /\ MachineWaitsForNav2'
  BY DEF InductiveInvariant, TypeOK, NC!TypeOK, NC!Nav2!TypeOK, SM!TypeOK,
         HandleFollowsTask, StateMachineFollowsController, StateMachineConsistent,
         SM!Consistent, MachineWaitsForNav2, NC!Nav2!ClientAgrees,
         ArrivalConfirmed, NC!ArrivalConfirmed
<1>5. GoalInFlightIsOurs' /\ ArrivalConfirmed'
  BY DEF InductiveInvariant, TypeOK, NC!TypeOK, NC!Nav2!TypeOK, SM!TypeOK,
         NC!Nav2!ClientAgrees, HandleFollowsTask, GoalInFlightIsOurs,
         NC!GoalInFlightIsOurs, ArrivalConfirmed, NC!ArrivalConfirmed
<1> QED
  BY <1>1, <1>2, <1>3, <1>4, <1>5 DEF InductiveInvariant

(* A step that changes nothing.                                            *)
LEMMA StutterStep ==
  ASSUME InductiveInvariant, UNCHANGED vars
  PROVE  InductiveInvariant'
<1> USE DEF vars, ncVars, smVars, serverVars
<1>1. TypeOK'
  <2>1. NC!Nav2!TypeOK'
    BY DEF InductiveInvariant, TypeOK, NC!TypeOK, NC!Nav2!TypeOK, NC!Nav2!ClientAgrees
  <2>2. NC!TypeOK'
    BY <2>1 DEF InductiveInvariant, TypeOK, NC!TypeOK
  <2>3. SM!TypeOK'
    BY DEF InductiveInvariant, TypeOK, SM!TypeOK
  <2>4. goalStatus' \in [Task -> GoalStatus] /\ currentGoal' \in TaskOrNone
    BY DEF InductiveInvariant, TypeOK
  <2> QED
    BY <2>1, <2>2, <2>3, <2>4 DEF TypeOK
<1>2. NC!Nav2!ClientAgrees' /\ Nav2AskedOnce' /\ Nav2GoalAccepted'
  BY DEF InductiveInvariant, TypeOK, NC!TypeOK, NC!Nav2!TypeOK, SM!TypeOK,
         NC!Nav2!ClientAgrees, Nav2AskedOnce, Nav2GoalAccepted
<1>3. HandleFollowsTask' /\ CurrentGoalIsTheOpenOne' /\ CancelFlagFollowsGoal'
  BY DEF InductiveInvariant, TypeOK, NC!TypeOK, NC!Nav2!TypeOK, SM!TypeOK,
         HandleFollowsTask, CurrentGoalIsTheOpenOne, CancelFlagFollowsGoal
<1>4. StateMachineFollowsController' /\ StateMachineConsistent' /\ MachineWaitsForNav2'
  BY DEF InductiveInvariant, TypeOK, NC!TypeOK, NC!Nav2!TypeOK, SM!TypeOK,
         HandleFollowsTask, StateMachineFollowsController, StateMachineConsistent,
         SM!Consistent, MachineWaitsForNav2, NC!Nav2!ClientAgrees,
         ArrivalConfirmed, NC!ArrivalConfirmed
<1>5. GoalInFlightIsOurs' /\ ArrivalConfirmed'
  BY DEF InductiveInvariant, TypeOK, NC!TypeOK, NC!Nav2!TypeOK, SM!TypeOK,
         NC!Nav2!ClientAgrees, HandleFollowsTask, GoalInFlightIsOurs,
         NC!GoalInFlightIsOurs, ArrivalConfirmed, NC!ArrivalConfirmed
<1> QED
  BY <1>1, <1>2, <1>3, <1>4, <1>5 DEF InductiveInvariant

(***************************************************************************)
(* The invariant is preserved by every step, and so holds for ever.        *)
(***************************************************************************)
LEMMA NextInvariant == InductiveInvariant /\ [Next]_vars => InductiveInvariant'
<1> SUFFICES ASSUME InductiveInvariant, [Next]_vars
             PROVE  InductiveInvariant'
  OBVIOUS
<1>1. ASSUME NEW t \in Task, NEW m \in BOOLEAN, NEW s \in BOOLEAN, HandleAccepted(t, m, s)
      PROVE  InductiveInvariant'
  BY <1>1, HandleAcceptedStep
<1>2. ASSUME NEW t \in Task, HandleCancel(t)
      PROVE  InductiveInvariant'
  BY <1>2, HandleCancelStep
<1>3. CASE Nav2Answers
  BY <1>3, Nav2AcceptedStep, Nav2RejectedStep, Nav2SucceededStep, Nav2FailedStep
     DEF Nav2Answers
<1>4. CASE Tick
  <2>1. ASSUME NEW a \in BOOLEAN, NEW n \in BOOLEAN, NEW r \in BOOLEAN, TickControl(a, n, r)
        PROVE  InductiveInvariant'
    BY <2>1, TickControlStep
  <2> QED
    BY <1>4, <2>1, TickCancelStep, TickCompleteStep DEF Tick
<1>5. CASE AmclPose
  BY <1>5, AmclPoseStep
<1>6. CASE Nav2Pose
  BY <1>6, Nav2PoseStep
<1>7. ASSUME NEW d \in BOOLEAN, Obstacle(d)
      PROVE  InductiveInvariant'
  BY <1>7, ObstacleStep
<1>8. CASE UNCHANGED vars
  BY <1>8, StutterStep
<1> QED
  BY <1>1, <1>2, <1>3, <1>4, <1>5, <1>6, <1>7, <1>8 DEF Next

(* The agreement of goal handle, controller, Nav2 client and state machine *)
(* holds in every reachable state, for any set of tasks                    *)
(* (FleetManagerNode.cpp:138-182, 216-269).                                *)
THEOREM SpecInvariant == Spec => []InductiveInvariant
<1> QED
  BY InitInvariant, NextInvariant, PTL DEF Spec

(* Every variable keeps its type, for any set of tasks.                    *)
THEOREM SpecTypeOK == Spec => []TypeOK
<1>1. InductiveInvariant => TypeOK
  BY DEF InductiveInvariant
<1> QED
  BY <1>1, SpecInvariant, PTL

(* The goal handle is that of the controller's task                        *)
(* (FleetManagerNode.cpp:151-182, 248-268, NavController.cpp:490-522).     *)
THEOREM SpecHandle == Spec => []HandleFollowsTask
<1>1. InductiveInvariant => HandleFollowsTask
  BY DEF InductiveInvariant
<1> QED
  BY <1>1, SpecInvariant, PTL

(* The handle is that of the one open goal of the server, so no goal is    *)
(* ended twice (FleetManagerNode.cpp:159-181, 248-261).                    *)
THEOREM SpecOneOpenGoal == Spec => []CurrentGoalIsTheOpenOne
<1>1. InductiveInvariant => CurrentGoalIsTheOpenOne
  BY DEF InductiveInvariant
<1> QED
  BY <1>1, SpecInvariant, PTL

(* A cancel is neither lost nor applied to a later goal                    *)
(* (NavController.cpp:134, 173-182, 294-303, 517).                         *)
THEOREM SpecCancel == Spec => []CancelFlagFollowsGoal
<1>1. InductiveInvariant => CancelFlagFollowsGoal
  BY DEF InductiveInvariant
<1> QED
  BY <1>1, SpecInvariant, PTL

(* An arrival is Nav2's word about the task in hand (NavController.hpp:12).*)
THEOREM SpecArrival == Spec => [](GoalInFlightIsOurs /\ ArrivalConfirmed)
<1>1. InductiveInvariant => GoalInFlightIsOurs /\ ArrivalConfirmed
  BY DEF InductiveInvariant
<1> QED
  BY <1>1, SpecInvariant, PTL

(***************************************************************************)
(* ManagedRobot implements NavigationGoals.                                *)
(***************************************************************************)

(* What Nav2 answers is about a goal that was accepted, is answered for    *)
(* the first time, and is the one in hand if any is.                       *)
LEMMA AnswerIsExpected ==
  ASSUME InductiveInvariant, nav2Status # "none", ~executorBlocked
  PROVE  /\ nav2Task \in Task
         /\ goalStatus[nav2Task] # "UNKNOWN"
         /\ nav2Outcome[nav2Task] = "none"
         /\ currentGoal \in {nav2Task, NoTask}
         /\ goalStatus[nav2Task] \in {"EXECUTING", "CANCELING"} <=> currentGoal = nav2Task
<1>1. active /\ nav2Task \in Task
  BY DEF InductiveInvariant, TypeOK, NC!TypeOK, NC!Nav2!TypeOK, NC!Nav2!ClientAgrees
<1>2. goalStatus[nav2Task] # "UNKNOWN" /\ nav2Outcome[nav2Task] = "none"
  BY <1>1 DEF InductiveInvariant, Nav2AskedOnce, Nav2GoalAccepted
<1>3. currentGoal \in {nav2Task, NoTask}
  BY <1>1 DEF InductiveInvariant, HandleFollowsTask, GoalInFlightIsOurs, NC!GoalInFlightIsOurs
<1>4. goalStatus[nav2Task] \in {"EXECUTING", "CANCELING"} <=> currentGoal = nav2Task
  BY <1>1 DEF InductiveInvariant, CurrentGoalIsTheOpenOne
<1> QED
  BY <1>1, <1>2, <1>3, <1>4

(* A failed Nav2 goal ends the goal it was sent for, if that is still open.*)
LEMMA FailureMaps ==
  ASSUME InductiveInvariant, Nav2Rejected \/ Nav2Failed
  PROVE  Goals!Fail(nav2Task)
<1>1. /\ ~executorBlocked
      /\ nav2Status # "none"
      /\ nav2Outcome' = [nav2Outcome EXCEPT ![nav2Task] = "failed"]
  BY DEF Nav2Rejected, Nav2Failed, NC!OnNav2Rejected, NC!OnNav2Failed,
         NC!Nav2!GoalRejected, NC!Nav2!GoalResult, NC!Nav2!ResultCode
<1>2. EndGoal("ABORTED")
  BY DEF Nav2Rejected, Nav2Failed, TaskAborted
<1> QED
  BY <1>1, <1>2, AnswerIsExpected DEF EndGoal, Goals!Fail, Goals!Live

(* Nav2's success is the goal's arrival.                                   *)
LEMMA SuccessMaps ==
  ASSUME InductiveInvariant, Nav2Succeeded
  PROVE  Goals!Reach(nav2Task)
<1>1. /\ ~executorBlocked
      /\ nav2Status # "none"
      /\ nav2Outcome' = [nav2Outcome EXCEPT ![nav2Task] = "reached"]
      /\ UNCHANGED goalStatus
  BY DEF Nav2Succeeded, NC!OnNav2Succeeded, NC!Nav2!GoalResult, serverVars
<1> QED
  BY <1>1, AnswerIsExpected DEF Goals!Reach

(* Every step is a step of NavigationGoals, or leaves its variables alone. *)
LEMMA NextMaps ==
  InductiveInvariant /\ [Next]_vars => [Goals!Next]_(Goals!goalVars)
<1> SUFFICES ASSUME InductiveInvariant, [Next]_vars
             PROVE  Goals!Next \/ UNCHANGED <<goalStatus, nav2Outcome>>
  BY DEF Goals!goalVars
<1>1. ASSUME NEW t \in Task, NEW m \in BOOLEAN, NEW s \in BOOLEAN, HandleAccepted(t, m, s)
      PROVE  Goals!Next
  <2>1. UNCHANGED nav2Outcome
    BY <1>1 DEF HandleAccepted, NC!Navigate, NC!DispatchNextWaypoint, NC!Nav2!SendGoal,
                NC!Nav2!CancelGoal, NC!nav2Vars
  <2>2. \A u \in Task : u = currentGoal <=> Goals!Live(u)
    BY DEF InductiveInvariant, CurrentGoalIsTheOpenOne, Goals!Live
  <2>3. Goals!Accept(t)
    BY <1>1, <2>1, <2>2 DEF HandleAccepted, Goals!Accept
  <2> QED
    BY <2>3 DEF Goals!Next
<1>2. ASSUME NEW t \in Task, HandleCancel(t)
      PROVE  Goals!Next
  <2>1. Goals!Cancel(t)
    BY <1>2 DEF HandleCancel, NC!CancelAll, NC!Nav2!CancelGoal, Goals!Cancel
  <2> QED
    BY <2>1 DEF Goals!Next
<1>3. CASE Nav2Answers
  <2>1. CASE Nav2Accepted
    BY <2>1 DEF Nav2Accepted, NC!OnNav2Accepted, NC!Nav2!GoalAccepted, serverVars
  <2>2. CASE Nav2Rejected \/ Nav2Failed \/ Nav2Succeeded
    <3>1. nav2Task \in Task
      BY <2>2, AnswerIsExpected
         DEF Nav2Rejected, Nav2Failed, Nav2Succeeded, NC!OnNav2Rejected, NC!OnNav2Failed,
             NC!OnNav2Succeeded, NC!Nav2!GoalRejected, NC!Nav2!GoalResult
    <3> QED
      BY <2>2, <3>1, FailureMaps, SuccessMaps DEF Goals!Next
  <2> QED
    BY <1>3, <2>1, <2>2 DEF Nav2Answers
<1>4. CASE TickCancel
  <2>1. currentGoal \in Task /\ goalStatus[currentGoal] = "CANCELING"
    BY <1>4 DEF TickCancel, NC!TickCancel, InductiveInvariant, TypeOK, HandleFollowsTask,
                CancelFlagFollowsGoal, CurrentGoalIsTheOpenOne
  <2>2. Goals!GiveUp(currentGoal)
    BY <1>4, <2>1 DEF TickCancel, NC!TickCancel, NC!nav2Vars, TaskAborted, EndGoal,
                      Goals!GiveUp
  <2> QED
    BY <2>1, <2>2 DEF Goals!Next
<1>5. CASE TickComplete
  <2>1. currentGoal \in Task /\ nav2Outcome[currentGoal] = "reached" /\ Goals!Live(currentGoal)
    BY <1>5 DEF TickComplete, NC!TickComplete, InductiveInvariant, TypeOK, HandleFollowsTask,
                CurrentGoalIsTheOpenOne, ArrivalConfirmed, NC!ArrivalConfirmed, Goals!Live
  <2>2. Goals!Succeed(currentGoal)
    BY <1>5, <2>1 DEF TickComplete, NC!TickComplete, NC!nav2Vars, TaskSucceeded, EndGoal,
                      Goals!Succeed
  <2> QED
    BY <2>1, <2>2 DEF Goals!Next
<1>6. ASSUME NEW a \in BOOLEAN, NEW n \in BOOLEAN, NEW r \in BOOLEAN, TickControl(a, n, r)
      PROVE  UNCHANGED <<goalStatus, nav2Outcome>>
  BY <1>6 DEF TickControl, NC!TickControl, NC!nav2Vars, serverVars
<1>7. CASE AmclPose \/ Nav2Pose \/ \E d \in BOOLEAN : Obstacle(d)
  BY <1>7 DEF AmclPose, NC!UpdatePose, NC!nav2Vars, Nav2Pose, NC!OnNav2Pose, NC!Nav2!Feedback,
              NC!Nav2!nav2Vars, Obstacle, NC!ObstacleMsg, serverVars
<1>8. CASE UNCHANGED vars
  BY <1>8 DEF vars, ncVars, serverVars
<1> QED
  BY <1>1, <1>2, <1>3, <1>4, <1>5, <1>6, <1>7, <1>8 DEF Next, Tick

(* The wired robot implements the goal lifecycle the fleet adapter relies  *)
(* on, for any set of goals (FleetManagerNode.cpp:216-269).                *)
THEOREM SpecRefines == Spec => ImplementsNavigationGoals
<1>1. Init => Goals!Init
  BY DEF Init, NC!Init, NC!Nav2!Init, Goals!Init
<1> QED
  BY <1>1, SpecInvariant, NextMaps, PTL DEF Spec, ImplementsNavigationGoals, Goals!Spec

(* Outside ERROR the state machine has a task exactly while the controller *)
(* works on one (FleetManagerNode.cpp:138-157, RobotStateMachine.cpp:20-81). *)
THEOREM SpecMachineFollows == Spec => []StateMachineFollowsController
<1>1. InductiveInvariant => StateMachineFollowsController
  BY DEF InductiveInvariant
<1> QED
  BY <1>1, SpecInvariant, PTL

(* The members of the wired robot's state machine agree                    *)
(* (RobotStateMachine.cpp:20-142).                                         *)
THEOREM SpecMachineAgrees == Spec => []StateMachineConsistent
<1>1. InductiveInvariant => StateMachineConsistent
  BY DEF InductiveInvariant
<1> QED
  BY <1>1, SpecInvariant, PTL

(***************************************************************************)
(* ManagedRobot uses the controller as NavController allows.               *)
(***************************************************************************)
LEMMA NextUsesController == InductiveInvariant /\ [Next]_vars => [NC!Next]_(NC!vars)
<1> SUFFICES ASSUME InductiveInvariant, [Next]_vars
             PROVE  NC!Next \/ UNCHANGED NC!vars
  OBVIOUS
<1>1. ASSUME NEW t \in Task, NEW m \in BOOLEAN, NEW s \in BOOLEAN, HandleAccepted(t, m, s)
      PROVE  NC!Next
  <2>1. t # task
    BY <1>1, NoTaskAssumption
       DEF HandleAccepted, InductiveInvariant, TypeOK, HandleFollowsTask, CurrentGoalIsTheOpenOne
  <2>2. nav2Outcome[t] = "none"
    BY <1>1 DEF HandleAccepted, InductiveInvariant, Nav2AskedOnce
  <2> QED
    BY <1>1, <2>1, <2>2 DEF HandleAccepted, NC!Next
<1>2. ASSUME NEW t \in Task, HandleCancel(t)
      PROVE  NC!Next
  BY <1>2 DEF HandleCancel, NC!Next
<1>3. CASE Nav2Answers
  BY <1>3 DEF Nav2Answers, Nav2Accepted, Nav2Rejected, Nav2Succeeded, Nav2Failed,
              NC!Nav2Answers, NC!Next
<1>4. CASE Tick
  BY <1>4 DEF Tick, TickCancel, TickComplete, TickControl, NC!Tick, NC!Next
<1>5. CASE AmclPose \/ Nav2Pose
  BY <1>5 DEF AmclPose, Nav2Pose, NC!Next
<1>6. ASSUME NEW d \in BOOLEAN, Obstacle(d)
      PROVE  NC!Next
  BY <1>6 DEF Obstacle, NC!Next
<1>7. CASE UNCHANGED vars
  BY <1>7 DEF vars, ncVars, NC!vars, NC!ncVars, NC!nav2Vars
<1> QED
  BY <1>1, <1>2, <1>3, <1>4, <1>5, <1>6, <1>7 DEF Next

(* The wired robot uses the controller within its interface: each goal is  *)
(* a task of its own.  So what is proved of the controller under any use   *)
(* holds of the robot (FleetManagerNode.cpp:123-210, 248-268).             *)
THEOREM SpecUsesController == Spec => NC!Spec
<1>1. Init => NC!Init
  BY DEF Init
<1> QED
  BY <1>1, SpecInvariant, NextUsesController, PTL DEF Spec, NC!Spec

(* So the theorems about the controller are theorems about the robot: the  *)
(* instance that brings them along is of the same specification.           *)
CP == INSTANCE NavController_proofs

LEMMA SameController == NC!Spec <=> CP!Spec
<1>1. NC!Init <=> CP!Init
  BY DEF NC!Init, CP!Init, NC!Nav2!Init, CP!Nav2!Init, NC!NoResult, CP!NoResult
<1>2. UNCHANGED NC!vars <=> UNCHANGED CP!vars
  BY DEF NC!vars, CP!vars, NC!ncVars, CP!ncVars, NC!nav2Vars, CP!nav2Vars
<1>3. NC!Next <=> CP!Next
  <2>1. ASSUME NEW t, NEW m, NEW s
        PROVE  NC!Navigate(t, m, s) <=> CP!Navigate(t, m, s)
    BY DEF NC!Navigate, CP!Navigate, NC!DispatchNextWaypoint,
          CP!DispatchNextWaypoint, NC!Nav2!Refuses, CP!Nav2!Refuses,
          NC!Nav2!SendGoal, CP!Nav2!SendGoal, NC!Nav2!CancelGoal,
          CP!Nav2!CancelGoal, NC!NoResult, CP!NoResult, NC!nav2Vars, CP!nav2Vars
  <2>2. NC!CancelAll <=> CP!CancelAll
    BY DEF NC!CancelAll, CP!CancelAll, NC!Nav2!CancelGoal, CP!Nav2!CancelGoal
  <2>3. /\ NC!RequestPause <=> CP!RequestPause
        /\ NC!RequestResume <=> CP!RequestResume
        /\ NC!UpdatePose <=> CP!UpdatePose
    BY DEF NC!RequestPause, CP!RequestPause, NC!RequestResume, CP!RequestResume,
          NC!UpdatePose, CP!UpdatePose, NC!nav2Vars, CP!nav2Vars, NC!taskVars,
          CP!taskVars
  <2>4. ASSUME NEW d
        PROVE  NC!ObstacleMsg(d) <=> CP!ObstacleMsg(d)
    BY DEF NC!ObstacleMsg, CP!ObstacleMsg, NC!nav2Vars, CP!nav2Vars, NC!taskVars,
          CP!taskVars
  <2>5. NC!OnNav2Pose <=> CP!OnNav2Pose
    BY DEF NC!OnNav2Pose, CP!OnNav2Pose, NC!Nav2!Feedback, CP!Nav2!Feedback,
          NC!Nav2!nav2Vars, CP!Nav2!nav2Vars, NC!taskVars, CP!taskVars
  <2>6. NC!Nav2Answers <=> CP!Nav2Answers
    BY DEF NC!Nav2Answers, CP!Nav2Answers, NC!OnNav2Accepted, CP!OnNav2Accepted,
          NC!OnNav2Rejected, CP!OnNav2Rejected, NC!OnNav2Succeeded,
          CP!OnNav2Succeeded, NC!OnNav2Failed, CP!OnNav2Failed,
          NC!Nav2!GoalAccepted, CP!Nav2!GoalAccepted, NC!Nav2!GoalRejected,
          CP!Nav2!GoalRejected, NC!Nav2!GoalResult, CP!Nav2!GoalResult,
          NC!Nav2!ResultCode, CP!Nav2!ResultCode, NC!AbortTask, CP!AbortTask,
          NC!NoResult, CP!NoResult, NC!ncVars, CP!ncVars
  <2>7. NC!Tick <=> CP!Tick
    <3>1. NC!TickCancel <=> CP!TickCancel
      BY DEF NC!TickCancel, CP!TickCancel, NC!AbortTask, CP!AbortTask, NC!NoResult,
          CP!NoResult, NC!nav2Vars, CP!nav2Vars
    <3>2. NC!TickComplete <=> CP!TickComplete
      BY DEF NC!TickComplete, CP!TickComplete, NC!CompleteTask, CP!CompleteTask,
          NC!NoResult, CP!NoResult, NC!nav2Vars, CP!nav2Vars
    <3>3. ASSUME NEW a, NEW n, NEW r
          PROVE  NC!TickControl(a, n, r) <=> CP!TickControl(a, n, r)
      BY DEF NC!TickControl, CP!TickControl, NC!TickHeld, CP!TickHeld,
          NC!TickNoPose, CP!TickNoPose, NC!TickMoving, CP!TickMoving,
          NC!TickPreRotation, CP!TickPreRotation, NC!TickWaiting, CP!TickWaiting,
          NC!TickFinalRotation, CP!TickFinalRotation, NC!TickTranslating,
          CP!TickTranslating, NC!Held, CP!Held, NC!Advanced, CP!Advanced,
          NC!NoResult, CP!NoResult, NC!nav2Vars, CP!nav2Vars
    <3> QED
      BY <3>1, <3>2, <3>3 DEF NC!Tick, CP!Tick
  <2> QED
    BY <2>1, <2>2, <2>3, <2>4, <2>5, <2>6, <2>7 DEF NC!Next, CP!Next
<1>4. [NC!Next]_(NC!vars) <=> [CP!Next]_(CP!vars)
  BY <1>2, <1>3
<1> QED
  BY <1>1, <1>4, PTL DEF NC!Spec, CP!Spec

(* The wired robot's controller commands zero at an obstacle and without a *)
(* task, for any set of goals (NavController.cpp:76-93, 326-331, 411-412,  *)
(* 502-506).                                                               *)
THEOREM SpecStops == Spec => [](NC!OwnCommandStopsAtObstacle /\ NC!IdleMeansStopped)
<1>1. CP!Spec => [](CP!OwnCommandStopsAtObstacle /\ CP!IdleMeansStopped)
  BY CP!ControllerHoldsAtObstacle, CP!ControllerStops, PTL
<1>2. /\ NC!OwnCommandStopsAtObstacle <=> CP!OwnCommandStopsAtObstacle
      /\ NC!IdleMeansStopped <=> CP!IdleMeansStopped
  BY DEF NC!OwnCommandStopsAtObstacle, CP!OwnCommandStopsAtObstacle,
         NC!IdleMeansStopped, CP!IdleMeansStopped
<1> QED
  BY <1>1, <1>2, SpecUsesController, SameController, PTL

(* The robot's task is driven, in every phase, by what that phase needs of *)
(* Nav2, for any set of goals (NavController.cpp:293-451).                 *)
THEOREM SpecDrivesTask == Spec => []NC!TaskIsDriven
<1>1. NC!TaskIsDriven <=> CP!TaskIsDriven
  BY DEF NC!TaskIsDriven, CP!TaskIsDriven
<1> QED
  BY <1>1, CP!ControllerDrivesTask, SpecUsesController, SameController, PTL

(***************************************************************************)
(* What NavigationGoals promises its client, and so the robot does.        *)
(***************************************************************************)
GoalsInvariant == Goals!TypeOK /\ Goals!OneLiveGoal /\ Goals!SuccessIsArrival

LEMMA GoalStep ==
  ASSUME GoalsInvariant, Goals!Next
  PROVE  /\ GoalsInvariant'
         /\ \A t \in Task : goalStatus[t] \in {"SUCCEEDED", "ABORTED"}
                              => goalStatus'[t] = goalStatus[t]
<1> USE DEF GoalsInvariant, Goals!TypeOK, Goals!OneLiveGoal, Goals!SuccessIsArrival,
            Goals!Live
<1>1. ASSUME NEW t \in Task, Goals!Accept(t)
      PROVE  /\ GoalsInvariant'
             /\ \A u \in Task : goalStatus[u] \in {"SUCCEEDED", "ABORTED"}
                                  => goalStatus'[u] = goalStatus[u]
  BY <1>1 DEF Goals!Accept
<1>2. ASSUME NEW t \in Task,
             Goals!Cancel(t) \/ Goals!Fail(t) \/ Goals!Succeed(t) \/ Goals!GiveUp(t)
      PROVE  /\ GoalsInvariant'
             /\ \A u \in Task : goalStatus[u] \in {"SUCCEEDED", "ABORTED"}
                                  => goalStatus'[u] = goalStatus[u]
  <2>1. CASE Goals!Cancel(t)
    BY <2>1 DEF Goals!Cancel
  <2>2. CASE Goals!Fail(t)
    BY <2>2 DEF Goals!Fail
  <2>3. CASE Goals!Succeed(t)
    BY <2>3 DEF Goals!Succeed
  <2>4. CASE Goals!GiveUp(t)
    BY <2>4 DEF Goals!GiveUp
  <2> QED
    BY <1>2, <2>1, <2>2, <2>3, <2>4
<1>3. ASSUME NEW t \in Task, Goals!Reach(t)
      PROVE  /\ GoalsInvariant'
             /\ UNCHANGED goalStatus
  BY <1>3 DEF Goals!Reach
<1> QED
  BY <1>1, <1>2, <1>3 DEF Goals!Next

LEMMA GoalsKeepInvariant == Goals!Spec => []GoalsInvariant
<1>1. Goals!Init => GoalsInvariant
  BY DEF Goals!Init, GoalsInvariant, Goals!TypeOK, Goals!OneLiveGoal,
         Goals!SuccessIsArrival, Goals!Live
<1>2. GoalsInvariant /\ [Goals!Next]_(Goals!goalVars) => GoalsInvariant'
  <2> SUFFICES ASSUME GoalsInvariant, [Goals!Next]_(Goals!goalVars)
               PROVE  GoalsInvariant'
    OBVIOUS
  <2>1. CASE UNCHANGED Goals!goalVars
    BY <2>1 DEF Goals!goalVars, GoalsInvariant, Goals!TypeOK, Goals!OneLiveGoal,
                Goals!SuccessIsArrival, Goals!Live
  <2> QED
    BY <2>1, GoalStep
<1> QED
  BY <1>1, <1>2, PTL DEF Goals!Spec

(* The wired robot never has two goals open, a goal that succeeded is one  *)
(* that Nav2 reached, and what a client was answered stays so, for any     *)
(* number of goals (FleetManagerNode.cpp:159-182, 248-268).                *)
THEOREM SpecPromises ==
  Spec => [](Goals!OneLiveGoal /\ Goals!SuccessIsArrival) /\ Goals!AnswersFinal
<1>1. Spec => Goals!Spec
  BY SpecRefines DEF ImplementsNavigationGoals
<1>2. GoalsInvariant => Goals!OneLiveGoal /\ Goals!SuccessIsArrival
  BY DEF GoalsInvariant
<1>3. GoalsInvariant /\ [Goals!Next]_(Goals!goalVars)
        => [\A t \in Task : goalStatus[t] \in {"SUCCEEDED", "ABORTED"}
                              => goalStatus'[t] = goalStatus[t]]_(Goals!goalVars)
  BY GoalStep
<1>4. Goals!Spec => [](Goals!OneLiveGoal /\ Goals!SuccessIsArrival)
  BY <1>2, GoalsKeepInvariant, PTL
<1>5. Goals!Spec => Goals!AnswersFinal
  BY <1>3, GoalsKeepInvariant, PTL DEF Goals!Spec, Goals!AnswersFinal
<1> QED
  BY <1>1, <1>4, <1>5
=============================================================================
