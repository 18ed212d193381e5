---------------------------- MODULE ManagedRobot ----------------------------
(***************************************************************************)
(* One robot of the fleet manager node: its NavigateRobot action server,   *)
(* NavController, Nav2Handler and RobotStateMachine, wired as              *)
(* FleetManagerNode::setup_robot wires them.  rclcpp::spin runs every      *)
(* callback of the node on one thread, so a callback, with the hooks it    *)
(* calls, is one step.                                                     *)
(*                                                                         *)
(* A goal of the action server is named by the task it carries.  The       *)
(* server (rclcpp_action) passes a cancel request on only for a goal that  *)
(* is EXECUTING, which it then makes CANCELING.                            *)
(***************************************************************************)
EXTENDS RobotTasks

VARIABLES
  active, goalHandle, nav2Status, nav2Task, nav2Outcome,  \* Nav2Handler
  phase, task, result, cancelRequested, obstacle, paused, poseValid, cmd,
  executorBlocked,                                        \* NavController
  smState, smTask, smReason,                              \* RobotStateMachine
  goalStatus,    \* the status of each goal of the action server
  currentGoal    \* current_goal_handle

NC == INSTANCE NavController
SM == INSTANCE RobotStateMachine
Goals == INSTANCE NavigationGoals
           WITH goalStatus <- goalStatus, nav2Outcome <- nav2Outcome

ncVars == <<active, goalHandle, nav2Status, nav2Task, nav2Outcome,
            phase, task, result, cancelRequested, obstacle, paused, poseValid,
            cmd, executorBlocked>>
smVars == <<smState, smTask, smReason>>
serverVars == <<goalStatus, currentGoal>>
vars == <<ncVars, smVars, serverVars>>

GoalStatus == {"UNKNOWN", "EXECUTING", "CANCELING", "SUCCEEDED", "ABORTED"}

TypeOK ==
  /\ NC!TypeOK
  /\ SM!TypeOK
  /\ goalStatus \in [Task -> GoalStatus]
  /\ currentGoal \in TaskOrNone

Init ==
  /\ NC!Init
  /\ SM!Init
  /\ goalStatus = [t \in Task |-> "UNKNOWN"]
  /\ currentGoal = NoTask

(***************************************************************************)
(* The on_task_finished hook: first the state machine, then the goal.      *)
(***************************************************************************)
(* Mutant: the handle of the ended goal is kept.                           *)
EndGoalKeepsHandle(status) ==
  /\ goalStatus' = IF currentGoal = NoTask THEN goalStatus
                   ELSE [goalStatus EXCEPT ![currentGoal] = status]
  /\ UNCHANGED currentGoal

EndGoal(status) ==
  /\ goalStatus' = IF currentGoal = NoTask THEN goalStatus
                   ELSE [goalStatus EXCEPT ![currentGoal] = status]
  /\ currentGoal' = NoTask

TaskSucceeded == SM!OnSuccess /\ EndGoal("SUCCEEDED")
TaskAborted   == SM!OnError("task aborted") /\ EndGoal("ABORTED")

(***************************************************************************)
(* The action server.                                                      *)
(***************************************************************************)

(* Mutant: the goal before it is left open.                                *)
HandleAcceptedLeavesOpen(t, misaligned, serverUp) ==
  /\ goalStatus[t] = "UNKNOWN"
  /\ goalStatus' = [goalStatus EXCEPT ![t] = "EXECUTING"]
  /\ currentGoal' = t
  /\ NC!Navigate(t, misaligned, serverUp)
  /\ SM!OnNavigate(t)

(* handle_goal and handle_accepted: every goal is accepted, the one before *)
(* it is aborted if it was still open, and navigation starts.              *)
HandleAccepted(t, misaligned, serverUp) ==
  /\ goalStatus[t] = "UNKNOWN"
  /\ goalStatus' = [u \in Task |-> IF u = t THEN "EXECUTING"
                                   ELSE IF u = currentGoal THEN "ABORTED"
                                   ELSE goalStatus[u]]
  /\ currentGoal' = t
  /\ NC!Navigate(t, misaligned, serverUp)
  /\ SM!OnNavigate(t)

HandleCancel(t) ==
  /\ goalStatus[t] = "EXECUTING"
  /\ goalStatus' = [goalStatus EXCEPT ![t] = "CANCELING"]
  /\ NC!CancelAll
  /\ UNCHANGED <<smVars, currentGoal>>

(***************************************************************************)
(* Nav2's answers and the control tick, with the hooks they fire.          *)
(***************************************************************************)
Nav2Accepted  == NC!OnNav2Accepted /\ SM!OnNavigateAccepted /\ UNCHANGED serverVars
Nav2Rejected  == NC!OnNav2Rejected /\ TaskAborted
Nav2Succeeded == NC!OnNav2Succeeded /\ UNCHANGED <<smVars, serverVars>>
Nav2Failed    == NC!OnNav2Failed /\ TaskAborted

TickCancel   == NC!TickCancel /\ TaskAborted
TickComplete == NC!TickComplete /\ TaskSucceeded
TickControl(aligned, near, arrived) ==
  /\ NC!TickControl(aligned, near, arrived)
  /\ UNCHANGED <<smVars, serverVars>>

(***************************************************************************)
(* Telemetry.  The pose hook publishes action feedback and changes no      *)
(* state.                                                                  *)
(***************************************************************************)
AmclPose ==
  /\ NC!UpdatePose
  /\ UNCHANGED <<smVars, serverVars>>

Nav2Pose ==
  /\ NC!OnNav2Pose
  /\ UNCHANGED <<smVars, serverVars>>

Obstacle(detected) ==
  /\ NC!ObstacleMsg(detected)
  /\ UNCHANGED <<smVars, serverVars>>

Tick ==
  \/ TickCancel
  \/ TickComplete
  \/ \E aligned, near, arrived \in BOOLEAN : TickControl(aligned, near, arrived)

Nav2Answers == Nav2Accepted \/ Nav2Rejected \/ Nav2Succeeded \/ Nav2Failed

Next ==
  \/ \E t \in Task, misaligned, serverUp \in BOOLEAN :
        HandleAccepted(t, misaligned, serverUp)
  \/ \E t \in Task : HandleCancel(t)
  \/ Nav2Answers
  \/ Tick
  \/ AmclPose
  \/ Nav2Pose
  \/ \E detected \in BOOLEAN : Obstacle(detected)

Spec == Init /\ [][Next]_vars

(***************************************************************************)
(* Fairness.  The wall timer keeps firing and the executor takes it.  Nav2 *)
(* answers every goal and localisation publishes a pose.  A robot that is  *)
(* told to turn turns: the tick finds it aligned and clear of obstacles    *)
(* again and again while it waits for that.                                *)
(***************************************************************************)
Fairness ==
  /\ WF_vars(Tick)
  /\ WF_vars(Nav2Answers)
  /\ WF_vars(AmclPose)
  /\ WF_vars(Obstacle(FALSE))
  /\ SF_vars(~obstacle /\ \E near, arrived \in BOOLEAN :
                            TickControl(TRUE, near, arrived))

FairSpec == Spec /\ Fairness

(***************************************************************************)
(* Safety.                                                                 *)
(***************************************************************************)

(* The action server holds a goal handle exactly while the controller has  *)
(* a task, and it is the handle of that task.  A handle that outlived its  *)
(* task would never be answered, one dropped early would leave a robot     *)
(* driving for nobody (FleetManagerNode.cpp:151-182, 248-268,              *)
(* NavController.cpp:490-522).                                             *)
HandleFollowsTask ==
  /\ currentGoal = task
  /\ currentGoal # NoTask <=> phase # "IDLE"

(* The stored handle is the one open goal of the server.  rclcpp_action    *)
(* throws when a goal that is no longer open is ended again                *)
(* (FleetManagerNode.cpp:159-181, 248-261).                                *)
CurrentGoalIsTheOpenOne ==
  \A t \in Task : goalStatus[t] \in {"EXECUTING", "CANCELING"} <=> t = currentGoal

(* A cancel request is neither lost nor applied to a later goal: the       *)
(* controller's flag is up exactly while the goal in hand is being         *)
(* cancelled (NavController.cpp:134, 173-182, 294-303, 517).               *)
CancelFlagFollowsGoal ==
  cancelRequested <=> \E t \in Task : goalStatus[t] = "CANCELING"

(* While the machine is not in ERROR its task is set exactly while the     *)
(* controller works on one, and it says NAVIGATING only then               *)
(* (FleetManagerNode.cpp:138-157, RobotStateMachine.cpp:20-81).            *)
StateMachineFollowsController ==
  smState # "ERROR" => (smTask # NoTask <=> phase # "IDLE")

(* The members of the state machine agree (RobotStateMachine.cpp:20-142).  *)
StateMachineConsistent == SM!Consistent

(* The answer of one Nav2 goal is not taken for that of another, and a     *)
(* task is taken as arrived only after Nav2 said so for that task          *)
(* (NavController.hpp:12-13, Nav2Handler.cpp:33-41).                       *)
GoalInFlightIsOurs == NC!GoalInFlightIsOurs
ArrivalConfirmed   == NC!ArrivalConfirmed

(* What the fleet adapter is promised: a goal succeeds only if Nav2        *)
(* reached its target, is aborted only if it was displaced, failed or was  *)
(* cancelled, and is answered once (FleetManagerNode.cpp:216-269).         *)
ImplementsNavigationGoals == Goals!Spec

(* A machine that is IDLE with a task waits for Nav2's goal response.      *)
MachineWaitsForNav2 ==
  smState = "IDLE" /\ phase # "IDLE" /\ ~executorBlocked => nav2Status = "requested"

(* Nav2 is asked once for each goal, after it was accepted, and answers    *)
(* once.                                                                   *)
Nav2AskedOnce ==
  \A t \in Task : nav2Outcome[t] # "none" => goalStatus[t] # "UNKNOWN" /\ nav2Task # t

Nav2GoalAccepted ==
  active => goalStatus[nav2Task] # "UNKNOWN"

(* What every step preserves: the invariants above, the agreement of the   *)
(* Nav2 client with its server, and the order of acceptance, request and   *)
(* answer that ties them together (FleetManagerNode.cpp:138-182, 244-268). *)
InductiveInvariant ==
  /\ TypeOK
  /\ NC!Nav2!ClientAgrees
  /\ HandleFollowsTask
  /\ CurrentGoalIsTheOpenOne
  /\ CancelFlagFollowsGoal
  /\ StateMachineFollowsController
  /\ StateMachineConsistent
  /\ GoalInFlightIsOurs
  /\ ArrivalConfirmed
  /\ MachineWaitsForNav2
  /\ Nav2AskedOnce
  /\ Nav2GoalAccepted

(***************************************************************************)
(* Liveness.                                                               *)
(***************************************************************************)
Answered(t) == goalStatus[t] \in {"SUCCEEDED", "ABORTED"}

(* Every goal is answered, unless the executor hung: no obstacle, cancel,  *)
(* late result or order of the callbacks leaves a goal open for ever       *)
(* (NavController.cpp:285-451).                                            *)
GoalsAnsweredUnlessHung ==
  \A t \in Task : goalStatus[t] = "EXECUTING" ~> Answered(t) \/ executorBlocked
=============================================================================
