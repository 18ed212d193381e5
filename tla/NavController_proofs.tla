------------------------- MODULE NavController_proofs -------------------------
(***************************************************************************)
(* Proofs about the controller alone, under any use of its interface: what *)
(* it last told the robot's wheels.                                        *)
(***************************************************************************)
EXTENDS NavController, TLAPS

CommandInvariant == OwnCommandStopsAtObstacle /\ IdleMeansStopped

(* A control tick rotates the robot only with no obstacle in sight, and    *)
(* stops it before the task is complete.                                   *)
LEMMA TickKeepsCommand ==
  ASSUME CommandInvariant, Tick
  PROVE  CommandInvariant'
<1> USE DEF CommandInvariant, OwnCommandStopsAtObstacle, IdleMeansStopped
<1>1. CASE TickCancel
  BY <1>1 DEF TickCancel, AbortTask
<1>2. CASE TickComplete
  BY <1>2 DEF TickComplete, CompleteTask
<1>3. ASSUME NEW a \in BOOLEAN, NEW n \in BOOLEAN, NEW r \in BOOLEAN, TickControl(a, n, r)
      PROVE  CommandInvariant'
  <2>1. phase \notin {"IDLE", "COMPLETE"} /\ obstacle' = obstacle
    BY <1>3 DEF TickControl
  <2>2. Advanced \notin {"IDLE", "COMPLETE"}
    BY <2>1 DEF Advanced
  <2>3. CASE TickHeld
    BY <2>3 DEF TickHeld
  <2>4. CASE TickNoPose
    BY <2>1, <2>2, <2>4 DEF TickNoPose, Held
  <2>5. CASE TickMoving(a, n, r)
    BY <2>1, <2>2, <2>5 DEF TickMoving, Held, TickPreRotation, TickWaiting,
                            TickFinalRotation, TickTranslating
  <2> QED
    BY <1>3, <2>3, <2>4, <2>5 DEF TickControl
<1> QED
  BY <1>1, <1>2, <1>3 DEF Tick

(* The other callbacks only ever stop the robot.                           *)
LEMMA NextKeepsCommand == CommandInvariant /\ [Next]_vars => CommandInvariant'
<1> SUFFICES ASSUME CommandInvariant, [Next]_vars
             PROVE  CommandInvariant'
  OBVIOUS
<1> USE DEF CommandInvariant, OwnCommandStopsAtObstacle, IdleMeansStopped
<1>1. ASSUME NEW t \in Task, NEW m \in BOOLEAN, NEW s \in BOOLEAN, Navigate(t, m, s)
      PROVE  CommandInvariant'
  BY <1>1 DEF Navigate, DispatchNextWaypoint
<1>2. CASE CancelAll \/ RequestPause \/ RequestResume \/ UpdatePose
  BY <1>2 DEF CancelAll, RequestPause, RequestResume, UpdatePose, taskVars
<1>3. ASSUME NEW d \in BOOLEAN, ObstacleMsg(d)
      PROVE  CommandInvariant'
  BY <1>3 DEF ObstacleMsg, taskVars
<1>4. CASE OnNav2Pose \/ Nav2Answers
  BY <1>4 DEF OnNav2Pose, Nav2Answers, OnNav2Accepted, OnNav2Rejected, OnNav2Succeeded,
              OnNav2Failed, AbortTask, ncVars, taskVars
<1>5. CASE Tick
  BY <1>5, TickKeepsCommand
<1>6. CASE UNCHANGED vars
  BY <1>6 DEF vars, ncVars
<1> QED
  BY <1>1, <1>2, <1>3, <1>4, <1>5, <1>6 DEF Next

LEMMA SpecKeepsCommand == Spec => []CommandInvariant
<1>1. Init => CommandInvariant
  BY DEF Init, CommandInvariant, OwnCommandStopsAtObstacle, IdleMeansStopped
<1> QED
  BY <1>1, NextKeepsCommand, PTL DEF Spec

(* The controller commands zero at an obstacle, for any set of tasks       *)
(* (NavController.cpp:76-93, 326-331).                                     *)
THEOREM ControllerHoldsAtObstacle == Spec => []OwnCommandStopsAtObstacle
<1>1. CommandInvariant => OwnCommandStopsAtObstacle
  BY DEF CommandInvariant
<1> QED
  BY <1>1, SpecKeepsCommand, PTL

(* The controller commands zero without a task, for any set of tasks       *)
(* (NavController.cpp:411-412, 502-506).                                   *)
THEOREM ControllerStops == Spec => []IdleMeansStopped
<1>1. CommandInvariant => IdleMeansStopped
  BY DEF CommandInvariant
<1> QED
  BY <1>1, SpecKeepsCommand, PTL

(***************************************************************************)
(* Whose goal Nav2 works on.                                               *)
(***************************************************************************)
GoalInvariant == TypeOK /\ Nav2!ClientAgrees /\ GoalInFlightIsOurs

(* A new task asks Nav2 for a goal of its own, or hangs the thread.        *)
LEMMA NavigateKeepsGoal ==
  ASSUME GoalInvariant, NEW t \in Task, NEW m \in BOOLEAN, NEW s \in BOOLEAN,
         Navigate(t, m, s)
  PROVE  GoalInvariant'
<1> USE NoTaskAssumption DEF GoalInvariant, TypeOK, Nav2!TypeOK, Nav2!ClientAgrees,
        GoalInFlightIsOurs, TaskOrNone, Nav2!TaskOrNone, Phase, NoResult
<1>1. /\ ~executorBlocked /\ task' = t /\ cancelRequested' = FALSE
      /\ result' = NoResult /\ phase' \in {"PRE_ROTATION", "TRANSLATING"}
      /\ executorBlocked' = Nav2!Refuses(s)
      /\ UNCHANGED <<obstacle, paused, poseValid, cmd>>
  BY DEF Navigate, DispatchNextWaypoint
<1>2. CASE Nav2!Refuses(s)
  <2>1. UNCHANGED <<active, goalHandle, nav2Task, nav2Outcome>>
        /\ nav2Status' = (IF active /\ goalHandle /\ phase \notin {"IDLE", "COMPLETE"}
                         THEN "canceling" ELSE nav2Status)
    BY <1>2 DEF Navigate, DispatchNextWaypoint, Nav2!CancelGoal, nav2Vars
  <2>2. executorBlocked' = TRUE
    BY <1>1, <1>2 DEF Nav2!Refuses
  <2> QED
    BY <1>1, <2>1, <2>2
<1>3. CASE ~Nav2!Refuses(s)
  <2>1. /\ active' = TRUE /\ nav2Status' = "requested" /\ nav2Task' = t
        /\ UNCHANGED <<goalHandle, nav2Outcome>>
    BY <1>3 DEF Navigate, DispatchNextWaypoint, Nav2!SendGoal
  <2>2. ~active /\ executorBlocked' = FALSE
    BY <1>1, <1>3 DEF Nav2!Refuses
  <2>3. goalHandle = FALSE
    BY <2>2
  <2> QED
    BY <1>1, <2>1, <2>2, <2>3
<1> QED
  BY <1>2, <1>3

(* Nav2's answers end its goal or name it.                                 *)
LEMMA AnswersKeepGoal ==
  ASSUME GoalInvariant, OnNav2Pose \/ Nav2Answers
  PROVE  GoalInvariant'
<1> USE NoTaskAssumption DEF GoalInvariant, TypeOK, Nav2!TypeOK, Nav2!ClientAgrees,
        GoalInFlightIsOurs, TaskOrNone, Nav2!TaskOrNone, Phase,
        NoResult, ncVars, taskVars, AbortTask
<1>1. CASE OnNav2Pose
  BY <1>1 DEF OnNav2Pose, Nav2!Feedback, Nav2!nav2Vars
<1>2. CASE OnNav2Accepted
  BY <1>2 DEF OnNav2Accepted, Nav2!GoalAccepted
<1>3. CASE OnNav2Rejected
  BY <1>3 DEF OnNav2Rejected, Nav2!GoalRejected
<1>4. CASE OnNav2Succeeded
  BY <1>4 DEF OnNav2Succeeded, Nav2!GoalResult
<1>5. CASE OnNav2Failed
  BY <1>5 DEF OnNav2Failed, Nav2!GoalResult
<1> QED
  BY <1>1, <1>2, <1>3, <1>4, <1>5 DEF Nav2Answers

(* A control tick leaves Nav2 and the task it works on alone.              *)
LEMMA TickKeepsGoal ==
  ASSUME GoalInvariant, Tick
  PROVE  GoalInvariant'
<1> USE NoTaskAssumption DEF GoalInvariant, TypeOK, Nav2!TypeOK, Nav2!ClientAgrees,
        GoalInFlightIsOurs, TaskOrNone, Nav2!TaskOrNone, Phase, NoResult, nav2Vars
<1>1. CASE TickCancel
  BY <1>1 DEF TickCancel, AbortTask
<1>2. CASE TickComplete
  BY <1>2 DEF TickComplete, CompleteTask
<1>3. ASSUME NEW a \in BOOLEAN, NEW n \in BOOLEAN, NEW r \in BOOLEAN, TickControl(a, n, r)
      PROVE  GoalInvariant'
  <2>1. /\ phase' \in Phase /\ cmd' \in {"stop", "rotate"}
        /\ result' \in {NoResult, "SUCCEEDED"}
    BY <1>3 DEF TickControl, TickHeld, TickNoPose, TickMoving, TickPreRotation,
                TickWaiting, TickFinalRotation, TickTranslating, Advanced
  <2>2. phase # "IDLE" /\ UNCHANGED <<nav2Vars, task, cancelRequested, obstacle,
                                      paused, poseValid, executorBlocked>>
    BY <1>3 DEF TickControl
  <2> QED
    BY <2>1, <2>2
<1> QED
  BY <1>1, <1>2, <1>3 DEF Tick

LEMMA NextKeepsGoal == GoalInvariant /\ [Next]_vars => GoalInvariant'
<1> SUFFICES ASSUME GoalInvariant, [Next]_vars
             PROVE  GoalInvariant'
  OBVIOUS
<1> USE NoTaskAssumption DEF GoalInvariant, TypeOK, Nav2!TypeOK, Nav2!ClientAgrees,
        GoalInFlightIsOurs, TaskOrNone, Nav2!TaskOrNone, Phase,
        NoResult, nav2Vars, taskVars
<1>1. CASE CancelAll
  BY <1>1 DEF CancelAll, Nav2!CancelGoal
<1>2. CASE RequestPause \/ RequestResume \/ UpdatePose
  <2>1. CASE RequestPause
    BY <2>1 DEF RequestPause
  <2>2. CASE RequestResume
    BY <2>2 DEF RequestResume
  <2>3. CASE UpdatePose
    BY <2>3 DEF UpdatePose
  <2> QED
    BY <1>2, <2>1, <2>2, <2>3
<1>3. ASSUME NEW d \in BOOLEAN, ObstacleMsg(d)
      PROVE  GoalInvariant'
  BY <1>3 DEF ObstacleMsg
<1>4. CASE UNCHANGED vars
  BY <1>4 DEF vars, ncVars
<1> QED
  BY <1>1, <1>2, <1>3, <1>4, NavigateKeepsGoal, AnswersKeepGoal, TickKeepsGoal DEF Next

LEMMA SpecKeepsGoal == Spec => []GoalInvariant
<1>1. Init => GoalInvariant
  BY NoTaskAssumption
     DEF Init, Nav2!Init, GoalInvariant, TypeOK, Nav2!TypeOK, Nav2!ClientAgrees,
         GoalInFlightIsOurs, TaskOrNone, Nav2!TaskOrNone, Phase, NoResult
<1> QED
  BY <1>1, NextKeepsGoal, PTL DEF Spec

(* Every variable keeps its type, under any use of the controller.         *)
THEOREM ControllerTypeOK == Spec => []TypeOK
<1>1. GoalInvariant => TypeOK
  BY DEF GoalInvariant
<1> QED
  BY <1>1, SpecKeepsGoal, PTL

(* A Nav2 goal in flight is that of the task in hand, under any use of the *)
(* controller's interface and for any set of tasks                         *)
(* (NavController.cpp:118-155, Nav2Handler.cpp:33-41).                     *)
THEOREM ControllerOwnsGoal == Spec => []GoalInFlightIsOurs
<1>1. GoalInvariant => GoalInFlightIsOurs
  BY DEF GoalInvariant
<1> QED
  BY <1>1, SpecKeepsGoal, PTL

(***************************************************************************)
(* What the controller takes for an arrival.                               *)
(***************************************************************************)
WorksOnATask == phase # "IDLE" => task \in Task

ArrivalInvariant == GoalInvariant /\ WorksOnATask /\ ArrivalConfirmed

(* A new task starts with no result, and an answer is the one Nav2 gave    *)
(* for the task in hand.                                                   *)
LEMMA GoalsKeepArrival ==
  ASSUME ArrivalInvariant, GoalInvariant',
         \/ \E t \in Task, m, s \in BOOLEAN : Navigate(t, m, s)
         \/ OnNav2Pose \/ Nav2Answers
  PROVE  ArrivalInvariant'
<1> USE DEF ArrivalInvariant, WorksOnATask, ArrivalConfirmed, NoResult
<1>1. ASSUME NEW t \in Task, NEW m \in BOOLEAN, NEW s \in BOOLEAN, Navigate(t, m, s)
      PROVE  ArrivalInvariant'
  BY <1>1 DEF Navigate, DispatchNextWaypoint
<1>2. CASE OnNav2Pose
  BY <1>2 DEF OnNav2Pose, taskVars, Nav2!Feedback, Nav2!nav2Vars
<1>3. CASE OnNav2Accepted
  BY <1>3 DEF OnNav2Accepted, ncVars, Nav2!GoalAccepted
<1>4. CASE OnNav2Rejected \/ OnNav2Failed
  BY <1>4 DEF OnNav2Rejected, OnNav2Failed, AbortTask
<1>5. CASE OnNav2Succeeded
  <2>1. active /\ nav2Task \in Task
    BY <1>5 DEF OnNav2Succeeded, Nav2!GoalResult, GoalInvariant, TypeOK, Nav2!TypeOK,
                Nav2!ClientAgrees, Nav2!TaskOrNone
  <2>2. phase # "IDLE" => nav2Task = task
    BY <1>5, <2>1 DEF OnNav2Succeeded, GoalInvariant, GoalInFlightIsOurs
  <2>3. nav2Outcome'[nav2Task] = "reached" /\ ~active'
    BY <1>5, <2>1 DEF OnNav2Succeeded, Nav2!GoalResult, GoalInvariant, TypeOK, Nav2!TypeOK
  <2> QED
    BY <1>5, <2>1, <2>2, <2>3 DEF OnNav2Succeeded
<1> QED
  BY <1>1, <1>2, <1>3, <1>4, <1>5 DEF Nav2Answers

(* A tick starts the final rotation only on a latched success.             *)
LEMMA TickKeepsArrival ==
  ASSUME ArrivalInvariant, GoalInvariant', Tick
  PROVE  ArrivalInvariant'
<1> USE DEF ArrivalInvariant, WorksOnATask, ArrivalConfirmed, NoResult
<1>1. CASE TickCancel
  BY <1>1 DEF TickCancel, AbortTask
<1>2. CASE TickComplete
  BY <1>2 DEF TickComplete, CompleteTask
<1>3. ASSUME NEW a \in BOOLEAN, NEW n \in BOOLEAN, NEW r \in BOOLEAN, TickControl(a, n, r)
      PROVE  ArrivalInvariant'
  <2>1. phase \notin {"IDLE", "COMPLETE"} /\ UNCHANGED <<nav2Vars, task>>
    BY <1>3 DEF TickControl
  <2>2. phase' \in {"FINAL_ROTATION", "COMPLETE"} \/ result' = "SUCCEEDED"
          => phase = "FINAL_ROTATION" \/ result = "SUCCEEDED"
    BY <1>3 DEF TickControl, TickHeld, TickNoPose, TickMoving, TickPreRotation,
                TickWaiting, TickFinalRotation, TickTranslating, Advanced
  <2> QED
    BY <2>1, <2>2 DEF nav2Vars
<1> QED
  BY <1>1, <1>2, <1>3 DEF Tick

LEMMA NextKeepsArrival == ArrivalInvariant /\ [Next]_vars => ArrivalInvariant'
<1> SUFFICES ASSUME ArrivalInvariant, [Next]_vars
             PROVE  ArrivalInvariant'
  OBVIOUS
<1>1. GoalInvariant'
  BY NextKeepsGoal DEF ArrivalInvariant
<1> USE DEF ArrivalInvariant, WorksOnATask, ArrivalConfirmed, nav2Vars, taskVars
<1>2. CASE CancelAll
  BY <1>1, <1>2 DEF CancelAll, Nav2!CancelGoal
<1>3. CASE RequestPause \/ RequestResume \/ UpdatePose
  BY <1>1, <1>3 DEF RequestPause, RequestResume, UpdatePose
<1>4. ASSUME NEW d \in BOOLEAN, ObstacleMsg(d)
      PROVE  ArrivalInvariant'
  BY <1>1, <1>4 DEF ObstacleMsg
<1>5. CASE UNCHANGED vars
  BY <1>1, <1>5 DEF vars, ncVars
<1> QED
  BY <1>1, <1>2, <1>3, <1>4, <1>5, GoalsKeepArrival, TickKeepsArrival DEF Next

(* An arrival is Nav2's word about the task in hand and never the distance *)
(* alone, under any use of the controller's interface and for any set of   *)
(* tasks (NavController.hpp:12-13, .cpp:245-263, 314-324, 373-393).        *)
THEOREM ControllerArrives == Spec => []ArrivalConfirmed
<1>1. Init => WorksOnATask /\ ArrivalConfirmed
  BY DEF Init, WorksOnATask, ArrivalConfirmed
<1>2. Init => GoalInvariant
  BY NoTaskAssumption
     DEF Init, Nav2!Init, GoalInvariant, TypeOK, Nav2!TypeOK, Nav2!ClientAgrees,
         GoalInFlightIsOurs, TaskOrNone, Nav2!TaskOrNone, Phase, NoResult
<1>3. Spec => []ArrivalInvariant
  BY <1>1, <1>2, NextKeepsArrival, PTL DEF Spec, ArrivalInvariant
<1>4. ArrivalInvariant => ArrivalConfirmed
  BY DEF ArrivalInvariant
<1> QED
  BY <1>3, <1>4, PTL

(***************************************************************************)
(* A task under way is driven by something.                                *)
(***************************************************************************)
LEMMA NextKeepsDriven ==
  TypeOK /\ TaskIsDriven /\ [Next]_vars => TaskIsDriven'
<1> SUFFICES ASSUME TypeOK, TaskIsDriven, [Next]_vars
             PROVE  TaskIsDriven'
  OBVIOUS
<1> USE DEF TaskIsDriven, nav2Vars, taskVars, NoResult
<1>1. ASSUME NEW t \in Task, NEW m \in BOOLEAN, NEW s \in BOOLEAN, Navigate(t, m, s)
      PROVE  TaskIsDriven'
  <2>1. CASE Nav2!Refuses(s)
    <3>1. executorBlocked' = TRUE
      BY <1>1, <2>1 DEF Navigate, DispatchNextWaypoint
    <3> QED
      BY <3>1
  <2>2. CASE ~Nav2!Refuses(s)
    BY <1>1, <2>2 DEF Navigate, DispatchNextWaypoint, Nav2!SendGoal
  <2> QED
    BY <2>1, <2>2
<1>2. CASE CancelAll
  BY <1>2 DEF CancelAll, Nav2!CancelGoal
<1>3. CASE RequestPause \/ RequestResume \/ UpdatePose
  BY <1>3 DEF RequestPause, RequestResume, UpdatePose
<1>4. ASSUME NEW d \in BOOLEAN, ObstacleMsg(d)
      PROVE  TaskIsDriven'
  BY <1>4 DEF ObstacleMsg
<1>5. CASE OnNav2Pose
  BY <1>5 DEF OnNav2Pose, Nav2!Feedback, Nav2!nav2Vars
<1>6. CASE Nav2Answers
  <2>1. CASE OnNav2Accepted
    BY <2>1 DEF OnNav2Accepted, ncVars, Nav2!GoalAccepted
  <2>2. CASE OnNav2Rejected \/ OnNav2Failed
    BY <2>2 DEF OnNav2Rejected, OnNav2Failed, AbortTask
  <2>3. CASE OnNav2Succeeded
    BY <2>3 DEF OnNav2Succeeded
  <2> QED
    BY <1>6, <2>1, <2>2, <2>3 DEF Nav2Answers
<1>7. CASE Tick
  <2>1. CASE TickCancel \/ TickComplete
    BY <2>1 DEF TickCancel, TickComplete, AbortTask, CompleteTask
  <2>2. ASSUME NEW a \in BOOLEAN, NEW n \in BOOLEAN, NEW r \in BOOLEAN, TickControl(a, n, r)
        PROVE  TaskIsDriven'
    <3>1. /\ phase \notin {"IDLE", "COMPLETE"} /\ ~executorBlocked
          /\ UNCHANGED <<nav2Vars, executorBlocked>>
      BY <2>2 DEF TickControl
    <3>2. /\ result = "SUCCEEDED"
              => result' = "SUCCEEDED" \/ phase' \in {"FINAL_ROTATION", "COMPLETE"}
          /\ phase = "FINAL_ROTATION" => phase' \in {"FINAL_ROTATION", "COMPLETE"}
      BY <2>2 DEF TickControl, TickHeld, TickNoPose, TickMoving, TickPreRotation,
                  TickWaiting, TickFinalRotation, TickTranslating, Advanced
    <3> QED
      BY <3>1, <3>2
  <2> QED
    BY <1>7, <2>1, <2>2 DEF Tick
<1>8. CASE UNCHANGED vars
  BY <1>8 DEF vars, ncVars
<1> QED
  BY <1>1, <1>2, <1>3, <1>4, <1>5, <1>6, <1>7, <1>8 DEF Next

(* No task is left with nothing that would end it, under any use of the    *)
(* controller's interface and for any set of tasks                         *)
(* (NavController.cpp:207-263, 285-451).                                   *)
THEOREM ControllerDrivesTask == Spec => []TaskIsDriven
<1>1. Init => TaskIsDriven
  BY DEF Init, TaskIsDriven
<1> QED
  BY <1>1, NextKeepsDriven, ControllerTypeOK, PTL DEF Spec
=============================================================================
