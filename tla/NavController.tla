---------------------------- MODULE NavController ----------------------------
(***************************************************************************)
(* NavController: the control loop that carries out one navigation task    *)
(* around the Nav2 goal sent for it.  Its callbacks, the 50 Hz timer       *)
(* included, run on the one executor thread of the fleet manager, so each  *)
(* is one step.                                                            *)
(*                                                                         *)
(* Geometry is abstracted to the comparisons the code makes, and these are *)
(* parameters of the steps: pose messages come between any two callbacks   *)
(* and may put the robot anywhere, so every comparison may come out either *)
(* way at every step once a pose is known.                                 *)
(*                                                                         *)
(* navigate() holds task_mtx_ when it calls Nav2Handler::send_goal.  A     *)
(* send_goal that refuses calls on_nav2_accepted in the same thread, which *)
(* locks task_mtx_ again: a std::mutex does not allow that, and with the   *)
(* mutex the project is built against the thread waits for itself.         *)
(* executorBlocked is that state; no callback runs in it.                  *)
(***************************************************************************)
EXTENDS RobotTasks

VARIABLES
  active, goalHandle, nav2Status, nav2Task, nav2Outcome,  \* Nav2Handler
  phase,            \* phase_
  task,             \* current_task_id_
  result,           \* nav2_result_
  cancelRequested,  \* cancel_requested_
  obstacle,         \* obstacle_detected_
  paused,           \* paused_
  poseValid,        \* pose_valid_, and RMFHandler's pose is known
  cmd,              \* the last velocity it published itself: "stop", "rotate"
  executorBlocked   \* the executor thread waits for a mutex it holds

Nav2 == INSTANCE Nav2Handler

nav2Vars == <<active, goalHandle, nav2Status, nav2Task, nav2Outcome>>
taskVars == <<phase, task, result, cancelRequested>>
ncVars   == <<phase, task, result, cancelRequested, obstacle, paused,
              poseValid, cmd, executorBlocked>>
vars     == <<nav2Vars, ncVars>>

NoResult == "none"

(* CANCELLED is left out: abort_task sets it and then IDLE before the lock *)
(* is released, so no callback ever sees it.                               *)
Phase == {"IDLE", "PRE_ROTATION", "TRANSLATING", "APPROACH",
          "FINAL_ROTATION", "WAITING_NAV2", "COMPLETE"}

TypeOK ==
  /\ Nav2!TypeOK
  /\ phase \in Phase
  /\ task \in TaskOrNone
  /\ result \in {NoResult, "SUCCEEDED"}
  /\ cancelRequested \in BOOLEAN
  /\ obstacle \in BOOLEAN
  /\ paused \in BOOLEAN
  /\ poseValid \in BOOLEAN
  /\ cmd \in {"stop", "rotate"}
  /\ executorBlocked \in BOOLEAN

Init ==
  /\ Nav2!Init
  /\ phase = "IDLE"
  /\ task = NoTask
  /\ result = NoResult
  /\ cancelRequested = FALSE
  /\ obstacle = FALSE
  /\ paused = FALSE
  /\ poseValid = FALSE
  /\ cmd = "stop"
  /\ executorBlocked = FALSE

(***************************************************************************)
(* The end of a task.                                                      *)
(***************************************************************************)
CompleteTask ==
  /\ phase' = "IDLE"
  /\ task' = NoTask
  /\ result' = NoResult
  /\ UNCHANGED <<cancelRequested, obstacle, paused, poseValid, cmd,
                 executorBlocked>>

(* Mutant: the return to IDLE is left to a later tick.                     *)
AbortTaskLater ==
  /\ phase' = "CANCELLED"
  /\ task' = NoTask
  /\ result' = NoResult
  /\ cancelRequested' = FALSE
  /\ cmd' = "stop"
  /\ UNCHANGED <<obstacle, paused, poseValid, executorBlocked>>

AbortTask ==
  /\ phase' = "IDLE"
  /\ task' = NoTask
  /\ result' = NoResult
  /\ cancelRequested' = FALSE
  /\ cmd' = "stop"
  /\ UNCHANGED <<obstacle, paused, poseValid, executorBlocked>>

(***************************************************************************)
(* The public interface.                                                   *)
(***************************************************************************)

(* Mutant: a goal that send_goal drops is not reported to the controller.  *)
DispatchUnreported(t, misaligned, serverUp) ==
  /\ result' = NoResult
  /\ phase' = IF poseValid /\ misaligned THEN "PRE_ROTATION" ELSE "TRANSLATING"
  /\ UNCHANGED executorBlocked
  /\ IF Nav2!Refuses(serverUp) THEN UNCHANGED nav2Vars ELSE Nav2!SendGoal(t)

(* dispatch_next_waypoint, and before it the cancel of the Nav2 goal of a  *)
(* task under way.  The cancel only shows when send_goal refuses: a goal   *)
(* that could be cancelled is one that send_goal refuses to replace.       *)
DispatchNextWaypoint(t, misaligned, serverUp) ==
  /\ result' = NoResult
  /\ phase' = IF poseValid /\ misaligned THEN "PRE_ROTATION" ELSE "TRANSLATING"
  /\ executorBlocked' = Nav2!Refuses(serverUp)
  /\ IF ~Nav2!Refuses(serverUp)
     THEN Nav2!SendGoal(t)
     ELSE IF phase \notin {"IDLE", "COMPLETE"}
          THEN Nav2!CancelGoal
          ELSE UNCHANGED nav2Vars

(* Mutant: the new task inherits a cancel asked for the old one.           *)
NavigateKeepsCancel(t, misaligned, serverUp) ==
  /\ ~executorBlocked
  /\ task' = t
  /\ DispatchNextWaypoint(t, misaligned, serverUp)
  /\ UNCHANGED <<cancelRequested, obstacle, paused, poseValid, cmd>>

Navigate(t, misaligned, serverUp) ==
  /\ ~executorBlocked
  /\ task' = t
  /\ cancelRequested' = FALSE
  /\ DispatchNextWaypoint(t, misaligned, serverUp)
  /\ UNCHANGED <<obstacle, paused, poseValid, cmd>>

CancelAll ==
  /\ ~executorBlocked
  /\ cancelRequested' = TRUE
  /\ cmd' = "stop"
  /\ Nav2!CancelGoal
  /\ UNCHANGED <<phase, task, result, obstacle, paused, poseValid,
                 executorBlocked>>

RequestPause ==
  /\ ~executorBlocked
  /\ paused' = TRUE
  /\ cmd' = "stop"
  /\ UNCHANGED <<nav2Vars, taskVars, obstacle, poseValid, executorBlocked>>

RequestResume ==
  /\ ~executorBlocked
  /\ paused' = FALSE
  /\ UNCHANGED <<nav2Vars, taskVars, obstacle, poseValid, cmd,
                 executorBlocked>>

UpdatePose ==
  /\ ~executorBlocked
  /\ poseValid' = TRUE
  /\ UNCHANGED <<nav2Vars, taskVars, obstacle, paused, cmd, executorBlocked>>

(* The subscription to <robot>/obstacle_detected.                          *)
ObstacleMsg(detected) ==
  /\ ~executorBlocked
  /\ obstacle' = detected
  /\ cmd' = IF detected /\ ~obstacle THEN "stop" ELSE cmd
  /\ UNCHANGED <<nav2Vars, taskVars, paused, poseValid, executorBlocked>>

(***************************************************************************)
(* Nav2's answers.                                                         *)
(***************************************************************************)
OnNav2Accepted ==
  /\ ~executorBlocked
  /\ Nav2!GoalAccepted
  /\ UNCHANGED ncVars

OnNav2Rejected ==
  /\ ~executorBlocked
  /\ Nav2!GoalRejected
  /\ AbortTask

OnNav2Pose ==
  /\ ~executorBlocked
  /\ Nav2!Feedback
  /\ poseValid' = TRUE
  /\ UNCHANGED <<taskVars, obstacle, paused, cmd, executorBlocked>>

(* Mutant: a success that comes before the distance threshold is dropped.  *)
OnNav2SucceededIfWaiting ==
  /\ ~executorBlocked
  /\ Nav2!GoalResult("SUCCEEDED")
  /\ result' = IF phase = "WAITING_NAV2" THEN "SUCCEEDED" ELSE result
  /\ UNCHANGED <<phase, task, cancelRequested, obstacle, paused, poseValid,
                 cmd, executorBlocked>>

(* Success is latched for the control tick, failure aborts the task.       *)
OnNav2Succeeded ==
  /\ ~executorBlocked
  /\ Nav2!GoalResult("SUCCEEDED")
  /\ result' = "SUCCEEDED"
  /\ UNCHANGED <<phase, task, cancelRequested, obstacle, paused, poseValid,
                 cmd, executorBlocked>>

OnNav2Failed ==
  /\ ~executorBlocked
  /\ \E code \in Nav2!ResultCode \ {"SUCCEEDED"} : Nav2!GoalResult(code)
  /\ AbortTask

(***************************************************************************)
(* The 50 Hz control tick.  In IDLE it does nothing.  A requested cancel   *)
(* comes before everything else, then the end of a complete task.          *)
(***************************************************************************)
TickCancel ==
  /\ ~executorBlocked
  /\ phase # "IDLE"
  /\ cancelRequested
  /\ AbortTask
  /\ UNCHANGED nav2Vars

TickComplete ==
  /\ ~executorBlocked
  /\ phase = "COMPLETE"
  /\ ~cancelRequested
  /\ CompleteTask
  /\ UNCHANGED nav2Vars

(* A latched success takes every phase but FINAL_ROTATION to WAITING_NAV2, *)
(* before the obstacle and pause overlays are looked at.                   *)
Advanced ==
  IF result = "SUCCEEDED" /\ phase # "FINAL_ROTATION" THEN "WAITING_NAV2"
                                                      ELSE phase

(* Mutant: the obstacle overlay looks at the pause flag only.              *)
HeldByPause == paused /\ Advanced # "PRE_ROTATION"

Held == obstacle \/ (paused /\ Advanced # "PRE_ROTATION")

TickHeld ==
  /\ Held
  /\ phase' = Advanced
  /\ cmd' = "stop"
  /\ UNCHANGED result

TickNoPose ==
  /\ ~Held
  /\ ~poseValid
  /\ phase' = Advanced
  /\ UNCHANGED <<result, cmd>>

TickPreRotation(aligned) ==
  /\ Advanced = "PRE_ROTATION"
  /\ phase' = IF aligned THEN "TRANSLATING" ELSE phase
  /\ cmd' = IF aligned THEN "stop" ELSE "rotate"
  /\ UNCHANGED result

(* Mutant: arrival is taken from the distance threshold.                   *)
TickWaitingUnconfirmed ==
  /\ Advanced = "WAITING_NAV2"
  /\ phase' = "FINAL_ROTATION"
  /\ result' = NoResult
  /\ UNCHANGED cmd

(* target_has_yaw_ is always set by navigate, so a confirmed arrival is    *)
(* always followed by the final rotation.                                  *)
TickWaiting ==
  /\ Advanced = "WAITING_NAV2"
  /\ phase' = IF result = "SUCCEEDED" THEN "FINAL_ROTATION" ELSE "WAITING_NAV2"
  /\ result' = NoResult
  /\ UNCHANGED cmd

(* Mutant: the rotation is not stopped when the yaw is reached.            *)
TickFinalRotationNoStop(aligned) ==
  /\ Advanced = "FINAL_ROTATION"
  /\ phase' = IF aligned THEN "COMPLETE" ELSE phase
  /\ cmd' = IF aligned THEN cmd ELSE "rotate"
  /\ UNCHANGED result

TickFinalRotation(aligned) ==
  /\ Advanced = "FINAL_ROTATION"
  /\ phase' = IF aligned THEN "COMPLETE" ELSE phase
  /\ cmd' = IF aligned THEN "stop" ELSE "rotate"
  /\ UNCHANGED result

(* near: within approach_radius_; arrived: within arrival_threshold_.      *)
TickTranslating(near, arrived) ==
  /\ Advanced \in {"TRANSLATING", "APPROACH"}
  /\ phase' = IF arrived THEN "WAITING_NAV2"
              ELSE IF near THEN "APPROACH" ELSE phase
  /\ cmd' = IF arrived THEN "stop" ELSE cmd
  /\ UNCHANGED result

TickMoving(aligned, near, arrived) ==
  /\ ~Held
  /\ poseValid
  /\ \/ TickPreRotation(aligned)
     \/ TickWaiting
     \/ TickFinalRotation(aligned)
     \/ TickTranslating(near, arrived)

TickControl(aligned, near, arrived) ==
  /\ ~executorBlocked
  /\ phase \notin {"IDLE", "COMPLETE"}
  /\ ~cancelRequested
  /\ TickHeld \/ TickNoPose \/ TickMoving(aligned, near, arrived)
  /\ UNCHANGED <<nav2Vars, task, cancelRequested, obstacle, paused,
                 poseValid, executorBlocked>>

(***************************************************************************)
(* The controller on its own, under any use of its public interface by     *)
(* callers that give every request a task id of its own.                   *)
(***************************************************************************)
Tick ==
  \/ TickCancel
  \/ TickComplete
  \/ \E aligned, near, arrived \in BOOLEAN : TickControl(aligned, near, arrived)

Nav2Answers == OnNav2Accepted \/ OnNav2Rejected \/ OnNav2Succeeded \/ OnNav2Failed

Next ==
  \/ \E t \in Task, misaligned, serverUp \in BOOLEAN :
        /\ t # task
        /\ nav2Outcome[t] = "none"
        /\ Navigate(t, misaligned, serverUp)
  \/ CancelAll
  \/ RequestPause
  \/ RequestResume
  \/ UpdatePose
  \/ \E detected \in BOOLEAN : ObstacleMsg(detected)
  \/ OnNav2Pose
  \/ Nav2Answers
  \/ Tick

Spec == Init /\ [][Next]_vars

(***************************************************************************)
(* Properties.                                                             *)
(***************************************************************************)

(* A Nav2 goal in flight while a task is under way was sent for that task, *)
(* unless navigate() has just hung: the answer of an orphaned goal is      *)
(* never taken for the answer to a later one (NavController.cpp:118-155,   *)
(* Nav2Handler.cpp:33-41).                                                 *)
GoalInFlightIsOurs ==
  active /\ phase # "IDLE" /\ ~executorBlocked => nav2Task = task

(* Success is never reported on distance alone: a latched success, and the *)
(* phases after it, mean that Nav2 reported this very task reached and has *)
(* nothing in flight any more (NavController.hpp:12-13, .cpp:245-263,      *)
(* 314-324, 373-393).                                                      *)
ArrivalConfirmed ==
  phase \in {"FINAL_ROTATION", "COMPLETE"} \/ (result = "SUCCEEDED" /\ phase # "IDLE")
    => task \in Task /\ nav2Outcome[task] = "reached" /\ ~active

(* No order of commands, answers and ticks leaves a task with nothing that *)
(* would end it: while one is under way, Nav2 has a goal to answer for, or *)
(* its success is latched, or the last rotation is on                      *)
(* (NavController.cpp:207-263, 285-451).                                   *)
TaskIsDriven ==
  phase # "IDLE" /\ ~executorBlocked =>
    active \/ result = "SUCCEEDED" \/ phase \in {"FINAL_ROTATION", "COMPLETE"}

(* While an obstacle is reported, the last command of the controller is    *)
(* zero, in every phase and however messages, answers and ticks come.      *)
(* This is about the controller alone: Nav2 keeps its goal and publishes   *)
(* on the same topic, see CmdVel (NavController.cpp:76-93, 326-331).       *)
OwnCommandStopsAtObstacle == obstacle => cmd = "stop"

(* The controller does not leave a rotation commanded when it goes idle:   *)
(* its last command is zero whenever it has nothing left to do             *)
(* (NavController.cpp:411-412, 502-506).                                   *)
IdleMeansStopped == phase \in {"IDLE", "COMPLETE"} => cmd = "stop"

(* "Abort any in-flight task before accepting the new one"                 *)
(* (NavController.cpp:118): a new task takes the place of one under way,   *)
(* and the executor goes on to its next callback.                          *)
PreemptionReturns ==
  [][phase # "IDLE" /\ task' \notin {task, NoTask} => ~executorBlocked']_vars

(* "Cancel -- flush queue immediately, cancel Nav2, drop execution"        *)
(* (NavController.hpp:50): once the execution is dropped, Nav2 has been    *)
(* told to stop.                                                           *)
CancelReachesNav2 == phase = "IDLE" => nav2Status \in {"none", "canceling"}
=============================================================================
