------------------------------- MODULE CmdVel -------------------------------
(***************************************************************************)
(* The topic /<robot>/cmd_vel.  The controller publishes on it, and so     *)
(* does Nav2 while it works on a goal: nav_param.yaml:394 and              *)
(* navigation_launch.py:203-220 end its chain of velocities there.  The    *)
(* robot does what came last.  Nav2 is not told of obstacle_detected, and  *)
(* the controller neither cancels nor pauses its goal for it; what Nav2    *)
(* sees with its own sensors is another matter, so it may or may not move. *)
(***************************************************************************)
EXTENDS NavController

VARIABLE velocity   \* the last message: "stop", "rotate", or "drive" from Nav2

cmdVelVars == <<vars, velocity>>

(* The ticks that call publish_cmd_vel.                                    *)
TickPublishes(arrived) ==
  \/ Held
  \/ poseValid /\ Advanced \in {"PRE_ROTATION", "FINAL_ROTATION"}
  \/ poseValid /\ Advanced \in {"TRANSLATING", "APPROACH"} /\ arrived

ControllerPublishes ==
  /\ \/ CancelAll
     \/ RequestPause
     \/ ~obstacle /\ ObstacleMsg(TRUE)
     \/ OnNav2Rejected
     \/ OnNav2Failed
     \/ TickCancel
     \/ \E aligned, near, arrived \in BOOLEAN :
          TickPublishes(arrived) /\ TickControl(aligned, near, arrived)
  /\ velocity' = cmd'

ControllerSilent ==
  /\ \/ \E t \in Task, misaligned, serverUp \in BOOLEAN :
          t # task /\ nav2Outcome[t] = "none" /\ Navigate(t, misaligned, serverUp)
     \/ RequestResume
     \/ UpdatePose
     \/ obstacle /\ ObstacleMsg(TRUE)
     \/ ObstacleMsg(FALSE)
     \/ OnNav2Accepted
     \/ OnNav2Pose
     \/ OnNav2Succeeded
     \/ TickComplete
     \/ \E aligned, near, arrived \in BOOLEAN :
          ~TickPublishes(arrived) /\ TickControl(aligned, near, arrived)
  /\ UNCHANGED velocity

(* Nav2 works on the goal from its acceptance to its result.               *)
Nav2Publishes ==
  /\ nav2Status \in {"executing", "canceling"}
  /\ velocity' = "drive"
  /\ UNCHANGED vars

CmdVelSpec ==
  /\ Init /\ velocity = "stop"
  /\ [][ControllerPublishes \/ ControllerSilent \/ Nav2Publishes]_cmdVelVars

(* "Obstacle -- halt translation+rotation, hold until clear or cancel"     *)
(* (NavController.hpp:51): a robot that was stopped at an obstacle is not  *)
(* set in motion while the obstacle is there and nothing was cancelled.    *)
HoldsAtObstacle ==
  [][obstacle /\ obstacle' /\ velocity = "stop" /\ ~cancelRequested
       => velocity' = "stop"]_cmdVelVars
=============================================================================
