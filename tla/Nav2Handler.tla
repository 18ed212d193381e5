----------------------------- MODULE Nav2Handler -----------------------------
(***************************************************************************)
(* Nav2Handler: the action client that sends one robot's NavigateToPose    *)
(* goals, together with the part of the Nav2 server that the client sees.  *)
(*                                                                         *)
(* send_goal keeps a single set of pending callbacks, and its active_ flag *)
(* admits one goal at a time, so the server side is one goal as well:      *)
(* asked for, executing, or asked to stop.  A message and the callback     *)
(* that takes it are one step; what the server does before its message is  *)
(* taken shows in no variable of the client.                               *)
(***************************************************************************)
EXTENDS RobotTasks

VARIABLES
  active,        \* active_
  goalHandle,    \* active_goal_handle_ is not null
  nav2Status,    \* the server's goal: "none", "requested", "executing", "canceling"
  nav2Task,      \* the task that goal was sent for
  nav2Outcome    \* history: how Nav2 answered for each task

nav2Vars == <<active, goalHandle, nav2Status, nav2Task, nav2Outcome>>

ResultCode == {"SUCCEEDED", "CANCELLED", "ABORTED"}

TypeOK ==
  /\ active \in BOOLEAN
  /\ goalHandle \in BOOLEAN
  /\ nav2Status \in {"none", "requested", "executing", "canceling"}
  /\ nav2Task \in TaskOrNone
  /\ nav2Outcome \in [Task -> {"none", "reached", "failed"}]

Init ==
  /\ active = FALSE
  /\ goalHandle = FALSE
  /\ nav2Status = "none"
  /\ nav2Task = NoTask
  /\ nav2Outcome = [t \in Task |-> "none"]

(* send_goal drops the request while a goal is in flight or when the       *)
(* server is not there; it then calls on_accepted(false) before returning. *)
Refuses(serverUp) == active \/ ~serverUp

SendGoal(t) ==
  /\ active' = TRUE
  /\ nav2Status' = "requested"
  /\ nav2Task' = t
  /\ UNCHANGED <<goalHandle, nav2Outcome>>

(* Without a handle, that is before the server's goal response, there is   *)
(* nothing to name in a cancel request and none is sent.                   *)
CancelGoal ==
  /\ nav2Status' = IF active /\ goalHandle THEN "canceling" ELSE nav2Status
  /\ UNCHANGED <<active, goalHandle, nav2Task, nav2Outcome>>

(* goal_response_callback with a handle, and with none.                    *)
GoalAccepted ==
  /\ nav2Status = "requested"
  /\ goalHandle' = TRUE
  /\ nav2Status' = "executing"
  /\ UNCHANGED <<active, nav2Task, nav2Outcome>>

GoalRejected ==
  /\ nav2Status = "requested"
  /\ active' = FALSE
  /\ nav2Status' = "none"
  /\ nav2Task' = NoTask
  /\ nav2Outcome' = [nav2Outcome EXCEPT ![nav2Task] = "failed"]
  /\ UNCHANGED goalHandle

(* result_callback.  A goal asked to stop may have finished first, and any *)
(* ROS client may cancel or displace a goal of the server.                 *)
GoalResult(code) ==
  /\ nav2Status \in {"executing", "canceling"}
  /\ active' = FALSE
  /\ goalHandle' = FALSE
  /\ nav2Status' = "none"
  /\ nav2Task' = NoTask
  /\ nav2Outcome' = [nav2Outcome EXCEPT ![nav2Task] =
                       IF code = "SUCCEEDED" THEN "reached" ELSE "failed"]

(* feedback_callback: the client takes feedback of a goal it has a handle  *)
(* for.                                                                    *)
Feedback ==
  /\ goalHandle
  /\ UNCHANGED nav2Vars

(***************************************************************************)
(* The client's view of its goal agrees with the server's                  *)
(* (Nav2Handler.cpp:33-45, 74-95, 115-120).                                *)
(***************************************************************************)
ClientAgrees ==
  /\ active <=> nav2Status # "none"
  /\ goalHandle <=> nav2Status \in {"executing", "canceling"}
  /\ active <=> nav2Task # NoTask
=============================================================================
