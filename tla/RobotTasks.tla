----------------------------- MODULE RobotTasks -----------------------------
(***************************************************************************)
(* The tasks every other module speaks of.  RMFHandler::on_navigate gives  *)
(* each navigation request a task id of its own (robot name and a counter),*)
(* and that id travels with the action goal, so one value of Task stands   *)
(* for a task id, for the NavigateRobot goal that carries it and for the   *)
(* NavigateToPose goal sent on its behalf.  NoTask is the empty string or  *)
(* the null handle.                                                        *)
(***************************************************************************)
CONSTANTS Task, NoTask

ASSUME NoTaskAssumption == NoTask \notin Task

TaskOrNone == Task \cup {NoTask}
=============================================================================
