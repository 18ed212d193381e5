------------------------- MODULE RobotStateMachine -------------------------
(***************************************************************************)
(* RobotStateMachine: the lifecycle state the fleet manager keeps for one  *)
(* robot.  Every public method takes the machine's own mutex, so each is   *)
(* one step.  A method whose guard fails logs a warning and returns false; *)
(* no caller looks at the result, so a rejected trigger is a step that     *)
(* changes nothing.                                                        *)
(***************************************************************************)
EXTENDS RobotTasks

VARIABLES
  smState,      \* state_
  smTask,       \* active_task_id_
  smReason      \* last_error_reason_

smVars == <<smState, smTask, smReason>>

(* The one reason a caller gives (NavController::abort_task), and none.    *)
Reason   == {"task aborted"}
NoReason == ""

TypeOK ==
  /\ smState \in {"IDLE", "NAVIGATING", "ERROR"}
  /\ smTask \in TaskOrNone
  /\ smReason \in Reason \cup {NoReason}

Init == smState = "IDLE" /\ smTask = NoTask /\ smReason = NoReason

(***************************************************************************)
(* The triggers.                                                           *)
(***************************************************************************)
OnNavigate(t) ==
  IF smState = "IDLE"
  THEN smTask' = t /\ smReason' = NoReason /\ UNCHANGED smState
  ELSE UNCHANGED smVars

OnNavigateAccepted ==
  /\ smState' = IF smState = "IDLE" /\ smTask # NoTask
                THEN "NAVIGATING" ELSE smState
  /\ UNCHANGED <<smTask, smReason>>

(* Mutant: the task id survives its success.                               *)
OnSuccessKeepsTask ==
  IF smState = "NAVIGATING"
  THEN smState' = "IDLE" /\ UNCHANGED <<smTask, smReason>>
  ELSE UNCHANGED smVars

OnSuccess ==
  IF smState = "NAVIGATING"
  THEN smState' = "IDLE" /\ smTask' = NoTask /\ UNCHANGED smReason
  ELSE UNCHANGED smVars

(* Mutant: the task id survives its failure.                               *)
OnErrorKeepsTask(reason) ==
  IF smState = "IDLE" /\ smTask = NoTask
  THEN UNCHANGED smVars
  ELSE smState' = "ERROR" /\ smReason' = reason /\ UNCHANGED smTask

(* An error is spurious in IDLE with no task, and only updates the reason  *)
(* of a machine already in ERROR.                                          *)
OnError(reason) ==
  IF smState = "IDLE" /\ smTask = NoTask
  THEN UNCHANGED smVars
  ELSE /\ smState' = "ERROR"
       /\ smTask' = IF smState = "ERROR" THEN smTask ELSE NoTask
       /\ smReason' = reason

OnRecover ==
  IF smState = "ERROR"
  THEN smState' = "IDLE" /\ smReason' = NoReason /\ UNCHANGED smTask
  ELSE UNCHANGED smVars

Next ==
  \/ \E t \in Task : OnNavigate(t)
  \/ OnNavigateAccepted
  \/ OnSuccess
  \/ \E r \in Reason : OnError(r)
  \/ OnRecover

Spec == Init /\ [][Next]_smVars

(***************************************************************************)
(* The three members agree whatever order the triggers come in: a robot    *)
(* that navigates has a task, one in error has none and has a reason, and  *)
(* no reason outlives the error (RobotStateMachine.cpp:20-142).            *)
(***************************************************************************)
Consistent ==
  /\ smState = "NAVIGATING" => smTask # NoTask
  /\ smState = "ERROR" => smTask = NoTask
  /\ smState = "ERROR" <=> smReason # NoReason
=============================================================================
