--------------------------- MODULE NavigationGoals ---------------------------
(***************************************************************************)
(* What the NavigateRobot action of one robot promises its client, the     *)
(* fleet adapter, told without controller, client or state machine: every  *)
(* goal is accepted, a newer goal takes the place of an older one, a goal  *)
(* succeeds only when Nav2 reached its target, and it is aborted only when *)
(* it was displaced, when Nav2 failed on it, or when its cancellation was  *)
(* asked for.                                                              *)
(***************************************************************************)
EXTENDS RobotTasks

VARIABLES
  goalStatus,   \* the status of each goal of the action server
  nav2Outcome   \* how Nav2 answered for each goal

goalVars == <<goalStatus, nav2Outcome>>

Live(t) == goalStatus[t] \in {"EXECUTING", "CANCELING"}

Init ==
  /\ goalStatus = [t \in Task |-> "UNKNOWN"]
  /\ nav2Outcome = [t \in Task |-> "none"]

Accept(t) ==
  /\ goalStatus[t] = "UNKNOWN"
  /\ goalStatus' = [u \in Task |-> IF u = t THEN "EXECUTING"
                                   ELSE IF Live(u) THEN "ABORTED"
                                   ELSE goalStatus[u]]
  /\ UNCHANGED nav2Outcome

Cancel(t) ==
  /\ goalStatus[t] = "EXECUTING"
  /\ goalStatus' = [goalStatus EXCEPT ![t] = "CANCELING"]
  /\ UNCHANGED nav2Outcome

(* Nav2 may still answer for a goal that was given up.                     *)
Reach(t) ==
  /\ goalStatus[t] # "UNKNOWN"
  /\ nav2Outcome[t] = "none"
  /\ nav2Outcome' = [nav2Outcome EXCEPT ![t] = "reached"]
  /\ UNCHANGED goalStatus

Fail(t) ==
  /\ goalStatus[t] # "UNKNOWN"
  /\ nav2Outcome[t] = "none"
  /\ nav2Outcome' = [nav2Outcome EXCEPT ![t] = "failed"]
  /\ goalStatus' = IF Live(t) THEN [goalStatus EXCEPT ![t] = "ABORTED"]
                              ELSE goalStatus

Succeed(t) ==
  /\ Live(t)
  /\ nav2Outcome[t] = "reached"
  /\ goalStatus' = [goalStatus EXCEPT ![t] = "SUCCEEDED"]
  /\ UNCHANGED nav2Outcome

GiveUp(t) ==
  /\ goalStatus[t] = "CANCELING"
  /\ goalStatus' = [goalStatus EXCEPT ![t] = "ABORTED"]
  /\ UNCHANGED nav2Outcome

Next == \E t \in Task : \/ Accept(t) \/ Cancel(t)
                        \/ Reach(t) \/ Fail(t)
                        \/ Succeed(t) \/ GiveUp(t)

Spec == Init /\ [][Next]_goalVars

(***************************************************************************)
(* What a client may rely on: it never has two goals at work, a success    *)
(* is an arrival, and no answer is taken back                              *)
(* (FleetManagerNode.cpp:159-182, 248-268).                                *)
(***************************************************************************)
TypeOK ==
  /\ goalStatus \in [Task -> {"UNKNOWN", "EXECUTING", "CANCELING", "SUCCEEDED", "ABORTED"}]
  /\ nav2Outcome \in [Task -> {"none", "reached", "failed"}]

OneLiveGoal == \A t, u \in Task : Live(t) /\ Live(u) => t = u

SuccessIsArrival ==
  \A t \in Task : goalStatus[t] = "SUCCEEDED" => nav2Outcome[t] = "reached"

AnswersFinal ==
  [][\A t \in Task : goalStatus[t] \in {"SUCCEEDED", "ABORTED"}
                       => goalStatus'[t] = goalStatus[t]]_goalVars
=============================================================================
