---------------------------- MODULE FleetAdapter ----------------------------
(***************************************************************************)
(* One robot of the fleet adapter node: the callbacks it registers with    *)
(* RMF's EasyFullControl and its client of the NavigateRobot action.       *)
(*                                                                         *)
(* Two threads run this code.  RMF's worker thread makes the callbacks     *)
(* (navigate, stop, custom action), one at a time; the ROS executor thread *)
(* takes the goal results and the lane closures (RMFHandler.hpp:24-26).    *)
(* A callback of the worker is a step per access to shared state, because  *)
(* the executor may come in between.  The executor's result and lane       *)
(* callbacks hold goal_handle_mtx from their first access to their last,   *)
(* so each is one step; its feedback and pose callbacks read               *)
(* current_activity without the mutex, but change nothing.                 *)
(*                                                                         *)
(* The other end of the action is NavigationGoals, which ManagedRobot      *)
(* implements.  Goal requests of one client arrive in the order they were  *)
(* sent.  The manager is a process of its own that may crash, here once,   *)
(* and be started again; what was in flight and what it knew is then gone. *)
(* Or its executor thread hangs in the acceptance of a goal, and the       *)
(* manager lives on without taking or answering anything.                  *)
(***************************************************************************)
EXTENDS RobotTasks, Integers, Sequences

CONSTANTS
  Action,              \* identifiers of RMF's custom actions
  GoToPlaceSupported   \* "go_to_place" is one of the supported_tasks

ASSUME ActionAssumption == Action \cap TaskOrNone = {}
ASSUME GoToPlaceAssumption == GoToPlaceSupported \in BOOLEAN

VARIABLES
  registered,       \* registered: RMF has the robot's callbacks
  awaited,          \* the execution RMF waits for
  execution,        \* each execution: "none", "issued", "finished"
  callback,         \* where RMF's worker is, by its next access
  dest,             \* the execution its navigate callback was given
  currentActivity,  \* current_activity
  activeTask,       \* RMFHandler's active_task_id
  clientHandle,     \* current_goal_handle
  requests,         \* goal requests on their way to the manager
  manager,          \* the manager process: "up", "down", "restarted"
  executorBlocked,  \* its executor thread hangs, see NavController
  goalStatus, nav2Outcome   \* the action server, see NavigationGoals

Goals == INSTANCE NavigationGoals

rmfVars     == <<awaited, execution>>
workerVars  == <<callback, dest>>
sharedVars  == <<currentActivity, activeTask, clientHandle>>
channelVars == <<requests, manager, executorBlocked>>
goalVars    == <<goalStatus, nav2Outcome>>
vars == <<registered, rmfVars, workerVars, sharedVars, channelVars, goalVars>>

NavigateStep == {"store", "validate", "send"}
StopStep     == {"stop_store", "stop_clear", "stop_cancel"}
ActionStep   == {"action_store", "action_finish"}

TypeOK ==
  /\ registered \in BOOLEAN
  /\ awaited \in TaskOrNone
  /\ execution \in [Task -> {"none", "issued", "finished"}]
  /\ callback \in {"idle"} \cup NavigateStep \cup StopStep \cup ActionStep
  /\ dest \in TaskOrNone
  /\ currentActivity \in TaskOrNone \cup Action
  /\ activeTask \in TaskOrNone
  /\ clientHandle \in TaskOrNone
  /\ requests \in Seq(Task)
  /\ manager \in {"up", "down", "restarted"}
  /\ executorBlocked \in BOOLEAN
  /\ goalStatus \in [Task -> {"UNKNOWN", "EXECUTING", "CANCELING", "SUCCEEDED",
                              "ABORTED", "LOST"}]
  /\ nav2Outcome \in [Task -> {"none", "reached", "failed"}]

Init ==
  /\ registered = FALSE
  /\ awaited = NoTask
  /\ execution = [t \in Task |-> "none"]
  /\ callback = "idle"
  /\ dest = NoTask
  /\ currentActivity = NoTask
  /\ activeTask = NoTask
  /\ clientHandle = NoTask
  /\ requests = <<>>
  /\ manager = "up"
  /\ executorBlocked = FALSE
  /\ Goals!Init

(* The end of check_registration for this robot.                           *)
Register ==
  /\ ~registered
  /\ manager # "down"
  /\ registered' = TRUE
  /\ UNCHANGED <<rmfVars, workerVars, sharedVars, channelVars, goalVars>>

(***************************************************************************)
(* The navigate callback: current_activity, then on_navigate, then the     *)
(* goal.  RMF may give a new destination while it waits for an earlier     *)
(* execution, which it then no longer waits for.                           *)
(***************************************************************************)
RmfNavigates(t) ==
  /\ registered
  /\ callback = "idle"
  /\ execution[t] = "none"
  /\ execution' = [execution EXCEPT ![t] = "issued"]
  /\ awaited' = t
  /\ callback' = "store"
  /\ dest' = t
  /\ UNCHANGED <<registered, sharedVars, channelVars, goalVars>>

StoreActivity ==
  /\ callback = "store"
  /\ callback' = "validate"
  /\ currentActivity' = dest
  /\ UNCHANGED <<registered, rmfVars, dest, activeTask, clientHandle,
                 channelVars, goalVars>>

(* RMFHandler::on_navigate.  A rejected execution is dropped.              *)
OnNavigate ==
  /\ callback = "validate"
  /\ IF GoToPlaceSupported
     THEN callback' = "send" /\ activeTask' = dest /\ UNCHANGED dest
     ELSE callback' = "idle" /\ activeTask' = NoTask /\ dest' = NoTask
  /\ UNCHANGED <<registered, rmfVars, currentActivity, clientHandle,
                 channelVars, goalVars>>

(* Mutant: the last request overtakes those before it.                     *)
SendGoalFirst ==
  /\ callback = "send"
  /\ callback' = "idle"
  /\ dest' = NoTask
  /\ requests' = IF manager = "down" THEN requests ELSE <<dest>> \o requests
  /\ UNCHANGED <<registered, rmfVars, sharedVars, manager, executorBlocked,
                 goalVars>>

(* Mutant: no goal is sent while a request is on its way.                  *)
SendGoalIfNone ==
  /\ callback = "send"
  /\ callback' = "idle"
  /\ dest' = NoTask
  /\ requests' = IF manager = "down" \/ requests # <<>> THEN requests
                 ELSE Append(requests, dest)
  /\ UNCHANGED <<registered, rmfVars, sharedVars, manager, executorBlocked,
                 goalVars>>

(* async_send_goal.  A request that finds no server is lost.               *)
SendGoal ==
  /\ callback = "send"
  /\ callback' = "idle"
  /\ dest' = NoTask
  /\ requests' = IF manager = "down" THEN requests ELSE Append(requests, dest)
  /\ UNCHANGED <<registered, rmfVars, sharedVars, manager, executorBlocked,
                 goalVars>>

(***************************************************************************)
(* The stop callback: current_activity, then on_stop, then the cancel of   *)
(* the goal whose handle is stored.                                        *)
(***************************************************************************)
RmfStops ==
  /\ callback = "idle"
  /\ awaited # NoTask
  /\ awaited' = NoTask
  /\ callback' = "stop_store"
  /\ UNCHANGED <<registered, execution, dest, sharedVars, channelVars, goalVars>>

(* Mutant: stop leaves the activity to the result callback.                *)
StopStoreSkipped ==
  /\ callback = "stop_store"
  /\ callback' = "stop_clear"
  /\ UNCHANGED <<registered, rmfVars, dest, sharedVars, channelVars, goalVars>>

StopStore ==
  /\ callback = "stop_store"
  /\ callback' = "stop_clear"
  /\ currentActivity' = NoTask
  /\ UNCHANGED <<registered, rmfVars, dest, activeTask, clientHandle,
                 channelVars, goalVars>>

OnStop ==
  /\ callback = "stop_clear"
  /\ callback' = "stop_cancel"
  /\ activeTask' = NoTask
  /\ UNCHANGED <<registered, rmfVars, dest, currentActivity, clientHandle,
                 channelVars, goalVars>>

CancelStoredGoal ==
  /\ goalStatus' = [t \in Task |->
       IF t = clientHandle /\ goalStatus[t] = "EXECUTING" /\ ~executorBlocked
       THEN "CANCELING" ELSE goalStatus[t]]
  /\ clientHandle' = NoTask
  /\ UNCHANGED nav2Outcome

StopCancel ==
  /\ callback = "stop_cancel"
  /\ callback' = "idle"
  /\ CancelStoredGoal
  /\ UNCHANGED <<registered, rmfVars, dest, currentActivity, activeTask,
                 channelVars>>

(***************************************************************************)
(* The action_executor callback.  RMF asks for a custom action when it     *)
(* waits for no destination; whatever its category, it is finished at once.*)
(***************************************************************************)
RmfActs ==
  /\ registered
  /\ callback = "idle"
  /\ awaited = NoTask
  /\ callback' = "action_store"
  /\ UNCHANGED <<registered, rmfVars, dest, sharedVars, channelVars, goalVars>>

ActionStore ==
  /\ callback = "action_store"
  /\ callback' = "action_finish"
  /\ \E a \in Action : currentActivity' = a
  /\ UNCHANGED <<registered, rmfVars, dest, activeTask, clientHandle,
                 channelVars, goalVars>>

HandleCustomAction ==
  /\ callback = "action_finish"
  /\ callback' = "idle"
  /\ currentActivity' = NoTask
  /\ UNCHANGED <<registered, rmfVars, dest, activeTask, clientHandle,
                 channelVars, goalVars>>

(***************************************************************************)
(* The executor thread.  The result callback finishes its own execution,   *)
(* whatever the result, and clears the handle and the activity, whosever   *)
(* they are.                                                               *)
(***************************************************************************)
Answer(t) == goalStatus[t] \in {"SUCCEEDED", "ABORTED"}

(* Mutant: a failed goal does not finish its execution.                    *)
ResultOnlySuccess(t) ==
  /\ execution[t] = "issued"
  /\ Answer(t)
  /\ execution' = IF goalStatus[t] = "ABORTED" THEN execution
                  ELSE [execution EXCEPT ![t] = "finished"]
  /\ awaited' = IF awaited = t THEN NoTask ELSE awaited
  /\ clientHandle' = NoTask
  /\ currentActivity' = NoTask
  /\ UNCHANGED <<registered, workerVars, activeTask, channelVars, goalVars>>

Result(t) ==
  /\ execution[t] = "issued"
  /\ Answer(t)
  /\ execution' = [execution EXCEPT ![t] = "finished"]
  /\ awaited' = IF awaited = t THEN NoTask ELSE awaited
  /\ clientHandle' = NoTask
  /\ currentActivity' = NoTask
  /\ UNCHANGED <<registered, workerVars, activeTask, channelVars, goalVars>>

(* Mutant: a lane closure interrupts the activity as well.                 *)
LaneClosedInterrupts ==
  /\ CancelStoredGoal
  /\ currentActivity' = NoTask
  /\ UNCHANGED <<registered, rmfVars, workerVars, activeTask, channelVars>>

(* The lane_closed subscription, told that a lane closed.                  *)
LaneClosed ==
  /\ CancelStoredGoal
  /\ UNCHANGED <<registered, rmfVars, workerVars, currentActivity, activeTask,
                 channelVars>>

(***************************************************************************)
(* The manager.  Any ROS client may ask its action server for a cancel.    *)
(***************************************************************************)
Serves == manager # "down" /\ ~executorBlocked

(* Nav2 has not answered for a goal that this manager accepted; what a     *)
(* restarted manager asked of Nav2 is not told from what was lost.         *)
Nav2Busy ==
  /\ manager = "up"
  /\ \E t \in Task : goalStatus[t] # "UNKNOWN" /\ nav2Outcome[t] = "none"

(* Nav2Handler refuses a goal while Nav2 is busy with another one, or when *)
(* Nav2's server is away; the goal is accepted all the same, and the       *)
(* refusal hangs the thread.                                               *)
AcceptGoal ==
  /\ Serves
  /\ requests # <<>>
  /\ Goals!Accept(Head(requests))
  /\ requests' = Tail(requests)
  /\ executorBlocked' \in {Nav2Busy, TRUE}
  /\ UNCHANGED <<registered, rmfVars, workerVars, sharedVars, manager>>

EndGoal(t) == Goals!Fail(t) \/ Goals!Succeed(t) \/ Goals!GiveUp(t)

WorkOnGoal(t) ==
  /\ Serves
  /\ Goals!Cancel(t) \/ Goals!Reach(t) \/ EndGoal(t)
  /\ UNCHANGED <<registered, rmfVars, workerVars, sharedVars, channelVars>>

ManagerCrash ==
  /\ manager = "up"
  /\ manager' = "down"
  /\ executorBlocked' = FALSE
  /\ requests' = <<>>
  /\ goalStatus' = [t \in Task |->
       IF goalStatus[t] # "UNKNOWN" /\ execution[t] = "issued" THEN "LOST"
                                                              ELSE goalStatus[t]]
  /\ UNCHANGED <<registered, rmfVars, workerVars, sharedVars, nav2Outcome>>

ManagerRestart ==
  /\ manager = "down"
  /\ manager' = "restarted"
  /\ UNCHANGED <<registered, rmfVars, workerVars, sharedVars, requests,
                 executorBlocked, goalVars>>

(***************************************************************************)
(* The specification.                                                      *)
(***************************************************************************)
Worker ==
  \/ StoreActivity \/ OnNavigate \/ SendGoal
  \/ StopStore \/ OnStop \/ StopCancel
  \/ ActionStore \/ HandleCustomAction

Executor ==
  \/ \E t \in Task : Result(t)
  \/ LaneClosed

Manager ==
  \/ AcceptGoal
  \/ \E t \in Task : WorkOnGoal(t)
  \/ ManagerCrash
  \/ ManagerRestart

Next ==
  \/ Register
  \/ \E t \in Task : RmfNavigates(t)
  \/ RmfStops
  \/ RmfActs
  \/ Worker
  \/ Executor
  \/ Manager

Spec == Init /\ [][Next]_vars

(* The threads of the adapter run.  A manager that does not hang takes     *)
(* requests, answers each goal and delivers the answer, which is what      *)
(* GoalsAnsweredUnlessHung of ManagedRobot says of it.  Nothing is asked   *)
(* of a manager that hangs, of RMF, of crashes or of a restart.            *)
Fairness ==
  /\ WF_vars(Worker)
  /\ WF_vars(AcceptGoal)
  /\ \A t \in Task :
       /\ WF_vars(~executorBlocked /\ Result(t))
       /\ WF_vars(Serves /\ EndGoal(t)
                  /\ UNCHANGED <<registered, rmfVars, workerVars, sharedVars,
                                 channelVars>>)

FairSpec == Spec /\ Fairness

(***************************************************************************)
(* Properties.                                                             *)
(***************************************************************************)

(* Between callbacks, the activity that telemetry is reported under is     *)
(* the one RMF waits for, or none: never one that RMF has replaced,        *)
(* stopped or been told the end of (FleetAdapter.cpp:290-295, 351, 393,    *)
(* 419, 436, 489).                                                         *)
ActivityIsCurrent ==
  callback = "idle" => currentActivity \in {NoTask, awaited}

(* An awaited execution loses its activity to the late result of an        *)
(* earlier one and to nothing else (FleetAdapter.cpp:389-411).             *)
LateResult ==
  \E t \in Task : t # awaited /\ execution[t] = "issued" /\ execution'[t] = "finished"

ActivityLostToLateResultOnly ==
  [][callback = "idle" /\ awaited' = awaited /\ currentActivity' # currentActivity
       => LateResult]_vars

(* Once the requests are delivered, the manager works for the execution    *)
(* RMF waits for, never for one it replaced or stopped before it           *)
(* (FleetAdapter.cpp:349-414, FleetManagerNode.cpp:248-268).               *)
ManagerWorksForAwaited ==
  awaited # NoTask /\ callback = "idle" /\ requests = <<>>
    => \A t \in Task : Goals!Live(t) => t = awaited

(* No execution is forgotten: as long as the manager does not crash, even  *)
(* when it hangs, one that RMF was not told the end of is in the navigate  *)
(* callback, on its way to the manager, at work there, or answered, and    *)
(* then its result is still to be taken; stops, replacements and closed    *)
(* lanes do not matter (FleetAdapter.cpp:349-428, 496-513).                *)
OnItsWay(t) == \E i \in 1 .. Len(requests) : requests[i] = t

ExecutionsAreServed ==
  manager = "up" /\ GoToPlaceSupported =>
    \A t \in Task : execution[t] = "issued" =>
      \/ callback \in NavigateStep /\ dest = t
      \/ OnItsWay(t) \/ Goals!Live(t) \/ Answer(t)

(* What every step preserves.  While the worker is in the navigate         *)
(* callback, the execution it was given is the awaited one and is not sent *)
(* yet; after it, the last request on its way is that of the awaited       *)
(* execution, or else the live goal is (FleetAdapter.cpp:349-428).         *)
InNavigate == callback \in NavigateStep

DestIsAwaited ==
  InNavigate =>
    /\ dest \in Task
    /\ awaited = dest
    /\ execution[dest] = "issued"
    /\ goalStatus[dest] = "UNKNOWN"
    /\ \A i \in 1 .. Len(requests) : requests[i] # dest

ActivityIsCurrentOnceStored ==
  callback \in {"idle", "validate", "send", "stop_clear", "stop_cancel"}
    => currentActivity \in {NoTask, awaited}

GoalsFollowExecutions ==
  /\ \A i \in 1 .. Len(requests) : execution[requests[i]] # "none"
  /\ \A t \in Task : execution[t] = "none" => goalStatus[t] = "UNKNOWN"
  /\ \A t \in Task : execution[t] = "finished" => Answer(t)

NothingAtDeadManager ==
  manager = "down" => requests = <<>> /\ \A t \in Task : ~Goals!Live(t)

NothingSentIfUnsupported ==
  ~GoToPlaceSupported =>
    requests = <<>> /\ callback # "send" /\ \A t \in Task : ~Goals!Live(t)

LastRequestIsAwaited ==
  ~InNavigate /\ awaited # NoTask =>
    IF requests # <<>> THEN requests[Len(requests)] = awaited
    ELSE \A t \in Task : Goals!Live(t) => t = awaited

InductiveInvariant ==
  /\ TypeOK
  /\ DestIsAwaited
  /\ ActivityIsCurrentOnceStored
  /\ GoalsFollowExecutions
  /\ NothingAtDeadManager
  /\ NothingSentIfUnsupported
  /\ LastRequestIsAwaited

(* Whatever RMF, an obstacle or a failed goal does, every execution whose  *)
(* goal is sent is finished, unless the manager it was sent to crashes or  *)
(* hangs: a failed, stopped or displaced goal as well.  A goal that is     *)
(* displaced while Nav2 works on it always hangs the manager, and neither  *)
(* it nor its successor is promised anything (FleetAdapter.cpp:387-413,    *)
(* NavController.cpp:111, 235, 455).                                       *)
SentGoalsFinish ==
  \A t \in Task, m \in {"up", "restarted"} :
    callback = "send" /\ dest = t /\ manager = m
      ~> execution[t] = "finished" \/ manager # m \/ executorBlocked
=============================================================================
