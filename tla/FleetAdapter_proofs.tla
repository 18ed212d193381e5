------------------------- MODULE FleetAdapter_proofs -------------------------
(***************************************************************************)
(* Proofs about FleetAdapter: its inductive invariant is preserved by each *)
(* step, and with it the activity reported to RMF is the awaited one and   *)
(* the manager works for the awaited execution.  At the end the adapter    *)
(* and ManagedRobot are put together.                                      *)
(***************************************************************************)
EXTENDS FleetAdapter, TLAPS

USE NoTaskAssumption, ActionAssumption, GoToPlaceAssumption
    DEF TaskOrNone, NavigateStep, StopStep, ActionStep, rmfVars, workerVars,
        sharedVars, channelVars, goalVars

(* Every step of RMF or of its worker that sends nothing leaves the goals  *)
(* and the requests alone.                                                 *)
LEMMA RmfStep ==
  ASSUME InductiveInvariant,
         \/ Register
         \/ \E t \in Task : RmfNavigates(t)
         \/ RmfStops
         \/ RmfActs
  PROVE  InductiveInvariant'
<1> USE DEF InductiveInvariant, TypeOK, DestIsAwaited, InNavigate,
            ActivityIsCurrentOnceStored, GoalsFollowExecutions,
            NothingAtDeadManager, NothingSentIfUnsupported,
            LastRequestIsAwaited, Goals!Live, Answer
<1>1. CASE Register
  BY <1>1 DEF Register
<1>2. ASSUME NEW t \in Task, RmfNavigates(t) PROVE InductiveInvariant'
  BY <1>2 DEF RmfNavigates
<1>3. CASE RmfStops
  BY <1>3 DEF RmfStops
<1>4. CASE RmfActs
  BY <1>4 DEF RmfActs
<1>5. QED
  BY <1>1, <1>2, <1>3, <1>4

LEMMA WorkerStep ==
  ASSUME InductiveInvariant, Worker
  PROVE  InductiveInvariant'
<1> USE DEF InductiveInvariant, TypeOK, DestIsAwaited, InNavigate,
            ActivityIsCurrentOnceStored, GoalsFollowExecutions,
            NothingAtDeadManager, NothingSentIfUnsupported,
            LastRequestIsAwaited, Goals!Live, Answer
<1>1. CASE StoreActivity
  BY <1>1 DEF StoreActivity
<1>2. CASE OnNavigate
  BY <1>2 DEF OnNavigate
<1>3. CASE SendGoal
  BY <1>3 DEF SendGoal
<1>4. CASE StopStore
  BY <1>4 DEF StopStore
<1>5. CASE OnStop
  BY <1>5 DEF OnStop
<1>6. CASE StopCancel
  BY <1>6 DEF StopCancel, CancelStoredGoal
<1>7. CASE ActionStore
  BY <1>7 DEF ActionStore
<1>8. CASE HandleCustomAction
  BY <1>8 DEF HandleCustomAction
<1>9. QED
  BY <1>1, <1>2, <1>3, <1>4, <1>5, <1>6, <1>7, <1>8 DEF Worker

LEMMA ExecutorStep ==
  ASSUME InductiveInvariant, Executor
  PROVE  InductiveInvariant'
<1> USE DEF InductiveInvariant, TypeOK, DestIsAwaited, InNavigate,
            ActivityIsCurrentOnceStored, GoalsFollowExecutions,
            NothingAtDeadManager, NothingSentIfUnsupported,
            LastRequestIsAwaited, Goals!Live, Answer
<1>1. ASSUME NEW t \in Task, Result(t) PROVE InductiveInvariant'
  BY <1>1 DEF Result
<1>2. CASE LaneClosed
  BY <1>2 DEF LaneClosed, CancelStoredGoal
<1>3. QED
  BY <1>1, <1>2 DEF Executor

LEMMA ManagerStep ==
  ASSUME InductiveInvariant, Manager
  PROVE  InductiveInvariant'
<1> USE DEF InductiveInvariant, TypeOK, DestIsAwaited, InNavigate,
            ActivityIsCurrentOnceStored, GoalsFollowExecutions,
            NothingAtDeadManager, NothingSentIfUnsupported,
            LastRequestIsAwaited, Goals!Live, Answer
<1>1. CASE AcceptGoal
  <2> DEFINE head == Head(requests)
  <2>1. /\ requests \in Seq(Task)
        /\ requests # <<>>
        /\ requests' = Tail(requests)
        /\ manager # "down"
        /\ goalStatus[head] = "UNKNOWN"
        /\ goalStatus' = [u \in Task |-> IF u = head THEN "EXECUTING"
                                         ELSE IF Goals!Live(u) THEN "ABORTED"
                                         ELSE goalStatus[u]]
        /\ executorBlocked' \in BOOLEAN
        /\ UNCHANGED <<registered, rmfVars, workerVars, sharedVars, manager,
                       nav2Outcome>>
    BY <1>1 DEF AcceptGoal, Serves, Nav2Busy, Goals!Accept
  <2>2. /\ head \in Task
        /\ head = requests[1]
        /\ Len(requests) \in Nat \ {0}
        /\ Tail(requests) \in Seq(Task)
        /\ Len(Tail(requests)) = Len(requests) - 1
        /\ \A i \in 1 .. Len(requests) - 1 : Tail(requests)[i] = requests[i + 1]
    BY <2>1
  <2> HIDE DEF head
  <2>3. TypeOK'
    BY <2>1, <2>2
  <2>4. DestIsAwaited'
    BY <2>1, <2>2
  <2>5. ActivityIsCurrentOnceStored'
    BY <2>1
  <2>6. GoalsFollowExecutions'
    BY <2>1, <2>2
  <2>7. NothingAtDeadManager'
    BY <2>1
  <2>8. NothingSentIfUnsupported'
    BY <2>1
  <2>9. LastRequestIsAwaited'
    <3>1. CASE Len(requests) = 1
      BY <3>1, <2>1, <2>2
    <3>2. CASE Len(requests) # 1
      <4>1. /\ requests' # <<>>
            /\ requests'[Len(requests')] = requests[Len(requests)]
        <5>1. Len(requests) - 1 \in 1 .. Len(requests) - 1
          BY <3>2, <2>2
        <5>2. Tail(requests)[Len(requests) - 1] = requests[Len(requests)]
          BY <5>1, <2>2
        <5>3. Tail(requests) # <<>>
          <6>1. Len(<<>>) = 0
            OBVIOUS
          <6>2. Len(Tail(requests)) # 0
            BY <5>1, <2>2
          <6>3. QED
            BY <6>1, <6>2
        <5>4. QED
          BY <5>2, <5>3, <2>1, <2>2
      <4>2. QED
        BY <4>1, <2>1
    <3>3. QED
      BY <3>1, <3>2
  <2>10. QED
    BY <2>3, <2>4, <2>5, <2>6, <2>7, <2>8, <2>9
<1>2. ASSUME NEW t \in Task, WorkOnGoal(t) PROVE InductiveInvariant'
  BY <1>2 DEF WorkOnGoal, Serves, EndGoal, Goals!Cancel, Goals!Reach, Goals!Fail,
              Goals!Succeed, Goals!GiveUp
<1>3. CASE ManagerCrash
  <2>1. requests' \in Seq(Task) /\ Len(requests') = 0
    BY <1>3 DEF ManagerCrash
  <2>2. TypeOK'
    BY <1>3, <2>1 DEF ManagerCrash
  <2>3. DestIsAwaited' /\ ActivityIsCurrentOnceStored' /\ GoalsFollowExecutions'
    BY <1>3, <2>1 DEF ManagerCrash
  <2>4. NothingAtDeadManager' /\ NothingSentIfUnsupported' /\ LastRequestIsAwaited'
    BY <1>3, <2>1 DEF ManagerCrash
  <2> QED
    BY <2>2, <2>3, <2>4
<1>4. CASE ManagerRestart
  BY <1>4 DEF ManagerRestart
<1>5. QED
  BY <1>1, <1>2, <1>3, <1>4 DEF Manager

(* The invariant holds in every reachable state (FleetAdapter.cpp:349-462). *)
THEOREM AdapterInvariant == Spec => []InductiveInvariant
<1>1. Init => InductiveInvariant
  <2> SUFFICES ASSUME Init
               PROVE  InductiveInvariant
    OBVIOUS
  <2>1. TypeOK
    <3>1. requests \in Seq(Task)
      BY DEF Init
    <3>2. /\ execution \in [Task -> {"none", "issued", "finished"}]
          /\ goalStatus \in [Task -> {"UNKNOWN", "EXECUTING", "CANCELING",
                                      "SUCCEEDED", "ABORTED", "LOST"}]
          /\ nav2Outcome \in [Task -> {"none", "reached", "failed"}]
      BY DEF Init, Goals!Init
    <3>3. QED
      BY <3>1, <3>2 DEF Init, TypeOK
  <2>2. Len(requests) = 0
    BY DEF Init
  <2>3. DestIsAwaited /\ ActivityIsCurrentOnceStored
    BY DEF Init, DestIsAwaited, InNavigate, ActivityIsCurrentOnceStored
  <2>4. GoalsFollowExecutions
    BY <2>2 DEF Init, Goals!Init, GoalsFollowExecutions
  <2>5. NothingAtDeadManager /\ NothingSentIfUnsupported /\ LastRequestIsAwaited
    BY DEF Init, Goals!Init, NothingAtDeadManager, NothingSentIfUnsupported,
           LastRequestIsAwaited, Goals!Live
  <2>6. QED
    BY <2>1, <2>3, <2>4, <2>5 DEF InductiveInvariant
<1>2. InductiveInvariant /\ [Next]_vars => InductiveInvariant'
  <2> SUFFICES ASSUME InductiveInvariant, [Next]_vars
               PROVE  InductiveInvariant'
    OBVIOUS
  <2>1. CASE Next
    BY <2>1, RmfStep, WorkerStep, ExecutorStep, ManagerStep DEF Next
  <2>2. CASE UNCHANGED vars
    BY <2>2 DEF vars, InductiveInvariant, TypeOK, DestIsAwaited, InNavigate,
                ActivityIsCurrentOnceStored, GoalsFollowExecutions,
                NothingAtDeadManager, NothingSentIfUnsupported,
                LastRequestIsAwaited, Goals!Live, Answer
  <2>3. QED
    BY <2>1, <2>2
<1>3. QED
  BY <1>1, <1>2, PTL DEF Spec

(* Between callbacks, the activity reported to RMF is the awaited one or   *)
(* none, for every number of tasks and actions and whether or not          *)
(* go_to_place is supported (FleetAdapter.cpp:290-295, 349-428).           *)
THEOREM AdapterReportsAwaited == Spec => []ActivityIsCurrent
<1>1. InductiveInvariant => ActivityIsCurrent
  BY DEF InductiveInvariant, ActivityIsCurrentOnceStored, ActivityIsCurrent
<1>2. QED
  BY <1>1, AdapterInvariant, PTL

(* Once the requests are delivered, the manager works for the execution    *)
(* RMF waits for and for no other, through stops, replacements, a crash    *)
(* and a restart (FleetAdapter.cpp:349-414, FleetManagerNode.cpp:248-268). *)
THEOREM AdapterManagerWorksForAwaited == Spec => []ManagerWorksForAwaited
<1>1. InductiveInvariant => ManagerWorksForAwaited
  BY DEF InductiveInvariant, LastRequestIsAwaited, InNavigate,
         ManagerWorksForAwaited
<1>2. QED
  BY <1>1, AdapterInvariant, PTL

(* Every variable keeps its type, for any number of requests on their way. *)
THEOREM AdapterTypeOK == Spec => []TypeOK
<1>1. InductiveInvariant => TypeOK
  BY DEF InductiveInvariant
<1>2. QED
  BY <1>1, AdapterInvariant, PTL

(* An awaited execution loses its activity to the late result of an        *)
(* earlier one and to nothing else (FleetAdapter.cpp:351, 388-411).        *)
THEOREM AdapterActivityLost == Spec => ActivityLostToLateResultOnly
<1>1. ASSUME InductiveInvariant, [Next]_vars, callback = "idle",
             awaited' = awaited, currentActivity' # currentActivity
      PROVE  LateResult
  <2>1. PICK t \in Task : Result(t)
    <3>1. CASE Register \/ RmfStops \/ RmfActs \/ \E t \in Task : RmfNavigates(t)
      BY <1>1, <3>1 DEF Register, RmfStops, RmfActs, RmfNavigates
    <3>2. CASE Worker
      BY <1>1, <3>2 DEF Worker, StoreActivity, OnNavigate, SendGoal, StopStore,
                        OnStop, StopCancel, ActionStore, HandleCustomAction
    <3>3. CASE Manager
      BY <1>1, <3>3 DEF Manager, AcceptGoal, WorkOnGoal, ManagerCrash, ManagerRestart
    <3>4. CASE LaneClosed
      BY <1>1, <3>4 DEF LaneClosed
    <3>5. CASE UNCHANGED vars
      BY <1>1, <3>5 DEF vars
    <3>6. QED
      BY <1>1, <3>1, <3>2, <3>3, <3>4, <3>5 DEF Next, Executor
  <2>2. t # awaited
    BY <1>1, <2>1 DEF Result
  <2>3. execution[t] = "issued" /\ execution'[t] = "finished"
    BY <1>1, <2>1 DEF Result, InductiveInvariant, TypeOK
  <2>4. QED
    BY <2>2, <2>3 DEF LateResult
<1>2. InductiveInvariant /\ [Next]_vars =>
        [callback = "idle" /\ awaited' = awaited /\ currentActivity' # currentActivity
           => LateResult]_vars
  BY <1>1
<1>3. QED
  BY <1>2, AdapterInvariant, PTL DEF Spec, ActivityLostToLateResultOnly

(***************************************************************************)
(* No execution is forgotten.                                              *)
(***************************************************************************)
Served(t) ==
  \/ callback \in NavigateStep /\ dest = t
  \/ OnItsWay(t) \/ Goals!Live(t) \/ Answer(t)

(* Taking the first request off the channel leaves the others on it.       *)
LEMMA TailKeepsOthers ==
  ASSUME requests \in Seq(Task), requests # <<>>, requests' = Tail(requests),
         NEW t \in Task, OnItsWay(t), t # Head(requests)
  PROVE  OnItsWay(t)'
<1>1. PICK i \in 1 .. Len(requests) : requests[i] = t
  BY DEF OnItsWay
<1>2. /\ Len(requests) \in Nat \ {0}
      /\ Head(requests) = requests[1]
      /\ Len(Tail(requests)) = Len(requests) - 1
      /\ \A k \in 1 .. Len(requests) - 1 : Tail(requests)[k] = requests[k + 1]
  OBVIOUS
<1>3. i # 1 /\ i - 1 \in 1 .. Len(requests) - 1
  BY <1>1, <1>2
<1>4. Tail(requests)[i - 1] = t /\ i - 1 \in 1 .. Len(Tail(requests))
  BY <1>1, <1>2, <1>3
<1> QED
  BY <1>4 DEF OnItsWay

(* A new request comes after those on their way.                           *)
LEMMA AppendKeepsAll ==
  ASSUME requests \in Seq(Task), NEW d \in Task, requests' = Append(requests, d),
         NEW t \in Task, OnItsWay(t) \/ t = d
  PROVE  OnItsWay(t)'
<1>1. /\ Len(requests) \in Nat
      /\ Len(requests') = Len(requests) + 1
      /\ requests'[Len(requests) + 1] = d
      /\ \A i \in 1 .. Len(requests) : requests'[i] = requests[i]
  OBVIOUS
<1>2. CASE OnItsWay(t)
  BY <1>1, <1>2 DEF OnItsWay
<1>3. CASE t = d
  BY <1>1, <1>3 DEF OnItsWay
<1> QED
  BY <1>2, <1>3

(* What serves an execution hands it on, step by step, and drops it only   *)
(* once RMF was told its end.                                              *)
LEMMA NextServes ==
  ASSUME InductiveInvariant, Next, manager = "up", manager' = "up", GoToPlaceSupported,
         NEW t \in Task, execution'[t] = "issued", execution[t] = "issued" => Served(t)
  PROVE  Served(t)'
<1> USE DEF Served, InductiveInvariant, TypeOK, Goals!Live, Answer
<1>1. ASSUME NEW u \in Task, RmfNavigates(u)
      PROVE  Served(t)'
  BY <1>1 DEF RmfNavigates, OnItsWay
<1>2. CASE Register \/ RmfStops \/ RmfActs
  BY <1>2 DEF Register, RmfStops, RmfActs, OnItsWay
<1>3. CASE Worker
  <2>1. CASE SendGoal
    <3>1. CASE dest = t
      BY <2>1, <3>1, AppendKeepsAll DEF SendGoal
    <3>2. CASE dest # t
      <4>1. dest \in Task /\ requests' = Append(requests, dest)
        BY <2>1 DEF SendGoal, DestIsAwaited, InNavigate
      <4>2. OnItsWay(t) => OnItsWay(t)'
        BY <4>1, AppendKeepsAll
      <4> QED
        BY <2>1, <3>2, <4>2 DEF SendGoal
    <3> QED
      BY <3>1, <3>2
  <2>2. CASE StoreActivity \/ OnNavigate
    BY <2>2 DEF StoreActivity, OnNavigate, OnItsWay
  <2>3. CASE StopStore \/ OnStop \/ ActionStore \/ HandleCustomAction
    BY <2>3 DEF StopStore, OnStop, ActionStore, HandleCustomAction, OnItsWay
  <2>4. CASE StopCancel
    BY <2>4 DEF StopCancel, CancelStoredGoal, OnItsWay
  <2> QED
    BY <1>3, <2>1, <2>2, <2>3, <2>4 DEF Worker
<1>4. CASE Executor
  <2>1. ASSUME NEW u \in Task, Result(u)
        PROVE  Served(t)'
    BY <2>1 DEF Result, OnItsWay
  <2>2. CASE LaneClosed
    BY <2>2 DEF LaneClosed, CancelStoredGoal, OnItsWay
  <2> QED
    BY <1>4, <2>1, <2>2 DEF Executor
<1>5. CASE AcceptGoal
  <2>1. CASE t = Head(requests)
    BY <1>5, <2>1 DEF AcceptGoal, Goals!Accept
  <2>2. CASE t # Head(requests)
    <3>1. requests' = Tail(requests) /\ requests # <<>> /\ requests \in Seq(Task)
      BY <1>5 DEF AcceptGoal
    <3>2. OnItsWay(t) => OnItsWay(t)'
      BY <2>2, <3>1, TailKeepsOthers
    <3> QED
      BY <1>5, <2>2, <3>2 DEF AcceptGoal, Goals!Accept
  <2> QED
    BY <2>1, <2>2
<1>6. ASSUME NEW u \in Task, WorkOnGoal(u)
      PROVE  Served(t)'
  BY <1>6 DEF WorkOnGoal, EndGoal, Goals!Cancel, Goals!Reach, Goals!Fail,
              Goals!Succeed, Goals!GiveUp, OnItsWay
<1>7. CASE ManagerCrash \/ ManagerRestart
  BY <1>7 DEF ManagerCrash, ManagerRestart
<1> QED
  BY <1>1, <1>2, <1>3, <1>4, <1>5, <1>6, <1>7 DEF Next, Manager

(* As long as the manager does not crash, even when it hangs, no execution *)
(* is forgotten: not by a stop, a replacement, a closed lane or a failed   *)
(* goal, for any number of executions (FleetAdapter.cpp:349-428, 496-513). *)
THEOREM AdapterServesExecutions == Spec => []ExecutionsAreServed
<1>1. Init => ExecutionsAreServed
  BY DEF Init, ExecutionsAreServed
<1>2. InductiveInvariant /\ ExecutionsAreServed /\ [Next]_vars => ExecutionsAreServed'
  <2> SUFFICES ASSUME InductiveInvariant, ExecutionsAreServed, [Next]_vars,
                      manager' = "up", GoToPlaceSupported,
                      NEW t \in Task, execution'[t] = "issued"
               PROVE  Served(t)'
    BY DEF ExecutionsAreServed, Served
  <2>1. CASE UNCHANGED vars
    BY <2>1 DEF vars, ExecutionsAreServed, Served, OnItsWay, Goals!Live, Answer
  <2>2. CASE Next
    <3>1. manager = "up"
      BY <2>2 DEF Next, Register, RmfNavigates, RmfStops, RmfActs, Worker, StoreActivity,
                  OnNavigate, SendGoal, StopStore, OnStop, StopCancel, ActionStore,
                  HandleCustomAction, Executor, Result, LaneClosed, Manager, AcceptGoal,
                  WorkOnGoal, ManagerCrash, ManagerRestart
    <3>2. execution[t] = "issued" => Served(t)
      BY <3>1 DEF ExecutionsAreServed, Served
    <3> QED
      BY <2>2, <3>1, <3>2, NextServes
  <2> QED
    BY <2>1, <2>2
<1> QED
  BY <1>1, <1>2, AdapterInvariant, PTL DEF Spec

(***************************************************************************)
(* The adapter uses the action as NavigationGoals allows.                  *)
(***************************************************************************)

(* A cancel of the stored goal is a cancel of one goal, or nothing.        *)
LEMMA StoredCancelMaps ==
  ASSUME InductiveInvariant, CancelStoredGoal
  PROVE  Goals!Next \/ UNCHANGED Goals!goalVars
<1> USE DEF InductiveInvariant, TypeOK, CancelStoredGoal
<1>1. CASE /\ clientHandle \in Task /\ ~executorBlocked
           /\ goalStatus[clientHandle] = "EXECUTING"
  <2>1. goalStatus' = [goalStatus EXCEPT ![clientHandle] = "CANCELING"]
    BY <1>1
  <2>2. Goals!Cancel(clientHandle)
    BY <1>1, <2>1 DEF Goals!Cancel
  <2> QED
    BY <1>1, <2>2 DEF Goals!Next
<1>2. CASE ~(/\ clientHandle \in Task /\ ~executorBlocked
             /\ goalStatus[clientHandle] = "EXECUTING")
  <2>1. \A t \in Task : goalStatus'[t] = goalStatus[t]
    BY <1>2
  <2>2. goalStatus' = goalStatus
    BY <2>1
  <2> QED
    BY <2>2 DEF Goals!goalVars
<1> QED
  BY <1>1, <1>2

LEMMA NextUsesGoals ==
  ASSUME InductiveInvariant, [Next]_vars, manager = "up", manager' = "up"
  PROVE  Goals!Next \/ UNCHANGED Goals!goalVars
<1>1. CASE Register \/ RmfStops \/ RmfActs \/ \E t \in Task : RmfNavigates(t)
  BY <1>1 DEF Register, RmfStops, RmfActs, RmfNavigates, Goals!goalVars
<1>2. CASE Worker
  <2>1. CASE StopCancel
    BY <2>1, StoredCancelMaps DEF StopCancel
  <2>2. CASE ~StopCancel
    BY <1>2, <2>2 DEF Worker, StoreActivity, OnNavigate, SendGoal, StopStore, OnStop,
                      ActionStore, HandleCustomAction, Goals!goalVars
  <2> QED
    BY <2>1, <2>2
<1>3. CASE Executor
  <2>1. CASE LaneClosed
    BY <2>1, StoredCancelMaps DEF LaneClosed
  <2>2. ASSUME NEW t \in Task, Result(t)
        PROVE  UNCHANGED Goals!goalVars
    BY <2>2 DEF Result, Goals!goalVars
  <2> QED
    BY <1>3, <2>1, <2>2 DEF Executor
<1>4. CASE Manager
  <2>1. CASE AcceptGoal
    <3>1. Head(requests) \in Task
      BY <2>1 DEF AcceptGoal, InductiveInvariant, TypeOK
    <3> QED
      BY <2>1, <3>1 DEF AcceptGoal, Goals!Next
  <2>2. ASSUME NEW t \in Task, WorkOnGoal(t)
        PROVE  Goals!Next
    BY <2>2 DEF WorkOnGoal, EndGoal, Goals!Next
  <2>3. ~ManagerCrash /\ ~ManagerRestart
    BY DEF ManagerCrash, ManagerRestart
  <2> QED
    BY <1>4, <2>1, <2>2, <2>3 DEF Manager
<1>5. CASE UNCHANGED vars
  BY <1>5 DEF vars, Goals!goalVars
<1> QED
  BY <1>1, <1>2, <1>3, <1>4, <1>5 DEF Next

(* With a manager that does not crash, adapter, channel and manager are    *)
(* together a use of the action that NavigationGoals allows, so what the   *)
(* robot implements is what the adapter relies on, for any number of       *)
(* executions (FleetAdapter.cpp:358-428, 496-513).                         *)
THEOREM AdapterUsesGoals == Spec /\ [](manager = "up") => Goals!Spec
<1>1. Init => Goals!Init
  BY DEF Init
<1>2. InductiveInvariant /\ [Next]_vars /\ manager = "up" /\ (manager = "up")'
        => [Goals!Next]_(Goals!goalVars)
  BY NextUsesGoals
<1> QED
  BY <1>1, <1>2, AdapterInvariant, PTL DEF Spec, Goals!Spec

(***************************************************************************)
(* The adapter and the robot it commands: ManagedRobot is the action       *)
(* server that NavigationGoals stands for, and a step that changes a goal  *)
(* is a step of both, and executorBlocked is the same hang in both.  The   *)
(* manager of the robot is one that does not crash.                        *)
(***************************************************************************)
VARIABLES
  active, goalHandle, nav2Status, nav2Task,
  phase, task, result, cancelRequested, obstacle, paused, poseValid, cmd,
  smState, smTask, smReason, currentGoal

Robot == INSTANCE ManagedRobot_proofs

CommandedRobot == Spec /\ Robot!Spec /\ [](manager = "up")

(* Once the requests are delivered the robot works on nothing but the      *)
(* execution RMF waits for.                                                *)
RobotWorksForAwaited ==
  awaited # NoTask /\ callback = "idle" /\ requests = <<>> /\ phase # "IDLE"
    => task = awaited

(* RMF is not told that an execution is over that the robot still has.     *)
FinishedIsOver ==
  \A t \in Task : execution[t] = "finished" => task # t /\ currentGoal # t

(* An execution that RMF was not told the end of is in the callback, on    *)
(* its way, answered, or the robot's task, and the robot is then driven to *)
(* an end unless its executor thread hung.                                 *)
ExecutionIsDriven ==
  GoToPlaceSupported =>
    \A t \in Task : execution[t] = "issued" =>
      \/ callback \in NavigateStep /\ dest = t
      \/ OnItsWay(t) \/ Answer(t)
      \/ /\ task = t /\ phase # "IDLE"
         /\ \/ executorBlocked \/ active \/ result = "SUCCEEDED"
            \/ phase \in {"FINAL_ROTATION", "COMPLETE"}

(* The goal at work is that of the controller's task.                      *)
LEMMA LiveIsTask ==
  ASSUME Robot!InductiveInvariant, NEW t \in Task
  PROVE  Goals!Live(t) <=> phase # "IDLE" /\ task = t
<1>1. phase # "IDLE" <=> task # NoTask
  BY DEF Robot!InductiveInvariant, Robot!HandleFollowsTask
<1>2. Goals!Live(t) <=> t = task
  BY DEF Robot!InductiveInvariant, Robot!HandleFollowsTask,
         Robot!CurrentGoalIsTheOpenOne, Goals!Live
<1> QED
  BY <1>1, <1>2, NoTaskAssumption

(* From RMF to the wheels: the robot works for the execution RMF waits for *)
(* and for no other, has let go of one that RMF was told the end of, and   *)
(* drops none, for any number of executions (FleetAdapter.cpp:349-428,     *)
(* 496-513, FleetManagerNode.cpp:151-182, 248-268).                        *)
THEOREM CommandedRobotObeys ==
  CommandedRobot => [](RobotWorksForAwaited /\ FinishedIsOver /\ ExecutionIsDriven)
<1>1. CommandedRobot =>
        [](/\ manager = "up" /\ InductiveInvariant /\ ExecutionsAreServed
           /\ Robot!InductiveInvariant /\ Robot!NC!TaskIsDriven)
  BY AdapterInvariant, AdapterServesExecutions, Robot!SpecInvariant,
     Robot!SpecDrivesTask, PTL DEF CommandedRobot
<1>2. ASSUME manager = "up", InductiveInvariant, ExecutionsAreServed,
             Robot!InductiveInvariant, Robot!NC!TaskIsDriven
      PROVE  RobotWorksForAwaited /\ FinishedIsOver /\ ExecutionIsDriven
  <2>1. RobotWorksForAwaited
    <3> SUFFICES ASSUME awaited # NoTask, callback = "idle", requests = <<>>,
                        phase # "IDLE"
                 PROVE  task = awaited
      BY DEF RobotWorksForAwaited
    <3>1. task \in Task
      BY <1>2 DEF Robot!InductiveInvariant, Robot!TypeOK, Robot!HandleFollowsTask,
                  TaskOrNone, Robot!TaskOrNone
    <3>2. Goals!Live(task)
      BY <1>2, <3>1, LiveIsTask
    <3> QED
      BY <1>2, <3>1, <3>2 DEF InductiveInvariant, LastRequestIsAwaited, InNavigate,
                              NavigateStep
  <2>2. FinishedIsOver
    <3> SUFFICES ASSUME NEW t \in Task, execution[t] = "finished"
                 PROVE  task # t /\ currentGoal # t
      BY DEF FinishedIsOver
    <3>1. Answer(t)
      BY <1>2 DEF InductiveInvariant, GoalsFollowExecutions
    <3> QED
      BY <1>2, <3>1 DEF Answer, Robot!InductiveInvariant, Robot!HandleFollowsTask,
                        Robot!CurrentGoalIsTheOpenOne
  <2>3. ExecutionIsDriven
    BY <1>2, LiveIsTask
       DEF ExecutionsAreServed, ExecutionIsDriven, Robot!NC!TaskIsDriven
  <2> QED
    BY <2>1, <2>2, <2>3
<1> QED
  BY <1>1, <1>2, PTL
=============================================================================
