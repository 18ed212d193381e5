----------------------------- MODULE FleetStartup -----------------------------
(***************************************************************************)
(* How the robots get into the RMF schedule: the start of the fleet        *)
(* adapter and of the fleet manager from their configurations, and the     *)
(* adapter's one-second registration timer.                                *)
(*                                                                         *)
(* Each node is given parameters and a YAML file: the same ones where      *)
(* rmf_core.launch.py starts both, others where they run on two machines.  *)
(* The checks of init come one after the other and the first that fails    *)
(* decides, so a configuration is the robots it lists and its first        *)
(* defect:                                                                 *)
(*   "identity"   a field of fleet_identity is missing or empty            *)
(*   "unusable"   no file name, no such file, no fleet section, no graph   *)
(*                name (adapter), no robots (manager), or no easy fleet    *)
(*   "malformed"  a value of the wrong type or a missing one: init throws  *)
(* Timer and subscriptions of the adapter run on its ROS executor thread,  *)
(* so a tick over all robots is one step.                                  *)
(***************************************************************************)
CONSTANT Robot

VARIABLES
  adapterConf, managerConf,  \* what the two nodes are started with
  adapter, manager,          \* the processes; "idle" is one without a fleet
  poseReceived,   \* pose_received; nav_handle's is_localized_ is set with it
  serverReady,    \* action_server_is_ready(), as the adapter has discovered
  registered,     \* registered, and RMF has the robot
  timer           \* registration_timer_

confVars == <<adapterConf, managerConf>>
regVars  == <<poseReceived, serverReady, registered, timer>>
vars     == <<confVars, adapter, manager, regVars>>

Configuration == [defect : {"none", "identity", "unusable", "malformed"},
                  robots : SUBSET Robot]

Process == {"down", "idle", "serving"}

TypeOK ==
  /\ adapterConf \in Configuration
  /\ managerConf \in Configuration
  /\ adapter \in Process
  /\ manager \in Process
  /\ poseReceived \subseteq Robot
  /\ serverReady \subseteq Robot
  /\ registered \subseteq Robot
  /\ timer \in {"none", "running", "cancelled"}

Init ==
  /\ adapterConf \in Configuration
  /\ managerConf \in Configuration
  /\ adapter = "down"
  /\ manager = "down"
  /\ poseReceived = {}
  /\ serverReady = {}
  /\ registered = {}
  /\ timer = "none"

(***************************************************************************)
(* The processes.                                                          *)
(***************************************************************************)

(* Mutant: a failed validation is only logged.                             *)
AfterInitUnvalidated(conf) ==
  CASE conf.defect \in {"none", "identity"} -> "serving"
    [] conf.defect = "unusable"             -> "idle"
    [] OTHER                                -> "down"

(* What init makes of a configuration: without an identity it shuts rclcpp *)
(* down and an exception ends main, but an unusable file only ends init    *)
(* and main spins on.                                                      *)
AfterInit(conf) ==
  CASE conf.defect = "none"     -> "serving"
    [] conf.defect = "unusable" -> "idle"
    [] OTHER                    -> "down"

(* main and init of fleet_adapter_node; the timer is the last thing made.  *)
StartAdapter ==
  /\ adapter = "down"
  /\ adapter' = AfterInit(adapterConf)
  /\ timer' = IF adapter' = "serving" THEN "running" ELSE "none"
  /\ UNCHANGED <<confVars, manager, poseReceived, serverReady, registered>>

(* The adapter process dies, and with it its part of the schedule.         *)
AdapterDies ==
  /\ adapter # "down"
  /\ adapter' = "down"
  /\ poseReceived' = {}
  /\ serverReady' = {}
  /\ registered' = {}
  /\ timer' = "none"
  /\ UNCHANGED <<confVars, manager>>

(* main and init of fleet_manager_node; an action server per robot.        *)
StartManager ==
  /\ manager = "down"
  /\ manager' = AfterInit(managerConf)
  /\ UNCHANGED <<confVars, adapter, regVars>>

ManagerDies ==
  /\ manager # "down"
  /\ manager' = "down"
  /\ UNCHANGED <<confVars, adapter, regVars>>

(***************************************************************************)
(* What the adapter, once it serves its robots, hears of each of them.     *)
(***************************************************************************)

(* The amcl_pose subscription of build_robot_contexts.                     *)
AmclPose(r) ==
  /\ adapter = "serving"
  /\ r \in adapterConf.robots
  /\ poseReceived' = poseReceived \cup {r}
  /\ UNCHANGED <<confVars, adapter, manager, serverReady, registered, timer>>

(* Discovery of the manager's action server, and its loss, be it that the  *)
(* manager died (and discovery has found out) or that the link is gone.    *)
ServerComes(r) ==
  /\ adapter = "serving"
  /\ manager = "serving"
  /\ r \in adapterConf.robots \cap managerConf.robots
  /\ serverReady' = serverReady \cup {r}
  /\ UNCHANGED <<confVars, adapter, manager, poseReceived, registered, timer>>

ServerGoes(r) ==
  /\ r \in serverReady
  /\ serverReady' = serverReady \ {r}
  /\ UNCHANGED <<confVars, adapter, manager, poseReceived, registered, timer>>

(***************************************************************************)
(* check_registration.                                                     *)
(***************************************************************************)
Ready == poseReceived \cap serverReady

(* Mutant: only a robot without a pose keeps the timer running.            *)
CheckRegistrationEarly(refused) ==
  /\ timer = "running"
  /\ registered' = registered \cup (Ready \ refused)
  /\ timer' = IF adapterConf.robots \subseteq poseReceived THEN "cancelled" ELSE timer
  /\ UNCHANGED <<confVars, adapter, manager, poseReceived, serverReady>>

(* Mutant: a robot that is not ready ends the loop.                        *)
CheckRegistrationStops(refused) ==
  /\ timer = "running"
  /\ registered' = IF adapterConf.robots \subseteq Ready \cup registered
                   THEN registered \cup (Ready \ refused) ELSE registered
  /\ timer' = IF registered = adapterConf.robots THEN "cancelled" ELSE timer
  /\ UNCHANGED <<confVars, adapter, manager, poseReceived, serverReady>>

(* One tick: each robot that is ready is added, but for those that         *)
(* add_robot returns null for (the code tests for it).  all_done is about  *)
(* the robots as the tick found them.                                      *)
CheckRegistration(refused) ==
  /\ timer = "running"
  /\ registered' = registered \cup (Ready \ refused)
  /\ timer' = IF registered = adapterConf.robots THEN "cancelled" ELSE timer
  /\ UNCHANGED <<confVars, adapter, manager, poseReceived, serverReady>>

Next ==
  \/ StartAdapter \/ AdapterDies
  \/ StartManager \/ ManagerDies
  \/ \E r \in Robot : AmclPose(r) \/ ServerComes(r) \/ ServerGoes(r)
  \/ \E refused \in SUBSET Robot : CheckRegistration(refused)

Spec == Init /\ [][Next]_vars

(* The timer fires, poses and servers come, and every robot is again and   *)
(* again ready at a tick that add_robot does not refuse it at.  Nobody has *)
(* to start or restart a process.                                          *)
Fairness ==
  /\ WF_vars(\E refused \in SUBSET Robot : CheckRegistration(refused))
  /\ \A r \in Robot :
       /\ WF_vars(AmclPose(r))
       /\ WF_vars(ServerComes(r))
       /\ SF_vars(r \in Ready
                  /\ \E refused \in SUBSET (Robot \ {r}) : CheckRegistration(refused))

FairSpec == Spec /\ Fairness

(***************************************************************************)
(* Properties.                                                             *)
(***************************************************************************)

(* Robots that both nodes know of from configurations that are in order.   *)
Common ==
  IF adapterConf.defect = "none" /\ managerConf.defect = "none"
  THEN adapterConf.robots \cap managerConf.robots
  ELSE {}

(* The timer gives up on no robot: while the adapter serves and one of its *)
(* robots is not in the schedule, the timer runs, also after an adapter    *)
(* has died and come back, and however robots come to be ready             *)
(* (FleetAdapter.cpp:246-249, 313-317, 454-457).                           *)
TimerOutlivesRegistration ==
  adapter = "serving" /\ registered # adapterConf.robots => timer = "running"

(* "If startup validation fails ... the caller MUST refuse to enter the    *)
(* RMF schedule" (FleetValidator.hpp:36-37), for either of the two nodes:  *)
(* a robot is in the schedule only if the adapter and the manager behind   *)
(* it both started in order and were both configured for it, whatever the  *)
(* order in which they start, die and come back.                           *)
OnlyCommonRobotsRegistered == registered \subseteq Common

(* While both nodes serve, every robot they have in common gets into the   *)
(* schedule, however discovery comes and goes, however often RMF refuses a *)
(* robot, and although another robot may never be ready; and the timer     *)
(* ends exactly when there is no such other robot                          *)
(* (FleetAdapter.cpp:311-462).                                             *)
CommonRobotsGetRegistered ==
  <>[](adapter = "serving" /\ manager = "serving")
    => /\ <>[](Common \subseteq registered)
       /\ <>[](timer = "cancelled" <=> adapterConf.robots = Common)
=============================================================================
