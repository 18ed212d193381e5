---------------------------- MODULE FleetBringup ----------------------------
(***************************************************************************)
(* The launch files that bring a simulated fleet up: sim_fleet.launch.py or *)
(* multi_robot_nav_sim.launch.py, which start Gazebo with its robots and,  *)
(* on timers of their own, a Nav2 stack for each robot.                    *)
(*                                                                         *)
(* Nothing ties a robot's stack to the robot but these timers.  A stack    *)
(* that is started waits for some time, Patience, for the transform that   *)
(* odom_modifier makes of the robot's odometry, which flows once its       *)
(* controllers are loaded; then Nav2 gives the start up.                   *)
(*                                                                         *)
(* The robots share nothing but Gazebo and the clock, so the model follows *)
(* one of them, any.  Time is counted in units of five seconds.            *)
(***************************************************************************)
EXTENDS Integers, FiniteSets

CONSTANTS
  Count,       \* the number of robots: 7 in the tables of all three files
  Slack,       \* how long the spawners of a robot's controllers may take
  Patience,    \* initial_transform_timeout of Nav2's costmaps
  MaxCrashes   \* bound on the crashes of Nav2 processes

Robot == 0 .. Count - 1

(***************************************************************************)
(* The timers.                                                             *)
(***************************************************************************)
(* Mutant: 20 seconds between the robots.                                  *)
SpawnAtSlower(i) == 4 * i

(* multi_robot_gazebo.launch.py: 15 seconds between the robots.            *)
SpawnAt(i) == 3 * i

(* Ten seconds after a robot its controllers are loaded.                   *)
ControllersAt(i) == SpawnAt(i) + 2

File == {"sim_fleet", "multi_robot_nav_sim"}
NavAt(f, i) == IF f = "sim_fleet" THEN 4 + 2 * i ELSE 2 + 2 * i

OdomBy(i) == ControllersAt(i) + Slack
GiveUpAt(f, i) == NavAt(f, i) + Patience

ASSUME BringupAssumption ==
  /\ Count \in Nat \ {0}
  /\ Slack \in Nat
  /\ Patience \in Nat
  /\ MaxCrashes \in Nat

(***************************************************************************)
(* The nodes of one robot's stack, for the arguments of                    *)
(* dynominion_rmf_nav_bringup.launch.py, without a map server of its own:  *)
(* with launch_map_server the condition localization_launch.py:144-245     *)
(* makes is "True and true", which Python cannot evaluate, and the launch  *)
(* fails.                                                                  *)
(***************************************************************************)
Arguments ==
  [slam : BOOLEAN, localization : BOOLEAN, composition : BOOLEAN,
   respawn : BOOLEAN]

(* Both fleet files use localization and the map server of the fleet.      *)
FleetArguments == {a \in Arguments : a.localization}

(* lifecycle_nodes: what lifecycle_manager_navigation manages.             *)
ManagedNavigation ==
  {"controller_server", "smoother_server", "planner_server", "behavior_server",
   "velocity_smoother", "collision_monitor", "bt_navigator",
   "waypoint_follower", "docking_server"}

SeparateNavigation ==
  {"controller_server", "smoother_server", "planner_server", "behavior_server",
   "bt_navigator", "waypoint_follower", "velocity_smoother",
   "collision_monitor", "docking_server", "lifecycle_manager_navigation"}

(* Mutant: a node of the managed list is left out of the composition.      *)
ComposedNavigationLacksOne ==
  {"controller_server", "smoother_server", "planner_server", "behavior_server",
   "bt_navigator", "waypoint_follower", "velocity_smoother",
   "collision_monitor", "lifecycle_manager_navigation"}

ComposedNavigation ==
  {"controller_server", "smoother_server", "planner_server", "behavior_server",
   "bt_navigator", "waypoint_follower", "velocity_smoother",
   "collision_monitor", "docking_server", "lifecycle_manager_navigation"}

Navigation(a) == IF a.composition THEN ComposedNavigation ELSE SeparateNavigation

(* localization_launch.py, composed or not, and what its manager manages.  *)
Localization == {"amcl", "lifecycle_manager_localization"}

ManagedLocalization == {"amcl"}

(* slam_launch.py is Nav2's; its nodes are taken not to be respawned.      *)
Slam == {"slam_toolbox", "map_saver", "lifecycle_manager_slam"}

Managers == {"lifecycle_manager_navigation", "lifecycle_manager_localization",
             "lifecycle_manager_slam"}

Localizes(a) == ~a.slam /\ a.localization

Launched == [a \in Arguments |->
  Navigation(a)
    \cup (IF a.composition THEN {"nav2_container"} ELSE {})
    \cup (IF a.slam /\ a.localization THEN Slam ELSE {})
    \cup (IF Localizes(a) THEN Localization ELSE {})]

Managed == [a \in Arguments |->
  ManagedNavigation
    \cup (IF a.slam /\ a.localization THEN Slam \ Managers ELSE {})
    \cup (IF Localizes(a) THEN ManagedLocalization ELSE {})]

(* The nodes with respawn = use_respawn; none when composed.               *)
Respawning == [a \in Arguments |->
  IF a.respawn /\ ~a.composition
  THEN (Navigation(a) \cup (IF Localizes(a) THEN Localization ELSE {}))
         \ Managers
  ELSE {}]

(* What dies with a node: in a composition all that its container holds;   *)
(* Nav2's SLAM nodes are processes of their own.                           *)
DiesWith(a, node) ==
  IF a.composition /\ node \notin Slam
  THEN Launched[a] \ (IF a.slam /\ a.localization THEN Slam ELSE {})
  ELSE {node}

-----------------------------------------------------------------------------
VARIABLES
  file,      \* the launch file
  args,      \* the arguments of the stacks
  now,
  self,      \* the number of the robot followed
  robot,     \* the robot in Gazebo
  drive,     \* its controllers
  nav,       \* its Nav2 stack
  lost,      \* the nodes of the stack that have died
  crashes    \* how many there were

vars == <<file, args, self, now, robot, drive, nav, lost, crashes>>

Running == IF nav = "waiting" THEN {} ELSE Launched[args] \ lost

TypeOK ==
  /\ file \in File
  /\ args \in FleetArguments
  /\ self \in Robot
  /\ now \in Nat
  /\ robot \in {"waiting", "launched", "spawned"}
  /\ drive \in {"waiting", "broadcaster", "diff_drive", "active"}
  /\ nav \in {"waiting", "activating", "active", "gaveup"}
  /\ lost \subseteq Launched[args]
  /\ crashes \in 0 .. MaxCrashes

Init ==
  /\ file \in File
  /\ args \in FleetArguments
  /\ self \in Robot
  /\ now = 0
  /\ robot = "waiting"
  /\ drive = "waiting"
  /\ nav = "waiting"
  /\ lost = {}
  /\ crashes = 0

(***************************************************************************)
(* One robot in Gazebo (dynominion_rmf_gazebo.launch.py).  The first       *)
(* robot's launch starts Gazebo too.  The timer of the controllers runs    *)
(* from the launch, whether or not the entity is there; their spawners     *)
(* wait for it, unless they fail.                                          *)
(***************************************************************************)
LaunchRobot ==
  /\ robot = "waiting"
  /\ now = SpawnAt(self)
  /\ robot' = "launched"
  /\ UNCHANGED <<file, args, self, now, drive, nav, lost, crashes>>

(* The create node ends with the robot in the world.                       *)
EntityCreated ==
  /\ robot = "launched"
  /\ robot' = "spawned"
  /\ UNCHANGED <<file, args, self, now, drive, nav, lost, crashes>>

SpawnBroadcaster ==
  /\ robot # "waiting"
  /\ drive = "waiting"
  /\ now = ControllersAt(self)
  /\ drive' = "broadcaster"
  /\ UNCHANGED <<file, args, self, now, robot, nav, lost, crashes>>

(* OnProcessExit does not ask how the spawner ended.                       *)
BroadcasterEnds ==
  /\ drive = "broadcaster"
  /\ drive' = "diff_drive"
  /\ UNCHANGED <<file, args, self, now, robot, nav, lost, crashes>>

DriveLoaded ==
  /\ drive = "diff_drive"
  /\ robot = "spawned"
  /\ drive' = "active"
  /\ UNCHANGED <<file, args, self, now, robot, nav, lost, crashes>>

(***************************************************************************)
(* Its Nav2 stack.                                                         *)
(***************************************************************************)
LaunchNav ==
  /\ nav = "waiting"
  /\ now = NavAt(file, self)
  /\ nav' = "activating"
  /\ UNCHANGED <<file, args, self, now, robot, drive, lost, crashes>>

(* The lifecycle managers activate the stack once all it needs is there.   *)
Activate ==
  /\ nav = "activating"
  /\ drive = "active"
  /\ Managed[args] \subseteq Running
  /\ Managers \cap Launched[args] \subseteq Running
  /\ nav' = "active"
  /\ UNCHANGED <<file, args, self, now, robot, drive, lost, crashes>>

Waits == nav = "activating" /\ drive # "active"

GiveUp ==
  /\ Waits
  /\ now >= GiveUpAt(file, self)
  /\ nav' = "gaveup"
  /\ UNCHANGED <<file, args, self, now, robot, drive, lost, crashes>>

(* A process of a stack that was up dies; its managers notice, and bring   *)
(* the stack up again when its nodes are back.                             *)
Crash(node) ==
  /\ crashes < MaxCrashes
  /\ nav = "active"
  /\ node \in Running
  /\ lost' = lost \cup DiesWith(args, node)
  /\ nav' = "activating"
  /\ crashes' = crashes + 1
  /\ UNCHANGED <<file, args, self, now, robot, drive>>

(* Mutant: nothing is respawned.                                           *)
RespawnNever(node) == FALSE /\ UNCHANGED vars

(* After respawn_delay.                                                    *)
Respawn(node) ==
  /\ node \in lost \cap Respawning[args]
  /\ lost' = lost \ {node}
  /\ UNCHANGED <<file, args, self, now, robot, drive, nav, crashes>>

(***************************************************************************)
(* Time passes when no timer is due, nor Nav2's patience at its end; it is *)
(* followed until the stack has been started and has met its robot.        *)
(***************************************************************************)
TimerDue ==
  \/ robot = "waiting" /\ now = SpawnAt(self)
  \/ drive = "waiting" /\ now = ControllersAt(self)
  \/ nav = "waiting" /\ now = NavAt(file, self)

Tick ==
  /\ nav = "waiting" \/ drive = "waiting" \/ Waits
  /\ ~TimerDue
  /\ Waits => now < GiveUpAt(file, self)
  /\ now' = now + 1
  /\ UNCHANGED <<file, args, self, robot, drive, nav, lost, crashes>>

RobotStep ==
  \/ LaunchRobot \/ EntityCreated
  \/ SpawnBroadcaster \/ BroadcasterEnds \/ DriveLoaded

NavStep == LaunchNav \/ Activate \/ GiveUp

Next ==
  \/ RobotStep
  \/ NavStep
  \/ \E node \in Running : Crash(node)
  \/ \E node \in lost : Respawn(node)
  \/ Tick

(* Timers fire, the spawners' work ends, Nav2's managers do theirs, launch *)
(* respawns what it was told to, time passes.  Nothing has to crash.       *)
Fairness ==
  /\ WF_vars(Tick)
  /\ WF_vars(RobotStep)
  /\ WF_vars(NavStep)
  /\ WF_vars(\E node \in lost : Respawn(node))

Spec == Init /\ [][Next]_vars /\ Fairness

(***************************************************************************)
(* Properties.                                                             *)
(***************************************************************************)

(* Nav2 gives up only on a robot that took longer than Slack, although the *)
(* stacks of later robots are started ever earlier relative to the robots  *)
(* (multi_robot_gazebo.launch.py:75, sim_fleet.launch.py:84-87,            *)
(* multi_robot_nav_sim.launch.py:118).                                     *)
GivesUpOnLateRobotsOnly ==
  [][nav # "gaveup" /\ nav' = "gaveup" => now > OdomBy(self)]_vars

(* A lifecycle manager waits only for nodes that are launched beside it:   *)
(* what is missing of the managed nodes has crashed and would come back    *)
(* only by a respawn (navigation_launch.py:43-54, 118-227, 246-316).       *)
MissingNodesCrashed ==
  nav \in {"activating", "active"} =>
    \/ Managed[args] \subseteq Running
    \/ crashes > 0 /\ nav = "activating"

(* The stack gets active, and active again after a crash, unless *)
(* Nav2 gave up on the robot or what died is not respawned: a manager, or  *)
(* anything of a composition (use_respawn is "applied when composition is  *)
(* disabled", navigation_launch.py:107).                                   *)
LostForGood == ~(lost \subseteq Respawning[args])
NavComesUp ==
  nav # "active" ~> (nav \in {"active", "gaveup"} \/ LostForGood)
=============================================================================
