------------------------- MODULE FleetBringup_proofs -------------------------
(***************************************************************************)
(* The timers of the fleet's launch files, for any number of robots, and   *)
(* the nodes of a stack, for all arguments of its launch file.             *)
(***************************************************************************)
EXTENDS FleetBringup, TLAPS

(* The timers leave the last robot more patience than it needs.            *)
LastRobotFits == \A f \in File : OdomBy(Count - 1) < GiveUpAt(f, Count - 1)

-----------------------------------------------------------------------------
(* The robots are started further apart than their stacks, so the last one *)
(* has the least time: what fits it fits all.                              *)
LEMMA AllRobotsFit ==
  ASSUME LastRobotFits
  PROVE  \A f \in File, i \in Robot : OdomBy(i) < GiveUpAt(f, i)
<1> SUFFICES ASSUME NEW f \in File, NEW i \in Robot
             PROVE  OdomBy(i) < GiveUpAt(f, i)
  OBVIOUS
<1>1. Count \in Nat /\ i \in Int /\ i <= Count - 1 /\ Slack \in Nat /\ Patience \in Nat
  BY BringupAssumption DEF Robot
<1>2. OdomBy(Count - 1) < GiveUpAt(f, Count - 1)
  BY DEF LastRobotFits
<1> QED BY <1>1, <1>2 DEF OdomBy, GiveUpAt, ControllersAt, SpawnAt, NavAt

(* What a lifecycle manager is told to manage is launched beside it, with  *)
(* SLAM or localization, composed or not (navigation_launch.py:43-54).     *)
THEOREM ManagedAreLaunched == \A a \in Arguments : Managed[a] \subseteq Launched[a]
<1> SUFFICES ASSUME NEW a \in Arguments PROVE Managed[a] \subseteq Launched[a]
  OBVIOUS
<1>1. ManagedNavigation \subseteq Navigation(a)
  BY DEF ManagedNavigation, Navigation, ComposedNavigation, SeparateNavigation
<1>2. ManagedLocalization \subseteq Localization
  BY DEF ManagedLocalization, Localization
<1> QED BY <1>1, <1>2 DEF Managed, Launched

LEMMA DyingNodesWereLaunched ==
  ASSUME NEW a \in Arguments, NEW node \in Launched[a]
  PROVE  DiesWith(a, node) \subseteq Launched[a]
  BY DEF DiesWith

-----------------------------------------------------------------------------
BringupInvariant == TypeOK /\ MissingNodesCrashed /\ (crashes = 0 => lost = {})

LEMMA BringupInit == Init => BringupInvariant
<1> SUFFICES ASSUME Init PROVE BringupInvariant
  OBVIOUS
<1>1. 0 \in 0 .. MaxCrashes
  BY BringupAssumption
<1>2. {} \subseteq Launched[args]
  OBVIOUS
<1> QED BY <1>1, <1>2 DEF Init, BringupInvariant, TypeOK, MissingNodesCrashed

(* A crash takes nodes that were launched; a respawn gives one back.       *)
LEMMA BringupCrash ==
  ASSUME BringupInvariant, NEW node \in Running, Crash(node)
  PROVE  BringupInvariant'
<1>1. crashes' \in 0 .. MaxCrashes /\ crashes' > 0
  BY BringupAssumption DEF BringupInvariant, TypeOK, Crash
<1>2. args \in Arguments /\ node \in Launched[args]
  BY DEF BringupInvariant, TypeOK, FleetArguments, Running
<1>3. lost' \subseteq Launched[args]
  BY <1>2, DyingNodesWereLaunched DEF BringupInvariant, TypeOK, Crash
<1>4. TypeOK'
  BY <1>1, <1>3 DEF BringupInvariant, TypeOK, Crash
<1>5. MissingNodesCrashed' /\ (crashes' = 0 => lost' = {})
  BY <1>1 DEF MissingNodesCrashed, Crash
<1> QED BY <1>4, <1>5 DEF BringupInvariant

LEMMA BringupRespawn ==
  ASSUME BringupInvariant, NEW node, Respawn(node)
  PROVE  BringupInvariant'
<1>1. Managed[args] \subseteq Running => (Managed[args] \subseteq Running)'
  BY DEF Running, Respawn
<1> QED BY <1>1 DEF BringupInvariant, TypeOK, MissingNodesCrashed, Respawn

LEMMA BringupOther ==
  ASSUME BringupInvariant, RobotStep \/ NavStep \/ Tick \/ UNCHANGED vars
  PROVE  BringupInvariant'
<1>1. TypeOK'
  BY DEF BringupInvariant, TypeOK, RobotStep, LaunchRobot, EntityCreated,
         SpawnBroadcaster, BroadcasterEnds, DriveLoaded, NavStep, LaunchNav,
         Activate, GiveUp, Tick, vars
<1>2. CASE LaunchNav
  <2>1. args \in Arguments
    BY DEF BringupInvariant, TypeOK, FleetArguments
  <2>2. crashes' = 0 => Running' = Launched[args]
    BY <1>2 DEF BringupInvariant, LaunchNav, Running
  <2>3. Managed[args] \subseteq Launched[args]
    BY <2>1, ManagedAreLaunched
  <2>4. CASE crashes = 0
    BY <1>1, <1>2, <2>2, <2>3, <2>4
       DEF BringupInvariant, LaunchNav, MissingNodesCrashed
  <2>5. CASE crashes # 0
    BY <1>1, <1>2, <2>5, BringupAssumption
       DEF BringupInvariant, TypeOK, LaunchNav, MissingNodesCrashed
  <2> QED BY <2>4, <2>5
<1>3. CASE ~LaunchNav
  <2>1. nav' \in {"activating", "active"} => nav \in {"activating", "active"}
    BY <1>3 DEF RobotStep, LaunchRobot, EntityCreated, SpawnBroadcaster,
                BroadcasterEnds, DriveLoaded, NavStep, Activate, GiveUp, Tick, vars
  <2>2. lost' = lost /\ args' = args /\ crashes' = crashes
    BY <1>3 DEF RobotStep, LaunchRobot, EntityCreated, SpawnBroadcaster,
                BroadcasterEnds, DriveLoaded, NavStep, Activate, GiveUp, Tick, vars
  <2>3. nav' \in {"activating", "active"} => Running' = Running
    BY <2>1, <2>2 DEF Running
  <2>4. nav' = nav \/ Activate \/ nav' = "gaveup"
    BY <1>3 DEF RobotStep, LaunchRobot, EntityCreated, SpawnBroadcaster,
                BroadcasterEnds, DriveLoaded, NavStep, GiveUp, Tick, vars
  <2>5. Activate => Managed[args] \subseteq Running
    BY DEF Activate
  <2>6. MissingNodesCrashed'
    BY <2>1, <2>2, <2>3, <2>4, <2>5 DEF BringupInvariant, MissingNodesCrashed
  <2> QED BY <1>1, <2>2, <2>6 DEF BringupInvariant
<1> QED BY <1>2, <1>3

LEMMA BringupStep == BringupInvariant /\ [Next]_vars => BringupInvariant'
  BY BringupCrash, BringupRespawn, BringupOther DEF Next

-----------------------------------------------------------------------------
(* Types.                                                                  *)
THEOREM BringupTypeOK == Spec => []TypeOK
<1>1. BringupInvariant => TypeOK
  BY DEF BringupInvariant
<1> QED BY <1>1, BringupInit, BringupStep, PTL DEF Spec

(* A lifecycle manager waits for launched nodes only.                      *)
THEOREM BringupManagersServed == Spec => []MissingNodesCrashed
<1>1. BringupInvariant => MissingNodesCrashed
  BY DEF BringupInvariant
<1> QED BY <1>1, BringupInit, BringupStep, PTL DEF Spec

(* With timers that fit the last robot, Nav2 gives up on a late robot only,*)
(* whatever the number of robots.                                          *)
THEOREM BringupGivesUpOnLateRobotsOnly ==
  ASSUME LastRobotFits PROVE Spec => GivesUpOnLateRobotsOnly
<1>1. ASSUME BringupInvariant, [Next]_vars, nav # "gaveup", nav' = "gaveup"
      PROVE  now > OdomBy(self)
  <2>1. GiveUp
    BY <1>1 DEF Next, RobotStep, LaunchRobot, EntityCreated, SpawnBroadcaster,
                BroadcasterEnds, DriveLoaded, NavStep, LaunchNav, Activate, Crash,
                Respawn, Tick, vars
  <2>2. now >= GiveUpAt(file, self)
    BY <2>1 DEF GiveUp
  <2>3. OdomBy(self) < GiveUpAt(file, self)
    BY <1>1, AllRobotsFit DEF BringupInvariant, TypeOK
  <2>4. now \in Nat /\ OdomBy(self) \in Int /\ GiveUpAt(file, self) \in Int
    BY <1>1, BringupAssumption DEF BringupInvariant, TypeOK, Robot, OdomBy,
       ControllersAt, SpawnAt, GiveUpAt, NavAt
  <2> QED BY <2>2, <2>3, <2>4
<1>2. BringupInvariant /\ [Next]_vars =>
        [nav # "gaveup" /\ nav' = "gaveup" => now > OdomBy(self)]_vars
  BY <1>1
<1> QED BY <1>2, BringupInit, BringupStep, PTL DEF Spec, GivesUpOnLateRobotsOnly
=============================================================================
