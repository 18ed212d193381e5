-------------------------- MODULE FleetStartup_proofs --------------------------
(***************************************************************************)
(* Proofs about FleetStartup: for any set of robots, finite or not, any    *)
(* two configurations and any starts and deaths of the two processes, only *)
(* robots that both configurations have are in the schedule, and the timer *)
(* gives up on none.                                                       *)
(***************************************************************************)
EXTENDS FleetStartup, TLAPS

(* A robot is heard of only by an adapter that serves; its server was seen *)
(* only if the manager's configuration has it.                             *)
StartupInvariant ==
  /\ TypeOK
  /\ adapter = "serving" => adapterConf.defect = "none"
  /\ manager = "serving" => managerConf.defect = "none"
  /\ adapter # "serving" => timer = "none" /\ poseReceived = {} /\ serverReady = {}
  /\ serverReady \subseteq Common
  /\ OnlyCommonRobotsRegistered
  /\ TimerOutlivesRegistration

(* An adapter that is down has no robots in the schedule.                  *)
DownIsOut == adapter # "serving" => registered = {}

(* The starts and deaths of the two processes.                             *)
LEMMA ProcessStep ==
  ASSUME StartupInvariant, DownIsOut,
         StartAdapter \/ AdapterDies \/ StartManager \/ ManagerDies
  PROVE  StartupInvariant' /\ DownIsOut'
<1> USE DEF StartupInvariant, DownIsOut, TypeOK, OnlyCommonRobotsRegistered,
            TimerOutlivesRegistration, Common, confVars, regVars, Configuration,
            Process, AfterInit
<1>1. CASE StartAdapter
  BY <1>1 DEF StartAdapter
<1>2. CASE AdapterDies
  BY <1>2 DEF AdapterDies
<1>3. CASE StartManager
  BY <1>3 DEF StartManager
<1>4. CASE ManagerDies
  BY <1>4 DEF ManagerDies
<1>5. QED
  BY <1>1, <1>2, <1>3, <1>4

(* What the adapter hears, and the ticks of its timer.                     *)
LEMMA AdapterStep ==
  ASSUME StartupInvariant, DownIsOut,
         \/ \E r \in Robot : AmclPose(r) \/ ServerComes(r) \/ ServerGoes(r)
         \/ \E refused \in SUBSET Robot : CheckRegistration(refused)
  PROVE  StartupInvariant' /\ DownIsOut'
<1> USE DEF StartupInvariant, DownIsOut, TypeOK, OnlyCommonRobotsRegistered,
            TimerOutlivesRegistration, Common, confVars, Configuration
<1>1. ASSUME NEW r \in Robot, AmclPose(r)
      PROVE  StartupInvariant' /\ DownIsOut'
  BY <1>1 DEF AmclPose
<1>2. ASSUME NEW r \in Robot, ServerComes(r)
      PROVE  StartupInvariant' /\ DownIsOut'
  BY <1>2 DEF ServerComes
<1>3. ASSUME NEW r \in Robot, ServerGoes(r)
      PROVE  StartupInvariant' /\ DownIsOut'
  BY <1>3 DEF ServerGoes
<1>4. ASSUME NEW refused \in SUBSET Robot, CheckRegistration(refused)
      PROVE  StartupInvariant' /\ DownIsOut'
  BY <1>4 DEF CheckRegistration, Ready
<1>5. QED
  BY <1>1, <1>2, <1>3, <1>4

LEMMA SpecStartup == Spec => [](StartupInvariant /\ DownIsOut)
<1>1. Init => StartupInvariant /\ DownIsOut
  BY DEF Init, StartupInvariant, DownIsOut, TypeOK, OnlyCommonRobotsRegistered,
         TimerOutlivesRegistration, Common, Configuration, Process
<1>2. ASSUME StartupInvariant, DownIsOut, UNCHANGED vars
      PROVE  StartupInvariant' /\ DownIsOut'
  BY <1>2 DEF StartupInvariant, DownIsOut, TypeOK, OnlyCommonRobotsRegistered,
              TimerOutlivesRegistration, Common, Configuration, Process,
              vars, confVars, regVars
<1>3. StartupInvariant /\ DownIsOut /\ [Next]_vars => (StartupInvariant /\ DownIsOut)'
  BY <1>2, ProcessStep, AdapterStep DEF Next
<1>4. QED
  BY <1>1, <1>3, PTL DEF Spec

(* Only robots that both nodes were started for are in the schedule, for   *)
(* any two configurations and any starts and deaths                        *)
(* (FleetAdapter.cpp:130-248, 311-462, FleetValidator.hpp:36-37).          *)
THEOREM StartupRegisters == Spec => []OnlyCommonRobotsRegistered
<1>1. StartupInvariant => OnlyCommonRobotsRegistered
  BY DEF StartupInvariant
<1>2. QED
  BY <1>1, SpecStartup, PTL

(* The timer runs as long as a robot of a serving adapter is missing in    *)
(* the schedule (FleetAdapter.cpp:246-249, 313-317, 454-457).              *)
THEOREM StartupTimer == Spec => []TimerOutlivesRegistration
<1>1. StartupInvariant => TimerOutlivesRegistration
  BY DEF StartupInvariant
<1>2. QED
  BY <1>1, SpecStartup, PTL
=============================================================================
