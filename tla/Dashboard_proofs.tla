--------------------------- MODULE Dashboard_proofs ---------------------------
(***************************************************************************)
(* Proofs about Dashboard: for any number of launches, the buttons follow  *)
(* the child processes and the labels agree with the lights.               *)
(***************************************************************************)
EXTENDS Dashboard, TLAPS

(* A child that runs was started, so the timer of its stop has a run.      *)
RunningWasStarted == \A l \in Launcher : proc[l] # "notRunning" => run[l] >= 1

DashboardInvariant ==
  /\ TypeOK
  /\ ButtonsFollowProcess
  /\ LabelAgreesWithLight
  /\ RunningWasStarted
  /\ StopIsFollowedUp

(* What the operator does: start, stop, close the window.                  *)
LEMMA OperatorStep ==
  ASSUME DashboardInvariant,
         Close \/ \E l \in Launcher : Launch(l) \/ Stop(l)
  PROVE  DashboardInvariant'
<1> USE MaxRunsAssumption
    DEF DashboardInvariant, RunningWasStarted, TypeOK, ButtonsFollowProcess,
        LabelAgreesWithLight, StopIsFollowedUp, Launcher, Component, LightsOf, Main,
        childVars, buttonVars, lightVars, rosVars
<1>1. ASSUME NEW l \in Launcher, Launch(l) PROVE DashboardInvariant'
  BY <1>1 DEF Launch
<1>2. ASSUME NEW l \in Launcher, Stop(l) PROVE DashboardInvariant'
  BY <1>2 DEF Stop
<1>3. CASE Close
  BY <1>3 DEF Close
<1>4. QED
  BY <1>1, <1>2, <1>3

(* What the children and the timers do.                                    *)
LEMMA ChildStep ==
  ASSUME DashboardInvariant,
         \E l \in Launcher :
           \/ Finished(l) \/ NodesStart(l) \/ NodesEnd(l)
           \/ \E r \in 1 .. MaxRuns : Cleanup(l, r)
  PROVE  DashboardInvariant'
<1> USE MaxRunsAssumption
    DEF DashboardInvariant, RunningWasStarted, TypeOK, ButtonsFollowProcess,
        LabelAgreesWithLight, StopIsFollowedUp, Launcher, Component, LightsOf, Main,
        childVars, buttonVars, lightVars, rosVars
<1>1. ASSUME NEW l \in Launcher, Finished(l) PROVE DashboardInvariant'
  BY <1>1 DEF Finished
<1>2. ASSUME NEW l \in Launcher, NEW r \in 1 .. MaxRuns, Cleanup(l, r)
      PROVE  DashboardInvariant'
  BY <1>2 DEF Cleanup
<1>3. ASSUME NEW l \in Launcher, NodesStart(l) \/ NodesEnd(l)
      PROVE  DashboardInvariant'
  BY <1>3 DEF NodesStart, NodesEnd
<1>4. QED
  BY <1>1, <1>2, <1>3

(* What the ROS worker hears and the GUI thread is told.                   *)
LEMMA SignalStep ==
  ASSUME DashboardInvariant,
         \/ ClockMsg
         \/ \E c \in LightsOf("rmf") : RmfMsg(c)
         \/ \E c \in Component : Heartbeat(c)
  PROVE  DashboardInvariant'
<1> USE DEF DashboardInvariant, RunningWasStarted, TypeOK, ButtonsFollowProcess,
            LabelAgreesWithLight, StopIsFollowedUp, Launcher, Component, LightsOf, Main,
            childVars, buttonVars, lightVars, rosVars
<1>1. CASE ClockMsg
  BY <1>1 DEF ClockMsg
<1>2. ASSUME NEW c \in LightsOf("rmf"), RmfMsg(c) PROVE DashboardInvariant'
  BY <1>2 DEF RmfMsg
<1>3. ASSUME NEW c \in Component, Heartbeat(c) PROVE DashboardInvariant'
  BY <1>3 DEF Heartbeat, ShowFleet
<1>4. QED
  BY <1>1, <1>2, <1>3

LEMMA SpecDashboard == Spec => []DashboardInvariant
<1>1. Init => DashboardInvariant
  <2> SUFFICES ASSUME Init PROVE DashboardInvariant
    OBVIOUS
  <2> USE DEF Init
  <2>1. TypeOK
    <3>1. /\ startEnabled \in [Launcher -> BOOLEAN]
          /\ stopEnabled \in [Launcher -> BOOLEAN]
      BY Zenon
    <3>2. /\ run \in [Launcher -> 0 .. MaxRuns]
          /\ cleanup \in [Launcher -> SUBSET (1 .. MaxRuns)]
      BY MaxRunsAssumption
    <3>3. QED
      BY <3>1, <3>2 DEF TypeOK
  <2>2. ButtonsFollowProcess
    BY DEF ButtonsFollowProcess
  <2>3. LabelAgreesWithLight /\ RunningWasStarted /\ StopIsFollowedUp
    BY DEF LabelAgreesWithLight, RunningWasStarted, StopIsFollowedUp
  <2>4. QED
    BY <2>1, <2>2, <2>3 DEF DashboardInvariant
<1>2. ASSUME DashboardInvariant, UNCHANGED vars PROVE DashboardInvariant'
  BY <1>2 DEF DashboardInvariant, RunningWasStarted, TypeOK, ButtonsFollowProcess,
              LabelAgreesWithLight, StopIsFollowedUp, vars, childVars, buttonVars, lightVars, rosVars
<1>3. DashboardInvariant /\ [Next]_vars => DashboardInvariant'
  BY <1>2, OperatorStep, ChildStep, SignalStep DEF Next
<1>4. QED
  BY <1>1, <1>3, PTL DEF Spec

(* The buttons follow the children, however often they are started and     *)
(* stopped and whichever timer comes late (rmf_gui.py:767-871).            *)
THEOREM DashboardButtons == Spec => []ButtonsFollowProcess
<1>1. DashboardInvariant => ButtonsFollowProcess
  BY DEF DashboardInvariant
<1>2. QED
  BY <1>1, SpecDashboard, PTL

(* A label that says ACTIVE stands beside a light that is on, whatever     *)
(* signal comes late (rmf_gui.py:806-816, 858-869, 880-898).               *)
THEOREM DashboardLabels == Spec => []LabelAgreesWithLight
<1>1. DashboardInvariant => LabelAgreesWithLight
  BY DEF DashboardInvariant
<1>2. QED
  BY <1>1, SpecDashboard, PTL

(* While both buttons of a launcher are dead, something is on its way that *)
(* revives them (rmf_gui.py:782-808, 840-861).                             *)
THEOREM DashboardFollowsUp == Spec => []StopIsFollowedUp
<1>1. DashboardInvariant => StopIsFollowedUp
  BY DEF DashboardInvariant
<1>2. QED
  BY <1>1, SpecDashboard, PTL
=============================================================================
