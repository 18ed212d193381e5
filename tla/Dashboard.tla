------------------------------ MODULE Dashboard ------------------------------
(***************************************************************************)
(* The launchers, status lights and robot cards of the control dashboard   *)
(* (rmf_gui.py).                                                           *)
(* The GUI thread owns two child processes, their buttons, lights and      *)
(* labels; the ROS worker thread hears the launched nodes and emits        *)
(* signals that Qt queues for the GUI thread.  A signal that is queued     *)
(* twice does what it does once, so the queue is a set.                    *)
(*                                                                         *)
(* A child process that is asked to stop may take its time or not react;   *)
(* one that is killed ends.  Its nodes come up some time after it and may  *)
(* be heard for some time after it.                                        *)
(*                                                                         *)
(* The dashboard also asks the fleet manager's HTTP API every 2.5 s, in a  *)
(* plain thread that hands the answer over with QTimer.singleShot.  That   *)
(* thread runs no Qt event loop, so the answer is never taken: the light   *)
(* of the fleet manager stays off, fleet_manager_online stays false, and   *)
(* the cards show what RMF's fleet states say.                             *)
(***************************************************************************)
EXTENDS Integers

CONSTANT MaxRuns   \* bound on the launches of each launcher

ASSUME MaxRunsAssumption == MaxRuns \in Nat \ {0}

Launcher == {"sim", "rmf"}

(* The components with a light of their own, and the label they turn to    *)
(* ACTIVE.                                                                 *)
Component == {"gazebo", "rmf_core", "fleet_adapter"}
LightsOf(l) == IF l = "sim" THEN {"gazebo"} ELSE {"rmf_core", "fleet_adapter"}
Main(l) == IF l = "sim" THEN "gazebo" ELSE "rmf_core"

VARIABLES
  proc,          \* sim_process, rmf_process
  run,           \* history: how often each was started
  startEnabled,  \* btn_start_sim, btn_start_rmf
  stopEnabled,   \* btn_stop_sim, btn_stop_rmf
  cleanup,       \* pending force-kill timers, by the run they were set for
  status,        \* sim_status_lbl, rmf_status_lbl
  online,        \* gazebo_online, rmf_core_online, fleet_adapter_online
  cards,         \* the robots' cards show a state, not DISCONNECTED
  signals,       \* the worker's signals queued for the GUI thread
  clockActive,   \* the worker's clock_active
  heard,         \* the launchers whose nodes publish
  open           \* the window is open

childVars  == <<proc, run, cleanup>>
buttonVars == <<startEnabled, stopEnabled>>
lightVars  == <<status, online, cards>>
rosVars    == <<signals, clockActive, heard>>
vars == <<childVars, buttonVars, lightVars, rosVars, open>>

TypeOK ==
  /\ proc \in [Launcher -> {"notRunning", "running", "killed"}]
  /\ run \in [Launcher -> 0 .. MaxRuns]
  /\ startEnabled \in [Launcher -> BOOLEAN]
  /\ stopEnabled \in [Launcher -> BOOLEAN]
  /\ cleanup \in [Launcher -> SUBSET (1 .. MaxRuns)]
  /\ status \in [Launcher -> {"STOPPED", "BOOTING", "ACTIVE"}]
  /\ online \subseteq Component
  /\ cards \in BOOLEAN
  /\ signals \subseteq Component
  /\ clockActive \in BOOLEAN
  /\ heard \subseteq Launcher
  /\ open \in BOOLEAN

Init ==
  /\ proc = [l \in Launcher |-> "notRunning"]
  /\ run = [l \in Launcher |-> 0]
  /\ startEnabled = [l \in Launcher |-> TRUE]
  /\ stopEnabled = [l \in Launcher |-> FALSE]
  /\ cleanup = [l \in Launcher |-> {}]
  /\ status = [l \in Launcher |-> "STOPPED"]
  /\ online = {}
  /\ cards = FALSE
  /\ signals = {}
  /\ clockActive = FALSE
  /\ heard = {}
  /\ open = TRUE

(***************************************************************************)
(* The GUI thread.                                                         *)
(***************************************************************************)

(* _launch_sim, _launch_rmf.                                               *)
Launch(l) ==
  /\ open
  /\ startEnabled[l]
  /\ proc[l] = "notRunning"
  /\ run[l] < MaxRuns
  /\ proc' = [proc EXCEPT ![l] = "running"]
  /\ run' = [run EXCEPT ![l] = @ + 1]
  /\ startEnabled' = [startEnabled EXCEPT ![l] = FALSE]
  /\ stopEnabled' = [stopEnabled EXCEPT ![l] = TRUE]
  /\ status' = [status EXCEPT ![l] = "BOOTING"]
  /\ UNCHANGED <<cleanup, online, cards, rosVars, open>>

(* _stop_sim, _stop_rmf: the signals sent leave it to the child to end;    *)
(* a single-shot timer looks after it.                                     *)
Stop(l) ==
  /\ open
  /\ stopEnabled[l]
  /\ stopEnabled' = [stopEnabled EXCEPT ![l] = FALSE]
  /\ cleanup' = [cleanup EXCEPT ![l] = @ \cup {run[l]}]
  /\ UNCHANGED <<proc, run, startEnabled, lightVars, rosVars, open>>

(* Mutant: the cleanup asks the child to stop once more.                   *)
CleanupAsksAgain(l, r) ==
  /\ open
  /\ r \in cleanup[l]
  /\ cleanup' = [cleanup EXCEPT ![l] = @ \ {r}]
  /\ UNCHANGED <<proc, run, buttonVars, lightVars, rosVars, open>>

(* _cleanup_sim_process, _cleanup_rmf_process, 2.5 s after the stop of     *)
(* run r: whatever runs now is killed.                                     *)
Cleanup(l, r) ==
  /\ open
  /\ r \in cleanup[l]
  /\ cleanup' = [cleanup EXCEPT ![l] = @ \ {r}]
  /\ proc' = IF proc[l] = "notRunning" THEN proc
                                       ELSE [proc EXCEPT ![l] = "killed"]
  /\ UNCHANGED <<run, buttonVars, lightVars, rosVars, open>>

(* Mutant: the stop button keeps the state it had.                         *)
FinishedKeepsStop(l) ==
  /\ open
  /\ proc[l] # "notRunning"
  /\ proc' = [proc EXCEPT ![l] = "notRunning"]
  /\ startEnabled' = [startEnabled EXCEPT ![l] = TRUE]
  /\ status' = [status EXCEPT ![l] = "STOPPED"]
  /\ online' = online \ LightsOf(l)
  /\ cards' = (cards /\ l # "sim")
  /\ UNCHANGED <<run, cleanup, stopEnabled, rosVars, open>>

(* Mutant: the label is left alone.                                        *)
FinishedKeepsLabel(l) ==
  /\ open
  /\ proc[l] # "notRunning"
  /\ proc' = [proc EXCEPT ![l] = "notRunning"]
  /\ startEnabled' = [startEnabled EXCEPT ![l] = TRUE]
  /\ stopEnabled' = [stopEnabled EXCEPT ![l] = FALSE]
  /\ online' = online \ LightsOf(l)
  /\ cards' = (cards /\ l # "sim")
  /\ UNCHANGED <<run, cleanup, status, rosVars, open>>

(* The child has ended, for whatever reason: _sim_finished, _rmf_finished. *)
Finished(l) ==
  /\ open
  /\ proc[l] # "notRunning"
  /\ proc' = [proc EXCEPT ![l] = "notRunning"]
  /\ startEnabled' = [startEnabled EXCEPT ![l] = TRUE]
  /\ stopEnabled' = [stopEnabled EXCEPT ![l] = FALSE]
  /\ status' = [status EXCEPT ![l] = "STOPPED"]
  /\ online' = online \ LightsOf(l)
  /\ cards' = (cards /\ l # "sim")
  /\ UNCHANGED <<run, cleanup, rosVars, open>>


(* _update_fleet_ui, with the fleet state that was heard with the light of *)
(* the fleet adapter.                                                      *)
ShowFleet(c) == cards' = (cards \/ c = "fleet_adapter")

(* _handle_infra_heartbeat.  A light that is on already leaves the label   *)
(* alone; the fleet adapter's light has no label.  Its heartbeat and the   *)
(* fleet state are emitted one after the other and taken in one step: the  *)
(* end of a child, which might come between, touches the light or the      *)
(* cards but never both, so that the order is that of some single step.    *)
Heartbeat(c) ==
  /\ open
  /\ c \in signals
  /\ signals' = signals \ {c}
  /\ online' = online \cup {c}
  /\ status' = [l \in Launcher |-> IF c \notin online /\ c = Main(l) THEN "ACTIVE"
                                   ELSE status[l]]
  /\ ShowFleet(c)
  /\ UNCHANGED <<childVars, buttonVars, clockActive, heard, open>>

(* closeEvent: the worker is stopped, both stops are asked for, and the    *)
(* event loop ends, so that no timer and no signal comes any more.         *)
Close ==
  /\ open
  /\ open' = FALSE
  /\ stopEnabled' = [l \in Launcher |-> FALSE]
  /\ cleanup' = [l \in Launcher |-> {}]
  /\ signals' = {}
  /\ UNCHANGED <<proc, run, startEnabled, lightVars, clockActive, heard>>

(***************************************************************************)
(* The ROS worker thread and the launched nodes.                           *)
(***************************************************************************)
ClockMsg ==
  /\ open
  /\ "sim" \in heard
  /\ ~clockActive
  /\ clockActive' = TRUE
  /\ signals' = signals \cup {"gazebo"}
  /\ UNCHANGED <<childVars, buttonVars, lightVars, heard, open>>

(* Mutant: a heartbeat is passed on during the first run only.             *)
RmfMsgOnce(c) ==
  /\ open
  /\ "rmf" \in heard
  /\ run["rmf"] = 1
  /\ signals' = signals \cup {c}
  /\ UNCHANGED <<childVars, buttonVars, lightVars, clockActive, heard, open>>

(* _rmf_heartbeat_cb, _fleet_state_cb.                                     *)
RmfMsg(c) ==
  /\ open
  /\ "rmf" \in heard
  /\ signals' = signals \cup {c}
  /\ UNCHANGED <<childVars, buttonVars, lightVars, clockActive, heard, open>>

NodesStart(l) ==
  /\ open
  /\ proc[l] = "running"
  /\ heard' = heard \cup {l}
  /\ UNCHANGED <<childVars, buttonVars, lightVars, signals, clockActive, open>>

NodesEnd(l) ==
  /\ open
  /\ heard' = heard \ {l}
  /\ UNCHANGED <<childVars, buttonVars, lightVars, signals, clockActive, open>>

(***************************************************************************)
(* The specification.  Timers expire, a child that was killed ends, queued *)
(* signals are delivered, nodes that publish are heard.  The operator does *)
(* what he likes.                                                          *)
(***************************************************************************)
Next ==
  \/ \E l \in Launcher :
       \/ Launch(l) \/ Stop(l) \/ Finished(l)
       \/ \E r \in 1 .. MaxRuns : Cleanup(l, r)
       \/ NodesStart(l) \/ NodesEnd(l)
  \/ \E c \in Component : Heartbeat(c)
  \/ \E c \in LightsOf("rmf") : RmfMsg(c)
  \/ ClockMsg
  \/ Close

Spec == Init /\ [][Next]_vars

Fairness ==
  /\ \A l \in Launcher :
       /\ WF_vars(proc[l] = "killed" /\ Finished(l))
       /\ \A r \in 1 .. MaxRuns : WF_vars(Cleanup(l, r))
  /\ \A c \in Component : WF_vars(Heartbeat(c))
  /\ \A c \in LightsOf("rmf") : WF_vars(RmfMsg(c))

FairSpec == Spec /\ Fairness

(***************************************************************************)
(* Properties.                                                             *)
(***************************************************************************)

(* The buttons follow the child: it can be started exactly when it does    *)
(* not run and stopped only while it runs, whatever ended it and whichever *)
(* timer came late (rmf_gui.py:767-871).                                   *)
ButtonsFollowProcess ==
  open => \A l \in Launcher : /\ startEnabled[l] <=> proc[l] = "notRunning"
                              /\ stopEnabled[l] => proc[l] # "notRunning"

(* A label that says ACTIVE stands beside a light that is on               *)
(* (rmf_gui.py:778-780, 806-816, 858-869, 880-898).                        *)
LabelAgreesWithLight ==
  \A l \in Launcher : status[l] = "ACTIVE" => Main(l) \in online

(* What keeps the promise below: while both buttons are dead, a timer is   *)
(* pending that kills the child, or the child is killed and has only to    *)
(* end; no end of an earlier run takes that away                           *)
(* (rmf_gui.py:782-808, 840-861).                                          *)
StopIsFollowedUp ==
  open => \A l \in Launcher :
            ~startEnabled[l] /\ ~stopEnabled[l] => cleanup[l] # {} \/ proc[l] = "killed"

(* The operator is never left with both buttons dead: a child that was     *)
(* asked to stop can be started again, also one that ignores the signals   *)
(* (rmf_gui.py:782-808, 840-861).                                          *)
StopEnds ==
  \A l \in Launcher :
    ~startEnabled[l] /\ ~stopEnabled[l] ~> startEnabled[l] \/ ~open

(* However often RMF was stopped and started, and whatever is still queued *)
(* from before, its lights are on in the end if it keeps running and being *)
(* heard (rmf_gui.py:129-134, 865-871, 880-898).                           *)
RmfLightsComeOn ==
  <>[](open /\ proc["rmf"] = "running" /\ "rmf" \in heard)
    => <>[](LightsOf("rmf") \subseteq online)

=============================================================================
