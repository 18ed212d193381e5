------------------------------ MODULE TaskRequests ------------------------------
(***************************************************************************)
(* How task requests reach the RMF dispatcher: the dashboard's ROS worker  *)
(* publishes them itself or starts a command-line tool, the sample script  *)
(* starts the same tools, and send_navigation_task.py is a process per     *)
(* request.  Every publisher keeps its last sample for readers to come     *)
(* (reliable, transient local, depth 1): a later request of the same       *)
(* client takes the place of one the dispatcher has not read, and a        *)
(* dispatcher that comes back reads the last one again.  Answers go to     *)
(* whoever listens, with the id of the request.                            *)
(*                                                                         *)
(* The dispatcher and the command-line tools are RMF's: external.          *)
(***************************************************************************)
EXTENDS Naturals

CONSTANTS
  Sender,       \* processes that run send_navigation_task.py
  Tool,         \* runs of rmf_demos_tasks' dispatch tools
  MaxRequests,  \* bound on the requests the dashboard publishes itself
  MaxCrashes    \* bound on the ends of the dispatcher

ASSUME BoundsAssumption == MaxRequests \in Nat \ {0} /\ MaxCrashes \in Nat

GUI == "gui"
Client == {GUI} \cup Sender \cup Tool

(* The n-th request of a client; senders and tools have one each.          *)
Request == Client \X (1 .. MaxRequests)

VARIABLES
  phase,       \* of each client
  written,     \* how many requests each client published
  unread,      \* clients whose last sample the running dispatcher has not read
  dispatcher,  \* it runs
  crashes,     \* history: how often it ended
  taken,       \* history: requests that became tasks
  toAnswer,    \* requests the running dispatcher has not answered
  inbox        \* answers each sender has not handled

clientVars == <<phase, written, unread>>
dispatcherVars == <<dispatcher, crashes, taken, toAnswer>>
vars == <<clientVars, dispatcherVars, inbox>>

Init ==
  /\ phase = [c \in Client |-> IF c = GUI THEN "starting" ELSE "idle"]
  /\ written = [c \in Client |-> 0]
  /\ unread = {}
  /\ dispatcher \in BOOLEAN
  /\ crashes = 0
  /\ taken = {}
  /\ toAnswer = {}
  /\ inbox = [s \in Sender |-> {}]

Listening(s) == phase[s] \in {"discovering", "waiting"}

(* The publisher exists, and with it its last sample.                      *)
Publishing(c) == phase[c] \in {"ready", "running", "discovering", "waiting"}

(* publish, on a transient-local publisher of depth 1.                     *)
Publish(c) ==
  /\ written' = [written EXCEPT ![c] = @ + 1]
  /\ unread' = IF dispatcher THEN unread \cup {c} ELSE unread

(* A client that ends takes its last sample along.                         *)
Leave(c, how) ==
  /\ phase' = [phase EXCEPT ![c] = how]
  /\ unread' = unread \ {c}
  /\ UNCHANGED written

--------------------------------------------------------------------------------
(***************************************************************************)
(* The dashboard and the command-line tools.                               *)
(***************************************************************************)

(* ROS2Worker.run has created the publisher.                               *)
WorkerReady ==
  /\ phase[GUI] = "starting"
  /\ phase' = [phase EXCEPT ![GUI] = "ready"]
  /\ UNCHANGED <<written, unread, dispatcherVars, inbox>>

(* _submit_goto_form and _submit_raw_json, through publish_task.           *)
Submit ==
  /\ phase[GUI] = "ready"
  /\ written[GUI] < MaxRequests
  /\ Publish(GUI)
  /\ UNCHANGED <<phase, dispatcherVars, inbox>>

(* The presets, the patrol form, the goto form before the worker is ready, *)
(* and dispatch_sample_tasks.sh: a process of its own, which outlives the  *)
(* window.                                                                 *)
RunTool(t) ==
  /\ phase[t] = "idle"
  /\ phase' = [phase EXCEPT ![t] = "running"]
  /\ UNCHANGED <<written, unread, dispatcherVars, inbox>>

ToolSends(t) ==
  /\ phase[t] = "running"
  /\ written[t] = 0
  /\ Publish(t)
  /\ UNCHANGED <<phase, dispatcherVars, inbox>>

ToolEnds(t) ==
  /\ phase[t] = "running"
  /\ written[t] = 1
  /\ Leave(t, "ended")
  /\ UNCHANGED <<dispatcherVars, inbox>>

(* closeEvent stops the worker, which destroys its node.                   *)
Close ==
  /\ phase[GUI] \in {"starting", "ready"}
  /\ Leave(GUI, "ended")
  /\ UNCHANGED <<dispatcherVars, inbox>>

--------------------------------------------------------------------------------
(***************************************************************************)
(* send_navigation_task.py: two seconds to find the others, the request,   *)
(* and up to ten seconds for the answer.                                   *)
(***************************************************************************)

StartSender(s) ==
  /\ phase[s] = "idle"
  /\ phase' = [phase EXCEPT ![s] = "discovering"]
  /\ UNCHANGED <<written, unread, dispatcherVars, inbox>>

(* response_callback compares with a request_id that send_task has yet to  *)
(* set: any answer ends the process.                                       *)
HearEarly(s) ==
  /\ phase[s] = "discovering"
  /\ inbox[s] # {}
  /\ Leave(s, "crashed")
  /\ inbox' = [inbox EXCEPT ![s] = {}]
  /\ UNCHANGED dispatcherVars

SendTask(s) ==
  /\ phase[s] = "discovering"
  /\ phase' = [phase EXCEPT ![s] = "waiting"]
  /\ Publish(s)
  /\ UNCHANGED <<dispatcherVars, inbox>>

(* Mutant: whatever is answered is taken for the answer.                   *)
HearAnything(s, r) ==
  /\ phase[s] = "waiting"
  /\ r \in inbox[s]
  /\ Leave(s, "answered")
  /\ inbox' = [inbox EXCEPT ![s] = {}]
  /\ UNCHANGED dispatcherVars

(* response_callback: its own answer completes the future, the others are  *)
(* passed over.                                                            *)
Hear(s, r) ==
  /\ phase[s] = "waiting"
  /\ r \in inbox[s]
  /\ \/ /\ r = <<s, 1>>
        /\ Leave(s, "answered")
        /\ inbox' = [inbox EXCEPT ![s] = {}]
     \/ /\ r # <<s, 1>>
        /\ inbox' = [inbox EXCEPT ![s] = @ \ {r}]
        /\ UNCHANGED clientVars
  /\ UNCHANGED dispatcherVars

TimeOut(s) ==
  /\ phase[s] = "waiting"
  /\ Leave(s, "timedOut")
  /\ inbox' = [inbox EXCEPT ![s] = {}]
  /\ UNCHANGED dispatcherVars

--------------------------------------------------------------------------------
(***************************************************************************)
(* The dispatcher.                                                         *)
(***************************************************************************)

Take(c) ==
  /\ dispatcher
  /\ c \in unread
  /\ unread' = unread \ {c}
  /\ taken' = taken \cup {<<c, written[c]>>}
  /\ toAnswer' = toAnswer \cup {<<c, written[c]>>}
  /\ UNCHANGED <<phase, written, dispatcher, crashes, inbox>>

Answer(r) ==
  /\ r \in toAnswer
  /\ toAnswer' = toAnswer \ {r}
  /\ inbox' = [s \in Sender |->
                 IF Listening(s) THEN inbox[s] \cup {r} ELSE inbox[s]]
  /\ UNCHANGED <<clientVars, dispatcher, crashes, taken>>

DispatcherEnds ==
  /\ dispatcher
  /\ crashes < MaxCrashes
  /\ dispatcher' = FALSE
  /\ crashes' = crashes + 1
  /\ toAnswer' = {}
  /\ unread' = {}
  /\ UNCHANGED <<phase, written, taken, inbox>>

(* Mutant: the publishers are volatile.                                    *)
KeptForLateVolatile == {}

(* What a dispatcher that starts is given: the last sample of every        *)
(* publisher there is.                                                     *)
KeptForLate == {c \in Client : Publishing(c) /\ written[c] > 0}

DispatcherStarts ==
  /\ ~dispatcher
  /\ dispatcher' = TRUE
  /\ unread' = KeptForLate
  /\ UNCHANGED <<phase, written, crashes, taken, toAnswer, inbox>>

--------------------------------------------------------------------------------

Next ==
  \/ WorkerReady \/ Submit \/ Close
  \/ \E t \in Tool : RunTool(t) \/ ToolSends(t) \/ ToolEnds(t)
  \/ \E s \in Sender : StartSender(s) \/ HearEarly(s) \/ SendTask(s) \/ TimeOut(s)
  \/ \E s \in Sender, r \in Request : Hear(s, r)
  \/ \E c \in Client : Take(c)
  \/ \E r \in Request : Answer(r)
  \/ DispatcherEnds \/ DispatcherStarts

(* A dispatcher that runs reads what it is sent.                           *)
Spec == Init /\ [][Next]_vars /\ \A c \in Client : WF_vars(Take(c))

TypeOK ==
  /\ phase \in [Client -> {"starting", "ready", "idle", "running", "discovering",
                           "waiting", "answered", "timedOut", "crashed", "ended"}]
  /\ written \in [Client -> 0 .. MaxRequests]
  /\ unread \subseteq Client
  /\ dispatcher \in BOOLEAN
  /\ crashes \in 0 .. MaxCrashes
  /\ taken \subseteq Request
  /\ toAnswer \subseteq taken
  /\ inbox \in [Sender -> SUBSET taken]

(***************************************************************************)
(* What send_navigation_task.py tells its user is true: the answer it      *)
(* prints is for a request that a dispatcher has taken, whatever other     *)
(* clients are told meanwhile, and a sender that broke down before it sent *)
(* left no task behind.  (After a timeout both are possible, as the        *)
(* message says.)                                                          *)
(***************************************************************************)
OutcomeIsTrue ==
  \A s \in Sender :
    /\ phase[s] = "answered" => <<s, 1>> \in taken
    /\ phase[s] = "crashed" => <<s, 1>> \notin taken

(***************************************************************************)
(* The last request of a publisher that is still there is not lost while a *)
(* dispatcher runs: it waits to be read or was taken, however often the    *)
(* dispatcher ended before (rmf_gui.py:89-104,                             *)
(* send_navigation_task.py:25-31).                                         *)
(***************************************************************************)
LastIsKept ==
  dispatcher =>
    \A c \in KeptForLate : c \in unread \/ <<c, written[c]>> \in taken

(***************************************************************************)
(* The last request of a dashboard that stays open reaches a dispatcher    *)
(* that comes to stay, however late that is; earlier ones may be lost.     *)
(***************************************************************************)
LastRequestTaken ==
  <>[](dispatcher /\ phase[GUI] = "ready") =>
    <>[](written[GUI] > 0 => <<GUI, written[GUI]>> \in taken)

================================================================================
