-------------------------- MODULE TaskDispatch_proofs --------------------------
(***************************************************************************)
(* Proofs about a task on its way through dispatching: the request that    *)
(* asks for it (TaskRequests), for any senders and tools, any number of    *)
(* requests and any number of ends of the dispatcher, and the tracer that  *)
(* follows it (PipelineTracer), for any number of messages.                *)
(***************************************************************************)
EXTENDS TaskRequests, PipelineTracer, TLAPS

(***************************************************************************)
(* What makes the outcome true: whoever has not sent has written nothing,  *)
(* what is to be read was written, and what was taken was written before.  *)
(***************************************************************************)
Unsent == {"starting", "idle", "discovering", "crashed"}

NothingBeforeSending == \A c \in Client : phase[c] \in Unsent => written[c] = 0

UnreadWasWritten == \A c \in unread : written[c] > 0

TakenWasWritten == \A r \in taken : r[2] <= written[r[1]]

AnsweredWasTaken == \A s \in Sender : phase[s] = "answered" => <<s, 1>> \in taken

InductiveInvariant ==
  /\ TypeOK
  /\ NothingBeforeSending
  /\ UnreadWasWritten
  /\ TakenWasWritten
  /\ AnsweredWasTaken

(* The dispatcher and the publishers start with nothing written.           *)
LEMMA InitInvariant == Init => InductiveInvariant
<1> SUFFICES ASSUME Init PROVE InductiveInvariant
  OBVIOUS
<1>1. TypeOK
  BY BoundsAssumption DEF Init, TypeOK
<1>2. AnsweredWasTaken
  BY DEF Init, AnsweredWasTaken, Client
<1>3. NothingBeforeSending /\ UnreadWasWritten /\ TakenWasWritten
  BY DEF Init, NothingBeforeSending, UnreadWasWritten, TakenWasWritten
<1> QED
  BY <1>1, <1>2, <1>3 DEF InductiveInvariant

(* A change of phase alone keeps it, if nobody is taken for one that has   *)
(* not sent or that was answered.                                          *)
LEMMA PhaseChangeKeeps ==
  ASSUME InductiveInvariant,
         NEW c \in Client,
         NEW how \in {"ready", "running", "discovering"},
         phase' = [phase EXCEPT ![c] = how],
         how = "discovering" => phase[c] = "idle",
         UNCHANGED <<written, unread, dispatcherVars, inbox>>
  PROVE  InductiveInvariant'
<1> USE DEF InductiveInvariant, dispatcherVars
<1>1. TypeOK'
  BY DEF TypeOK
<1>2. NothingBeforeSending'
  BY DEF NothingBeforeSending, Unsent, TypeOK
<1>3. UnreadWasWritten' /\ TakenWasWritten'
  BY DEF UnreadWasWritten, TakenWasWritten
<1>4. AnsweredWasTaken'
  BY DEF AnsweredWasTaken, TypeOK, Client
<1> QED
  BY <1>1, <1>2, <1>3, <1>4

(* A client that may publish does: it is past its silence, and within the  *)
(* bound.                                                                  *)
LEMMA PublishKeeps ==
  ASSUME InductiveInvariant,
         NEW c \in Client, Publish(c), written[c] < MaxRequests,
         \/ phase[c] \notin Unsent /\ UNCHANGED phase
         \/ phase' = [phase EXCEPT ![c] = "waiting"],
         UNCHANGED <<dispatcherVars, inbox>>
  PROVE  InductiveInvariant'
<1> USE BoundsAssumption DEF InductiveInvariant, Publish, dispatcherVars
<1>1. TypeOK'
  BY DEF TypeOK
<1>2. NothingBeforeSending'
  BY DEF NothingBeforeSending, Unsent, TypeOK
<1>3. UnreadWasWritten'
  BY DEF UnreadWasWritten, TypeOK
<1>4. TakenWasWritten'
  <2> SUFFICES ASSUME NEW r \in taken
               PROVE  r[2] <= written'[r[1]]
    BY DEF TakenWasWritten
  <2>1. r[1] \in Client /\ r[2] \in Nat /\ r[2] <= written[r[1]]
    BY DEF TypeOK, TakenWasWritten, Request
  <2>2. written[r[1]] \in Nat /\ written'[r[1]] \in {written[r[1]], written[r[1]] + 1}
    BY <2>1 DEF TypeOK
  <2> QED
    BY <2>1, <2>2
<1>5. AnsweredWasTaken'
  BY DEF AnsweredWasTaken, TypeOK, Client
<1> QED
  BY <1>1, <1>2, <1>3, <1>4, <1>5

(* A client that leaves has sent, broke down before it did, or was         *)
(* answered with its own request.                                          *)
LEMMA LeaveKeeps ==
  ASSUME InductiveInvariant,
         NEW c \in Client, NEW how \in {"ended", "crashed", "timedOut", "answered"},
         Leave(c, how),
         how = "crashed" => phase[c] = "discovering",
         how = "answered" => <<c, 1>> \in taken,
         UNCHANGED dispatcherVars,
         inbox' \in [Sender -> SUBSET taken]
  PROVE  InductiveInvariant'
<1> USE DEF InductiveInvariant, Leave, dispatcherVars
<1>1. TypeOK'
  BY DEF TypeOK
<1>2. NothingBeforeSending'
  BY DEF NothingBeforeSending, Unsent, TypeOK
<1>3. UnreadWasWritten' /\ TakenWasWritten'
  BY DEF UnreadWasWritten, TakenWasWritten
<1>4. AnsweredWasTaken'
  BY DEF AnsweredWasTaken, TypeOK, Client
<1> QED
  BY <1>1, <1>2, <1>3, <1>4

(* The dashboard and the tools.                                            *)
LEMMA ToolsKeep ==
  ASSUME InductiveInvariant,
         \/ WorkerReady \/ Submit \/ Close
         \/ \E t \in Tool : RunTool(t) \/ ToolSends(t) \/ ToolEnds(t)
  PROVE  InductiveInvariant'
<1> USE BoundsAssumption DEF Client
<1>0. inbox \in [Sender -> SUBSET taken]
  BY DEF InductiveInvariant, TypeOK
<1>1. CASE WorkerReady
  BY <1>1, PhaseChangeKeeps DEF WorkerReady
<1>2. CASE Submit
  BY <1>2, PublishKeeps DEF Submit, Unsent
<1>3. CASE Close
  BY <1>0, <1>3, LeaveKeeps DEF Close
<1>4. ASSUME NEW t \in Tool, RunTool(t)
      PROVE  InductiveInvariant'
  BY <1>4, PhaseChangeKeeps DEF RunTool
<1>5. ASSUME NEW t \in Tool, ToolSends(t)
      PROVE  InductiveInvariant'
  BY <1>5, PublishKeeps DEF ToolSends, Unsent
<1>6. ASSUME NEW t \in Tool, ToolEnds(t)
      PROVE  InductiveInvariant'
  BY <1>0, <1>6, LeaveKeeps DEF ToolEnds
<1> QED
  BY <1>1, <1>2, <1>3, <1>4, <1>5, <1>6

(* send_navigation_task.py.                                                *)
LEMMA SendersKeep ==
  ASSUME InductiveInvariant, NEW s \in Sender,
         \/ StartSender(s) \/ HearEarly(s) \/ SendTask(s) \/ TimeOut(s)
         \/ \E r \in Request : Hear(s, r)
  PROVE  InductiveInvariant'
<1> USE BoundsAssumption DEF Client
<1>0. inbox \in [Sender -> SUBSET taken]
  BY DEF InductiveInvariant, TypeOK
<1>1. CASE StartSender(s)
  BY <1>1, PhaseChangeKeeps DEF StartSender
<1>2. CASE HearEarly(s)
  BY <1>0, <1>2, LeaveKeeps DEF HearEarly
<1>3. CASE SendTask(s)
  <2>1. written[s] = 0
    BY <1>3 DEF SendTask, InductiveInvariant, NothingBeforeSending, Unsent
  <2> QED
    <3>1. s \in Client /\ written[s] < MaxRequests
      BY <2>1
    <3> QED
      BY <1>3, <3>1, PublishKeeps DEF SendTask
<1>4. CASE TimeOut(s)
  BY <1>0, <1>4, LeaveKeeps DEF TimeOut
<1>5. ASSUME NEW r \in Request, Hear(s, r)
      PROVE  InductiveInvariant'
  <2>1. r \in taken
    BY <1>0, <1>5 DEF Hear
  <2>2. inbox' \in [Sender -> SUBSET taken]
    BY <1>0, <1>5 DEF Hear
  <2>3. CASE r = <<s, 1>>
    BY <1>5, <2>1, <2>2, <2>3, LeaveKeeps DEF Hear
  <2>4. CASE r # <<s, 1>>
    BY <1>5, <2>2, <2>4
       DEF Hear, InductiveInvariant, TypeOK, clientVars, dispatcherVars,
           NothingBeforeSending, UnreadWasWritten, TakenWasWritten, AnsweredWasTaken
  <2> QED
    BY <2>3, <2>4
<1> QED
  BY <1>1, <1>2, <1>3, <1>4, <1>5

(* The dispatcher takes what was written, and answers what it took.        *)
LEMMA DispatcherKeeps ==
  ASSUME InductiveInvariant,
         \/ \E c \in Client : Take(c)
         \/ \E r \in Request : Answer(r)
         \/ DispatcherEnds \/ DispatcherStarts
  PROVE  InductiveInvariant'
<1> USE BoundsAssumption DEF InductiveInvariant, TypeOK
<1>1. ASSUME NEW c \in Client, Take(c)
      PROVE  InductiveInvariant'
  <2> USE <1>1 DEF Take
  <2>1. written[c] \in 1 .. MaxRequests
    BY DEF UnreadWasWritten
  <2>2. <<c, written[c]>> \in Request
    BY <2>1 DEF Request
  <2>3. TypeOK'
    BY <2>2
  <2>4. NothingBeforeSending' /\ UnreadWasWritten'
    BY DEF NothingBeforeSending, UnreadWasWritten
  <2>5. TakenWasWritten'
    BY <2>1 DEF TakenWasWritten
  <2>6. AnsweredWasTaken'
    BY DEF AnsweredWasTaken
  <2> QED
    BY <2>3, <2>4, <2>5, <2>6
<1>2. ASSUME NEW r \in Request, Answer(r)
      PROVE  InductiveInvariant'
  <2> USE <1>2 DEF Answer, clientVars
  <2>1. r \in taken
    OBVIOUS
  <2>2. inbox' \in [Sender -> SUBSET taken]
    BY <2>1
  <2>3. TypeOK'
    BY <2>2
  <2> QED
    BY <2>3 DEF NothingBeforeSending, UnreadWasWritten, TakenWasWritten, AnsweredWasTaken
<1>3. CASE DispatcherEnds
  <2> USE <1>3 DEF DispatcherEnds
  <2>1. TypeOK'
    <3>1. crashes' \in 0 .. MaxCrashes
      OBVIOUS
    <3>2. dispatcher' \in BOOLEAN
      OBVIOUS
    <3> QED
      BY <3>1, <3>2
  <2> QED
    BY <2>1 DEF NothingBeforeSending, UnreadWasWritten, TakenWasWritten, AnsweredWasTaken
<1>4. CASE DispatcherStarts
  <2> USE <1>4 DEF DispatcherStarts, KeptForLate
  <2>1. TypeOK'
    OBVIOUS
  <2> QED
    BY <2>1 DEF NothingBeforeSending, UnreadWasWritten, TakenWasWritten, AnsweredWasTaken
<1> QED
  BY <1>1, <1>2, <1>3, <1>4

(* Every step keeps the invariant.                                         *)
LEMMA NextKeepsInvariant == InductiveInvariant /\ [Next]_vars => InductiveInvariant'
<1> SUFFICES ASSUME InductiveInvariant, [Next]_vars PROVE InductiveInvariant'
  OBVIOUS
<1>1. CASE Next
  BY <1>1, ToolsKeep, SendersKeep, DispatcherKeeps DEF Next
<1>2. CASE UNCHANGED vars
  BY <1>2 DEF vars, clientVars, dispatcherVars, InductiveInvariant, TypeOK,
              NothingBeforeSending, UnreadWasWritten, TakenWasWritten, AnsweredWasTaken
<1> QED
  BY <1>1, <1>2

(* A sender that broke down has written nothing, and so nothing of it was  *)
(* taken.                                                                  *)
LEMMA InvariantIsTrueOutcome == InductiveInvariant => OutcomeIsTrue
<1> SUFFICES ASSUME InductiveInvariant, NEW s \in Sender
             PROVE  /\ phase[s] = "answered" => <<s, 1>> \in taken
                    /\ phase[s] = "crashed" => <<s, 1>> \notin taken
  BY DEF OutcomeIsTrue
<1>1. phase[s] = "answered" => <<s, 1>> \in taken
  BY DEF InductiveInvariant, AnsweredWasTaken
<1>2. ASSUME phase[s] = "crashed", <<s, 1>> \in taken
      PROVE  FALSE
  <2>1. written[s] = 0
    BY <1>2 DEF InductiveInvariant, NothingBeforeSending, Unsent, Client
  <2>2. 1 <= written[s]
    BY <1>2 DEF InductiveInvariant, TakenWasWritten
  <2> QED
    BY <2>1, <2>2
<1> QED
  BY <1>1, <1>2

(* An answer that send_navigation_task.py prints is for a request that a   *)
(* dispatcher has taken, and a sender that broke down left no task, for    *)
(* any senders, tools, requests and restarts of the dispatcher             *)
(* (send_navigation_task.py:36-39, 90-106).                                *)
THEOREM RequestsOutcome == Spec => [](TypeOK /\ OutcomeIsTrue)
<1>1. Spec => []InductiveInvariant
  BY InitInvariant, NextKeepsInvariant, PTL DEF Spec
<1>2. InductiveInvariant => TypeOK /\ OutcomeIsTrue
  BY InvariantIsTrueOutcome DEF InductiveInvariant
<1> QED
  BY <1>1, <1>2, PTL

(***************************************************************************)
(* The last request is kept: what a publisher writes is unread while a     *)
(* dispatcher runs, and one that starts is given what was kept for it.     *)
(***************************************************************************)

(* Whoever is new among the publishers has written nothing yet.            *)
LEMMA ClientsKeepLast ==
  ASSUME InductiveInvariant, LastIsKept, UNCHANGED dispatcherVars,
         \/ WorkerReady \/ Submit \/ Close
         \/ \E t \in Tool : RunTool(t) \/ ToolSends(t) \/ ToolEnds(t)
         \/ \E s \in Sender : \/ StartSender(s) \/ HearEarly(s) \/ SendTask(s)
                             \/ TimeOut(s) \/ \E r \in Request : Hear(s, r)
  PROVE  LastIsKept'
<1> SUFFICES ASSUME dispatcher, NEW c \in Client, c \in KeptForLate'
             PROVE  c \in unread' \/ <<c, written'[c]>> \in taken
  BY DEF LastIsKept, KeptForLate, dispatcherVars
<1> USE DEF InductiveInvariant, TypeOK, NothingBeforeSending, Unsent, LastIsKept,
            KeptForLate, Publishing, dispatcherVars, clientVars, Client
<1>1. CASE WorkerReady \/ \E t \in Tool : RunTool(t)
  BY <1>1 DEF WorkerReady, RunTool
<1>2. CASE Submit \/ \E t \in Tool : ToolSends(t)
  BY <1>2 DEF Submit, ToolSends, Publish
<1>3. CASE Close \/ \E t \in Tool : ToolEnds(t)
  BY <1>3 DEF Close, ToolEnds, Leave
<1>4. ASSUME NEW s \in Sender, StartSender(s) \/ SendTask(s)
      PROVE  c \in unread' \/ <<c, written'[c]>> \in taken
  BY <1>4 DEF StartSender, SendTask, Publish
<1>5. ASSUME NEW s \in Sender, HearEarly(s) \/ TimeOut(s)
      PROVE  c \in unread' \/ <<c, written'[c]>> \in taken
  BY <1>5 DEF HearEarly, TimeOut, Leave
<1>6. ASSUME NEW s \in Sender, NEW r \in Request, Hear(s, r)
      PROVE  c \in unread' \/ <<c, written'[c]>> \in taken
  BY <1>6 DEF Hear, Leave
<1> QED
  BY <1>1, <1>2, <1>3, <1>4, <1>5, <1>6

LEMMA DispatcherKeepsLast ==
  ASSUME LastIsKept,
         \/ \E c \in Client : Take(c)
         \/ \E r \in Request : Answer(r)
         \/ DispatcherEnds \/ DispatcherStarts
  PROVE  LastIsKept'
BY DEF LastIsKept, KeptForLate, Publishing, Take, Answer, DispatcherEnds,
       DispatcherStarts, clientVars

(* The last request of a publisher that is still there is read or taken,   *)
(* however often the dispatcher ended before and for any senders, tools    *)
(* and requests (rmf_gui.py:89-104, send_navigation_task.py:25-31).        *)
THEOREM RequestsKeepLast == Spec => []LastIsKept
<1>1. Init => LastIsKept
  BY DEF Init, LastIsKept, KeptForLate
<1>2. InductiveInvariant /\ LastIsKept /\ [Next]_vars => LastIsKept'
  <2> SUFFICES ASSUME InductiveInvariant, LastIsKept, [Next]_vars
               PROVE  LastIsKept'
    OBVIOUS
  <2>1. CASE WorkerReady \/ Submit \/ Close
             \/ \E t \in Tool : RunTool(t) \/ ToolSends(t) \/ ToolEnds(t)
    <3>1. UNCHANGED dispatcherVars
      BY <2>1 DEF WorkerReady, Submit, Close, RunTool, ToolSends, ToolEnds
    <3> QED
      BY <2>1, <3>1, ClientsKeepLast
  <2>2. ASSUME NEW s \in Sender,
               \/ StartSender(s) \/ HearEarly(s) \/ SendTask(s)
               \/ TimeOut(s) \/ \E r \in Request : Hear(s, r)
        PROVE  LastIsKept'
    <3>1. UNCHANGED dispatcherVars
      BY <2>2 DEF StartSender, HearEarly, SendTask, TimeOut, Hear
    <3> QED
      BY <2>2, <3>1, ClientsKeepLast
  <2>3. CASE \/ \E c \in Client : Take(c)
             \/ \E r \in Request : Answer(r)
             \/ DispatcherEnds \/ DispatcherStarts
    BY <2>3, DispatcherKeepsLast
  <2>4. CASE UNCHANGED vars
    BY <2>4 DEF vars, clientVars, dispatcherVars, LastIsKept, KeptForLate, Publishing
  <2> QED
    BY <2>1, <2>2, <2>3, <2>4 DEF Next
<1>3. Spec => []InductiveInvariant
  BY InitInvariant, NextKeepsInvariant, PTL DEF Spec
<1> QED
  BY <1>1, <1>2, <1>3, PTL DEF Spec

(***************************************************************************)
(* The tracer.                                                             *)
(***************************************************************************)

(* The stage a task had reached when a message was sent about it.          *)
Implied(message) ==
  CASE message = "notice" -> 1
    [] message = "bid" -> 2
    [] message \in {"command", "errors"} -> 3
    [] message \in {"accepted", "FAILED"} -> 4
    [] message = "ACTIVE" -> 5
    [] message = "COMPLETED" -> 6

(* No message runs ahead of the task, nor is one taken that did.           *)
QueuedWasReached ==
  \A t \in Topic : \A i \in 1 .. Len(queue[t]) : Implied(queue[t][i]) <= stage

SeenWasReached == seen \subseteq 1 .. stage

(* A tracer that could always tell the task has heard of it first in the   *)
(* notice, and knows its dispatch id, if there is one to know.             *)
HeardInOrder ==
  ~astray => /\ seen # {} => 1 \in seen
             /\ 3 \in seen /\ dispatchId # 0 => mapped

(* The state repeats only what the tracer has taken for progress before.   *)
StateWasSeen ==
  /\ state = "ACTIVE" => 5 \in seen
  /\ state = "COMPLETED" => 6 \in seen

TracerInvariant ==
  /\ TracerTypeOK
  /\ QueuedWasReached
  /\ SeenWasReached
  /\ HeardInOrder
  /\ StateWasSeen
  /\ NeverAhead
  /\ ShowsFurthestStage

(* Of stages, the greatest is the one that is at least every other.        *)
LEMMA MaxIs ==
  ASSUME NEW S \in SUBSET (0 .. 6), NEW m \in S, \A n \in S : m >= n
  PROVE  Max(S) = m
<1>1. PICK top : top \in S /\ (\A n \in S : top >= n) /\ Max(S) = top
  BY DEF Max
<1>2. top >= m /\ m >= top /\ m \in 0 .. 6 /\ top \in 0 .. 6
  BY <1>1
<1> QED
  BY <1>1, <1>2

LEMMA MaxIsThere ==
  ASSUME NEW S \in SUBSET (0 .. 6), 0 \in S
  PROVE  Max(S) \in S /\ \A n \in S : Max(S) >= n
<1>1. PICK m \in S : \A n \in S : m >= n
  <2>1. \E m \in S : \A n \in S : m >= n
    <3>1. CASE 6 \in S BY <3>1
    <3>2. CASE 6 \notin S /\ 5 \in S BY <3>2
    <3>3. CASE S \subseteq 0 .. 4 /\ 4 \in S BY <3>3
    <3>4. CASE S \subseteq 0 .. 3 /\ 3 \in S BY <3>4
    <3>5. CASE S \subseteq 0 .. 2 /\ 2 \in S BY <3>5
    <3>6. CASE S \subseteq 0 .. 1 /\ 1 \in S BY <3>6
    <3>7. CASE S = {0} BY <3>7
    <3> QED BY <3>1, <3>2, <3>3, <3>4, <3>5, <3>6, <3>7
  <2> QED
    BY <2>1
<1> QED
  BY <1>1, MaxIs

LEMMA MaxOfPair ==
  ASSUME NEW m \in 0 .. 6, NEW n \in 0 .. 6
  PROVE  Max({m, n}) = IF n > m THEN n ELSE m
<1>1. CASE n > m
  BY <1>1, MaxIs
<1>2. CASE ~(n > m)
  BY <1>2, MaxIs
<1> QED
  BY <1>1, <1>2

LEMMA MaxWithOneMore ==
  ASSUME NEW S \in SUBSET (0 .. 6), 0 \in S, NEW n \in 0 .. 6
  PROVE  Max(S \cup {n}) = IF n > Max(S) THEN n ELSE Max(S)
<1>1. Max(S) \in S /\ \A k \in S : Max(S) >= k
  BY MaxIsThere
<1>2. Max(S) \in 0 .. 6 /\ S \subseteq 0 .. 6
  BY <1>1
<1>3. CASE n > Max(S)
  <2>1. ASSUME NEW k \in S PROVE n >= k
    <3>1. k \in 0 .. 6 /\ Max(S) >= k
      BY <1>1, <1>2
    <3> QED
      BY <1>3, <1>2, <3>1
  <2> QED
    BY <1>3, <2>1, MaxIs
<1>4. CASE ~(n > Max(S))
  <2>1. Max(S) >= n
    BY <1>4, <1>2
  <2> QED
    BY <1>1, <1>4, <2>1, MaxIs
<1> QED
  BY <1>3, <1>4

(* What is published says no more than the stage reached.                  *)
LEMMA SentWasReached ==
  ASSUME TracerInvariant,
         NEW t \in Topic, NEW m \in Message, Sent(t, m),
         stage' \in 0 .. 6, stage <= stage', Implied(m) <= stage'
  PROVE  queue' \in [Topic -> Seq(Message)] /\ QueuedWasReached'
<1> USE DEF TracerInvariant, TracerTypeOK
<1>1. queue' \in [Topic -> Seq(Message)]
  BY DEF Sent
<1>2. ASSUME NEW u \in Topic, NEW i \in 1 .. Len(queue'[u])
      PROVE  Implied(queue'[u][i]) <= stage'
  <2>1. CASE i \in 1 .. Len(queue[u]) /\ queue'[u][i] = queue[u][i]
    <3>1. Implied(queue[u][i]) <= stage /\ queue[u][i] \in Message
      BY <2>1 DEF QueuedWasReached
    <3>2. Implied(queue[u][i]) \in Nat
      BY <3>1 DEF Implied, Message
    <3> QED
      BY <2>1, <3>1, <3>2
  <2>2. CASE queue'[u][i] = m
    BY <2>2
  <2> QED
    BY <1>2, <2>1, <2>2 DEF Sent
<1> QED
  BY <1>1, <1>2 DEF QueuedWasReached

(* What is handled, or pushed out, was reached, and the rest still was.    *)
LEMMA TakenWasReached ==
  ASSUME TracerInvariant,
         NEW t \in Topic, queue[t] # << >>,
         queue' = [queue EXCEPT ![t] = Tail(@)], UNCHANGED stage
  PROVE  /\ queue' \in [Topic -> Seq(Message)]
         /\ QueuedWasReached'
         /\ Implied(Head(queue[t])) <= stage
<1> USE DEF TracerInvariant, TracerTypeOK
<1>1. queue[t] \in Seq(Message)
  OBVIOUS
<1>2. /\ Tail(queue[t]) \in Seq(Message)
      /\ Len(queue[t]) \in Nat \ {0}
      /\ Len(Tail(queue[t])) = Len(queue[t]) - 1
      /\ Head(queue[t]) = queue[t][1]
      /\ \A i \in 1 .. Len(queue[t]) - 1 : Tail(queue[t])[i] = queue[t][i + 1]
  BY <1>1
<1>3. queue' \in [Topic -> Seq(Message)]
  BY <1>2
<1>4. QueuedWasReached'
  BY <1>2 DEF QueuedWasReached
<1>5. Implied(Head(queue[t])) <= stage
  BY <1>2 DEF QueuedWasReached
<1> QED
  BY <1>3, <1>4, <1>5

(* RMF publishes: the task moves on, and nothing the tracer knows changes. *)
LEMMA PublishingKeepsTracer ==
  ASSUME TracerInvariant,
         NEW t \in Topic, NEW m \in Message, Sent(t, m),
         stage' \in 0 .. 6, stage <= stage', Implied(m) <= stage',
         over' \in BOOLEAN,
         dispatchId' = dispatchId \/ (stage = 2 /\ dispatchId' \in {0, 1}),
         UNCHANGED <<tracing, shownVars, seen, astray>>
  PROVE  TracerInvariant'
<1> USE DEF shownVars
<1>1. queue' \in [Topic -> Seq(Message)] /\ QueuedWasReached'
  BY SentWasReached
<1> USE DEF TracerInvariant, TracerTypeOK
<1>2. TracerTypeOK'
  BY <1>1
<1>3. SeenWasReached' /\ NeverAhead'
  BY DEF SeenWasReached, NeverAhead
<1>4. HeardInOrder'
  <2>1. stage = 2 => 3 \notin seen
    BY DEF SeenWasReached
  <2> QED
    BY <2>1 DEF HeardInOrder
<1>5. StateWasSeen' /\ ShowsFurthestStage'
  BY DEF StateWasSeen, ShowsFurthestStage
<1> QED
  BY <1>1, <1>2, <1>3, <1>4, <1>5

LEMMA RmfKeepsTracer ==
  ASSUME TracerInvariant,
         \/ Announce \/ Bid \/ Award \/ Accept \/ Refuse
         \/ Run \/ RunOn \/ Complete \/ Fail
  PROVE  TracerInvariant'
<1>1. stage \in 0 .. 6 /\ over \in BOOLEAN
  BY DEF TracerInvariant, TracerTypeOK
<1> USE <1>1, PublishingKeepsTracer DEF Implied, Topic, Message
<1>2. CASE Announce
  BY <1>2 DEF Announce
<1>3. CASE Bid
  BY <1>3 DEF Bid
<1>4. CASE Award
  BY <1>4 DEF Award
<1>5. CASE Accept
  BY <1>5 DEF Accept
<1>6. CASE Refuse
  BY <1>6 DEF Refuse
<1>7. CASE Run
  BY <1>7 DEF Run
<1>8. CASE RunOn
  BY <1>8 DEF RunOn, taskVars
<1>9. CASE Complete
  BY <1>9 DEF Complete
<1>10. CASE Fail
  BY <1>10 DEF Fail
<1> QED
  BY <1>2, <1>3, <1>4, <1>5, <1>6, <1>7, <1>8, <1>9, <1>10

LEMMA AtLeastIs ==
  ASSUME TracerInvariant, NEW n \in 0 .. 6
  PROVE  AtLeast(n) = IF n > progress THEN n ELSE progress
<1>1. progress \in 0 .. 6
  BY DEF TracerInvariant, TracerTypeOK
<1> QED
  BY <1>1, MaxOfPair DEF AtLeast

(* A message that counts for stage n: the tracer takes it for progress if  *)
(* it knows the task, and always does if it can tell whose it is.          *)
LEMMA SawKeepsTracer ==
  ASSUME TracerInvariant,
         NEW n \in 1 .. 6, n <= stage, seen' = seen \cup {n},
         astray' \in BOOLEAN, astray => astray',
         queue' \in [Topic -> Seq(Message)], QueuedWasReached',
         UNCHANGED <<taskVars, tracing>>,
         latest' \in BOOLEAN, mapped' \in BOOLEAN,
         state' \in {"none", "ACTIVE", "FAILED", "COMPLETED"}, StateWasSeen',
         progress' \in {progress, n, AtLeast(n)},
         \/ astray'
         \/ n = 1 /\ seen = {} /\ progress' = 1
         \/ 1 \in seen /\ progress' = AtLeast(n),
         mapped => mapped',
         n = 3 /\ dispatchId # 0 => mapped'
  PROVE  TracerInvariant'
<1> USE DEF taskVars
<1>1. progress \in 0 .. 6 /\ progress <= stage /\ stage \in 0 .. 6 /\ seen \subseteq 1 .. stage
     /\ n \in 0 .. 6
  BY DEF TracerInvariant, TracerTypeOK, NeverAhead, SeenWasReached
<1>2. AtLeast(n) = IF n > progress THEN n ELSE progress
  BY <1>1, AtLeastIs
<1>3. TracerTypeOK'
  <2>1. progress' \in 0 .. 6 /\ seen' \subseteq 1 .. 6
    BY <1>1, <1>2
  <2> QED
    BY <2>1 DEF TracerInvariant, TracerTypeOK
<1>4. NeverAhead' /\ SeenWasReached'
  BY <1>1, <1>2 DEF NeverAhead, SeenWasReached
<1>5. HeardInOrder'
  <2> SUFFICES ASSUME ~astray'
               PROVE  1 \in seen' /\ (3 \in seen' /\ dispatchId' # 0 => mapped')
    BY DEF HeardInOrder
  <2>1. ~astray
    OBVIOUS
  <2>2. 3 \in seen /\ dispatchId # 0 => mapped
    BY <2>1 DEF TracerInvariant, HeardInOrder
  <2> QED
    BY <2>1, <2>2
<1>6. ShowsFurthestStage'
  <2> SUFFICES ASSUME ~astray'
               PROVE  progress' = Max(seen' \cup {0})
    BY DEF ShowsFurthestStage
  <2>1. ~astray /\ progress = Max(seen \cup {0})
    BY DEF TracerInvariant, ShowsFurthestStage
  <2>2. CASE n = 1 /\ seen = {} /\ progress' = 1
    <3>1. seen' \cup {0} = {0, 1}
      BY <2>2
    <3> QED
      BY <2>2, <3>1, MaxOfPair
  <2>3. CASE 1 \in seen /\ progress' = AtLeast(n)
    <3> DEFINE told == seen \cup {0}
    <3>1. told \in SUBSET (0 .. 6) /\ 0 \in told /\ seen' \cup {0} = told \cup {n}
      BY <1>1
    <3> HIDE DEF told
    <3>2. Max(told \cup {n}) = IF n > Max(told) THEN n ELSE Max(told)
      <4>1. n \in 0 .. 6
        BY <1>1
      <4> QED
        BY <3>1, <4>1, MaxWithOneMore
    <3>3. progress = Max(told)
      BY <2>1 DEF told
    <3>4. progress' = Max(told \cup {n})
      BY <1>2, <2>3, <3>2, <3>3
    <3> QED
      BY <3>1, <3>4
  <2> QED
    BY <2>1, <2>2, <2>3
<1> QED
  BY <1>3, <1>4, <1>5, <1>6 DEF TracerInvariant

(* While it could always tell, the tracer has an entry once it has heard   *)
(* of the task.                                                            *)
LEMMA HeardOfHasEntry ==
  ASSUME TracerInvariant, ~astray
  PROVE  \A n \in seen : progress >= n /\ progress # 0
<1>1. progress = Max(seen \cup {0}) /\ seen \subseteq 1 .. 6
  BY DEF TracerInvariant, TracerTypeOK, ShowsFurthestStage
<1>2. seen \cup {0} \in SUBSET (0 .. 6)
  BY <1>1
<1>3. progress \in 0 .. 6 /\ \A n \in seen \cup {0} : progress >= n
  BY <1>1, <1>2, MaxIsThere
<1> QED
  BY <1>1, <1>3

(* Each callback of the tracer.                                            *)
LEMMA CallbacksKeepTracer ==
  ASSUME TracerInvariant,
         BidNotice \/ BidResponse \/ DispatchRequest \/ DispatchAck \/ TaskSummary
  PROVE  TracerInvariant'
<1>1. ASSUME NEW t \in Topic, NEW m \in Message, Handle(t, m)
      PROVE  /\ queue' \in [Topic -> Seq(Message)]
             /\ QueuedWasReached'
             /\ Implied(m) <= stage
             /\ UNCHANGED <<taskVars, tracing>>
  BY <1>1, TakenWasReached DEF Handle, taskVars
<1>2. /\ latest \in BOOLEAN /\ mapped \in BOOLEAN
      /\ state \in {"none", "ACTIVE", "FAILED", "COMPLETED"}
  BY DEF TracerInvariant, TracerTypeOK
<1>3. ~astray /\ 1 \in seen => progress # 0
  BY HeardOfHasEntry
<1>4. StateWasSeen
  BY DEF TracerInvariant
<1>5. CASE BidNotice
  <2>1. Handle("bid_notice", "notice") /\ Implied("notice") = 1
    BY <1>5 DEF BidNotice, Implied
  <2>2. queue' \in [Topic -> Seq(Message)] /\ QueuedWasReached' /\ 1 <= stage
    BY <1>1, <2>1 DEF Topic, Message
  <2>3. StateWasSeen'
    BY <1>4, <1>5 DEF BidNotice, Saw, StateWasSeen
  <2>4. /\ seen' = seen \cup {1} /\ astray' \in BOOLEAN /\ progress' = 1
        /\ astray => astray'
        /\ astray' \/ seen = {}
    BY <1>5 DEF BidNotice, Saw
  <2>5. UNCHANGED <<taskVars, tracing, mapped, state>> /\ latest' \in BOOLEAN
    BY <1>1, <1>5, <2>1 DEF BidNotice, Topic, Message
  <2> QED
    BY <1>2, <2>2, <2>3, <2>4, <2>5, SawKeepsTracer
<1>6. CASE BidResponse
  <2>1. Handle("bid_response", "bid") /\ Implied("bid") = 2
    BY <1>6 DEF BidResponse, Implied
  <2>2. queue' \in [Topic -> Seq(Message)] /\ QueuedWasReached' /\ 2 <= stage
    BY <1>1, <2>1 DEF Topic, Message
  <2>3. StateWasSeen'
    BY <1>4, <1>6 DEF BidResponse, Saw, StateWasSeen
  <2>4. /\ seen' = seen \cup {2} /\ astray' \in BOOLEAN
        /\ progress' \in {progress, AtLeast(2)}
        /\ astray => astray'
        /\ astray' \/ (1 \in seen /\ progress' = AtLeast(2))
    BY <1>3, <1>6 DEF BidResponse, Saw
  <2>5. UNCHANGED <<taskVars, tracing, latest, mapped, state>>
    BY <1>1, <1>6, <2>1 DEF BidResponse, Topic, Message
  <2> QED
    BY <1>2, <2>2, <2>3, <2>4, <2>5, SawKeepsTracer
<1>7. CASE DispatchRequest
  <2>1. Handle("dispatch_request", "command") /\ Implied("command") = 3
    BY <1>7 DEF DispatchRequest, Implied
  <2>2. queue' \in [Topic -> Seq(Message)] /\ QueuedWasReached' /\ 3 <= stage
    BY <1>1, <2>1 DEF Topic, Message
  <2>3. StateWasSeen'
    BY <1>4, <1>7 DEF DispatchRequest, Saw, StateWasSeen
  <2>4. /\ seen' = seen \cup {3} /\ astray' \in BOOLEAN
        /\ progress' = AtLeast(3)
        /\ astray => astray'
        /\ astray' \/ 1 \in seen
    BY <1>7 DEF DispatchRequest, Saw
  <2>5. /\ UNCHANGED <<taskVars, tracing, state>>
        /\ latest' \in BOOLEAN /\ mapped' \in BOOLEAN
        /\ mapped => mapped'
        /\ dispatchId # 0 => mapped'
    BY <1>1, <1>7, <2>1 DEF DispatchRequest, Topic, Message
  <2> QED
    BY <1>2, <2>2, <2>3, <2>4, <2>5, SawKeepsTracer
<1>8. CASE DispatchAck
  <2>1. ASSUME Handle("dispatch_ack", "accepted"), Saw(4, 3 \in seen /\ dispatchId # 0),
               progress' = (IF mapped THEN AtLeast(4) ELSE progress),
               UNCHANGED <<latest, mapped, state>>
        PROVE  TracerInvariant'
    <3>1. Implied("accepted") = 4
      BY DEF Implied
    <3>2. queue' \in [Topic -> Seq(Message)] /\ QueuedWasReached' /\ 4 <= stage
      BY <1>1, <2>1, <3>1 DEF Topic, Message
    <3>3. StateWasSeen'
      BY <1>4, <2>1 DEF Saw, StateWasSeen
    <3>4. ~astray /\ 3 \in seen /\ dispatchId # 0 => 1 \in seen /\ progress' = AtLeast(4)
      BY <2>1 DEF TracerInvariant, HeardInOrder
    <3>5. UNCHANGED <<taskVars, tracing>>
      BY <1>1, <2>1 DEF Topic, Message
    <3>6. /\ seen' = seen \cup {4} /\ astray' \in BOOLEAN
          /\ astray => astray'
          /\ astray' \/ (1 \in seen /\ progress' = AtLeast(4))
      BY <2>1, <3>4 DEF Saw
    <3> QED
      BY <1>2, <2>1, <3>2, <3>3, <3>5, <3>6, SawKeepsTracer
  <2>2. ASSUME Handle("dispatch_ack", "errors"), UNCHANGED <<shownVars, seen, astray>>
        PROVE  TracerInvariant'
    <3>1. queue' \in [Topic -> Seq(Message)] /\ QueuedWasReached'
      BY <1>1, <2>2 DEF Topic, Message
    <3> QED
      BY <2>2, <3>1
         DEF Handle, taskVars, shownVars, TracerInvariant, TracerTypeOK, SeenWasReached,
             HeardInOrder, StateWasSeen, NeverAhead, ShowsFurthestStage
  <2> QED
    BY <1>8, <2>1, <2>2 DEF DispatchAck
<1>9. CASE TaskSummary
  <2>1. ASSUME Handle("task_summaries", "ACTIVE"), state' = "ACTIVE",
               progress' = (IF progress # 0 /\ state # "ACTIVE" THEN AtLeast(5) ELSE progress),
               Saw(5, 1 \in seen), UNCHANGED <<latest, mapped>>
        PROVE  TracerInvariant'
    <3>1. Implied("ACTIVE") = 5
      BY DEF Implied
    <3>2. queue' \in [Topic -> Seq(Message)] /\ QueuedWasReached' /\ 5 <= stage
      BY <1>1, <2>1, <3>1 DEF Topic, Message
    <3>3. StateWasSeen'
      BY <2>1 DEF Saw, StateWasSeen
    <3>4. ~astray /\ 1 \in seen => progress' = AtLeast(5)
      <4> SUFFICES ASSUME ~astray, 1 \in seen, state = "ACTIVE"
                   PROVE  progress = AtLeast(5)
        BY <1>3, <2>1
      <4>1. progress >= 5 /\ progress \in 0 .. 6
        BY <1>4, HeardOfHasEntry DEF StateWasSeen, TracerInvariant, TracerTypeOK
      <4> QED
        BY <4>1, AtLeastIs
    <3>5. UNCHANGED <<taskVars, tracing>>
      BY <1>1, <2>1 DEF Topic, Message
    <3>6. /\ seen' = seen \cup {5} /\ astray' \in BOOLEAN
          /\ astray => astray'
          /\ astray' \/ (1 \in seen /\ progress' = AtLeast(5))
      BY <2>1, <3>4 DEF Saw
    <3> QED
      BY <1>2, <2>1, <3>2, <3>3, <3>5, <3>6, SawKeepsTracer
  <2>2. ASSUME Handle("task_summaries", "COMPLETED"), state' = "COMPLETED",
               progress' = (IF progress # 0 /\ state # "COMPLETED" THEN 6 ELSE progress),
               Saw(6, 1 \in seen), UNCHANGED <<latest, mapped>>
        PROVE  TracerInvariant'
    <3>1. Implied("COMPLETED") = 6
      BY DEF Implied
    <3>2. queue' \in [Topic -> Seq(Message)] /\ QueuedWasReached' /\ 6 <= stage
      BY <1>1, <2>2, <3>1 DEF Topic, Message
    <3>3. StateWasSeen'
      BY <2>2 DEF Saw, StateWasSeen
    <3>4. AtLeast(6) = 6
      <4>1. progress \in 0 .. 6
        BY DEF TracerInvariant, TracerTypeOK
      <4> QED
        BY <4>1, AtLeastIs
    <3>5. ~astray /\ 1 \in seen => progress' = AtLeast(6)
      <4> SUFFICES ASSUME ~astray, 1 \in seen, state = "COMPLETED"
                   PROVE  progress = 6
        BY <1>3, <2>2, <3>4
      <4>1. progress >= 6 /\ progress \in 0 .. 6
        BY <1>4, HeardOfHasEntry DEF StateWasSeen, TracerInvariant, TracerTypeOK
      <4> QED
        BY <4>1
    <3>6. UNCHANGED <<taskVars, tracing>>
      BY <1>1, <2>2 DEF Topic, Message
    <3>7. /\ seen' = seen \cup {6} /\ astray' \in BOOLEAN
          /\ astray => astray'
          /\ astray' \/ (1 \in seen /\ progress' = AtLeast(6))
      BY <2>2, <3>5 DEF Saw
    <3> QED
      BY <1>2, <2>2, <3>2, <3>3, <3>4, <3>6, <3>7, SawKeepsTracer
  <2>3. ASSUME Handle("task_summaries", "FAILED"), state' = "FAILED",
               UNCHANGED <<progress, latest, mapped, seen, astray>>
        PROVE  TracerInvariant'
    <3>1. queue' \in [Topic -> Seq(Message)] /\ QueuedWasReached'
      BY <1>1, <2>3 DEF Topic, Message
    <3> QED
      BY <2>3, <3>1
         DEF Handle, taskVars, TracerInvariant, TracerTypeOK, SeenWasReached,
             HeardInOrder, StateWasSeen, NeverAhead, ShowsFurthestStage
  <2> QED
    BY <1>9, <2>1, <2>2, <2>3 DEF TaskSummary
<1> QED
  BY <1>5, <1>6, <1>7, <1>8, <1>9

(* Every step keeps the invariant.                                         *)
LEMMA NextKeepsTracer == TracerInvariant /\ [TracerNext]_tracerVars => TracerInvariant'
<1> SUFFICES ASSUME TracerInvariant, [TracerNext]_tracerVars
             PROVE  TracerInvariant'
  OBVIOUS
<1>1. ASSUME NEW t \in Topic, PushedOut(t)
      PROVE  TracerInvariant'
  <2>1. queue' \in [Topic -> Seq(Message)] /\ QueuedWasReached'
    BY <1>1, TakenWasReached DEF PushedOut, taskVars
  <2> QED
    BY <1>1, <2>1
       DEF PushedOut, taskVars, shownVars, TracerInvariant, TracerTypeOK, SeenWasReached,
           HeardInOrder, StateWasSeen, NeverAhead, ShowsFurthestStage
<1>2. CASE StartTracer \/ OtherTask \/ UNCHANGED tracerVars
  BY <1>2 DEF StartTracer, OtherTask, tracerVars, taskVars, shownVars, TracerInvariant,
              TracerTypeOK, QueuedWasReached, SeenWasReached, HeardInOrder, StateWasSeen,
              NeverAhead, ShowsFurthestStage
<1> QED
  BY <1>1, <1>2, RmfKeepsTracer, CallbacksKeepTracer DEF TracerNext

LEMMA TracerKeepsInvariant == TracerSpec => []TracerInvariant
<1>1. ASSUME TracerInit PROVE TracerInvariant
  <2>1. << >> \in Seq(Message) /\ Len(<< >>) = 0
    OBVIOUS
  <2>2. TracerTypeOK /\ QueuedWasReached
    <3>1. queue \in [Topic -> Seq(Message)] /\ \A t \in Topic : Len(queue[t]) = 0
      BY <1>1, <2>1 DEF TracerInit
    <3>2. QueuedWasReached
      BY <3>1 DEF QueuedWasReached
    <3>3. stage = 0 /\ dispatchId = 0 /\ progress = 0 /\ state = "none" /\ seen = {}
      BY <1>1 DEF TracerInit
    <3>4. {over, tracing, latest, mapped, astray} \subseteq BOOLEAN
      BY <1>1 DEF TracerInit
    <3> QED
      BY <3>1, <3>2, <3>3, <3>4 DEF TracerTypeOK
  <2>3. Max(seen \cup {0}) = 0
    <3>1. seen \cup {0} = {0}
      BY <1>1 DEF TracerInit
    <3> QED
      BY <3>1, MaxIs
  <2> QED
    BY <1>1, <2>2, <2>3
       DEF TracerInit, TracerInvariant, SeenWasReached, HeardInOrder, StateWasSeen,
           NeverAhead, ShowsFurthestStage
<1> QED
  BY <1>1, NextKeepsTracer, PTL DEF TracerSpec

(* The tracer shows no stage that was not reached, for any number of       *)
(* messages, in whatever order it reads its topics                         *)
(* (system_diagnostics.py:173-251).                                        *)
THEOREM TracerNeverAhead == TracerSpec => [](TracerTypeOK /\ NeverAhead)
<1>1. TracerInvariant => TracerTypeOK /\ NeverAhead
  BY DEF TracerInvariant
<1> QED
  BY <1>1, TracerKeepsInvariant, PTL

(* While every message could be told to be our task's, the furthest stage  *)
(* of them is the one shown (system_diagnostics.py:173-251).               *)
THEOREM TracerShowsFurthest == TracerSpec => []ShowsFurthestStage
<1>1. TracerInvariant => ShowsFurthestStage
  BY DEF TracerInvariant
<1> QED
  BY <1>1, TracerKeepsInvariant, PTL
================================================================================
