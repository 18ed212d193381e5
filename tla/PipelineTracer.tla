----------------------------- MODULE PipelineTracer -----------------------------
(***************************************************************************)
(* system_diagnostics.py follows every task through the stages             *)
(*   1 bidding, 2 bids, 3 award, 4 accept, 5 running, 6 complete           *)
(* (0 is the request), which it hears of on five topics.  ROS orders the   *)
(* messages of one topic only, keeps the last ten of each, and tells a     *)
(* tracer that starts late nothing of what was before.                     *)
(*                                                                         *)
(* This is one task of many: the other tasks show as the one displayed     *)
(* and as messages that push ours out of a full queue.  Dispatch ids of    *)
(* different tasks differ.  Who publishes what is RMF's business and       *)
(* external; the handlers are the tracer's.                                *)
(***************************************************************************)
EXTENDS Naturals, Sequences, FiniteSetsExt

Topic == {"bid_notice", "bid_response", "dispatch_request", "dispatch_ack",
          "task_summaries"}

Message == {"notice", "bid", "command", "accepted", "errors",
            "ACTIVE", "COMPLETED", "FAILED"}

VARIABLES
  stage,        \* how far the task has come
  over,         \* it was refused or failed
  dispatchId,   \* the id of its dispatch command; 0 is an id as well
  queue,        \* what the tracer has not handled, per topic
  tracing,      \* the tracer runs
  progress,     \* task_pipelines[tid]; 0 while it has no entry
  latest,       \* latest_tid is ours
  mapped,       \* dispatch_to_task has our id
  state,        \* tasks[tid].state
  seen,         \* history: the stages the tracer handled a message of
  astray        \* history: one of them could not be told to be our task's

taskVars == <<stage, over, dispatchId>>
shownVars == <<progress, latest, mapped, state>>
tracerVars == <<taskVars, queue, tracing, shownVars, seen, astray>>

TracerInit ==
  /\ stage = 0
  /\ over = FALSE
  /\ dispatchId = 0
  /\ queue = [t \in Topic |-> << >>]
  /\ tracing \in BOOLEAN
  /\ progress = 0
  /\ latest = FALSE
  /\ mapped = FALSE
  /\ state = "none"
  /\ seen = {}
  /\ astray = FALSE

--------------------------------------------------------------------------------
(***************************************************************************)
(* What RMF publishes.                                                     *)
(***************************************************************************)

Sent(topic, message) ==
  queue' = IF tracing THEN [queue EXCEPT ![topic] = Append(@, message)] ELSE queue

(* The dispatcher invites bids.                                            *)
Announce ==
  /\ stage = 0
  /\ stage' = 1
  /\ Sent("bid_notice", "notice")
  /\ UNCHANGED <<over, dispatchId, tracing, shownVars, seen, astray>>

Bid ==
  /\ stage = 1
  /\ stage' = 2
  /\ Sent("bid_response", "bid")
  /\ UNCHANGED <<over, dispatchId, tracing, shownVars, seen, astray>>

Award ==
  /\ stage = 2
  /\ stage' = 3
  /\ dispatchId' \in {0, 1}
  /\ Sent("dispatch_request", "command")
  /\ UNCHANGED <<over, tracing, shownVars, seen, astray>>

Accept ==
  /\ stage = 3 /\ ~over
  /\ stage' = 4
  /\ Sent("dispatch_ack", "accepted")
  /\ UNCHANGED <<over, dispatchId, tracing, shownVars, seen, astray>>

(* The acknowledgement has errors.                                         *)
Refuse ==
  /\ stage = 3 /\ ~over
  /\ over' = TRUE
  /\ Sent("dispatch_ack", "errors")
  /\ UNCHANGED <<stage, dispatchId, tracing, shownVars, seen, astray>>

Run ==
  /\ stage = 4 /\ ~over
  /\ stage' = 5
  /\ Sent("task_summaries", "ACTIVE")
  /\ UNCHANGED <<over, dispatchId, tracing, shownVars, seen, astray>>

(* Summaries are repeated while nothing changes.                           *)
RunOn ==
  /\ stage = 5 /\ ~over
  /\ queue["task_summaries"] = << >>
  /\ tracing
  /\ Sent("task_summaries", "ACTIVE")
  /\ UNCHANGED <<taskVars, tracing, shownVars, seen, astray>>

Complete ==
  /\ stage = 5 /\ ~over
  /\ stage' = 6
  /\ Sent("task_summaries", "COMPLETED")
  /\ UNCHANGED <<over, dispatchId, tracing, shownVars, seen, astray>>

Fail ==
  /\ stage \in {4, 5} /\ ~over
  /\ over' = TRUE
  /\ Sent("task_summaries", "FAILED")
  /\ UNCHANGED <<stage, dispatchId, tracing, shownVars, seen, astray>>

(* Messages of other tasks push our oldest out.                            *)
PushedOut(t) ==
  /\ queue[t] # << >>
  /\ queue' = [queue EXCEPT ![t] = Tail(@)]
  /\ UNCHANGED <<taskVars, tracing, shownVars, seen, astray>>

--------------------------------------------------------------------------------
(***************************************************************************)
(* The tracer.                                                             *)
(***************************************************************************)

(* main: the node and its subscriptions.                                   *)
StartTracer ==
  /\ ~tracing
  /\ tracing' = TRUE
  /\ UNCHANGED <<taskVars, queue, shownVars, seen, astray>>

AtLeast(n) == Max({progress, n})

(* spin_once hands the oldest message of a topic to its callback.          *)
Handle(t, message) ==
  /\ queue[t] # << >>
  /\ message = Head(queue[t])
  /\ queue' = [queue EXCEPT ![t] = Tail(@)]
  /\ UNCHANGED <<taskVars, tracing>>

(* History.                                                                *)
Saw(n, attributable) ==
  /\ seen' = seen \cup {n}
  /\ astray' = (astray \/ ~attributable)

(* _bid_notice_cb.                                                         *)
BidNotice ==
  /\ Handle("bid_notice", "notice")
  /\ progress' = 1
  /\ latest' = TRUE
  /\ Saw(1, seen = {})
  /\ UNCHANGED <<mapped, state>>

(* Mutant: a bid is taken for the latest news.                             *)
BidResponseSetsBack ==
  /\ Handle("bid_response", "bid")
  /\ progress' = IF progress = 0 THEN 0 ELSE 2
  /\ Saw(2, 1 \in seen)
  /\ UNCHANGED <<latest, mapped, state>>

(* _bid_response_cb: only of a task it has heard of.                       *)
BidResponse ==
  /\ Handle("bid_response", "bid")
  /\ progress' = IF progress = 0 THEN 0 ELSE AtLeast(2)
  /\ Saw(2, 1 \in seen)
  /\ UNCHANGED <<latest, mapped, state>>

(* _dispatch_request_cb: id 0 is not written down.                         *)
DispatchRequest ==
  /\ Handle("dispatch_request", "command")
  /\ mapped' = (mapped \/ dispatchId # 0)
  /\ progress' = AtLeast(3)
  /\ latest' = TRUE
  /\ Saw(3, 1 \in seen)
  /\ UNCHANGED state

(* Mutant: the errors of an acknowledgement are not looked at.             *)
DispatchAckUnread ==
  \E m \in {"accepted", "errors"} :
    /\ Handle("dispatch_ack", m)
    /\ progress' = IF mapped THEN AtLeast(4) ELSE progress
    /\ Saw(IF m = "accepted" THEN 4 ELSE 3, 3 \in seen /\ dispatchId # 0)
    /\ UNCHANGED <<latest, mapped, state>>

(* _dispatch_ack_cb: it names the dispatch, not the task.                  *)
DispatchAck ==
  \/ /\ Handle("dispatch_ack", "accepted")
     /\ progress' = IF mapped THEN AtLeast(4) ELSE progress
     /\ Saw(4, 3 \in seen /\ dispatchId # 0)
     /\ UNCHANGED <<latest, mapped, state>>
  \/ /\ Handle("dispatch_ack", "errors")
     /\ UNCHANGED <<shownVars, seen, astray>>

(* _task_summary_cb: what repeats the state says nothing new, and neither  *)
(* does a failure.                                                         *)
TaskSummary ==
  \/ /\ Handle("task_summaries", "ACTIVE")
     /\ state' = "ACTIVE"
     /\ progress' = IF progress # 0 /\ state # "ACTIVE" THEN AtLeast(5) ELSE progress
     /\ Saw(5, 1 \in seen)
     /\ UNCHANGED <<latest, mapped>>
  \/ /\ Handle("task_summaries", "COMPLETED")
     /\ state' = "COMPLETED"
     /\ progress' = IF progress # 0 /\ state # "COMPLETED" THEN 6 ELSE progress
     /\ Saw(6, 1 \in seen)
     /\ UNCHANGED <<latest, mapped>>
  \/ /\ Handle("task_summaries", "FAILED")
     /\ state' = "FAILED"
     /\ UNCHANGED <<progress, latest, mapped, seen, astray>>

(* A notice or a command of another task takes over the display.           *)
OtherTask ==
  /\ tracing /\ latest
  /\ latest' = FALSE
  /\ UNCHANGED <<taskVars, queue, tracing, progress, mapped, state, seen, astray>>

--------------------------------------------------------------------------------

TracerNext ==
  \/ Announce \/ Bid \/ Award \/ Accept \/ Refuse
  \/ Run \/ RunOn \/ Complete \/ Fail
  \/ \E t \in Topic : PushedOut(t)
  \/ StartTracer
  \/ BidNotice \/ BidResponse \/ DispatchRequest \/ DispatchAck \/ TaskSummary
  \/ OtherTask

TracerSpec == TracerInit /\ [][TracerNext]_tracerVars

TracerTypeOK ==
  /\ stage \in 0 .. 6
  /\ over \in BOOLEAN
  /\ dispatchId \in {0, 1}
  /\ queue \in [Topic -> Seq(Message)]
  /\ tracing \in BOOLEAN
  /\ progress \in 0 .. 6
  /\ latest \in BOOLEAN
  /\ mapped \in BOOLEAN
  /\ state \in {"none", "ACTIVE", "FAILED", "COMPLETED"}
  /\ seen \subseteq 1 .. 6
  /\ astray \in BOOLEAN

(***************************************************************************)
(* The tracer never shows a stage the task has not reached, in whatever    *)
(* order the topics are read, whatever was lost and whenever it started.   *)
(***************************************************************************)
NeverAhead == progress <= stage

(***************************************************************************)
(* A tracer that reads the bid notice before the rest and the dispatch     *)
(* command before its acknowledgement shows the furthest stage it was told *)
(* of: all other disorder and every loss is made good.                     *)
(***************************************************************************)
ShowsFurthestStage == ~astray => progress = Max(seen \cup {0})

================================================================================
