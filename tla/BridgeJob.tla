------------------------------ MODULE BridgeJob ------------------------------
(***************************************************************************)
(* One job of the bridge registry (internal/bridge/bridge.go) and everyone *)
(* who touches it at once:                                                 *)
(*                                                                         *)
(*   - the StreamReply goroutine, the only reader of job.queue (Consumer); *)
(*   - MockAgent.Run, dispatchWebhook or the handler that created the job  *)
(*     over HTTP, whichever the mode calls for (Agent);                    *)
(*   - HTTP handlers of the hub calling EnqueueEvent, Complete and Cancel  *)
(*     on behalf of the remote agent and of the user (Callers).            *)
(*                                                                         *)
(* The registry mutex only guards the map: every read and write of         *)
(* job.Status happens outside of it, so each is a step of its own and a    *)
(* caller may stop for any time between the check and the act.  A torn     *)
(* read of the status string matches no literal of the code and counts as  *)
(* "not ended"; a caller that read the status before the job ended does    *)
(* the same, so torn reads add no outcome.                                 *)
(*                                                                         *)
(* A call that returns at its first check changes nothing and is left out. *)
(***************************************************************************)
EXTENDS Naturals, Sequences

CONSTANTS
  Callers,     (* HTTP handler goroutines                                  *)
  Modes,       (* how the job may have come about, see Init                *)
  QueueCap,    (* capacity of job.queue (128 in the code)                  *)
  MockEvents,  (* events MockAgent pushes before its assistant_done        *)
  MaxCalls     (* bound of the model: HTTP calls that pass their check     *)

Consumer == "consumer"
Agent == "agent"
Proc == Callers \cup {Consumer, Agent}
AllModes == {"mock", "webhook", "unknown", "inbound"}

ASSUME ConstantsAssumption ==
  /\ Modes \subseteq AllModes
  /\ QueueCap \in Nat \ {0}
  /\ MockEvents \in Nat
  /\ MaxCalls \in Nat
  /\ Callers \cap {Consumer, Agent} = {}
------------------------------------------------------------------------------
(* "delta" stands for every event that is not an assistant_done.  The      *)
(* others are assistant_done events: from the agent, with an error, of a   *)
(* cancellation, of the deadline.                                          *)
Final == {"done", "failed", "cancelled", "timeout"}
Event == Final \cup {"delta"}

Status == {"pending", "running", "completed", "cancelled", "timeout", "error"}
Terminal == {"completed", "cancelled", "timeout", "error"}  \* jobTerminal

Args == Final \cup {"delta", "none", "bridge", "session", "ctx", "timer"}

VARIABLES
  mode,     (* the adapter's mode, or "inbound" for a POST /bridge/v1/jobs  *)
  status,   (* job.Status                                                   *)
  jobError, (* job.Error: nobody, or who set it last                        *)
  queue,    (* job.queue                                                    *)
  done,     (* job.done is closed                                           *)
  pc,       (* what each process does next                                  *)
  arg,      (* what its current call is about                               *)
  left,     (* events MockAgent still pushes before its assistant_done      *)
  ctxDone,  (* the context of the hub's turn is cancelled                   *)
  expired,  (* the deadline of StreamReply has passed                       *)
  out,      (* everything StreamReply has sent to the hub                   *)
  calls     (* HTTP calls made, bounded by MaxCalls                         *)

job == <<status, jobError, done>>
vars == <<mode, status, jobError, queue, done, pc, arg, left, ctxDone,
          expired, out, calls>>

Goto(p, label) == pc' = [pc EXCEPT ![p] = label]

(* A non-blocking channel send: the event is lost when the queue is full. *)
Offer(e) ==
  queue' = IF Len(queue) < QueueCap THEN Append(queue, e) ELSE queue
------------------------------------------------------------------------------
(* Registry.Create, then the goroutines that StreamReply starts.  "inbound" *)
(* is a job of handleBridgeJobs: it has no consumer.                        *)
Init ==
  /\ mode \in Modes
  /\ status = "pending"
  /\ jobError = "none"
  /\ queue = <<>>
  /\ done = FALSE
  /\ pc = [p \in Proc |->
            CASE p = Consumer -> (CASE mode = "inbound" -> "stopped"
                                    [] mode = "unknown" -> "misconfigured"
                                    [] OTHER -> "select")
              [] p = Agent    -> (CASE mode = "unknown" -> "stopped"
                                    [] OTHER -> mode)
              [] OTHER        -> "idle"]
  /\ arg = [p \in Proc |-> "none"]
  /\ left = MockEvents
  /\ ctxDone = FALSE
  /\ expired = FALSE
  /\ out = <<>>
  /\ calls = 0
------------------------------------------------------------------------------
(* HTTP callers.  Until handleBridgeJobs answers, nobody knows the job's id. *)
Begin(c, a, label) ==
  /\ pc[c] = "idle"
  /\ calls < MaxCalls
  /\ calls' = calls + 1
  /\ arg' = [arg EXCEPT ![c] = a]
  /\ Goto(c, label)

IdKnown == pc[Agent] # "inbound"

(* EnqueueEvent up to its unlocked check of the status. *)
EnqueueCheck(c) ==
  /\ IdKnown
  /\ status \notin Terminal
  /\ \E e \in {"delta", "done"} : Begin(c, e, "enqueue")
  /\ UNCHANGED <<mode, job, queue, left, ctxDone, expired, out>>

(* job.Status = "running", whatever happened since the check. *)
EnqueueRun(c) ==
  /\ pc[c] = "enqueue"
  /\ status' = "running"
  /\ Goto(c, "push")
  /\ UNCHANGED <<mode, jobError, queue, done, arg, left, ctxDone, expired, out, calls>>

EnqueueSend(c) ==
  /\ pc[c] = "push"
  /\ Offer(arg[c])
  /\ Goto(c, IF Len(queue) < QueueCap /\ arg[c] = "done" THEN "pushed" ELSE "idle")
  /\ UNCHANGED <<mode, job, arg, left, ctxDone, expired, out, calls>>

EnqueueEndOpen(c) ==
  /\ pc[c] = "pushed"
  /\ status' = "completed"
  /\ Goto(c, "idle")
  /\ UNCHANGED <<mode, jobError, queue, done, arg, left, ctxDone, expired, out, calls>>

EnqueueEnd(c) ==
  /\ pc[c] = "pushed"
  /\ status' = "completed"
  /\ Goto(c, "mark")
  /\ UNCHANGED <<mode, jobError, queue, done, arg, left, ctxDone, expired, out, calls>>

(* Complete's check lets a job that failed or timed out be completed again. *)
CompleteCheck(c) ==
  /\ IdKnown
  /\ status \notin {"completed", "cancelled"}
  /\ \E e \in {"done", "failed"} : Begin(c, e, "end")
  /\ UNCHANGED <<mode, job, queue, left, ctxDone, expired, out>>

(* POST /bridge/v1/jobs/{id}/cancel: Registry.Cancel, then cancelTurn. *)
BridgeCancel(c) ==
  /\ IdKnown
  /\ Begin(c, "bridge", "cancel")
  /\ UNCHANGED <<mode, job, queue, left, ctxDone, expired, out>>

(* cancelTurn: the turn's context lives as long as its StreamReply. *)
CancelContext == ctxDone' = (ctxDone \/ pc[Consumer] # "stopped")

(* POST /api/sessions/{id}/cancel: cancelTurn, then CancelBySession takes  *)
(* the ids of the live jobs.  The two are separate: this turn may have     *)
(* taken the slot only after cancelTurn found another turn in it, or none. *)
SessionCancel(c) ==
  /\ Begin(c, "session", "snapshot")
  /\ CancelContext \/ UNCHANGED ctxDone
  /\ UNCHANGED <<mode, job, queue, left, expired, out>>

SessionSnapshot(c) ==
  /\ pc[c] = "snapshot"
  /\ Goto(c, IF status \in Terminal THEN "idle" ELSE "cancel")
  /\ UNCHANGED <<mode, job, queue, arg, left, ctxDone, expired, out, calls>>

BridgeCancelJobOnly(c) ==
  /\ pc[c] = "turn"
  /\ Goto(c, "idle")
  /\ UNCHANGED <<mode, job, queue, arg, left, ctxDone, expired, out, calls>>

BridgeCancelTurn(c) ==
  /\ pc[c] = "turn"
  /\ CancelContext
  /\ Goto(c, "idle")
  /\ UNCHANGED <<mode, job, queue, arg, left, expired, out, calls>>
------------------------------------------------------------------------------
(* Where a process goes on after Complete, Cancel or markDone. *)
After(p) ==
  CASE p = Agent                          -> "stopped"
    [] p = Consumer /\ arg[p] = "timer"   -> "emit"
    [] p = Consumer /\ arg[p] # "timer"   -> "recv"
    [] p \in Callers /\ arg[p] = "bridge" -> "turn"
    [] OTHER                              -> "idle"

(* Cancel's own, unlocked check. *)
CancelCheck(p) ==
  /\ pc[p] = "cancel"
  /\ Goto(p, IF status \in Terminal THEN After(p) ELSE "end")
  /\ UNCHANGED <<mode, job, queue, arg, left, ctxDone, expired, out, calls>>

(* Complete and Cancel go on alike: status, a last event, markDone. *)
LastEvent(p) == IF arg[p] \in {"done", "failed"} THEN arg[p] ELSE "cancelled"

EndStatus(p) ==
  /\ pc[p] = "end"
  /\ CASE LastEvent(p) = "done"      -> status' = "completed" /\ UNCHANGED jobError
       [] LastEvent(p) = "failed"    -> status' = "error" /\ jobError' = "agent"
       [] LastEvent(p) = "cancelled" -> status' = "cancelled" /\ jobError' = "cancelled"
  /\ Goto(p, "send")
  /\ UNCHANGED <<mode, queue, done, arg, left, ctxDone, expired, out, calls>>

EndSend(p) ==
  /\ pc[p] = "send"
  /\ Offer(LastEvent(p))
  /\ Goto(p, "mark")
  /\ UNCHANGED <<mode, job, arg, left, ctxDone, expired, out, calls>>

MarkDone(p) ==
  /\ pc[p] = "mark"
  /\ done' = TRUE
  /\ Goto(p, After(p))
  /\ UNCHANGED <<mode, status, jobError, queue, arg, left, ctxDone, expired, out, calls>>
------------------------------------------------------------------------------
(* MockAgent.Run: a blocking push that gives up once job.done is closed. *)
MockStart ==
  /\ pc[Agent] = "mock"
  /\ Goto(Agent, IF status \in Terminal THEN "stopped" ELSE "mockRun")
  /\ UNCHANGED <<mode, job, queue, arg, left, ctxDone, expired, out, calls>>

MockRun ==
  /\ pc[Agent] = "mockRun"
  /\ status' = "running"
  /\ Goto(Agent, "mockPush")
  /\ UNCHANGED <<mode, jobError, queue, done, arg, left, ctxDone, expired, out, calls>>

MockPush ==
  /\ pc[Agent] = "mockPush"
  /\ ~ done
  /\ Len(queue) < QueueCap
  /\ \/ /\ left > 0
        /\ queue' = Append(queue, "delta")
        /\ left' = left - 1
        /\ UNCHANGED pc
     \/ /\ left = 0
        /\ queue' = Append(queue, "done")
        /\ Goto(Agent, "mockEnd")
        /\ UNCHANGED left
  /\ UNCHANGED <<mode, job, arg, ctxDone, expired, out, calls>>

MockGiveUp ==
  /\ pc[Agent] = "mockPush"
  /\ done
  /\ Goto(Agent, "stopped")
  /\ UNCHANGED <<mode, job, queue, arg, left, ctxDone, expired, out, calls>>

(* The status is written even if the job was cancelled in the meantime. *)
MockEnd ==
  /\ pc[Agent] = "mockEnd"
  /\ status' = "completed"
  /\ Goto(Agent, "mark")
  /\ UNCHANGED <<mode, jobError, queue, done, arg, left, ctxDone, expired, out, calls>>

(* dispatchWebhook: the answer may come at any time, or be a failure. *)
WebhookAnswer ==
  /\ pc[Agent] = "webhook"
  /\ status' \in {status, "running"}
  /\ Goto(Agent, "stopped")
  /\ UNCHANGED <<mode, jobError, queue, done, arg, left, ctxDone, expired, out, calls>>

(* handleBridgeJobs writes the status again after Create has published it. *)
InboundCreated ==
  /\ pc[Agent] = "inbound"
  /\ status' = "pending"
  /\ Goto(Agent, "stopped")
  /\ UNCHANGED <<mode, jobError, queue, done, arg, left, ctxDone, expired, out, calls>>
------------------------------------------------------------------------------
(* StreamReply's goroutine. *)
Deliver(e) == out' = Append(out, e)

(* An unknown mode: a start and an assistant_done, but no markDone. *)
Misconfigured ==
  /\ pc[Consumer] = "misconfigured"
  /\ status' = "error"
  /\ jobError' = "mode"
  /\ Deliver("delta")
  /\ Goto(Consumer, "refuse")
  /\ UNCHANGED <<mode, queue, done, arg, left, ctxDone, expired, calls>>

Refuse ==
  /\ pc[Consumer] = "refuse"
  /\ Deliver("failed")
  /\ Goto(Consumer, "stopped")
  /\ UNCHANGED <<mode, job, queue, arg, left, ctxDone, expired, calls>>

ReceiveForever ==
  /\ pc[Consumer] = "select"
  /\ queue # <<>>
  /\ Deliver(Head(queue))
  /\ queue' = Tail(queue)
  /\ Goto(Consumer, IF expired THEN "late" ELSE "select")
  /\ UNCHANGED <<mode, job, arg, left, ctxDone, expired, calls>>

ReceiveUntilEnded ==
  /\ pc[Consumer] = "select"
  /\ queue # <<>>
  /\ Deliver(Head(queue))
  /\ queue' = Tail(queue)
  /\ Goto(Consumer, IF status \in Terminal THEN "stopped"
                    ELSE IF expired THEN "late" ELSE "select")
  /\ UNCHANGED <<mode, job, arg, left, ctxDone, expired, calls>>

(* The next turn of the loop sees a passed deadline before it selects. *)
Receive ==
  /\ pc[Consumer] = "select"
  /\ queue # <<>>
  /\ Deliver(Head(queue))
  /\ queue' = Tail(queue)
  /\ Goto(Consumer, IF Head(queue) \in Final THEN "stopped"
                    ELSE IF expired THEN "late" ELSE "select")
  /\ UNCHANGED <<mode, job, arg, left, ctxDone, expired, calls>>

SeeCancel ==
  /\ pc[Consumer] = "select"
  /\ ctxDone
  /\ arg' = [arg EXCEPT ![Consumer] = "ctx"]
  /\ Goto(Consumer, IF status \in Terminal THEN "ended" ELSE "cancel")
  /\ UNCHANGED <<mode, job, queue, left, ctxDone, expired, out, calls>>

(* The job had ended already: only a cancelled one has its event drained. *)
SeeEnded ==
  /\ pc[Consumer] = "ended"
  /\ Goto(Consumer, IF status = "cancelled" THEN "recv" ELSE "stopped")
  /\ UNCHANGED <<mode, job, queue, arg, left, ctxDone, expired, out, calls>>

ReceiveAll ==
  /\ pc[Consumer] = "recv"
  /\ IF queue # <<>>
       THEN Deliver(Head(queue)) /\ queue' = Tail(queue) /\ UNCHANGED pc
       ELSE Deliver("cancelled") /\ UNCHANGED queue /\ Goto(Consumer, "stopped")
  /\ UNCHANGED <<mode, job, arg, left, ctxDone, expired, calls>>

(* One queued event, be it the cancellation or an older one, or a new done. *)
ReceiveOne ==
  /\ pc[Consumer] = "recv"
  /\ IF queue # <<>>
       THEN Deliver(Head(queue)) /\ queue' = Tail(queue)
       ELSE Deliver("cancelled") /\ UNCHANGED queue
  /\ Goto(Consumer, "stopped")
  /\ UNCHANGED <<mode, job, arg, left, ctxDone, expired, calls>>

SeeDeadlineWait ==
  /\ pc[Consumer] \in {"select", "late"}
  /\ expired
  /\ arg' = [arg EXCEPT ![Consumer] = "timer"]
  /\ Goto(Consumer, IF status \in Terminal THEN "select" ELSE "timeout")
  /\ UNCHANGED <<mode, job, queue, left, ctxDone, expired, out, calls>>

SeeDeadline ==
  /\ pc[Consumer] \in {"select", "late"}
  /\ expired
  /\ arg' = [arg EXCEPT ![Consumer] = "timer"]
  /\ Goto(Consumer, IF status \in Terminal THEN "stopped" ELSE "timeout")
  /\ UNCHANGED <<mode, job, queue, left, ctxDone, expired, out, calls>>

TimeoutLeak ==
  /\ pc[Consumer] = "timeout"
  /\ status' = "timeout"
  /\ jobError' = "timeout"
  /\ Goto(Consumer, "emit")
  /\ UNCHANGED <<mode, queue, done, arg, left, ctxDone, expired, out, calls>>

TimeoutStatus ==
  /\ pc[Consumer] = "timeout"
  /\ status' = "timeout"
  /\ jobError' = "timeout"
  /\ Goto(Consumer, "mark")
  /\ UNCHANGED <<mode, queue, done, arg, left, ctxDone, expired, out, calls>>

TimeoutEmit ==
  /\ pc[Consumer] = "emit"
  /\ Deliver("timeout")
  /\ Goto(Consumer, "stopped")
  /\ UNCHANGED <<mode, job, queue, arg, left, ctxDone, expired, calls>>

DeadlinePasses ==
  /\ ~ expired
  /\ expired' = TRUE
  /\ UNCHANGED <<mode, job, queue, pc, arg, left, ctxDone, out, calls>>
------------------------------------------------------------------------------
StartCall(c) ==
  EnqueueCheck(c) \/ CompleteCheck(c) \/ BridgeCancel(c) \/ SessionCancel(c)

EndCall(p) == CancelCheck(p) \/ EndStatus(p) \/ EndSend(p) \/ MarkDone(p)

ContinueCall(c) ==
  \/ EnqueueRun(c) \/ EnqueueSend(c) \/ EnqueueEnd(c)
  \/ SessionSnapshot(c) \/ BridgeCancelTurn(c)
  \/ EndCall(c)

AgentStep ==
  \/ MockStart \/ MockRun \/ MockPush \/ MockGiveUp \/ MockEnd
  \/ WebhookAnswer \/ InboundCreated
  \/ MarkDone(Agent)

ConsumerStep ==
  \/ Misconfigured \/ Refuse \/ Receive \/ SeeCancel \/ SeeEnded \/ ReceiveOne
  \/ SeeDeadline \/ TimeoutStatus \/ TimeoutEmit
  \/ EndCall(Consumer)

Next ==
  \/ \E c \in Callers : StartCall(c) \/ ContinueCall(c)
  \/ AgentStep
  \/ ConsumerStep
  \/ DeadlinePasses

Spec == Init /\ [][Next]_vars

(* Goroutines that can run do run (the webhook POST has a 30 s timeout).   *)
(* Nobody has to make a call, and the deadline may be arbitrarily far.     *)
FairSpec ==
  /\ Spec
  /\ WF_vars(AgentStep)
  /\ WF_vars(ConsumerStep)
  /\ \A c \in Callers : WF_vars(ContinueCall(c))

(* time.After(remaining) fires at last. *)
DeadlineComes == WF_vars(DeadlinePasses)
------------------------------------------------------------------------------
CallerLabels == {"idle", "enqueue", "push", "pushed", "snapshot", "turn"}
AgentLabels == {"mock", "mockRun", "mockPush", "mockEnd", "webhook", "inbound"}
ConsumerLabels == {"misconfigured", "refuse", "select", "late", "ended",
                   "recv", "timeout", "emit"}
SharedLabels == {"cancel", "end", "send", "mark"}
Labels == CallerLabels \cup AgentLabels \cup ConsumerLabels \cup SharedLabels
            \cup {"stopped"}

(* The shape of the state; job.queue never holds more than its capacity. *)
TypeOK ==
  /\ mode \in Modes
  /\ status \in Status
  /\ jobError \in {"none", "agent", "cancelled", "timeout", "mode"}
  /\ queue \in Seq(Event) /\ Len(queue) <= QueueCap
  /\ done \in BOOLEAN
  /\ pc \in [Proc -> Labels]
  /\ arg \in [Proc -> Args]
  /\ left \in 0..MockEvents
  /\ ctxDone \in BOOLEAN
  /\ expired \in BOOLEAN
  /\ out \in Seq(Event)
  /\ calls \in 0..MaxCalls

HasFinal(s) == \E i \in DOMAIN s : s[i] \in Final

(* The goroutine is past the point where it decided that the job is over   *)
(* and will reach markDone without waiting for anybody.                    *)
Closing(p) == pc[p] \in {"pushed", "send", "mark", "mockEnd"}

(* Whatever shows that the job is over (a terminal status, an              *)
(* assistant_done queued or delivered, a reader that has left) comes with  *)
(* job.done closed, or with a goroutine on its way to close it, although   *)
(* five code paths end a job and overwrite each other's status.  Without   *)
(* it MockAgent.push blocks for ever on a queue nobody reads.              *)
EndCloses ==
  (mode # "unknown" /\ ( \/ status \in Terminal
                         \/ HasFinal(queue)
                         \/ HasFinal(out)
                         \/ pc[Consumer] = "stopped" /\ mode # "inbound"))
    => done \/ \E p \in Proc : Closing(p)

(* StreamReply ends without an assistant_done only when the turn was       *)
(* cancelled or its deadline had passed: an agent whose answer the queue   *)
(* accepted in time is not cut off by any other race.                      *)
StopExplained ==
  (pc[Consumer] = "stopped" /\ mode # "inbound" /\ ~ HasFinal(out))
    => ctxDone \/ expired

(* A job made over HTTP has no stream. *)
StreamOpen == mode = "inbound" \/ pc[Consumer] # "stopped"
Stream == INSTANCE ReplyStream WITH stream <- out, open <- StreamOpen

(* What reaches the hub is an adapter's stream: at most one assistant_done *)
(* and nothing after it, although Complete, Cancel, EnqueueEvent and the   *)
(* mock may each queue one, and nothing once the channel is closed.        *)
ImplementsStream == Stream!Spec

(* If the deadline comes the channel is closed at last: the reader waits   *)
(* on the queue alone, so a dropped assistant_done leaves it to the        *)
(* deadline.                                                               *)
StreamCloses == DeadlineComes => (mode # "inbound" => <>(pc[Consumer] = "stopped"))

(* MockAgent.Run never stays blocked on a job that nobody reads any more,  *)
(* whether or not the deadline comes.                                      *)
MockStops == mode = "mock" => <>(pc[Agent] = "stopped")

(* Once the turn is stopped, an assistant_done is in the queue, or the     *)
(* bridge's cancel endpoint has been called, the waiter returns without    *)
(* the help of the deadline: that call still stops the turn when the queue *)
(* had no room for the cancellation.                                       *)
BridgeCancels == \E c \in Callers : pc[c] # "idle" /\ arg[c] = "bridge"

CancelUnblocksWaiter ==
  (ctxDone \/ HasFinal(queue) \/ BridgeCancels) ~> (pc[Consumer] = "stopped")
------------------------------------------------------------------------------
(* What the repository says of jobs and the code does not keep.            *)

(* docs/AGENT_BRIDGE.md:154, an agent may poll the job and stop if it is   *)
(* cancelled; bridge.go:165 calls Cancel idempotent.  So the status of a   *)
(* cancelled job stays.                                                    *)
CancelledStays == [][status = "cancelled" => status' = "cancelled"]_vars

(* bridge.go:165, "Cancel marks the job cancelled, unblocks StreamReply    *)
(* waiters, and pushes an assistant_done event".  So a job that is over    *)
(* and cancelled has no waiter left in the end, deadline or not.           *)
CancelUnblocks ==
  (status = "cancelled" /\ done) ~> (pc[Consumer] = "stopped")
==============================================================================
