----------------------------- MODULE BuildTurns -----------------------------
(***************************************************************************)
(* Turns of one Grok Build session: runBuildChat (internal/hub/server.go)  *)
(* around Client.Prompt (internal/grokacp/client.go), its subscription to  *)
(* the session's updates, the request that runs beside its loop, and Stop. *)
(* The agent is external: it takes messages in the order they were written *)
(* and says nothing of a prompt it has answered.  Updates name the session *)
(* and not the prompt, so every subscription gets all of them.             *)
(***************************************************************************)
EXTENDS Naturals, Sequences

CONSTANTS
  Turns, Stops, None,
  QueueCap,   (* capacity of a subscription (128 in the code)              *)
  OutCap,     (* capacity of Prompt's channel (64 in the code)             *)
  MaxUpdates, (* bound of the model: updates of a prompt                   *)
  MaxLosses   (* bound of the model: connections lost                      *)

ASSUME ConstantsAssumption ==
  /\ None \notin Turns
  /\ {QueueCap, OutCap} \subseteq Nat \ {0}
  /\ {MaxUpdates, MaxLosses} \subseteq Nat

VARIABLES
  lock, slot,  (* the session's mutex and the CancelFunc in Server.turns    *)
  rawSet,      (* the session is a key of Server.buildRaw                   *)
  onDisk,      (* the agent has written the session's summary               *)
  ctx,         (* the turn's context is cancelled                           *)
  pc,          (* where runBuildChat is                                     *)
  wire,        (* events broadcast to the session's clients                 *)
  prompt,      (* where the goroutine of Prompt is                          *)
  outcome,     (* "done" or "cancelled", what its last event will say       *)
  out, sent,   (* its channel, and all it has ever sent on it               *)
  subs, queue, (* the subscriptions the client knows, and what is in each   *)
  text,        (* the updates collected in Prompt's fullText                *)
  req,         (* the request for session/prompt                            *)
  up, losses,  (* the connection                                            *)
  toAgent,     (* what is written and not yet read by the agent             *)
  running, left, halted, (* the agent's prompts, and those told to cancel   *)
  stop         (* where each Stop is                                        *)

hub == <<lock, slot, rawSet, onDisk, ctx, pc, wire>>
chans == <<out, sent, subs, queue, text>>
link == <<up, losses, toAgent>>
agent == <<running, left, halted>>
vars == <<hub, prompt, outcome, chans, req, link, agent, stop>>

Finals == {"done", "cancelled", "failed"}
EventKind == {"start", "delta"} \cup Finals

Goto(t, label) == pc' = [pc EXCEPT ![t] = label]
Step(t, label) == prompt' = [prompt EXCEPT ![t] = label]
Broadcast(t, e) == wire' = Append(wire, [turn |-> t, type |-> e])

Init ==
  /\ lock = None /\ slot = None
  /\ rawSet = FALSE /\ onDisk \in BOOLEAN
  /\ ctx = [t \in Turns |-> FALSE]
  /\ pc = [t \in Turns |-> "new"]
  /\ wire = <<>>
  /\ prompt = [t \in Turns |-> "none"]
  /\ outcome = [t \in Turns |-> "done"]
  /\ out = [t \in Turns |-> <<>>] /\ sent = out
  /\ subs = {}
  /\ queue = [t \in Turns |-> <<>>] /\ text = queue
  /\ req = [t \in Turns |-> "none"]
  /\ up = TRUE /\ losses = 0
  /\ toAgent = <<>>
  /\ running = {} /\ halted = {}
  /\ left = [t \in Turns |-> MaxUpdates]
  /\ stop = [x \in Stops |-> "idle"]
------------------------------------------------------------------------------
(* runBuildChat up to setTurnCancel. *)
StartUnlocked(t) ==
  /\ pc[t] = "new"
  /\ lock' = t /\ slot' = t
  /\ Goto(t, "slotted")
  /\ UNCHANGED <<rawSet, onDisk, ctx, wire, prompt, outcome, chans, req, link, agent, stop>>

Start(t) ==
  /\ pc[t] = "new"
  /\ lock = None
  /\ lock' = t /\ slot' = t
  /\ Goto(t, "slotted")
  /\ UNCHANGED <<rawSet, onDisk, ctx, wire, prompt, outcome, chans, req, link, agent, stop>>

(* The session's id and cwd, EnsureConnected, LoadSession; each may fail.  *)
Load(t) ==
  /\ pc[t] = "slotted"
  /\ rawSet' \in {rawSet, TRUE}
  /\ \/ rawSet' /\ up' = TRUE /\ Goto(t, "loaded")
     \/ up' \in {up, TRUE} /\ Goto(t, "failed")
  /\ UNCHANGED <<lock, slot, onDisk, ctx, wire, prompt, outcome, chans, req, losses, toAgent,
                 agent, stop>>

Announce(t) ==
  /\ pc[t] = "loaded"
  /\ Broadcast(t, "user_message")
  /\ Goto(t, "announced")
  /\ UNCHANGED <<lock, slot, rawSet, onDisk, ctx, prompt, outcome, chans, req, link, agent, stop>>

(* Prompt: EnsureConnected, then the subscription and the goroutine. *)
CallPrompt(t) ==
  /\ pc[t] = "announced"
  /\ \/ /\ up' = TRUE
        /\ subs' = subs \cup {t}
        /\ Step(t, "start") /\ Goto(t, "hearing")
        /\ UNCHANGED wire
     \/ /\ Broadcast(t, "failed") /\ Goto(t, "failed")
        /\ UNCHANGED <<up, subs, prompt>>
  /\ UNCHANGED <<lock, slot, rawSet, onDisk, ctx, outcome, out, sent, queue, text, req, losses,
                 toAgent, agent, stop>>

Hear(t) ==
  /\ pc[t] = "hearing"
  /\ out[t] # <<>>
  /\ Broadcast(t, Head(out[t]))
  /\ out' = [out EXCEPT ![t] = Tail(@)]
  /\ UNCHANGED <<lock, slot, rawSet, onDisk, ctx, pc, prompt, outcome, sent, subs, queue, text,
                 req, link, agent, stop>>

(* The channel is closed and empty.  Without an assistant_done, one is     *)
(* made up.  Get may find the session on disk.                             *)
HeardAll(t) ==
  /\ pc[t] = "hearing"
  /\ prompt[t] = "closed" /\ out[t] = <<>>
  /\ onDisk' \in {onDisk, TRUE}
  /\ LET gotDone == \E i \in DOMAIN sent[t] : sent[t][i] \in Finals
         last == (IF gotDone THEN <<>> ELSE <<"cancelled">>)
                   \o (IF onDisk' THEN <<"snapshot">> ELSE <<>>)
     IN  wire' = wire \o [i \in DOMAIN last |-> [turn |-> t, type |-> last[i]]]
  /\ Goto(t, "leaving")
  /\ UNCHANGED <<lock, slot, rawSet, ctx, prompt, outcome, chans, req, link, agent, stop>>

(* The deferred cancel and clearTurnCancel, then takeBuildRaw and Unlock.  *)
Leave(t) ==
  /\ pc[t] \in {"leaving", "failed"}
  /\ ctx' = [ctx EXCEPT ![t] = TRUE]
  /\ slot' = None
  /\ Goto(t, IF pc[t] = "failed" THEN "failing" ELSE "left")
  /\ UNCHANGED <<lock, rawSet, onDisk, wire, prompt, outcome, chans, req, link, agent, stop>>

Release(t) ==
  /\ pc[t] \in {"left", "failing"}
  /\ rawSet' = FALSE /\ lock' = None
  /\ Goto(t, IF pc[t] = "failing" THEN "report" ELSE "over")
  /\ UNCHANGED <<slot, onDisk, ctx, wire, prompt, outcome, chans, req, link, agent, stop>>

(* chat.send tells the clients of the error it got, handlePostMessage does *)
(* not.                                                                    *)
Report(t) ==
  /\ pc[t] = "report"
  /\ Broadcast(t, "failed") \/ UNCHANGED wire
  /\ Goto(t, "over")
  /\ UNCHANGED <<lock, slot, rawSet, onDisk, ctx, prompt, outcome, chans, req, link, agent, stop>>
------------------------------------------------------------------------------
(* The goroutine of Prompt. *)
Room(t) == Len(out[t]) < OutCap
Emit(t, e) ==
  /\ out' = [out EXCEPT ![t] = Append(@, e)]
  /\ sent' = [sent EXCEPT ![t] = Append(@, e)]

PromptStart(t) ==
  /\ prompt[t] = "start"
  /\ Emit(t, "start")
  /\ req' = [req EXCEPT ![t] = "new"]
  /\ Step(t, "loop")
  /\ UNCHANGED <<hub, outcome, subs, queue, text, link, agent, stop>>

Take(t) ==
  /\ queue[t] # <<>>
  /\ text' = [text EXCEPT ![t] = Append(@, Head(queue[t]))]
  /\ queue' = [queue EXCEPT ![t] = Tail(@)]

Forward(t) ==
  /\ prompt[t] = "loop"
  /\ Take(t) /\ Room(t) /\ Emit(t, "delta")
  /\ UNCHANGED <<hub, prompt, outcome, subs, req, link, agent, stop>>

(* An update that it is just forwarding is dropped.  session/cancel is     *)
(* written if there is a connection; whether the session/prompt has been   *)
(* written yet, nobody looks.                                              *)
NotifyCancel == toAgent' = IF up THEN Append(toAgent, [type |-> "cancel", turn |-> None])
                                 ELSE toAgent

SeeCancel(t) ==
  /\ prompt[t] = "loop" /\ ctx[t]
  /\ Take(t) \/ UNCHANGED <<queue, text>>
  /\ NotifyCancel
  /\ outcome' = [outcome EXCEPT ![t] = "cancelled"]
  /\ Step(t, "drain")
  /\ UNCHANGED <<hub, out, sent, subs, req, up, losses, agent, stop>>

SeeResultAndEnd(t) ==
  /\ prompt[t] = "loop" /\ req[t] \in {"answered", "stopped", "gaveUp"}
  /\ outcome' = [outcome EXCEPT ![t] = IF req[t] = "answered" THEN "done" ELSE "cancelled"]
  /\ Step(t, "final")
  /\ UNCHANGED <<hub, chans, req, link, agent, stop>>

SeeResult(t) ==
  /\ prompt[t] = "loop" /\ req[t] \in {"answered", "stopped", "gaveUp"}
  /\ outcome' = [outcome EXCEPT ![t] = IF req[t] = "answered" THEN "done" ELSE "cancelled"]
  /\ Step(t, "drain")
  /\ UNCHANGED <<hub, chans, req, link, agent, stop>>

SeeErrorGoesOn(t) ==
  /\ prompt[t] = "loop" /\ req[t] = "error" /\ Room(t)
  /\ IF ctx[t] THEN UNCHANGED <<out, sent>> ELSE Emit(t, "failed")
  /\ Step(t, "drain")
  /\ UNCHANGED <<hub, outcome, subs, queue, text, req, link, agent, stop>>

SeeError(t) ==
  /\ prompt[t] = "loop" /\ req[t] = "error"
  /\ \/ ctx[t] /\ outcome' = [outcome EXCEPT ![t] = "cancelled"] /\ Step(t, "drain")
     \/ ~ ctx[t] /\ outcome' = [outcome EXCEPT ![t] = "failed"] /\ Step(t, "final")
  /\ UNCHANGED <<hub, chans, req, link, agent, stop>>

(* An event that finds the channel full is dropped, its text is kept. *)
Drain(t) ==
  /\ prompt[t] = "drain"
  /\ Take(t)
  /\ IF Room(t) THEN Emit(t, "delta") ELSE UNCHANGED <<out, sent>>
  /\ UNCHANGED <<hub, prompt, outcome, subs, req, link, agent, stop>>

DrainedAtClose(t) ==
  /\ prompt[t] = "drain"
  /\ queue[t] = <<>> /\ t \notin subs
  /\ Step(t, "final")
  /\ UNCHANGED <<hub, outcome, chans, req, link, agent, stop>>

(* 50 ms are enough to take what is queued already. *)
Drained(t) ==
  /\ prompt[t] = "drain"
  /\ queue[t] = <<>>
  /\ Step(t, "final")
  /\ UNCHANGED <<hub, outcome, chans, req, link, agent, stop>>

SayEnd(t) ==
  /\ prompt[t] = "final"
  /\ Room(t) /\ Emit(t, outcome[t])
  /\ Step(t, "ending")
  /\ UNCHANGED <<hub, outcome, subs, queue, text, req, link, agent, stop>>

(* The deferred unsub and close(out). *)
EndPrompt(t) ==
  /\ prompt[t] = "ending"
  /\ subs' = subs \ {t}
  /\ Step(t, "closed")
  /\ UNCHANGED <<hub, outcome, out, sent, queue, text, req, link, agent, stop>>

(* The request beside it: written whatever has become of the turn. *)
WritePrompt(t) ==
  /\ req[t] = "new"
  /\ \/ up /\ toAgent' = Append(toAgent, [type |-> "prompt", turn |-> t])
           /\ req' = [req EXCEPT ![t] = "sent"]
     \/ ~ up /\ req' = [req EXCEPT ![t] = "error"] /\ UNCHANGED toAgent
  /\ UNCHANGED <<hub, prompt, outcome, chans, up, losses, agent, stop>>

GiveUp(t) ==
  /\ req[t] = "sent" /\ ctx[t]
  /\ req' = [req EXCEPT ![t] = "gaveUp"]
  /\ UNCHANGED <<hub, prompt, outcome, chans, link, agent, stop>>
------------------------------------------------------------------------------
(* handleCancelSession: cancelTurn, takeBuildRaw, and a session/cancel of  *)
(* its own if the raw id is found there or on disk.                        *)
StopTurn(x) ==
  /\ stop[x] = "idle"
  /\ ctx' = [t \in Turns |-> ctx[t] \/ t = slot]
  /\ slot' = None
  /\ stop' = [stop EXCEPT ![x] = "called"]
  /\ UNCHANGED <<lock, rawSet, onDisk, pc, wire, prompt, outcome, chans, req, link, agent>>

StopAgent(x) ==
  /\ stop[x] = "called"
  /\ rawSet' = FALSE
  /\ IF rawSet \/ onDisk THEN NotifyCancel ELSE UNCHANGED toAgent
  /\ stop' = [stop EXCEPT ![x] = "over"]
  /\ UNCHANGED <<lock, slot, onDisk, ctx, pc, wire, prompt, outcome, chans, req, up, losses, agent>>
------------------------------------------------------------------------------
(* The agent, and readLoop handing on what it says. *)
AgentReads ==
  /\ toAgent # <<>>
  /\ toAgent' = Tail(toAgent)
  /\ LET m == Head(toAgent) IN
       \/ m.type = "prompt" /\ running' = running \cup {m.turn} /\ UNCHANGED halted
       \/ m.type = "cancel" /\ halted' = halted \cup running /\ UNCHANGED running
  /\ UNCHANGED <<hub, prompt, outcome, chans, req, up, losses, left, stop>>

(* publishUpdate: one that finds the queue full is dropped. *)
AgentUpdates(t) ==
  /\ t \in running /\ left[t] > 0
  /\ left' = [left EXCEPT ![t] = @ - 1]
  /\ queue' = [u \in Turns |-> IF u \in subs /\ Len(queue[u]) < QueueCap
                                 THEN Append(queue[u], t) ELSE queue[u]]
  /\ UNCHANGED <<hub, prompt, outcome, out, sent, subs, text, req, link, running, halted, stop>>

AgentAnswers(t) ==
  /\ t \in running
  /\ running' = running \ {t}
  /\ \E r \in {IF t \in halted THEN "stopped" ELSE "answered", "error"} :
       req' = [req EXCEPT ![t] = IF @ = "sent" THEN r ELSE @]
  /\ UNCHANGED <<hub, prompt, outcome, chans, link, left, halted, stop>>

(* failAll: the subscriptions are forgotten, requests fail. *)
Lose ==
  /\ up /\ losses < MaxLosses
  /\ up' = FALSE /\ losses' = losses + 1
  /\ subs' = {} /\ toAgent' = <<>> /\ running' = {}
  /\ req' = [t \in Turns |-> IF req[t] = "sent" THEN "error" ELSE req[t]]
  /\ UNCHANGED <<hub, prompt, outcome, out, sent, queue, text, left, halted, stop>>
------------------------------------------------------------------------------
Prompting(t) ==
  \/ PromptStart(t) \/ Forward(t) \/ SeeCancel(t) \/ SeeResult(t) \/ SeeError(t)
  \/ Drain(t) \/ Drained(t) \/ SayEnd(t) \/ EndPrompt(t)

Running(t) ==
  \/ Load(t) \/ Announce(t) \/ CallPrompt(t) \/ Hear(t) \/ HeardAll(t) \/ Leave(t)
  \/ Release(t) \/ Report(t)

Requesting(t) == WritePrompt(t) \/ GiveUp(t)

Next ==
  \/ \E t \in Turns : Start(t) \/ Running(t) \/ Prompting(t) \/ Requesting(t)
                      \/ AgentUpdates(t) \/ AgentAnswers(t)
  \/ \E x \in Stops : StopTurn(x) \/ StopAgent(x)
  \/ AgentReads \/ Lose

Spec == Init /\ [][Next]_vars

(* Goroutines run; the agent need not answer, nor the connection be lost.  *)
FairSpec ==
  /\ Spec
  /\ \A t \in Turns : WF_vars(Running(t)) /\ WF_vars(Requesting(t)) /\ WF_vars(SeeCancel(t))
                      /\ WF_vars(Prompting(t))
------------------------------------------------------------------------------
(* The shape of the state. *)
TypeOK ==
  /\ lock \in Turns \cup {None} /\ slot \in Turns \cup {None}
  /\ {rawSet, onDisk, up} \subseteq BOOLEAN
  /\ ctx \in [Turns -> BOOLEAN]
  /\ pc \in [Turns -> {"new", "slotted", "loaded", "announced", "hearing", "leaving", "left", "failed",
                       "failing", "report", "over"}]
  /\ wire \in Seq([turn : Turns, type : EventKind \cup {"user_message", "snapshot"}])
  /\ prompt \in [Turns -> {"none", "start", "loop", "drain", "final", "ending", "closed"}]
  /\ outcome \in [Turns -> Finals]
  /\ out \in [Turns -> Seq(EventKind)] /\ sent \in [Turns -> Seq(EventKind)]
  /\ \A t \in Turns : Len(out[t]) <= OutCap /\ Len(queue[t]) <= QueueCap
  /\ subs \subseteq Turns
  /\ queue \in [Turns -> Seq(Turns)] /\ text \in [Turns -> Seq(Turns)]
  /\ req \in [Turns -> {"none", "new", "sent", "answered", "stopped", "gaveUp", "error"}]
  /\ losses \in 0..MaxLosses
  /\ toAgent \in Seq([type : {"prompt", "cancel"}, turn : Turns \cup {None}])
  /\ running \subseteq Turns /\ halted \subseteq Turns
  /\ left \in [Turns -> 0..MaxUpdates]
  /\ stop \in [Stops -> {"idle", "called", "over"}]

(* Prompt keeps the contract of an adapter's stream, as StreamReply does. *)
Stream(t) ==
  INSTANCE ReplyStream WITH stream <- sent[t], open <- prompt[t] # "closed",
                            Event <- EventKind, Final <- Finals
PromptIsStream ==
  [][\A t \in Turns : Stream(t)!Next \/ UNCHANGED <<sent[t], prompt[t] = "closed">>]_vars

(* It never closes its channel without an assistant_done, even if it was   *)
(* stopped, the connection is lost or its answer is overtaken: the event   *)
(* that runBuildChat keeps in reserve (!gotDone) is never needed.          *)
PromptSaysEnd ==
  \A t \in Turns : prompt[t] = "closed" => \E i \in DOMAIN sent[t] : sent[t][i] \in Finals

(* The reply to a prompt has every update of it that was queued before the *)
(* answer, although the answer may be seen first.                          *)
NothingLeftBehind ==
  \A t \in Turns :
    prompt[t] = "ending" /\ outcome[t] = "done" => \A i \in DOMAIN queue[t] : queue[t][i] # t

(* What a Prompt that has ended has told is complete.                      *)
PromptComplete == TypeOK /\ PromptSaysEnd /\ NothingLeftBehind

(* The agent works on one prompt of the session at a time, unless one of   *)
(* them was stopped: a turn holds the session until its Prompt has ended,  *)
(* and its Prompt does not end before the answer.                          *)
OnePromptAtATime ==
  \A t, u \in running : t # u => "cancelled" \in {outcome[t], outcome[u]}

(* Clients see the turns of the session one after the other: between a     *)
(* user_message and its assistant_done there is nothing of another turn    *)
(* but the late error that chat.send reports.                              *)
BuildBracketed ==
  \A i \in 2..Len(wire) :
    wire[i].turn # wire[i-1].turn
      => \/ wire[i].type \in {"user_message", "failed"}
         \/ wire[i-1].type = "failed"

(* For the agent and for the clients alike, turns of a session are apart.  *)
TurnsApart == OnePromptAtATime /\ BuildBracketed

(* A turn that was stopped ends, whether the agent answers or not, reads   *)
(* or not, and whatever is queued.                                         *)
StopEndsTurn == \A t \in Turns : (ctx[t] /\ pc[t] # "new") ~> (pc[t] = "over")
==============================================================================
