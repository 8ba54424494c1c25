------------------------------ MODULE HubTurns ------------------------------
(***************************************************************************)
(* Turns of the native chat (internal/hub/server.go): runChat under the    *)
(* session's mutex, the slot that holds the running turn's CancelFunc, the *)
(* Stop button, the transcript on disk, the events broadcast to the        *)
(* session's clients, and handlePostMessage waiting for an answer.         *)
(*                                                                         *)
(* A turn is one message sent by a client, a goroutine of its own.  The    *)
(* adapter is any that keeps the contract of ReplyStream.  The process may *)
(* crash: memory is lost, the transcript stays.                            *)
(***************************************************************************)
EXTENDS Naturals, Sequences

CONSTANTS
  Turns,      (* messages sent, each by a goroutine running runChat        *)
  Sessions,
  SessionOf,  (* the session of each turn                                  *)
  Stops,      (* requests to stop the session's turn                       *)
  None,
  MaxDeltas,  (* bound of the model: events before the final one           *)
  MaxCrashes  (* bound of the model: crashes of the process                *)

ASSUME ConstantsAssumption ==
  /\ SessionOf \in [Turns -> Sessions]
  /\ None \notin Turns
  /\ MaxDeltas \in Nat
  /\ MaxCrashes \in Nat
------------------------------------------------------------------------------
VARIABLES
  lock,        (* holder of each session's mutex (Hub.locks)                *)
  slot,        (* whose CancelFunc is in Server.turns[session]              *)
  ctx,         (* the turn's context is cancelled                           *)
  pc,          (* where runChat is                                          *)
  note,        (* what runChat told handlePostMessage over idCh or errCh    *)
  answer,      (* the HTTP answer, "none" for chat.send over the WebSocket  *)
  deltas,      (* events heard from the adapter before the final one        *)
  final,       (* the final event of the turn: "none", "done", "cancelled"  *)
  chan,        (* the adapter's channel is open                             *)
  history,     (* what the adapter was given                                *)
  transcript,  (* the session's messages on disk                            *)
  wire,        (* events broadcast to the session's clients                 *)
  grabbed,     (* the CancelFunc a Stop has taken and not called yet        *)
  crashes

turnVars == <<note, answer, deltas, final, chan, history>>
vars == <<lock, slot, ctx, pc, turnVars, transcript, wire, grabbed, crashes>>

Goto(t, label) == pc' = [pc EXCEPT ![t] = label]
Sess(t) == SessionOf[t]

User(t) == [turn |-> t, role |-> "user", cancelled |-> FALSE]
Assistant(t, c) == [turn |-> t, role |-> "assistant", cancelled |-> c]

(* Store.AppendMessage: the file is replaced by a rename, or nothing changes. *)
AppendMessage(t, m) == transcript' = [transcript EXCEPT ![Sess(t)] = Append(@, m)]
Broadcast(t, e) == wire' = [wire EXCEPT ![Sess(t)] = Append(@, [turn |-> t, type |-> e])]

Init ==
  /\ lock = [s \in Sessions |-> None]
  /\ slot = [s \in Sessions |-> None]
  /\ ctx = [t \in Turns |-> FALSE]
  /\ pc = [t \in Turns |-> "new"]
  /\ note = [t \in Turns |-> "none"]
  /\ answer = [t \in Turns |-> "none"]
  /\ deltas = [t \in Turns |-> 0]
  /\ final = [t \in Turns |-> "none"]
  /\ chan = [t \in Turns |-> FALSE]
  /\ history = [t \in Turns |-> <<>>]
  /\ transcript = [s \in Sessions |-> <<>>]
  /\ wire = [s \in Sessions |-> <<>>]
  /\ grabbed = [x \in Stops |-> None]
  /\ crashes = 0
------------------------------------------------------------------------------
(* handlePostMessage or chat.send: the session exists, runChat is started. *)
Send(t) ==
  /\ pc[t] = "new"
  /\ Goto(t, "queued")
  /\ answer' \in {answer, [answer EXCEPT ![t] = "wait"]}
  /\ UNCHANGED <<lock, slot, ctx, note, deltas, final, chan, history, transcript, wire,
                 grabbed, crashes>>

(* handlePostMessage selects between idCh, errCh and its 10 s timer. *)
AnswerOk(t) ==
  /\ answer[t] = "wait"
  /\ note[t] \in {"id", "refused", "both"}
  /\ answer' = [answer EXCEPT ![t] = "ok"]
  /\ UNCHANGED <<lock, slot, ctx, pc, note, deltas, final, chan, history, transcript, wire,
                 grabbed, crashes>>

AnswerError(t) ==
  /\ answer[t] = "wait"
  /\ note[t] \in {"err", "both"}
  /\ answer' = [answer EXCEPT ![t] = "failed"]
  /\ UNCHANGED <<lock, slot, ctx, pc, note, deltas, final, chan, history, transcript, wire,
                 grabbed, crashes>>

AnswerTimeout(t) ==
  /\ answer[t] = "wait"
  /\ answer' = [answer EXCEPT ![t] = "failed"]
  /\ UNCHANGED <<lock, slot, ctx, pc, note, deltas, final, chan, history, transcript, wire,
                 grabbed, crashes>>
------------------------------------------------------------------------------
(* runChat, step by step. *)
AcquireUnlocked(t) ==
  /\ pc[t] = "queued"
  /\ lock' = [lock EXCEPT ![Sess(t)] = t]
  /\ Goto(t, "locked")
  /\ UNCHANGED <<slot, ctx, turnVars, transcript, wire, grabbed, crashes>>

Acquire(t) ==
  /\ pc[t] = "queued"
  /\ lock[Sess(t)] = None
  /\ lock' = [lock EXCEPT ![Sess(t)] = t]
  /\ Goto(t, "locked")
  /\ UNCHANGED <<slot, ctx, turnVars, transcript, wire, grabbed, crashes>>

SetTurnCancelForgotten(t) ==
  /\ pc[t] = "locked"
  /\ Goto(t, "slotted")
  /\ UNCHANGED <<lock, slot, ctx, turnVars, transcript, wire, grabbed, crashes>>

(* setTurnCancel: a CancelFunc found in the slot is called. *)
SetTurnCancel(t) ==
  /\ pc[t] = "locked"
  /\ ctx' = [u \in Turns |-> ctx[u] \/ slot[Sess(t)] = u]
  /\ slot' = [slot EXCEPT ![Sess(t)] = t]
  /\ Goto(t, "slotted")
  /\ UNCHANGED <<lock, turnVars, transcript, wire, grabbed, crashes>>

SaveUserReportedEarly(t) ==
  /\ pc[t] = "slotted"
  /\ note' = [note EXCEPT ![t] = "id"]
  /\ \/ AppendMessage(t, User(t)) /\ Goto(t, "saved")
     \/ Goto(t, "leaving") /\ UNCHANGED transcript
  /\ UNCHANGED <<lock, slot, ctx, answer, deltas, final, chan, history, wire, grabbed, crashes>>

SaveUserKeepsLock(t) ==
  /\ pc[t] = "slotted"
  /\ \/ /\ AppendMessage(t, User(t))
        /\ note' = [note EXCEPT ![t] = "id"]
        /\ Goto(t, "saved")
     \/ /\ note' = [note EXCEPT ![t] = "err"]
        /\ Goto(t, "finished")
        /\ UNCHANGED transcript
  /\ UNCHANGED <<lock, slot, ctx, answer, deltas, final, chan, history, wire, grabbed, crashes>>

(* AppendMessage(user) and onUserSaved, or the early return on its error. *)
SaveUser(t) ==
  /\ pc[t] = "slotted"
  /\ \/ /\ AppendMessage(t, User(t))
        /\ note' = [note EXCEPT ![t] = "id"]
        /\ Goto(t, "saved")
     \/ /\ note' = [note EXCEPT ![t] = "failing"]
        /\ Goto(t, "leaving")
        /\ UNCHANGED transcript
  /\ UNCHANGED <<lock, slot, ctx, answer, deltas, final, chan, history, wire, grabbed, crashes>>

Announce(t) ==
  /\ pc[t] = "saved"
  /\ Broadcast(t, "user_message")
  /\ Goto(t, "announced")
  /\ UNCHANGED <<lock, slot, ctx, turnVars, transcript, grabbed, crashes>>

StartReplyOldHistory(t) ==
  /\ pc[t] = "announced"
  /\ history' = [history EXCEPT ![t] = SelectSeq(transcript[Sess(t)], LAMBDA m : m.turn # t)]
  /\ chan' = [chan EXCEPT ![t] = TRUE]
  /\ Goto(t, "streaming")
  /\ UNCHANGED <<lock, slot, ctx, note, answer, deltas, final, transcript, wire, grabbed,
                 crashes>>

(* The transcript is read again (if that fails the history is empty) and   *)
(* handed to Agent.StreamReply, which may refuse: runChat returns at once, *)
(* with an error for a message whose id it has reported.                   *)
StartReply(t) ==
  /\ pc[t] = "announced"
  /\ \E h \in {transcript[Sess(t)], <<>>} : history' = [history EXCEPT ![t] = h]
  /\ \/ /\ chan' = [chan EXCEPT ![t] = TRUE]
        /\ Goto(t, "streaming")
        /\ UNCHANGED note
     \/ /\ note' = [note EXCEPT ![t] = "refused"]
        /\ Goto(t, "leaving")
        /\ UNCHANGED chan
  /\ UNCHANGED <<lock, slot, ctx, answer, deltas, final, transcript, wire, grabbed, crashes>>

(* The adapter sends, the loop broadcasts; nothing follows a final event. *)
Hear(t) ==
  /\ pc[t] = "streaming"
  /\ chan[t]
  /\ final[t] = "none"
  /\ \/ /\ deltas[t] < MaxDeltas
        /\ deltas' = [deltas EXCEPT ![t] = @ + 1]
        /\ Broadcast(t, "delta")
        /\ UNCHANGED final
     \/ \E e \in {"done", "cancelled"} :
          /\ final' = [final EXCEPT ![t] = e]
          /\ Broadcast(t, e)
          /\ UNCHANGED deltas
  /\ UNCHANGED <<lock, slot, ctx, pc, note, answer, chan, history, transcript, grabbed,
                 crashes>>

CloseChannel(t) ==
  /\ chan[t]
  /\ chan' = [chan EXCEPT ![t] = FALSE]
  /\ UNCHANGED <<lock, slot, ctx, pc, note, answer, deltas, final, history, transcript, wire,
                 grabbed, crashes>>

EndReplyUnmarked(t) ==
  /\ pc[t] = "streaming"
  /\ ~ chan[t]
  /\ IF final[t] = "none"
       THEN /\ Broadcast(t, "cancelled")
            /\ final' = [final EXCEPT ![t] = "done"]
       ELSE UNCHANGED <<wire, final>>
  /\ Goto(t, "ended")
  /\ UNCHANGED <<lock, slot, ctx, note, answer, deltas, chan, history, transcript, grabbed,
                 crashes>>

(* Without an assistant_done from the adapter the hub sends its own. *)
EndReply(t) ==
  /\ pc[t] = "streaming"
  /\ ~ chan[t]
  /\ IF final[t] = "none"
       THEN /\ Broadcast(t, "cancelled")
            /\ final' = [final EXCEPT ![t] = "cancelled"]
       ELSE UNCHANGED <<wire, final>>
  /\ Goto(t, "ended")
  /\ UNCHANGED <<lock, slot, ctx, note, answer, deltas, chan, history, transcript, grabbed,
                 crashes>>

(* AppendMessage(assistant); its error is ignored. *)
SaveReply(t) ==
  /\ pc[t] = "ended"
  /\ \/ AppendMessage(t, Assistant(t, final[t] = "cancelled"))
     \/ UNCHANGED transcript
  /\ Goto(t, "leaving")
  /\ UNCHANGED <<lock, slot, ctx, turnVars, wire, grabbed, crashes>>

(* The deferred cancel and clearTurnCancel, which empties the slot whoever *)
(* is in it, run before the deferred Unlock, and the error of a runChat    *)
(* that failed or was refused is reported after it.                        *)
ClearTurnCancel(t) ==
  /\ pc[t] = "leaving"
  /\ ctx' = [ctx EXCEPT ![t] = TRUE]
  /\ slot' = [slot EXCEPT ![Sess(t)] = None]
  /\ Goto(t, "cleared")
  /\ UNCHANGED <<lock, turnVars, transcript, wire, grabbed, crashes>>

Release(t) ==
  /\ pc[t] = "cleared"
  /\ lock' = [lock EXCEPT ![Sess(t)] = None]
  /\ note' = [note EXCEPT ![t] = CASE @ = "failing" -> "err"
                                    [] @ = "refused" -> "both"
                                    [] OTHER -> @]
  /\ Goto(t, "finished")
  /\ UNCHANGED <<slot, ctx, answer, deltas, final, chan, history, transcript, wire, grabbed,
                 crashes>>
------------------------------------------------------------------------------
(* cancelTurn takes the CancelFunc under turnsMu and calls it afterwards. *)
TakeCancel(x, s) ==
  /\ grabbed[x] = None
  /\ slot[s] # None
  /\ grabbed' = [grabbed EXCEPT ![x] = slot[s]]
  /\ slot' = [slot EXCEPT ![s] = None]
  /\ UNCHANGED <<lock, ctx, pc, turnVars, transcript, wire, crashes>>

CallCancelDropped(x) ==
  /\ grabbed[x] # None
  /\ grabbed' = [grabbed EXCEPT ![x] = None]
  /\ UNCHANGED <<lock, slot, ctx, pc, turnVars, transcript, wire, crashes>>

CallCancel(x) ==
  /\ grabbed[x] # None
  /\ ctx' = [ctx EXCEPT ![grabbed[x]] = TRUE]
  /\ grabbed' = [grabbed EXCEPT ![x] = None]
  /\ UNCHANGED <<lock, slot, pc, turnVars, transcript, wire, crashes>>

(* The process dies with its goroutines and its clients' connections. *)
Crash ==
  /\ crashes < MaxCrashes
  /\ crashes' = crashes + 1
  /\ lock' = [s \in Sessions |-> None]
  /\ slot' = [s \in Sessions |-> None]
  /\ ctx' = [t \in Turns |-> FALSE]
  /\ pc' = [t \in Turns |-> IF pc[t] \in {"new", "finished"} THEN pc[t] ELSE "lost"]
  /\ answer' = [t \in Turns |-> IF answer[t] = "wait" THEN "lost" ELSE answer[t]]
  /\ chan' = [t \in Turns |-> FALSE]
  /\ grabbed' = [x \in Stops |-> None]
  /\ UNCHANGED <<note, deltas, final, history, transcript, wire>>
------------------------------------------------------------------------------
Run(t) ==
  \/ Acquire(t) \/ SetTurnCancel(t) \/ SaveUser(t) \/ Announce(t) \/ StartReply(t)
  \/ EndReply(t) \/ SaveReply(t) \/ ClearTurnCancel(t) \/ Release(t)

Answer(t) == AnswerOk(t) \/ AnswerError(t) \/ AnswerTimeout(t)

Next ==
  \/ \E t \in Turns : Send(t) \/ Answer(t) \/ Run(t) \/ Hear(t) \/ CloseChannel(t)
  \/ \E x \in Stops : CallCancel(x) \/ \E s \in Sessions : TakeCancel(x, s)
  \/ Crash

Spec == Init /\ [][Next]_vars

(* Goroutines that can run do run.  A blocked Lock gets its turn: there    *)
(* are finitely many turns, and sync.Mutex does not starve a waiter.       *)
HubFairness ==
  /\ \A t \in Turns : WF_vars(Run(t)) /\ WF_vars(Answer(t))
  /\ \A x \in Stops : WF_vars(CallCancel(x))

(* An adapter whose context is cancelled closes its channel at last        *)
(* (BridgeJob!CancelUnblocksWaiter); others may say nothing for ever.      *)
FairSpec == Spec /\ HubFairness /\ \A t \in Turns : WF_vars(ctx[t] /\ CloseChannel(t))

(* All adapters close their channel at last (BridgeJob!StreamCloses).      *)
AdaptersClose == \A t \in Turns : WF_vars(CloseChannel(t))
------------------------------------------------------------------------------
Slotted == {"slotted", "saved", "announced", "streaming", "ended", "leaving"}
Holding == {"locked", "cleared"} \cup Slotted
Labels == {"new", "queued", "finished", "lost"} \cup Holding
Over == {"finished", "lost"}

Finals == {"done", "cancelled"}
Message == [turn : Turns, role : {"user", "assistant"}, cancelled : BOOLEAN]
WireEvent == [turn : Turns, type : {"user_message", "delta"} \cup Finals]

(* The shape of the state. *)
TypeOK ==
  /\ lock \in [Sessions -> Turns \cup {None}]
  /\ slot \in [Sessions -> Turns \cup {None}]
  /\ ctx \in [Turns -> BOOLEAN]
  /\ pc \in [Turns -> Labels]
  /\ note \in [Turns -> {"none", "id", "failing", "err", "refused", "both"}]
  /\ answer \in [Turns -> {"none", "wait", "ok", "failed", "lost"}]
  /\ deltas \in [Turns -> 0..MaxDeltas]
  /\ final \in [Turns -> Finals \cup {"none"}]
  /\ chan \in [Turns -> BOOLEAN]
  /\ history \in [Turns -> Seq(Message)]
  /\ transcript \in [Sessions -> Seq(Message)]
  /\ wire \in [Sessions -> Seq(WireEvent)]
  /\ grabbed \in [Stops -> Turns \cup {None}]
  /\ crashes \in 0..MaxCrashes

(* clearTurnCancel empties the slot without looking whose CancelFunc it    *)
(* is ("CancelFuncs are not comparable").  It never evicts another turn:   *)
(* the slot only ever holds the turn that holds the session's mutex and    *)
(* has not left yet, so setTurnCancel finds nobody to cancel either.       *)
SlotIsRunning ==
  \A s \in Sessions : \A t \in Turns :
    slot[s] = t => lock[s] = t /\ pc[t] \in Slotted /\ Sess(t) = s

(* Stop cannot miss a running turn: until it leaves, a turn is in its      *)
(* session's slot, or a Stop holds its CancelFunc, or it is cancelled.     *)
StopReaches ==
  \A t \in Turns :
    pc[t] \in Slotted => slot[Sess(t)] = t \/ ctx[t] \/ \E x \in Stops : grabbed[x] = t

(* What clearTurnCancel relies on, which compares nothing, and what Stop   *)
(* relies on.                                                              *)
StopFinds == SlotIsRunning /\ StopReaches

(* The agent is given this turn's message last, and before it only         *)
(* messages of turns that are over, never half of a turn still running;    *)
(* or it is given nothing, when the transcript cannot be read.             *)
HistoryComplete ==
  \A t \in Turns :
    LET h == history[t] IN
    h # <<>> => /\ h[Len(h)] = User(t)
                /\ \A i \in 1..Len(h)-1 : h[i].turn # t /\ pc[h[i].turn] \in Over

(* The adapter returned an error instead of a channel.  None in this       *)
(* repository does, but runChat has the path.                              *)
Refused(t) == note[t] \in {"refused", "both"}

(* Clients see the turns of a session one after the other: the next one    *)
(* opens with its user_message, after the last one's assistant_done        *)
(* (unless the process died in between, or the adapter refused that turn). *)
WireBracketed ==
  \A s \in Sessions : \A i \in 2..Len(wire[s]) :
    LET a == wire[s][i-1]
        b == wire[s][i]
    IN  a.turn # b.turn =>
          /\ b.type = "user_message"
          /\ a.type \in Finals \/ pc[a.turn] = "lost" \/ Refused(a.turn)

(* Each turn that its adapter took gets exactly one assistant_done, its    *)
(* last event, whether the adapter sent one or not.  A refused turn gets   *)
(* none: its clients have seen the user_message and hear no more of it.    *)
OneFinal ==
  \A t \in Turns :
    LET w == wire[Sess(t)]
        ends == {i \in DOMAIN w : w[i].turn = t /\ w[i].type \in Finals}
    IN
    /\ \A i \in ends : \A j \in DOMAIN w : i < j => w[j].turn # t
    /\ pc[t] = "finished" /\ note[t] = "id" => ends # {}
    /\ Refused(t) => ends = {}

(* What the page relies on: turns one after the other, each with one end,  *)
(* but for those that were refused.                                        *)
WireOrdered == WireBracketed /\ OneFinal

(* A stored reply follows its own message, and is marked cancelled exactly *)
(* when the clients were told so.                                          *)
TranscriptAgrees ==
  \A s \in Sessions : \A i \in DOMAIN transcript[s] :
    LET m == transcript[s][i] IN
    m.role = "assistant" =>
      /\ i > 1 /\ transcript[s][i-1] = User(m.turn)
      /\ \E j \in DOMAIN wire[s] :
           wire[s][j] = [turn |-> m.turn, type |-> IF m.cancelled THEN "cancelled" ELSE "done"]

(* A message answered with an id is on disk, whatever happens later.       *)
OkMeansSaved ==
  \A t \in Turns :
    answer[t] = "ok" => \E i \in DOMAIN transcript[Sess(t)] : transcript[Sess(t)][i] = User(t)

(* Given such adapters every turn that was started ends, however many wait *)
(* for the session.                                                        *)
TurnsFinish == AdaptersClose => \A t \in Turns : (pc[t] = "queued") ~> (pc[t] \in Over)

(* A turn whose CancelFunc a Stop has taken ends, even if its adapter      *)
(* never ends by itself.                                                   *)
StopEndsTurn ==
  \A t \in Turns : (\E x \in Stops : grabbed[x] = t) ~> (pc[t] \in Over)
==============================================================================
