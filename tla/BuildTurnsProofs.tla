-------------------------- MODULE BuildTurnsProofs --------------------------
(***************************************************************************)
(* Proofs about the turns of a Grok Build session, for any number of turns *)
(* and Stops and channels of any capacity.                                 *)
(***************************************************************************)
EXTENDS BuildTurns, TLAPS

(* The stages at which runBuildChat has the session's mutex. *)
Holding ==
  {"slotted", "loaded", "announced", "hearing", "leaving", "left", "failed", "failing"}

HoldInv == \A t \in Turns : pc[t] \in Holding => lock = t

(* How far a Prompt is, and what it has said by then. *)
Stage(t) ==
  /\ prompt[t] \notin {"none", "closed"} => pc[t] = "hearing"
  /\ pc[t] \in {"new", "slotted", "loaded", "announced"} => prompt[t] = "none"
  /\ prompt[t] \in {"none", "start"} => req[t] = "none" /\ out[t] = <<>>
  /\ IF prompt[t] \in {"ending", "closed"}
       THEN \E i \in DOMAIN sent[t] : sent[t][i] \in Finals
       ELSE \A i \in DOMAIN sent[t] : sent[t][i] \notin Finals

StageInv == \A t \in Turns : Stage(t)

(* What a Prompt is going to say at its end is what its request came to. *)
OutcomeInv ==
  \A t \in Turns :
    prompt[t] \in {"drain", "final", "ending", "closed"} =>
      /\ outcome[t] = "done" => req[t] = "answered"
      /\ outcome[t] = "failed" => req[t] = "error"

(* A prompt on its way to the agent, or with it, is there once, and its    *)
(* request is not answered.                                                *)
IsPrompt(m, t) == m.type = "prompt" /\ m.turn = t

AgentInv ==
  /\ \A t \in running : /\ req[t] \in {"sent", "gaveUp"}
                        /\ \A i \in DOMAIN toAgent : ~ IsPrompt(toAgent[i], t)
  /\ \A i \in DOMAIN toAgent : toAgent[i].type = "prompt" =>
       /\ toAgent[i].turn \in Turns
       /\ req[toAgent[i].turn] \in {"sent", "gaveUp"}
       /\ \A j \in DOMAIN toAgent : IsPrompt(toAgent[j], toAgent[i].turn) => i = j

(* Once a Prompt has drained its subscription, no update of its own can    *)
(* come after the answer.                                                  *)
QueueInv ==
  \A t \in Turns :
    prompt[t] \in {"final", "ending"} /\ outcome[t] = "done"
      => \A i \in DOMAIN queue[t] : queue[t][i] # t

(* The last event that clients got is of the turn that is running, or the  *)
(* late error of another.                                                  *)
LastInv ==
  \A t \in Turns : pc[t] \in {"announced", "hearing"} =>
    /\ wire # <<>>
    /\ wire[Len(wire)].turn = t \/ wire[Len(wire)].type = "failed"

(* TypeOK by what the steps touch together. *)
TypeStages ==
  /\ lock \in Turns \cup {None} /\ slot \in Turns \cup {None}
  /\ {rawSet, onDisk, up} \subseteq BOOLEAN
  /\ ctx \in [Turns -> BOOLEAN]
  /\ pc \in [Turns -> {"new", "slotted", "loaded", "announced", "hearing", "leaving", "left",
                       "failed", "failing", "report", "over"}]
  /\ prompt \in [Turns -> {"none", "start", "loop", "drain", "final", "ending", "closed"}]
  /\ outcome \in [Turns -> Finals]
  /\ subs \subseteq Turns
  /\ req \in [Turns -> {"none", "new", "sent", "answered", "stopped", "gaveUp", "error"}]
  /\ losses \in 0..MaxLosses
  /\ running \subseteq Turns /\ halted \subseteq Turns
  /\ left \in [Turns -> 0..MaxUpdates]
  /\ stop \in [Stops -> {"idle", "called", "over"}]

Event == [turn : Turns, type : EventKind \cup {"user_message", "snapshot"}]
Message == [type : {"prompt", "cancel"}, turn : Turns \cup {None}]

TypeOut ==
  /\ out \in [Turns -> Seq(EventKind)] /\ sent \in [Turns -> Seq(EventKind)]
  /\ \A t \in Turns : Len(out[t]) <= OutCap

TypeQueue ==
  /\ queue \in [Turns -> Seq(Turns)] /\ text \in [Turns -> Seq(Turns)]
  /\ \A t \in Turns : Len(queue[t]) <= QueueCap

IInv == TypeOK /\ HoldInv /\ StageInv /\ OutcomeInv /\ AgentInv /\ QueueInv /\ LastInv
               /\ BuildBracketed
------------------------------------------------------------------------------
LEMMA TypeParts ==
  TypeOK <=> /\ TypeStages /\ TypeOut /\ TypeQueue
             /\ wire \in Seq(Event) /\ toAgent \in Seq(Message)
BY DEF TypeOK, TypeStages, TypeOut, TypeQueue, Event, Message

LEMMA Bounds ==
  /\ QueueCap \in Nat /\ QueueCap > 0 /\ OutCap \in Nat /\ OutCap > 0
  /\ MaxUpdates \in Nat /\ MaxLosses \in Nat
BY ConstantsAssumption

LEMMA InitStages == Init => TypeStages
<1> SUFFICES ASSUME Init
             PROVE  TypeStages
  OBVIOUS
<1>1. {rawSet, onDisk, up} \subseteq BOOLEAN
  BY DEF Init
<1>2. losses \in 0..MaxLosses /\ left \in [Turns -> 0..MaxUpdates]
  BY Bounds DEF Init
<1>3. /\ prompt \in [Turns -> {"none"}] /\ req \in [Turns -> {"none"}] /\ pc \in [Turns -> {"new"}]
      /\ outcome \in [Turns -> {"done"}] /\ stop \in [Stops -> {"idle"}] /\ ctx \in [Turns -> {FALSE}]
  BY DEF Init
<1> QED
  BY <1>1, <1>2, <1>3 DEF Init, TypeStages, Finals

LEMMA InitChans == Init => /\ TypeOut /\ TypeQueue
                           /\ wire \in Seq(Event) /\ toAgent \in Seq(Message)
<1> SUFFICES ASSUME Init
             PROVE  /\ TypeOut /\ TypeQueue
                    /\ wire \in Seq(Event) /\ toAgent \in Seq(Message)
  OBVIOUS
<1>1. \A S : <<>> \in Seq(S) /\ Len(<<>>) = 0
  OBVIOUS
<1> QED
  BY <1>1, Bounds DEF Init, TypeOut, TypeQueue

LEMMA InitIInv == Init => IInv
<1> SUFFICES ASSUME Init
             PROVE  IInv
  OBVIOUS
<1>1. TypeOK
  BY InitStages, InitChans, TypeParts
<1>2. HoldInv /\ StageInv /\ OutcomeInv
  BY DEF Init, HoldInv, StageInv, Stage, OutcomeInv, Holding
<1>3. AgentInv /\ QueueInv /\ LastInv /\ BuildBracketed
  BY DEF Init, AgentInv, QueueInv, LastInv, BuildBracketed
<1> QED
  BY <1>1, <1>2, <1>3 DEF IInv

(* The stages. *)
LEMMA RunningStages ==
  ASSUME TypeStages, NEW t \in Turns, Start(t) \/ Running(t)
  PROVE  TypeStages'
<1> USE DEF TypeStages, Goto, Step, chans, link, agent
<1>1. CASE Start(t) \/ Load(t) \/ Leave(t) \/ Release(t)
  BY <1>1 DEF Start, Load, Leave, Release
<1>2. CASE Announce(t) \/ CallPrompt(t) \/ Report(t)
  BY <1>2 DEF Announce, CallPrompt, Report
<1>3. CASE Hear(t) \/ HeardAll(t)
  BY <1>3 DEF Hear, HeardAll
<1> QED
  BY <1>1, <1>2, <1>3 DEF Running

LEMMA PromptingStages ==
  ASSUME TypeStages, NEW t \in Turns, Prompting(t)
  PROVE  TypeStages'
<1> USE DEF TypeStages, Step, hub, chans, link, agent, Finals
<1>1. CASE PromptStart(t) \/ SayEnd(t) \/ EndPrompt(t)
  BY <1>1 DEF PromptStart, SayEnd, EndPrompt
<1>2. CASE Forward(t) \/ Drain(t) \/ Drained(t)
  BY <1>2 DEF Forward, Drain, Drained
<1>3. CASE SeeCancel(t) \/ SeeResult(t) \/ SeeError(t)
  BY <1>3 DEF SeeCancel, SeeResult, SeeError
<1> QED
  BY <1>1, <1>2, <1>3 DEF Prompting

LEMMA NextStages ==
  TypeStages /\ toAgent \in Seq(Message) /\ AgentInv /\ [Next]_vars => TypeStages'
<1> SUFFICES ASSUME TypeStages, toAgent \in Seq(Message), AgentInv, [Next]_vars
             PROVE  TypeStages'
  OBVIOUS
<1> USE DEF TypeStages, hub, chans, link, agent
<1>1. ASSUME NEW t \in Turns, Requesting(t) \/ AgentUpdates(t) \/ AgentAnswers(t)
      PROVE  TypeStages'
  <2>1. CASE Requesting(t)
    BY <1>1, <2>1 DEF Requesting, WritePrompt, GiveUp
  <2>2. CASE AgentUpdates(t)
    BY <1>1, <2>2, Bounds DEF AgentUpdates
  <2>3. CASE AgentAnswers(t)
    BY <1>1, <2>3 DEF AgentAnswers
  <2> QED
    BY <1>1, <2>1, <2>2, <2>3
<1>2. ASSUME NEW x \in Stops, StopTurn(x) \/ StopAgent(x)
      PROVE  TypeStages'
  BY <1>2 DEF StopTurn, StopAgent
<1>3. CASE AgentReads
  <2>1. 1 \in DOMAIN toAgent /\ Head(toAgent) = toAgent[1]
    BY <1>3 DEF AgentReads
  <2>2. toAgent[1].type = "prompt" => toAgent[1].turn \in Turns
    BY <2>1 DEF AgentInv
  <2> QED
    BY <1>3, <2>1, <2>2 DEF AgentReads
<1>4. CASE Lose
  <2>1. losses' \in 0..MaxLosses
    BY <1>4, Bounds DEF Lose
  <2>2. req' \in [Turns -> {"none", "new", "sent", "answered", "stopped", "gaveUp", "error"}]
    BY <1>4 DEF Lose
  <2> QED
    BY <1>4, <2>1, <2>2 DEF Lose
<1>5. CASE UNCHANGED vars
  BY <1>5 DEF vars
<1> QED
  BY <1>1, <1>2, <1>3, <1>4, <1>5, RunningStages, PromptingStages DEF Next

(* The channels. *)
LEMMA EmitTyped ==
  ASSUME TypeOut, NEW t \in Turns, NEW e \in EventKind, Emit(t, e), Room(t)
  PROVE  TypeOut'
<1>1. out[t] \in Seq(EventKind) /\ sent[t] \in Seq(EventKind)
  BY DEF TypeOut
<1>2. /\ Append(out[t], e) \in Seq(EventKind) /\ Append(sent[t], e) \in Seq(EventKind)
      /\ Len(Append(out[t], e)) <= OutCap
  BY <1>1, Bounds DEF Room
<1>3. out' \in [Turns -> Seq(EventKind)] /\ sent' \in [Turns -> Seq(EventKind)]
  BY <1>2 DEF Emit, TypeOut
<1>4. \A u \in Turns : out'[u] = out[u] \/ out'[u] = Append(out[t], e)
  BY DEF Emit, TypeOut
<1> QED
  BY <1>2, <1>3, <1>4 DEF TypeOut

LEMMA TakeTyped ==
  ASSUME TypeQueue, NEW t \in Turns, Take(t)
  PROVE  TypeQueue'
<1>1. queue[t] \in Seq(Turns) /\ text[t] \in Seq(Turns) /\ queue[t] # <<>>
  BY DEF TypeQueue, Take
<1>2. /\ Tail(queue[t]) \in Seq(Turns) /\ Append(text[t], Head(queue[t])) \in Seq(Turns)
      /\ Len(Tail(queue[t])) <= Len(queue[t])
  BY <1>1
<1>3. queue' \in [Turns -> Seq(Turns)] /\ text' \in [Turns -> Seq(Turns)]
  BY <1>2 DEF Take, TypeQueue
<1>4. Len(Tail(queue[t])) <= QueueCap
  BY <1>1, Bounds DEF TypeQueue
<1>5. \A u \in Turns : queue'[u] = queue[u] \/ queue'[u] = Tail(queue[t])
  BY DEF Take, TypeQueue
<1> QED
  BY <1>3, <1>4, <1>5 DEF TypeQueue

LEMMA NextOut == TypeStages /\ TypeOut /\ StageInv /\ [Next]_vars => TypeOut'
<1> SUFFICES ASSUME TypeStages, TypeOut, StageInv, [Next]_vars
             PROVE  TypeOut'
  OBVIOUS
<1>1. CASE UNCHANGED <<out, sent>>
  BY <1>1 DEF TypeOut
<1>2. ASSUME NEW t \in Turns, Hear(t)
      PROVE  TypeOut'
  <2>1. out[t] \in Seq(EventKind) /\ out[t] # <<>>
    BY <1>2 DEF Hear, TypeOut
  <2>2. Tail(out[t]) \in Seq(EventKind) /\ Len(Tail(out[t])) <= Len(out[t])
    BY <2>1
  <2>3. out' \in [Turns -> Seq(EventKind)]
    BY <1>2, <2>2 DEF Hear, TypeOut
  <2>4. \A u \in Turns : out'[u] = out[u] \/ (u = t /\ out'[u] = Tail(out[t]))
    BY <1>2 DEF Hear, TypeOut
  <2> QED
    BY <1>2, <2>2, <2>3, <2>4, Bounds DEF Hear, TypeOut
<1>3. ASSUME NEW t \in Turns, PromptStart(t)
      PROVE  TypeOut'
  <2>1. Room(t)
    BY <1>3, Bounds DEF PromptStart, StageInv, Stage, Room
  <2>2. "start" \in EventKind
    BY DEF EventKind
  <2> QED
    BY <1>3, <2>1, <2>2, EmitTyped DEF PromptStart
<1>4. ASSUME NEW t \in Turns, Forward(t) \/ Drain(t) \/ SayEnd(t)
      PROVE  TypeOut'
  <2>1. outcome[t] \in Finals
    BY DEF TypeStages
  <2>2. "delta" \in EventKind /\ Finals \subseteq EventKind
    BY DEF EventKind
  <2>3. CASE Forward(t) \/ SayEnd(t)
    BY <2>1, <2>2, <2>3, EmitTyped DEF Forward, SayEnd
  <2>4. CASE Drain(t)
    BY <1>1, <2>2, <2>4, EmitTyped DEF Drain
  <2> QED
    BY <1>4, <2>3, <2>4
<1>5. ASSUME NEW t \in Turns, Start(t) \/ Running(t), ~ Hear(t)
      PROVE  UNCHANGED <<out, sent>>
  BY <1>5 DEF Start, Running, Load, Announce, CallPrompt, HeardAll, Leave, Release, Report, chans
<1>6. ASSUME NEW t \in Turns, Prompting(t), ~ (PromptStart(t) \/ Forward(t) \/ Drain(t) \/ SayEnd(t))
      PROVE  UNCHANGED <<out, sent>>
  BY <1>6 DEF Prompting, SeeCancel, SeeResult, SeeError, Drained, EndPrompt, chans
<1>7. ASSUME NEW t \in Turns, Requesting(t) \/ AgentUpdates(t) \/ AgentAnswers(t)
      PROVE  UNCHANGED <<out, sent>>
  BY <1>7 DEF Requesting, WritePrompt, GiveUp, AgentUpdates, AgentAnswers, chans
<1>8. ASSUME NEW x \in Stops, StopTurn(x) \/ StopAgent(x)
      PROVE  UNCHANGED <<out, sent>>
  BY <1>8 DEF StopTurn, StopAgent, chans
<1>9. CASE AgentReads \/ Lose \/ UNCHANGED vars
  BY <1>1, <1>9 DEF AgentReads, Lose, vars, chans
<1> QED
  BY <1>1, <1>2, <1>3, <1>4, <1>5, <1>6, <1>7, <1>8, <1>9 DEF Next
LEMMA NextQueue == TypeQueue /\ [Next]_vars => TypeQueue'
<1> SUFFICES ASSUME TypeQueue, [Next]_vars
             PROVE  TypeQueue'
  OBVIOUS
<1>1. CASE UNCHANGED <<queue, text>>
  BY <1>1 DEF TypeQueue
<1>2. ASSUME NEW t \in Turns, Forward(t) \/ Drain(t) \/ SeeCancel(t)
      PROVE  TypeQueue'
  BY <1>1, <1>2, TakeTyped DEF Forward, Drain, SeeCancel
<1>3. ASSUME NEW t \in Turns, AgentUpdates(t)
      PROVE  TypeQueue'
  <2>1. \A u \in Turns : \/ queue'[u] = queue[u]
                         \/ Len(queue[u]) < QueueCap /\ queue'[u] = Append(queue[u], t)
    BY <1>3 DEF AgentUpdates
  <2>2. \A u \in Turns : /\ Append(queue[u], t) \in Seq(Turns)
                         /\ Len(Append(queue[u], t)) = Len(queue[u]) + 1
    BY DEF TypeQueue
  <2>3. queue' \in [Turns -> Seq(Turns)] /\ text' = text
    BY <1>3, <2>2 DEF AgentUpdates, TypeQueue
  <2>4. \A u \in Turns : Len(queue'[u]) <= QueueCap
    <3> TAKE u \in Turns
    <3>1. Len(queue[u]) \in Nat /\ Len(queue[u]) <= QueueCap
      BY DEF TypeQueue
    <3> QED
      BY <2>1, <2>2, <3>1, Bounds
  <2> QED
    BY <2>3, <2>4 DEF TypeQueue
<1>4. ASSUME NEW t \in Turns, Start(t) \/ Running(t)
      PROVE  UNCHANGED <<queue, text>>
  BY <1>4 DEF Start, Running, Load, Announce, CallPrompt, Hear, HeardAll, Leave, Release, Report, chans
<1>5. ASSUME NEW t \in Turns, Prompting(t), ~ (Forward(t) \/ Drain(t) \/ SeeCancel(t))
      PROVE  UNCHANGED <<queue, text>>
  BY <1>5 DEF Prompting, PromptStart, SeeResult, SeeError, Drained, SayEnd, EndPrompt, chans
<1>6. ASSUME NEW t \in Turns, Requesting(t) \/ AgentAnswers(t)
      PROVE  UNCHANGED <<queue, text>>
  BY <1>6 DEF Requesting, WritePrompt, GiveUp, AgentAnswers, chans
<1>7. ASSUME NEW x \in Stops, StopTurn(x) \/ StopAgent(x)
      PROVE  UNCHANGED <<queue, text>>
  BY <1>7 DEF StopTurn, StopAgent, chans
<1>8. CASE AgentReads \/ Lose \/ UNCHANGED vars
  BY <1>1, <1>8 DEF AgentReads, Lose, vars, chans
<1> QED
  BY <1>1, <1>2, <1>3, <1>4, <1>5, <1>6, <1>7, <1>8 DEF Next

(* What is written to the agent. *)
LEMMA NextLink ==
  TypeStages /\ toAgent \in Seq(Message) /\ [Next]_vars => (toAgent \in Seq(Message))'
<1> SUFFICES ASSUME TypeStages, toAgent \in Seq(Message), [Next]_vars
             PROVE  toAgent' \in Seq(Message)
  OBVIOUS
<1>1. ASSUME NEW m \in Message, toAgent' = Append(toAgent, m)
      PROVE  toAgent' \in Seq(Message)
  BY <1>1
<1>2. [type |-> "cancel", turn |-> None] \in Message
  BY DEF Message
<1>3. ASSUME NEW t \in Turns, SeeCancel(t)
      PROVE  toAgent' \in Seq(Message)
  BY <1>1, <1>2, <1>3 DEF SeeCancel, NotifyCancel
<1>4. ASSUME NEW x \in Stops, StopTurn(x) \/ StopAgent(x)
      PROVE  toAgent' \in Seq(Message)
  BY <1>1, <1>2, <1>4 DEF StopTurn, StopAgent, NotifyCancel, link
<1>5. ASSUME NEW t \in Turns, Requesting(t)
      PROVE  toAgent' \in Seq(Message)
  <2>1. [type |-> "prompt", turn |-> t] \in Message
    BY DEF Message
  <2>2. toAgent' \in {toAgent, Append(toAgent, [type |-> "prompt", turn |-> t])}
    BY <1>5 DEF Requesting, WritePrompt, GiveUp, link
  <2> QED
    BY <2>1, <2>2
<1>6. CASE AgentReads
  <2>1. toAgent # <<>> /\ toAgent' = Tail(toAgent)
    BY <1>6 DEF AgentReads
  <2> QED
    BY <2>1
<1>7. CASE Lose
  <2>1. toAgent' = <<>>
    BY <1>7 DEF Lose
  <2> QED
    BY <2>1
<1>8. CASE UNCHANGED vars
  BY <1>8 DEF vars, link
<1>9. ASSUME NEW t \in Turns, Start(t) \/ Running(t)
      PROVE  UNCHANGED toAgent
  BY <1>9 DEF Start, Running, Load, Announce, CallPrompt, Hear, HeardAll, Leave, Release, Report, link
<1>10. ASSUME NEW t \in Turns, Prompting(t), ~ SeeCancel(t)
       PROVE  UNCHANGED toAgent
  BY <1>10 DEF Prompting, PromptStart, Forward, SeeResult, SeeError, Drain, Drained, SayEnd, EndPrompt, link
<1>11. ASSUME NEW t \in Turns, AgentUpdates(t) \/ AgentAnswers(t)
       PROVE  UNCHANGED toAgent
  BY <1>11 DEF AgentUpdates, AgentAnswers, link
<1> QED
  BY <1>3, <1>4, <1>5, <1>6, <1>7, <1>8, <1>9, <1>10, <1>11 DEF Next

(* The events that clients get. *)
Says(t, e) == Append(wire, [turn |-> t, type |-> e])

LEMMA SaysTyped ==
  ASSUME wire \in Seq(Event), NEW t \in Turns, NEW e \in EventKind \cup {"user_message", "snapshot"}
  PROVE  Says(t, e) \in Seq(Event)
BY DEF Says, Event

(* Every Prompt that is closed has said its end: HeardAll makes up none.   *)
LEMMA HeardAllSays ==
  ASSUME TypeOut, wire \in Seq(Event), StageInv, NEW t \in Turns, HeardAll(t)
  PROVE  wire' \in {wire, Says(t, "snapshot")}
<1>1. \E i \in DOMAIN sent[t] : sent[t][i] \in Finals
  BY DEF HeardAll, StageInv, Stage
<1>2. wire' = LET last == <<>> \o (IF onDisk' THEN <<"snapshot">> ELSE <<>>)
              IN  wire \o [i \in DOMAIN last |-> [turn |-> t, type |-> last[i]]]
  BY <1>1 DEF HeardAll
<1>3. CASE onDisk'
  <2> DEFINE last == <<>> \o <<"snapshot">>
             told == [i \in DOMAIN last |-> [turn |-> t, type |-> last[i]]]
  <2>1. last = <<"snapshot">> /\ DOMAIN last = {1}
    OBVIOUS
  <2>2. told = <<[turn |-> t, type |-> "snapshot"]>>
    BY <2>1
  <2>3. wire' = wire \o told
    BY <1>2, <1>3
  <2> HIDE DEF told
  <2> QED
    BY <2>2, <2>3 DEF Says
<1>4. CASE ~ onDisk'
  <2> DEFINE last == <<>> \o <<>>
             told == [i \in DOMAIN last |-> [turn |-> t, type |-> last[i]]]
  <2>1. last = <<>> /\ DOMAIN last = {}
    OBVIOUS
  <2>2. told = <<>>
    BY <2>1
  <2>3. wire' = wire \o told
    BY <1>2, <1>4
  <2> HIDE DEF told
  <2> QED
    BY <2>2, <2>3
<1> QED
  BY <1>3, <1>4
(* Only runBuildChat takes the mutex and tells the clients. *)
LEMMA HubFrame ==
  ASSUME [Next]_vars, \A t \in Turns : ~ (Start(t) \/ Running(t))
  PROVE  UNCHANGED <<lock, pc, wire>>
<1>1. ASSUME NEW t \in Turns, Prompting(t)
      PROVE  UNCHANGED <<lock, pc, wire>>
  BY <1>1 DEF Prompting, PromptStart, Forward, SeeCancel, SeeResult, SeeError, Drain, Drained,
              SayEnd, EndPrompt, hub
<1>2. ASSUME NEW t \in Turns, Requesting(t) \/ AgentUpdates(t) \/ AgentAnswers(t)
      PROVE  UNCHANGED <<lock, pc, wire>>
  BY <1>2 DEF Requesting, WritePrompt, GiveUp, AgentUpdates, AgentAnswers, hub
<1>3. ASSUME NEW x \in Stops, StopTurn(x) \/ StopAgent(x)
      PROVE  UNCHANGED <<lock, pc, wire>>
  BY <1>3 DEF StopTurn, StopAgent
<1>4. CASE AgentReads \/ Lose \/ UNCHANGED vars
  BY <1>4 DEF AgentReads, Lose, vars, hub
<1> QED
  BY <1>1, <1>2, <1>3, <1>4 DEF Next

LEMMA NextWire ==
  TypeStages /\ TypeOut /\ wire \in Seq(Event) /\ StageInv /\ [Next]_vars => (wire \in Seq(Event))'
<1> SUFFICES ASSUME TypeStages, TypeOut, wire \in Seq(Event), StageInv, [Next]_vars
             PROVE  wire' \in Seq(Event)
  OBVIOUS
<1>1. ASSUME NEW t \in Turns, Hear(t)
      PROVE  wire' \in Seq(Event)
  <2>1. out[t] \in Seq(EventKind) /\ out[t] # <<>>
    BY <1>1 DEF Hear, TypeOut
  <2>2. Head(out[t]) \in EventKind
    BY <2>1
  <2>3. wire' = Says(t, Head(out[t]))
    BY <1>1 DEF Hear, Broadcast, Says
  <2> QED
    BY <2>2, <2>3, SaysTyped
<1>2. ASSUME NEW t \in Turns, Start(t) \/ Running(t), ~ Hear(t)
      PROVE  wire' \in Seq(Event)
  <2>1. \/ wire' = wire
        \/ \E e \in {"user_message", "failed", "snapshot"} : wire' = Says(t, e)
    <3>1. CASE HeardAll(t)
      BY <3>1, HeardAllSays
    <3>2. CASE ~ HeardAll(t)
      BY <1>2, <3>2 DEF Start, Running, Load, Announce, CallPrompt, Leave, Release, Report, Broadcast, Says
    <3> QED
      BY <3>1, <3>2
  <2> QED
    BY <2>1, SaysTyped DEF EventKind, Finals
<1>3. CASE \A t \in Turns : ~ (Start(t) \/ Running(t))
  BY <1>3, HubFrame
<1> QED
  BY <1>1, <1>2, <1>3

LEMMA NextTypeOK == IInv /\ [Next]_vars => TypeOK'
<1>1. TypeOK' <=> /\ TypeStages' /\ TypeOut' /\ TypeQueue'
                  /\ wire' \in Seq(Event) /\ toAgent' \in Seq(Message)
  BY DEF TypeOK, TypeStages, TypeOut, TypeQueue, Event, Message
<1> QED
  BY <1>1, TypeParts, NextStages, NextOut, NextQueue, NextLink, NextWire DEF IInv
------------------------------------------------------------------------------
(* The session's mutex. *)
LEMMA NextHold == TypeStages /\ HoldInv /\ [Next]_vars => HoldInv'
<1> SUFFICES ASSUME TypeStages, HoldInv, [Next]_vars
             PROVE  HoldInv'
  OBVIOUS
<1>1. ASSUME NEW t \in Turns, Start(t)
      PROVE  HoldInv'
  BY <1>1, ConstantsAssumption DEF Start, HoldInv, Holding, TypeStages, Goto
<1>2. ASSUME NEW t \in Turns, Release(t)
      PROVE  HoldInv'
  BY <1>2 DEF Release, HoldInv, Holding, TypeStages, Goto
<1>3. ASSUME NEW t \in Turns, Running(t), ~ Release(t)
      PROVE  HoldInv'
  <2> USE DEF Holding, Goto, TypeStages
  <2>1. CASE Load(t) \/ Announce(t) \/ CallPrompt(t)
    BY <2>1 DEF Load, Announce, CallPrompt, HoldInv
  <2>2. CASE Hear(t) \/ HeardAll(t)
    BY <2>2 DEF Hear, HeardAll, HoldInv
  <2>3. CASE Leave(t)
    BY <2>3 DEF Leave, HoldInv
  <2>4. CASE Report(t)
    BY <2>4 DEF Report, HoldInv
  <2> QED
    BY <1>3, <2>1, <2>2, <2>3, <2>4 DEF Running
<1>4. CASE \A t \in Turns : ~ (Start(t) \/ Running(t))
  BY <1>4, HubFrame DEF HoldInv
<1> QED
  BY <1>1, <1>2, <1>3, <1>4
------------------------------------------------------------------------------
(* What a Prompt says. *)
(* A step of one turn leaves what another is doing alone. *)
LEMMA OthersFrame ==
  ASSUME TypeStages, TypeOut, NEW t \in Turns, Start(t) \/ Running(t) \/ Prompting(t), NEW u \in Turns \ {t}
  PROVE  /\ pc'[u] = pc[u] /\ prompt'[u] = prompt[u] /\ req'[u] = req[u] /\ outcome'[u] = outcome[u]
         /\ out'[u] = out[u] /\ sent'[u] = sent[u]
<1> USE DEF Goto, Step, TypeStages, TypeOut, hub, chans, link, agent
<1>1. CASE Start(t) \/ Load(t) \/ Leave(t) \/ Release(t)
  BY <1>1 DEF Start, Load, Leave, Release
<1>2. CASE Announce(t) \/ CallPrompt(t) \/ Report(t)
  BY <1>2 DEF Announce, CallPrompt, Report
<1>3. CASE Hear(t) \/ HeardAll(t)
  BY <1>3 DEF Hear, HeardAll
<1>4. CASE PromptStart(t) \/ Forward(t) \/ Drain(t) \/ SayEnd(t)
  BY <1>4 DEF PromptStart, Forward, Drain, SayEnd, Emit
<1>5. CASE SeeCancel(t) \/ SeeResult(t) \/ SeeError(t) \/ Drained(t) \/ EndPrompt(t)
  BY <1>5 DEF SeeCancel, SeeResult, SeeError, Drained, EndPrompt
<1> QED
  BY <1>1, <1>2, <1>3, <1>4, <1>5 DEF Running, Prompting

LEMMA EmitSays ==
  ASSUME TypeOut, NEW t \in Turns, NEW e \in EventKind, Emit(t, e)
  PROVE  /\ DOMAIN sent'[t] = DOMAIN sent[t] \cup {Len(sent[t]) + 1}
         /\ \A i \in DOMAIN sent[t] : sent'[t][i] = sent[t][i]
         /\ sent'[t][Len(sent[t]) + 1] = e
<1>1. sent'[t] = Append(sent[t], e) /\ sent[t] \in Seq(EventKind)
  BY DEF Emit, TypeOut
<1> QED
  BY <1>1

LEMMA EmitNoEnd ==
  ASSUME TypeOut, NEW t \in Turns, NEW e \in EventKind \ Finals, Emit(t, e),
         \A i \in DOMAIN sent[t] : sent[t][i] \notin Finals
  PROVE  \A i \in DOMAIN sent'[t] : sent'[t][i] \notin Finals
<1>1. /\ DOMAIN sent'[t] = DOMAIN sent[t] \cup {Len(sent[t]) + 1}
      /\ \A i \in DOMAIN sent[t] : sent'[t][i] = sent[t][i]
      /\ sent'[t][Len(sent[t]) + 1] = e
  BY EmitSays
<1> QED
  BY <1>1

LEMMA PromptingStage ==
  ASSUME TypeStages, TypeOut, NEW t \in Turns, Stage(t), Prompting(t)
  PROVE  Stage(t)'
<1> USE DEF Stage, Step, TypeStages, hub
<1>1. CASE PromptStart(t)
  <2>1. "start" \in EventKind /\ "start" \notin Finals /\ Emit(t, "start")
    BY <1>1 DEF EventKind, Finals, PromptStart
  <2>2. pc[t] = "hearing" /\ pc'[t] = pc[t] /\ prompt'[t] = "loop" /\ prompt[t] = "start"
    BY <1>1 DEF PromptStart
  <2>3. \A i \in DOMAIN sent'[t] : sent'[t][i] \notin Finals
    BY <2>1, <2>2, EmitNoEnd
  <2> QED
    BY <2>2, <2>3
<1>2. CASE Forward(t) \/ Drain(t)
  <2>1. "delta" \in EventKind /\ "delta" \notin Finals
    BY DEF EventKind, Finals
  <2>2. /\ prompt[t] \in {"loop", "drain"}
        /\ pc'[t] = pc[t] /\ prompt'[t] = prompt[t] /\ req'[t] = req[t]
    BY <1>2 DEF Forward, Drain
  <2>3. CASE Emit(t, "delta")
    <3>1. \A i \in DOMAIN sent'[t] : sent'[t][i] \notin Finals
      BY <2>1, <2>2, <2>3, EmitNoEnd
    <3> QED
      BY <2>2, <3>1
  <2>4. CASE ~ Emit(t, "delta")
    BY <1>2, <2>4 DEF Forward, Drain
  <2> QED
    BY <2>3, <2>4
<1>3. CASE SayEnd(t)
  <2>1. outcome[t] \in Finals /\ outcome[t] \in EventKind
    BY DEF EventKind
  <2> QED
    BY <1>3, <2>1, EmitSays DEF SayEnd
<1>4. CASE SeeCancel(t) \/ SeeResult(t) \/ SeeError(t) \/ Drained(t) \/ EndPrompt(t)
  BY <1>4 DEF SeeCancel, SeeResult, SeeError, Drained, EndPrompt, chans
<1> QED
  BY <1>1, <1>2, <1>3, <1>4 DEF Prompting

LEMMA RunningStage ==
  ASSUME TypeStages, TypeOut, NEW t \in Turns, Stage(t), Start(t) \/ Running(t)
  PROVE  Stage(t)'
<1> USE DEF Stage, Step, Goto, TypeStages, chans
<1>1. CASE Start(t) \/ Load(t) \/ Leave(t) \/ Release(t)
  BY <1>1 DEF Start, Load, Leave, Release
<1>2. CASE Announce(t) \/ CallPrompt(t) \/ Report(t)
  BY <1>2 DEF Announce, CallPrompt, Report
<1>3. CASE Hear(t) \/ HeardAll(t)
  BY <1>3 DEF Hear, HeardAll, TypeOut
<1> QED
  BY <1>1, <1>2, <1>3 DEF Running

(* The request, the agent and the Stops. *)
LEMMA AsideFrame ==
  ASSUME TypeStages, [Next]_vars,
         \A t \in Turns : ~ (Start(t) \/ Running(t) \/ Prompting(t))
  PROVE  /\ UNCHANGED <<pc, prompt, outcome, out, sent>>
         /\ \A t \in Turns : \/ req'[t] = req[t]
                             \/ req[t] = "new" /\ req'[t] \in {"sent", "error"}
                             \/ req[t] = "sent"
<1> USE DEF TypeStages, hub, chans
<1>1. ASSUME NEW t \in Turns, Requesting(t)
      PROVE  /\ UNCHANGED <<pc, prompt, outcome, out, sent>>
             /\ \A u \in Turns : \/ req'[u] = req[u]
                                 \/ req[u] = "new" /\ req'[u] \in {"sent", "error"}
                                 \/ req[u] = "sent"
  BY <1>1 DEF Requesting, WritePrompt, GiveUp
<1>2. ASSUME NEW t \in Turns, AgentUpdates(t) \/ AgentAnswers(t)
      PROVE  /\ UNCHANGED <<pc, prompt, outcome, out, sent>>
             /\ \A u \in Turns : req'[u] = req[u] \/ req[u] = "sent"
  BY <1>2 DEF AgentUpdates, AgentAnswers
<1>3. ASSUME NEW x \in Stops, StopTurn(x) \/ StopAgent(x)
      PROVE  UNCHANGED <<pc, prompt, outcome, out, sent, req>>
  BY <1>3 DEF StopTurn, StopAgent
<1>4. CASE AgentReads \/ UNCHANGED vars
  BY <1>4 DEF AgentReads, vars
<1>5. CASE Lose
  BY <1>5 DEF Lose
<1> QED
  BY <1>1, <1>2, <1>3, <1>4, <1>5 DEF Next

LEMMA NextStage == TypeStages /\ TypeOut /\ StageInv /\ [Next]_vars => StageInv'
<1> SUFFICES ASSUME TypeStages, TypeOut, StageInv, [Next]_vars, NEW u \in Turns
             PROVE  Stage(u)'
  BY DEF StageInv
<1>3. Stage(u)
  BY DEF StageInv
<1>1. ASSUME NEW t \in Turns, Start(t) \/ Running(t) \/ Prompting(t)
      PROVE  Stage(u)'
  <2>1. CASE u = t
    BY <1>1, <1>3, <2>1, PromptingStage, RunningStage
  <2>2. CASE u # t
    BY <1>1, <1>3, <2>2, OthersFrame DEF Stage
  <2> QED
    BY <2>1, <2>2
<1>2. CASE \A t \in Turns : ~ (Start(t) \/ Running(t) \/ Prompting(t))
  BY <1>2, <1>3, AsideFrame DEF Stage
<1> QED
  BY <1>1, <1>2
------------------------------------------------------------------------------
(* What a Prompt is going to say at its end. *)
LEMMA NextOutcome ==
  TypeStages /\ TypeOut /\ StageInv /\ OutcomeInv /\ [Next]_vars => OutcomeInv'
<1> SUFFICES ASSUME TypeStages, TypeOut, StageInv, OutcomeInv, [Next]_vars
             PROVE  OutcomeInv'
  OBVIOUS
<1>1. ASSUME NEW t \in Turns, Start(t) \/ Running(t) \/ Prompting(t)
      PROVE  OutcomeInv'
  <2> USE DEF Step, TypeStages, hub, chans, link, agent
  <2>1. ASSUME prompt'[t] \in {"drain", "final", "ending", "closed"}
        PROVE  /\ outcome'[t] = "done" => req'[t] = "answered"
               /\ outcome'[t] = "failed" => req'[t] = "error"
    <3>1. CASE Start(t) \/ Load(t) \/ Announce(t) \/ CallPrompt(t)
      BY <2>1, <3>1 DEF Start, Load, Announce, CallPrompt, OutcomeInv
    <3>2. CASE Hear(t) \/ HeardAll(t) \/ Leave(t) \/ Release(t) \/ Report(t)
      BY <2>1, <3>2 DEF Hear, HeardAll, Leave, Release, Report, OutcomeInv
    <3>3. CASE PromptStart(t) \/ Forward(t) \/ SeeCancel(t)
      BY <2>1, <3>3 DEF PromptStart, Forward, SeeCancel
    <3>4. CASE SeeResult(t) \/ SeeError(t)
      BY <2>1, <3>4 DEF SeeResult, SeeError
    <3>5. CASE Drain(t) \/ Drained(t) \/ SayEnd(t) \/ EndPrompt(t)
      BY <2>1, <3>5 DEF Drain, Drained, SayEnd, EndPrompt, OutcomeInv
    <3> QED
      BY <1>1, <3>1, <3>2, <3>3, <3>4, <3>5 DEF Running, Prompting
  <2>2. \A u \in Turns \ {t} : /\ prompt'[u] = prompt[u] /\ req'[u] = req[u]
                               /\ outcome'[u] = outcome[u]
    BY <1>1, OthersFrame
  <2> QED
    BY <2>1, <2>2 DEF OutcomeInv
<1>2. CASE \A t \in Turns : ~ (Start(t) \/ Running(t) \/ Prompting(t))
  BY <1>2, AsideFrame DEF OutcomeInv
<1> QED
  BY <1>1, <1>2
------------------------------------------------------------------------------
(* What the agent is asked. *)
LEMMA SilentAgent ==
  ASSUME AgentInv, UNCHANGED <<running, toAgent>>,
         \A t \in Turns : req[t] \in {"sent", "gaveUp"} => req'[t] \in {"sent", "gaveUp"},
         running \subseteq Turns
  PROVE  AgentInv'
BY DEF AgentInv, IsPrompt

LEMMA CancelWritten ==
  ASSUME AgentInv, toAgent \in Seq(Message), NotifyCancel, UNCHANGED <<running, req>>
  PROVE  AgentInv'
<1>1. CASE toAgent' = toAgent
  BY <1>1 DEF AgentInv, IsPrompt
<1>2. CASE toAgent' = Append(toAgent, [type |-> "cancel", turn |-> None])
  <2>1. /\ DOMAIN toAgent' = DOMAIN toAgent \cup {Len(toAgent) + 1}
        /\ \A i \in DOMAIN toAgent : toAgent'[i] = toAgent[i]
        /\ toAgent'[Len(toAgent) + 1].type = "cancel"
    BY <1>2
  <2>2. \A i \in DOMAIN toAgent' :
          toAgent'[i].type = "prompt" => i \in DOMAIN toAgent /\ toAgent'[i] = toAgent[i]
    BY <2>1
  <2> QED
    BY <2>2 DEF AgentInv, IsPrompt
<1> QED
  BY <1>1, <1>2 DEF NotifyCancel

LEMMA PromptWritten ==
  ASSUME TypeStages, AgentInv, toAgent \in Seq(Message), NEW t \in Turns, WritePrompt(t)
  PROVE  AgentInv'
<1>1. CASE UNCHANGED toAgent
  <2>1. req' = [req EXCEPT ![t] = "error"] \/ toAgent' = Append(toAgent, [type |-> "prompt", turn |-> t])
    BY DEF WritePrompt
  <2>2. \A u \in Turns : req[u] \in {"sent", "gaveUp"} => req'[u] \in {"sent", "gaveUp"}
    BY DEF WritePrompt, TypeStages
  <2> QED
    BY <1>1, <2>2, SilentAgent DEF WritePrompt, TypeStages, agent
<1>2. CASE toAgent' = Append(toAgent, [type |-> "prompt", turn |-> t])
  <2>1. /\ DOMAIN toAgent' = DOMAIN toAgent \cup {Len(toAgent) + 1}
        /\ \A i \in DOMAIN toAgent : toAgent'[i] = toAgent[i]
        /\ toAgent'[Len(toAgent) + 1] = [type |-> "prompt", turn |-> t]
        /\ Len(toAgent) + 1 \notin DOMAIN toAgent
    BY <1>2
  <2>2. req[t] = "new" /\ running' = running
    BY DEF WritePrompt, agent
  <2>3. t \notin running /\ \A i \in DOMAIN toAgent : ~ IsPrompt(toAgent[i], t)
    BY <2>2 DEF AgentInv, IsPrompt
  <2>4. req'[t] = "sent" /\ \A u \in Turns \ {t} : req'[u] = req[u]
    <3>1. toAgent' # toAgent
      BY <2>1
    <3> QED
      BY <3>1 DEF WritePrompt, TypeStages
  <2>5. \A i \in DOMAIN toAgent, u \in Turns : IsPrompt(toAgent'[i], u) <=> IsPrompt(toAgent[i], u)
    BY <2>1 DEF IsPrompt
  <2>6. \A u \in Turns : IsPrompt(toAgent'[Len(toAgent) + 1], u) <=> u = t
    BY <2>1 DEF IsPrompt
  <2>7. \A u \in running' : req'[u] \in {"sent", "gaveUp"} /\ \A i \in DOMAIN toAgent' : ~ IsPrompt(toAgent'[i], u)
    BY <2>1, <2>2, <2>3, <2>4, <2>5, <2>6 DEF AgentInv, TypeStages
  <2>8. ASSUME NEW i \in DOMAIN toAgent', toAgent'[i].type = "prompt"
        PROVE  /\ toAgent'[i].turn \in Turns
               /\ req'[toAgent'[i].turn] \in {"sent", "gaveUp"}
               /\ \A j \in DOMAIN toAgent' : IsPrompt(toAgent'[j], toAgent'[i].turn) => i = j
    <3>1. CASE i \in DOMAIN toAgent
      <4>1. /\ toAgent'[i] = toAgent[i] /\ toAgent[i].turn \in Turns
            /\ req[toAgent[i].turn] \in {"sent", "gaveUp"}
            /\ \A j \in DOMAIN toAgent : IsPrompt(toAgent[j], toAgent[i].turn) => i = j
        BY <2>1, <2>8, <3>1 DEF AgentInv
      <4>2. toAgent[i].turn # t
        BY <2>2, <4>1
      <4> QED
        BY <2>1, <2>4, <2>5, <2>6, <4>1, <4>2
    <3>2. CASE i = Len(toAgent) + 1
      BY <2>1, <2>3, <2>4, <2>5, <2>6, <3>2
    <3> QED
      BY <2>1, <3>1, <3>2
  <2> QED
    BY <2>7, <2>8 DEF AgentInv
<1> QED
  BY <1>1, <1>2 DEF WritePrompt, link

LEMMA MessageRead ==
  ASSUME TypeStages, AgentInv, toAgent \in Seq(Message), AgentReads
  PROVE  AgentInv'
<1>1. /\ toAgent # <<>> /\ toAgent' = Tail(toAgent) /\ Head(toAgent) = toAgent[1]
      /\ 1 \in DOMAIN toAgent /\ UNCHANGED req
  BY DEF AgentReads
<1>2. \A i \in DOMAIN toAgent' : /\ i \in Nat /\ i + 1 \in DOMAIN toAgent /\ i + 1 # 1
                                 /\ toAgent'[i] = toAgent[i + 1]
  BY <1>1
<1>3. \/ running' = running
      \/ toAgent[1].type = "prompt" /\ running' = running \cup {toAgent[1].turn}
  BY <1>1 DEF AgentReads
<1>4. \A i \in DOMAIN toAgent' : \A u \in Turns : IsPrompt(toAgent'[i], u) <=> IsPrompt(toAgent[i + 1], u)
  BY <1>2 DEF IsPrompt
<1>5. ASSUME NEW u \in running'
      PROVE  req'[u] \in {"sent", "gaveUp"} /\ \A i \in DOMAIN toAgent' : ~ IsPrompt(toAgent'[i], u)
  <2>1. CASE u \in running
    BY <1>1, <1>2, <1>4, <2>1 DEF AgentInv, TypeStages
  <2>2. CASE toAgent[1].type = "prompt" /\ u = toAgent[1].turn
    <3>1. /\ u \in Turns /\ req[u] \in {"sent", "gaveUp"}
          /\ \A j \in DOMAIN toAgent : IsPrompt(toAgent[j], u) => 1 = j
      BY <1>1, <2>2 DEF AgentInv
    <3> QED
      BY <1>1, <1>2, <1>4, <3>1
  <2> QED
    BY <1>3, <1>5, <2>1, <2>2
<1>6. ASSUME NEW i \in DOMAIN toAgent', toAgent'[i].type = "prompt"
      PROVE  /\ toAgent'[i].turn \in Turns
             /\ req'[toAgent'[i].turn] \in {"sent", "gaveUp"}
             /\ \A j \in DOMAIN toAgent' : IsPrompt(toAgent'[j], toAgent'[i].turn) => i = j
  <2>1. /\ toAgent'[i].turn \in Turns /\ req[toAgent'[i].turn] \in {"sent", "gaveUp"}
        /\ \A j \in DOMAIN toAgent : IsPrompt(toAgent[j], toAgent'[i].turn) => i + 1 = j
    BY <1>2, <1>6 DEF AgentInv
  <2>2. ASSUME NEW j \in DOMAIN toAgent', IsPrompt(toAgent'[j], toAgent'[i].turn)
        PROVE  i = j
    <3>1. IsPrompt(toAgent[j + 1], toAgent'[i].turn)
      BY <1>4, <2>1, <2>2
    <3>2. i + 1 = j + 1 /\ i \in Nat /\ j \in Nat
      BY <1>2, <2>1, <3>1
    <3> QED
      BY <3>2
  <2> QED
    BY <1>1, <2>1, <2>2
<1> QED
  BY <1>5, <1>6 DEF AgentInv

LEMMA NextAgent ==
  TypeStages /\ toAgent \in Seq(Message) /\ StageInv /\ AgentInv /\ [Next]_vars => AgentInv'
<1> SUFFICES ASSUME TypeStages, toAgent \in Seq(Message), StageInv, AgentInv, [Next]_vars
             PROVE  AgentInv'
  OBVIOUS
<1>1. running \subseteq Turns
  BY DEF TypeStages
<1>2. ASSUME NEW t \in Turns, Start(t) \/ Running(t)
      PROVE  AgentInv'
  <2>1. UNCHANGED <<running, toAgent, req>>
    BY <1>2 DEF Start, Running, Load, Announce, CallPrompt, Hear, HeardAll, Leave, Release, Report,
                link, agent
  <2> QED
    BY <1>1, <2>1, SilentAgent
<1>3. ASSUME NEW t \in Turns, PromptStart(t)
      PROVE  AgentInv'
  <2>1. UNCHANGED <<running, toAgent>> /\ req' = [req EXCEPT ![t] = "new"] /\ req[t] = "none"
    BY <1>3 DEF PromptStart, link, agent, StageInv, Stage
  <2> QED
    BY <1>1, <2>1, SilentAgent DEF TypeStages
<1>4. ASSUME NEW t \in Turns, Prompting(t), ~ PromptStart(t), ~ SeeCancel(t)
      PROVE  AgentInv'
  <2>1. UNCHANGED <<running, toAgent, req>>
    BY <1>4 DEF Prompting, Forward, SeeResult, SeeError, Drain, Drained, SayEnd, EndPrompt, link, agent
  <2> QED
    BY <1>1, <2>1, SilentAgent
<1>5. ASSUME NEW t \in Turns, SeeCancel(t)
      PROVE  AgentInv'
  BY <1>5, CancelWritten DEF SeeCancel, agent
<1>6. ASSUME NEW x \in Stops, StopTurn(x) \/ StopAgent(x)
      PROVE  AgentInv'
  <2>1. UNCHANGED <<running, req>> /\ (NotifyCancel \/ UNCHANGED toAgent)
    BY <1>6 DEF StopTurn, StopAgent, link, agent
  <2> QED
    BY <1>1, <2>1, SilentAgent, CancelWritten
<1>7. ASSUME NEW t \in Turns, GiveUp(t) \/ AgentUpdates(t)
      PROVE  AgentInv'
  <2>1. /\ UNCHANGED <<running, toAgent>>
        /\ \A u \in Turns : req[u] \in {"sent", "gaveUp"} => req'[u] \in {"sent", "gaveUp"}
    BY <1>7 DEF GiveUp, AgentUpdates, link, agent, TypeStages
  <2> QED
    BY <1>1, <2>1, SilentAgent
<1>8. ASSUME NEW t \in Turns, AgentAnswers(t)
      PROVE  AgentInv'
  <2>1. /\ t \in running /\ running' = running \ {t} /\ toAgent' = toAgent
        /\ \A u \in Turns \ {t} : req'[u] = req[u]
    BY <1>8 DEF AgentAnswers, link, TypeStages
  <2> QED
    BY <1>1, <2>1 DEF AgentInv, IsPrompt
<1>9. CASE Lose
  BY <1>9 DEF Lose, AgentInv
<1>10. CASE UNCHANGED vars
  BY <1>1, <1>10, SilentAgent DEF vars, link, agent
<1> QED
  BY <1>2, <1>3, <1>4, <1>5, <1>6, <1>7, <1>8, <1>9, <1>10, PromptWritten, MessageRead
     DEF Next, Requesting
------------------------------------------------------------------------------
(* Nothing of a prompt comes after its answer. *)
LEMMA UpdateLeaves ==
  ASSUME TypeStages, TypeQueue, OutcomeInv, AgentInv, QueueInv, NEW t \in Turns, AgentUpdates(t)
  PROVE  QueueInv'
<1>1. SUFFICES ASSUME NEW u \in Turns, prompt[u] \in {"final", "ending"}, outcome[u] = "done",
                      NEW i \in DOMAIN queue'[u]
               PROVE  queue'[u][i] # u
  BY DEF AgentUpdates, QueueInv
<1>2. t \in running /\ queue'[u] \in {queue[u], Append(queue[u], t)}
  BY DEF AgentUpdates
<1>3. req[u] = "answered"
  BY <1>1 DEF OutcomeInv
<1>4. t # u
  BY <1>2, <1>3 DEF AgentInv
<1>5. queue[u] \in Seq(Turns) /\ \A j \in DOMAIN queue[u] : queue[u][j] # u
  BY <1>1 DEF TypeQueue, QueueInv
<1> QED
  BY <1>1, <1>2, <1>4, <1>5

LEMMA NextLeaves ==
  TypeStages /\ TypeQueue /\ OutcomeInv /\ AgentInv /\ QueueInv /\ [Next]_vars => QueueInv'
<1> SUFFICES ASSUME TypeStages, TypeQueue, OutcomeInv, AgentInv, QueueInv, [Next]_vars
             PROVE  QueueInv'
  OBVIOUS
<1>1. CASE UNCHANGED <<prompt, outcome, queue>>
  BY <1>1 DEF QueueInv
<1>2. ASSUME NEW t \in Turns, Start(t) \/ Running(t)
      PROVE  QueueInv'
  <2> USE DEF Step, TypeStages, chans
  <2>1. CASE CallPrompt(t)
    BY <2>1 DEF CallPrompt, QueueInv
  <2>2. CASE ~ CallPrompt(t)
    BY <1>1, <1>2, <2>2 DEF Start, Running, Load, Announce, Hear, HeardAll, Leave, Release, Report
  <2> QED
    BY <2>1, <2>2
<1>3. ASSUME NEW t \in Turns, Prompting(t)
      PROVE  QueueInv'
  <2> USE DEF Step, TypeStages, chans
  <2>1. CASE PromptStart(t) \/ SayEnd(t) \/ EndPrompt(t)
    BY <2>1 DEF PromptStart, SayEnd, EndPrompt, QueueInv
  <2>2. CASE Forward(t) \/ Drain(t)
    <3>1. prompt[t] \in {"loop", "drain"} /\ UNCHANGED <<prompt, outcome>>
          /\ \A u \in Turns \ {t} : queue'[u] = queue[u]
      BY <2>2 DEF Forward, Drain, Take, TypeQueue
    <3> QED
      BY <3>1 DEF QueueInv
  <2>3. CASE SeeCancel(t)
    <3>1. prompt' = [prompt EXCEPT ![t] = "drain"] /\ \A u \in Turns \ {t} :
            outcome'[u] = outcome[u] /\ queue'[u] = queue[u]
      BY <2>3 DEF SeeCancel, Take, TypeQueue
    <3> QED
      BY <3>1 DEF QueueInv
  <2>4. CASE SeeResult(t) \/ SeeError(t)
    BY <2>4 DEF SeeResult, SeeError, QueueInv
  <2>5. CASE Drained(t)
    BY <2>5 DEF Drained, QueueInv
  <2> QED
    BY <1>3, <2>1, <2>2, <2>3, <2>4, <2>5 DEF Prompting
<1>4. ASSUME NEW t \in Turns, Requesting(t) \/ AgentAnswers(t)
      PROVE  UNCHANGED <<prompt, outcome, queue>>
  BY <1>4 DEF Requesting, WritePrompt, GiveUp, AgentAnswers, chans
<1>5. ASSUME NEW x \in Stops, StopTurn(x) \/ StopAgent(x)
      PROVE  UNCHANGED <<prompt, outcome, queue>>
  BY <1>5 DEF StopTurn, StopAgent, chans
<1>6. CASE AgentReads \/ Lose \/ UNCHANGED vars
  BY <1>1, <1>6 DEF AgentReads, Lose, vars, chans
<1> QED
  BY <1>1, <1>2, <1>3, <1>4, <1>5, <1>6, UpdateLeaves DEF Next
------------------------------------------------------------------------------
(* What the clients see. *)
LEMMA SaysLast ==
  ASSUME wire \in Seq(Event), NEW t \in Turns, NEW e, wire' = Says(t, e)
  PROVE  /\ wire' # <<>> /\ Len(wire') = Len(wire) + 1
         /\ \A i \in 1..Len(wire) : wire'[i] = wire[i]
         /\ wire'[Len(wire')] = [turn |-> t, type |-> e]
BY DEF Says

LEMMA SaysBracketed ==
  ASSUME BuildBracketed, wire \in Seq(Event), NEW t \in Turns, NEW e, wire' = Says(t, e),
         \/ e \in {"user_message", "failed"}
         \/ wire[Len(wire)].turn = t
         \/ wire[Len(wire)].type = "failed"
  PROVE  BuildBracketed'
<1> SUFFICES ASSUME NEW i \in 2..Len(wire'), wire'[i].turn # wire'[i-1].turn
             PROVE  \/ wire'[i].type \in {"user_message", "failed"}
                    \/ wire'[i-1].type = "failed"
  BY DEF BuildBracketed
<1>1. /\ Len(wire) \in Nat /\ Len(wire') = Len(wire) + 1
      /\ \A j \in 1..Len(wire) : wire'[j] = wire[j]
      /\ wire'[Len(wire')] = [turn |-> t, type |-> e]
  BY SaysLast
<1>2. wire'[Len(wire')].turn = t /\ wire'[Len(wire')].type = e
  BY <1>1
<1>3. CASE i = Len(wire')
  <2>1. i - 1 = Len(wire) /\ i - 1 \in 1..Len(wire)
    BY <1>1, <1>3
  <2>2. wire'[i-1] = wire[Len(wire)]
    BY <1>1, <2>1
  <2> QED
    BY <1>1, <1>3, <1>2, <2>2
<1>4. CASE i # Len(wire')
  <2>1. i \in 2..Len(wire) /\ i - 1 \in 1..Len(wire) /\ i \in 1..Len(wire)
    BY <1>1, <1>4
  <2>2. wire'[i] = wire[i] /\ wire'[i-1] = wire[i-1]
    BY <1>1, <2>1
  <2> QED
    BY <2>1, <2>2 DEF BuildBracketed
<1> QED
  BY <1>3, <1>4

(* What a turn tells, and when. *)
LEMMA TurnTells ==
  ASSUME TypeStages, TypeOut, wire \in Seq(Event), StageInv, NEW t \in Turns, Start(t) \/ Running(t)
  PROVE  \/ wire' = wire /\ (pc'[t] \in {"announced", "hearing"} => pc[t] \in {"announced", "hearing"})
         \/ wire' = Says(t, "user_message") /\ pc[t] \in Holding
         \/ wire' = Says(t, "failed") /\ pc'[t] \notin {"announced", "hearing"}
         \/ /\ pc[t] = "hearing"
            /\ \E e \in EventKind \cup {"snapshot"} : wire' = Says(t, e)
<1> USE DEF Goto, TypeStages, Holding
<1>1. CASE Start(t) \/ Load(t) \/ Leave(t) \/ Release(t)
  BY <1>1 DEF Start, Load, Leave, Release
<1>2. CASE Announce(t)
  BY <1>2 DEF Announce, Broadcast, Says
<1>3. CASE CallPrompt(t) \/ Report(t)
  BY <1>3 DEF CallPrompt, Report, Broadcast, Says
<1>4. CASE Hear(t)
  <2>1. Head(out[t]) \in EventKind
    BY <1>4 DEF Hear, TypeOut
  <2> QED
    BY <1>4, <2>1 DEF Hear, Broadcast, Says
<1>5. CASE HeardAll(t)
  BY <1>5, HeardAllSays DEF HeardAll
<1> QED
  BY <1>1, <1>2, <1>3, <1>4, <1>5 DEF Running

LEMMA NextBracketed ==
  /\ TypeStages /\ TypeOut /\ wire \in Seq(Event) /\ StageInv /\ HoldInv /\ LastInv /\ BuildBracketed
  /\ [Next]_vars
  => (LastInv /\ BuildBracketed)'
<1> SUFFICES ASSUME TypeStages, TypeOut, wire \in Seq(Event), StageInv, HoldInv, LastInv, BuildBracketed,
                    [Next]_vars
             PROVE  LastInv' /\ BuildBracketed'
  OBVIOUS
<1>1. ASSUME NEW t \in Turns, Start(t) \/ Running(t)
      PROVE  LastInv' /\ BuildBracketed'
  <2>1. \A u \in Turns \ {t} : pc'[u] = pc[u]
    BY <1>1, OthersFrame
  <2>2. CASE wire' = wire /\ (pc'[t] \in {"announced", "hearing"} => pc[t] \in {"announced", "hearing"})
    BY <2>1, <2>2 DEF LastInv, BuildBracketed
  <2>3. ASSUME NEW e, wire' = Says(t, e), pc[t] \in Holding
        PROVE  LastInv'
    <3>1. wire' # <<>> /\ wire'[Len(wire')].turn = t
      <4>1. wire'[Len(wire')] = [turn |-> t, type |-> e] /\ wire' # <<>>
        BY <2>3, SaysLast
      <4> QED
        BY <4>1
    <3>2. \A u \in Turns \ {t} : pc[u] \notin Holding
      BY <2>3 DEF HoldInv
    <3> QED
      BY <2>1, <3>1, <3>2 DEF LastInv, Holding
  <2>4. CASE wire' = Says(t, "user_message") /\ pc[t] \in Holding
    BY <2>3, <2>4, SaysBracketed
  <2>5. CASE wire' = Says(t, "failed") /\ pc'[t] \notin {"announced", "hearing"}
    <3>1. wire' # <<>> /\ wire'[Len(wire')].type = "failed"
      <4>1. wire'[Len(wire')] = [turn |-> t, type |-> "failed"] /\ wire' # <<>>
        BY <2>5, SaysLast
      <4> QED
        BY <4>1
    <3>2. LastInv'
      BY <2>1, <2>5, <3>1 DEF LastInv
    <3> QED
      BY <2>5, <3>2, SaysBracketed
  <2>6. CASE /\ pc[t] = "hearing"
             /\ \E e \in EventKind \cup {"snapshot"} : wire' = Says(t, e)
    <3>1. wire[Len(wire)].turn = t \/ wire[Len(wire)].type = "failed"
      BY <2>6 DEF LastInv
    <3> QED
      BY <2>3, <2>6, <3>1, SaysBracketed DEF Holding
  <2> QED
    BY <1>1, <2>2, <2>4, <2>5, <2>6, TurnTells
<1>2. CASE \A t \in Turns : ~ (Start(t) \/ Running(t))
  BY <1>2, HubFrame DEF LastInv, BuildBracketed
<1> QED
  BY <1>1, <1>2
------------------------------------------------------------------------------
LEMMA Inductive == IInv /\ [Next]_vars => IInv'
BY TypeParts, NextTypeOK, NextHold, NextStage, NextOutcome, NextAgent, NextLeaves, NextBracketed
   DEF IInv

LEMMA Invariant == Spec => []IInv
<1> QED
  BY InitIInv, Inductive, PTL DEF Spec

(* The shape of the state, at any length of the channels. *)
THEOREM TypeCorrect == Spec => []TypeOK
<1>1. IInv => TypeOK
  BY DEF IInv
<1> QED
  BY <1>1, Invariant, PTL

(* The reply to a prompt is complete: it has an end, and every update that *)
(* was queued before the answer.                                           *)
THEOREM RepliesComplete == Spec => []PromptComplete
<1>1. IInv => PromptComplete
  <2> SUFFICES ASSUME IInv
               PROVE  TypeOK /\ PromptSaysEnd /\ NothingLeftBehind
    BY DEF PromptComplete
  <2>1. PromptSaysEnd
    BY DEF IInv, StageInv, Stage, PromptSaysEnd
  <2>2. NothingLeftBehind
    BY DEF IInv, QueueInv, NothingLeftBehind
  <2> QED
    BY <2>1, <2>2 DEF IInv
<1> QED
  BY <1>1, Invariant, PTL

(* Turns of a session are apart for the agent and for the clients: the     *)
(* prompt that the agent is working on, unless it was stopped, is that of  *)
(* the turn that has the mutex, and only that turn tells the clients       *)
(* anything but its late error.                                            *)
THEOREM TurnsAreApart == Spec => []TurnsApart
<1>1. IInv => TurnsApart
  <2> SUFFICES ASSUME IInv
               PROVE  OnePromptAtATime /\ BuildBracketed
    BY DEF TurnsApart
  <2>1. TypeStages
    BY TypeParts DEF IInv
  <2>2. ASSUME NEW t \in running, outcome[t] # "cancelled"
        PROVE  lock = t
    <3>1. t \in Turns /\ req[t] \in {"sent", "gaveUp"}
      BY <2>1 DEF TypeStages, IInv, AgentInv
    <3>2. prompt[t] = "loop"
      BY <2>1, <2>2, <3>1 DEF IInv, TypeStages, OutcomeInv, StageInv, Stage, Finals
    <3>3. pc[t] = "hearing"
      BY <3>1, <3>2 DEF IInv, StageInv, Stage
    <3> QED
      BY <3>1, <3>3 DEF IInv, HoldInv, Holding
  <2> QED
    BY <2>2 DEF OnePromptAtATime, IInv
<1> QED
  BY <1>1, Invariant, PTL

(* Each step sends one event on a Prompt's channel that has no end yet,    *)
(* closes it, or leaves it alone.                                          *)
LEMMA StreamStep ==
  ASSUME TypeStages, TypeOut, StageInv, [Next]_vars, NEW u \in Turns
  PROVE  Stream(u)!Next \/ UNCHANGED <<sent[u], prompt[u] = "closed">>
<1> USE DEF Stream!Next, Stream!Emit, Stream!Close, Stream!Ended
<1>1. CASE \A t \in Turns : ~ (Start(t) \/ Running(t) \/ Prompting(t))
  BY <1>1, AsideFrame
<1>2. ASSUME NEW t \in Turns, Start(t) \/ Running(t) \/ Prompting(t), u # t
      PROVE  UNCHANGED <<sent[u], prompt[u] = "closed">>
  BY <1>2, OthersFrame
<1>3. ASSUME Start(u) \/ Running(u)
      PROVE  UNCHANGED <<sent[u], prompt[u] = "closed">>
  BY <1>3 DEF Start, Running, Load, Announce, CallPrompt, Hear, HeardAll, Leave, Release, Report,
              chans, Step, TypeStages, StageInv, Stage
<1>4. ASSUME NEW e \in EventKind, Emit(u, e), prompt[u] \notin {"ending", "closed"}, prompt'[u] # "closed"
      PROVE  Stream(u)!Next
  <2>1. \A i \in DOMAIN sent[u] : sent[u][i] \notin Finals
    BY <1>4 DEF StageInv, Stage
  <2>2. sent'[u] = Append(sent[u], e)
    BY <1>4 DEF Emit, TypeOut
  <2> QED
    BY <1>4, <2>1, <2>2
<1>5. ASSUME Prompting(u)
      PROVE  Stream(u)!Next \/ UNCHANGED <<sent[u], prompt[u] = "closed">>
  <2> USE DEF Step, TypeStages
  <2>1. {"start", "delta"} \subseteq EventKind /\ outcome[u] \in EventKind
    BY DEF EventKind
  <2>2. CASE PromptStart(u) \/ Forward(u) \/ SayEnd(u)
    BY <1>4, <2>1, <2>2 DEF PromptStart, Forward, SayEnd
  <2>3. CASE Drain(u)
    BY <1>4, <2>1, <2>3 DEF Drain
  <2>4. CASE EndPrompt(u)
    BY <2>4 DEF EndPrompt
  <2>5. CASE SeeCancel(u) \/ SeeResult(u) \/ SeeError(u) \/ Drained(u)
    BY <2>5 DEF SeeCancel, SeeResult, SeeError, Drained, chans
  <2> QED
    BY <1>5, <2>2, <2>3, <2>4, <2>5 DEF Prompting
<1> QED
  BY <1>1, <1>2, <1>3, <1>5

(* Prompt keeps the contract of an adapter's stream: one event at a time,  *)
(* nothing after an assistant_done, closed once and for good.              *)
THEOREM PromptKeepsContract == Spec => PromptIsStream
<1>1. IInv /\ [Next]_vars => [\A t \in Turns : Stream(t)!Next \/ UNCHANGED <<sent[t], prompt[t] = "closed">>]_vars
  BY TypeParts, StreamStep DEF IInv
<1> QED
  BY <1>1, Invariant, PTL DEF Spec, PromptIsStream
=============================================================================
