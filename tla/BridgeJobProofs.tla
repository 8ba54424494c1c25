--------------------------- MODULE BridgeJobProofs ---------------------------
(***************************************************************************)
(* Proofs about BridgeJob for any set of callers, any capacity of the      *)
(* queue and any number of calls.                                          *)
(***************************************************************************)
EXTENDS BridgeJob, TLAPS

LEMMA ProcFacts ==
  /\ Consumer \in Proc
  /\ Agent \in Proc
  /\ Consumer # Agent
  /\ Callers \subseteq Proc
  /\ \A c \in Callers : c # Consumer /\ c # Agent
BY ConstantsAssumption DEF Proc, Consumer, Agent

(* Every value After returns is a label. *)
LEMMA AfterLabel == \A p : After(p) \in Labels
BY DEF After, Labels, CallerLabels, AgentLabels, ConsumerLabels, SharedLabels

(* An event that a process offers or delivers is one of the known events. *)
LEMMA OfferType ==
  ASSUME queue \in Seq(Event), Len(queue) <= QueueCap, NEW e \in Event, Offer(e)
  PROVE  queue' \in Seq(Event) /\ Len(queue') <= QueueCap
BY ConstantsAssumption DEF Offer

LEMMA DeliverType ==
  ASSUME out \in Seq(Event), NEW e \in Event, Deliver(e)
  PROVE  out' \in Seq(Event)
BY DEF Deliver

LEMMA QueueParts ==
  ASSUME queue \in Seq(Event), queue # <<>>, Len(queue) <= QueueCap
  PROVE  /\ Head(queue) \in Event
         /\ Tail(queue) \in Seq(Event)
         /\ Len(Tail(queue)) <= QueueCap
BY ConstantsAssumption
------------------------------------------------------------------------------
(* EnqueueEvent's argument is the event it was called with. *)
ArgOK == \A p \in Proc : pc[p] \in {"enqueue", "push", "pushed"} => arg[p] \in {"delta", "done"}

LEMMA InitTypeOK == Init => TypeOK /\ ArgOK
<1> SUFFICES ASSUME Init
             PROVE  TypeOK /\ ArgOK
  OBVIOUS
<1> USE ConstantsAssumption DEF Init
<1>1. mode \in AllModes
  OBVIOUS
<1>2. \A p \in Proc : pc[p] \in {"stopped", "misconfigured", "select", "idle",
                                "mock", "webhook", "inbound"}
  BY <1>1 DEF AllModes
<1>3. pc \in [Proc -> Labels]
  BY <1>2 DEF Labels, CallerLabels, AgentLabels, ConsumerLabels
<1>4. arg \in [Proc -> Args] /\ ArgOK
  BY <1>2 DEF ArgOK, Args
<1>5. queue \in Seq(Event) /\ Len(queue) <= QueueCap /\ out \in Seq(Event)
  OBVIOUS
<1>6. mode \in Modes /\ left \in 0..MockEvents /\ calls \in 0..MaxCalls
  OBVIOUS
<1> QED
  BY <1>3, <1>4, <1>5, <1>6 DEF TypeOK, Status

LEMMA StartTypeOK ==
  ASSUME TypeOK, ArgOK, NEW c \in Callers, StartCall(c)
  PROVE  TypeOK' /\ ArgOK'
<1> USE ProcFacts, ConstantsAssumption
    DEF TypeOK, ArgOK, Labels, CallerLabels, SharedLabels, Args, Final, job, Begin, Goto
<1>1. CASE EnqueueCheck(c)
  BY <1>1 DEF EnqueueCheck
<1>2. CASE CompleteCheck(c)
  BY <1>2 DEF CompleteCheck
<1>3. CASE BridgeCancel(c)
  BY <1>3 DEF BridgeCancel
<1>4. CASE SessionCancel(c)
  <2>1. ctxDone' \in BOOLEAN
    BY <1>4 DEF SessionCancel, CancelContext
  <2> QED
    BY <1>4, <2>1 DEF SessionCancel
<1> QED
  BY <1>1, <1>2, <1>3, <1>4 DEF StartCall

LEMMA EndTypeOK ==
  ASSUME TypeOK, ArgOK, NEW p \in Proc, EndCall(p)
  PROVE  TypeOK' /\ ArgOK'
<1> USE ProcFacts, AfterLabel
    DEF TypeOK, ArgOK, job, Goto
<1>0. After(p) \notin {"enqueue", "push", "pushed"}
  BY DEF After
<1>1. CASE CancelCheck(p)
  BY <1>0, <1>1 DEF CancelCheck, Labels, SharedLabels
<1>2. CASE EndStatus(p)
  BY <1>2 DEF EndStatus, LastEvent, Labels, SharedLabels, Status
<1>3. CASE EndSend(p)
  <2>1. LastEvent(p) \in Event
    BY DEF LastEvent, Event, Final
  <2> QED
    BY <1>3, <2>1, OfferType DEF EndSend, Labels, SharedLabels
<1>4. CASE MarkDone(p)
  BY <1>0, <1>4 DEF MarkDone
<1> QED
  BY <1>1, <1>2, <1>3, <1>4 DEF EndCall

LEMMA ContinueTypeOK ==
  ASSUME TypeOK, ArgOK, NEW c \in Callers, ContinueCall(c)
  PROVE  TypeOK' /\ ArgOK'
<1> USE ProcFacts
    DEF TypeOK, ArgOK, job, Goto, Labels, CallerLabels, SharedLabels
<1>1. CASE EnqueueRun(c)
  BY <1>1 DEF EnqueueRun, Status
<1>2. CASE EnqueueSend(c)
  <2>1. arg[c] \in Event
    BY <1>2 DEF EnqueueSend, Event, Final
  <2> QED
    BY <1>2, <2>1, OfferType DEF EnqueueSend
<1>3. CASE EnqueueEnd(c)
  BY <1>3 DEF EnqueueEnd, Status
<1>4. CASE SessionSnapshot(c)
  BY <1>4 DEF SessionSnapshot
<1>5. CASE BridgeCancelTurn(c)
  BY <1>5 DEF BridgeCancelTurn, CancelContext
<1>6. CASE EndCall(c)
  BY <1>6, EndTypeOK
<1> QED
  BY <1>1, <1>2, <1>3, <1>4, <1>5, <1>6 DEF ContinueCall

LEMMA AgentTypeOK ==
  ASSUME TypeOK, ArgOK, AgentStep
  PROVE  TypeOK' /\ ArgOK'
<1> USE ProcFacts, ConstantsAssumption
    DEF TypeOK, ArgOK, job, Goto, Labels, AgentLabels, SharedLabels, Status
<1>1. CASE MockStart
  BY <1>1 DEF MockStart
<1>2. CASE MockRun
  BY <1>2 DEF MockRun
<1>3. CASE MockPush
  <2>1. \A e \in Event : /\ Append(queue, e) \in Seq(Event)
                         /\ Len(queue) < QueueCap => Len(Append(queue, e)) <= QueueCap
    OBVIOUS
  <2>2. {"delta", "done"} \subseteq Event
    BY DEF Event, Final
  <2>3. CASE left > 0
    BY <1>3, <2>1, <2>2, <2>3 DEF MockPush
  <2>4. CASE left = 0
    BY <1>3, <2>1, <2>2, <2>4 DEF MockPush
  <2> QED
    BY <2>3, <2>4
<1>4. CASE MockGiveUp
  BY <1>4 DEF MockGiveUp
<1>5. CASE MockEnd
  BY <1>5 DEF MockEnd
<1>6. CASE WebhookAnswer
  BY <1>6 DEF WebhookAnswer
<1>7. CASE InboundCreated
  BY <1>7 DEF InboundCreated
<1>8. CASE MarkDone(Agent)
  BY <1>8, EndTypeOK DEF EndCall
<1> QED
  BY <1>1, <1>2, <1>3, <1>4, <1>5, <1>6, <1>7, <1>8 DEF AgentStep

LEMMA ConsumerTypeOK ==
  ASSUME TypeOK, ArgOK, ConsumerStep
  PROVE  TypeOK' /\ ArgOK'
<1> USE ProcFacts
    DEF TypeOK, ArgOK, job, Goto, Labels, ConsumerLabels, SharedLabels, Status
<1>0. {"delta", "failed", "cancelled", "timeout"} \subseteq Event
  BY DEF Event, Final
<1>1. CASE Misconfigured
  BY <1>0, <1>1, DeliverType DEF Misconfigured
<1>2. CASE Refuse
  BY <1>0, <1>2, DeliverType DEF Refuse
<1>3. CASE Receive
  BY <1>3, QueueParts, DeliverType DEF Receive
<1>4. CASE SeeCancel
  BY <1>4 DEF SeeCancel, Args
<1>5. CASE SeeEnded
  BY <1>5 DEF SeeEnded
<1>6. CASE ReceiveOne
  BY <1>0, <1>6, QueueParts, DeliverType DEF ReceiveOne
<1>7. CASE SeeDeadline
  BY <1>7 DEF SeeDeadline, Args
<1>8. CASE TimeoutStatus
  BY <1>8 DEF TimeoutStatus
<1>9. CASE TimeoutEmit
  BY <1>0, <1>9, DeliverType DEF TimeoutEmit
<1>10. CASE EndCall(Consumer)
  BY <1>10, EndTypeOK
<1> QED
  BY <1>1, <1>2, <1>3, <1>4, <1>5, <1>6, <1>7, <1>8, <1>9, <1>10 DEF ConsumerStep

LEMMA NextTypeOK == TypeOK /\ ArgOK /\ [Next]_vars => TypeOK' /\ ArgOK'
<1> SUFFICES ASSUME TypeOK, ArgOK, [Next]_vars
             PROVE  TypeOK' /\ ArgOK'
  OBVIOUS
<1>1. ASSUME NEW c \in Callers, StartCall(c) \/ ContinueCall(c)
      PROVE  TypeOK' /\ ArgOK'
  BY <1>1, StartTypeOK, ContinueTypeOK
<1>2. CASE AgentStep
  BY <1>2, AgentTypeOK
<1>3. CASE ConsumerStep
  BY <1>3, ConsumerTypeOK
<1>4. CASE DeadlinePasses
  BY <1>4 DEF DeadlinePasses, TypeOK, ArgOK, job
<1>5. CASE UNCHANGED vars
  BY <1>5 DEF vars, TypeOK, ArgOK
<1> QED
  BY <1>1, <1>2, <1>3, <1>4, <1>5 DEF Next

(* The state keeps its shape, and job.queue its capacity, in every run. *)
THEOREM TypeCorrect == Spec => [](TypeOK /\ ArgOK)
BY InitTypeOK, NextTypeOK, PTL DEF Spec
------------------------------------------------------------------------------
(***************************************************************************)
(* EndCloses.  It is not inductive by itself: the consumer may also know   *)
(* that the job is over from its place in the code, and only in some modes *)
(* may it be in some places.  "The job is over" is called Evidence, "the   *)
(* channel is closed or about to be" Closed.  Closed is stable: a process  *)
(* that is Closing reaches markDone.  And no step makes new evidence       *)
(* without Closed.                                                         *)
(***************************************************************************)
Closed == done \/ \E p \in Proc : Closing(p)

Evidence ==
  \/ status \in Terminal
  \/ HasFinal(queue)
  \/ HasFinal(out)
  \/ pc[Consumer] \in {"ended", "recv", "emit"}
  \/ pc[Consumer] = "stopped" /\ mode # "inbound"

ModeOK ==
  /\ pc[Consumer] \in {"misconfigured", "refuse"} => mode = "unknown"
  /\ mode = "inbound" => pc[Consumer] = "stopped"

EndInv == mode # "unknown" /\ Evidence => Closed

(* What any step of process q does to the program counters and job.done. *)
Moves(q) ==
  /\ \A p \in Proc \ {q} : pc'[p] = pc[p]
  /\ done => done'
  /\ Closing(q) => done' \/ Closing(q)'

LEMMA EndMoves ==
  ASSUME TypeOK, NEW p \in Proc, EndCall(p)
  PROVE  Moves(p)
BY DEF EndCall, CancelCheck, EndStatus, EndSend, MarkDone, Goto, job, TypeOK, Moves, Closing

LEMMA CallerMoves ==
  ASSUME TypeOK, NEW c \in Callers, StartCall(c) \/ ContinueCall(c)
  PROVE  Moves(c)
<1> USE ProcFacts DEF Goto, job, TypeOK, Moves, Closing
<1>1. CASE StartCall(c)
  BY <1>1 DEF StartCall, EnqueueCheck, CompleteCheck, BridgeCancel, SessionCancel, Begin
<1>2. CASE ContinueCall(c) /\ ~ EndCall(c)
  BY <1>2 DEF ContinueCall, EnqueueRun, EnqueueSend, EnqueueEnd, SessionSnapshot,
              BridgeCancelTurn
<1>3. CASE EndCall(c)
  BY <1>3, EndMoves
<1> QED
  BY <1>1, <1>2, <1>3

LEMMA AgentMoves ==
  ASSUME TypeOK, AgentStep
  PROVE  Moves(Agent)
<1> USE ProcFacts DEF Goto, job, TypeOK, Moves, Closing
<1>1. CASE MarkDone(Agent)
  BY <1>1, EndMoves DEF EndCall
<1>2. CASE ~ MarkDone(Agent)
  BY <1>2 DEF AgentStep, MockStart, MockRun, MockPush, MockGiveUp, MockEnd, WebhookAnswer,
              InboundCreated
<1> QED
  BY <1>1, <1>2

LEMMA ConsumerMoves ==
  ASSUME TypeOK, ConsumerStep
  PROVE  Moves(Consumer)
<1> USE ProcFacts DEF Goto, job, TypeOK, Moves, Closing
<1>1. CASE EndCall(Consumer)
  BY <1>1, EndMoves
<1>2. CASE ~ EndCall(Consumer)
  BY <1>2 DEF ConsumerStep, Misconfigured, Refuse, Receive, SeeCancel, SeeEnded, ReceiveOne,
              SeeDeadline, TimeoutStatus, TimeoutEmit
<1> QED
  BY <1>1, <1>2

LEMMA ClosedStable == TypeOK /\ [Next]_vars /\ Closed => Closed'
<1> SUFFICES ASSUME TypeOK, [Next]_vars, Closed
             PROVE  Closed'
  OBVIOUS
<1>1. ASSUME NEW q \in Proc, Moves(q)
      PROVE  Closed'
  BY <1>1 DEF Moves, Closed, Closing
<1>2. CASE UNCHANGED vars \/ DeadlinePasses
  BY <1>2 DEF vars, job, DeadlinePasses, Closed, Closing
<1> QED
  BY <1>1, <1>2, ProcFacts, CallerMoves, AgentMoves, ConsumerMoves DEF Next
------------------------------------------------------------------------------
LEMMA HasFinalAppend ==
  ASSUME NEW s \in Seq(Event), NEW e \in Event
  PROVE  HasFinal(Append(s, e)) <=> HasFinal(s) \/ e \in Final
<1>1. /\ DOMAIN Append(s, e) = 1..Len(s)+1 /\ DOMAIN s = 1..Len(s)
      /\ \A i \in 1..Len(s) : Append(s, e)[i] = s[i]
      /\ Append(s, e)[Len(s)+1] = e
      /\ Len(s) \in Nat
  OBVIOUS
<1> QED
  BY <1>1 DEF HasFinal

LEMMA HasFinalTail ==
  ASSUME NEW s \in Seq(Event), s # <<>>
  PROVE  /\ HasFinal(Tail(s)) => HasFinal(s)
         /\ Head(s) \in Final => HasFinal(s)
<1>1. /\ DOMAIN s = 1..Len(s) /\ Len(s) \in Nat \ {0}
      /\ DOMAIN Tail(s) = 1..Len(s)-1
      /\ \A i \in 1..Len(s)-1 : Tail(s)[i] = s[i+1]
      /\ Head(s) = s[1]
  OBVIOUS
<1> QED
  BY <1>1 DEF HasFinal

LEMMA HasFinalOffer ==
  ASSUME queue \in Seq(Event), NEW e \in Event, Offer(e)
  PROVE  HasFinal(queue') => HasFinal(queue) \/ (e \in Final /\ Len(queue) < QueueCap)
BY HasFinalAppend DEF Offer

LEMMA StartEvidence ==
  ASSUME TypeOK, NEW c \in Callers, StartCall(c)
  PROVE  Evidence' => Evidence
BY ProcFacts
   DEF StartCall, EnqueueCheck, CompleteCheck, BridgeCancel, SessionCancel, Begin, Goto, job,
       TypeOK, Evidence

LEMMA EndEvidence ==
  ASSUME TypeOK, NEW p \in Proc, EndCall(p)
  PROVE  Evidence' => Evidence \/ Closed'
<1> USE ProcFacts DEF TypeOK, Goto, job
<1>1. CASE CancelCheck(p)
  <2>1. CASE status \in Terminal
    BY <2>1 DEF Evidence
  <2>2. CASE status \notin Terminal
    BY <1>1, <2>2 DEF CancelCheck, Evidence
  <2> QED
    BY <2>1, <2>2
<1>2. CASE EndStatus(p)
  BY <1>2 DEF EndStatus, Closed, Closing
<1>3. CASE EndSend(p)
  BY <1>3 DEF EndSend, Closed, Closing
<1>4. CASE MarkDone(p)
  BY <1>4 DEF MarkDone, Closed
<1> QED
  BY <1>1, <1>2, <1>3, <1>4 DEF EndCall

LEMMA ContinueEvidence ==
  ASSUME TypeOK, ArgOK, NEW c \in Callers, ContinueCall(c)
  PROVE  Evidence' => Evidence \/ Closed'
<1> USE ProcFacts DEF TypeOK, Goto, job
<1>1. CASE EnqueueRun(c)
  BY <1>1 DEF EnqueueRun, Evidence, Terminal
<1>2. CASE EnqueueSend(c)
  <2>1. arg[c] \in {"delta", "done"}
    BY <1>2 DEF EnqueueSend, ArgOK
  <2>2. CASE Len(queue) < QueueCap /\ arg[c] = "done"
    BY <1>2, <2>2 DEF EnqueueSend, Closed, Closing
  <2>3. CASE ~ (Len(queue) < QueueCap /\ arg[c] = "done")
    <3>1. HasFinal(queue') => HasFinal(queue)
      BY <1>2, <2>1, <2>3, HasFinalOffer DEF EnqueueSend, Event, Final
    <3> QED
      BY <1>2, <2>3, <3>1 DEF EnqueueSend, Evidence, HasFinal
  <2> QED
    BY <2>2, <2>3
<1>3. CASE EnqueueEnd(c)
  BY <1>3 DEF EnqueueEnd, Closed, Closing
<1>4. CASE SessionSnapshot(c)
  BY <1>4 DEF SessionSnapshot, Evidence
<1>5. CASE BridgeCancelTurn(c)
  BY <1>5 DEF BridgeCancelTurn, Evidence
<1>6. CASE EndCall(c)
  BY <1>6, EndEvidence
<1> QED
  BY <1>1, <1>2, <1>3, <1>4, <1>5, <1>6 DEF ContinueCall

LEMMA AgentEvidence ==
  ASSUME TypeOK, AgentStep
  PROVE  Evidence' => Evidence \/ Closed'
<1> USE ProcFacts DEF TypeOK, Goto, job
<1>1. CASE MockStart
  BY <1>1 DEF MockStart, Evidence
<1>2. CASE MockRun
  BY <1>2 DEF MockRun, Evidence, Terminal
<1>3. CASE MockPush
  <2>1. CASE left > 0
    <3>1. queue' = Append(queue, "delta")
      BY <1>3, <2>1 DEF MockPush
    <3>2. HasFinal(queue') => HasFinal(queue)
      BY <3>1, HasFinalAppend DEF Event, Final
    <3> QED
      BY <1>3, <2>1, <3>2 DEF MockPush, Evidence, HasFinal
  <2>2. CASE left = 0
    BY <1>3, <2>2 DEF MockPush, Closed, Closing
  <2> QED
    BY <1>3, <2>1, <2>2 DEF MockPush
<1>4. CASE MockGiveUp
  BY <1>4 DEF MockGiveUp, Evidence
<1>5. CASE MockEnd
  BY <1>5 DEF MockEnd, Closed, Closing
<1>6. CASE WebhookAnswer
  BY <1>6 DEF WebhookAnswer, Evidence, Terminal
<1>7. CASE InboundCreated
  BY <1>7 DEF InboundCreated, Evidence, Terminal
<1>8. CASE MarkDone(Agent)
  BY <1>8, EndEvidence DEF EndCall
<1> QED
  BY <1>1, <1>2, <1>3, <1>4, <1>5, <1>6, <1>7, <1>8 DEF AgentStep

LEMMA ConsumerEvidence ==
  ASSUME TypeOK, ModeOK, mode # "unknown", ConsumerStep
  PROVE  Evidence' => Evidence \/ Closed'
<1> USE ProcFacts DEF TypeOK, Goto, job
<1>1. CASE Misconfigured \/ Refuse
  BY <1>1 DEF Misconfigured, Refuse, ModeOK
<1>2. CASE Receive
  <2>1. CASE HasFinal(queue)
    BY <2>1 DEF Evidence
  <2>2. CASE ~ HasFinal(queue)
    <3>1. ~ HasFinal(queue') /\ Head(queue) \in Event \ Final
      BY <1>2, <2>2, HasFinalTail, QueueParts DEF Receive
    <3>2. HasFinal(out') => HasFinal(out)
      BY <1>2, <3>1, HasFinalAppend DEF Receive, Deliver
    <3> QED
      BY <1>2, <3>1, <3>2 DEF Receive, Evidence
  <2> QED
    BY <2>1, <2>2
<1>3. CASE SeeCancel
  BY <1>3 DEF SeeCancel, Evidence
<1>4. CASE SeeEnded \/ ReceiveOne \/ TimeoutEmit
  BY <1>4 DEF SeeEnded, ReceiveOne, TimeoutEmit, Evidence
<1>5. CASE SeeDeadline
  BY <1>5 DEF SeeDeadline, Evidence
<1>6. CASE TimeoutStatus
  BY <1>6 DEF TimeoutStatus, Closed, Closing
<1>7. CASE EndCall(Consumer)
  BY <1>7, EndEvidence
<1> QED
  BY <1>1, <1>2, <1>3, <1>4, <1>5, <1>6, <1>7 DEF ConsumerStep

LEMMA ModeNext == TypeOK /\ ModeOK /\ [Next]_vars => ModeOK'
<1> SUFFICES ASSUME TypeOK, ModeOK, [Next]_vars
             PROVE  ModeOK'
  OBVIOUS
<1>1. ASSUME NEW c \in Callers, StartCall(c) \/ ContinueCall(c)
      PROVE  mode' = mode /\ pc'[Consumer] = pc[Consumer]
  <2>1. pc'[Consumer] = pc[Consumer]
    BY <1>1, CallerMoves, ProcFacts DEF Moves
  <2> QED
    BY <1>1, <2>1
       DEF StartCall, EnqueueCheck, CompleteCheck, BridgeCancel, SessionCancel, ContinueCall,
           EnqueueRun, EnqueueSend, EnqueueEnd, SessionSnapshot, BridgeCancelTurn, EndCall,
           CancelCheck, EndStatus, EndSend, MarkDone
<1>2. CASE AgentStep
  <2>1. pc'[Consumer] = pc[Consumer]
    BY <1>2, AgentMoves, ProcFacts DEF Moves
  <2> QED
    BY <1>2, <2>1
       DEF AgentStep, MockStart, MockRun, MockPush, MockGiveUp, MockEnd, WebhookAnswer,
           InboundCreated, MarkDone, ModeOK
<1>3. CASE ConsumerStep
  BY <1>3, ProcFacts
     DEF ConsumerStep, Misconfigured, Refuse, Receive, SeeCancel, SeeEnded, ReceiveOne,
         SeeDeadline, TimeoutStatus, TimeoutEmit, EndCall, CancelCheck, EndStatus, EndSend,
         MarkDone, After, Goto, TypeOK, ModeOK
<1>4. CASE UNCHANGED vars \/ DeadlinePasses
  BY <1>4 DEF vars, DeadlinePasses, ModeOK
<1> QED
  BY <1>1, <1>2, <1>3, <1>4 DEF Next, ModeOK

LEMMA EndInvNext ==
  TypeOK /\ ArgOK /\ ModeOK /\ EndInv /\ [Next]_vars => EndInv'
<1> SUFFICES ASSUME TypeOK, ArgOK, ModeOK, EndInv, [Next]_vars, mode' # "unknown", Evidence'
             PROVE  Closed'
  BY DEF EndInv
<1>1. mode' = mode
  BY DEF Next, StartCall, EnqueueCheck, CompleteCheck, BridgeCancel, SessionCancel,
         ContinueCall, EnqueueRun, EnqueueSend, EnqueueEnd, SessionSnapshot,
         BridgeCancelTurn, EndCall, CancelCheck, EndStatus, EndSend, MarkDone, AgentStep,
         MockStart, MockRun, MockPush, MockGiveUp, MockEnd, WebhookAnswer, InboundCreated,
         ConsumerStep, Misconfigured, Refuse, Receive, SeeCancel, SeeEnded, ReceiveOne,
         SeeDeadline, TimeoutStatus, TimeoutEmit, DeadlinePasses, vars
<1>2. Evidence \/ Closed'
  <2>1. CASE UNCHANGED vars \/ DeadlinePasses
    BY <2>1 DEF vars, job, DeadlinePasses, Evidence, HasFinal
  <2> QED
    BY <1>1, <2>1, StartEvidence, ContinueEvidence, AgentEvidence, ConsumerEvidence DEF Next
<1>3. Evidence => Closed
  BY <1>1 DEF EndInv
<1> QED
  BY <1>2, <1>3, ClosedStable

LEMMA InitEnd == Init => ModeOK /\ EndInv
<1> SUFFICES ASSUME Init
             PROVE  ModeOK /\ EndInv
  OBVIOUS
<1>1. pc[Consumer] = CASE mode = "inbound" -> "stopped"
                       [] mode = "unknown" -> "misconfigured"
                       [] OTHER -> "select"
  BY ProcFacts DEF Init
<1>2. ~ HasFinal(queue) /\ ~ HasFinal(out) /\ status \notin Terminal
  BY DEF Init, HasFinal, Terminal
<1> QED
  BY <1>1, <1>2 DEF ModeOK, EndInv, Evidence

(* For every number of callers, queue capacity and length of run: job.done *)
(* is closed, or about to be, whenever anything shows that the job is over. *)
THEOREM EndsClose == Spec => []EndCloses
<1>1. Init => TypeOK /\ ArgOK /\ ModeOK /\ EndInv
  BY InitTypeOK, InitEnd
<1>2. TypeOK /\ ArgOK /\ ModeOK /\ EndInv /\ [Next]_vars => (TypeOK /\ ArgOK /\ ModeOK /\ EndInv)'
  BY NextTypeOK, ModeNext, EndInvNext
<1>3. EndInv => EndCloses
  BY DEF EndInv, EndCloses, Evidence, Closed
<1> QED
  BY <1>1, <1>2, <1>3, PTL DEF Spec
------------------------------------------------------------------------------
(***************************************************************************)
(* StopExplained and the refinement.  Only the consumer writes out and its *)
(* own program counter; both facts follow from where it is in the code.    *)
(***************************************************************************)
StreamInv ==
  /\ pc[Consumer] \notin {"misconfigured", "refuse", "select", "stopped"} => ctxDone \/ expired
  /\ HasFinal(out) => pc[Consumer] = "stopped"
  /\ StopExplained

(* A step of anyone else leaves the stream alone. *)
Elsewhere ==
  /\ mode' = mode /\ out' = out /\ pc'[Consumer] = pc[Consumer]
  /\ ctxDone => ctxDone'
  /\ expired => expired'

LEMMA CallerElsewhere ==
  ASSUME TypeOK, NEW c \in Callers, StartCall(c) \/ ContinueCall(c)
  PROVE  Elsewhere
<1>1. pc'[Consumer] = pc[Consumer]
  BY CallerMoves, ProcFacts DEF Moves
<1>2. mode' = mode /\ out' = out /\ expired' = expired
  BY DEF StartCall, EnqueueCheck, CompleteCheck, BridgeCancel, SessionCancel, ContinueCall,
         EnqueueRun, EnqueueSend, EnqueueEnd, SessionSnapshot, BridgeCancelTurn, EndCall,
         CancelCheck, EndStatus, EndSend, MarkDone
<1>3. ctxDone => ctxDone'
  BY DEF StartCall, EnqueueCheck, CompleteCheck, BridgeCancel, SessionCancel, ContinueCall,
         EnqueueRun, EnqueueSend, EnqueueEnd, SessionSnapshot, BridgeCancelTurn, EndCall,
         CancelCheck, EndStatus, EndSend, MarkDone, CancelContext
<1> QED
  BY <1>1, <1>2, <1>3 DEF Elsewhere

LEMMA AgentElsewhere ==
  ASSUME TypeOK, AgentStep
  PROVE  Elsewhere
<1>1. pc'[Consumer] = pc[Consumer]
  BY AgentMoves, ProcFacts DEF Moves
<1> QED
  BY <1>1 DEF Elsewhere, AgentStep, MockStart, MockRun, MockPush, MockGiveUp, MockEnd,
              WebhookAnswer, InboundCreated, MarkDone

LEMMA RestElsewhere == UNCHANGED vars \/ DeadlinePasses => Elsewhere
BY DEF vars, DeadlinePasses, Elsewhere

LEMMA InitStream == Init => StreamInv
<1> SUFFICES ASSUME Init
             PROVE  StreamInv
  OBVIOUS
<1>1. pc[Consumer] = CASE mode = "inbound" -> "stopped"
                       [] mode = "unknown" -> "misconfigured"
                       [] OTHER -> "select"
  BY ProcFacts DEF Init
<1>2. ~ HasFinal(out)
  BY DEF Init, HasFinal
<1> QED
  BY <1>1, <1>2 DEF StreamInv, StopExplained

LEMMA ConsumerStream ==
  ASSUME TypeOK, StreamInv, ConsumerStep
  PROVE  StreamInv'
<1> USE ProcFacts DEF TypeOK, Goto, StreamInv, StopExplained
<1>0. {"delta", "failed", "cancelled", "timeout"} \subseteq Event
  BY DEF Event, Final
<1>1. CASE Misconfigured
  <2>1. HasFinal(out') => HasFinal(out)
    BY <1>0, <1>1, HasFinalAppend DEF Misconfigured, Deliver, Final
  <2> QED
    BY <1>1, <2>1 DEF Misconfigured
<1>2. CASE Refuse
  <2>1. HasFinal(out')
    BY <1>0, <1>2, HasFinalAppend DEF Refuse, Deliver, Final
  <2> QED
    BY <1>2, <2>1 DEF Refuse
<1>3. CASE Receive
  <2>1. HasFinal(out') <=> HasFinal(out) \/ Head(queue) \in Final
    BY <1>3, HasFinalAppend, QueueParts DEF Receive, Deliver
  <2> QED
    BY <1>3, <2>1 DEF Receive
<1>4. CASE SeeCancel \/ SeeEnded \/ SeeDeadline \/ TimeoutStatus
  <2>1. out' = out /\ mode' = mode /\ ctxDone' = ctxDone /\ expired' = expired
    BY <1>4 DEF SeeCancel, SeeEnded, SeeDeadline, TimeoutStatus
  <2>2. pc[Consumer] # "stopped" /\ (ctxDone \/ expired)
    BY <1>4 DEF SeeCancel, SeeEnded, SeeDeadline, TimeoutStatus
  <2>3. HasFinal(out') <=> HasFinal(out)
    BY <2>1 DEF HasFinal
  <2> QED
    BY <2>1, <2>2, <2>3
<1>5. CASE ReceiveOne
  BY <1>5 DEF ReceiveOne
<1>6. CASE TimeoutEmit
  BY <1>6 DEF TimeoutEmit
<1>7. CASE EndCall(Consumer)
  <2>1. out' = out /\ mode' = mode /\ ctxDone' = ctxDone /\ expired' = expired
    BY <1>7 DEF EndCall, CancelCheck, EndStatus, EndSend, MarkDone
  <2>2. pc[Consumer] \in {"cancel", "end", "send", "mark"}
    BY <1>7 DEF EndCall, CancelCheck, EndStatus, EndSend, MarkDone
  <2>3. HasFinal(out') <=> HasFinal(out)
    BY <2>1 DEF HasFinal
  <2> QED
    BY <2>1, <2>2, <2>3
<1> QED
  BY <1>1, <1>2, <1>3, <1>4, <1>5, <1>6, <1>7 DEF ConsumerStep

LEMMA StreamNext == TypeOK /\ StreamInv /\ [Next]_vars => StreamInv'
<1> SUFFICES ASSUME TypeOK, StreamInv, [Next]_vars
             PROVE  StreamInv'
  OBVIOUS
<1>1. CASE Elsewhere
  BY <1>1 DEF Elsewhere, StreamInv, StopExplained, HasFinal
<1>2. CASE ConsumerStep
  BY <1>2, ConsumerStream
<1> QED
  BY <1>1, <1>2, CallerElsewhere, AgentElsewhere, RestElsewhere DEF Next

LEMMA StreamInvariant == Spec => [](TypeOK /\ ArgOK /\ ModeOK /\ StreamInv)
<1>1. Init => TypeOK /\ ArgOK /\ ModeOK /\ StreamInv
  BY InitTypeOK, InitEnd, InitStream
<1>2. TypeOK /\ ArgOK /\ ModeOK /\ StreamInv /\ [Next]_vars
        => (TypeOK /\ ArgOK /\ ModeOK /\ StreamInv)'
  BY NextTypeOK, ModeNext, StreamNext
<1> QED
  BY <1>1, <1>2, PTL DEF Spec

(* A stream without an assistant_done was cancelled or out of time. *)
THEOREM StopsExplained == Spec => []StopExplained
<1>1. StreamInv => StopExplained
  BY DEF StreamInv
<1> QED
  BY <1>1, StreamInvariant, PTL

LEMMA EndedIsHasFinal == Stream!Ended(out) <=> HasFinal(out)
BY DEF Stream!Ended, HasFinal

(* Sending e on a channel that the consumer has not closed. *)
LEMMA DeliverEmits ==
  ASSUME TypeOK, StreamInv, ModeOK, pc[Consumer] # "stopped",
         NEW e \in Event, Deliver(e), mode' = mode
  PROVE  Stream!Emit
<1>1. StreamOpen /\ StreamOpen' \in {StreamOpen, FALSE}
  BY DEF StreamOpen
<1>2. ~ Stream!Ended(out)
  BY EndedIsHasFinal DEF StreamInv
<1> QED
  BY <1>1, <1>2 DEF Stream!Emit, Deliver

LEMMA ConsumerEmits ==
  ASSUME TypeOK, StreamInv, ModeOK, ConsumerStep
  PROVE  [Stream!Next]_(Stream!streamVars)
<1> USE DEF TypeOK
<1>0. {"delta", "failed", "cancelled", "timeout"} \subseteq Event
  BY DEF Event, Final
<1>1. CASE \E e \in Event : Deliver(e) /\ pc[Consumer] # "stopped" /\ mode' = mode
  BY <1>1, DeliverEmits DEF Stream!Next
<1>2. CASE out' = out /\ mode' = mode /\ pc[Consumer] # "stopped"
  <2>1. StreamOpen
    BY <1>2 DEF StreamOpen
  <2>2. CASE StreamOpen'
    BY <1>2, <2>1, <2>2 DEF Stream!streamVars, StreamOpen
  <2>3. CASE ~ StreamOpen'
    BY <1>2, <2>1, <2>3 DEF Stream!Next, Stream!Close, StreamOpen
  <2> QED
    BY <2>2, <2>3
<1>3. CASE Misconfigured
  BY <1>0, <1>1, <1>3 DEF Misconfigured
<1>4. CASE Refuse
  BY <1>0, <1>1, <1>4 DEF Refuse
<1>5. CASE Receive
  BY <1>1, <1>5, QueueParts DEF Receive
<1>6. CASE ReceiveOne
  BY <1>0, <1>1, <1>6, QueueParts DEF ReceiveOne
<1>7. CASE TimeoutEmit
  BY <1>0, <1>1, <1>7 DEF TimeoutEmit
<1>8. CASE SeeCancel \/ SeeEnded \/ SeeDeadline \/ TimeoutStatus \/ EndCall(Consumer)
  BY <1>2, <1>8 DEF SeeCancel, SeeEnded, SeeDeadline, TimeoutStatus, EndCall, CancelCheck,
                    EndStatus, EndSend, MarkDone
<1> QED
  BY <1>3, <1>4, <1>5, <1>6, <1>7, <1>8 DEF ConsumerStep

(* Whatever the agent, the user and the deadline do to a job, the hub sees *)
(* an adapter's stream.                                                    *)
THEOREM JobImplementsStream == Spec => ImplementsStream
<1>1. Init => Stream!Init
  <2> SUFFICES ASSUME Init
               PROVE  Stream!Init
    OBVIOUS
  <2>1. pc[Consumer] = CASE mode = "inbound" -> "stopped"
                         [] mode = "unknown" -> "misconfigured"
                         [] OTHER -> "select"
    BY ProcFacts DEF Init
  <2> QED
    BY <2>1 DEF Init, Stream!Init, StreamOpen
<1>2. TypeOK /\ StreamInv /\ ModeOK /\ [Next]_vars => [Stream!Next]_(Stream!streamVars)
  <2> SUFFICES ASSUME TypeOK, StreamInv, ModeOK, [Next]_vars
               PROVE  [Stream!Next]_(Stream!streamVars)
    OBVIOUS
  <2>1. CASE Elsewhere
    BY <2>1 DEF Elsewhere, Stream!streamVars, StreamOpen
  <2>2. CASE ConsumerStep
    BY <2>2, ConsumerEmits
  <2> QED
    BY <2>1, <2>2, CallerElsewhere, AgentElsewhere, RestElsewhere DEF Next
<1> QED
  BY <1>1, <1>2, StreamInvariant, PTL DEF Spec, ImplementsStream, Stream!Spec
==============================================================================
