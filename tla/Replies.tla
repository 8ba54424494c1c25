------------------------------- MODULE Replies -------------------------------
(***************************************************************************)
(* One reply: the goroutine of DemoAgent (internal/agent/agent.go), or     *)
(* that of another adapter, sends events; the loop of runChat              *)
(* (internal/hub/server.go) collects its text and its tool cards           *)
(* (internal/agent/tools.go) and saves them.  HubTurns has the turn around *)
(* the loop.                                                               *)
(***************************************************************************)
EXTENDS Naturals, SequencesExt

CONSTANTS
  None,
  Tools,    (* what an adapter may say of a tool: [type, id, name, status,   *)
            (* result, error], None or FALSE for what is not in it         *)
  Words,    (* words of the demo reply                                     *)
  ChanCap,  (* capacity of the channel (64 in the code)                    *)
  MaxEvents (* bound of the model: events of another adapter               *)

ASSUME ConstantsAssumption ==
  /\ \A e \in Tools : /\ e.type \in {"tool_call", "tool_result", "tool_card"}
                      /\ {e.result, e.error} \subseteq BOOLEAN
  /\ None \notin {"running", "done", "error", "demo-lookup-1", "demo_lookup"}
  /\ {Words, MaxEvents} \subseteq Nat /\ ChanCap \in Nat \ {0}

VARIABLES
  adapter,   (* "demo" or "other"                                          *)
  at, pause, partial, (* DemoAgent: the next event, if it waits before it,   *)
             (* and the words it has sent                                  *)
  ctx,       (* the turn's context is cancelled                            *)
  chan, open, sent,   (* the channel, and all that was sent on it            *)
  text, cards, gotDone, cancelled,  (* what runChat has collected            *)
  applied,   (* the tool events that made the cards                        *)
  saved      (* the message of the assistant, once it is saved             *)

demoVars == <<at, pause, partial>>
chanVars == <<chan, open, sent>>
loopVars == <<text, cards, gotDone, cancelled, applied, saved>>
vars == <<adapter, demoVars, ctx, chanVars, loopVars>>
------------------------------------------------------------------------------
(* ClassifyToolEvent. *)
Kind(e) ==
  IF e.type = "tool_card"
    THEN IF e.result \/ e.error \/ e.status \in {"done", "error"} THEN "tool_result" ELSE "tool_call"
    ELSE e.type

(* toolOpen. *)
Open(row) == row.result = 0 /\ row.status \notin {"done", "error"}

(* findToolRow: 0 if there is none.  By id; by name if there is no id, or  *)
(* if the id of a result is not known.                                     *)
First(rows) == IF rows = {} THEN 0 ELSE Min(rows)
ByName(acc, e) == First({i \in DOMAIN acc : e.name # None /\ acc[i].name = e.name /\ Open(acc[i])})

FindByName(acc, e) == ByName(acc, e)

Find(acc, e) ==
  LET byId == First({i \in DOMAIN acc : e.id # None /\ acc[i].id = e.id})
  IN  IF byId # 0 \/ (e.id # None /\ Kind(e) = "tool_call") THEN byId ELSE ByName(acc, e)

(* mergeTool; n tells which event a result came from. *)
Merge(row, e, n) ==
  [row EXCEPT !.id = IF e.id = None THEN @ ELSE e.id,
              !.name = IF e.name = None THEN @ ELSE e.name,
              !.result = IF e.result THEN n ELSE @]

(* What the event says, else what it was. *)
Status(row, e) ==
  IF Kind(e) = "tool_result" THEN (IF e.error \/ e.status = "error" THEN "error" ELSE "done")
  ELSE IF e.status # None THEN e.status
  ELSE IF Open(row) THEN "running" ELSE row.status

(* ApplyToolEvent. *)
NewRow == [id |-> None, name |-> None, result |-> 0, status |-> "running"]
Update(row, e, n) == LET merged == Merge(row, e, n) IN [merged EXCEPT !.status = Status(merged, e)]

NewStatus(e) ==
  IF Kind(e) = "tool_call" THEN (IF e.status = None THEN "running" ELSE e.status)
                           ELSE Status(NewRow, e)

Apply(acc, e, n) ==
  LET i == Find(acc, e)
  IN  IF i # 0 THEN [acc EXCEPT ![i] = Update(@, e, n)]
               ELSE Append(acc, [Merge(NewRow, e, n) EXCEPT !.status = NewStatus(e)])
------------------------------------------------------------------------------
Start == [type |-> "assistant_start"]
Delta == [type |-> "assistant_delta"]
Done(content, stopped) == [type |-> "assistant_done", content |-> content, cancelled |-> stopped]

DemoTool(type, status) ==
  [type |-> type, id |-> "demo-lookup-1", name |-> "demo_lookup", status |-> status,
   result |-> type = "tool_result", error |-> FALSE]

Script ==
  <<Start>> \o [w \in 1..Words |-> Delta]
    \o <<DemoTool("tool_call", "running"), DemoTool("tool_result", "done"), Delta,
         Done(Words + 1, FALSE)>>

Over == Len(Script) + 1

Init ==
  /\ adapter \in {"demo", "other"}
  /\ at = 1 /\ pause = FALSE /\ partial = 0
  /\ ctx = FALSE
  /\ chan = <<>> /\ open = TRUE /\ sent = <<>>
  /\ text = 0 /\ cards = <<>> /\ gotDone = FALSE /\ cancelled = FALSE
  /\ applied = <<>> /\ saved = None

Send(e) ==
  /\ Len(chan) < ChanCap
  /\ chan' = Append(chan, e)
  /\ sent' = Append(sent, e.type)

(* The words, the call and the result are followed by a pause. *)
DemoSend ==
  /\ adapter = "demo" /\ open
  /\ at < Over /\ ~ pause
  /\ Send(Script[at])
  /\ partial' = IF Script[at] = Delta THEN partial + 1 ELSE partial
  /\ pause' = (at \in 2..(Words + 3))
  /\ at' = at + 1
  /\ UNCHANGED <<adapter, ctx, open, loopVars>>

DemoPause ==
  /\ adapter = "demo" /\ pause
  /\ pause' = FALSE
  /\ UNCHANGED <<adapter, at, partial, ctx, chanVars, loopVars>>

(* Where it sends or waits it may see that the turn is stopped: it says so *)
(* with what it has sent, except in place of its last event.               *)
DemoStopsEmpty ==
  /\ adapter = "demo" /\ open /\ ctx
  /\ at < Over
  /\ IF at = Over - 1 THEN UNCHANGED <<chan, sent>> ELSE Send(Done(1, TRUE))
  /\ at' = Over /\ pause' = FALSE
  /\ UNCHANGED <<adapter, partial, ctx, open, loopVars>>

DemoStopsTwice ==
  /\ adapter = "demo" /\ open /\ ctx
  /\ Send(Done(partial, TRUE))
  /\ at' = Over /\ pause' = FALSE
  /\ UNCHANGED <<adapter, partial, ctx, open, loopVars>>

DemoStops ==
  /\ adapter = "demo" /\ open /\ ctx
  /\ at < Over
  /\ IF at = Over - 1 THEN UNCHANGED <<chan, sent>> ELSE Send(Done(partial, TRUE))
  /\ at' = Over /\ pause' = FALSE
  /\ UNCHANGED <<adapter, partial, ctx, open, loopVars>>

DemoReturns ==
  /\ adapter = "demo" /\ open
  /\ at = Over /\ ~ pause
  /\ open' = FALSE
  /\ UNCHANGED <<adapter, demoVars, ctx, chan, sent, loopVars>>

(* Another adapter says what it likes, AgentBridge what its job is posted. *)
OtherSends ==
  /\ adapter = "other" /\ open
  /\ Len(sent) < MaxEvents
  /\ \E e \in Tools \cup {Delta} : Send(e)
  /\ UNCHANGED <<adapter, demoVars, ctx, open, loopVars>>

OtherEnds ==
  /\ adapter = "other" /\ open
  /\ \/ \E content \in {0, 1}, stopped \in BOOLEAN : Send(Done(content, stopped))
     \/ UNCHANGED <<chan, sent>>
  /\ open' = FALSE
  /\ UNCHANGED <<adapter, demoVars, ctx, loopVars>>

Stop ==
  /\ ~ ctx
  /\ ctx' = TRUE
  /\ UNCHANGED <<adapter, demoVars, chanVars, loopVars>>
------------------------------------------------------------------------------
(* The loop of runChat. *)
HearTool(e) ==
  /\ e.type \in {"tool_call", "tool_result", "tool_card"}
  /\ applied' = Append(applied, e)
  /\ cards' = Apply(cards, e, Len(applied'))
  /\ UNCHANGED <<text, gotDone, cancelled, saved>>

HearText(e) ==
  /\ e.type \in {"assistant_start", "assistant_delta"}
  /\ text' = IF e = Delta THEN text + 1 ELSE text
  /\ UNCHANGED <<cards, gotDone, cancelled, applied, saved>>

HearDone(e) ==
  /\ e.type = "assistant_done"
  /\ text' = IF e.content = 0 THEN text ELSE e.content
  /\ gotDone' = TRUE
  /\ cancelled' = (cancelled \/ e.cancelled)
  /\ UNCHANGED <<cards, applied, saved>>

Hear ==
  /\ chan # <<>>
  /\ HearText(Head(chan)) \/ HearTool(Head(chan)) \/ HearDone(Head(chan))
  /\ chan' = Tail(chan)
  /\ UNCHANGED <<adapter, demoVars, ctx, open, sent>>

Save ==
  /\ chan = <<>> /\ ~ open /\ saved = None
  /\ cancelled' = (cancelled \/ ~ gotDone)
  /\ saved' = [text |-> text, tools |-> cards, cancelled |-> cancelled']
  /\ UNCHANGED <<adapter, demoVars, ctx, chanVars, text, cards, gotDone, applied>>
------------------------------------------------------------------------------
Demo == DemoSend \/ DemoPause \/ DemoStops \/ DemoReturns
Loop == Hear \/ Save

Next == Demo \/ OtherSends \/ OtherEnds \/ Stop \/ Loop

Spec == Init /\ [][Next]_vars
------------------------------------------------------------------------------
EventTypes == {"assistant_start", "assistant_delta", "tool_call", "tool_result", "tool_card",
               "assistant_done"}
Statuses == {"running", "done", "error"} \cup ({e.status : e \in Tools} \ {None})
IsCard(row) ==
  /\ row.status \in Statuses /\ row.result \in 0..Len(applied)
  /\ row.result # 0 => applied[row.result].result

(* The shape of the state. *)
TypeOK ==
  /\ adapter \in {"demo", "other"}
  /\ at \in 1..Over /\ partial \in 0..(Words + 1)
  /\ {pause, ctx, open, gotDone, cancelled} \subseteq BOOLEAN
  /\ Len(chan) <= ChanCap /\ sent \in Seq(EventTypes)
  /\ text \in Nat
  /\ \A i \in DOMAIN cards : IsCard(cards[i])
  /\ saved # None => saved.tools = cards

(* DemoAgent keeps the contract of an adapter's stream. *)
Stream == INSTANCE ReplyStream WITH stream <- sent, Event <- EventTypes,
                                    Final <- {"assistant_done"}
DemoIsStream == Stream!Spec

(* A demo reply is saved with exactly the words that its listeners got,    *)
(* wherever a Stop met it; and it is whole, with its card done, unless it  *)
(* is marked as cancelled.                                                 *)
Deltas == {i \in DOMAIN sent : sent[i] = "assistant_delta"}
SavedIsSaid ==
  adapter = "demo" /\ saved # None =>
    /\ saved.text = Cardinality(Deltas)
    /\ ~ saved.cancelled => /\ saved.text = Words + 1
                            /\ [i \in DOMAIN saved.tools |-> saved.tools[i].status] = <<"done">>

(* tools.go:101, "distinct ids never collapse into one row": no two cards  *)
(* have one id; if all events have ids, and results follow their calls,    *)
(* there is a card per id, and its result is the last one for that id,     *)
(* whatever the names and the order of the results.                        *)
AppliedIds == {applied[i].id : i \in DOMAIN applied}
ResultsOf(id) == {i \in DOMAIN applied : applied[i].id = id /\ applied[i].result}
InOrder == \A i \in DOMAIN applied :
             /\ applied[i].id # None
             /\ Kind(applied[i]) = "tool_result" => \E j \in 1..(i-1) : applied[j].id = applied[i].id
CardPerId ==
  /\ \A i, j \in DOMAIN cards : cards[i].id = cards[j].id /\ cards[i].id # None => i = j
  /\ InOrder => /\ Len(cards) = Cardinality(AppliedIds)
                /\ \A i \in DOMAIN cards :
                     cards[i].result = (IF ResultsOf(cards[i].id) = {} THEN 0
                                        ELSE Max(ResultsOf(cards[i].id)))

(* If no event has an id, no result is put in the place of another one.    *)
NoResultOverwritten ==
  AppliedIds \subseteq {None} =>
    Cardinality({i \in DOMAIN applied : applied[i].result})
      = Cardinality({i \in DOMAIN cards : cards[i].result # 0})

(* The cards tell what the adapter told of its tools, however it did.      *)
CardsSound == TypeOK /\ CardPerId /\ NoResultOverwritten
==============================================================================
