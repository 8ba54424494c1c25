------------------------- MODULE ReplyAndUsageProofs -------------------------
(***************************************************************************)
(* Theorems about what a turn leaves behind: its reply (Replies: the       *)
(* stream, the words and the cards of tools, for any adapter's events, any *)
(* capacity of the channel and any length of the demo reply) and what it   *)
(* learns of the usage (UsageCache, for any callers and turns, any TTL and *)
(* any length of time).  The two components share no state.                *)
(***************************************************************************)
EXTENDS Replies, UsageCache, FiniteSetTheorems, TLAPS

LEMMA AppendFacts ==
  ASSUME NEW S, NEW s \in Seq(S), NEW x \in S
  PROVE  /\ Append(s, x) \in Seq(S) /\ Append(s, x) # <<>>
         /\ Len(Append(s, x)) = Len(s) + 1
         /\ DOMAIN s = 1..Len(s) /\ DOMAIN Append(s, x) = 1..(Len(s) + 1)
         /\ Append(s, x)[Len(s) + 1] = x
         /\ \A i \in 1..Len(s) : Append(s, x)[i] = s[i]
OBVIOUS

(***************************************************************************)
(* Replies: what the code works with.                                      *)
(***************************************************************************)
ToolEvents == Tools \cup {DemoTool("tool_call", "running"), DemoTool("tool_result", "done")}
Dones == {Done(content, stopped) : content \in Nat, stopped \in BOOLEAN}
Events == ToolEvents \cup {Start, Delta} \cup Dones
Rows == [id : {e.id : e \in ToolEvents} \cup {None}, name : {e.name : e \in ToolEvents} \cup {None},
         result : Nat, status : Statuses]

LEMMA ToolFacts ==
  ASSUME NEW e \in ToolEvents
  PROVE  /\ e.type \in {"tool_call", "tool_result", "tool_card"}
         /\ e.result \in BOOLEAN /\ e.error \in BOOLEAN
         /\ e.status \in Statuses \cup {None}
         /\ Kind(e) \in {"tool_call", "tool_result"}
<1>1. CASE e \in Tools
  <2>1. e.type \in {"tool_call", "tool_result", "tool_card"} /\ e.result \in BOOLEAN /\ e.error \in BOOLEAN
    BY <1>1, ConstantsAssumption
  <2>2. e.status \in Statuses \cup {None}
    BY <1>1 DEF Statuses
  <2> QED
    BY <2>1, <2>2 DEF Kind
<1>2. CASE e \in {DemoTool("tool_call", "running"), DemoTool("tool_result", "done")}
  <2>1. CASE e = DemoTool("tool_call", "running")
    <3>1. /\ e.type = "tool_call" /\ e.result = FALSE /\ e.error = FALSE /\ e.status = "running"
      BY <2>1 DEF DemoTool
    <3> QED
      BY <3>1 DEF Kind, Statuses
  <2>2. CASE e = DemoTool("tool_result", "done")
    <3>1. /\ e.type = "tool_result" /\ e.result = TRUE /\ e.error = FALSE /\ e.status = "done"
      BY <2>2 DEF DemoTool
    <3> QED
      BY <3>1 DEF Kind, Statuses
  <2> QED
    BY <1>2, <2>1, <2>2
<1> QED
  BY <1>1, <1>2 DEF ToolEvents

LEMMA DoneEvents ==
  ASSUME NEW content \in Nat, NEW stopped \in BOOLEAN
  PROVE  Done(content, stopped) \in Dones /\ Done(content, stopped) \in Events
BY DEF Dones, Events

LEMMA ConcatFacts ==
  ASSUME NEW S, NEW s \in Seq(S), NEW t \in Seq(S)
  PROVE  /\ s \o t \in Seq(S) /\ Len(s \o t) = Len(s) + Len(t)
         /\ \A i \in 1..Len(s) : (s \o t)[i] = s[i]
         /\ \A i \in 1..Len(t) : (s \o t)[Len(s) + i] = t[i]
OBVIOUS

LEMMA ScriptFacts ==
  /\ Script \in Seq(Events) /\ Len(Script) = Words + 5 /\ Over = Words + 6
  /\ Script[1] = Start
  /\ \A i \in 2..(Words + 1) : Script[i] = Delta
  /\ Script[Words + 2] = DemoTool("tool_call", "running")
  /\ Script[Words + 3] = DemoTool("tool_result", "done")
  /\ Script[Words + 4] = Delta
  /\ Script[Words + 5] = Done(Words + 1, FALSE)
<1> DEFINE words == [w \in 1..Words |-> Delta]
           rest == <<DemoTool("tool_call", "running"), DemoTool("tool_result", "done"), Delta,
                     Done(Words + 1, FALSE)>>
<1>0. Words \in Nat
  BY ConstantsAssumption
<1>1. Start \in Events /\ Delta \in Events /\ Done(Words + 1, FALSE) \in Events
      /\ DemoTool("tool_call", "running") \in Events /\ DemoTool("tool_result", "done") \in Events
  <2>1. Done(Words + 1, FALSE) \in Dones
    <3>1. Words + 1 \in Nat /\ FALSE \in BOOLEAN
      BY <1>0
    <3> QED
      BY <3>1, DoneEvents, Zenon
  <2> QED
    BY <2>1 DEF Events, ToolEvents
<1>2. words \in Seq(Events) /\ Len(words) = Words /\ \A i \in 1..Words : words[i] = Delta
  BY <1>0, <1>1
<1>f. ASSUME NEW a \in Events, NEW b \in Events, NEW c \in Events, NEW d \in Events
      PROVE  /\ <<a>> \in Seq(Events) /\ Len(<<a>>) = 1 /\ <<a>>[1] = a
             /\ <<a, b, c, d>> \in Seq(Events) /\ Len(<<a, b, c, d>>) = 4
             /\ <<a, b, c, d>>[1] = a /\ <<a, b, c, d>>[2] = b
             /\ <<a, b, c, d>>[3] = c /\ <<a, b, c, d>>[4] = d
  OBVIOUS
<1>3. <<Start>> \in Seq(Events) /\ rest \in Seq(Events) /\ Len(<<Start>>) = 1 /\ Len(rest) = 4
      /\ <<Start>>[1] = Start
  BY <1>1, <1>f
<1>4. rest[1] = DemoTool("tool_call", "running") /\ rest[2] = DemoTool("tool_result", "done")
      /\ rest[3] = Delta /\ rest[4] = Done(Words + 1, FALSE)
  BY <1>1, <1>f
<1> HIDE DEF words, rest
<1>5. Script = (<<Start>> \o words) \o rest
  BY DEF Script, words, rest
<1> DEFINE first == <<Start>> \o words
<1>6. first \in Seq(Events) /\ Len(first) = Words + 1 /\ first[1] = Start
      /\ \A i \in 2..(Words + 1) : first[i] = Delta
  BY <1>0, <1>2, <1>3, ConcatFacts
<1> HIDE DEF first
<1>7. /\ first \o rest \in Seq(Events) /\ Len(first \o rest) = Words + 5
      /\ \A i \in 1..(Words + 1) : (first \o rest)[i] = first[i]
      /\ \A i \in 1..4 : (first \o rest)[Words + 1 + i] = rest[i]
  <2>1. /\ first \o rest \in Seq(Events) /\ Len(first \o rest) = Len(first) + Len(rest)
        /\ \A i \in 1..Len(first) : (first \o rest)[i] = first[i]
        /\ \A i \in 1..Len(rest) : (first \o rest)[Len(first) + i] = rest[i]
    <3>1. first \in Seq(Events) /\ rest \in Seq(Events)
      BY <1>3, <1>6
    <3> HIDE DEF Events
    <3> QED
      BY <3>1, ConcatFacts
  <2> QED
    BY <2>1, <1>0, <1>3, <1>6
<1>8. Script = first \o rest
  BY <1>5 DEF first
<1>9. /\ Words + 2 = Words + 1 + 1 /\ Words + 3 = Words + 1 + 2 /\ Words + 4 = Words + 1 + 3
      /\ Words + 5 = Words + 1 + 4 /\ 1 \in 1..(Words + 1)
  BY <1>0
<1>10. \A i \in 1..4 : Script[Words + 1 + i] = rest[i]
  BY <1>7, <1>8
<1>11. Script[Words + 2] = rest[1] /\ Script[Words + 3] = rest[2] /\ Script[Words + 4] = rest[3]
       /\ Script[Words + 5] = rest[4]
  BY <1>9, <1>10
<1> QED
  BY <1>0, <1>4, <1>6, <1>7, <1>8, <1>9, <1>11 DEF Over
------------------------------------------------------------------------------
(***************************************************************************)
(* Lists of cards.                                                         *)
(***************************************************************************)
LEMMA LeastOf ==
  ASSUME NEW S \in SUBSET Nat
  PROVE  IF S = {} THEN First(S) = 0 ELSE First(S) \in S
<1> SUFFICES ASSUME S # {}
             PROVE  Min(S) \in S
  BY DEF First
<1> DEFINE Upto == {1..n : n \in S}
<1>1. \A n \in S : 1..n \in FiniteSubsetsOf(Nat)
  BY FS_Interval DEF FiniteSubsetsOf
<1>2. PICK x \in Upto : \A y \in Upto : ~ (<<y, x>> \in StrictSubsetOrdering(Nat))
  <2>1. Upto \subseteq FiniteSubsetsOf(Nat) /\ Upto # {}
    BY <1>1
  <2> HIDE DEF Upto
  <2> QED
    BY <2>1, FS_StrictSubsetOrderingWellFounded, WFMin
<1>3. PICK m \in S : x = 1..m
  BY <1>2
<1>4. ASSUME NEW n \in S, n < m
      PROVE  FALSE
  <2>1. 1..n \subseteq 1..m /\ m \in 1..m /\ m \notin 1..n
    BY <1>4
  <2>2. <<1..n, 1..m>> \in StrictSubsetOrdering(Nat)
    BY <2>1 DEF StrictSubsetOrdering
  <2> QED
    BY <2>2, <1>2, <1>3
<1>5. \A n \in S : m <= n
  BY <1>4
<1> QED
  BY <1>5 DEF Min

LEMMA TailFacts ==
  ASSUME NEW S, NEW s \in Seq(S), s # <<>>
  PROVE  /\ Head(s) \in S /\ Head(s) = s[1] /\ Tail(s) \in Seq(S)
         /\ Len(s) \in Nat \ {0} /\ Len(Tail(s)) = Len(s) - 1
         /\ \A i \in 1..Len(Tail(s)) : Tail(s)[i] = s[i + 1]
OBVIOUS

(* The card that an event has in the end, and whether it is an old one.    *)
LEMMA FindFacts ==
  ASSUME NEW acc \in Seq(Rows), NEW e \in ToolEvents
  PROVE  /\ Find(acc, e) = 0 => e.id = None \/ \A j \in DOMAIN acc : acc[j].id # e.id
         /\ Find(acc, e) # 0 =>
              /\ Find(acc, e) \in DOMAIN acc
              /\ \/ e.id # None /\ acc[Find(acc, e)].id = e.id
                 \/ /\ Open(acc[Find(acc, e)])
                    /\ \/ e.id = None
                       \/ Kind(e) = "tool_result" /\ \A j \in DOMAIN acc : acc[j].id # e.id
<1> DEFINE Same == {i \in DOMAIN acc : e.id # None /\ acc[i].id = e.id}
           Named == {i \in DOMAIN acc : e.name # None /\ acc[i].name = e.name /\ Open(acc[i])}
<1>1. DOMAIN acc \subseteq Nat \ {0}
  OBVIOUS
<1>2. Same \in SUBSET Nat /\ Named \in SUBSET Nat
  BY <1>1
<1>3. IF Same = {} THEN First(Same) = 0 ELSE First(Same) \in Same
  BY <1>2, LeastOf
<1>4. IF Named = {} THEN First(Named) = 0 ELSE First(Named) \in Named
  BY <1>2, LeastOf
<1>5. Find(acc, e) = IF First(Same) # 0 \/ (e.id # None /\ Kind(e) = "tool_call")
                       THEN First(Same) ELSE First(Named)
  BY DEF Find, ByName
<1>6. First(Same) = 0 => Same = {}
  BY <1>1, <1>3
<1>7. Same = {} => e.id = None \/ \A j \in DOMAIN acc : acc[j].id # e.id
  OBVIOUS
<1>8. CASE First(Same) # 0
  BY <1>1, <1>3, <1>5, <1>8
<1>9. CASE First(Same) = 0
  <2>1. Same = {}
    BY <1>6, <1>9
  <2>2. CASE e.id # None /\ Kind(e) = "tool_call"
    BY <2>1, <2>2, <1>5, <1>7, <1>9
  <2>3. CASE ~ (e.id # None /\ Kind(e) = "tool_call")
    <3>1. Find(acc, e) = First(Named)
      BY <2>3, <1>5, <1>9
    <3>2. e.id = None \/ Kind(e) = "tool_result"
      BY <2>3, ToolFacts
    <3>3. First(Named) # 0 => First(Named) \in Named
      BY <1>4
    <3> QED
      BY <3>1, <3>2, <3>3, <2>1, <1>7
  <2> QED
    BY <2>2, <2>3
<1> QED
  BY <1>8, <1>9

LEMMA StatusFacts ==
  ASSUME NEW row, row.status \in Statuses, NEW e \in ToolEvents
  PROVE  Status(row, e) \in Statuses /\ NewStatus(e) \in Statuses
<1>1. {"running", "done", "error"} \subseteq Statuses
  BY DEF Statuses
<1>2. \A r : r.status \in Statuses => Status(r, e) \in Statuses
  BY <1>1, ToolFacts DEF Status
<1>3. NewRow.status \in Statuses
  BY <1>1 DEF NewRow
<1>4. NewStatus(e) \in Statuses
  BY <1>1, <1>2, <1>3, ToolFacts DEF NewStatus
<1> QED
  BY <1>2, <1>4

LEMMA UpdateFacts ==
  ASSUME NEW row \in Rows, NEW e \in ToolEvents, NEW n \in Nat
  PROVE  /\ Update(row, e, n) \in Rows
         /\ Update(row, e, n).id = (IF e.id = None THEN row.id ELSE e.id)
         /\ Update(row, e, n).result = (IF e.result THEN n ELSE row.result)
         /\ Update(row, e, n).status = Status(Merge(row, e, n), e)
<1> DEFINE merged == Merge(row, e, n)
<1>1. e.id \in {x.id : x \in ToolEvents} \cup {None} /\ e.name \in {x.name : x \in ToolEvents} \cup {None}
  OBVIOUS
<1>2. /\ merged \in Rows
      /\ merged.id = (IF e.id = None THEN row.id ELSE e.id)
      /\ merged.result = (IF e.result THEN n ELSE row.result)
  BY <1>1 DEF Merge, Rows
<1>3. Status(merged, e) \in Statuses
  <2>1. merged.status \in Statuses
    BY <1>2 DEF Rows
  <2> QED
    BY <2>1, StatusFacts
<1>4. Update(row, e, n) = [merged EXCEPT !.status = Status(merged, e)]
  BY DEF Update
<1> HIDE DEF merged
<1>5. Update(row, e, n) = [id |-> merged.id, name |-> merged.name, result |-> merged.result,
                           status |-> Status(merged, e)]
  BY <1>2, <1>4 DEF Rows
<1>6. merged = Merge(row, e, n)
  BY DEF merged
<1> QED
  BY <1>2, <1>3, <1>5, <1>6 DEF Rows

NewCard(e, n) == [Merge(NewRow, e, n) EXCEPT !.status = NewStatus(e)]

LEMMA NewCardFacts ==
  ASSUME NEW e \in ToolEvents, NEW n \in Nat
  PROVE  /\ NewCard(e, n) \in Rows
         /\ NewCard(e, n).id = e.id
         /\ NewCard(e, n).result = (IF e.result THEN n ELSE 0)
         /\ NewCard(e, n).status = NewStatus(e)
<1> DEFINE merged == Merge(NewRow, e, n)
<1>1. e.id \in {x.id : x \in ToolEvents} \cup {None} /\ e.name \in {x.name : x \in ToolEvents} \cup {None}
  OBVIOUS
<1>2. NewRow \in Rows
  BY DEF NewRow, Rows, Statuses
<1>3. /\ merged \in Rows /\ merged.id = e.id
      /\ merged.result = (IF e.result THEN n ELSE 0)
  <2>1. NewRow.id = None /\ NewRow.result = 0
    BY DEF NewRow
  <2> QED
    BY <2>1, <1>1, <1>2 DEF Merge, Rows
<1>4. NewStatus(e) \in Statuses
  BY <1>2, StatusFacts DEF Rows
<1> HIDE DEF merged
<1>5. NewCard(e, n) = [merged EXCEPT !.status = NewStatus(e)]
  BY DEF NewCard, merged
<1>6. NewCard(e, n) = [id |-> merged.id, name |-> merged.name, result |-> merged.result,
                       status |-> NewStatus(e)]
  BY <1>3, <1>5 DEF Rows
<1> QED
  BY <1>3, <1>4, <1>6 DEF Rows

(* ApplyToolEvent makes a card, or changes one. *)
LEMMA ApplyFacts ==
  ASSUME NEW acc \in Seq(Rows), NEW e \in ToolEvents, NEW n \in Nat
  PROVE  /\ Apply(acc, e, n) \in Seq(Rows)
         /\ Find(acc, e) = 0 => Apply(acc, e, n) = Append(acc, NewCard(e, n))
         /\ Find(acc, e) # 0 =>
              Apply(acc, e, n) = [acc EXCEPT ![Find(acc, e)] = Update(acc[Find(acc, e)], e, n)]
<1> DEFINE i == Find(acc, e)
<1>1. Apply(acc, e, n) = IF i # 0 THEN [acc EXCEPT ![i] = Update(@, e, n)]
                                  ELSE Append(acc, NewCard(e, n))
  BY DEF Apply, NewCard
<1>2. CASE i = 0
  BY <1>1, <1>2, NewCardFacts, AppendFacts
<1>3. CASE i # 0
  <2>1. i \in DOMAIN acc /\ acc[i] \in Rows
    BY <1>3, FindFacts
  <2>2. Update(acc[i], e, n) \in Rows
    BY <2>1, UpdateFacts
  <2> HIDE DEF i
  <2>3. Apply(acc, e, n) = [acc EXCEPT ![i] = Update(acc[i], e, n)]
    BY <1>1, <1>3
  <2>4. Apply(acc, e, n) \in Seq(Rows)
    BY <2>1, <2>2, <2>3
  <2> QED
    BY <2>3, <2>4, <1>3 DEF i
<1> QED
  BY <1>2, <1>3
------------------------------------------------------------------------------
(***************************************************************************)
(* The shape of the state; a message that is saved is what was collected.  *)
(***************************************************************************)
Collected == [text |-> text, tools |-> cards, cancelled |-> cancelled]
SenderShape ==
  /\ adapter \in {"demo", "other"}
  /\ at \in 1..Over /\ partial \in Nat
  /\ pause \in BOOLEAN /\ ctx \in BOOLEAN /\ open \in BOOLEAN
  /\ adapter = "other" => at = 1 /\ partial = 0
ChannelShape ==
  /\ chan \in Seq(Events) /\ Len(chan) <= ChanCap
  /\ sent \in Seq(EventTypes)
LoopShape ==
  /\ gotDone \in BOOLEAN /\ cancelled \in BOOLEAN
  /\ text \in Nat
  /\ applied \in Seq(ToolEvents)
  /\ cards \in Seq(Rows)
  /\ \A i \in DOMAIN cards : IsCard(cards[i])
SavedLast == saved # None => ~ open /\ chan = <<>> /\ saved = Collected /\ (gotDone \/ cancelled)
ShapeInv == SenderShape /\ ChannelShape /\ LoopShape /\ SavedLast

LEMMA EventFacts ==
  ASSUME NEW e \in Events
  PROVE  /\ e.type \in EventTypes
         /\ e.type \in {"tool_call", "tool_result", "tool_card"} => e \in ToolEvents
         /\ e.type \in {"assistant_start", "assistant_delta"} => e \in {Start, Delta}
         /\ e.type = "assistant_done" =>
              \E content \in Nat, stopped \in BOOLEAN : e = Done(content, stopped)
<1>1. CASE e \in ToolEvents
  <2>1. e.type \in {"tool_call", "tool_result", "tool_card"}
    BY <1>1, ToolFacts
  <2> QED
    BY <2>1, <1>1 DEF EventTypes
<1>2. CASE e \in {Start, Delta}
  <2>1. e.type \in {"assistant_start", "assistant_delta"}
    BY <1>2 DEF Start, Delta
  <2> QED
    BY <2>1, <1>2 DEF EventTypes
<1>3. CASE e \in Dones
  <2>1. PICK content \in Nat, stopped \in BOOLEAN : e = Done(content, stopped)
    BY <1>3 DEF Dones
  <2>2. e.type = "assistant_done"
    BY <2>1 DEF Done
  <2> QED
    BY <2>1, <2>2 DEF EventTypes
<1> QED
  BY <1>1, <1>2, <1>3 DEF Events

LEMMA SendFacts ==
  ASSUME ChannelShape, NEW e \in Events, Send(e)
  PROVE  /\ ChannelShape' /\ chan' # <<>>
         /\ Len(chan') = Len(chan) + 1 /\ chan'[Len(chan) + 1] = e
         /\ \A i \in 1..Len(chan) : chan'[i] = chan[i]
         /\ Len(sent') = Len(sent) + 1 /\ sent'[Len(sent) + 1] = e.type
         /\ \A i \in 1..Len(sent) : sent'[i] = sent[i]
<1>1. chan \in Seq(Events) /\ sent \in Seq(EventTypes) /\ e.type \in EventTypes
  BY EventFacts DEF ChannelShape
<1>2. chan' = Append(chan, e) /\ sent' = Append(sent, e.type) /\ Len(chan) < ChanCap
  BY DEF Send
<1>3. ChanCap \in Nat
  BY ConstantsAssumption
<1>4. /\ chan' \in Seq(Events) /\ chan' # <<>> /\ Len(chan') = Len(chan) + 1
      /\ chan'[Len(chan) + 1] = e /\ \A i \in 1..Len(chan) : chan'[i] = chan[i]
  BY <1>1, <1>2, AppendFacts
<1>5. /\ sent' \in Seq(EventTypes) /\ Len(sent') = Len(sent) + 1
      /\ sent'[Len(sent) + 1] = e.type /\ \A i \in 1..Len(sent) : sent'[i] = sent[i]
  BY <1>1, <1>2, AppendFacts
<1>6. Len(chan') <= ChanCap
  BY <1>1, <1>2, <1>3, <1>4
<1> QED
  BY <1>4, <1>5, <1>6 DEF ChannelShape

(* An event that DemoAgent sends is the next of its script. *)
LEMMA ScriptEvents == \A i \in 1..(Over - 1) : Script[i] \in Events
<1>1. Words \in Nat
  BY ConstantsAssumption
<1> QED
  BY <1>1, ScriptFacts

LEMMA InitShape == Init => ShapeInv
<1> SUFFICES ASSUME Init
             PROVE  ShapeInv
  OBVIOUS
<1>1. Words \in Nat /\ ChanCap \in Nat
  BY ConstantsAssumption
<1>2. 1 \in 1..Over
  BY <1>1, ScriptFacts
<1>3. SenderShape
  BY <1>2 DEF Init, SenderShape
<1>4. ChannelShape
  BY <1>1 DEF Init, ChannelShape
<1>5. LoopShape
  <2>1. cards = <<>> /\ applied = <<>> /\ gotDone = FALSE /\ cancelled = FALSE /\ text = 0
    BY DEF Init
  <2>2. \A i \in DOMAIN cards : IsCard(cards[i])
    BY <2>1
  <2>3. cards \in Seq(Rows) /\ applied \in Seq(ToolEvents)
    BY <2>1
  <2> QED
    BY <2>1, <2>2, <2>3 DEF LoopShape
<1> QED
  BY <1>3, <1>4, <1>5 DEF Init, ShapeInv, SavedLast

(* What a listener hears changes what it has collected, and leaves a list  *)
(* of cards whose results came from the events that they name.             *)
LEMMA HearToolShape ==
  ASSUME LoopShape, NEW e \in ToolEvents, HearTool(e)
  PROVE  LoopShape'
<1> DEFINE n == Len(applied')
           i == Find(cards, e)
<1>1. /\ applied \in Seq(ToolEvents) /\ cards \in Seq(Rows)
      /\ \A j \in DOMAIN cards : IsCard(cards[j])
  BY DEF LoopShape
<1>2. /\ applied' \in Seq(ToolEvents) /\ n = Len(applied) + 1 /\ n \in Nat
      /\ applied'[n] = e /\ \A j \in 1..Len(applied) : applied'[j] = applied[j]
  BY <1>1, AppendFacts DEF HearTool
<1>3. cards' = Apply(cards, e, n)
  BY DEF HearTool
<1> HIDE DEF n
<1>4. cards' \in Seq(Rows)
  BY <1>1, <1>2, <1>3, ApplyFacts
<1> DEFINE Fits(row) == /\ row.status \in Statuses /\ row.result \in 0..n
                        /\ row.result # 0 => applied'[row.result].result
<1>5. \A j \in DOMAIN cards : Fits(cards[j])
  <2> TAKE j \in DOMAIN cards
  <2>1. IsCard(cards[j])
    BY <1>1
  <2>2. cards[j].result \in 0..Len(applied)
    BY <2>1 DEF IsCard
  <2>3. cards[j].result # 0 => applied'[cards[j].result] = applied[cards[j].result]
    BY <2>2, <1>2
  <2> QED
    BY <2>1, <2>2, <2>3, <1>2, <1>1 DEF IsCard
<1>6. \A j \in DOMAIN cards' : Fits(cards'[j])
  <2>1. CASE i = 0
    <3>1. cards' = Append(cards, NewCard(e, n))
      BY <2>1, <1>1, <1>2, <1>3, ApplyFacts
    <3>2. /\ NewCard(e, n).result = (IF e.result THEN n ELSE 0)
          /\ NewCard(e, n).status \in Statuses
      BY <1>2, NewCardFacts DEF Rows
    <3>3. Fits(NewCard(e, n))
      BY <3>2, <1>2
    <3>4. /\ DOMAIN cards' = 1..(Len(cards) + 1) /\ DOMAIN cards = 1..Len(cards)
          /\ cards'[Len(cards) + 1] = NewCard(e, n)
          /\ \A j \in 1..Len(cards) : cards'[j] = cards[j]
      BY <3>1, <1>1, <1>2, NewCardFacts, AppendFacts
    <3> HIDE DEF Fits
    <3>5. \A j \in DOMAIN cards' : j = Len(cards) + 1 \/ j \in DOMAIN cards
      BY <3>4, <1>1
    <3> QED
      BY <3>3, <3>4, <3>5, <1>5
  <2>2. CASE i # 0
    <3>0. i \in DOMAIN cards
      BY <2>2, <1>1, FindFacts
    <3>1. cards' = [cards EXCEPT ![i] = Update(cards[i], e, n)]
      <4>1. n \in Nat /\ cards \in Seq(Rows) /\ Find(cards, e) # 0
        BY <2>2, <1>1, <1>2
      <4>2. Apply(cards, e, n) = [cards EXCEPT ![Find(cards, e)] = Update(cards[Find(cards, e)], e, n)]
        BY <4>1, ApplyFacts, Zenon
      <4> QED
        BY <4>2, <1>3
    <3> HIDE DEF i
    <3>2. cards[i] \in Rows
      BY <3>0, <1>1
    <3>3. /\ Update(cards[i], e, n).result = (IF e.result THEN n ELSE cards[i].result)
          /\ Update(cards[i], e, n) \in Rows
      <4>1. n \in Nat
        BY <1>2
      <4> QED
        BY <3>2, <4>1, UpdateFacts, Zenon
    <3>4. Fits(Update(cards[i], e, n))
      BY <3>0, <3>3, <1>2, <1>5 DEF Rows
    <3> HIDE DEF Fits
    <3> QED
      BY <3>0, <3>1, <3>4, <1>5
  <2> QED
    BY <2>1, <2>2
<1>7. \A j \in DOMAIN cards' : IsCard(cards[j])'
  BY <1>6 DEF IsCard, n
<1> QED
  BY <1>2, <1>4, <1>7 DEF LoopShape, HearTool
LEMMA LoopKept == LoopShape /\ UNCHANGED loopVars => LoopShape'
BY DEF LoopShape, loopVars, IsCard

LEMMA NextShape == ShapeInv /\ [Next]_vars => ShapeInv'
<1> SUFFICES ASSUME ShapeInv, [Next]_vars
             PROVE  ShapeInv'
  OBVIOUS
<1>0. SenderShape /\ ChannelShape /\ LoopShape /\ SavedLast
  BY DEF ShapeInv
<1>n. Words \in Nat /\ Over = Words + 6 /\ at \in Nat /\ partial \in Nat
  BY <1>0, ConstantsAssumption, ScriptFacts DEF SenderShape
(* What is sent while the channel is open is not late for the message.     *)
<1>s. ASSUME open, NEW e \in Events, Send(e), UNCHANGED loopVars
      PROVE  ChannelShape' /\ LoopShape' /\ SavedLast'
  <2>1. saved = None
    BY <1>0, <1>s DEF SavedLast
  <2> QED
    BY <1>0, <1>s, <2>1, SendFacts, LoopKept DEF SavedLast, loopVars
<1>k. ASSUME UNCHANGED <<chan, sent>>, UNCHANGED loopVars, open \/ ~ open'
      PROVE  ChannelShape' /\ LoopShape' /\ (open => SavedLast')
  BY <1>0, <1>k, LoopKept DEF ChannelShape, SavedLast, loopVars
<1>1. CASE DemoSend
  <2>1. at \in 1..(Over - 1)
    BY <1>1, <1>n, <1>0 DEF DemoSend, SenderShape
  <2>2. Script[at] \in Events
    BY <2>1, ScriptEvents
  <2>3. open /\ Send(Script[at]) /\ UNCHANGED loopVars
    BY <1>1 DEF DemoSend
  <2>4. SenderShape'
    <3>1. partial' \in Nat /\ at' \in 1..Over /\ pause' \in BOOLEAN
      BY <1>1, <1>n, <2>1 DEF DemoSend
    <3> QED
      BY <3>1, <1>1, <1>0 DEF DemoSend, SenderShape
  <2> QED
    BY <2>2, <2>3, <2>4, <1>s DEF ShapeInv
<1>2. CASE DemoPause
  BY <1>2, <1>0, LoopKept DEF DemoPause, ShapeInv, SenderShape, ChannelShape, SavedLast, Collected,
                            chanVars, loopVars
<1>3. CASE DemoStops
  <2>1. Done(partial, TRUE) \in Events
    <3>1. TRUE \in BOOLEAN
      OBVIOUS
    <3> QED
      BY <3>1, <1>n, DoneEvents, Zenon
  <2>2. open /\ UNCHANGED loopVars
    BY <1>3 DEF DemoStops
  <2>3. SenderShape'
    <3>1. at' = Over /\ pause' = FALSE /\ adapter = "demo" /\ UNCHANGED <<adapter, partial, ctx, open>>
      BY <1>3 DEF DemoStops
    <3>2. at' \in 1..Over
      BY <3>1, <1>n
    <3> QED
      BY <3>1, <3>2, <1>0 DEF SenderShape
  <2>4. CASE UNCHANGED <<chan, sent>>
    BY <2>2, <2>3, <2>4, <1>k DEF ShapeInv
  <2>5. CASE Send(Done(partial, TRUE))
    BY <2>1, <2>2, <2>3, <2>5, <1>s DEF ShapeInv
  <2> QED
    BY <1>3, <2>4, <2>5 DEF DemoStops
<1>4. CASE DemoReturns \/ Stop
  <2>2. SenderShape'
    BY <1>4, <1>0 DEF DemoReturns, Stop, SenderShape, demoVars, chanVars
  <2>3. ChannelShape' /\ LoopShape' /\ SavedLast'
    BY <1>4, <1>0, LoopKept DEF DemoReturns, Stop, ChannelShape, SavedLast, Collected, loopVars, chanVars
  <2> QED
    BY <2>2, <2>3 DEF ShapeInv
<1>5. CASE OtherSends
  <2>1. PICK e \in Tools \cup {Delta} : Send(e)
    BY <1>5 DEF OtherSends
  <2>2. e \in Events
    BY DEF Events, ToolEvents
  <2>3. open /\ UNCHANGED loopVars
    BY <1>5 DEF OtherSends
  <2>4. SenderShape'
    BY <1>5, <1>0 DEF OtherSends, SenderShape, demoVars
  <2> QED
    BY <2>1, <2>2, <2>3, <2>4, <1>s DEF ShapeInv
<1>6. CASE OtherEnds
  <2>1. open /\ UNCHANGED loopVars /\ ~ open'
    BY <1>6 DEF OtherEnds
  <2>2. SenderShape'
    BY <1>6, <1>0 DEF OtherEnds, SenderShape, demoVars
  <2>3. ASSUME NEW content \in {0, 1}, NEW stopped \in BOOLEAN, Send(Done(content, stopped))
        PROVE  ShapeInv'
    <3>1. content \in Nat
      OBVIOUS
    <3>2. Done(content, stopped) \in Events
      BY <3>1, DoneEvents
    <3> QED
      BY <2>1, <2>2, <2>3, <3>2, <1>s DEF ShapeInv
  <2>4. CASE UNCHANGED <<chan, sent>>
    BY <2>1, <2>2, <2>4, <1>k DEF ShapeInv
  <2> QED
    BY <1>6, <2>3, <2>4 DEF OtherEnds
<1>7. CASE Hear
  <2>1. chan # <<>> /\ chan' = Tail(chan) /\ UNCHANGED <<adapter, demoVars, ctx, open, sent>>
    BY <1>7 DEF Hear
  <2>2. Head(chan) \in Events /\ Tail(chan) \in Seq(Events) /\ Len(Tail(chan)) <= ChanCap
    <3>1. Len(chan) \in Nat /\ ChanCap \in Nat /\ Len(chan) <= ChanCap
      BY <1>0, ConstantsAssumption DEF ChannelShape
    <3> QED
      BY <3>1, <2>1, <1>0, TailFacts DEF ChannelShape
  <2>3. saved = None /\ saved' = None
    BY <1>7, <2>1, <1>0 DEF SavedLast, Hear, HearText, HearTool, HearDone
  <2>4. LoopShape'
    <3>1. CASE HearText(Head(chan))
      <4>1. text' \in Nat
        BY <3>1, <1>0 DEF HearText, LoopShape
      <4> QED
        BY <3>1, <4>1, <1>0 DEF HearText, LoopShape, IsCard
    <3>2. CASE HearTool(Head(chan))
      <4>1. Head(chan) \in ToolEvents
        BY <3>2, <2>2, EventFacts DEF HearTool
      <4> QED
        BY <4>1, <3>2, <1>0, HearToolShape
    <3>3. CASE HearDone(Head(chan))
      <4>1. PICK content \in Nat, stopped \in BOOLEAN : Head(chan) = Done(content, stopped)
        BY <3>3, <2>2, EventFacts DEF HearDone
      <4>2. text' \in Nat /\ gotDone' \in BOOLEAN /\ cancelled' \in BOOLEAN
        BY <3>3, <4>1, <1>0 DEF HearDone, LoopShape, Done
      <4> QED
        BY <3>3, <4>2, <1>0 DEF HearDone, LoopShape, IsCard
    <3> QED
      BY <1>7, <3>1, <3>2, <3>3 DEF Hear
  <2> QED
    BY <2>1, <2>2, <2>3, <2>4, <1>0 DEF ShapeInv, SenderShape, ChannelShape, SavedLast, demoVars
<1>8. CASE Save
  <2>1. SenderShape' /\ ChannelShape'
    BY <1>8, <1>0 DEF Save, SenderShape, ChannelShape, demoVars, chanVars
  <2>2. LoopShape'
    BY <1>8, <1>0 DEF Save, LoopShape, IsCard
  <2>3. SavedLast'
    BY <1>8, <1>0 DEF Save, SavedLast, Collected, chanVars, LoopShape
  <2> QED
    BY <2>1, <2>2, <2>3 DEF ShapeInv
<1>9. CASE UNCHANGED vars
  BY <1>9, <1>0, LoopKept DEF vars, demoVars, chanVars, ShapeInv, SenderShape, ChannelShape,
                              SavedLast, Collected, loopVars
<1> QED
  BY <1>1, <1>2, <1>3, <1>4, <1>5, <1>6, <1>7, <1>8, <1>9 DEF Next, Demo, Loop
------------------------------------------------------------------------------
(***************************************************************************)
(* The stream of an adapter is not over while its sender may still send.   *)
(***************************************************************************)
Sending == open /\ (adapter = "demo" => at < Over)
StreamInv == Sending => \A i \in DOMAIN sent : sent[i] # "assistant_done"

LEMMA StreamSend ==
  ASSUME ShapeInv, StreamInv, Sending, NEW e \in Events, Send(e), open' \in {open, FALSE},
         e.type = "assistant_done" => ~ Sending'
  PROVE  StreamInv' /\ Stream!Emit
<1>1. ChannelShape /\ open \in BOOLEAN
  BY DEF ShapeInv, SenderShape
<1>2. sent \in Seq(EventTypes) /\ sent' = Append(sent, e.type) /\ e.type \in EventTypes
  BY <1>1, EventFacts DEF ChannelShape, Send
<1>3. /\ DOMAIN sent' = 1..(Len(sent) + 1) /\ DOMAIN sent = 1..Len(sent) /\ Len(sent) \in Nat
      /\ sent'[Len(sent) + 1] = e.type /\ \A i \in 1..Len(sent) : sent'[i] = sent[i]
  BY <1>2, AppendFacts
<1>4. \A i \in DOMAIN sent : sent[i] # "assistant_done"
  BY DEF StreamInv
<1>5. e.type # "assistant_done" => \A i \in DOMAIN sent' : sent'[i] # "assistant_done"
  BY <1>3, <1>4
<1>6. StreamInv'
  BY <1>5 DEF StreamInv
<1>7. Stream!Emit
  BY <1>2, <1>4 DEF Stream!Emit, Stream!Ended, Sending
<1> QED
  BY <1>6, <1>7

LEMMA NextStream ==
  ShapeInv /\ StreamInv /\ [Next]_vars =>
    StreamInv' /\ [Stream!Next]_(Stream!streamVars)
<1> SUFFICES ASSUME ShapeInv, StreamInv, [Next]_vars
             PROVE  StreamInv' /\ [Stream!Next]_(Stream!streamVars)
  OBVIOUS
<1>n. Words \in Nat /\ Over = Words + 6 /\ at \in 1..Over /\ partial \in Nat /\ open \in BOOLEAN
      /\ adapter \in {"demo", "other"}
  BY ConstantsAssumption, ScriptFacts DEF ShapeInv, SenderShape
<1>s. ASSUME Sending, NEW e \in Events, Send(e), open' \in {open, FALSE},
             e.type = "assistant_done" => ~ Sending'
      PROVE  StreamInv' /\ [Stream!Next]_(Stream!streamVars)
  BY <1>s, StreamSend DEF Stream!Next
<1>k. ASSUME UNCHANGED sent, open' = open \/ (open /\ open' = FALSE), Sending' => Sending
      PROVE  StreamInv' /\ [Stream!Next]_(Stream!streamVars)
  <2>1. StreamInv'
    BY <1>k DEF StreamInv
  <2>2. CASE open' = open
    BY <2>1, <2>2, <1>k DEF Stream!streamVars
  <2>3. CASE open /\ open' = FALSE
    BY <2>1, <2>3, <1>k DEF Stream!Next, Stream!Close
  <2> QED
    BY <1>k, <2>2, <2>3
<1>1. CASE DemoSend
  <2>1. open /\ open' = open /\ adapter = "demo" /\ adapter' = "demo" /\ at < Over /\ at' = at + 1
        /\ Send(Script[at])
    BY <1>1 DEF DemoSend
  <2>2. Sending /\ Script[at] \in Events
    BY <2>1, <1>n, ScriptEvents DEF Sending
  <2>3. Script[at].type = "assistant_done" => at = Words + 5
    <3>1. CASE at \in 2..(Words + 1) \/ at \in {1, Words + 4}
      BY <3>1, ScriptFacts DEF Start, Delta
    <3>2. CASE at \in {Words + 2, Words + 3}
      BY <3>2, ScriptFacts DEF DemoTool
    <3> QED
      BY <3>1, <3>2, <2>1, <1>n
  <2>4. Script[at].type = "assistant_done" => ~ Sending'
    BY <2>1, <2>3, <1>n DEF Sending
  <2> QED
    BY <2>1, <2>2, <2>4, <1>s
<1>2. CASE DemoStops
  <2>1. open /\ adapter = "demo" /\ at < Over /\ at' = Over /\ UNCHANGED <<open, adapter>>
    BY <1>2 DEF DemoStops
  <2>2. Sending /\ ~ Sending'
    BY <2>1, <1>n DEF Sending
  <2>3. CASE UNCHANGED <<chan, sent>>
    BY <2>1, <2>2, <2>3, <1>k
  <2>4. CASE Send(Done(partial, TRUE))
    <3>1. TRUE \in BOOLEAN
      OBVIOUS
    <3>2. Done(partial, TRUE) \in Events
      BY <3>1, <1>n, DoneEvents, Zenon
    <3> QED
      BY <3>2, <2>1, <2>2, <2>4, <1>s
  <2> QED
    BY <1>2, <2>3, <2>4 DEF DemoStops
<1>3. CASE DemoReturns
  BY <1>3, <1>k DEF DemoReturns, Sending
<1>4. CASE OtherSends
  <2>1. PICK e \in Tools \cup {Delta} : Send(e)
    BY <1>4 DEF OtherSends
  <2>2. e \in ToolEvents \cup {Delta}
    BY DEF ToolEvents
  <2>3. e \in Events /\ e.type # "assistant_done"
    <3>1. e \in ToolEvents => e.type # "assistant_done"
      BY ToolFacts
    <3>2. Delta.type # "assistant_done"
      BY DEF Delta
    <3> QED
      BY <2>2, <3>1, <3>2 DEF Events
  <2>4. open /\ open' = open /\ Sending
    BY <1>4 DEF OtherSends, Sending
  <2> QED
    BY <2>1, <2>3, <2>4, <1>s
<1>5. CASE OtherEnds
  <2>1. open /\ open' = FALSE /\ Sending /\ ~ Sending'
    BY <1>5 DEF OtherEnds, Sending
  <2>2. ASSUME NEW content \in {0, 1}, NEW stopped \in BOOLEAN, Send(Done(content, stopped))
        PROVE  StreamInv' /\ [Stream!Next]_(Stream!streamVars)
    <3>1. content \in Nat
      OBVIOUS
    <3>2. Done(content, stopped) \in Events
      BY <3>1, DoneEvents
    <3> QED
      BY <2>1, <2>2, <3>2, <1>s
  <2>3. CASE UNCHANGED <<chan, sent>>
    BY <2>1, <2>3, <1>k
  <2> QED
    BY <1>5, <2>2, <2>3 DEF OtherEnds
<1>6. CASE DemoPause \/ Stop \/ Hear \/ Save \/ UNCHANGED vars
  <2>1. UNCHANGED <<adapter, at, sent, open>>
    BY <1>6 DEF DemoPause, Stop, Hear, Save, vars, demoVars, chanVars
  <2> QED
    BY <2>1, <1>k DEF Sending
<1> QED
  BY <1>1, <1>2, <1>3, <1>4, <1>5, <1>6 DEF Next, Demo, Loop
THEOREM DemoImplementsStream == Spec => DemoIsStream
<1>1. Init => ShapeInv /\ StreamInv /\ Stream!Init
  BY InitShape DEF Init, StreamInv, Stream!Init
<1>2. (ShapeInv /\ StreamInv) /\ [Next]_vars => (ShapeInv /\ StreamInv)' /\ [Stream!Next]_(Stream!streamVars)
  BY NextShape, NextStream
<1> QED
  BY <1>1, <1>2, PTL DEF Spec, DemoIsStream, Stream!Spec
------------------------------------------------------------------------------
(***************************************************************************)
(* The demo reply.  How many words are among the first n events of the     *)
(* script, and the card that these events leave.                           *)
(***************************************************************************)
Last4 == Words + 4
WordsOf(n) ==
  IF n <= 1 THEN 0
  ELSE IF n <= Words + 1 THEN n - 1
  ELSE IF n <= Words + 3 THEN Words ELSE Words + 1
CallEvent == DemoTool("tool_call", "running")
ResultEvent == DemoTool("tool_result", "done")
CardOf(result, status) ==
  [id |-> "demo-lookup-1", name |-> "demo_lookup", result |-> result, status |-> status]
DemoCards(n) ==
  IF n < Words + 2 THEN <<>>
  ELSE IF n = Words + 2 THEN <<CardOf(0, "running")>> ELSE <<CardOf(2, "done")>>
DemoApplied(n) == IF n < Words + 2 THEN 0 ELSE IF n = Words + 2 THEN 1 ELSE 2

LEMMA DemoToolFacts ==
  /\ CallEvent \in ToolEvents /\ ResultEvent \in ToolEvents
  /\ CallEvent.type = "tool_call" /\ CallEvent.id = "demo-lookup-1" /\ CallEvent.name = "demo_lookup"
  /\ CallEvent.status = "running" /\ ~ CallEvent.result /\ ~ CallEvent.error
  /\ ResultEvent.type = "tool_result" /\ ResultEvent.id = "demo-lookup-1"
  /\ ResultEvent.name = "demo_lookup" /\ ResultEvent.status = "done" /\ ResultEvent.result
  /\ ~ ResultEvent.error
  /\ Kind(CallEvent) = "tool_call" /\ Kind(ResultEvent) = "tool_result"
  /\ None \notin {"running", "done", "error", "demo-lookup-1", "demo_lookup"}
<1>1. None \notin {"running", "done", "error", "demo-lookup-1", "demo_lookup"}
  BY ConstantsAssumption
<1>2. CallEvent \in ToolEvents /\ ResultEvent \in ToolEvents
  BY DEF ToolEvents, CallEvent, ResultEvent
<1>3. /\ CallEvent.type = "tool_call" /\ CallEvent.id = "demo-lookup-1"
      /\ CallEvent.name = "demo_lookup" /\ CallEvent.status = "running"
      /\ ~ CallEvent.result /\ ~ CallEvent.error
  BY DEF CallEvent, DemoTool
<1>4. /\ ResultEvent.type = "tool_result" /\ ResultEvent.id = "demo-lookup-1"
      /\ ResultEvent.name = "demo_lookup" /\ ResultEvent.status = "done"
      /\ ResultEvent.result /\ ~ ResultEvent.error
  BY DEF ResultEvent, DemoTool
<1>5. Kind(CallEvent) = "tool_call" /\ Kind(ResultEvent) = "tool_result"
  BY <1>3, <1>4 DEF Kind
<1> QED
  BY <1>1, <1>2, <1>3, <1>4, <1>5

LEMMA MergeFacts ==
  ASSUME NEW row \in Rows, NEW e \in ToolEvents, NEW n \in Nat
  PROVE  Merge(row, e, n) = [id |-> IF e.id = None THEN row.id ELSE e.id,
                             name |-> IF e.name = None THEN row.name ELSE e.name,
                             result |-> IF e.result THEN n ELSE row.result,
                             status |-> row.status]
<1> DEFINE id == IF e.id = None THEN row.id ELSE e.id
           name == IF e.name = None THEN row.name ELSE e.name
           result == IF e.result THEN n ELSE row.result
<1>1. row = [id |-> row.id, name |-> row.name, result |-> row.result, status |-> row.status]
  BY DEF Rows
<1>2. Merge(row, e, n) = [row EXCEPT !.id = id, !.name = name, !.result = result]
  BY DEF Merge
<1> HIDE DEF id, name, result
<1>3. Merge(row, e, n) = [id |-> id, name |-> name, result |-> result, status |-> row.status]
  BY <1>1, <1>2
<1> QED
  BY <1>3 DEF id, name, result

LEMMA DemoCall == Apply(<<>>, CallEvent, 1) = <<CardOf(0, "running")>>
<1>1. <<>> \in Seq(Rows) /\ 1 \in Nat /\ DOMAIN <<>> = {}
  OBVIOUS
<1>2. Find(<<>>, CallEvent) = 0
  BY <1>1, DemoToolFacts, FindFacts
<1>3. Apply(<<>>, CallEvent, 1) = Append(<<>>, NewCard(CallEvent, 1))
  BY <1>1, <1>2, DemoToolFacts, ApplyFacts, Zenon
<1>4. NewStatus(CallEvent) = "running"
  BY DemoToolFacts DEF NewStatus
<1>5. Merge(NewRow, CallEvent, 1) = CardOf(0, "running")
  <2>1. NewRow \in Rows /\ NewRow.result = 0 /\ NewRow.status = "running"
    BY DEF NewRow, Rows, Statuses
  <2> QED
    BY <2>1, DemoToolFacts, MergeFacts DEF CardOf
<1>6. NewCard(CallEvent, 1) = CardOf(0, "running")
  BY <1>4, <1>5 DEF NewCard, CardOf
<1> QED
  BY <1>3, <1>6

LEMMA DemoResult == Apply(<<CardOf(0, "running")>>, ResultEvent, 2) = <<CardOf(2, "done")>>
<1> DEFINE row == CardOf(0, "running")
<1>1. row \in Rows
  <2>1. "demo-lookup-1" \in {e.id : e \in ToolEvents} /\ "demo_lookup" \in {e.name : e \in ToolEvents}
    BY DemoToolFacts
  <2> QED
    BY <2>1 DEF CardOf, Rows, Statuses
<1>2. row.id = "demo-lookup-1" /\ row.name = "demo_lookup" /\ row.status = "running"
  BY DEF CardOf
<1>3. Update(row, ResultEvent, 2) = CardOf(2, "done")
  <2>1. Merge(row, ResultEvent, 2) = CardOf(2, "running")
    BY <1>1, DemoToolFacts, MergeFacts DEF CardOf
  <2>2. Status(CardOf(2, "running"), ResultEvent) = "done"
    BY DemoToolFacts DEF Status
  <2> QED
    BY <2>1, <2>2 DEF Update, CardOf
<1> HIDE DEF row
<1>4. <<row>> \in Seq(Rows) /\ DOMAIN <<row>> = {1} /\ <<row>>[1] = row /\ 2 \in Nat
  BY <1>1
<1>5. Find(<<row>>, ResultEvent) # 0
  <2>1. Find(<<row>>, ResultEvent) = 0 =>
          ResultEvent.id = None \/ \A j \in DOMAIN <<row>> : <<row>>[j].id # ResultEvent.id
    BY <1>4, DemoToolFacts, FindFacts, Zenon
  <2> QED
    BY <2>1, <1>2, <1>4, DemoToolFacts
<1>6. Find(<<row>>, ResultEvent) = 1
  BY <1>4, <1>5, DemoToolFacts, FindFacts
<1>7. Apply(<<row>>, ResultEvent, 2)
        = [<<row>> EXCEPT ![Find(<<row>>, ResultEvent)] = Update(<<row>>[Find(<<row>>, ResultEvent)], ResultEvent, 2)]
  BY <1>4, <1>5, DemoToolFacts, ApplyFacts, Zenon
<1>8. Apply(<<row>>, ResultEvent, 2) = [<<row>> EXCEPT ![1] = CardOf(2, "done")]
  BY <1>3, <1>4, <1>6, <1>7
<1>9. [<<row>> EXCEPT ![1] = CardOf(2, "done")] = <<CardOf(2, "done")>>
  OBVIOUS
<1> QED
  BY <1>8, <1>9 DEF row

LEMMA WordsFacts ==
  ASSUME NEW n \in 0..Last4
  PROVE  /\ WordsOf(n) \in 0..(Words + 1)
         /\ n < Last4 => WordsOf(n + 1) = WordsOf(n) + (IF Script[n + 1] = Delta THEN 1 ELSE 0)
<1>0. Words \in Nat
  BY ConstantsAssumption
<1>1. WordsOf(n) \in 0..(Words + 1)
  BY <1>0 DEF WordsOf, Last4
<1>2. CASE n = 0
  <2>1. Script[n + 1] # Delta
    BY <1>2, ScriptFacts DEF Start, Delta
  <2> QED
    BY <1>0, <1>1, <1>2, <2>1 DEF WordsOf
<1>3. CASE n \in 1..Words
  <2>1. Script[n + 1] = Delta
    BY <1>0, <1>3, ScriptFacts
  <2> QED
    BY <1>0, <1>1, <1>3, <2>1 DEF WordsOf
<1>4. CASE n \in {Words + 1, Words + 2}
  <2>1. Script[n + 1] # Delta
    <3>1. Script[n + 1] \in {CallEvent, ResultEvent}
      BY <1>0, <1>4, ScriptFacts DEF CallEvent, ResultEvent
    <3>2. Script[n + 1].type # Delta.type
      BY <3>1, DemoToolFacts DEF Delta
    <3> QED
      BY <3>2
  <2> QED
    BY <1>0, <1>1, <1>4, <2>1 DEF WordsOf
<1>5. CASE n = Words + 3
  <2>1. Script[n + 1] = Delta
    BY <1>0, <1>5, ScriptFacts
  <2> QED
    BY <1>0, <1>1, <1>5, <2>1 DEF WordsOf
<1> QED
  BY <1>0, <1>1, <1>2, <1>3, <1>4, <1>5 DEF Last4

(* What a listener knows after n events of the script, and then one more.  *)
LEMMA HearScript ==
  ASSUME NEW n \in 0..(Last4 - 1),
         text = WordsOf(n), cards = DemoCards(n), applied \in Seq(ToolEvents),
         Len(applied) = DemoApplied(n),
         HearText(Script[n + 1]) \/ HearTool(Script[n + 1]) \/ HearDone(Script[n + 1])
  PROVE  /\ text' = WordsOf(n + 1) /\ cards' = DemoCards(n + 1) /\ Len(applied') = DemoApplied(n + 1)
         /\ UNCHANGED <<gotDone, cancelled>>
<1>0. Words \in Nat
  BY ConstantsAssumption
<1>1. n \in 0..Last4 /\ n < Last4
  BY <1>0 DEF Last4
<1>2. WordsOf(n) \in Nat /\ WordsOf(n + 1) = WordsOf(n) + (IF Script[n + 1] = Delta THEN 1 ELSE 0)
  BY <1>0, <1>1, WordsFacts
<1>3. CASE n \in 0..Words \/ n = Words + 3
  <2>1. Script[n + 1] \in {Start, Delta}
    BY <1>0, <1>3, ScriptFacts
  <2>2. Script[n + 1].type \in {"assistant_start", "assistant_delta"}
    BY <2>1 DEF Start, Delta
  <2>3. HearText(Script[n + 1])
    BY <2>2 DEF HearTool, HearDone
  <2>4. text' = WordsOf(n + 1) /\ UNCHANGED <<cards, gotDone, cancelled, applied>>
    BY <2>3, <1>2 DEF HearText
  <2>5. DemoCards(n + 1) = DemoCards(n) /\ DemoApplied(n + 1) = DemoApplied(n)
    BY <1>0, <1>3 DEF DemoCards, DemoApplied
  <2> QED
    BY <2>4, <2>5
<1>4. CASE n = Words + 1
  <2>1. Script[n + 1] = CallEvent
    BY <1>0, <1>4, ScriptFacts DEF CallEvent
  <2>2. HearTool(CallEvent)
    BY <2>1, DemoToolFacts DEF HearText, HearDone
  <2>3. cards = <<>> /\ Len(applied) = 0
    BY <1>0, <1>4 DEF DemoCards, DemoApplied
  <2>4. Len(applied') = 1 /\ cards' = Apply(<<>>, CallEvent, 1)
    BY <2>2, <2>3, DemoToolFacts, AppendFacts DEF HearTool
  <2>5. DemoCards(n + 1) = <<CardOf(0, "running")>> /\ DemoApplied(n + 1) = 1
    BY <1>0, <1>4 DEF DemoCards, DemoApplied
  <2>6. Script[n + 1] # Delta
    BY <2>1, DemoToolFacts DEF Delta
  <2> QED
    BY <2>2, <2>4, <2>5, <2>6, <1>2, DemoCall DEF HearTool
<1>5. CASE n = Words + 2
  <2>1. Script[n + 1] = ResultEvent
    BY <1>0, <1>5, ScriptFacts DEF ResultEvent
  <2>2. HearTool(ResultEvent)
    BY <2>1, DemoToolFacts DEF HearText, HearDone
  <2>3. cards = <<CardOf(0, "running")>> /\ Len(applied) = 1
    BY <1>0, <1>5 DEF DemoCards, DemoApplied
  <2>4. Len(applied') = 2 /\ cards' = Apply(<<CardOf(0, "running")>>, ResultEvent, 2)
    <3>1. applied' = Append(applied, ResultEvent) /\ cards' = Apply(cards, ResultEvent, Len(applied'))
      BY <2>2 DEF HearTool
    <3>2. Len(Append(applied, ResultEvent)) = 2
      <4>1. applied \in Seq(ToolEvents) /\ ResultEvent \in ToolEvents
        BY DemoToolFacts
      <4>2. Len(Append(applied, ResultEvent)) = Len(applied) + 1
        BY <4>1
      <4> QED
        BY <4>2, <2>3
    <3>3. Len(applied') = 2
      BY <3>1, <3>2
    <3> QED
      BY <2>3, <3>1, <3>3
  <2>5. DemoCards(n + 1) = <<CardOf(2, "done")>> /\ DemoApplied(n + 1) = 2
    BY <1>0, <1>5 DEF DemoCards, DemoApplied
  <2>6. Script[n + 1] # Delta
    BY <2>1, DemoToolFacts DEF Delta
  <2> QED
    BY <2>2, <2>4, <2>5, <2>6, <1>2, DemoResult DEF HearTool
<1> QED
  BY <1>0, <1>1, <1>3, <1>4, <1>5 DEF Last4
(* DemoAgent has sent the first k events of its script, and maybe an end   *)
(* that fits them; what is not in the channel any more has been heard.     *)
Heard == Len(sent) - Len(chan)
Least(m, n) == IF m <= n THEN m ELSE n
Said(k) ==
  /\ Len(sent) \in {k, k + 1}
  /\ Len(sent) = k + 1 => at = Over
  /\ at < Over => Len(sent) = k /\ at = k + 1
  /\ partial = WordsOf(k)
InChannel(k) ==
  /\ Len(chan) <= Len(sent)
  /\ \A j \in 1..Len(chan) :
       IF Heard + j <= k THEN chan[j] = Script[Heard + j]
       ELSE \E stopped \in BOOLEAN : chan[j] = Done(WordsOf(k), stopped) /\ (stopped \/ k = Last4)
Known(k) ==
  /\ gotDone <=> Heard = k + 1
  /\ text = WordsOf(Least(Heard, k))
  /\ cards = DemoCards(Least(Heard, k)) /\ Len(applied) = DemoApplied(Least(Heard, k))
  /\ gotDone /\ ~ cancelled => k = Last4
DemoInv ==
  adapter = "demo" =>
    /\ partial = Cardinality(Deltas)
    /\ \E k \in 0..Last4 : Said(k) /\ InChannel(k) /\ Known(k)

LEMMA CountDeltas ==
  ASSUME NEW type \in EventTypes, sent \in Seq(EventTypes), sent' = Append(sent, type)
  PROVE  /\ Cardinality(Deltas) \in Nat
         /\ Cardinality(Deltas') = Cardinality(Deltas) + (IF type = "assistant_delta" THEN 1 ELSE 0)
<1>1. /\ DOMAIN sent' = 1..(Len(sent) + 1) /\ DOMAIN sent = 1..Len(sent) /\ Len(sent) \in Nat
      /\ sent'[Len(sent) + 1] = type /\ \A i \in 1..Len(sent) : sent'[i] = sent[i]
  BY AppendFacts
<1>2. IsFiniteSet(Deltas) /\ Len(sent) + 1 \notin Deltas
  <2>1. Deltas \subseteq 1..Len(sent) /\ IsFiniteSet(1..Len(sent))
    BY <1>1, FS_Interval DEF Deltas
  <2>2. IsFiniteSet(Deltas)
    BY <2>1, FS_Subset
  <2>3. Len(sent) + 1 \notin 1..Len(sent)
    BY <1>1
  <2> QED
    BY <2>1, <2>2, <2>3
<1>3. CASE type = "assistant_delta"
  <2>1. Deltas' = Deltas \cup {Len(sent) + 1}
    BY <1>1, <1>3 DEF Deltas
  <2> QED
    BY <2>1, <1>2, <1>3, FS_AddElement, FS_CardinalityType
<1>4. CASE type # "assistant_delta"
  <2>1. Deltas' = Deltas
    BY <1>1, <1>4 DEF Deltas
  <2> QED
    BY <2>1, <1>2, <1>4, FS_CardinalityType
<1> QED
  BY <1>3, <1>4

(* An event is sent: it comes behind the others, and nothing else is heard. *)
LEMMA DemoSent ==
  ASSUME ShapeInv, NEW e \in Events, Send(e), NEW k \in 0..Last4, InChannel(k), UNCHANGED loopVars
  PROVE  /\ Heard' = Heard /\ Heard \in 0..Len(sent) /\ Len(chan') <= Len(sent')
         /\ Len(sent') = Len(sent) + 1 /\ Len(sent) \in Nat
         /\ \A j \in 1..Len(chan') :
              \/ j \in 1..Len(chan) /\ chan'[j] = chan[j] /\ Heard + j <= Len(sent)
              \/ chan'[j] = e /\ Heard + j = Len(sent) + 1
<1>1. chan \in Seq(Events) /\ sent \in Seq(EventTypes) /\ ChannelShape
  BY DEF ShapeInv, ChannelShape
<1>2. /\ Len(chan') = Len(chan) + 1 /\ chan'[Len(chan) + 1] = e
      /\ \A j \in 1..Len(chan) : chan'[j] = chan[j]
      /\ Len(sent') = Len(sent) + 1
  BY <1>1, SendFacts
<1>3. Len(chan) \in Nat /\ Len(sent) \in Nat /\ Len(chan) <= Len(sent)
  BY <1>1 DEF InChannel
<1> QED
  BY <1>2, <1>3 DEF Heard

LEMMA DemoSendStep ==
  ASSUME ShapeInv, DemoInv, DemoSend
  PROVE  DemoInv'
<1>1. /\ adapter = "demo" /\ adapter' = "demo" /\ at < Over /\ at' = at + 1 /\ Send(Script[at])
      /\ partial' = (IF Script[at] = Delta THEN partial + 1 ELSE partial)
      /\ UNCHANGED loopVars /\ UNCHANGED <<gotDone, text, cards, applied, cancelled>>
  BY DEF DemoSend, loopVars
<1>2. PICK k \in 0..Last4 : Said(k) /\ InChannel(k) /\ Known(k)
  BY <1>1 DEF DemoInv
<1>3. Words \in Nat /\ Over = Words + 6 /\ Last4 = Words + 4 /\ Len(sent) = k /\ at = k + 1
  BY <1>1, <1>2, ConstantsAssumption, ScriptFacts DEF Said, Last4
<1>4. at \in 1..(Over - 1) /\ Script[at] \in Events
  BY <1>1, <1>3, ScriptEvents
<1>5. partial' = Cardinality(Deltas')
  <2>1. sent \in Seq(EventTypes) /\ sent' = Append(sent, Script[at].type) /\ Script[at].type \in EventTypes
    BY <1>1, <1>4, EventFacts DEF ShapeInv, ChannelShape, Send
  <2>2. Script[at].type = "assistant_delta" <=> Script[at] = Delta
    <3>1. Script[at].type = "assistant_delta" => Script[at] \in {Start, Delta}
      BY <1>4, EventFacts
    <3>2. Start.type # "assistant_delta" /\ Delta.type = "assistant_delta"
      BY DEF Start, Delta
    <3> QED
      BY <3>1, <3>2
  <2>3. /\ Cardinality(Deltas) \in Nat /\ partial = Cardinality(Deltas)
        /\ Cardinality(Deltas') = Cardinality(Deltas)
                                    + (IF Script[at].type = "assistant_delta" THEN 1 ELSE 0)
    BY <2>1, <1>1, CountDeltas DEF DemoInv
  <2> QED
    BY <2>2, <2>3, <1>1
<1>6. /\ Heard' = Heard /\ Heard \in 0..Len(sent) /\ Len(chan') <= Len(sent')
      /\ Len(sent') = Len(sent) + 1 /\ Len(sent) \in Nat
      /\ \A j \in 1..Len(chan') :
           \/ j \in 1..Len(chan) /\ chan'[j] = chan[j] /\ Heard + j <= Len(sent)
           \/ chan'[j] = Script[at] /\ Heard + j = Len(sent) + 1
  BY <1>1, <1>2, <1>4, DemoSent
<1>7. \A j \in 1..Len(chan) : Heard + j <= k => chan[j] = Script[Heard + j]
  BY <1>2 DEF InChannel
<1>8. /\ ~ gotDone /\ text = WordsOf(Heard) /\ cards = DemoCards(Heard)
      /\ Len(applied) = DemoApplied(Heard) /\ partial = WordsOf(k)
  BY <1>2, <1>3, <1>6 DEF Known, Said, Least
<1>9. CASE k < Last4
  <2>1. WordsOf(k + 1) = WordsOf(k) + (IF Script[k + 1] = Delta THEN 1 ELSE 0) /\ WordsOf(k) \in Nat
    BY <1>3, <1>9, WordsFacts
  <2>2. partial' = WordsOf(k + 1)
    BY <2>1, <1>1, <1>3, <1>8
  <2>3. Said(k + 1)'
    BY <2>2, <1>1, <1>3, <1>6, <1>9 DEF Said
  <2>4. InChannel(k + 1)'
    BY <1>3, <1>6, <1>7 DEF InChannel
  <2>5. Known(k + 1)'
    BY <1>1, <1>3, <1>6, <1>8 DEF Known, Least
  <2>6. k + 1 \in 0..Last4
    BY <1>3, <1>9
  <2> QED
    BY <2>3, <2>4, <2>5, <2>6, <1>5 DEF DemoInv
<1>10. CASE k = Last4
  <2>1. Script[at] = Done(Words + 1, FALSE) /\ WordsOf(k) = Words + 1
    <3>1. at = Words + 5 /\ WordsOf(Words + 4) = Words + 1
      BY <1>3, <1>10 DEF WordsOf
    <3>2. Script[Words + 5] = Done(Words + 1, FALSE)
      BY ScriptFacts
    <3> QED
      BY <3>1, <3>2, <1>3, <1>10
  <2>2. partial' = partial
    <3>1. Script[at] # Delta
      BY <2>1 DEF Done, Delta
    <3> QED
      BY <3>1, <1>1
  <2>3. Said(k)'
    BY <2>2, <1>1, <1>3, <1>6, <1>8, <1>10 DEF Said
  <2>4. InChannel(k)'
    <3>1. \E stopped \in BOOLEAN :
            Script[at] = Done(WordsOf(k), stopped) /\ (stopped \/ k = Last4)
      BY <2>1, <1>10
    <3> QED
      BY <3>1, <1>3, <1>6, <1>7 DEF InChannel
  <2>5. Known(k)'
    BY <1>1, <1>3, <1>6, <1>8 DEF Known, Least
  <2> QED
    BY <2>3, <2>4, <2>5, <1>5 DEF DemoInv
<1> QED
  BY <1>3, <1>9, <1>10
LEMMA DemoStopsStep ==
  ASSUME ShapeInv, DemoInv, DemoStops
  PROVE  DemoInv'
<1>1. /\ adapter = "demo" /\ at < Over /\ at' = Over /\ UNCHANGED <<adapter, partial>>
      /\ UNCHANGED loopVars /\ UNCHANGED <<gotDone, text, cards, applied, cancelled>>
  BY DEF DemoStops, loopVars
<1>2. PICK k \in 0..Last4 : Said(k) /\ InChannel(k) /\ Known(k)
  BY <1>1 DEF DemoInv
<1>3. Words \in Nat /\ Over = Words + 6 /\ Len(sent) = k /\ partial = WordsOf(k) /\ WordsOf(k) \in Nat
  BY <1>1, <1>2, ConstantsAssumption, ScriptFacts, WordsFacts DEF Said
<1>4. partial = Cardinality(Deltas)
  BY <1>1 DEF DemoInv
<1>5. CASE UNCHANGED <<chan, sent>>
  <2>1. Said(k)'
    BY <1>1, <1>3, <1>5 DEF Said
  <2>2. Heard' = Heard
    BY <1>5 DEF Heard
  <2>3. InChannel(k)'
    BY <1>2, <1>5, <2>2 DEF InChannel
  <2>4. Known(k)'
    BY <1>1, <1>2, <2>2 DEF Known
  <2>5. partial' = Cardinality(Deltas')
    BY <1>1, <1>4, <1>5 DEF Deltas
  <2> QED
    BY <2>1, <2>3, <2>4, <2>5 DEF DemoInv
<1>6. CASE Send(Done(partial, TRUE))
  <2>1. TRUE \in BOOLEAN /\ partial \in Nat
    BY <1>3
  <2>2. Done(partial, TRUE) \in Events
    BY <2>1, DoneEvents, Zenon
  <2>3. Done(partial, TRUE).type = "assistant_done"
    BY DEF Done
  <2>4. partial' = Cardinality(Deltas')
    <3>1. sent \in Seq(EventTypes) /\ sent' = Append(sent, "assistant_done") /\ "assistant_done" \in EventTypes
      BY <1>6, <2>3 DEF ShapeInv, ChannelShape, Send, EventTypes
    <3>2. Cardinality(Deltas) \in Nat /\ Cardinality(Deltas') = Cardinality(Deltas) + 0
      BY <3>1, CountDeltas
    <3> QED
      BY <3>2, <1>1, <1>4
  <2>5. /\ Heard' = Heard /\ Heard \in 0..Len(sent) /\ Len(chan') <= Len(sent')
        /\ Len(sent') = Len(sent) + 1 /\ Len(sent) \in Nat
        /\ \A j \in 1..Len(chan') :
             \/ j \in 1..Len(chan) /\ chan'[j] = chan[j] /\ Heard + j <= Len(sent)
             \/ chan'[j] = Done(partial, TRUE) /\ Heard + j = Len(sent) + 1
    BY <1>1, <1>2, <1>6, <2>2, DemoSent
  <2>6. Said(k)'
    BY <1>1, <1>3, <2>5 DEF Said
  <2>7. InChannel(k)'
    <3>1. \E stopped \in BOOLEAN : Done(partial, TRUE) = Done(WordsOf(k), stopped) /\ (stopped \/ k = Last4)
      BY <1>3
    <3>2. \A j \in 1..Len(chan) : Heard + j <= k => chan[j] = Script[Heard + j]
      BY <1>2 DEF InChannel
    <3> DEFINE Fits(j) ==
          IF Heard + j <= k THEN chan'[j] = Script[Heard + j]
          ELSE \E stopped \in BOOLEAN :
                 chan'[j] = Done(WordsOf(k), stopped) /\ (stopped \/ k = Last4)
    <3>3. ASSUME NEW j \in 1..Len(chan')
          PROVE  Fits(j)
      <4>1. CASE j \in 1..Len(chan) /\ chan'[j] = chan[j] /\ Heard + j <= Len(sent)
        BY <4>1, <3>2, <1>3
      <4>2. CASE chan'[j] = Done(partial, TRUE) /\ Heard + j = Len(sent) + 1
        <5>1. ~ (Heard + j <= k)
          BY <4>2, <1>3
        <5> QED
          BY <5>1, <4>2, <3>1
      <4> QED
        BY <4>1, <4>2, <2>5
    <3> QED
      BY <3>3, <2>5 DEF InChannel
  <2>8. Known(k)'
    BY <1>1, <1>2, <1>3, <2>5 DEF Known
  <2> QED
    BY <2>4, <2>6, <2>7, <2>8 DEF DemoInv
<1> QED
  BY <1>5, <1>6 DEF DemoStops

LEMMA DemoHearStep ==
  ASSUME ShapeInv, DemoInv, Hear
  PROVE  DemoInv'
<1> SUFFICES ASSUME adapter = "demo"
             PROVE  DemoInv'
  BY DEF DemoInv, Hear
<1>1. PICK k \in 0..Last4 : Said(k) /\ InChannel(k) /\ Known(k)
  BY DEF DemoInv
<1>2. /\ chan # <<>> /\ chan' = Tail(chan) /\ UNCHANGED <<adapter, at, partial, open, sent>>
      /\ HearText(Head(chan)) \/ HearTool(Head(chan)) \/ HearDone(Head(chan))
  BY DEF Hear, demoVars
<1>3. chan \in Seq(Events) /\ sent \in Seq(EventTypes) /\ applied \in Seq(ToolEvents)
  BY DEF ShapeInv, ChannelShape, LoopShape
<1>4. /\ Head(chan) = chan[1] /\ Len(chan) \in Nat \ {0} /\ Len(chan') = Len(chan) - 1
      /\ \A j \in 1..Len(chan') : chan'[j] = chan[j + 1]
  BY <1>2, <1>3, TailFacts
<1>5. Len(sent) \in Nat /\ Len(chan) <= Len(sent) /\ Len(sent) \in {k, k + 1}
  BY <1>1, <1>3 DEF InChannel, Said
<1>6. Heard' = Heard + 1 /\ Heard \in 0..k /\ Heard' <= Len(sent)
  BY <1>2, <1>4, <1>5 DEF Heard
<1>7. Said(k)' /\ partial' = Cardinality(Deltas')
  BY <1>1, <1>2 DEF Said, DemoInv, Deltas
<1>8. InChannel(k)'
  <2>1. \A j \in 1..Len(chan') : j + 1 \in 1..Len(chan) /\ Heard' + j = Heard + (j + 1) /\ chan'[j] = chan[j + 1]
    <3> TAKE j \in 1..Len(chan')
    <3>1. j + 1 \in 1..Len(chan) /\ chan'[j] = chan[j + 1]
      BY <1>4
    <3>2. Heard' + j = Heard + (j + 1)
      <4>1. Heard \in Int /\ j \in Int
        BY <1>4, <1>6
      <4> QED
        BY <4>1, <1>6
    <3> QED
      BY <3>1, <3>2
  <2>2. ASSUME NEW j \in 1..Len(chan')
        PROVE  IF Heard' + j <= k THEN chan'[j] = Script[Heard' + j]
               ELSE \E stopped \in BOOLEAN :
                      chan'[j] = Done(WordsOf(k), stopped) /\ (stopped \/ k = Last4)
    <3> DEFINE i == j + 1
    <3>1. i \in 1..Len(chan) /\ Heard' + j = Heard + i /\ chan'[j] = chan[i]
      BY <2>1
    <3> HIDE DEF i
    <3>2. IF Heard + i <= k THEN chan[i] = Script[Heard + i]
          ELSE \E stopped \in BOOLEAN :
                 chan[i] = Done(WordsOf(k), stopped) /\ (stopped \/ k = Last4)
      BY <3>1, <1>1 DEF InChannel
    <3> QED
      BY <3>1, <3>2
  <2>3. Len(chan') <= Len(sent')
    BY <1>2, <1>4, <1>5
  <2> QED
    BY <2>2, <2>3 DEF InChannel
<1>9. ~ gotDone /\ text = WordsOf(Heard) /\ cards = DemoCards(Heard) /\ Len(applied) = DemoApplied(Heard)
  BY <1>1, <1>6 DEF Known, Least
<1>10. IF Heard + 1 <= k THEN chan[1] = Script[Heard + 1]
       ELSE \E stopped \in BOOLEAN : chan[1] = Done(WordsOf(k), stopped) /\ (stopped \/ k = Last4)
  BY <1>1, <1>4 DEF InChannel
<1>11. Known(k)'
  <2>1. CASE Heard < k
    <3>1. Last4 \in Nat /\ k <= Last4 /\ Heard \in 0..(Last4 - 1)
      BY <2>1, <1>6, ConstantsAssumption DEF Last4
    <3>2. HearText(Script[Heard + 1]) \/ HearTool(Script[Heard + 1]) \/ HearDone(Script[Heard + 1])
      BY <2>1, <1>2, <1>4, <1>6, <1>10
    <3>3. ASSUME NEW n, n = Heard
          PROVE  /\ text' = WordsOf(n + 1) /\ cards' = DemoCards(n + 1)
                 /\ Len(applied') = DemoApplied(n + 1) /\ UNCHANGED <<gotDone, cancelled>>
      BY <3>1, <3>2, <3>3, <1>3, <1>9, HearScript
    <3>4. Least(Heard', k) = Heard + 1 /\ Heard' # k + 1
      BY <2>1, <1>6 DEF Least
    <3>5. /\ text' = WordsOf(Heard + 1) /\ cards' = DemoCards(Heard + 1)
          /\ Len(applied') = DemoApplied(Heard + 1) /\ UNCHANGED <<gotDone, cancelled>>
      BY <3>3
    <3> QED
      BY <3>4, <3>5, <1>6, <1>9 DEF Known
  <2>2. CASE Heard = k
    <3>1. PICK stopped \in BOOLEAN : chan[1] = Done(WordsOf(k), stopped) /\ (stopped \/ k = Last4)
      BY <2>2, <1>6, <1>10
    <3>2. /\ Head(chan).type = "assistant_done" /\ Head(chan).content = WordsOf(k)
          /\ Head(chan).cancelled = stopped
      BY <3>1, <1>4 DEF Done
    <3>3. HearDone(Head(chan))
      BY <3>2, <1>2 DEF HearText, HearTool
    <3>4. /\ text' = WordsOf(k) /\ gotDone' /\ cancelled' = (cancelled \/ stopped)
          /\ UNCHANGED <<cards, applied>>
      BY <3>2, <3>3, <1>9, <2>2 DEF HearDone
    <3>5. Least(Heard', k) = k /\ Heard' = k + 1
      BY <2>2, <1>6 DEF Least
    <3> QED
      BY <3>1, <3>4, <3>5, <1>9, <2>2 DEF Known
  <2> QED
    BY <1>6, <2>1, <2>2
<1> QED
  BY <1>7, <1>8, <1>11 DEF DemoInv

LEMMA NextDemo == ShapeInv /\ DemoInv /\ [Next]_vars => DemoInv'
<1> SUFFICES ASSUME ShapeInv, DemoInv, [Next]_vars
             PROVE  DemoInv'
  OBVIOUS
<1>1. CASE DemoSend
  BY <1>1, DemoSendStep
<1>2. CASE DemoStops
  BY <1>2, DemoStopsStep
<1>3. CASE Hear
  BY <1>3, DemoHearStep
<1>4. CASE OtherSends \/ OtherEnds
  BY <1>4 DEF OtherSends, OtherEnds, DemoInv
(* Nothing is sent or heard. *)
<1>k. ASSUME UNCHANGED <<adapter, at, partial, chan, sent, text, cards, gotDone, applied>>,
             cancelled' = cancelled \/ cancelled' = (cancelled \/ ~ gotDone)
      PROVE  DemoInv'
  <2> SUFFICES ASSUME adapter = "demo"
               PROVE  DemoInv'
    BY <1>k DEF DemoInv
  <2>1. PICK k \in 0..Last4 : Said(k) /\ InChannel(k) /\ Known(k)
    BY DEF DemoInv
  <2>2. Said(k)' /\ InChannel(k)' /\ Known(k)'
    BY <2>1, <1>k DEF Said, InChannel, Known, Heard
  <2>3. partial' = Cardinality(Deltas')
    BY <1>k DEF DemoInv, Deltas
  <2> QED
    BY <2>2, <2>3 DEF DemoInv
<1>5. CASE DemoPause \/ DemoReturns \/ Stop \/ UNCHANGED vars
  <2>1. UNCHANGED <<adapter, at, partial, chan, sent, text, cards, gotDone, applied, cancelled>>
    BY <1>5 DEF DemoPause, DemoReturns, Stop, vars, demoVars, chanVars, loopVars
  <2> QED
    BY <2>1, <1>k
<1>6. CASE Save
  BY <1>6, <1>k DEF Save, demoVars, chanVars
<1> QED
  BY <1>1, <1>2, <1>3, <1>4, <1>5, <1>6 DEF Next, Demo, Loop

LEMMA InitDemo == Init => DemoInv
<1> SUFFICES ASSUME Init
             PROVE  DemoInv
  OBVIOUS
<1>1. Words \in Nat
  BY ConstantsAssumption
<1>2. chan = <<>> /\ sent = <<>> /\ Len(chan) = 0 /\ Len(sent) = 0 /\ Heard = 0
  BY DEF Init, Heard
<1>3. WordsOf(0) = 0 /\ DemoCards(0) = <<>> /\ DemoApplied(0) = 0 /\ Least(0, 0) = 0
  BY <1>1 DEF WordsOf, DemoCards, DemoApplied, Least
<1>4. Cardinality(Deltas) = 0
  <2>1. Deltas = {}
    BY <1>2 DEF Deltas
  <2> QED
    BY <2>1, FS_EmptySet
<1>5. Said(0)
  BY <1>2, <1>3 DEF Init, Said
<1>6. InChannel(0)
  BY <1>2 DEF InChannel
<1>7. Known(0)
  BY <1>2, <1>3 DEF Init, Known
<1>8. 0 \in 0..Last4
  BY <1>1 DEF Last4
<1> QED
  BY <1>4, <1>5, <1>6, <1>7, <1>8 DEF DemoInv, Init

(* A demo reply is saved with the words that were sent, no more and no     *)
(* less, and is whole with its card done unless it is marked as cancelled  *)
(* (DemoAgent.StreamReply, runChat).                                       *)
THEOREM SavedAsSaid == Spec => []SavedIsSaid
<1>1. ShapeInv /\ DemoInv => SavedIsSaid
  <2> SUFFICES ASSUME ShapeInv, DemoInv, adapter = "demo", saved # None
               PROVE  /\ saved.text = Cardinality(Deltas)
                      /\ ~ saved.cancelled =>
                           /\ saved.text = Words + 1
                           /\ [i \in DOMAIN saved.tools |-> saved.tools[i].status] = <<"done">>
    BY DEF SavedIsSaid
  <2>1. chan = <<>> /\ saved = Collected /\ (gotDone \/ cancelled) /\ sent \in Seq(EventTypes)
    BY DEF ShapeInv, SavedLast, ChannelShape
  <2>2. PICK k \in 0..Last4 : Said(k) /\ InChannel(k) /\ Known(k)
    BY DEF DemoInv
  <2>3. Least(Heard, k) = k
    BY <2>1, <2>2 DEF Heard, Said, Least
  <2>4. saved.text = text /\ saved.tools = cards /\ saved.cancelled = cancelled
    BY <2>1 DEF Collected
  <2>5. saved.text = WordsOf(k) /\ WordsOf(k) = Cardinality(Deltas)
    BY <2>2, <2>3, <2>4 DEF Known, Said, DemoInv
  <2>6. ASSUME ~ saved.cancelled
        PROVE  WordsOf(k) = Words + 1 /\ saved.tools = <<CardOf(2, "done")>>
    <3>1. k = Words + 4 /\ cards = DemoCards(k)
      BY <2>1, <2>2, <2>3, <2>4, <2>6 DEF Known, Last4
    <3> QED
      BY <3>1, <2>4, ConstantsAssumption DEF WordsOf, DemoCards
  <2>7. [i \in DOMAIN <<CardOf(2, "done")>> |-> <<CardOf(2, "done")>>[i].status] = <<"done">>
    <3>1. CardOf(2, "done").status = "done"
      BY DEF CardOf
    <3> QED
      BY <3>1
  <2> QED
    BY <2>5, <2>6, <2>7
<1> QED
  BY <1>1, InitShape, NextShape, InitDemo, NextDemo, PTL DEF Spec
------------------------------------------------------------------------------
(***************************************************************************)
(* The cards are those of the events that made them.                       *)
(***************************************************************************)
CardsApart == \A i, j \in DOMAIN cards : cards[i].id = cards[j].id /\ cards[i].id # None => i = j
IsLast(n, rs) == IF rs = {} THEN n = 0 ELSE n \in rs /\ \A m \in rs : m <= n
CardIds == {cards[i].id : i \in DOMAIN cards}
Ordered ==
  InOrder => /\ CardIds = AppliedIds
             /\ \A i \in DOMAIN cards : IsLast(cards[i].result, ResultsOf(cards[i].id))
CardInv == CardsApart /\ Ordered /\ NoResultOverwritten

(* What an event of a tool does to the cards: it makes one, or it changes  *)
(* one that it names, or one that has no result yet.                       *)
Made(e, n) ==
  /\ e.id = None \/ e.id \notin CardIds
  /\ Len(cards') = Len(cards) + 1 /\ DOMAIN cards' = DOMAIN cards \cup {Len(cards) + 1}
  /\ Len(cards) + 1 \notin DOMAIN cards
  /\ cards'[Len(cards) + 1].id = e.id
  /\ cards'[Len(cards) + 1].result = (IF e.result THEN n ELSE 0)
  /\ \A j \in DOMAIN cards : cards'[j] = cards[j]
Changed(e, n, i) ==
  /\ i \in DOMAIN cards
  /\ \/ e.id # None /\ cards[i].id = e.id
     \/ cards[i].result = 0 /\ (e.id = None \/ (Kind(e) = "tool_result" /\ e.id \notin CardIds))
  /\ Len(cards') = Len(cards) /\ DOMAIN cards' = DOMAIN cards
  /\ cards'[i].id = (IF e.id = None THEN cards[i].id ELSE e.id)
  /\ cards'[i].result = (IF e.result THEN n ELSE cards[i].result)
  /\ \A j \in DOMAIN cards : j # i => cards'[j] = cards[j]
NowApplied(e, n) ==
  /\ e \in ToolEvents /\ n = Len(applied) + 1 /\ n \in Nat \ {0} /\ n \notin DOMAIN applied
  /\ DOMAIN applied = 1..(n - 1) /\ DOMAIN applied' = 1..n
  /\ applied'[n] = e /\ \A j \in DOMAIN applied : applied'[j] = applied[j]

LEMMA ToolStep ==
  ASSUME LoopShape, NEW e \in ToolEvents, HearTool(e), NEW n, n = Len(applied')
  PROVE  NowApplied(e, n) /\ (Made(e, n) \/ \E i \in DOMAIN cards : Changed(e, n, i))
<1> DEFINE i == Find(cards, e)
<1>1. applied \in Seq(ToolEvents) /\ cards \in Seq(Rows)
  BY DEF LoopShape
<1>2. applied' = Append(applied, e) /\ cards' = Apply(cards, e, n)
  BY DEF HearTool
<1>3. NowApplied(e, n)
  <2>1. /\ Len(applied') = Len(applied) + 1 /\ DOMAIN applied = 1..Len(applied)
        /\ DOMAIN applied' = 1..(Len(applied) + 1) /\ applied'[Len(applied) + 1] = e
        /\ \A j \in 1..Len(applied) : applied'[j] = applied[j]
    BY <1>1, <1>2, AppendFacts
  <2>2. Len(applied) \in Nat
    BY <1>1
  <2> QED
    BY <2>1, <2>2 DEF NowApplied
<1>4. n \in Nat
  BY <1>3 DEF NowApplied
<1>5. CASE i = 0
  <2>1. cards' = Append(cards, NewCard(e, n))
    BY <1>1, <1>2, <1>4, <1>5, ApplyFacts
  <2>2. /\ NewCard(e, n) \in Rows /\ NewCard(e, n).id = e.id
        /\ NewCard(e, n).result = (IF e.result THEN n ELSE 0)
    BY <1>4, NewCardFacts, Zenon
  <2>3. /\ Len(cards') = Len(cards) + 1 /\ DOMAIN cards = 1..Len(cards)
        /\ DOMAIN cards' = 1..(Len(cards) + 1) /\ cards'[Len(cards) + 1] = NewCard(e, n)
        /\ \A j \in 1..Len(cards) : cards'[j] = cards[j]
    BY <1>1, <2>1, <2>2, AppendFacts
  <2>4. e.id = None \/ \A j \in DOMAIN cards : cards[j].id # e.id
    BY <1>1, <1>5, FindFacts
  <2>5. Len(cards) \in Nat
    BY <1>1
  <2>6. DOMAIN cards' = DOMAIN cards \cup {Len(cards) + 1} /\ Len(cards) + 1 \notin DOMAIN cards
    BY <2>3, <2>5
  <2>7. Made(e, n)
    BY <2>2, <2>3, <2>4, <2>6 DEF Made, CardIds
  <2> QED
    BY <1>3, <2>7
<1>6. CASE i # 0
  <2>1. /\ i \in DOMAIN cards
        /\ \/ e.id # None /\ cards[i].id = e.id
           \/ /\ Open(cards[i])
              /\ \/ e.id = None
                 \/ Kind(e) = "tool_result" /\ \A j \in DOMAIN cards : cards[j].id # e.id
    <3>1. cards \in Seq(Rows) /\ Find(cards, e) # 0
      BY <1>1, <1>6
    <3>2. /\ Find(cards, e) \in DOMAIN cards
          /\ \/ e.id # None /\ cards[Find(cards, e)].id = e.id
             \/ /\ Open(cards[Find(cards, e)])
                /\ \/ e.id = None
                   \/ Kind(e) = "tool_result" /\ \A j \in DOMAIN cards : cards[j].id # e.id
      BY <3>1, FindFacts, Zenon
    <3> QED
      BY <3>2
  <2>2. cards' = [cards EXCEPT ![i] = Update(cards[i], e, n)]
    <3>1. Apply(cards, e, n) = [cards EXCEPT ![Find(cards, e)] = Update(cards[Find(cards, e)], e, n)]
      BY <1>1, <1>4, <1>6, ApplyFacts, Zenon
    <3> QED
      BY <3>1, <1>2
  <2> HIDE DEF i
  <2>3. cards[i] \in Rows
    BY <1>1, <2>1
  <2>4. /\ Update(cards[i], e, n).id = (IF e.id = None THEN cards[i].id ELSE e.id)
        /\ Update(cards[i], e, n).result = (IF e.result THEN n ELSE cards[i].result)
        /\ Update(cards[i], e, n) \in Rows
    BY <2>3, <1>4, UpdateFacts, Zenon
  <2>5. /\ DOMAIN cards' = DOMAIN cards /\ cards'[i] = Update(cards[i], e, n)
        /\ \A j \in DOMAIN cards : j # i => cards'[j] = cards[j]
    BY <2>1, <2>2
  <2>6. Len(cards') = Len(cards)
    BY <1>1, <2>2, <2>4
  <2>7. Changed(e, n, i)
    BY <2>1, <2>4, <2>5, <2>6 DEF Changed, CardIds, Open
  <2> QED
    BY <1>3, <2>1, <2>7
<1> QED
  BY <1>5, <1>6

LEMMA CardsStayApart ==
  ASSUME CardsApart, NEW e, NEW n, Made(e, n) \/ \E i \in DOMAIN cards : Changed(e, n, i)
  PROVE  CardsApart'
<1> SUFFICES ASSUME NEW j \in DOMAIN cards', NEW m \in DOMAIN cards', cards'[j].id = cards'[m].id,
                    cards'[j].id # None
             PROVE  j = m
  BY DEF CardsApart
<1>1. CASE Made(e, n)
  BY <1>1 DEF Made, CardsApart, CardIds
<1>2. ASSUME NEW i \in DOMAIN cards, Changed(e, n, i)
      PROVE  j = m
  BY <1>2 DEF Changed, CardsApart, CardIds
<1> QED
  BY <1>1, <1>2
(* The events that the last one is added to. *)
NowResultsOf(id) == {i \in DOMAIN applied' : applied'[i].id = id /\ applied'[i].result}

LEMMA AppliedStep ==
  ASSUME NEW e, NEW n, NowApplied(e, n)
  PROVE  /\ AppliedIds' = AppliedIds \cup {e.id}
         /\ \A id : NowResultsOf(id) = ResultsOf(id) \cup (IF e.id = id /\ e.result THEN {n} ELSE {})
         /\ \A id : ResultsOf(id) \subseteq 1..(n - 1)
         /\ \A id : id \notin AppliedIds => ResultsOf(id) = {}
         /\ InOrder' => /\ InOrder /\ e.id # None
                        /\ Kind(e) = "tool_result" => e.id \in AppliedIds
<1> USE DEF NowApplied
<1>1. DOMAIN applied' = DOMAIN applied \cup {n}
  OBVIOUS
<1>2. AppliedIds' = AppliedIds \cup {e.id}
  BY <1>1 DEF AppliedIds
<1>3. \A id : /\ NowResultsOf(id) = ResultsOf(id) \cup (IF e.id = id /\ e.result THEN {n} ELSE {})
              /\ ResultsOf(id) \subseteq 1..(n - 1)
              /\ id \notin AppliedIds => ResultsOf(id) = {}
  BY <1>1 DEF NowResultsOf, ResultsOf, AppliedIds
<1>4. ASSUME InOrder'
      PROVE  InOrder /\ e.id # None /\ (Kind(e) = "tool_result" => e.id \in AppliedIds)
  <2>1. \A i \in DOMAIN applied' :
          /\ applied'[i].id # None
          /\ Kind(applied'[i]) = "tool_result" => \E j \in 1..(i-1) : applied'[j].id = applied'[i].id
    BY <1>4 DEF InOrder
  <2>2. InOrder
    <3> SUFFICES ASSUME NEW i \in DOMAIN applied
                 PROVE  /\ applied[i].id # None
                        /\ Kind(applied[i]) = "tool_result" =>
                             \E j \in 1..(i-1) : applied[j].id = applied[i].id
      BY DEF InOrder
    <3>1. i \in DOMAIN applied' /\ applied'[i] = applied[i] /\ \A j \in 1..(i-1) : applied'[j] = applied[j]
      OBVIOUS
    <3> QED
      BY <2>1, <3>1
  <2>3. e.id # None
    BY <2>1
  <2>4. ASSUME Kind(e) = "tool_result"
        PROVE  e.id \in AppliedIds
    <3>1. PICK j \in 1..(n-1) : applied'[j].id = applied'[n].id
      BY <2>1, <2>4
    <3> QED
      BY <3>1 DEF AppliedIds
  <2> QED
    BY <2>2, <2>3, <2>4
<1> QED
  BY <1>2, <1>3, <1>4

LEMMA CardsStayOrdered ==
  ASSUME CardsApart, Ordered, NEW e, NEW n, NowApplied(e, n),
         Made(e, n) \/ \E i \in DOMAIN cards : Changed(e, n, i)
  PROVE  Ordered'
<1> SUFFICES ASSUME InOrder'
             PROVE  /\ CardIds' = AppliedIds'
                    /\ \A i \in DOMAIN cards' : IsLast(cards'[i].result, NowResultsOf(cards'[i].id))
  BY DEF Ordered, CardIds, ResultsOf, NowResultsOf
<1>1. /\ InOrder /\ e.id # None /\ (Kind(e) = "tool_result" => e.id \in AppliedIds)
      /\ AppliedIds' = AppliedIds \cup {e.id}
  BY AppliedStep
<1>2. /\ \A id : NowResultsOf(id) = ResultsOf(id) \cup (IF e.id = id /\ e.result THEN {n} ELSE {})
      /\ \A id : ResultsOf(id) \subseteq 1..(n - 1)
      /\ \A id : id \notin AppliedIds => ResultsOf(id) = {}
      /\ n \in Nat \ {0}
  BY AppliedStep DEF NowApplied
<1>3. CardIds = AppliedIds /\ \A i \in DOMAIN cards : IsLast(cards[i].result, ResultsOf(cards[i].id))
  BY <1>1 DEF Ordered
<1>4. CASE Made(e, n)
  <2> DEFINE new == Len(cards) + 1
  <2>1. /\ e.id \notin CardIds /\ DOMAIN cards' = DOMAIN cards \cup {new} /\ cards'[new].id = e.id
        /\ cards'[new].result = (IF e.result THEN n ELSE 0)
        /\ \A j \in DOMAIN cards : cards'[j] = cards[j]
    BY <1>1, <1>4 DEF Made
  <2> HIDE DEF new
  <2>2. CardIds' = CardIds \cup {e.id}
    BY <2>1 DEF CardIds
  <2>3. IsLast(cards'[new].result, NowResultsOf(cards'[new].id))
    <3>1. NowResultsOf(e.id) = IF e.result THEN {n} ELSE {}
      BY <1>2, <1>3, <2>1
    <3> QED
      BY <3>1, <2>1, <1>2 DEF IsLast
  <2>4. ASSUME NEW j \in DOMAIN cards
        PROVE  IsLast(cards'[j].result, NowResultsOf(cards'[j].id))
    <3>1. cards'[j] = cards[j] /\ cards[j].id # e.id
      BY <2>1 DEF CardIds
    <3>2. NowResultsOf(cards[j].id) = ResultsOf(cards[j].id)
      BY <3>1, <1>2
    <3> QED
      BY <3>1, <3>2, <1>3
  <2> QED
    BY <2>1, <2>2, <2>3, <2>4, <1>1, <1>3
<1>5. ASSUME NEW i \in DOMAIN cards, Changed(e, n, i)
      PROVE  /\ CardIds' = AppliedIds'
             /\ \A j \in DOMAIN cards' : IsLast(cards'[j].result, NowResultsOf(cards'[j].id))
  <2>1. /\ cards[i].id = e.id /\ DOMAIN cards' = DOMAIN cards /\ cards'[i].id = e.id
        /\ cards'[i].result = (IF e.result THEN n ELSE cards[i].result)
        /\ \A j \in DOMAIN cards : j # i => cards'[j] = cards[j]
    BY <1>1, <1>3, <1>5 DEF Changed
  <2>2. CardIds' = CardIds /\ e.id \in CardIds
    BY <2>1 DEF CardIds
  <2>3. IsLast(cards'[i].result, NowResultsOf(cards'[i].id))
    <3>1. IsLast(cards[i].result, ResultsOf(e.id))
      BY <2>1, <1>3
    <3>2. CASE e.result
      <4>1. cards'[i].result = n /\ NowResultsOf(e.id) = ResultsOf(e.id) \cup {n}
        BY <3>2, <2>1, <1>2
      <4>2. \A m \in ResultsOf(e.id) : m <= n
        BY <1>2
      <4>3. IsLast(n, ResultsOf(e.id) \cup {n})
        BY <4>2, <1>2 DEF IsLast
      <4> QED
        BY <4>1, <4>3, <2>1
    <3>3. CASE ~ e.result
      <4>1. cards'[i].result = cards[i].result /\ NowResultsOf(e.id) = ResultsOf(e.id)
        BY <3>3, <2>1, <1>2
      <4> QED
        BY <4>1, <3>1, <2>1
    <3> QED
      BY <3>2, <3>3
  <2>4. ASSUME NEW j \in DOMAIN cards, j # i
        PROVE  IsLast(cards'[j].result, NowResultsOf(cards'[j].id))
    <3>1. cards'[j] = cards[j] /\ cards[j].id # e.id
      BY <2>1, <2>4, <1>1 DEF CardsApart
    <3>2. NowResultsOf(cards[j].id) = ResultsOf(cards[j].id)
      BY <3>1, <1>2
    <3> QED
      BY <3>1, <3>2, <1>3
  <2> QED
    BY <2>1, <2>2, <2>3, <2>4, <1>1, <1>3
<1> QED
  BY <1>4, <1>5

ResultEvents == {i \in DOMAIN applied : applied[i].result}
ResultCards == {i \in DOMAIN cards : cards[i].result # 0}

LEMMA ResultsStay ==
  ASSUME LoopShape, NoResultOverwritten, NEW e, NEW n, NowApplied(e, n),
         Made(e, n) \/ \E i \in DOMAIN cards : Changed(e, n, i)
  PROVE  NoResultOverwritten'
<1> SUFFICES ASSUME AppliedIds' \subseteq {None}
             PROVE  Cardinality(ResultEvents') = Cardinality(ResultCards')
  BY DEF NoResultOverwritten, ResultEvents, ResultCards
<1>1. AppliedIds \subseteq {None} /\ e.id = None
  BY AppliedStep
<1>2. Cardinality(ResultEvents) = Cardinality(ResultCards)
  BY <1>1 DEF NoResultOverwritten, ResultEvents, ResultCards
<1>3. IsFiniteSet(ResultEvents) /\ IsFiniteSet(ResultCards)
  <2>1. Len(applied) \in Nat /\ Len(cards) \in Nat /\ DOMAIN applied = 1..Len(applied)
        /\ DOMAIN cards = 1..Len(cards)
    BY DEF LoopShape
  <2>2. IsFiniteSet(DOMAIN applied) /\ IsFiniteSet(DOMAIN cards)
    BY <2>1, FS_Interval
  <2>3. ResultEvents \subseteq DOMAIN applied /\ ResultCards \subseteq DOMAIN cards
    BY DEF ResultEvents, ResultCards
  <2> QED
    BY <2>2, <2>3, FS_Subset
<1>4. ResultEvents' = ResultEvents \cup (IF e.result THEN {n} ELSE {}) /\ n \notin ResultEvents /\ n # 0
  BY DEF ResultEvents, NowApplied
<1>5. \E i : i \notin ResultCards /\ ResultCards' = ResultCards \cup (IF e.result THEN {i} ELSE {})
  <2>1. CASE Made(e, n)
    <3> DEFINE new == Len(cards) + 1
    <3>1. /\ DOMAIN cards' = DOMAIN cards \cup {new} /\ new \notin DOMAIN cards
          /\ cards'[new].result = (IF e.result THEN n ELSE 0)
          /\ \A j \in DOMAIN cards : cards'[j] = cards[j]
      BY <2>1 DEF Made
    <3> HIDE DEF new
    <3>2. new \notin ResultCards /\ ResultCards' = ResultCards \cup (IF e.result THEN {new} ELSE {})
      BY <3>1, <1>4 DEF ResultCards
    <3> QED
      BY <3>2
  <2>2. ASSUME NEW i \in DOMAIN cards, Changed(e, n, i)
        PROVE  i \notin ResultCards /\ ResultCards' = ResultCards \cup (IF e.result THEN {i} ELSE {})
    <3>1. /\ cards[i].result = 0 /\ DOMAIN cards' = DOMAIN cards
          /\ cards'[i].result = (IF e.result THEN n ELSE 0)
          /\ \A j \in DOMAIN cards : j # i => cards'[j] = cards[j]
      BY <1>1, <2>2 DEF Changed
    <3> QED
      BY <3>1, <1>4 DEF ResultCards
  <2> QED
    BY <2>1, <2>2
<1>6. PICK i : i \notin ResultCards /\ ResultCards' = ResultCards \cup (IF e.result THEN {i} ELSE {})
  BY <1>5
<1>7. CASE e.result
  <2>1. ResultEvents' = ResultEvents \cup {n} /\ ResultCards' = ResultCards \cup {i}
    BY <1>4, <1>6, <1>7
  <2>2. /\ Cardinality(ResultEvents \cup {n}) = Cardinality(ResultEvents) + 1
        /\ Cardinality(ResultCards \cup {i}) = Cardinality(ResultCards) + 1
    BY <1>3, <1>4, <1>6, FS_AddElement
  <2> QED
    BY <2>1, <2>2, <1>2
<1>8. CASE ~ e.result
  BY <1>2, <1>4, <1>6, <1>8
<1> QED
  BY <1>7, <1>8

LEMMA NextCards == ShapeInv /\ CardInv /\ [Next]_vars => CardInv'
<1> SUFFICES ASSUME ShapeInv, CardInv, [Next]_vars
             PROVE  CardInv'
  OBVIOUS
<1>1. ASSUME HearTool(Head(chan)), Hear
      PROVE  CardInv'
  <2>1. chan \in Seq(Events) /\ chan # <<>> /\ LoopShape
    BY <1>1 DEF ShapeInv, ChannelShape, Hear
  <2>2. Head(chan) \in Events
    BY <2>1, TailFacts
  <2>3. Head(chan) \in ToolEvents
    BY <2>2, <1>1, EventFacts DEF HearTool
  <2>4. PICK n : n = Len(applied')
    OBVIOUS
  <2>5. NowApplied(Head(chan), n) /\ (Made(Head(chan), n) \/ \E i \in DOMAIN cards : Changed(Head(chan), n, i))
    BY <2>1, <2>3, <2>4, <1>1, ToolStep
  <2> QED
    BY <2>1, <2>5, CardsStayApart, CardsStayOrdered, ResultsStay DEF CardInv
<1>2. CASE UNCHANGED <<cards, applied>>
  <2>1. CardsApart' /\ NoResultOverwritten'
    BY <1>2 DEF CardInv, CardsApart, NoResultOverwritten, AppliedIds
  <2>2. InOrder' => InOrder
    BY <1>2 DEF InOrder
  <2>3. CardIds' = CardIds /\ AppliedIds' = AppliedIds
    BY <1>2 DEF CardIds, AppliedIds
  <2>4. (\A i \in DOMAIN cards : IsLast(cards[i].result, ResultsOf(cards[i].id))) =>
          (\A i \in DOMAIN cards : IsLast(cards[i].result, ResultsOf(cards[i].id)))'
    BY <1>2 DEF ResultsOf
  <2> QED
    BY <2>1, <2>2, <2>3, <2>4 DEF CardInv, Ordered
<1>3. (Hear /\ HearTool(Head(chan))) \/ UNCHANGED <<cards, applied>>
  BY DEF Next, Demo, Loop, DemoSend, DemoPause, DemoStops, DemoReturns, OtherSends, OtherEnds, Stop,
         Hear, HearText, HearDone, Save, vars, loopVars
<1> QED
  BY <1>1, <1>2, <1>3

LEMMA InitCards == Init => CardInv
<1> SUFFICES ASSUME Init
             PROVE  CardInv
  OBVIOUS
<1>1. cards = <<>> /\ applied = <<>>
  BY DEF Init
<1>2. CardIds = {} /\ AppliedIds = {}
  BY <1>1 DEF CardIds, AppliedIds
<1>3. NoResultOverwritten
  <2>1. ResultEvents = {} /\ ResultCards = {}
    BY <1>1 DEF ResultEvents, ResultCards
  <2> QED
    BY <2>1 DEF NoResultOverwritten, ResultEvents, ResultCards
<1> QED
  BY <1>1, <1>2, <1>3 DEF CardInv, CardsApart, Ordered
LEMMA LastIsMax ==
  ASSUME NEW S \in SUBSET Nat, NEW n, IsLast(n, S)
  PROVE  n = (IF S = {} THEN 0 ELSE Max(S))
<1>1. CASE S = {}
  BY <1>1 DEF IsLast
<1>2. CASE S # {}
  <2>1. n \in S /\ \A m \in S : n >= m
    BY <1>2 DEF IsLast
  <2>2. Max(S) \in S /\ \A m \in S : Max(S) >= m
    BY <2>1 DEF Max
  <2> DEFINE m == Max(S)
  <2>3. m \in S /\ n >= m /\ m >= n
    BY <2>1, <2>2
  <2> HIDE DEF m
  <2>4. n = m
    BY <2>1, <2>3
  <2> QED
    BY <1>2, <2>4 DEF m
<1> QED
  BY <1>1, <1>2

LEMMA ACardPerId ==
  ASSUME ShapeInv, CardInv
  PROVE  CardPerId
<1>1. /\ cards \in Seq(Rows) /\ applied \in Seq(ToolEvents)
      /\ CardsApart /\ Ordered
  BY DEF ShapeInv, LoopShape, CardInv
<1>2. ASSUME InOrder
      PROVE  Len(cards) = Cardinality(AppliedIds)
  <2>1. CardIds = AppliedIds /\ None \notin AppliedIds
    BY <1>1, <1>2 DEF Ordered, InOrder, AppliedIds
  <2> DEFINE id == [i \in 1..Len(cards) |-> cards[i].id]
  <2>2. DOMAIN cards = 1..Len(cards) /\ Len(cards) \in Nat
    BY <1>1
  <2>3. id \in Bijection(1..Len(cards), CardIds)
    <3>1. id \in [1..Len(cards) -> CardIds]
      BY <2>2 DEF CardIds
    <3>2. \A i, j \in 1..Len(cards) : id[i] = id[j] => i = j
      BY <2>1, <2>2, <1>1 DEF CardsApart, CardIds
    <3>3. \A x \in CardIds : \E i \in 1..Len(cards) : id[i] = x
      BY <2>2 DEF CardIds
    <3> HIDE DEF id
    <3> QED
      BY <3>1, <3>2, <3>3 DEF Bijection, Injection, Surjection, IsInjective
  <2>4. ExistsBijection(1..Len(cards), CardIds)
    BY <2>3 DEF ExistsBijection
  <2> QED
    BY <2>1, <2>2, <2>4, FS_CountingElements
<1>3. ASSUME InOrder, NEW i \in DOMAIN cards
      PROVE  cards[i].result = (IF ResultsOf(cards[i].id) = {} THEN 0 ELSE Max(ResultsOf(cards[i].id)))
  <2>1. IsLast(cards[i].result, ResultsOf(cards[i].id))
    BY <1>1, <1>3 DEF Ordered
  <2>2. ResultsOf(cards[i].id) \in SUBSET Nat
    BY <1>1 DEF ResultsOf
  <2> QED
    BY <2>1, <2>2, LastIsMax
<1> QED
  BY <1>1, <1>2, <1>3 DEF CardPerId, CardsApart

LEMMA ShapeIsTypeOK ==
  ASSUME ShapeInv, DemoInv
  PROVE  TypeOK
<1>1. partial \in 0..(Words + 1)
  <2>1. Words \in Nat
    BY ConstantsAssumption
  <2>2. CASE adapter = "other"
    BY <2>1, <2>2 DEF ShapeInv, SenderShape
  <2>3. CASE adapter = "demo"
    BY <2>3, WordsFacts DEF DemoInv, Said
  <2> QED
    BY <2>2, <2>3 DEF ShapeInv, SenderShape
<1>2. saved # None => saved.tools = cards
  BY DEF ShapeInv, SavedLast, Collected
<1>3. {pause, ctx, open, gotDone, cancelled} \subseteq BOOLEAN
  BY DEF ShapeInv, SenderShape, LoopShape
<1> QED
  BY <1>1, <1>2, <1>3 DEF TypeOK, ShapeInv, SenderShape, ChannelShape, LoopShape

(* The cards tell what the adapter told: no two have one id, there is one  *)
(* for each id with its last result, and without ids no result is lost     *)
(* (ApplyToolEvent, findToolRow).                                          *)
THEOREM CardsAreSound == Spec => []CardsSound
<1>1. ShapeInv /\ DemoInv /\ CardInv => CardsSound
  BY ShapeIsTypeOK, ACardPerId DEF CardsSound, CardInv
<1> QED
  BY <1>1, InitShape, NextShape, InitDemo, NextDemo, InitCards, NextCards, PTL DEF Spec
------------------------------------------------------------------------------
(***************************************************************************)
(* UsageCache: the shape of the state.                                     *)
(***************************************************************************)
LEMMA InitUsageType == UsageInit => UsageTypeOK
BY UsageAssumption DEF UsageInit, UsageTypeOK, Times, Unknown

(* What a fetch or an error makes of the snapshot is a snapshot. *)
Snapshots ==
  [available : BOOLEAN, used : {Nil, "some", "full"}, reset : BOOLEAN, atLimit : BOOLEAN,
   shortReset : BOOLEAN, shortLimit : BOOLEAN, source : {"none", "billing", "grok-log", "limit-error"}]

LEMMA FetchedSnapshots ==
  ASSUME snap \in Snapshots
  PROVE  /\ \A cfg \in Usable : FromBilling(cfg) \in Snapshots /\ Parsed(cfg, "grok-log") \in Snapshots
         /\ FromNothing \in Snapshots
<1>1. ASSUME NEW cfg \in Usable
      PROVE  FromBilling(cfg) \in Snapshots /\ Parsed(cfg, "grok-log") \in Snapshots
  <2>1. cfg.reset \in BOOLEAN /\ Used(cfg) \in {"some", "full"}
    BY DEF Usable, Configs
  <2> QED
    BY <2>1 DEF Snapshots, FromBilling, Parsed, Unknown
<1>2. FromNothing \in Snapshots
  BY DEF Snapshots, FromNothing, Unknown
<1> QED
  BY <1>1, <1>2

LEMMA NotedSnapshots ==
  ASSUME snap \in Snapshots, NEW reset \in BOOLEAN
  PROVE  Exhausted(reset) \in Snapshots /\ RateLimited(reset) \in Snapshots
BY DEF Snapshots, Exhausted, RateLimited

(* Whoever fetches has begun a fetch. *)
Begun == mutex # Nil => fetches # <<>>

LEMMA NextUsageType == UsageTypeOK /\ Begun /\ [UsageNext]_usageVars => UsageTypeOK' /\ Begun'
<1> SUFFICES ASSUME UsageTypeOK, Begun, [UsageNext]_usageVars
             PROVE  UsageTypeOK' /\ Begun'
  OBVIOUS
<1> USE UsageAssumption DEF UsageTypeOK, Begun, Goto
<1>1. CASE Tick
  BY <1>1 DEF Tick, Times
<1>2. ASSUME NEW c \in Callers, Call(c)
      PROVE  UsageTypeOK' /\ Begun'
  BY <1>2 DEF Call
<1>3. ASSUME NEW c \in Callers, Look(c)
      PROVE  UsageTypeOK' /\ Begun'
  <2>1. CASE Need(fetched)
    BY <1>3, <2>1 DEF Look
  <2>2. CASE ~ Need(fetched)
    <3>1. fetched \in Times
      BY <2>2 DEF Need
    <3>2. got' \in [Callers -> Times] /\ pc' = [pc EXCEPT ![c] = "answered"]
      BY <1>3, <2>2, <3>1 DEF Look, Answer
    <3> QED
      BY <1>3, <3>2 DEF Look
  <2> QED
    BY <2>1, <2>2
<1>4. ASSUME NEW c \in Callers, Refresh(c)
      PROVE  UsageTypeOK' /\ Begun'
  <2>1. CASE Recent(fetched)
    <3>1. fetched \in Times
      BY <2>1 DEF Recent
    <3>2. /\ got' \in [Callers -> Times] /\ pc' = [pc EXCEPT ![c] = "answered"]
          /\ UNCHANGED <<mutex, fetches>>
      BY <1>4, <2>1, <3>1 DEF Refresh, Answer
    <3> QED
      BY <1>4, <3>2 DEF Refresh
  <2>2. CASE ~ Recent(fetched)
    <3>3. fetches' = Append(fetches, now)
      BY <1>4, <2>2 DEF Refresh, BeginFetch
    <3>1. fetches' # <<>> /\ fetches' \in Seq(Times)
      BY <3>3, AppendFacts
    <3>2. mutex = Nil /\ mutex' = c /\ pc' = [pc EXCEPT ![c] = "fetching"] /\ got' = got
      BY <1>4, <2>2 DEF Refresh, BeginFetch
    <3> QED
      BY <1>4, <3>1, <3>2 DEF Refresh
  <2> QED
    BY <2>1, <2>2
<1>5. ASSUME NEW c \in Callers, Fetched(c)
      PROVE  UsageTypeOK' /\ Begun'
  <2>1. snap \in Snapshots
    BY DEF Snapshots
  <2>2. snap' \in Snapshots /\ told' \subseteq {"some", "full"}
    <3>1. CASE snap' = FromNothing /\ UNCHANGED told
      BY <3>1, <2>1, FetchedSnapshots
    <3>2. ASSUME NEW cfg \in Usable, snap' \in {FromBilling(cfg), Parsed(cfg, "grok-log")},
                 told' = told \cup {Used(cfg)}
          PROVE  snap' \in Snapshots /\ told' \subseteq {"some", "full"}
      <4>1. Used(cfg) \in {"some", "full"}
        BY DEF Usable
      <4>2. snap' \in Snapshots
        BY <3>2, <2>1, FetchedSnapshots
      <4>3. told' \subseteq {"some", "full"}
        BY <3>2, <4>1
      <4> QED
        BY <4>2, <4>3
    <3> QED
      BY <1>5, <3>1, <3>2 DEF Fetched
  <2>3. fetches # <<>>
    BY <1>5 DEF Fetched
  <2>4. fetches[Len(fetches)] \in Times
    BY <2>3
  <2>5. /\ fetched' \in Times /\ got' \in [Callers -> Times] /\ mutex' = Nil
        /\ pc' = [pc EXCEPT ![c] = "answered"]
    BY <1>5, <2>4 DEF Fetched, Unlock
  <2>6. mutex = c
    BY <1>5 DEF Fetched
  <2> QED
    BY <1>5, <2>2, <2>5, <2>6 DEF Fetched, Snapshots
<1>6. ASSUME NEW t \in Turns, Limit(t)
      PROVE  UsageTypeOK' /\ Begun'
  BY <1>6 DEF Limit
<1>7. ASSUME NEW t \in Turns, Note(t)
      PROVE  UsageTypeOK' /\ Begun'
  <2>1. snap \in Snapshots
    BY DEF Snapshots
  <2>2. snap' \in Snapshots
    BY <1>7, <2>1, NotedSnapshots DEF Note
  <2> QED
    BY <1>7, <2>2 DEF Note, Snapshots
<1>8. CASE UNCHANGED usageVars
  BY <1>8 DEF usageVars
<1> QED
  BY <1>1, <1>2, <1>3, <1>4, <1>5, <1>6, <1>7, <1>8 DEF UsageNext

------------------------------------------------------------------------------
(***************************************************************************)
(* Time.  A fetch begins at least a TTL after the last one, and what a     *)
(* caller waits for, if it waits, is the last one to begin.                *)
(***************************************************************************)
LastFetch == fetches[Len(fetches)]

Apart == \A i \in 2..Len(fetches) : fetches[i] - fetches[i-1] >= TTL

Clock ==
  /\ fetches # <<>> => LastFetch <= now
  /\ \A c \in Callers : called[c] <= now
  /\ \A c \in Callers : pc[c] = "fetching" => called[c] <= LastFetch

(* Between fetches, what is in the cache is that of the last one. *)
Cached == mutex = Nil => IF fetches = <<>> THEN fetched = Nil ELSE fetched = LastFetch

UsageInv == UsageTypeOK /\ Begun /\ Apart /\ Clock /\ Cached /\ AnswersFresh

LEMMA InitUsageInv == UsageInit => UsageInv
<1> SUFFICES ASSUME UsageInit
             PROVE  UsageInv
  OBVIOUS
<1>1. UsageTypeOK
  BY InitUsageType
<1> QED
  BY <1>1, UsageAssumption DEF UsageInit, UsageInv, Begun, Apart, Clock, Cached, AnswersFresh

LEMMA NextUsageInv == UsageInv /\ [UsageNext]_usageVars => UsageInv'
<1> SUFFICES ASSUME UsageInv, [UsageNext]_usageVars
             PROVE  UsageInv'
  OBVIOUS
<1>0. UsageTypeOK' /\ Begun'
  BY NextUsageType DEF UsageInv
<1> SUFFICES Apart' /\ Clock' /\ Cached' /\ AnswersFresh'
  BY <1>0 DEF UsageInv
<1>t. /\ now \in Nat /\ TTL \in Nat \ {0} /\ fetches \in Seq(Nat) /\ called \in [Callers -> Nat]
      /\ got \in [Callers -> Nat] /\ mutex \in Callers \cup {Nil} /\ fetched \in Nat \cup {Nil}
      /\ pc \in [Callers -> {"idle", "called", "refresh", "fetching", "answered"}]
      /\ \A c \in Callers : pc[c] = "fetching" <=> mutex = c
  BY UsageAssumption DEF UsageInv, UsageTypeOK, Times
<1>i. Apart /\ Clock /\ Cached /\ AnswersFresh /\ Begun
  BY DEF UsageInv
<1>n. Nil \notin Nat /\ Nil \notin Callers
  BY UsageAssumption
<1>l. fetches # <<>> => Len(fetches) \in Nat \ {0} /\ LastFetch \in Nat
  BY <1>t DEF LastFetch
<1>1. CASE Tick
  BY <1>1, <1>t, <1>i, <1>l DEF Tick, Apart, Clock, Cached, AnswersFresh, LastFetch
<1>2. ASSUME NEW c \in Callers, Call(c)
      PROVE  Apart' /\ Clock' /\ Cached' /\ AnswersFresh'
  BY <1>2, <1>t, <1>i DEF Call, Goto, Apart, Clock, Cached, AnswersFresh, LastFetch
(* An answer from the cache that is young enough. *)
<1>a. ASSUME NEW c \in Callers, mutex = Nil, fetched \in Nat, now - fetched <= TTL, Answer(c),
             UNCHANGED <<now, mutex, fetched, called, fetches>>
      PROVE  Apart' /\ Clock' /\ Cached' /\ AnswersFresh'
  <2>1. called[c] <= fetched + TTL
    BY <1>a, <1>t, <1>i DEF Clock
  <2> QED
    BY <1>a, <2>1, <1>t, <1>i DEF Answer, Goto, Apart, Clock, Cached, AnswersFresh, LastFetch
<1>3. ASSUME NEW c \in Callers, Look(c)
      PROVE  Apart' /\ Clock' /\ Cached' /\ AnswersFresh'
  <2>1. CASE Need(fetched)
    BY <1>3, <2>1, <1>t, <1>i DEF Look, Goto, Apart, Clock, Cached, AnswersFresh, LastFetch
  <2>2. CASE ~ Need(fetched)
    <3>1. fetched \in Nat /\ now - fetched <= TTL
      BY <2>2, <1>t DEF Need
    <3> QED
      BY <1>3, <2>2, <3>1, <1>a DEF Look
  <2> QED
    BY <2>1, <2>2
<1>4. ASSUME NEW c \in Callers, Refresh(c)
      PROVE  Apart' /\ Clock' /\ Cached' /\ AnswersFresh'
  <2>1. CASE Recent(fetched)
    <3>1. fetched \in Nat /\ now - fetched <= TTL
      BY <2>1, <1>t DEF Recent
    <3> QED
      BY <1>4, <2>1, <3>1, <1>a DEF Refresh
  <2>2. CASE ~ Recent(fetched)
    <3>1. /\ fetches' = Append(fetches, now) /\ mutex = Nil /\ mutex' = c
          /\ pc' = [pc EXCEPT ![c] = "fetching"]
          /\ UNCHANGED <<now, fetched, called, got>>
      BY <1>4, <2>2 DEF Refresh, BeginFetch, Goto
    <3>2. LastFetch' = now /\ Len(fetches') = Len(fetches) + 1
      BY <3>1, <1>t, AppendFacts DEF LastFetch
    <3>3. fetches # <<>> => now - LastFetch >= TTL
      BY <3>1, <2>2, <1>t, <1>i, <1>l, <1>n DEF Cached, Recent
    <3>4. Apart'
      <4> SUFFICES ASSUME NEW i \in 2..Len(fetches')
                   PROVE  fetches'[i] - fetches'[i-1] >= TTL
        BY DEF Apart
      <4>1. CASE i \in 2..Len(fetches)
        BY <4>1, <3>1, <1>t, <1>i, AppendFacts DEF Apart
      <4>2. CASE i = Len(fetches) + 1
        <5>1. fetches # <<>> /\ fetches'[i] = now /\ fetches'[i-1] = LastFetch
          BY <4>2, <3>1, <1>t, AppendFacts DEF LastFetch
        <5> QED
          BY <5>1, <3>3
      <4> QED
        BY <4>1, <4>2, <3>2, <1>t
    <3>5. Clock'
      BY <3>1, <3>2, <1>t, <1>i DEF Clock
    <3>6. Cached' /\ AnswersFresh'
      BY <3>1, <1>n, <1>t, <1>i DEF Cached, AnswersFresh
    <3> QED
      BY <3>4, <3>5, <3>6
  <2> QED
    BY <2>1, <2>2
<1>5. ASSUME NEW c \in Callers, Fetched(c)
      PROVE  Apart' /\ Clock' /\ Cached' /\ AnswersFresh'
  <2>1. /\ pc[c] = "fetching" /\ mutex = c /\ mutex' = Nil
        /\ fetched' = LastFetch /\ got' = [got EXCEPT ![c] = LastFetch]
        /\ pc' = [pc EXCEPT ![c] = "answered"]
        /\ UNCHANGED <<now, called, fetches>>
    BY <1>5, <1>t DEF Fetched, Unlock, Goto, LastFetch
  <2>2. fetches # <<>> /\ called[c] <= LastFetch /\ LastFetch \in Nat
    BY <2>1, <1>n, <1>i, <1>l DEF Begun, Clock
  <2>3. Apart' /\ Clock' /\ Cached'
    BY <2>1, <2>2, <1>t, <1>i DEF Apart, Clock, Cached, LastFetch
  <2>4. AnswersFresh'
    BY <2>1, <2>2, <1>t, <1>i DEF AnswersFresh
  <2> QED
    BY <2>3, <2>4
<1>6. ASSUME NEW t \in Turns, Limit(t) \/ Note(t)
      PROVE  Apart' /\ Clock' /\ Cached' /\ AnswersFresh'
  BY <1>6, <1>i DEF Limit, Note, Apart, Clock, Cached, AnswersFresh, LastFetch
<1>7. CASE UNCHANGED usageVars
  BY <1>7, <1>i DEF usageVars, Apart, Clock, Cached, AnswersFresh, LastFetch
<1> QED
  BY <1>1, <1>2, <1>3, <1>4, <1>5, <1>6, <1>7 DEF UsageNext

(* The state keeps its shape in every run. *)
THEOREM UsageTypeCorrect == UsageSpec => []UsageTypeOK
<1>1. UsageInv => UsageTypeOK
  BY DEF UsageInv
<1> QED
  BY <1>1, InitUsageInv, NextUsageInv, PTL DEF UsageSpec

(* However many ask at once, fetches are a TTL apart (Cache.Refresh looks  *)
(* again once it has the mutex).                                           *)
THEOREM FetchesAreApart == UsageSpec => []FetchesApart
<1>1. UsageInv => FetchesApart
  BY DEF UsageInv, Apart, FetchesApart
<1> QED
  BY <1>1, InitUsageInv, NextUsageInv, PTL DEF UsageSpec

(* No answer was older than a TTL when it was asked for, be it from the    *)
(* cache or from the fetch that the caller, or somebody else, has made.    *)
THEOREM AnswersAreFresh == UsageSpec => []AnswersFresh
<1>1. UsageInv => AnswersFresh
  BY DEF UsageInv
<1> QED
  BY <1>1, InitUsageInv, NextUsageInv, PTL DEF UsageSpec
------------------------------------------------------------------------------
(***************************************************************************)
(* Numbers and limits.                                                     *)
(***************************************************************************)
LEMMA NextInvented == UsageTypeOK /\ NothingInvented /\ [UsageNext]_usageVars => NothingInvented'
<1> SUFFICES ASSUME UsageTypeOK, NothingInvented, [UsageNext]_usageVars
             PROVE  NothingInvented'
  OBVIOUS
<1> USE DEF NothingInvented
<1>1. ASSUME NEW c \in Callers, Fetched(c)
      PROVE  NothingInvented'
  <2>1. CASE snap' = FromNothing /\ UNCHANGED told
    BY <2>1 DEF FromNothing, Unknown
  <2>2. ASSUME NEW cfg \in Usable, snap' \in {FromBilling(cfg), Parsed(cfg, "grok-log")},
               told' = told \cup {Used(cfg)}
        PROVE  NothingInvented'
    <3>1. snap'.used = Used(cfg)
      BY <2>2 DEF FromBilling, Parsed, Unknown
    <3> QED
      BY <3>1, <2>2
  <2> QED
    BY <1>1, <2>1, <2>2 DEF Fetched
<1>2. ASSUME NEW t \in Turns, Note(t)
      PROVE  NothingInvented'
  <2>1. PICK reset \in BOOLEAN :
          snap' = IF note[t] = "exhausted" THEN Exhausted(reset) ELSE RateLimited(reset)
    BY <1>2 DEF Note
  <2>2. CASE note[t] = "exhausted"
    <3>1. snap'.used = "full" /\ told' = told \cup {"full"}
      BY <1>2, <2>1, <2>2 DEF Note, Exhausted, UsageTypeOK
    <3> QED
      BY <3>1
  <2>3. CASE note[t] # "exhausted"
    <3>1. snap'.used = snap.used /\ told' = told
      BY <1>2, <2>1, <2>3 DEF Note, RateLimited, UsageTypeOK
    <3> QED
      BY <3>1
  <2> QED
    BY <2>2, <2>3
<1>3. CASE UNCHANGED <<snap, told>>
  BY <1>3
<1> QED
  BY <1>1, <1>2, <1>3 DEF UsageNext, usageVars, Tick, Call, Look, Refresh, Limit

(* Every percentage shown was told by billing, by the log, or by an error  *)
(* of the pool, through any sequence of failed fetches and limits.         *)
THEOREM NothingIsInvented == UsageSpec => []NothingInvented
<1>1. UsageInit => NothingInvented
  BY DEF UsageInit, NothingInvented, Unknown
<1> QED
  BY <1>1, NextInvented, UsageTypeCorrect, PTL DEF UsageSpec

LEMMA LimitStep ==
  ASSUME UsageTypeOK, [UsageNext]_usageVars
  PROVE  /\ snap.atLimit /\ ~ snap'.atLimit
              => snap'.source \in {"billing", "grok-log"} /\ snap'.used # "full"
         /\ snap.reset /\ ~ snap'.reset => snap'.source \in {"billing", "grok-log"}
         /\ snap.shortLimit /\ ~ snap'.shortLimit
              => snap'.source = "grok-log" \/ (snap'.source = "none" /\ ~ FromError(snap))
<1> DEFINE Kept ==
      /\ snap.atLimit /\ ~ snap'.atLimit
           => snap'.source \in {"billing", "grok-log"} /\ snap'.used # "full"
      /\ snap.reset /\ ~ snap'.reset => snap'.source \in {"billing", "grok-log"}
      /\ snap.shortLimit /\ ~ snap'.shortLimit
           => snap'.source = "grok-log" \/ (snap'.source = "none" /\ ~ FromError(snap))
<1>1. ASSUME NEW c \in Callers, Fetched(c)
      PROVE  Kept
  <2>1. CASE snap' = FromNothing
    BY <2>1 DEF FromNothing, FromError, Unknown, UsageTypeOK
  <2>2. ASSUME NEW cfg \in Usable, snap' = FromBilling(cfg)
        PROVE  Kept
    BY <2>2 DEF FromBilling, Parsed, Unknown, UsageTypeOK
  <2>3. ASSUME NEW cfg \in Usable, snap' = Parsed(cfg, "grok-log")
        PROVE  Kept
    BY <2>3 DEF Parsed, Unknown, UsageTypeOK
  <2> QED
    BY <1>1, <2>1, <2>2, <2>3 DEF Fetched
<1>2. ASSUME NEW t \in Turns, Note(t)
      PROVE  Kept
  <2>1. PICK reset \in BOOLEAN :
          snap' = IF note[t] = "exhausted" THEN Exhausted(reset) ELSE RateLimited(reset)
    BY <1>2 DEF Note
  <2>2. CASE note[t] = "exhausted"
    BY <2>1, <2>2 DEF Exhausted, UsageTypeOK
  <2>3. CASE note[t] # "exhausted"
    BY <2>1, <2>3 DEF RateLimited, UsageTypeOK
  <2> QED
    BY <2>2, <2>3
<1>3. CASE UNCHANGED snap
  BY <1>3
<1>4. \/ \E c \in Callers : Fetched(c)
      \/ \E t \in Turns : Note(t)
      \/ UNCHANGED snap
  BY DEF UsageNext, usageVars, Tick, Call, Look, Refresh, Limit
<1> QED
  BY <1>1, <1>2, <1>3, <1>4

(* A fetch that learns nothing takes neither the mark of an empty weekly   *)
(* pool nor its reset away; only billing or the log do, the former only    *)
(* when they tell of a pool that is not empty.  The short window's mark    *)
(* survives billing, and a failed fetch if the snapshot was an error's.    *)
THEOREM LimitsAreKept == UsageSpec => LimitsKept
<1>1. UsageTypeOK /\ [UsageNext]_usageVars =>
        [/\ snap.atLimit /\ ~ snap'.atLimit
              => snap'.source \in {"billing", "grok-log"} /\ snap'.used # "full"
         /\ snap.reset /\ ~ snap'.reset => snap'.source \in {"billing", "grok-log"}
         /\ snap.shortLimit /\ ~ snap'.shortLimit
              => snap'.source = "grok-log" \/ (snap'.source = "none" /\ ~ FromError(snap))]_usageVars
  BY LimitStep
<1> QED
  BY <1>1, UsageTypeCorrect, PTL DEF UsageSpec, LimitsKept
==============================================================================
