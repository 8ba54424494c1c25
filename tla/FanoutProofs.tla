---------------------------- MODULE FanoutProofs ----------------------------
(***************************************************************************)
(* Theorems about Fanout: who is registered, and what a subscriber gets,   *)
(* for any clients, sessions, items and troubles.                          *)
(***************************************************************************)
EXTENDS Fanout, TLAPS

(* A handler that has read a transcript knows whose it is, one that writes *)
(* has not left; what is being broadcast has been told.                    *)
AboutOK ==
  /\ \A c \in Conns : pc[c] \in {"read", "snapshot"} => about[c] \in Sessions
  /\ \A c \in Conns : writing[c] => pc[c] # "leaving"
  /\ cast # None => told[cast.session] # 0

LEMMA InitTypeOK == Init => TypeOK /\ AboutOK
<1> SUFFICES ASSUME Init
             PROVE  TypeOK /\ AboutOK
  OBVIOUS
<1>1. /\ got \in [Conns -> [Sessions -> SUBSET (Nat \ {0})]]
      /\ gap \in [Conns -> [Sessions -> SUBSET (Nat \ {0})]]
      /\ snap \in [Conns -> [Sessions -> Nat \cup {None}]]
  BY DEF Init
<1>2. troubles \in 0..MaxTroubles
  BY ConstantsAssumption DEF Init
<1> QED
  BY <1>1, <1>2 DEF Init, TypeOK, AboutOK

LEMMA RegisterType ==
  ASSUME TypeOK, NEW c \in Conns, NEW s \in Sessions, NEW n \in Nat,
         Register(c, s), NoteGap(c, s, n)
  PROVE  /\ clients' \subseteq Conns
         /\ subs' \in [Conns -> SUBSET Sessions]
         /\ gap' \in [Conns -> [Sessions -> SUBSET (Nat \ {0})]]
<1>1. clients' \subseteq Conns /\ subs' \in [Conns -> SUBSET Sessions]
  BY DEF Register, TypeOK
<1>2. 1..told[s] \subseteq Nat \ {0}
  BY DEF TypeOK
<1>3. gap[c][s] \subseteq Nat \ {0}
  BY DEF TypeOK
<1>4. ((IF Hears(c, s) THEN gap[c][s] ELSE 1..told[s]) \ 1..n) \in SUBSET (Nat \ {0})
  BY <1>2, <1>3
<1>5. gap' = [gap EXCEPT ![c] = [gap[c] EXCEPT ![s] =
                (IF Hears(c, s) THEN gap[c][s] ELSE 1..told[s]) \ 1..n]]
  BY DEF NoteGap, TypeOK
<1> QED
  BY <1>1, <1>4, <1>5 DEF TypeOK

LEMMA HandlerTypeOK ==
  ASSUME TypeOK, AboutOK, NEW c \in Conns, Handler(c) \/ Ask(c)
  PROVE  TypeOK' /\ AboutOK'
<1> USE DEF conn, net, known, Goto
<1>1. CASE Connect(c)
  <2>1. [s \in Sessions |-> 1..told[s]] \in [Sessions -> SUBSET (Nat \ {0})]
    BY DEF TypeOK
  <2> QED
    BY <1>1, <2>1 DEF Connect, TypeOK, AboutOK
<1>2. ASSUME NEW s \in Sessions, ReadTranscript(c, s)
      PROVE  TypeOK' /\ AboutOK'
  BY <1>2 DEF ReadTranscript, TypeOK, AboutOK
<1>3. CASE Subscribe(c)
  <2>1. about[c] \in Sessions /\ copy[c] \in Nat
    BY <1>3 DEF Subscribe, TypeOK, AboutOK
  <2> QED
    BY <1>3, <2>1, RegisterType DEF Subscribe, TypeOK, AboutOK
<1>4. ASSUME NEW s \in Sessions, ChatSend(c, s)
      PROVE  TypeOK' /\ AboutOK'
  BY <1>4, RegisterType DEF ChatSend, TypeOK, AboutOK
<1>5. CASE StartWrite(c)
  <2>1. CASE Panics(c)
    BY <1>5, <2>1 DEF StartWrite, Panics, TypeOK, AboutOK
  <2>2. CASE ~ Panics(c)
    <3>1. sock' \in [Conns -> {"ok", "failed", "closed"}]
      BY <1>5, <2>2 DEF StartWrite, TypeOK
    <3>2. asked' \in [Conns -> Nat]
      BY <1>5, <2>2 DEF StartWrite, TypeOK
    <3> QED
      BY <1>5, <2>2, <3>1, <3>2 DEF StartWrite, TypeOK, AboutOK
  <2> QED
    BY <2>1, <2>2
<1>6. ASSUME NEW ok \in BOOLEAN, Wrote(c, ok), sock' \in [Conns -> {"ok", "failed", "closed"}],
             UNCHANGED <<asked>>
      PROVE  TypeOK' /\ AboutOK'
  <2>1. snap' \in [Conns -> [Sessions -> Nat \cup {None}]]
    BY <1>6 DEF Wrote, TypeOK
  <2> QED
    BY <1>6, <2>1 DEF Wrote, TypeOK, AboutOK
<1>7. CASE WriteDone(c) \/ WriteFails(c)
  <2>1. CASE WriteDone(c)
    BY <1>6, <2>1 DEF WriteDone, Wrote, TypeOK
  <2>2. CASE WriteFails(c)
    <3>1. sock' \in [Conns -> {"ok", "failed", "closed"}] /\ UNCHANGED asked
      BY <2>2 DEF WriteFails, Wrote, TypeOK
    <3> QED
      BY <1>6, <2>2, <3>1 DEF WriteFails
  <2> QED
    BY <1>7, <2>1, <2>2
<1>8. CASE ReadFails(c)
  BY <1>8 DEF ReadFails, TypeOK, AboutOK
<1>9. CASE Leave(c)
  BY <1>9 DEF Leave, TypeOK, AboutOK
<1> QED
  BY <1>1, <1>2, <1>3, <1>4, <1>5, <1>7, <1>8, <1>9 DEF Handler, Ask

LEMMA BroadcastTypeOK ==
  ASSUME TypeOK, AboutOK, Broadcasting \/ \E s \in Sessions : SaveItem(s) \/ BroadcastStart(s)
  PROVE  TypeOK' /\ AboutOK'
<1> USE DEF conn, net, known
<1>1. ASSUME NEW s \in Sessions, SaveItem(s)
      PROVE  TypeOK' /\ AboutOK'
  BY <1>1 DEF SaveItem, TypeOK, AboutOK
<1>2. ASSUME NEW s \in Sessions, BroadcastStart(s)
      PROVE  TypeOK' /\ AboutOK'
  <2>1. cast' \in Casts /\ cast'.session = s
    BY <1>2 DEF BroadcastStart, Audience, Casts
  <2> QED
    BY <1>2, <2>1 DEF BroadcastStart, TypeOK, AboutOK
<1>3. CASE BroadcastEnd
  BY <1>3 DEF BroadcastEnd, TypeOK, AboutOK
<1>4. ASSUME NEW c \in Conns, CastBegin(c)
      PROVE  TypeOK' /\ AboutOK'
  <2>1. cast \in Casts
    BY <1>4 DEF CastBegin, TypeOK
  <2>2. cast' \in Casts /\ cast'.session = cast.session
    BY <1>4, <2>1 DEF CastBegin, Casts
  <2> QED
    BY <1>4, <2>1, <2>2 DEF CastBegin, TypeOK, AboutOK
<1>5. ASSUME NEW c \in Conns, CastFails(c)
      PROVE  TypeOK' /\ AboutOK'
  <2>1. cast \in Casts
    BY <1>5 DEF CastFails, TypeOK, Casts
  <2>2. cast' \in Casts /\ cast'.session = cast.session
    BY <1>5, <2>1 DEF CastFails, Written, Casts
  <2>3. sock' \in [Conns -> {"ok", "failed", "closed"}]
    BY <1>5 DEF CastFails, TypeOK
  <2> QED
    BY <1>5, <2>1, <2>2, <2>3 DEF CastFails, TypeOK, AboutOK, Casts
<1>6. ASSUME NEW c \in Conns, CastDone(c)
      PROVE  TypeOK' /\ AboutOK'
  <2>1. cast \in Casts
    BY <1>6 DEF CastDone, TypeOK, Casts
  <2>2. cast' \in Casts /\ cast'.session = cast.session
    BY <1>6, <2>1 DEF CastDone, Written, Casts
  <2>3. told[cast.session] \in Nat \ {0} /\ cast.session \in Sessions
    BY <1>6, <2>1 DEF CastDone, TypeOK, AboutOK, Casts
  <2>4. got' \in [Conns -> [Sessions -> SUBSET (Nat \ {0})]]
    BY <1>6, <2>3 DEF CastDone, TypeOK
  <2> QED
    BY <1>6, <2>2, <2>4 DEF CastDone, TypeOK, AboutOK, Casts
<1> QED
  BY <1>1, <1>2, <1>3, <1>4, <1>5, <1>6 DEF Broadcasting

LEMMA NextTypeOK == TypeOK /\ AboutOK /\ [Next]_vars => TypeOK' /\ AboutOK'
<1> SUFFICES ASSUME TypeOK, AboutOK, [Next]_vars
             PROVE  TypeOK' /\ AboutOK'
  OBVIOUS
<1> USE DEF conn, net, known
<1>1. ASSUME NEW c \in Conns, PeerChanges(c) \/ DeadlinePasses(c)
      PROVE  TypeOK' /\ AboutOK'
  <2>1. troubles < MaxTroubles => troubles + 1 \in 0..MaxTroubles
    BY ConstantsAssumption DEF TypeOK
  <2> QED
    BY <1>1, <2>1 DEF PeerChanges, DeadlinePasses, TypeOK, AboutOK
<1>2. CASE UNCHANGED vars
  BY <1>2 DEF vars, TypeOK, AboutOK
<1> QED
  BY <1>1, <1>2, HandlerTypeOK, BroadcastTypeOK DEF Next

(* The state keeps its shape in every run. *)
THEOREM TypeCorrect == Spec => []TypeOK
BY InitTypeOK, NextTypeOK, PTL DEF Spec
------------------------------------------------------------------------------
(* A closed connection stays closed, and only a handler that has not       *)
(* returned makes an entry.                                                *)
LEMMA NextNoZombie == TypeOK /\ NoZombie /\ [Next]_vars => NoZombie'
<1> SUFFICES ASSUME TypeOK, NoZombie, [Next]_vars
             PROVE  NoZombie'
  OBVIOUS
<1> USE DEF conn, net, known, Goto
<1>1. ASSUME clients' \subseteq clients, UNCHANGED pc,
             \A c \in Conns : sock[c] = "closed" => sock'[c] = "closed"
      PROVE  NoZombie'
  BY <1>1 DEF NoZombie
<1>2. ASSUME NEW c \in Conns, Connect(c)
      PROVE  NoZombie'
  BY <1>2 DEF Connect, NoZombie, TypeOK
<1>3. ASSUME NEW c \in Conns, NEW s \in Sessions, ReadTranscript(c, s) \/ ChatSend(c, s)
      PROVE  NoZombie'
  BY <1>3 DEF ReadTranscript, ChatSend, Register, NoZombie, TypeOK
<1>4. ASSUME NEW c \in Conns, Subscribe(c)
      PROVE  NoZombie'
  BY <1>4 DEF Subscribe, Register, NoZombie, TypeOK
<1>5. ASSUME NEW c \in Conns, StartWrite(c)
      PROVE  NoZombie'
  BY <1>5 DEF StartWrite, Panics, NoZombie, TypeOK
<1>6. ASSUME NEW c \in Conns, WriteDone(c) \/ WriteFails(c)
      PROVE  NoZombie'
  BY <1>6 DEF WriteDone, WriteFails, Wrote, NoZombie, TypeOK
<1>7. ASSUME NEW c \in Conns, ReadFails(c) \/ Leave(c)
      PROVE  NoZombie'
  BY <1>7 DEF ReadFails, Leave, NoZombie, TypeOK
<1>8. ASSUME NEW c \in Conns, PeerChanges(c) \/ DeadlinePasses(c)
      PROVE  NoZombie'
  BY <1>1, <1>8 DEF PeerChanges, DeadlinePasses
<1>9. ASSUME NEW s \in Sessions, SaveItem(s) \/ BroadcastStart(s)
      PROVE  NoZombie'
  BY <1>1, <1>9 DEF SaveItem, BroadcastStart
<1>10. CASE Broadcasting
  <2>1. CASE BroadcastEnd
    BY <1>1, <2>1 DEF BroadcastEnd
  <2>2. ASSUME NEW c \in Conns, CastBegin(c) \/ CastDone(c) \/ CastFails(c)
        PROVE  NoZombie'
    BY <1>1, <2>2 DEF CastBegin, CastDone, CastFails, TypeOK
  <2> QED
    BY <1>10, <2>1, <2>2 DEF Broadcasting
<1>11. CASE UNCHANGED vars
  BY <1>1, <1>11 DEF vars
<1> QED
  BY <1>2, <1>3, <1>4, <1>5, <1>6, <1>7, <1>8, <1>9, <1>10, <1>11 DEF Next, Handler, Ask

(* No entry of a handler that has returned is ever left in Hub.clients,    *)
(* and its connection is closed.                                           *)
THEOREM AllRegistered == Spec => []Registered
<1>1. Init => NoZombie
  BY DEF Init, NoZombie
<1> QED
  BY <1>1, InitTypeOK, NextTypeOK, NextNoZombie, PTL DEF Spec, Registered
------------------------------------------------------------------------------
(***************************************************************************)
(* What a subscriber gets.  A snapshot is of a transcript as it was read,  *)
(* and transcripts grow, so a later snapshot has all that an earlier had.  *)
(***************************************************************************)
SnapOK ==
  \A c \in Conns, s \in Sessions :
    /\ snap[c][s] # None => snap[c][s] <= saved[s]
    /\ pc[c] \in {"read", "snapshot"} /\ about[c] = s
         => copy[c] <= saved[s] /\ (snap[c][s] # None => snap[c][s] <= copy[c])

(* OnlyGapMissed, and while a Broadcast is under way, all but the item it  *)
(* is about to send.                                                       *)
Fed(c, s) == Hears(c, s) /\ sock[c] = "ok" /\ pc[c] # "leaving"
Awaited(c, s, i) == CastingTo(s) /\ c \in cast.todo /\ i = told[s]
Covers(c, s) == Fed(c, s) => \A i \in 1..told[s] : HasItem(c, s, i) \/ Awaited(c, s, i)

Covered == \A c \in Conns, s \in Sessions : Covers(c, s)

IInv == TypeOK /\ AboutOK /\ SnapOK /\ Covered

LEMMA InitIInv == Init => IInv
<1> SUFFICES ASSUME Init
             PROVE  SnapOK /\ Covered
  BY InitTypeOK DEF IInv
<1>1. SnapOK
  BY DEF Init, SnapOK
<1>2. Covered
  BY DEF Init, Covered, Covers, Fed, Hears
<1> QED
  BY <1>1, <1>2

LEMMA CoveredImplies == IInv => OnlyGapMissed
BY DEF IInv, Covered, Covers, Fed, OnlyGapMissed, Awaited, Settled, CastingTo

LEMMA NextSnapOK == TypeOK /\ AboutOK /\ SnapOK /\ [Next]_vars => SnapOK'
<1> SUFFICES ASSUME TypeOK, AboutOK, SnapOK, [Next]_vars
             PROVE  SnapOK'
  OBVIOUS
<1> USE DEF conn, net, known, Goto
<1>1. ASSUME UNCHANGED <<snap, saved, about, copy>>,
             \A c \in Conns : pc'[c] \in {"read", "snapshot"} => pc[c] \in {"read", "snapshot"}
      PROVE  SnapOK'
  BY <1>1 DEF SnapOK
<1>2. ASSUME NEW c \in Conns, NEW s \in Sessions, ReadTranscript(c, s)
      PROVE  SnapOK'
  <2>1. /\ about' = [about EXCEPT ![c] = s] /\ copy' = [copy EXCEPT ![c] = saved[s]]
        /\ pc' = [pc EXCEPT ![c] = "read"] /\ UNCHANGED <<snap, saved>>
    BY <1>2 DEF ReadTranscript
  <2> QED
    BY <2>1 DEF SnapOK, TypeOK
<1>3. ASSUME NEW c \in Conns, NEW ok \in BOOLEAN, Wrote(c, ok)
      PROVE  SnapOK'
  <2>1. /\ UNCHANGED <<saved, about, copy>> /\ pc' = [pc EXCEPT ![c] = "reading"]
        /\ \A d \in Conns \ {c} : snap'[d] = snap[d]
    BY <1>3 DEF Wrote, TypeOK
  <2>2. \A s \in Sessions : \/ snap'[c][s] = snap[c][s]
                            \/ pc[c] = "snapshot" /\ about[c] = s /\ snap'[c][s] = copy[c]
    BY <1>3 DEF Wrote, TypeOK
  <2> QED
    BY <2>1, <2>2 DEF SnapOK, TypeOK
<1>4. ASSUME NEW s \in Sessions, SaveItem(s)
      PROVE  SnapOK'
  <2>1. /\ UNCHANGED <<snap, about, copy, pc>>
        /\ \A u \in Sessions : saved'[u] \in Nat /\ saved[u] \in Nat /\ saved[u] <= saved'[u]
    BY <1>4 DEF SaveItem, TypeOK
  <2> QED
    BY <2>1 DEF SnapOK, TypeOK
<1>5. ASSUME NEW c \in Conns, Handler(c) \/ Ask(c)
      PROVE  SnapOK'
  <2>1. CASE WriteDone(c) \/ WriteFails(c)
    BY <1>3, <2>1 DEF WriteDone, WriteFails
  <2>2. CASE Connect(c) \/ Subscribe(c)
    BY <1>1, <2>2 DEF Connect, Subscribe, TypeOK
  <2>3. CASE \E s \in Sessions : ChatSend(c, s)
    BY <1>1, <2>3 DEF ChatSend
  <2>4. CASE StartWrite(c)
    BY <1>1, <2>4 DEF StartWrite, Panics, TypeOK
  <2>5. CASE ReadFails(c) \/ Leave(c)
    BY <1>1, <2>5 DEF ReadFails, Leave, TypeOK
  <2> QED
    BY <1>2, <1>5, <2>1, <2>2, <2>3, <2>4, <2>5 DEF Handler, Ask
<1>6. ASSUME NEW c \in Conns, PeerChanges(c) \/ DeadlinePasses(c)
      PROVE  SnapOK'
  BY <1>1, <1>6 DEF PeerChanges, DeadlinePasses
<1>7. CASE Broadcasting \/ \E s \in Sessions : BroadcastStart(s)
  BY <1>1, <1>7 DEF Broadcasting, BroadcastEnd, CastBegin, CastDone, CastFails, BroadcastStart
<1>8. CASE UNCHANGED vars
  BY <1>1, <1>8 DEF vars
<1> QED
  BY <1>4, <1>5, <1>6, <1>7, <1>8 DEF Next

(* Steps that are about no item. *)
LEMMA AsideCovered ==
  ASSUME TypeOK, Covered,
         clients' \subseteq clients, UNCHANGED <<subs, told, got, gap, snap>>,
         \A c \in Conns : sock'[c] = "ok" => sock[c] = "ok",
         \A c \in Conns : c \in clients' /\ pc'[c] # "leaving" => pc[c] # "leaving",
         \A c \in Conns : pc[c] = "snapshot" =>
           \/ pc'[c] = "snapshot" /\ about'[c] = about[c] /\ copy'[c] = copy[c]
           \/ pc'[c] = "leaving" \/ sock'[c] # "ok",
         \A c \in Conns, s \in Sessions : CastingTo(s) /\ c \in cast.todo =>
           (CastingTo(s) /\ c \in cast.todo)' \/ sock'[c] # "ok"
  PROVE  Covered'
<1> SUFFICES ASSUME NEW c \in Conns, NEW s \in Sessions
             PROVE  Covers(c, s)'
  BY DEF Covered
<1>1. Fed(c, s)' => Fed(c, s)
  BY DEF Fed, Hears
<1>2. ASSUME NEW i \in 1..told[s], Fed(c, s)', HasItem(c, s, i)
      PROVE  HasItem(c, s, i)'
  BY <1>2 DEF HasItem, Fed
<1>3. ASSUME NEW i \in 1..told[s], Fed(c, s)', Awaited(c, s, i)
      PROVE  Awaited(c, s, i)'
  BY <1>3 DEF Awaited, Fed
<1> QED
  BY <1>1, <1>2, <1>3 DEF Covered, Covers

(* Whoever registers for a session lacks no more than the gap. *)
LEMMA RegisterCovers ==
  ASSUME TypeOK, Covered, cast = None, cast' = None,
         NEW c \in Conns, NEW t \in Sessions, NEW n \in Nat,
         Register(c, t), NoteGap(c, t, n),
         UNCHANGED <<told, got, snap, sock>>,
         pc[c] \in {"reading", "read"},
         \A d \in Conns \ {c} : pc'[d] = pc[d] /\ about'[d] = about[d] /\ copy'[d] = copy[d],
         n = 0 \/ (pc'[c] = "snapshot" /\ about'[c] = t /\ copy'[c] = n)
  PROVE  Covered'
<1> SUFFICES ASSUME NEW d \in Conns, NEW s \in Sessions
             PROVE  Covers(d, s)'
  BY DEF Covered
<1>0. /\ gap' = [gap EXCEPT ![c] = [gap[c] EXCEPT ![t] =
                   (IF Hears(c, t) THEN gap[c][t] ELSE 1..told[t]) \ 1..n]]
  BY DEF NoteGap, TypeOK
<1>1. CASE d # c
  <2>1. Fed(d, s)' => Fed(d, s)
    BY <1>1 DEF Fed, Hears, Register, TypeOK
  <2>2. gap'[d] = gap[d]
    BY <1>0, <1>1 DEF TypeOK
  <2> QED
    BY <1>1, <2>1, <2>2 DEF Covered, Covers, HasItem, Awaited, CastingTo
<1>2. CASE d = c /\ s # t
  <2>1. Fed(c, s)' => Fed(c, s)
    BY <1>2 DEF Fed, Hears, Register, TypeOK
  <2>2. gap'[c][s] = gap[c][s]
    BY <1>0, <1>2 DEF TypeOK
  <2> QED
    BY <1>2, <2>1, <2>2 DEF Covered, Covers, HasItem, Awaited, CastingTo
<1>3. CASE d = c /\ s = t
  <2>1. gap'[c][t] = (IF Hears(c, t) THEN gap[c][t] ELSE 1..told[t]) \ 1..n
    BY <1>0 DEF TypeOK
  <2>2. \A i \in 1..n : HasItem(c, t, i)'
    BY DEF HasItem
  <2>3. ASSUME Fed(c, t)', Hears(c, t), NEW i \in 1..told[t], i \notin 1..n
        PROVE  HasItem(c, t, i)'
    <3>1. HasItem(c, t, i)
      BY <2>3 DEF Covered, Covers, Fed, Awaited, CastingTo
    <3> QED
      BY <2>1, <2>3, <3>1 DEF HasItem
  <2>4. ASSUME ~ Hears(c, t), NEW i \in 1..told[t], i \notin 1..n
        PROVE  HasItem(c, t, i)'
    BY <2>1, <2>4 DEF HasItem
  <2> QED
    BY <1>3, <2>2, <2>3, <2>4 DEF Covers
<1> QED
  BY <1>1, <1>2, <1>3

(* A new client gets what is told from now on. *)
LEMMA ConnectCovers ==
  ASSUME TypeOK, Covered, NEW c \in Conns, Connect(c)
  PROVE  Covered'
<1> SUFFICES ASSUME NEW d \in Conns, NEW s \in Sessions
             PROVE  Covers(d, s)'
  BY DEF Covered
<1>1. /\ gap' = [gap EXCEPT ![c] = [t \in Sessions |-> 1..told[t]]]
      /\ clients' = clients \cup {c} /\ subs' = [subs EXCEPT ![c] = {}]
      /\ pc' = [pc EXCEPT ![c] = "hello"]
      /\ UNCHANGED <<about, copy, sock, told, cast, got, snap>>
  BY DEF Connect, Goto, net
<1>2. CASE d = c
  BY <1>1, <1>2 DEF Covers, HasItem, TypeOK
<1>3. CASE d # c
  <2>1. Fed(d, s)' => Fed(d, s)
    BY <1>1, <1>3 DEF Fed, Hears, TypeOK
  <2>2. gap'[d] = gap[d] /\ pc'[d] = pc[d]
    BY <1>1, <1>3 DEF TypeOK
  <2> QED
    BY <1>1, <2>1, <2>2 DEF Covered, Covers, HasItem, Awaited, CastingTo
<1> QED
  BY <1>2, <1>3

(* The snapshot that is sent has what the one before it had. *)
LEMMA WriteCovers ==
  ASSUME TypeOK, AboutOK, SnapOK, Covered, NEW c \in Conns, WriteDone(c)
  PROVE  Covered'
<1> SUFFICES ASSUME NEW d \in Conns, NEW s \in Sessions
             PROVE  Covers(d, s)'
  BY DEF Covered
<1>1. /\ UNCHANGED <<clients, subs, about, copy, sock, told, cast, got, gap>>
      /\ pc' = [pc EXCEPT ![c] = "reading"]
      /\ snap' = [snap EXCEPT ![c] = IF pc[c] = "snapshot"
                                       THEN [snap[c] EXCEPT ![about[c]] = copy[c]] ELSE snap[c]]
  BY DEF WriteDone, Wrote, Goto
<1>2. pc[c] # "leaving" => (Fed(d, s)' => Fed(d, s))
  BY <1>1 DEF Fed, Hears, TypeOK
<1>3. CASE d # c
  <2>1. snap'[d] = snap[d] /\ pc'[d] = pc[d]
    BY <1>1, <1>3 DEF TypeOK
  <2> QED
    BY <1>1, <2>1 DEF Covered, Covers, Fed, Hears, HasItem, Awaited, CastingTo
<1>4. CASE d = c /\ pc[c] = "snapshot"
  <2>1. copy[c] \in Nat /\ copy[c] # None /\ about[c] \in Sessions
    BY <1>4, ConstantsAssumption DEF TypeOK, AboutOK
  <2>2. snap'[c][s] = IF s = about[c] THEN copy[c] ELSE snap[c][s]
    BY <1>1, <1>4, <2>1 DEF TypeOK
  <2>3. ASSUME NEW i \in 1..told[s], HasItem(c, s, i)
        PROVE  HasItem(c, s, i)'
    <3>1. CASE s = about[c]
      <4>1. snap[c][s] # None => snap[c][s] \in Nat /\ snap[c][s] <= copy[c]
        BY <1>4, <3>1 DEF SnapOK, TypeOK
      <4> QED
        BY <1>1, <2>1, <2>2, <2>3, <3>1, <4>1 DEF HasItem, TypeOK
    <3>2. CASE s # about[c]
      BY <1>1, <2>2, <2>3, <3>2 DEF HasItem
    <3> QED
      BY <3>1, <3>2
  <2> QED
    BY <1>1, <1>2, <1>4, <2>3 DEF Covered, Covers, Awaited, CastingTo
<1>5. CASE d = c /\ pc[c] # "snapshot"
  <2>1. snap'[c] = snap[c]
    BY <1>1, <1>5 DEF TypeOK
  <2>2. pc[c] # "leaving"
    BY DEF AboutOK, WriteDone
  <2> QED
    BY <1>1, <1>2, <1>5, <2>1, <2>2 DEF Covered, Covers, HasItem, Awaited, CastingTo
<1> QED
  BY <1>3, <1>4, <1>5

(* A Broadcast owes its item to its audience, and pays as it sends it. *)
LEMMA StartCovers ==
  ASSUME TypeOK, Covered, NEW t \in Sessions, BroadcastStart(t)
  PROVE  Covered'
<1> SUFFICES ASSUME NEW d \in Conns, NEW s \in Sessions, Fed(d, s)', NEW i \in 1..told'[s]
             PROVE  HasItem(d, s, i)' \/ Awaited(d, s, i)'
  BY DEF Covered, Covers
<1>1. /\ told' = [told EXCEPT ![t] = told[t] + 1] /\ cast = None
      /\ cast' = [session |-> t, todo |-> Audience(t), at |-> None, failed |-> {}]
      /\ UNCHANGED <<clients, subs, about, copy, pc, sock, got, snap, gap>>
  BY DEF BroadcastStart, MuFree, conn, net, known
<1>2. ASSUME i \in 1..told[s]
      PROVE  HasItem(d, s, i)'
  BY <1>1, <1>2 DEF Covered, Covers, Fed, Hears, HasItem, Awaited, CastingTo
<1>3. ASSUME i \notin 1..told[s]
      PROVE  Awaited(d, s, i)'
  <2>1. s = t /\ i = told[s] + 1 /\ told'[s] = told[s] + 1
    <3>1. told[s] \in Nat /\ told'[s] = IF s = t THEN told[s] + 1 ELSE told[s]
      BY <1>1 DEF TypeOK
    <3> QED
      BY <1>3, <3>1
  <2>2. cast' \in Casts /\ cast'.session = t /\ cast'.todo = Audience(t)
    BY <1>1 DEF Audience, Casts
  <2>3. cast' # None
    BY <2>2, ConstantsAssumption
  <2> QED
    BY <1>1, <2>1, <2>2, <2>3 DEF Awaited, CastingTo, Audience, Fed, Hears, TypeOK
<1> QED
  BY <1>2, <1>3

LEMMA DoneCovers ==
  ASSUME TypeOK, AboutOK, Covered, NEW c \in Conns, CastDone(c)
  PROVE  Covered'
<1> SUFFICES ASSUME NEW d \in Conns, NEW s \in Sessions
             PROVE  Covers(d, s)'
  BY DEF Covered
<1>1. /\ UNCHANGED <<clients, subs, about, copy, pc, sock, told, snap, gap>>
      /\ cast # None /\ cast \in Casts
      /\ cast' = [cast EXCEPT !.at = None, !.todo = cast.todo \ {c}]
      /\ got' = [got EXCEPT ![c] = [got[c] EXCEPT ![cast.session] = @ \cup {told[cast.session]}]]
  BY DEF CastDone, Written, TypeOK, Casts, conn, net
<1>2. cast' # None /\ cast'.session = cast.session /\ cast'.todo = cast.todo \ {c}
  <2>1. cast' \in Casts /\ cast'.session = cast.session /\ cast'.todo = cast.todo \ {c}
    BY <1>1 DEF Casts
  <2> QED
    BY <2>1, ConstantsAssumption
<1>3. cast.session \in Sessions
  BY <1>1 DEF Casts
<1>4. ASSUME NEW i \in 1..told[s], HasItem(d, s, i)
      PROVE  HasItem(d, s, i)'
  <2>1. got[d][s] \subseteq got'[d][s]
    BY <1>1, <1>3 DEF TypeOK
  <2> QED
    BY <1>1, <1>4, <2>1 DEF HasItem
<1>5. ASSUME NEW i \in 1..told[s], Awaited(d, s, i)
      PROVE  HasItem(d, s, i)' \/ Awaited(d, s, i)'
  <2>1. CASE d = c
    <3>1. s = cast.session /\ i = told[cast.session]
      BY <1>1, <1>5 DEF Awaited, CastingTo
    <3>2. i \in got'[c][s]
      BY <1>1, <1>3, <3>1 DEF TypeOK
    <3> QED
      BY <2>1, <3>2 DEF HasItem
  <2>2. CASE d # c
    BY <1>1, <1>2, <1>5, <2>2 DEF Awaited, CastingTo
  <2> QED
    BY <2>1, <2>2
<1>6. Fed(d, s)' <=> Fed(d, s)
  BY <1>1 DEF Fed, Hears
<1> QED
  BY <1>1, <1>4, <1>5, <1>6 DEF Covered, Covers

LEMMA NextCovered == IInv /\ [Next]_vars => Covered'
<1> SUFFICES ASSUME IInv, [Next]_vars
             PROVE  Covered'
  OBVIOUS
<1> USE DEF IInv, conn, net, known, Goto
<1>1. ASSUME NEW c \in Conns, Handler(c) \/ Ask(c)
      PROVE  Covered'
  <2>1. CASE Subscribe(c)
    <3>1. /\ cast = None /\ cast' = None /\ about[c] \in Sessions /\ copy[c] \in Nat
          /\ Register(c, about[c]) /\ NoteGap(c, about[c], copy[c])
          /\ UNCHANGED <<told, got, snap, sock, about, copy>>
          /\ pc[c] = "read" /\ pc' = [pc EXCEPT ![c] = "snapshot"]
      BY <2>1 DEF Subscribe, MuFree, TypeOK, AboutOK
    <3>2. pc'[c] = "snapshot" /\ \A d \in Conns \ {c} : pc'[d] = pc[d]
      BY <3>1 DEF TypeOK
    <3> QED
      BY <3>1, <3>2, RegisterCovers
  <2>2. ASSUME NEW s \in Sessions, ChatSend(c, s)
        PROVE  Covered'
    BY <2>2, RegisterCovers DEF ChatSend, MuFree
  <2>3. ASSUME NEW s \in Sessions, ReadTranscript(c, s)
        PROVE  Covered'
    BY <2>3, AsideCovered DEF ReadTranscript, CastingTo, TypeOK
  <2>4. CASE StartWrite(c)
    BY <2>4, AsideCovered DEF StartWrite, Panics, CastingTo, TypeOK
  <2>5. CASE WriteFails(c)
    <3>1. snap' = snap
      BY <2>5 DEF WriteFails, Wrote, TypeOK
    <3>2. sock' = [sock EXCEPT ![c] = IF @ = "closed" THEN @ ELSE "failed"]
      BY <2>5 DEF WriteFails
    <3>3. sock'[c] # "ok" /\ \A d \in Conns \ {c} : sock'[d] = sock[d] /\ pc'[d] = pc[d]
      BY <2>5, <3>2 DEF WriteFails, Wrote, TypeOK
    <3>4. pc[c] # "leaving"
      BY <2>5 DEF WriteFails, AboutOK
    <3> QED
      BY <2>5, <3>1, <3>3, <3>4, AsideCovered DEF WriteFails, Wrote, CastingTo
  <2>6. CASE ReadFails(c)
    BY <2>6, AsideCovered DEF ReadFails, CastingTo, TypeOK
  <2>7. CASE Leave(c)
    BY <2>7, AsideCovered DEF Leave, CastingTo, TypeOK
  <2> QED
    BY <1>1, <2>1, <2>2, <2>3, <2>4, <2>5, <2>6, <2>7, ConnectCovers, WriteCovers DEF Handler, Ask
<1>2. ASSUME NEW c \in Conns, PeerChanges(c) \/ DeadlinePasses(c)
      PROVE  Covered'
  BY <1>2, AsideCovered DEF PeerChanges, DeadlinePasses, CastingTo
<1>3. ASSUME NEW s \in Sessions, SaveItem(s)
      PROVE  Covered'
  BY <1>3, AsideCovered DEF SaveItem, CastingTo
<1>4. CASE BroadcastEnd
  BY <1>4, AsideCovered DEF BroadcastEnd, CastingTo
<1>5. ASSUME NEW c \in Conns, CastBegin(c)
      PROVE  Covered'
  <2>1. \A s \in Sessions : CastingTo(s) => CastingTo(s)' /\ cast'.todo = cast.todo
    <3>1. CASE cast' = cast
      BY <3>1 DEF CastingTo
    <3>2. CASE cast' = [cast EXCEPT !.at = c]
      <4>1. cast \in Casts
        BY <1>5 DEF CastBegin, TypeOK
      <4>2. cast' \in Casts /\ cast'.session = cast.session /\ cast'.todo = cast.todo
        BY <3>2, <4>1 DEF Casts
      <4> QED
        BY <4>2, ConstantsAssumption DEF CastingTo
    <3> QED
      BY <1>5, <3>1, <3>2 DEF CastBegin
  <2>2. \A d \in Conns : sock'[d] = "ok" => sock[d] = "ok"
    BY <1>5 DEF CastBegin, TypeOK
  <2> QED
    BY <1>5, <2>1, <2>2, AsideCovered DEF CastBegin
<1>6. ASSUME NEW c \in Conns, CastFails(c)
      PROVE  Covered'
  <2>1. cast \in Casts
    BY <1>6 DEF CastFails, TypeOK
  <2>2. cast' \in Casts /\ cast'.session = cast.session /\ cast'.todo = cast.todo \ {c}
    BY <1>6, <2>1 DEF CastFails, Written, Casts
  <2>3. sock'[c] # "ok" /\ \A d \in Conns : sock'[d] = "ok" => sock[d] = "ok"
    BY <1>6 DEF CastFails, TypeOK
  <2>4. \A d \in Conns, s \in Sessions : CastingTo(s) /\ d \in cast.todo =>
           (CastingTo(s) /\ d \in cast.todo)' \/ sock'[d] # "ok"
    BY <2>2, <2>3, ConstantsAssumption DEF CastingTo
  <2> QED
    BY <1>6, <2>3, <2>4, AsideCovered DEF CastFails
<1>7. CASE UNCHANGED vars
  BY <1>7, AsideCovered DEF vars, CastingTo
<1> QED
  BY <1>1, <1>2, <1>3, <1>4, <1>5, <1>6, <1>7, StartCovers, DoneCovers DEF Next, Broadcasting

(* A client that subscribes, however often and whatever is broadcast or    *)
(* saved meanwhile, misses nothing but the gap between the reading of its  *)
(* transcript and its registration (handleWS, Broadcast).                  *)
THEOREM OnlyTheGapIsMissed == Spec => []OnlyGapMissed
<1>1. IInv /\ [Next]_vars => IInv'
  BY NextTypeOK, NextSnapOK, NextCovered DEF IInv
<1> QED
  BY <1>1, InitIInv, CoveredImplies, PTL DEF Spec
==============================================================================
