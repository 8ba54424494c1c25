------------------------------- MODULE Fanout -------------------------------
(***************************************************************************)
(* The WebSocket clients of the hub (internal/hub/server.go): Hub.clients  *)
(* under hub.mu, Broadcast, and the handler of each connection.            *)
(*                                                                         *)
(* A session's turns produce items one after the other: a user message is  *)
(* saved, then broadcast; a reply is broadcast, then saved (runChat).      *)
(* session.subscribe reads the transcript, then registers the client, then *)
(* sends what it has read.  The handler writes outside of hub.mu, so its   *)
(* writes and Broadcast's meet on the connection, which allows one writer. *)
(***************************************************************************)
EXTENDS Naturals, FiniteSets

CONSTANTS
  Conns, Sessions, None,
  MaxItems,  (* bound of the model: items of each session                  *)
  MaxAsks,   (* bound of the model: messages each client sends             *)
  MaxTroubles (* bound of the model: clients that stall, or go             *)

(* A Broadcast under way: to whom it has still to write, to whom it is      *)
(* writing, and who has failed.                                            *)
Casts == [session : Sessions, todo : SUBSET Conns, at : Conns \cup {None}, failed : SUBSET Conns]

ASSUME ConstantsAssumption ==
  /\ MaxItems \in [Sessions -> Nat] /\ MaxAsks \in [Conns -> Nat] /\ MaxTroubles \in Nat
  /\ None \notin Conns \cup Sessions /\ None \notin Nat /\ None \notin Casts

VARIABLES
  clients,   (* connections that are keys of Hub.clients                    *)
  subs,      (* and the sessions each is subscribed to                      *)
  pc,        (* where handleWS is, per connection                           *)
  about,     (* the session of the message being handled                    *)
  copy,      (* how many items the transcript had when it was read          *)
  writing,   (* the handler is inside a WriteJSON                           *)
  sock,      (* "ok", "failed" (all writes fail from now on), "closed"      *)
  peer,      (* the client "reads", is "stalled" or "gone"                  *)
  deadline,  (* the write deadline: "none", "ahead" or "past"               *)
  saved,     (* items of each session on disk                               *)
  told,      (* items of each session broadcast                             *)
  cast,      (* None, or the Broadcast that holds hub.mu                    *)
  got,       (* items each client was sent as events                        *)
  snap,      (* items of the last snapshot a client was sent                *)
  gap,       (* items told, and not in what was read, when it registered    *)
  asked,     (* messages each client has sent                               *)
  dead,      (* the process has died of a panic                             *)
  troubles   (* how often a client has stalled or gone                      *)

conn == <<pc, about, copy, writing, asked>>
net == <<sock, peer, deadline, troubles>>
known == <<got, snap, gap>>
vars == <<clients, subs, conn, net, saved, told, cast, known, dead>>

Goto(c, label) == pc' = [pc EXCEPT ![c] = label]
MuFree == cast = None /\ ~ dead
CastingTo(s) == IF cast = None THEN FALSE ELSE cast.session = s
WritingTo(c) == IF cast = None THEN FALSE ELSE cast.at = c

Init ==
  /\ clients = {}
  /\ subs = [c \in Conns |-> {}]
  /\ pc = [c \in Conns |-> "new"]
  /\ about = [c \in Conns |-> None]
  /\ copy = [c \in Conns |-> 0]
  /\ writing = [c \in Conns |-> FALSE]
  /\ sock = [c \in Conns |-> "ok"]
  /\ peer = [c \in Conns |-> "reads"]
  /\ deadline = [c \in Conns |-> "none"]
  /\ saved = [s \in Sessions |-> 0]
  /\ told = [s \in Sessions |-> 0]
  /\ cast = None
  /\ got = [c \in Conns |-> [s \in Sessions |-> {}]]
  /\ snap = [c \in Conns |-> [s \in Sessions |-> None]]
  /\ gap = [c \in Conns |-> [s \in Sessions |-> {}]]
  /\ asked = [c \in Conns |-> 0]
  /\ dead = FALSE
  /\ troubles = 0
------------------------------------------------------------------------------
(* handleWS.  A client with no subscription hears of every session.        *)
Hears(c, s) == c \in clients /\ (subs[c] = {} \/ s \in subs[c])

Connect(c) ==
  /\ MuFree
  /\ pc[c] = "new"
  /\ clients' = clients \cup {c}
  /\ subs' = [subs EXCEPT ![c] = {}]
  /\ gap' = [gap EXCEPT ![c] = [s \in Sessions |-> 1..told[s]]]
  /\ Goto(c, "hello")
  /\ UNCHANGED <<about, copy, writing, asked, net, saved, told, cast, got, snap, dead>>

(* session.subscribe: the transcript as it is now. *)
ReadTranscript(c, s) ==
  /\ ~ dead
  /\ pc[c] = "reading" /\ ~ writing[c]
  /\ asked[c] < MaxAsks[c]
  /\ asked' = [asked EXCEPT ![c] = @ + 1]
  /\ about' = [about EXCEPT ![c] = s]
  /\ copy' = [copy EXCEPT ![c] = saved[s]]
  /\ Goto(c, "read")
  /\ UNCHANGED <<clients, subs, writing, net, saved, told, cast, known, dead>>

(* The entry is made again should Broadcast have dropped it meanwhile. *)
Register(c, s) ==
  /\ clients' = clients \cup {c}
  /\ subs' = [subs EXCEPT ![c] = IF c \in clients THEN @ \cup {s} ELSE {s}]

(* What the client has to do without: told before, not heard and not read. *)
NoteGap(c, s, n) ==
  gap' = [gap EXCEPT ![c][s] = (IF Hears(c, s) THEN @ ELSE 1..told[s]) \ 1..n]

Subscribe(c) ==
  /\ MuFree
  /\ pc[c] = "read"
  /\ Register(c, about[c])
  /\ NoteGap(c, about[c], copy[c])
  /\ Goto(c, "snapshot")
  /\ UNCHANGED <<about, copy, writing, asked, net, saved, told, cast, got, snap, dead>>

(* chat.send registers alike but sends no snapshot. *)
ChatSend(c, s) ==
  /\ MuFree
  /\ pc[c] = "reading" /\ ~ writing[c]
  /\ asked[c] < MaxAsks[c]
  /\ asked' = [asked EXCEPT ![c] = @ + 1]
  /\ Register(c, s)
  /\ NoteGap(c, s, 0)
  /\ UNCHANGED <<pc, about, copy, writing, net, saved, told, cast, got, snap, dead>>

(* WriteJSON: the hello, a snapshot, or a pong, with whatever deadline the *)
(* last Broadcast left.  A connection with two writers panics in the       *)
(* second, or sends frames that the client cannot read.  A handler's panic *)
(* is recovered by net/http once its defer has run; the hello is written   *)
(* before there is a defer, so that nobody reads from that client again    *)
(* ("deaf") but Broadcast goes on writing to it.                           *)
Panics(c) ==
  /\ Goto(c, IF pc[c] = "hello" THEN "deaf" ELSE "leaving")
  /\ sock' \in {sock, [sock EXCEPT ![c] = IF @ = "ok" THEN "failed" ELSE @]}
  /\ UNCHANGED <<writing, asked>>

StartWrite(c) ==
  /\ ~ dead
  /\ pc[c] \in {"hello", "snapshot"} \/ (pc[c] = "reading" /\ asked[c] < MaxAsks[c])
  /\ ~ writing[c]
  /\ \/ WritingTo(c) /\ Panics(c)
     \/ /\ writing' = [writing EXCEPT ![c] = TRUE]
        /\ asked' = [asked EXCEPT ![c] = IF pc[c] = "reading" THEN @ + 1 ELSE @]
        /\ sock' = [sock EXCEPT ![c] = IF WritingTo(c) /\ @ = "ok" THEN "failed" ELSE @]
        /\ UNCHANGED pc
  /\ UNCHANGED <<clients, subs, about, copy, peer, deadline, troubles, saved, told, cast, known, dead>>

(* Errors of these writes are ignored by the code. *)
Wrote(c, ok) ==
  /\ writing' = [writing EXCEPT ![c] = FALSE]
  /\ Goto(c, "reading")
  /\ snap' = [snap EXCEPT ![c] = IF ok /\ pc[c] = "snapshot"
                                  THEN [@ EXCEPT ![about[c]] = copy[c]] ELSE @]
  /\ UNCHANGED <<clients, subs, about, copy, asked, peer, deadline, troubles, saved, told, cast, got,
                 gap, dead>>

WriteDone(c) ==
  /\ ~ dead
  /\ writing[c] /\ sock[c] = "ok" /\ peer[c] = "reads" /\ deadline[c] # "past"
  /\ Wrote(c, TRUE)
  /\ UNCHANGED sock

WriteFails(c) ==
  /\ ~ dead
  /\ writing[c] /\ (sock[c] # "ok" \/ peer[c] = "gone" \/ deadline[c] = "past")
  /\ Wrote(c, FALSE)
  /\ sock' = [sock EXCEPT ![c] = IF @ = "closed" THEN @ ELSE "failed"]

(* ReadMessage fails. *)
ReadFails(c) ==
  /\ ~ dead
  /\ pc[c] = "reading" /\ ~ writing[c]
  /\ sock[c] = "closed" \/ peer[c] = "gone"
  /\ Goto(c, "leaving")
  /\ UNCHANGED <<clients, subs, about, copy, writing, asked, net, saved, told, cast, known, dead>>

LeaveListed(c) ==
  /\ MuFree
  /\ pc[c] = "leaving"
  /\ UNCHANGED clients
  /\ sock' = [sock EXCEPT ![c] = "closed"]
  /\ Goto(c, "gone")
  /\ UNCHANGED <<subs, about, copy, writing, asked, peer, deadline, troubles, saved, told, cast, known, dead>>

(* The deferred cleanup of handleWS. *)
Leave(c) ==
  /\ MuFree
  /\ pc[c] = "leaving"
  /\ clients' = clients \ {c}
  /\ sock' = [sock EXCEPT ![c] = "closed"]
  /\ Goto(c, "gone")
  /\ UNCHANGED <<subs, about, copy, writing, asked, peer, deadline, troubles, saved, told, cast, known, dead>>
------------------------------------------------------------------------------
(* runChat, one turn of a session at a time.  The next item is a user      *)
(* message, saved first, or a reply, told first.                           *)
SaveItem(s) ==
  /\ ~ dead
  /\ \/ saved[s] = told[s] /\ saved[s] < MaxItems[s]
     \/ saved[s] < told[s]
  /\ ~ CastingTo(s)
  /\ saved' = [saved EXCEPT ![s] = @ + 1]
  /\ UNCHANGED <<clients, subs, conn, net, told, cast, known, dead>>

(* Broadcast takes hub.mu and writes to one client after the other. *)
AudienceSubscribed(s) == {c \in clients : s \in subs[c]}
Audience(s) == {c \in Conns : Hears(c, s)}

BroadcastStart(s) ==
  /\ MuFree
  /\ \/ saved[s] = told[s] + 1
     \/ saved[s] = told[s] /\ told[s] < MaxItems[s]
  /\ told' = [told EXCEPT ![s] = @ + 1]
  /\ cast' = [session |-> s, todo |-> Audience(s), at |-> None, failed |-> {}]
  /\ UNCHANGED <<clients, subs, conn, net, saved, known, dead>>

CastBeginNoDeadline(c) ==
  /\ ~ dead
  /\ cast # None
  /\ cast.at = None /\ c \in cast.todo
  /\ ~ writing[c]
  /\ cast' = [cast EXCEPT !.at = c]
  /\ UNCHANGED <<clients, subs, conn, net, saved, told, known, dead>>

(* A panic in the goroutine of a turn ends the process. *)
CastBegin(c) ==
  /\ ~ dead
  /\ cast # None
  /\ cast.at = None /\ c \in cast.todo
  /\ deadline' = [deadline EXCEPT ![c] = "ahead"]
  /\ \/ writing[c] /\ dead' = TRUE /\ UNCHANGED <<cast, sock>>
     \/ /\ cast' = [cast EXCEPT !.at = c]
        /\ sock' = [sock EXCEPT ![c] = IF writing[c] /\ @ = "ok" THEN "failed" ELSE @]
        /\ UNCHANGED dead
  /\ UNCHANGED <<clients, subs, conn, peer, troubles, saved, told, known>>

Written(c, lost) ==
  cast' = [cast EXCEPT !.at = None, !.todo = @ \ {c},
                       !.failed = IF lost THEN @ \cup {c} ELSE @]

CastDone(c) ==
  /\ ~ dead
  /\ cast # None
  /\ cast.at = c /\ sock[c] = "ok" /\ peer[c] = "reads" /\ deadline[c] # "past"
  /\ Written(c, FALSE)
  /\ got' = [got EXCEPT ![c][cast.session] = @ \cup {told[cast.session]}]
  /\ UNCHANGED <<clients, subs, conn, net, saved, told, snap, gap, dead>>

CastFails(c) ==
  /\ ~ dead
  /\ cast # None
  /\ cast.at = c /\ (sock[c] # "ok" \/ peer[c] = "gone" \/ deadline[c] = "past")
  /\ Written(c, TRUE)
  /\ sock' = [sock EXCEPT ![c] = IF @ = "closed" THEN @ ELSE "failed"]
  /\ UNCHANGED <<clients, subs, conn, peer, deadline, troubles, saved, told, known, dead>>

(* Those that failed are dropped and closed, and hub.mu is free again. *)
BroadcastEnd ==
  /\ ~ dead
  /\ cast # None
  /\ cast.todo = {}
  /\ clients' = clients \ cast.failed
  /\ sock' = [c \in Conns |-> IF c \in cast.failed THEN "closed" ELSE sock[c]]
  /\ cast' = None
  /\ UNCHANGED <<subs, conn, peer, deadline, troubles, saved, told, known, dead>>
------------------------------------------------------------------------------
(* The client's side and the clock. *)
PeerChanges(c) ==
  /\ ~ dead
  /\ pc[c] # "new"
  /\ \/ /\ peer[c] # "gone" /\ troubles < MaxTroubles
        /\ peer' \in {[peer EXCEPT ![c] = p] : p \in {"stalled", "gone"} \ {peer[c]}}
        /\ troubles' = troubles + 1
     \/ /\ peer[c] = "stalled"
        /\ peer' = [peer EXCEPT ![c] = "reads"]
        /\ UNCHANGED troubles
  /\ UNCHANGED <<clients, subs, conn, sock, deadline, saved, told, cast, known, dead>>

(* Ten seconds after Broadcast has set it. *)
DeadlinePasses(c) ==
  /\ ~ dead
  /\ deadline[c] = "ahead"
  /\ deadline' = [deadline EXCEPT ![c] = "past"]
  /\ UNCHANGED <<clients, subs, conn, sock, peer, troubles, saved, told, cast, known, dead>>

Handler(c) ==
  \/ Subscribe(c) \/ WriteDone(c) \/ WriteFails(c) \/ ReadFails(c) \/ Leave(c)
  \/ (pc[c] # "reading" /\ StartWrite(c))

Ask(c) ==
  \/ Connect(c) \/ (pc[c] = "reading" /\ StartWrite(c))
  \/ \E s \in Sessions : ReadTranscript(c, s) \/ ChatSend(c, s)

Broadcasting ==
  BroadcastEnd \/ \E c \in Conns : CastBegin(c) \/ CastDone(c) \/ CastFails(c)

Next ==
  \/ \E c \in Conns : Handler(c) \/ Ask(c) \/ PeerChanges(c) \/ DeadlinePasses(c)
  \/ \E s \in Sessions : SaveItem(s) \/ BroadcastStart(s)
  \/ Broadcasting

Spec == Init /\ [][Next]_vars

(* Goroutines run and deadlines pass; nobody has to send or to read.       *)
FairSpec ==
  /\ Spec
  /\ WF_vars(Broadcasting)
  /\ \A c \in Conns : WF_vars(Handler(c)) /\ WF_vars(DeadlinePasses(c))
------------------------------------------------------------------------------
(* The shape of the state. *)
TypeOK ==
  /\ clients \subseteq Conns
  /\ subs \in [Conns -> SUBSET Sessions]
  /\ pc \in [Conns -> {"new", "hello", "reading", "read", "snapshot", "leaving", "gone",
                       "deaf"}]
  /\ about \in [Conns -> Sessions \cup {None}]
  /\ copy \in [Conns -> Nat]
  /\ writing \in [Conns -> BOOLEAN]
  /\ sock \in [Conns -> {"ok", "failed", "closed"}]
  /\ peer \in [Conns -> {"reads", "stalled", "gone"}]
  /\ deadline \in [Conns -> {"none", "ahead", "past"}]
  /\ saved \in [Sessions -> Nat]
  /\ told \in [Sessions -> Nat]
  /\ cast \in Casts \cup {None}
  /\ got \in [Conns -> [Sessions -> SUBSET (Nat \ {0})]]
  /\ snap \in [Conns -> [Sessions -> Nat \cup {None}]]
  /\ gap \in [Conns -> [Sessions -> SUBSET (Nat \ {0})]]
  /\ asked \in [Conns -> Nat]
  /\ dead \in BOOLEAN
  /\ troubles \in 0..MaxTroubles

(* A handler that has returned leaves no entry behind, although Broadcast  *)
(* drops entries behind its back and a subscribe then makes them again.    *)
NoZombie == \A c \in Conns : pc[c] = "gone" => c \notin clients /\ sock[c] = "closed"
Registered == TypeOK /\ NoZombie

(* The items broadcast to the client are all sent. *)
Settled(c, s) == CastingTo(s) => c \notin cast.todo

(* A client that hears of a session and whose connection works has been    *)
(* sent every item broadcast so far, as an event or in its snapshot,       *)
(* except those told before it was registered and not yet saved when its   *)
(* transcript was read: the gap between reading and registering is all     *)
(* that fan-out ever loses.  (A handler that panics before it has sent its *)
(* snapshot is on its way to close the connection: pc = "leaving".)        *)
HasItem(c, s, i) ==
  \/ i \in got[c][s] \cup gap[c][s]
  \/ snap[c][s] # None /\ i <= snap[c][s]
  \/ pc[c] = "snapshot" /\ about[c] = s /\ i <= copy[c]

OnlyGapMissed ==
  \A c \in Conns, s \in Sessions :
    Hears(c, s) /\ sock[c] = "ok" /\ pc[c] # "leaving" /\ Settled(c, s) =>
      \A i \in 1..told[s] : HasItem(c, s, i)

(* A client that reads nothing holds up hub.mu, and with it every turn and *)
(* every handler, for its write deadline at most: Broadcast ends.          *)
BroadcastEnds == (cast # None) ~> (cast = None \/ dead)

(* A connection that failed a Broadcast is gone from the hub for good at   *)
(* last, whatever its handler was doing.                                   *)
FailedForgotten == \A c \in Conns : (sock[c] = "closed") ~> (c \notin clients \/ dead)
------------------------------------------------------------------------------
(* internal/hub/hub_test.go:291, a session.subscribe is answered by a      *)
(* session.snapshot: it reaches a client that reads on a sound connection. *)
SubscribeAnswered ==
  [][\A c \in Conns :
       pc[c] = "snapshot" /\ pc'[c] = "reading" /\ sock[c] = "ok" /\ peer[c] = "reads"
         => sock'[c] = "ok"]_vars
==============================================================================
