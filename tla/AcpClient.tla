------------------------------ MODULE AcpClient ------------------------------
(***************************************************************************)
(* The hub's shared JSON-RPC client of `grok agent serve`                  *)
(* (internal/grokacp/client.go, autostart.go): dialling, initialize under  *)
(* a sync.Once, requests matched to answers by id, the read loop of each   *)
(* connection and failAll, the cache of loaded sessions, and an agent that *)
(* the hub starts itself.  Each caller is a goroutine that makes one call. *)
(*                                                                         *)
(* Close is left out: only tests and the AutoStart probe call it.          *)
(***************************************************************************)
EXTENDS Naturals

CONSTANTS
  Callers,    (* goroutines with a call to make, each with its own context *)
  Sessions,
  AutoStart,  (* Config.AutoStart                                          *)
  MaxConns    (* bound of the model: connections dialled                   *)

ASSUME ConstantsAssumption ==
  /\ Callers \cap {"down", "up"} = {}
  /\ AutoStart \in BOOLEAN
  /\ MaxConns \in Nat
------------------------------------------------------------------------------
Conns == 1..MaxConns
NoConn == 0

(* A request is the caller's own or the initialize sent on its behalf.     *)
Reqs == Callers \X {"call", "initialize"}
Own(c) == <<c, "call">>
Initialize(c) == <<c, "initialize">>

VARIABLES
  conn,      (* Client.conn; closed is set and cleared along with it        *)
  dials,     (* connections dialled so far                                  *)
  pending,   (* the requests in Client.pending                              *)
  once,      (* the two fields of initOnce: f has returned, mutex is held   *)
  initErr,   (* Client.initErr: "ok" stands for nil                         *)
  loaded,    (* sessions in Client.loaded                                   *)
  reader,    (* where the readLoop of each connection is                    *)
  failing,   (* the pending map that failAll took along                     *)
  pc,        (* where each caller is                                        *)
  kind,      (* what it calls: "new", "load", or "other"                     *)
  target,    (* for which session, as a set that holds it                   *)
  ctx,       (* its context is cancelled                                    *)
  waiter,    (* where the goroutine of its waitInit is                      *)
  rq,        (* how far each request is; at last "ok" or "err"              *)
  reply,     (* what is in the request's channel                            *)
  agent,     (* "down", "up" by itself, or the caller that started it       *)
  sockets,   (* connections whose socket is alive                           *)
  asked,     (* requests written to a connection and not answered           *)
  welcomed,  (* connections on which the agent accepted initialize          *)
  known      (* sessions the agent has open on each connection              *)

onceVars == <<once, initErr>>
connVars == <<conn, dials, reader, failing>>
callVars == <<pc, kind, target, ctx>>
reqVars == <<rq, reply, pending>>
agentVars == <<agent, sockets, asked, welcomed, known>>
vars == <<connVars, reqVars, onceVars, loaded, callVars, waiter, agentVars>>

Init ==
  /\ conn = NoConn
  /\ dials = 0
  /\ pending = {}
  /\ once = [done |-> FALSE, held |-> FALSE]
  /\ initErr = "ok"
  /\ loaded = {}
  /\ reader = [k \in Conns |-> "none"]
  /\ failing = [k \in Conns |-> {}]
  /\ pc = [c \in Callers |-> "idle"]
  /\ kind = [c \in Callers |-> "none"]
  /\ target = [c \in Callers |-> {}]
  /\ ctx = [c \in Callers |-> FALSE]
  /\ waiter = [c \in Callers |-> "none"]
  /\ rq = [r \in Reqs |-> "none"]
  /\ reply = [r \in Reqs |-> "none"]
  /\ agent \in {"down", "up"}
  /\ sockets = {}
  /\ asked = {}
  /\ welcomed = {}
  /\ known = [k \in Conns |-> {}]

Goto(c, label) == pc' = [pc EXCEPT ![c] = label]
------------------------------------------------------------------------------
(* NewSession, LoadSession, or a call that only sends a request (Prompt,   *)
(* SetConfigOption).  A session is created before it is used.              *)
Call(c) ==
  /\ pc[c] = "idle"
  /\ \E s \in Sessions : \E what \in {"new", "load", "other"} :
       /\ kind' = [kind EXCEPT ![c] = what]
       /\ target' = [target EXCEPT ![c] = {s}]
       /\ \A d \in Callers : target[d] = {s} => /\ what # "new"
                                              /\ (kind[d] = "new" => pc[d] = "done")
  /\ Goto(c, "check")
  /\ UNCHANGED <<connVars, reqVars, onceVars, loaded, ctx, waiter, agentVars>>

(* The caller's request is cancelled, times out, or is over.               *)
CancelContext(c) ==
  /\ pc[c] \notin {"idle", "aborted"}
  /\ ~ ctx[c]
  /\ ctx' = [ctx EXCEPT ![c] = TRUE]
  /\ UNCHANGED <<connVars, reqVars, onceVars, loaded, pc, kind, target, waiter, agentVars>>

(* EnsureConnected. *)
StartWaitInit(c) == Goto(c, "waitInit") /\ waiter' = [waiter EXCEPT ![c] = "do"]

Check(c) ==
  /\ pc[c] = "check"
  /\ \/ conn # NoConn /\ StartWaitInit(c)
     \/ conn = NoConn /\ Goto(c, "dial") /\ UNCHANGED waiter
  /\ UNCHANGED <<connVars, reqVars, onceVars, loaded, kind, target, ctx, agentVars>>

DialUnchecked(c) ==
  /\ pc[c] \in {"dial", "redial"}
  /\ agent # "down"
  /\ dials < MaxConns
  /\ dials' = dials + 1
  /\ conn' = dials'
  /\ sockets' = sockets \cup {dials'}
  /\ reader' = [reader EXCEPT ![dials'] = "reading"]
  /\ pending' = {}
  /\ once' = [done |-> FALSE, held |-> FALSE]
  /\ initErr' = "ok"
  /\ StartWaitInit(c)
  /\ UNCHANGED <<failing, rq, reply, loaded, kind, target, ctx, agent, asked, welcomed, known>>

(* dial, which holds Client.mu throughout.  It overwrites initOnce even    *)
(* while a goroutine is inside its Do.                                     *)
Dial(c) ==
  /\ pc[c] \in {"dial", "redial"}
  /\ conn = NoConn
  /\ agent # "down"
  /\ dials < MaxConns
  /\ dials' = dials + 1
  /\ conn' = dials'
  /\ sockets' = sockets \cup {dials'}
  /\ reader' = [reader EXCEPT ![dials'] = "reading"]
  /\ pending' = {}
  /\ once' = [done |-> FALSE, held |-> FALSE]
  /\ initErr' = "ok"
  /\ StartWaitInit(c)
  /\ UNCHANGED <<failing, rq, reply, loaded, kind, target, ctx, agent, asked, welcomed, known>>

DialElsewhere(c) ==
  /\ pc[c] \in {"dial", "redial"}
  /\ conn # NoConn
  /\ StartWaitInit(c)
  /\ UNCHANGED <<connVars, reqVars, onceVars, loaded, kind, target, ctx, agentVars>>

DialFails(c) ==
  /\ pc[c] \in {"dial", "redial"}
  /\ conn = NoConn
  /\ Goto(c, IF AutoStart /\ pc[c] = "dial" THEN "autoStart" ELSE "failed")
  /\ UNCHANGED <<connVars, reqVars, onceVars, loaded, kind, target, ctx, waiter, agentVars>>

(* AutoStart: exec.CommandContext with the caller's context, then probes.  *)
Started(c) == IF agent = "down" /\ ~ ctx[c] THEN c ELSE agent

StartAgent(c) ==
  /\ pc[c] = "autoStart"
  /\ \/ agent' = Started(c) /\ agent' # "down" /\ Goto(c, "redial")
     \/ agent' \in {agent, Started(c)} /\ Goto(c, "failed")
  /\ UNCHANGED <<connVars, reqVars, onceVars, loaded, kind, target, ctx, waiter, sockets, asked,
                 welcomed, known>>

(* CommandContext kills the agent when its context is done. *)
KillAgent(c) ==
  /\ agent = c
  /\ ctx[c]
  /\ agent' = "down"
  /\ sockets' = {}
  /\ UNCHANGED <<connVars, reqVars, onceVars, loaded, callVars, waiter, asked, welcomed, known>>
------------------------------------------------------------------------------
(* The goroutine of waitInit: initOnce.Do.                                 *)
DoneAlready(c) ==
  /\ waiter[c] = "do"
  /\ once.done
  /\ waiter' = [waiter EXCEPT ![c] = "returned"]
  /\ UNCHANGED <<connVars, reqVars, onceVars, loaded, callVars, agentVars>>

(* Do takes the Once's mutex and looks again. *)
EnterOnce(c) ==
  /\ waiter[c] = "do"
  /\ ~ once.held
  /\ \/ /\ once.done
        /\ waiter' = [waiter EXCEPT ![c] = "returned"]
        /\ UNCHANGED <<once, rq>>
     \/ /\ ~ once.done
        /\ once' = [once EXCEPT !.held = TRUE]
        /\ waiter' = [waiter EXCEPT ![c] = "initialize"]
        /\ rq' = [rq EXCEPT ![Initialize(c)] = "new"]
  /\ UNCHANGED <<connVars, reply, pending, initErr, loaded, callVars, agentVars>>

(* doInitialize returns. *)
SetInitErr(c) ==
  /\ waiter[c] = "initialize"
  /\ rq[Initialize(c)] \in {"ok", "err"}
  /\ initErr' = rq[Initialize(c)]
  /\ waiter' = [waiter EXCEPT ![c] = "leave"]
  /\ UNCHANGED <<connVars, reqVars, once, loaded, callVars, agentVars>>

(* Do marks the Once done and unlocks its mutex: both may be the next      *)
(* connection's if dial has reset them meanwhile.                          *)
LeaveOnce(c) ==
  /\ waiter[c] = "leave"
  /\ once.held
  /\ once' = [done |-> TRUE, held |-> FALSE]
  /\ waiter' = [waiter EXCEPT ![c] = "returned"]
  /\ UNCHANGED <<connVars, reqVars, initErr, loaded, callVars, agentVars>>

(* If nobody holds it then, the runtime aborts the whole process:          *)
(* "sync: unlock of unlocked mutex".                                       *)
Abort(c) ==
  /\ waiter[c] = "leave"
  /\ ~ once.held
  /\ pc' = [d \in Callers |-> "aborted"]
  /\ waiter' = [d \in Callers |-> "none"]
  /\ rq' = [r \in Reqs |-> "none"]
  /\ reader' = [k \in Conns |-> "gone"]
  /\ conn' = NoConn
  /\ pending' = {}
  /\ loaded' = {}
  /\ sockets' = {}
  /\ UNCHANGED <<dials, failing, reply, onceVars, kind, target, ctx, agent, asked, welcomed, known>>

WaitInitUnchecked(c) ==
  /\ pc[c] = "waitInit"
  /\ \/ waiter[c] = "returned" /\ Goto(c, "connected")
     \/ ctx[c] /\ Goto(c, "failed")
  /\ UNCHANGED <<connVars, reqVars, onceVars, loaded, kind, target, ctx, waiter, agentVars>>

WaitInit(c) ==
  /\ pc[c] = "waitInit"
  /\ \/ waiter[c] = "returned" /\ Goto(c, IF initErr = "ok" THEN "connected" ELSE "failed")
     \/ ctx[c] /\ Goto(c, "failed")
  /\ UNCHANGED <<connVars, reqVars, onceVars, loaded, kind, target, ctx, waiter, agentVars>>
------------------------------------------------------------------------------
(* After EnsureConnected the call goes on without looking at the           *)
(* connection again: LoadSession returns at once for a loaded session.     *)
AlreadyLoaded(c) ==
  /\ pc[c] = "connected"
  /\ kind[c] = "load"
  /\ target[c] \subseteq loaded
  /\ Goto(c, "done")
  /\ UNCHANGED <<connVars, reqVars, onceVars, loaded, kind, target, ctx, waiter, agentVars>>

Request(c) ==
  /\ pc[c] = "connected"
  /\ kind[c] = "load" => ~ (target[c] \subseteq loaded)
  /\ Goto(c, "requesting")
  /\ rq' = [rq EXCEPT ![Own(c)] = "new"]
  /\ UNCHANGED <<connVars, reply, pending, onceVars, loaded, kind, target, ctx, waiter, agentVars>>

Requested(c) ==
  /\ pc[c] = "requesting"
  /\ \/ /\ rq[Own(c)] = "ok"
        /\ loaded' = IF kind[c] \in {"new", "load"} THEN loaded \cup target[c] ELSE loaded
        /\ Goto(c, "done")
     \/ rq[Own(c)] = "err" /\ Goto(c, "failed") /\ UNCHANGED loaded
  /\ UNCHANGED <<connVars, reqVars, onceVars, kind, target, ctx, waiter, agentVars>>

(* Client.request, whose caller is at Reqs' element r. *)
Register(r) ==
  /\ rq[r] = "new"
  /\ \/ conn = NoConn /\ rq' = [rq EXCEPT ![r] = "err"] /\ UNCHANGED pending
     \/ conn # NoConn /\ rq' = [rq EXCEPT ![r] = "registered"] /\ pending' = pending \cup {r}
  /\ UNCHANGED <<connVars, reply, onceVars, loaded, callVars, waiter, agentVars>>

(* writeJSON takes the connection there is by now; it may fail.            *)
Write(r) ==
  /\ rq[r] = "registered"
  /\ \/ /\ conn # NoConn
        /\ rq' = [rq EXCEPT ![r] = "waiting"]
        /\ asked' = asked \cup {<<conn, r>>}
        /\ UNCHANGED pending
     \/ /\ rq' = [rq EXCEPT ![r] = "err"]
        /\ pending' = pending \ {r}
        /\ UNCHANGED asked
  /\ UNCHANGED <<connVars, reply, onceVars, loaded, callVars, waiter, agent, sockets, welcomed,
                 known>>

GetReply(r) ==
  /\ rq[r] = "waiting"
  /\ reply[r] # "none"
  /\ rq' = [rq EXCEPT ![r] = reply[r]]
  /\ pending' = pending \ {r}
  /\ UNCHANGED <<connVars, reply, onceVars, loaded, callVars, waiter, agentVars>>

(* initialize has a context of its own that nobody cancels. *)
Abandon(c) ==
  /\ rq[Own(c)] = "waiting"
  /\ ctx[c]
  /\ rq' = [rq EXCEPT ![Own(c)] = "err"]
  /\ pending' = pending \ {Own(c)}
  /\ UNCHANGED <<connVars, reply, onceVars, loaded, callVars, waiter, agentVars>>
------------------------------------------------------------------------------
(* The agent answers, readLoop hands the answer to the request's channel.  *)
(* Its capacity is one: what does not fit is dropped.                      *)
PutReply(rs, result) ==
  reply' = [r \in Reqs |-> IF r \in rs /\ reply[r] = "none" THEN result ELSE reply[r]]

Answer(k, r) ==
  /\ reader[k] = "reading"
  /\ k \in sockets
  /\ <<k, r>> \in asked
  /\ asked' = asked \ {<<k, r>>}
  /\ \E result \in {"ok", "err"} :
       /\ PutReply({r} \cap pending, result)
       /\ welcomed' = IF result = "ok" /\ r[2] = "initialize" THEN welcomed \cup {k} ELSE welcomed
       /\ known' = IF result = "ok" /\ r[2] = "call" /\ kind[r[1]] \in {"new", "load"}
                     THEN [known EXCEPT ![k] = @ \cup target[r[1]]]
                     ELSE known
  /\ UNCHANGED <<connVars, rq, pending, onceVars, loaded, callVars, waiter, agent, sockets>>

(* The connection is lost. *)
Drop(k) ==
  /\ k \in sockets
  /\ sockets' = sockets \ {k}
  /\ UNCHANGED <<connVars, reqVars, onceVars, loaded, callVars, waiter, agent, asked, welcomed,
                 known>>

FailAllForgets(k) ==
  /\ reader[k] = "reading"
  /\ k \notin sockets
  /\ conn' = NoConn
  /\ pending' = {}
  /\ reader' = [reader EXCEPT ![k] = "failed"]
  /\ UNCHANGED <<dials, failing, rq, reply, onceVars, loaded, callVars, waiter, agentVars>>

(* failAll: under mu, then under loadedMu, then one message per request.   *)
FailAll(k) ==
  /\ reader[k] = "reading"
  /\ k \notin sockets
  /\ conn' = NoConn
  /\ failing' = [failing EXCEPT ![k] = pending]
  /\ pending' = {}
  /\ reader' = [reader EXCEPT ![k] = "failed"]
  /\ UNCHANGED <<dials, rq, reply, onceVars, loaded, callVars, waiter, agentVars>>

ForgetLoaded(k) ==
  /\ reader[k] = "failed"
  /\ loaded' = {}
  /\ reader' = [reader EXCEPT ![k] = "forgot"]
  /\ UNCHANGED <<conn, dials, failing, reqVars, onceVars, callVars, waiter, agentVars>>

FailRequestsNot(k) ==
  /\ reader[k] = "forgot"
  /\ reader' = [reader EXCEPT ![k] = "gone"]
  /\ UNCHANGED <<conn, dials, failing, reqVars, onceVars, loaded, callVars, waiter, agentVars>>

FailRequests(k) ==
  /\ reader[k] = "forgot"
  /\ PutReply(failing[k], "err")
  /\ reader' = [reader EXCEPT ![k] = "gone"]
  /\ UNCHANGED <<conn, dials, failing, rq, pending, onceVars, loaded, callVars, waiter,
                 agentVars>>
------------------------------------------------------------------------------
Connecting(c) ==
  Check(c) \/ Dial(c) \/ DialElsewhere(c) \/ DialFails(c) \/ StartAgent(c) \/ WaitInit(c)

Initializing(c) == DoneAlready(c) \/ EnterOnce(c) \/ SetInitErr(c) \/ LeaveOnce(c) \/ Abort(c)
Calling(c) == AlreadyLoaded(c) \/ Request(c) \/ Requested(c) \/ Abandon(c)
Requesting(r) == Register(r) \/ Write(r) \/ GetReply(r)
Failing(k) == FailAll(k) \/ ForgetLoaded(k) \/ FailRequests(k)

Next ==
  \/ \E c \in Callers : \/ Call(c) \/ CancelContext(c) \/ KillAgent(c)
                        \/ Connecting(c) \/ Initializing(c) \/ Calling(c)
  \/ \E r \in Reqs : Requesting(r) \/ \E k \in Conns : Answer(k, r)
  \/ \E k \in Conns : Drop(k) \/ Failing(k)

Spec == Init /\ [][Next]_vars

Answered(k, r) == <<k, r>> \in asked /\ (Answer(k, r) \/ Drop(k))

(* Goroutines run, and the agent answers what it is asked or hangs up.     *)
(* (Waking the goroutines that sleep on the Once's mutex is not certain    *)
(* once dial has overwritten it: fairness is assumed of one connection.)   *)
FairSpec ==
  /\ Spec
  /\ \A c \in Callers : /\ WF_vars(Connecting(c))
                        /\ WF_vars(Initializing(c))
                        /\ WF_vars(Calling(c))
  /\ \A r \in Reqs : WF_vars(Requesting(r))
  /\ \A k \in Conns : /\ WF_vars(Failing(k))
                      /\ \A r \in Reqs : WF_vars(Answered(k, r))
------------------------------------------------------------------------------
Over == {"done", "failed"}

(* The shape of the state. *)
TypeOK ==
  /\ conn \in Conns \cup {NoConn}
  /\ dials \in 0..MaxConns
  /\ pending \subseteq Reqs
  /\ once \in [done : BOOLEAN, held : BOOLEAN]
  /\ initErr \in {"ok", "err"}
  /\ loaded \subseteq Sessions
  /\ reader \in [Conns -> {"none", "reading", "failed", "forgot", "gone"}]
  /\ failing \in [Conns -> SUBSET Reqs]
  /\ pc \in [Callers -> {"idle", "check", "dial", "autoStart", "redial", "waitInit", "connected",
                         "requesting", "aborted"} \cup Over]
  /\ kind \in [Callers -> {"none", "new", "load", "other"}]
  /\ target \in [Callers -> SUBSET Sessions]
  /\ ctx \in [Callers -> BOOLEAN]
  /\ waiter \in [Callers -> {"none", "do", "initialize", "leave", "returned"}]
  /\ rq \in [Reqs -> {"none", "new", "registered", "waiting", "ok", "err"}]
  /\ reply \in [Reqs -> {"none", "ok", "err"}]
  /\ agent \in {"down", "up"} \cup Callers
  /\ sockets \subseteq Conns
  /\ asked \subseteq Conns \X Reqs
  /\ welcomed \subseteq Conns
  /\ known \in [Conns -> SUBSET Sessions]

(* failAll clears Client.conn without looking whose it is.  It never kills *)
(* a newer connection: the only loop that reads is the current one's, and  *)
(* its connection is replaced only after it has left.                      *)
OneReader == \A k \in Conns : reader[k] = "reading" <=> conn = k

(* A request that waits is not forgotten: it is in the map and was asked   *)
(* on the connection that the read loop reads, or failAll is about to tell *)
(* it.  dial starts an empty map, so it must find nobody waiting in the    *)
(* old one.                                                                *)
WaitsForSomething ==
  \A r \in Reqs :
    rq[r] = "waiting" /\ reply[r] = "none" =>
      \/ r \in pending /\ <<conn, r>> \in asked
      \/ \E k \in Conns : reader[k] \in {"failed", "forgot"} /\ r \in failing[k]

(* The client goes by what an agent has told it: a request waits on the    *)
(* first connection only if initialize was accepted there, whoever of the  *)
(* callers sent it (on a later one it may be early: the caller checked the *)
(* connection before it), and a session is in the cache only if an agent   *)
(* has opened it, though maybe on a connection that is gone: failAll and   *)
(* the answer to session/load race for the cache.                          *)
AgentAgreed ==
  /\ \A c \in Callers : rq[Own(c)] = "waiting" /\ conn = 1 => 1 \in welcomed
  /\ loaded \subseteq UNION {known[k] : k \in Conns}

(* Every call returns, whatever the connection does.                       *)
CallsReturn == \A c \in Callers : (pc[c] = "check") ~> (pc[c] \in Over \cup {"aborted"})
------------------------------------------------------------------------------
(* What the repository says of the client and the code does not keep.      *)

(* autostart.go:38, "Detach: don't wait; process keeps running for the hub *)
(* lifetime": an agent that the hub started is not ended by the hub, least *)
(* of all because the call that happened to need it first is over.         *)
AgentOutlivesCaller == [][agent # "down" => agent' # "down"]_vars

(* client.go:234, "LoadSession resumes an existing Build session": when it *)
(* says so at once because the cache has the session, the agent on the     *)
(* connection has it open.                                                 *)
LoadResumes ==
  [][\A c \in Callers :
       pc[c] = "connected" /\ pc'[c] = "done" /\ conn # NoConn
         => target[c] \subseteq known[conn]]_vars
==============================================================================
