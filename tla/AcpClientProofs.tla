--------------------------- MODULE AcpClientProofs ---------------------------
(***************************************************************************)
(* Proofs about AcpClient for any number of callers, sessions and          *)
(* connections.                                                            *)
(***************************************************************************)
EXTENDS AcpClient, TLAPS

LEMMA ConnFacts == NoConn \notin Conns /\ Conns \subseteq Nat
BY ConstantsAssumption DEF Conns, NoConn

LEMMA ReqFacts ==
  /\ \A c \in Callers : Own(c) \in Reqs /\ Initialize(c) \in Reqs
  /\ \A r \in Reqs : r[1] \in Callers
BY DEF Reqs, Own, Initialize

LEMMA InitTypeOK == Init => TypeOK
BY ConstantsAssumption DEF Init, TypeOK, NoConn

LEMMA DialNumber ==
  ASSUME TypeOK, dials < MaxConns
  PROVE  dials + 1 \in Conns /\ dials + 1 \in 0..MaxConns
BY ConstantsAssumption DEF TypeOK, Conns

LEMMA PutReplyType ==
  ASSUME TypeOK, NEW rs, NEW result \in {"ok", "err"}, PutReply(rs, result)
  PROVE  reply' \in [Reqs -> {"none", "ok", "err"}]
BY DEF TypeOK, PutReply

LEMMA ConnectTypeOK ==
  ASSUME TypeOK, NEW c \in Callers,
         Call(c) \/ CancelContext(c) \/ KillAgent(c) \/ Connecting(c)
  PROVE  TypeOK'
<1> USE DEF TypeOK, Goto, StartWaitInit, connVars, reqVars, onceVars, agentVars, callVars, Over
<1>1. CASE Call(c)
  BY <1>1 DEF Call
<1>2. CASE CancelContext(c)
  BY <1>2 DEF CancelContext
<1>6. CASE KillAgent(c)
  BY <1>6 DEF KillAgent
<1>3. CASE Check(c) \/ DialElsewhere(c) \/ DialFails(c) \/ WaitInit(c)
  BY <1>3 DEF Check, DialElsewhere, DialFails, WaitInit
<1>4. CASE Dial(c)
  BY <1>4, DialNumber DEF Dial
<1>5. CASE StartAgent(c)
  BY <1>5 DEF StartAgent, Started
<1> QED
  BY <1>1, <1>2, <1>3, <1>4, <1>5, <1>6 DEF Connecting

LEMMA CallTypeOK ==
  ASSUME TypeOK, NEW c \in Callers, Initializing(c) \/ Calling(c)
  PROVE  TypeOK'
<1> USE ReqFacts DEF TypeOK, Goto, connVars, reqVars, onceVars, agentVars, callVars, Over
<1>1. CASE DoneAlready(c)
  BY <1>1 DEF DoneAlready
<1>2. CASE EnterOnce(c)
  <2>1. CASE UNCHANGED <<once, rq>>
    BY <1>2, <2>1 DEF EnterOnce
  <2>2. CASE ~ UNCHANGED <<once, rq>>
    <3>1. /\ once' = [once EXCEPT !.held = TRUE]
          /\ waiter' = [waiter EXCEPT ![c] = "initialize"]
          /\ rq' = [rq EXCEPT ![Initialize(c)] = "new"]
      BY <1>2, <2>2 DEF EnterOnce
    <3>2. once' \in [done : BOOLEAN, held : BOOLEAN]
      BY <3>1
    <3> QED
      BY <1>2, <3>1, <3>2 DEF EnterOnce
  <2> QED
    BY <2>1, <2>2
<1>3. CASE SetInitErr(c)
  <2>1. initErr' \in {"ok", "err"}
    BY <1>3 DEF SetInitErr
  <2> QED
    BY <1>3, <2>1 DEF SetInitErr
<1>4. CASE LeaveOnce(c)
  <2>1. once' \in [done : BOOLEAN, held : BOOLEAN]
    BY <1>4 DEF LeaveOnce
  <2> QED
    BY <1>4, <2>1 DEF LeaveOnce
<1>5. CASE Abort(c)
  BY <1>5 DEF Abort
<1>6. CASE AlreadyLoaded(c)
  BY <1>6 DEF AlreadyLoaded
<1>7. CASE Abandon(c)
  BY <1>7 DEF Abandon
<1>8. CASE Request(c)
  BY <1>8 DEF Request
<1>9. CASE Requested(c)
  <2>1. loaded' \subseteq Sessions
    BY <1>9 DEF Requested
  <2>2. pc' = [pc EXCEPT ![c] = "done"] \/ pc' = [pc EXCEPT ![c] = "failed"]
    BY <1>9 DEF Requested
  <2> QED
    BY <1>9, <2>1, <2>2 DEF Requested
<1> QED
  BY <1>1, <1>2, <1>3, <1>4, <1>5, <1>6, <1>7, <1>8, <1>9 DEF Initializing, Calling

LEMMA RequestTypeOK ==
  ASSUME TypeOK, NEW r \in Reqs, Requesting(r)
  PROVE  TypeOK'
<1> USE DEF TypeOK, connVars, reqVars, onceVars, agentVars, callVars, Over
<1>1. CASE Register(r)
  BY <1>1 DEF Register
<1>2. CASE Write(r)
  <2>1. asked' \subseteq Conns \X Reqs
    BY <1>2, ConnFacts DEF Write
  <2>2. pending' \subseteq Reqs
    BY <1>2 DEF Write
  <2> QED
    BY <1>2, <2>1, <2>2 DEF Write
<1>3. CASE GetReply(r)
  BY <1>3 DEF GetReply
<1> QED
  BY <1>1, <1>2, <1>3 DEF Requesting

LEMMA AnswerTypeOK ==
  ASSUME TypeOK, NEW k \in Conns, NEW r \in Reqs, Answer(k, r)
  PROVE  TypeOK'
<1>1. reply' \in [Reqs -> {"none", "ok", "err"}]
  BY PutReplyType DEF Answer
<1>2. target[r[1]] \subseteq Sessions
  BY ReqFacts DEF TypeOK
<1>3. known' \in [Conns -> SUBSET Sessions]
  BY <1>2 DEF Answer, TypeOK
<1>4. welcomed' \subseteq Conns
  BY DEF Answer, TypeOK
<1> QED
  BY <1>1, <1>3, <1>4 DEF Answer, TypeOK, connVars, onceVars, callVars, Over

LEMMA ReaderTypeOK ==
  ASSUME TypeOK, NEW k \in Conns, Drop(k) \/ Failing(k)
  PROVE  TypeOK'
<1> USE DEF TypeOK, connVars, reqVars, onceVars, agentVars, callVars, Over
<1>1. CASE Drop(k) \/ FailAll(k) \/ ForgetLoaded(k)
  BY <1>1 DEF Drop, FailAll, ForgetLoaded
<1>2. CASE FailRequests(k)
  BY <1>2, PutReplyType DEF FailRequests
<1> QED
  BY <1>1, <1>2 DEF Failing

LEMMA NextTypeOK == TypeOK /\ [Next]_vars => TypeOK'
<1> SUFFICES ASSUME TypeOK, [Next]_vars
             PROVE  TypeOK'
  OBVIOUS
<1>1. CASE UNCHANGED vars
  BY <1>1 DEF vars, connVars, reqVars, onceVars, agentVars, callVars, TypeOK, Over
<1> QED
  BY <1>1, ConnectTypeOK, CallTypeOK, RequestTypeOK, AnswerTypeOK, ReaderTypeOK DEF Next

(* The client's state keeps its shape. *)
THEOREM TypeCorrect == Spec => []TypeOK
BY InitTypeOK, NextTypeOK, PTL DEF Spec
------------------------------------------------------------------------------
(* OneReader is inductive: dial finds no connection, so nobody reads, and  *)
(* the loop that fails is the one of the current connection.               *)
LEMMA InitOneReader == Init => OneReader
BY ConnFacts DEF Init, OneReader

LEMMA NextOneReader == TypeOK /\ OneReader /\ [Next]_vars => OneReader'
<1> SUFFICES ASSUME TypeOK, OneReader, [Next]_vars
             PROVE  OneReader'
  OBVIOUS
<1> USE DEF connVars
<1>1. ASSUME UNCHANGED <<conn, reader>>
      PROVE  OneReader'
  BY <1>1 DEF OneReader
<1>2. ASSUME NEW c \in Callers, Dial(c)
      PROVE  OneReader'
  BY <1>2, DialNumber, ConnFacts DEF Dial, OneReader, TypeOK
<1>3. ASSUME NEW c \in Callers, Abort(c)
      PROVE  OneReader'
  BY <1>3, ConnFacts DEF Abort, OneReader
<1>4. ASSUME NEW k \in Conns, FailAll(k)
      PROVE  OneReader'
  BY <1>4, ConnFacts DEF FailAll, OneReader, TypeOK
<1>5. ASSUME NEW k \in Conns, ForgetLoaded(k) \/ FailRequests(k)
      PROVE  OneReader'
  BY <1>5 DEF ForgetLoaded, FailRequests, OneReader, TypeOK
<1>6. ASSUME NEW c \in Callers, Connecting(c)
      PROVE  OneReader'
  BY <1>1, <1>2, <1>6 DEF Connecting, Check, DialElsewhere, DialFails, StartAgent, WaitInit
<1>7. ASSUME NEW c \in Callers, Initializing(c) \/ Calling(c)
      PROVE  OneReader'
  BY <1>1, <1>3, <1>7 DEF Initializing, DoneAlready, EnterOnce, SetInitErr, LeaveOnce,
       Calling, AlreadyLoaded, Request, Requested, Abandon
<1>8. ASSUME NEW r \in Reqs, Requesting(r) \/ \E k \in Conns : Answer(k, r)
      PROVE  OneReader'
  BY <1>1, <1>8 DEF Requesting, Register, Write, GetReply, Answer
<1> QED
  BY <1>1, <1>4, <1>5, <1>6, <1>7, <1>8
     DEF Next, Call, CancelContext, KillAgent, Drop, Failing, vars

(* failAll never clears the connection of a later dial. *)
THEOREM OneReaderHolds == Spec => []OneReader
BY InitTypeOK, NextTypeOK, InitOneReader, NextOneReader, PTL DEF Spec
------------------------------------------------------------------------------
(* For WaitsForSomething: dial must find the map empty (without a          *)
(* connection nothing is registered), it starts a read loop that is not    *)
(* one of those still failing their requests, and a request is in good     *)
(* hands from its registration on, since failAll may run before the write. *)
Failed(r) == \E k \in Conns : reader[k] \in {"failed", "forgot"} /\ r \in failing[k]
Open(r) == rq[r] \in {"registered", "waiting"} /\ reply[r] = "none"

IInv ==
  /\ conn = NoConn => pending = {}
  /\ \A k \in Conns : k > dials => reader[k] \in {"none", "gone"}
  /\ \A r \in Reqs : Open(r) => r \in pending \/ Failed(r)
  /\ \A r \in Reqs : Open(r) /\ rq[r] = "waiting" /\ r \in pending => <<conn, r>> \in asked

LEMMA InitIInv == Init => IInv
BY DEF Init, IInv, Open

LEMMA IInvImpliesWaits == TypeOK /\ IInv => WaitsForSomething
BY DEF TypeOK, IInv, WaitsForSomething, Open, Failed

LEMMA UnchangedIInv ==
  ASSUME IInv, UNCHANGED <<conn, dials, reader, failing, rq, reply, pending, asked>>
  PROVE  IInv'
BY DEF IInv, Open, Failed

(* A request that is only made, or is over, is not open. *)
LEMMA ClosedIInv ==
  ASSUME TypeOK, IInv, NEW r \in Reqs, NEW q \in {"new", "ok", "err"},
         rq' = [rq EXCEPT ![r] = q],
         pending' \in {pending, pending \ {r}},
         UNCHANGED <<connVars, reply, asked>>
  PROVE  IInv'
<1>1. \A x \in Reqs : Open(x)' => x # r /\ Open(x) /\ rq'[x] = rq[x]
  BY DEF Open, TypeOK
<1>2. \A x \in Reqs : x # r => (x \in pending' <=> x \in pending) /\ (Failed(x)' <=> Failed(x))
  BY DEF Failed, connVars
<1> QED
  BY <1>1, <1>2 DEF IInv, connVars

LEMMA DialIInv ==
  ASSUME TypeOK, IInv, NEW c \in Callers, Dial(c)
  PROVE  IInv'
<1>1. /\ pending = {} /\ pending' = {} /\ conn' # NoConn
      /\ dials' = dials + 1 /\ dials' \in Conns
      /\ reader' = [reader EXCEPT ![dials'] = "reading"]
      /\ UNCHANGED <<failing, rq, reply>>
  BY DialNumber, ConnFacts DEF Dial, IInv
<1>2. reader[dials'] \in {"none", "gone"}
  BY <1>1 DEF IInv, TypeOK
<1>3. \A r \in Reqs : Failed(r) => Failed(r)'
  BY <1>1, <1>2 DEF Failed, TypeOK
<1>4. \A k \in Conns : k > dials' => reader'[k] \in {"none", "gone"}
  BY <1>1, ConnFacts DEF IInv, TypeOK
<1> QED
  BY <1>1, <1>3, <1>4 DEF IInv, Open

LEMMA AbortIInv ==
  ASSUME TypeOK, NEW c \in Callers, Abort(c)
  PROVE  IInv'
BY DEF Abort, IInv, Open, TypeOK

LEMMA RequestIInv ==
  ASSUME TypeOK, IInv, NEW r \in Reqs, Requesting(r)
  PROVE  IInv'
<1>1. CASE Register(r)
  <2>1. CASE conn = NoConn
    BY <1>1, <2>1, ClosedIInv DEF Register, agentVars
  <2>2. CASE conn # NoConn
    <3>1. /\ rq' = [rq EXCEPT ![r] = "registered"] /\ pending' = pending \cup {r}
          /\ UNCHANGED <<connVars, reply, asked>>
      BY <1>1, <2>2 DEF Register, agentVars
    <3>2. \A x \in Reqs : x # r /\ Open(x)' => Open(x) /\ rq'[x] = rq[x]
      BY <3>1 DEF Open, TypeOK
    <3>3. rq'[r] = "registered" /\ r \in pending'
      BY <3>1 DEF TypeOK
    <3>4. \A x \in Reqs : Failed(x) => Failed(x)'
      BY <3>1 DEF Failed, connVars
    <3> QED
      BY <2>2, <3>1, <3>2, <3>3, <3>4 DEF IInv, connVars
  <2> QED
    BY <2>1, <2>2
<1>2. CASE Write(r)
  <2>1. CASE rq' = [rq EXCEPT ![r] = "err"]
    <3>1. pending' = pending \ {r} /\ UNCHANGED <<connVars, reply, asked>>
      BY <1>2, <2>1 DEF Write, TypeOK
    <3> QED
      BY <2>1, <3>1, ClosedIInv
  <2>2. CASE rq' # [rq EXCEPT ![r] = "err"]
    <3>1. /\ rq[r] = "registered" /\ rq' = [rq EXCEPT ![r] = "waiting"]
          /\ asked' = asked \cup {<<conn, r>>}
          /\ UNCHANGED <<connVars, reply, pending>>
      BY <1>2, <2>2 DEF Write
    <3>2. \A x \in Reqs : Open(x)' => Open(x) /\ (x # r => rq'[x] = rq[x])
      BY <3>1 DEF Open, TypeOK
    <3>3. \A x \in Reqs : Failed(x) => Failed(x)'
      BY <3>1 DEF Failed, connVars
    <3> QED
      BY <3>1, <3>2, <3>3 DEF IInv, connVars
  <2> QED
    BY <2>1, <2>2
<1>3. CASE GetReply(r)
  <2>1. reply[r] \in {"ok", "err"}
    BY <1>3 DEF GetReply, TypeOK
  <2> QED
    BY <1>3, <2>1, ClosedIInv DEF GetReply, agentVars
<1> QED
  BY <1>1, <1>2, <1>3 DEF Requesting

(* Only an answer on the current connection finds its request in the map. *)
LEMMA AnswerIInv ==
  ASSUME TypeOK, OneReader, IInv, NEW k \in Conns, NEW r \in Reqs, Answer(k, r)
  PROVE  IInv'
<1>1. /\ asked' = asked \ {<<k, r>>} /\ conn = k
      /\ UNCHANGED <<conn, dials, reader, failing, rq, pending>>
  BY DEF Answer, OneReader, connVars
<1>2. PICK result \in {"ok", "err"} : PutReply({r} \cap pending, result)
  BY DEF Answer
<1>3. \A x \in Reqs : Open(x)' => Open(x) /\ (x = r => x \notin pending)
  BY <1>1, <1>2 DEF Open, PutReply, TypeOK
<1>4. \A x \in Reqs : Failed(x) => Failed(x)'
  BY <1>1 DEF Failed
<1> QED
  BY <1>1, <1>3, <1>4 DEF IInv

LEMMA FailingIInv ==
  ASSUME TypeOK, IInv, NEW k \in Conns, Failing(k)
  PROVE  IInv'
<1>1. CASE FailAll(k)
  <2>1. /\ conn' = NoConn /\ pending' = {} /\ reader[k] = "reading"
        /\ failing' = [failing EXCEPT ![k] = pending]
        /\ reader' = [reader EXCEPT ![k] = "failed"]
        /\ UNCHANGED <<dials, rq, reply>>
    BY <1>1 DEF FailAll
  <2>2. \A x \in Reqs : x \in pending \/ Failed(x) => Failed(x)'
    BY <2>1 DEF Failed, TypeOK
  <2>3. \A j \in Conns : j > dials => reader'[j] \in {"none", "gone"}
    BY <2>1 DEF IInv, TypeOK
  <2> QED
    BY <2>1, <2>2, <2>3 DEF IInv, Open
<1>2. CASE ForgetLoaded(k)
  <2>1. /\ reader[k] = "failed" /\ reader' = [reader EXCEPT ![k] = "forgot"]
        /\ UNCHANGED <<conn, dials, failing, rq, reply, pending, asked>>
    BY <1>2 DEF ForgetLoaded, reqVars, agentVars
  <2>2. \A x \in Reqs : Failed(x) => Failed(x)'
    BY <2>1 DEF Failed, TypeOK
  <2>3. \A j \in Conns : j > dials => reader'[j] \in {"none", "gone"}
    BY <2>1 DEF IInv, TypeOK
  <2> QED
    BY <2>1, <2>2, <2>3 DEF IInv, Open
<1>3. CASE FailRequests(k)
  <2>1. /\ reader[k] = "forgot" /\ reader' = [reader EXCEPT ![k] = "gone"]
        /\ PutReply(failing[k], "err")
        /\ UNCHANGED <<conn, dials, failing, rq, pending, asked>>
    BY <1>3 DEF FailRequests, agentVars
  <2>2. \A x \in Reqs : Open(x)' => Open(x) /\ x \notin failing[k]
    BY <2>1 DEF Open, PutReply, TypeOK
  <2>3. \A x \in Reqs : Failed(x) /\ x \notin failing[k] => Failed(x)'
    BY <2>1 DEF Failed, TypeOK
  <2>4. \A j \in Conns : j > dials => reader'[j] \in {"none", "gone"}
    BY <2>1 DEF IInv, TypeOK
  <2> QED
    BY <2>1, <2>2, <2>3, <2>4 DEF IInv
<1> QED
  BY <1>1, <1>2, <1>3 DEF Failing

LEMMA NextIInv == TypeOK /\ OneReader /\ IInv /\ [Next]_vars => IInv'
<1> SUFFICES ASSUME TypeOK, OneReader, IInv, [Next]_vars
             PROVE  IInv'
  OBVIOUS
<1> USE DEF connVars, reqVars, agentVars
<1>1. ASSUME NEW c \in Callers, Connecting(c)
      PROVE  IInv'
  BY <1>1, DialIInv, UnchangedIInv
     DEF Connecting, Check, DialElsewhere, DialFails, StartAgent, WaitInit
<1>2. ASSUME NEW c \in Callers, EnterOnce(c)
      PROVE  IInv'
  BY <1>2, ReqFacts, ClosedIInv, UnchangedIInv DEF EnterOnce
<1>3. ASSUME NEW c \in Callers, Initializing(c)
      PROVE  IInv'
  BY <1>2, <1>3, AbortIInv, UnchangedIInv DEF Initializing, DoneAlready, SetInitErr, LeaveOnce
<1>4. ASSUME NEW c \in Callers, Calling(c)
      PROVE  IInv'
  <2>1. CASE AlreadyLoaded(c) \/ Requested(c)
    BY <2>1, UnchangedIInv DEF AlreadyLoaded, Requested
  <2>2. CASE Request(c) \/ Abandon(c)
    BY <2>2, ReqFacts, ClosedIInv DEF Request, Abandon
  <2> QED
    BY <1>4, <2>1, <2>2 DEF Calling
<1>5. ASSUME NEW c \in Callers, Call(c) \/ CancelContext(c) \/ KillAgent(c)
      PROVE  IInv'
  BY <1>5, UnchangedIInv DEF Call, CancelContext, KillAgent
<1>6. ASSUME NEW k \in Conns, Drop(k)
      PROVE  IInv'
  BY <1>6, UnchangedIInv DEF Drop
<1>7. CASE UNCHANGED vars
  BY <1>7, UnchangedIInv DEF vars
<1> QED
  BY <1>1, <1>3, <1>4, <1>5, <1>6, <1>7, RequestIInv, AnswerIInv, FailingIInv DEF Next

(* No request that waits is forgotten, however connections come and go. *)
THEOREM WaitsHold == Spec => []WaitsForSomething
<1>1. TypeOK /\ OneReader /\ IInv /\ [Next]_vars => (TypeOK /\ OneReader /\ IInv)'
  BY NextTypeOK, NextOneReader, NextIInv
<1>2. Init => TypeOK /\ OneReader /\ IInv
  BY InitTypeOK, InitOneReader, InitIInv
<1> QED
  BY <1>1, <1>2, IInvImpliesWaits, PTL DEF Spec
------------------------------------------------------------------------------
(***************************************************************************)
(* For AgentAgreed.  What is in the cache was told by an answer that made  *)
(* the agent know it first, and an answer comes after a request, which     *)
(* comes after Call has chosen the session.                                *)
(***************************************************************************)
Known == UNION {known[k] : k \in Conns}

LoadInv ==
  /\ loaded \subseteq Known
  /\ \A c \in Callers :
       /\ kind[c] \in {"new", "load"} /\ (reply[Own(c)] = "ok" \/ rq[Own(c)] = "ok")
            => target[c] \subseteq Known
       /\ rq[Own(c)] \in {"new", "registered", "waiting"} => pc[c] = "requesting"
       /\ pc[c] = "idle" => /\ rq[Own(c)] = "none" /\ reply[Own(c)] # "ok"
                            /\ \A k \in Conns : <<k, Own(c)>> \notin asked

(* As long as one connection was dialled, the Once works: nobody passes it *)
(* but behind the one goroutine that was inside, which leaves initErr as   *)
(* its initialize was answered.                                            *)
Inside(c) == waiter[c] \in {"initialize", "leave"}
OnceInv ==
  /\ conn # NoConn => conn = dials
  /\ dials <= 1 =>
       /\ once.done /\ initErr = "ok" => 1 \in welcomed
       /\ \A c \in Callers :
            /\ waiter[c] # "none" => dials = 1
            /\ waiter[c] = "returned" => once.done
            /\ Inside(c) => /\ once.held /\ ~ once.done
                            /\ \A d \in Callers \ {c} : ~ Inside(d)
            /\ waiter[c] = "leave" /\ initErr = "ok" => 1 \in welcomed
            /\ pc[c] \in {"connected", "requesting"} => 1 \in welcomed
            /\ rq[Initialize(c)] = "ok" \/ reply[Initialize(c)] = "ok" => 1 \in welcomed

LEMMA OwnFacts ==
  /\ \A c, d \in Callers : Own(c) # Initialize(d) /\ (Own(c) = Own(d) => c = d)
                           /\ (Initialize(c) = Initialize(d) => c = d)
  /\ \A c \in Callers : Own(c)[1] = c /\ Own(c)[2] = "call" /\ Initialize(c)[2] = "initialize"
BY DEF Own, Initialize

LEMMA InitAgreed == Init => LoadInv /\ OnceInv
BY ReqFacts, ConnFacts DEF Init, LoadInv, OnceInv, Inside

LEMMA AgreedImplies == TypeOK /\ OneReader /\ LoadInv /\ OnceInv => AgentAgreed
<1> SUFFICES ASSUME TypeOK, LoadInv, OnceInv
             PROVE  AgentAgreed
  OBVIOUS
<1>1. ASSUME NEW c \in Callers, rq[Own(c)] = "waiting", conn = 1
      PROVE  1 \in welcomed
  <2>1. dials = 1 /\ pc[c] = "requesting"
    BY <1>1 DEF OnceInv, LoadInv, NoConn
  <2> QED
    BY <2>1 DEF OnceInv
<1> QED
  BY <1>1 DEF AgentAgreed, LoadInv, Known

(* Steps that tell no caller anything. *)
LEMMA AsideLoadInv ==
  ASSUME LoadInv, loaded' \subseteq loaded, UNCHANGED <<kind, target, asked, known>>,
         \A c \in Callers :
           /\ reply'[Own(c)] = "ok" => reply[Own(c)] = "ok"
           /\ rq'[Own(c)] = rq[Own(c)] \/ (rq'[Own(c)] = "err" /\ rq[Own(c)] # "none")
           /\ pc'[c] = pc[c] \/ (pc'[c] # "idle" /\ pc[c] # "requesting")
  PROVE  LoadInv'
<1>1. Known' = Known
  BY DEF Known
<1>2. ASSUME NEW c \in Callers, rq'[Own(c)] \in {"new", "registered", "waiting"}
      PROVE  pc'[c] = "requesting"
  BY <1>2 DEF LoadInv
<1>3. ASSUME NEW c \in Callers, pc'[c] = "idle"
      PROVE  /\ rq'[Own(c)] = "none" /\ reply'[Own(c)] # "ok"
             /\ \A k \in Conns : <<k, Own(c)>> \notin asked'
  BY <1>3 DEF LoadInv
<1> QED
  BY <1>1, <1>2, <1>3 DEF LoadInv

LEMMA RequestLoadInv ==
  ASSUME TypeOK, LoadInv, NEW r \in Reqs, Requesting(r)
  PROVE  LoadInv'
<1> USE DEF onceVars, callVars, agentVars, connVars
<1>1. PICK x \in Callers : r = Own(x) \/ r = Initialize(x)
  BY DEF Reqs, Own, Initialize
<1>2. /\ UNCHANGED <<reply, loaded, kind, target, pc, known>>
      /\ rq[r] \in {"new", "registered", "waiting"}
      /\ \A q \in Reqs \ {r} : rq'[q] = rq[q]
  BY DEF Requesting, Register, Write, GetReply, TypeOK
<1>3. Known' = Known
  BY <1>2 DEF Known
<1>4. ASSUME NEW c \in Callers, r # Own(c)
      PROVE  rq'[Own(c)] = rq[Own(c)] /\ \A k \in Conns : <<k, Own(c)>> \in asked' => <<k, Own(c)>> \in asked
  BY <1>2, <1>4, ReqFacts DEF Requesting, Register, Write, GetReply
<1>5. ASSUME NEW c \in Callers, r = Own(c)
      PROVE  /\ pc[c] = "requesting"
             /\ rq'[r] = "ok" => reply[r] = "ok"
  <2>1. pc[c] = "requesting"
    BY <1>2, <1>5 DEF LoadInv
  <2>2. rq'[r] = "ok" => reply[r] = "ok"
    BY DEF Requesting, Register, Write, GetReply, TypeOK
  <2> QED
    BY <2>1, <2>2
<1> QED
  BY <1>2, <1>3, <1>4, <1>5 DEF LoadInv

LEMMA AnswerLoadInv ==
  ASSUME TypeOK, LoadInv, NEW k \in Conns, NEW r \in Reqs, Answer(k, r)
  PROVE  LoadInv'
<1>1. /\ UNCHANGED <<rq, loaded, kind, target, pc>>
      /\ asked' \subseteq asked /\ <<k, r>> \in asked
  BY DEF Answer, callVars
<1>2. PICK result \in {"ok", "err"} :
        /\ PutReply({r} \cap pending, result)
        /\ known' = IF result = "ok" /\ r[2] = "call" /\ kind[r[1]] \in {"new", "load"}
                      THEN [known EXCEPT ![k] = @ \cup target[r[1]]]
                      ELSE known
  BY DEF Answer
<1>3. \A j \in Conns : known[j] \subseteq known'[j]
  BY <1>2 DEF TypeOK
<1>4. Known \subseteq Known'
  BY <1>3 DEF Known
<1>5. \A q \in Reqs : reply'[q] = "ok" => reply[q] = "ok" \/ (q = r /\ result = "ok")
  BY <1>2 DEF PutReply, TypeOK
<1>6. ASSUME NEW c \in Callers, r = Own(c), result = "ok", kind[c] \in {"new", "load"}
      PROVE  target[c] \subseteq Known'
  <2>1. known'[k] = known[k] \cup target[c]
    BY <1>2, <1>6, OwnFacts DEF TypeOK
  <2> QED
    BY <2>1 DEF Known
<1>7. ASSUME NEW c \in Callers, r = Own(c)
      PROVE  pc[c] # "idle"
  BY <1>1, <1>7 DEF LoadInv
<1>8. \A c \in Callers : Own(c) \in Reqs
  BY ReqFacts
<1> QED
  BY <1>1, <1>4, <1>5, <1>6, <1>7, <1>8 DEF LoadInv

LEMMA CallLoadInv ==
  ASSUME TypeOK, LoadInv, NEW c \in Callers, Call(c)
  PROVE  LoadInv'
<1>1. /\ UNCHANGED <<rq, reply, loaded, asked, known>> /\ pc[c] = "idle"
      /\ pc' = [pc EXCEPT ![c] = "check"]
      /\ \A d \in Callers \ {c} : kind'[d] = kind[d] /\ target'[d] = target[d]
  BY DEF Call, Goto, reqVars, agentVars, TypeOK
<1>2. Known' = Known
  BY <1>1 DEF Known
<1> QED
  BY <1>1, <1>2 DEF LoadInv, TypeOK

LEMMA NextLoadInv == TypeOK /\ LoadInv /\ [Next]_vars => LoadInv'
<1> SUFFICES ASSUME TypeOK, LoadInv, [Next]_vars
             PROVE  LoadInv'
  OBVIOUS
<1> USE DEF connVars, reqVars, agentVars, callVars, Goto
<1>1. ASSUME NEW c \in Callers, Connecting(c)
      PROVE  LoadInv'
  BY <1>1, AsideLoadInv
     DEF Connecting, Check, Dial, DialElsewhere, DialFails, StartAgent, WaitInit, StartWaitInit, TypeOK
<1>2. ASSUME NEW c \in Callers, EnterOnce(c)
      PROVE  LoadInv'
  BY <1>2, OwnFacts, ReqFacts, AsideLoadInv DEF EnterOnce, TypeOK
<1>3. ASSUME NEW c \in Callers, Abort(c)
      PROVE  LoadInv'
  <2>1. /\ loaded' = {} /\ UNCHANGED <<reply, kind, target, asked, known>>
        /\ \A d \in Callers : pc'[d] = "aborted" /\ rq'[Own(d)] = "none"
    BY <1>3, ReqFacts DEF Abort
  <2> QED
    BY <2>1 DEF LoadInv, Known
<1>4. ASSUME NEW c \in Callers, Initializing(c)
      PROVE  LoadInv'
  BY <1>2, <1>3, <1>4, AsideLoadInv DEF Initializing, DoneAlready, SetInitErr, LeaveOnce
<1>5. ASSUME NEW c \in Callers, Calling(c)
      PROVE  LoadInv'
  <2>1. CASE AlreadyLoaded(c)
    BY <2>1, AsideLoadInv DEF AlreadyLoaded, TypeOK
  <2>2. CASE Abandon(c)
    BY <2>2, OwnFacts, ReqFacts, AsideLoadInv DEF Abandon, TypeOK
  <2>3. CASE Request(c)
    BY <2>3, OwnFacts, ReqFacts DEF Request, LoadInv, Known, TypeOK
  <2>4. CASE Requested(c)
    <3>1. /\ rq[Own(c)] \in {"ok", "err"} /\ pc[c] = "requesting"
          /\ pc' \in {[pc EXCEPT ![c] = "done"], [pc EXCEPT ![c] = "failed"]}
          /\ UNCHANGED <<rq, reply, kind, target, asked, known>>
          /\ loaded' \subseteq loaded \cup (IF rq[Own(c)] = "ok" /\ kind[c] \in {"new", "load"} THEN target[c] ELSE {})
      BY <2>4 DEF Requested
    <3>2. loaded' \subseteq Known
      BY <3>1 DEF LoadInv
    <3> QED
      BY <3>1, <3>2 DEF LoadInv, Known, TypeOK
  <2> QED
    BY <1>5, <2>1, <2>2, <2>3, <2>4 DEF Calling
<1>6. ASSUME NEW c \in Callers, CancelContext(c) \/ KillAgent(c)
      PROVE  LoadInv'
  BY <1>6, AsideLoadInv DEF CancelContext, KillAgent
<1>7. ASSUME NEW k \in Conns, Drop(k) \/ FailAll(k) \/ ForgetLoaded(k)
      PROVE  LoadInv'
  BY <1>7, AsideLoadInv DEF Drop, FailAll, ForgetLoaded
<1>8. ASSUME NEW k \in Conns, FailRequests(k)
      PROVE  LoadInv'
  <2>1. \A c \in Callers : reply'[Own(c)] = "ok" => reply[Own(c)] = "ok"
    BY <1>8, ReqFacts DEF FailRequests, PutReply
  <2> QED
    BY <1>8, <2>1, AsideLoadInv DEF FailRequests
<1>9. CASE UNCHANGED vars
  BY <1>9, AsideLoadInv DEF vars
<1> QED
  BY <1>1, <1>4, <1>5, <1>6, <1>7, <1>8, <1>9, CallLoadInv, RequestLoadInv, AnswerLoadInv DEF Next, Failing

(* Steps that leave the Once and the goroutines around it alone. *)
LEMMA AsideOnceInv ==
  ASSUME dials \in Nat, OnceInv, conn' \in {conn, NoConn},
         UNCHANGED <<dials, once, initErr, waiter>>, welcomed \subseteq welcomed',
         \A c \in Callers :
           /\ pc'[c] \in {"connected", "requesting"} => pc[c] \in {"connected", "requesting"}
           /\ rq'[Initialize(c)] = "ok" => \/ rq[Initialize(c)] = "ok"
                                           \/ reply[Initialize(c)] = "ok"
           /\ reply'[Initialize(c)] = "ok" => reply[Initialize(c)] = "ok" \/ 1 \in welcomed' \/ dials > 1
  PROVE  OnceInv'
BY DEF OnceInv, Inside

LEMMA DialOnceInv ==
  ASSUME TypeOK, OnceInv, NEW c \in Callers, Dial(c)
  PROVE  OnceInv'
<1>1. /\ dials' = dials + 1 /\ conn' = dials' /\ dials \in Nat
      /\ once' = [done |-> FALSE, held |-> FALSE]
      /\ waiter' = [waiter EXCEPT ![c] = "do"] /\ pc' = [pc EXCEPT ![c] = "waitInit"]
      /\ UNCHANGED <<rq, reply, welcomed>>
  BY DEF Dial, StartWaitInit, Goto, TypeOK
<1>2. CASE dials = 0
  <2>1. \A d \in Callers : waiter[d] = "none"
    BY <1>2 DEF OnceInv
  <2>2. \A d \in Callers : waiter'[d] \in {"none", "do"}
    BY <1>1, <2>1 DEF TypeOK
  <2>3. \A d \in Callers : pc'[d] \in {"connected", "requesting"} => pc[d] \in {"connected", "requesting"}
    BY <1>1 DEF TypeOK
  <2> QED
    BY <1>1, <1>2, <2>2, <2>3 DEF OnceInv, Inside
<1>3. CASE dials # 0
  BY <1>1, <1>3 DEF OnceInv
<1> QED
  BY <1>2, <1>3

LEMMA ConnectOnceInv ==
  ASSUME TypeOK, OnceInv, NEW c \in Callers, Connecting(c)
  PROVE  OnceInv'
<1> USE DEF connVars, reqVars, onceVars, agentVars, Goto
<1>1. CASE Check(c) \/ DialElsewhere(c)
  <2>1. CASE StartWaitInit(c) /\ conn # NoConn
    <3>1. /\ waiter' = [waiter EXCEPT ![c] = "do"] /\ pc' = [pc EXCEPT ![c] = "waitInit"]
          /\ UNCHANGED <<conn, dials, once, initErr, rq, reply, welcomed>>
      BY <1>1, <2>1 DEF Check, DialElsewhere, StartWaitInit
    <3>2. conn = dials /\ dials # 0
      BY <2>1 DEF OnceInv, NoConn
    <3>3. \A d \in Callers : /\ waiter'[d] = "do" \/ waiter'[d] = waiter[d]
                             /\ pc'[d] = "waitInit" \/ pc'[d] = pc[d]
      BY <3>1 DEF TypeOK
    <3> QED
      BY <3>1, <3>2, <3>3 DEF OnceInv, Inside, TypeOK
  <2>2. CASE ~ (StartWaitInit(c) /\ conn # NoConn)
    BY <1>1, <2>2, AsideOnceInv DEF Check, DialElsewhere, TypeOK
  <2> QED
    BY <2>1, <2>2
<1>2. CASE DialFails(c) \/ StartAgent(c)
  BY <1>2, AsideOnceInv DEF DialFails, StartAgent, TypeOK
<1>3. CASE WaitInit(c)
  <2>1. /\ UNCHANGED <<conn, dials, once, initErr, rq, reply, welcomed, waiter>>
        /\ \A d \in Callers \ {c} : pc'[d] = pc[d]
    BY <1>3 DEF WaitInit, TypeOK
  <2>2. pc'[c] \in {"connected", "requesting"} => waiter[c] = "returned" /\ initErr = "ok"
    BY <1>3 DEF WaitInit, TypeOK
  <2> QED
    BY <2>1, <2>2 DEF OnceInv, Inside
<1> QED
  BY <1>1, <1>2, <1>3, DialOnceInv DEF Connecting

(* Entering and leaving the Once. *)
LEMMA InitializeOnceInv ==
  ASSUME TypeOK, OnceInv, NEW c \in Callers, Initializing(c)
  PROVE  OnceInv'
<1> USE DEF connVars, reqVars, callVars, agentVars
<1>1. CASE DoneAlready(c)
  <2>1. /\ UNCHANGED <<conn, dials, once, initErr, rq, reply, welcomed, pc>> /\ once.done
        /\ waiter[c] = "do" /\ waiter' = [waiter EXCEPT ![c] = "returned"]
    BY <1>1 DEF DoneAlready, onceVars
  <2> QED
    BY <2>1 DEF OnceInv, Inside, TypeOK
<1>2. CASE EnterOnce(c)
  <2>1. CASE once.done /\ UNCHANGED <<once, rq>> /\ waiter' = [waiter EXCEPT ![c] = "returned"]
    BY <1>2, <2>1 DEF EnterOnce, OnceInv, Inside, TypeOK
  <2>2. CASE ~ (once.done /\ UNCHANGED <<once, rq>> /\ waiter' = [waiter EXCEPT ![c] = "returned"])
    <3>1. /\ ~ once.done /\ ~ once.held /\ waiter[c] = "do"
          /\ once' = [once EXCEPT !.held = TRUE]
          /\ waiter' = [waiter EXCEPT ![c] = "initialize"]
          /\ rq' = [rq EXCEPT ![Initialize(c)] = "new"]
          /\ UNCHANGED <<conn, dials, initErr, reply, welcomed, pc>>
      BY <1>2, <2>2 DEF EnterOnce
    <3>2. once'.held /\ ~ once'.done
      BY <3>1 DEF TypeOK
    <3>3. dials <= 1 => dials = 1 /\ \A d \in Callers : ~ Inside(d)
      BY <3>1 DEF OnceInv
    <3>4. \A d \in Callers : rq'[Initialize(d)] = "ok" => rq[Initialize(d)] = "ok"
      BY <3>1, ReqFacts DEF TypeOK
    <3>5. \A d \in Callers \ {c} : waiter'[d] = waiter[d]
      BY <3>1 DEF TypeOK
    <3> QED
      BY <3>1, <3>2, <3>3, <3>4, <3>5 DEF OnceInv, Inside, TypeOK
  <2> QED
    BY <2>1, <2>2
<1>3. CASE SetInitErr(c)
  <2>1. /\ UNCHANGED <<conn, dials, once, rq, reply, welcomed, pc>>
        /\ waiter[c] = "initialize" /\ waiter' = [waiter EXCEPT ![c] = "leave"]
        /\ initErr' = rq[Initialize(c)]
    BY <1>3 DEF SetInitErr
  <2>2. \A d \in Callers \ {c} : waiter'[d] = waiter[d]
    BY <2>1 DEF TypeOK
  <2> QED
    BY <2>1, <2>2 DEF OnceInv, Inside, TypeOK
<1>4. CASE LeaveOnce(c)
  <2>1. /\ UNCHANGED <<conn, dials, initErr, rq, reply, welcomed, pc>>
        /\ once' = [done |-> TRUE, held |-> FALSE]
        /\ waiter[c] = "leave" /\ waiter' = [waiter EXCEPT ![c] = "returned"]
    BY <1>4 DEF LeaveOnce
  <2>2. dials <= 1 => \A d \in Callers : ~ Inside(d)'
    BY <2>1 DEF OnceInv, Inside, TypeOK
  <2> QED
    BY <2>1, <2>2 DEF OnceInv, Inside, TypeOK
<1>5. CASE Abort(c)
  <2>1. /\ UNCHANGED <<dials, once, initErr, reply, welcomed>> /\ conn' = NoConn
        /\ \A d \in Callers : pc'[d] = "aborted" /\ waiter'[d] = "none" /\ rq'[Initialize(d)] = "none"
    BY <1>5, ReqFacts DEF Abort, onceVars
  <2> QED
    BY <2>1 DEF OnceInv, Inside
<1> QED
  BY <1>1, <1>2, <1>3, <1>4, <1>5 DEF Initializing

LEMMA AnswerOnceInv ==
  ASSUME TypeOK, OneReader, OnceInv, NEW k \in Conns, NEW r \in Reqs, Answer(k, r)
  PROVE  OnceInv'
<1>1. UNCHANGED <<conn, dials, once, initErr, waiter, rq, pc>> /\ conn = k
  BY DEF Answer, OneReader, connVars, onceVars, callVars
<1>2. k = dials /\ (dials <= 1 => k = 1)
  BY <1>1, ConnFacts DEF OnceInv, TypeOK, Conns
<1>3. PICK result \in {"ok", "err"} :
        /\ PutReply({r} \cap pending, result)
        /\ welcomed' = IF result = "ok" /\ r[2] = "initialize" THEN welcomed \cup {k} ELSE welcomed
  BY DEF Answer
<1>4. \A c \in Callers : reply'[Initialize(c)] = "ok" =>
        reply[Initialize(c)] = "ok" \/ (r = Initialize(c) /\ result = "ok")
  BY <1>3, ReqFacts DEF PutReply
<1>5. dials \in Nat
  BY DEF TypeOK
<1> QED
  BY <1>1, <1>2, <1>3, <1>4, <1>5, OwnFacts, AsideOnceInv

LEMMA NextOnceInv == TypeOK /\ OneReader /\ LoadInv /\ OnceInv /\ [Next]_vars => OnceInv'
<1> SUFFICES ASSUME TypeOK, OneReader, LoadInv, OnceInv, [Next]_vars
             PROVE  OnceInv'
  OBVIOUS
<1> USE DEF connVars, reqVars, onceVars, agentVars, callVars, Goto
<1>1. ASSUME NEW c \in Callers, Calling(c)
      PROVE  OnceInv'
  <2>1. CASE AlreadyLoaded(c) \/ Requested(c)
    BY <2>1, AsideOnceInv DEF AlreadyLoaded, Requested, TypeOK
  <2>2. CASE Request(c) \/ Abandon(c)
    <3>1. \A d \in Callers : rq'[Initialize(d)] = rq[Initialize(d)]
      BY <2>2, OwnFacts, ReqFacts DEF Request, Abandon, TypeOK
    <3> QED
      BY <2>2, <3>1, AsideOnceInv DEF Request, Abandon, TypeOK
  <2> QED
    BY <1>1, <2>1, <2>2 DEF Calling
<1>2. ASSUME NEW c \in Callers, Call(c) \/ CancelContext(c) \/ KillAgent(c)
      PROVE  OnceInv'
  BY <1>2, AsideOnceInv DEF Call, CancelContext, KillAgent, TypeOK
<1>3. ASSUME NEW r \in Reqs, Requesting(r)
      PROVE  OnceInv'
  <2>1. /\ UNCHANGED <<conn, dials, once, initErr, waiter, welcomed, pc, reply>>
        /\ \A q \in Reqs : rq'[q] = "ok" => rq[q] = "ok" \/ reply[q] = "ok"
    BY <1>3 DEF Requesting, Register, Write, GetReply, TypeOK
  <2> QED
    BY <2>1, ReqFacts, AsideOnceInv DEF TypeOK
<1>4. ASSUME NEW k \in Conns, Drop(k) \/ FailAll(k) \/ ForgetLoaded(k)
      PROVE  OnceInv'
  BY <1>4, AsideOnceInv DEF Drop, FailAll, ForgetLoaded, TypeOK
<1>5. ASSUME NEW k \in Conns, FailRequests(k)
      PROVE  OnceInv'
  <2>1. \A c \in Callers : reply'[Initialize(c)] = "ok" => reply[Initialize(c)] = "ok"
    BY <1>5, ReqFacts DEF FailRequests, PutReply
  <2> QED
    BY <1>5, <2>1, AsideOnceInv DEF FailRequests, TypeOK
<1>6. CASE UNCHANGED vars
  BY <1>6, AsideOnceInv DEF vars, TypeOK
<1> QED
  BY <1>1, <1>2, <1>3, <1>4, <1>5, <1>6, ConnectOnceInv, InitializeOnceInv, AnswerOnceInv
     DEF Next, Failing

(* The client goes by what an agent has told it: no request waits on the   *)
(* first connection before initialize was accepted there, and no session   *)
(* is taken for loaded that no agent has opened, for any number of callers *)
(* and connections.                                                        *)
THEOREM AgentHasAgreed == Spec => []AgentAgreed
<1>1. TypeOK /\ OneReader /\ LoadInv /\ OnceInv /\ [Next]_vars
        => (TypeOK /\ OneReader /\ LoadInv /\ OnceInv)'
  BY NextTypeOK, NextOneReader, NextLoadInv, NextOnceInv
<1>2. Init => TypeOK /\ OneReader /\ LoadInv /\ OnceInv
  BY InitTypeOK, InitOneReader, InitAgreed
<1> QED
  BY <1>1, <1>2, AgreedImplies, PTL DEF Spec
==============================================================================
