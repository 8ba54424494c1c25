----------------------------- MODULE HubProcess -----------------------------
(***************************************************************************)
(* The hub as a process: it starts (cmd/grok-bridge/main.go), loads its    *)
(* credentials and seeds its demo chats, pairs clients and rotates what    *)
(* they know (internal/auth), is asked to restart (internal/restart), may  *)
(* die at any step, and is started again by its supervisor (external).     *)
(* What it keeps is written to a file of its own and renamed: a crash      *)
(* leaves the old file or the new one.                                     *)
(***************************************************************************)
EXTENDS Naturals, Sequences, FiniteSets

CONSTANTS
  None,
  Samples,      (* the demo chats, in order: how many messages each has    *)
  MaxAttempts,  (* of pairing ...                                          *)
  Window,       (* ... in so many ticks                                    *)
  SignalIgnored, (* started with SIGINT ignored, as a background job is    *)
  MaxCalls      (* bound of the model: calls, ticks and crashes            *)

ASSUME ConstantsAssumption ==
  /\ {MaxAttempts, Window} \subseteq Nat \ {0}
  /\ MaxCalls \in Nat
  /\ SignalIgnored \in BOOLEAN
  /\ None \notin Nat
  /\ None \notin [code : Nat, token : Nat]
  /\ Samples \in Seq(Nat)

VARIABLES
  up,       (* "down", "starting" or "up"                                  *)
  calls,    (* how much of MaxCalls is used                                *)
  now,
  disk,     (* auth.json: a code and a token, each a number of its own     *)
  mem,      (* Store.data                                                  *)
  next,     (* the next random code or token                               *)
  op,       (* the operation that holds Store.mu                           *)
  hits,     (* PairRateLimiter.hits of one client                          *)
  flag,     (* restart.requested is there                                  *)
  scheduled, (* Controller.scheduled                                       *)
  chats,    (* the chats on disk: which sample (0: a user's), messages     *)
  seeding,  (* the sample that EnsureDemoSessions is at, 0 if none         *)
  accepted, (* the codes that were answered with a token                   *)
  held,     (* the token that the last Pair answered, till it is rotated,  *)
            (* or the file that has it cannot be read                      *)
  allowed   (* when this process let somebody try a code                   *)

authVars == <<disk, mem, next, op, accepted, held>>
restartVars == <<flag, scheduled>>
chatVars == <<chats, seeding>>
limiterVars == <<hits, allowed>>
vars == <<up, calls, now, authVars, limiterVars, restartVars, chatVars>>

Init ==
  /\ up = "down" /\ calls = 0 /\ now = 0
  /\ disk = None /\ mem = None /\ next = 1 /\ op = None
  /\ accepted = {} /\ held = None
  /\ hits = <<>> /\ allowed = <<>>
  /\ flag = FALSE /\ scheduled = FALSE
  /\ chats = <<>> /\ seeding = 0

Called == calls < MaxCalls /\ calls' = calls + 1
Free == up = "up" /\ op = None

Tick ==
  /\ Called
  /\ now' = now + 1
  /\ UNCHANGED <<up, authVars, limiterVars, restartVars, chatVars>>
------------------------------------------------------------------------------
(* main: loadOrCreate, ClearFlag, then EnsureDemoSessions if no chat is    *)
(* listed; it listens after that.                                          *)
Created == [code |-> next, token |-> next + 1]

(* A file that cannot be read or parsed is replaced like one that is not   *)
(* there: what its token was worth is gone.                                *)
StartAuth ==
  \/ disk # None /\ mem' = disk /\ UNCHANGED <<disk, next, held>>
  \/ /\ disk' = Created /\ mem' = Created /\ next' = next + 2
     /\ held' = None

StartFlagged ==
  /\ up = "down"
  /\ StartAuth
  /\ up' = "starting"
  /\ seeding' = (IF chats = <<>> /\ Samples # <<>> THEN 1 ELSE 0)
  /\ scheduled' = FALSE
  /\ UNCHANGED <<calls, now, op, accepted, limiterVars, flag, chats>>

StartSeeding ==
  /\ up = "down"
  /\ StartAuth
  /\ up' = "starting"
  /\ seeding' = IF Samples # <<>> THEN 1 ELSE 0
  /\ flag' = FALSE /\ scheduled' = FALSE
  /\ UNCHANGED <<calls, now, op, accepted, limiterVars, chats>>

Start ==
  /\ up = "down"
  /\ StartAuth
  /\ up' = "starting"
  /\ seeding' = IF chats = <<>> /\ Samples # <<>> THEN 1 ELSE 0
  /\ flag' = FALSE /\ scheduled' = FALSE
  /\ UNCHANGED <<calls, now, op, accepted, limiterVars, chats>>

(* One chat or one message is written, or a write fails and that was it.   *)
WrittenOf(sample) == {i \in DOMAIN chats : chats[i].sample = sample}

Seed ==
  /\ up = "starting" /\ seeding # 0
  /\ LET mine == WrittenOf(seeding) IN
       \/ /\ mine = {}
          /\ chats' = Append(chats, [sample |-> seeding, messages |-> 0])
          /\ UNCHANGED seeding
       \/ \E i \in mine :
            /\ chats' = [chats EXCEPT ![i].messages = @ + 1]
            /\ seeding' = IF chats'[i].messages < Samples[seeding] THEN seeding
                          ELSE IF seeding < Len(Samples) THEN seeding + 1 ELSE 0
       \/ seeding' = 0 /\ UNCHANGED chats
  /\ UNCHANGED <<up, calls, now, authVars, limiterVars, restartVars>>

Listen ==
  /\ up = "starting" /\ seeding = 0
  /\ up' = "up"
  /\ UNCHANGED <<calls, now, authVars, limiterVars, restartVars, chatVars>>

CreateChat ==
  /\ Free /\ Called
  /\ chats' = Append(chats, [sample |-> 0, messages |-> 0])
  /\ UNCHANGED <<up, now, authVars, limiterVars, restartVars, seeding>>
------------------------------------------------------------------------------
(* handlePair: PairRateLimiter.Allow, then Store.Pair, which changes what  *)
(* is in memory first.                                                     *)
ForgetInclusive(n) ==
  /\ n <= Len(hits)
  /\ \A i \in DOMAIN hits : now - hits[i] + 1 >= Window <=> i <= n

(* The hits that Allow drops: they are in order of time, so the first n.   *)
Forget(n) ==
  /\ n <= Len(hits)
  /\ \A i \in DOMAIN hits : now - hits[i] >= Window <=> i <= n

Kept(n) == SubSeq(hits, n + 1, Len(hits))

PairRefused ==
  /\ Free /\ Called
  /\ \E n \in 0..MaxAttempts : /\ Forget(n)
                               /\ Len(hits) - n >= MaxAttempts
                               /\ hits' = Kept(n)
  /\ UNCHANGED <<up, now, authVars, allowed, restartVars, chatVars>>

Pair(code) ==
  /\ Free /\ Called
  /\ \E n \in 0..MaxAttempts : /\ Forget(n)
                               /\ Len(hits) - n < MaxAttempts
                               /\ hits' = Append(Kept(n), now)
  /\ allowed' = Append(allowed, now)
  /\ \/ code # mem.code /\ UNCHANGED <<mem, next, op>>
     \/ /\ code = mem.code
        /\ mem' = [mem EXCEPT !.code = next] /\ next' = next + 1
        /\ op' = [type |-> "pair", code |-> code, write |-> "no"]
  /\ UNCHANGED <<up, now, disk, accepted, held, restartVars, chatVars>>

(* RotateToken and RotatePairingCode. *)
Rotate(field) ==
  /\ Free /\ Called
  /\ mem' = [mem EXCEPT ![field] = next] /\ next' = next + 1
  /\ op' = [type |-> field, code |-> None, write |-> "no"]
  /\ held' = IF field = "token" THEN None ELSE held
  /\ UNCHANGED <<up, now, disk, accepted, limiterVars, restartVars, chatVars>>

Write ==
  /\ op # None
  /\ op.write = "no"
  /\ \/ disk' = mem /\ op' = [op EXCEPT !.write = "done"]
     \/ op' = [op EXCEPT !.write = "failed"] /\ UNCHANGED disk
  /\ UNCHANGED <<up, calls, now, mem, next, accepted, held, limiterVars, restartVars, chatVars>>

AnswerAnyway ==
  /\ op # None
  /\ op.write # "no"
  /\ op' = None
  /\ accepted' = IF op.type = "pair" THEN accepted \cup {op.code} ELSE accepted
  /\ held' = IF op.type = "pair" THEN mem.token ELSE held
  /\ UNCHANGED <<up, calls, now, disk, mem, next, limiterVars, restartVars, chatVars>>

(* Pair answers with the token if the file is written; the rotations       *)
(* answer in any case.                                                     *)
Answer ==
  /\ op # None
  /\ op.write # "no"
  /\ op' = None
  /\ LET paired == op.type = "pair" /\ op.write = "done" IN
       /\ accepted' = IF paired THEN accepted \cup {op.code} ELSE accepted
       /\ held' = IF paired THEN mem.token ELSE held
  /\ UNCHANGED <<up, calls, now, disk, mem, next, limiterVars, restartVars, chatVars>>
------------------------------------------------------------------------------
Dead ==
  /\ up' = "down"
  /\ mem' = None /\ op' = None
  /\ hits' = <<>> /\ allowed' = <<>>
  /\ scheduled' = FALSE /\ seeding' = 0
  /\ UNCHANGED <<now, disk, next, accepted, held, chats>>

Crash ==
  /\ up # "down" /\ Called
  /\ Dead
  /\ UNCHANGED flag

(* Controller.Request: the flag is for the supervisor, and the process     *)
(* interrupts itself; the flag may fail to be written.                     *)
RequestRestart ==
  /\ up = "up" /\ Called
  /\ ~ scheduled
  /\ scheduled' = TRUE
  /\ flag' \in {flag, TRUE}
  /\ UNCHANGED <<up, now, authVars, limiterVars, chatVars>>

InterruptItself ==
  /\ scheduled /\ ~ SignalIgnored
  /\ Dead
  /\ UNCHANGED <<calls, flag>>

(* The supervisor looks for the flag every second. *)
SupervisorStops ==
  /\ up # "down" /\ flag
  /\ Dead
  /\ flag' = FALSE
  /\ UNCHANGED calls
------------------------------------------------------------------------------
Starting == Start \/ Seed \/ Listen
Restarting == InterruptItself \/ SupervisorStops

Next ==
  \/ Tick \/ Starting \/ CreateChat
  \/ PairRefused \/ \E code \in 1..next : Pair(code)
  \/ \E field \in {"code", "token"} : Rotate(field)
  \/ Write \/ Answer
  \/ Crash \/ RequestRestart \/ Restarting

Spec == Init /\ [][Next]_vars
------------------------------------------------------------------------------
Credentials == [code : 1..(next - 1), token : 1..(next - 1)]

(* The shape of the state. *)
TypeOK ==
  /\ up \in {"down", "starting", "up"}
  /\ calls \in 0..MaxCalls /\ now \in 0..calls
  /\ disk \in Credentials \cup {None}
  /\ mem \in (IF up = "down" THEN {None} ELSE Credentials)
  /\ op # None => up = "up" /\ op.write \in {"no", "done", "failed"}
  /\ Len(hits) <= MaxAttempts
  /\ {flag, scheduled} \subseteq BOOLEAN /\ (scheduled => up = "up")
  /\ \A i \in DOMAIN chats : chats[i].sample \in 0..Len(Samples)
  /\ seeding \in 0..Len(Samples)
  /\ accepted \subseteq 1..(next - 1) /\ held \in 1..(next - 1) \cup {None}

(* A pairing code is good for one answer: it is not accepted again by this *)
(* process nor, after a crash at any step or a failed write, by the next.  *)
CodeOnce ==
  /\ mem # None => mem.code \notin accepted
  /\ disk # None => disk.code \notin accepted

(* The token that a client got by pairing works as long as nobody rotates  *)
(* it, across crashes, restarts, and writes that failed before; a process  *)
(* that starts and cannot read or parse auth.json makes it worthless.      *)
PairedStays == held # None => /\ disk.token = held
                              /\ up = "up" => mem.token = held

(* A pairing is worth a token that works, and that token one code.         *)
PairingHolds == CodeOnce /\ PairedStays

(* The shape of the state; and no client tries more than MaxAttempts codes *)
(* in any Window of a process.                                             *)
AttemptsBounded ==
  /\ TypeOK
  /\ \A i \in DOMAIN allowed :
       i + MaxAttempts \in DOMAIN allowed => allowed[i + MaxAttempts] - allowed[i] >= Window

(* A flag left by an earlier process never stops this one: it is there     *)
(* only if this very process was asked to restart.                         *)
FlagIsMine == up # "down" /\ flag => scheduled

(* However often the hub dies while it seeds its demo chats, none of them  *)
(* is there twice, and they are not added to the chats of a user.          *)
SeededOnce ==
  /\ \A sample \in DOMAIN Samples : Cardinality(WrittenOf(sample)) <= 1
  /\ \A i, j \in DOMAIN chats : i < j /\ chats[j].sample # 0 => chats[i].sample # 0
==============================================================================
