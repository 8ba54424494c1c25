----------------------------- MODULE UsageCache -----------------------------
(***************************************************************************)
(* The weekly usage shown by the hub (internal/grokusage): a snapshot that *)
(* is fetched at most once per TTL while the mutex is held, from billing,  *)
(* the agent's log or neither, and that turns mark when they meet a limit. *)
(***************************************************************************)
EXTENDS Naturals, Sequences

CONSTANTS
  Callers,  (* GET /api/usage and GET /api/sessions                        *)
  Turns,    (* turns that end with the error of a limit                    *)
  Nil,
  TTL,      (* ttl, in ticks                                               *)
  MaxTime   (* bound of the model: ticks                                   *)

ASSUME UsageAssumption ==
  /\ TTL \in Nat \ {0} /\ MaxTime \in Nat
  /\ Nil \notin Callers \cup {"some", "full", "odd"}
  /\ Nil \notin Nat

VARIABLES
  now,
  mutex,     (* Cache.mu                                                   *)
  snap,      (* Cache.snap                                                 *)
  fetched,   (* Cache.fetched, Nil before the first                        *)
  pc,        (* where each caller is                                       *)
  called,    (* when it called                                             *)
  got,       (* the fetch that its answer comes from                       *)
  note,      (* where each turn is                                         *)
  fetches,   (* when a fetch was started                                   *)
  told       (* the percentages that a source or an error has told of      *)

usageVars == <<now, mutex, snap, fetched, pc, called, got, note, fetches, told>>

(* AtLimit goes with a used percentage of 99.95 or more, "full". *)
Unknown == [available |-> FALSE, used |-> Nil, reset |-> FALSE, atLimit |-> FALSE,
            shortReset |-> FALSE, shortLimit |-> FALSE, source |-> "none"]

UsageInit ==
  /\ now = 0 /\ mutex = Nil
  /\ snap = Unknown /\ fetched = Nil
  /\ pc = [c \in Callers |-> "idle"]
  /\ called = [c \in Callers |-> 0]
  /\ got = [c \in Callers |-> 0]
  /\ note = [t \in Turns |-> "running"]
  /\ fetches = <<>> /\ told = {}

Goto(c, label) == pc' = [pc EXCEPT ![c] = label]
------------------------------------------------------------------------------
Tick ==
  /\ now < MaxTime
  /\ now' = now + 1
  /\ UNCHANGED <<mutex, snap, fetched, pc, called, got, note, fetches, told>>

Call(c) ==
  /\ pc[c] \in {"idle", "answered"}
  /\ called' = [called EXCEPT ![c] = now]
  /\ Goto(c, "called")
  /\ UNCHANGED <<now, mutex, snap, fetched, got, note, fetches, told>>

Answer(c) == Goto(c, "answered") /\ got' = [got EXCEPT ![c] = fetched]

NeedOnce(f) == f = Nil
Need(f) == IF f = Nil THEN TRUE ELSE now - f > TTL
Recent(f) == IF f = Nil THEN FALSE ELSE now - f < TTL

(* Snapshot lets the mutex go before it calls Refresh ... *)
Look(c) ==
  /\ pc[c] = "called" /\ mutex = Nil
  /\ IF Need(fetched) THEN Goto(c, "refresh") /\ UNCHANGED got ELSE Answer(c)
  /\ UNCHANGED <<now, mutex, snap, fetched, called, note, fetches, told>>

(* ... which looks again, and fetches with the mutex held. *)
BeginFetch(c) ==
  /\ mutex' = c
  /\ fetches' = Append(fetches, now)
  /\ Goto(c, "fetching")

RefreshUnchecked(c) ==
  /\ pc[c] = "refresh" /\ mutex = Nil
  /\ BeginFetch(c)
  /\ UNCHANGED <<now, snap, fetched, called, got, note, told>>

Refresh(c) ==
  /\ pc[c] = "refresh" /\ mutex = Nil
  /\ \/ Recent(fetched) /\ Answer(c) /\ UNCHANGED <<mutex, fetches>>
     \/ ~ Recent(fetched) /\ BeginFetch(c) /\ UNCHANGED got
  /\ UNCHANGED <<now, snap, fetched, called, note, told>>

(* parseBilling: the tank's percentage, else that of the Build product; it *)
(* is refused if there is none or it is out of range.                      *)
Configs == [tank : {Nil, "some", "full", "odd"}, product : {Nil, "some"}, reset : BOOLEAN]
Used(cfg) == IF cfg.tank = Nil THEN cfg.product ELSE cfg.tank
Usable == {cfg \in Configs : Used(cfg) \in {"some", "full"}}

Parsed(cfg, source) ==
  [Unknown EXCEPT !.available = TRUE, !.used = Used(cfg), !.reset = cfg.reset,
                  !.atLimit = Used(cfg) = "full", !.source = source]

(* Billing knows nothing of the short window: what errors told of it stays. *)
FromBilling(cfg) ==
  [Parsed(cfg, "billing") EXCEPT !.shortReset = snap.shortReset, !.shortLimit = snap.shortLimit]

FromNothingWiped == Unknown

(* Neither billing nor log: what is known of a limit stays, percentages do *)
(* not.                                                                    *)
FromNothing ==
  IF snap.source = "limit-error" /\ (snap.reset \/ snap.atLimit)
    THEN snap
    ELSE [Unknown EXCEPT !.reset = snap.reset, !.atLimit = snap.atLimit]

Unlock(c) ==
  /\ mutex' = Nil
  /\ fetched' = fetches[Len(fetches)]
  /\ Goto(c, "answered") /\ got' = [got EXCEPT ![c] = fetched']

(* fetchLocked: billing fails if there is no token, no answer in 12 s, or  *)
(* the caller is gone; then the log may have a record, of any age.         *)
Fetched(c) ==
  /\ pc[c] = "fetching"
  /\ \/ \E cfg \in Usable : /\ snap' \in {FromBilling(cfg), Parsed(cfg, "grok-log")}
                            /\ told' = told \cup {Used(cfg)}
     \/ snap' = FromNothing /\ UNCHANGED told
  /\ Unlock(c)
  /\ UNCHANGED <<now, called, note, fetches>>
------------------------------------------------------------------------------
(* ParseLimitError and NoteLimitError: the pool is exhausted, or a request *)
(* was refused for a while; the error may say until when.                  *)
Limit(t) ==
  /\ note[t] = "running"
  /\ \E kind \in {"exhausted", "rateLimited"} : note' = [note EXCEPT ![t] = kind]
  /\ UNCHANGED <<now, mutex, snap, fetched, pc, called, got, fetches, told>>

Exhausted(reset) ==
  [snap EXCEPT !.reset = @ \/ reset, !.atLimit = TRUE, !.used = "full", !.available = TRUE,
               !.source = IF @ = "none" THEN "limit-error" ELSE @]

RateLimitedFull(reset) ==
  [snap EXCEPT !.reset = @ \/ reset, !.shortLimit = TRUE, !.shortReset = @ \/ reset,
               !.used = IF @ = Nil THEN "full" ELSE @]

RateLimited(reset) ==
  LET s == [snap EXCEPT !.reset = @ \/ reset, !.shortLimit = TRUE, !.shortReset = @ \/ reset]
  IN  IF s.used = Nil
        THEN [s EXCEPT !.source = "limit-error", !.available = s.reset \/ s.shortReset]
        ELSE s

Note(t) ==
  /\ note[t] \in {"exhausted", "rateLimited"} /\ mutex = Nil
  /\ \E reset \in BOOLEAN :
       snap' = IF note[t] = "exhausted" THEN Exhausted(reset) ELSE RateLimited(reset)
  /\ told' = IF note[t] = "exhausted" THEN told \cup {"full"} ELSE told
  /\ note' = [note EXCEPT ![t] = "noted"]
  /\ UNCHANGED <<now, mutex, fetched, pc, called, got, fetches>>
------------------------------------------------------------------------------
UsageNext ==
  \/ Tick
  \/ \E c \in Callers : Call(c) \/ Look(c) \/ Refresh(c) \/ Fetched(c)
  \/ \E t \in Turns : Limit(t) \/ Note(t)

UsageSpec == UsageInit /\ [][UsageNext]_usageVars
------------------------------------------------------------------------------
Times == 0..MaxTime

(* The shape of the state. *)
UsageTypeOK ==
  /\ now \in Times
  /\ mutex \in Callers \cup {Nil}
  /\ snap \in [available : BOOLEAN, used : {Nil, "some", "full"}, reset : BOOLEAN,
               atLimit : BOOLEAN, shortReset : BOOLEAN, shortLimit : BOOLEAN,
               source : {"none", "billing", "grok-log", "limit-error"}]
  /\ fetched \in Times \cup {Nil}
  /\ pc \in [Callers -> {"idle", "called", "refresh", "fetching", "answered"}]
  /\ \A c \in Callers : pc[c] = "fetching" <=> mutex = c
  /\ called \in [Callers -> Times] /\ got \in [Callers -> Times]
  /\ note \in [Turns -> {"running", "exhausted", "rateLimited", "noted"}]
  /\ fetches \in Seq(Times) /\ told \subseteq {"some", "full"}

(* Refresh is "safe to call often": however many ask at once, and however  *)
(* long a fetch takes, two fetches are a TTL apart.                        *)
FetchesApart == UsageTypeOK /\ \A i \in 2..Len(fetches) : fetches[i] - fetches[i-1] >= TTL

(* What a caller is told was fetched no more than a TTL before it called,  *)
(* even if it waited for somebody else's fetch.                            *)
AnswersFresh == \A c \in Callers : pc[c] = "answered" => called[c] <= got[c] + TTL

(* usage.go:8, "never invented numbers": a percentage was told by billing, *)
(* by the log or by an error that says that the pool is empty.             *)
NothingInvented == snap.used \in told \cup {Nil}

(* FromNothing keeps this snapshot whole. *)
FromError(s) == s.source = "limit-error" /\ (s.reset \/ s.atLimit)

(* What a turn has learnt of a limit is not lost to a fetch that learns    *)
(* nothing: the mark of the empty weekly pool goes only when billing or    *)
(* the log tells of a pool that is not empty, the time of its reset only   *)
(* when they answer at all.  The log's record may be older than the limit. *)
(* Of the short window less is kept: its mark goes with any record of the  *)
(* log, and with a failed fetch unless the snapshot is that of an error.   *)
LimitsKept ==
  [][/\ snap.atLimit /\ ~ snap'.atLimit
          => snap'.source \in {"billing", "grok-log"} /\ snap'.used # "full"
     /\ snap.reset /\ ~ snap'.reset => snap'.source \in {"billing", "grok-log"}
     /\ snap.shortLimit /\ ~ snap'.shortLimit
          => snap'.source = "grok-log" \/ (snap'.source = "none" /\ ~ FromError(snap))]_usageVars
------------------------------------------------------------------------------
(* What the repository says of the short window and the code does not keep. *)

(* usage.go:204, of a fetch that got nothing: "Preserve a previous         *)
(* limit-error reset rather than wiping it".  So the reset of the short    *)
(* window, which only errors tell of, outlives such a fetch.               *)
ShortWindowKept ==
  [][snap.shortReset /\ snap'.source = "none" => snap'.shortReset]_usageVars
==============================================================================
