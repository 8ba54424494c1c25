--------------------------- MODULE HubProcessProofs ---------------------------
(***************************************************************************)
(* Theorems about HubProcess: pairing and restarts, for any limits and any *)
(* number of calls and crashes.                                            *)
(***************************************************************************)
EXTENDS HubProcess, FiniteSetTheorems, SequenceTheorems, TLAPS

(***************************************************************************)
(* Credentials.  A number that was handed out is below next, so that a new *)
(* code or token is none of them.                                          *)
(***************************************************************************)
AuthOK ==
  /\ next \in Nat \ {0}
  /\ up \in {"down", "starting", "up"}
  /\ disk \in Credentials \cup {None}
  /\ IF up = "down" THEN mem = None ELSE mem \in Credentials
  /\ op # None => /\ up = "up"
                  /\ op.type \in {"pair", "code", "token"} /\ op.write \in {"no", "done", "failed"}
                  /\ op.type = "pair" => op.code \in 1..(next - 1)
  /\ accepted \subseteq 1..(next - 1)
  /\ held \in 1..(next - 1) \cup {None}

(* A Pair under way has replaced its code in memory and, once it has       *)
(* written, on disk.                                                       *)
PairUnderWay ==
  op # None /\ op.type = "pair" => /\ mem.code # op.code
                                   /\ op.write = "done" => disk = mem

(* The token that a client holds is the one on disk and, since a process   *)
(* began by reading that, the one in memory.                               *)
HeldKept ==
  held # None => /\ disk # None /\ disk.token = held
                 /\ up # "down" => mem.token = held

PairInv == AuthOK /\ CodeOnce /\ PairUnderWay /\ HeldKept

LEMMA NoneIsNoCredential == AuthOK => None \notin Credentials
BY ConstantsAssumption DEF AuthOK, Credentials

LEMMA InitPairInv == Init => PairInv
BY ConstantsAssumption DEF Init, PairInv, AuthOK, CodeOnce, PairUnderWay, HeldKept

(* What does not concern the credentials. *)
LEMMA Aside ==
  ASSUME PairInv, UNCHANGED authVars,
         up' = up \/ (up = "starting" /\ up' = "up")
  PROVE  PairInv'
BY DEF PairInv, AuthOK, CodeOnce, PairUnderWay, HeldKept, Credentials, authVars

LEMMA NextPairInv == PairInv /\ [Next]_vars => PairInv'
<1> SUFFICES ASSUME PairInv, [Next]_vars
             PROVE  PairInv'
  OBVIOUS
<1> USE ConstantsAssumption
<1>0. None \notin Credentials /\ AuthOK /\ CodeOnce /\ PairUnderWay /\ HeldKept
  BY NoneIsNoCredential DEF PairInv
<1>1. CASE Tick \/ Seed \/ Listen \/ CreateChat \/ PairRefused \/ RequestRestart \/ UNCHANGED vars
  <2>1. UNCHANGED authVars /\ (up' = up \/ (up = "starting" /\ up' = "up"))
    BY <1>1 DEF Tick, Seed, Listen, CreateChat, PairRefused, RequestRestart, vars, authVars, Called,
                Free
  <2> QED
    BY <2>1, Aside
<1>2. CASE Start
  <2>1. up = "down" /\ up' = "starting" /\ UNCHANGED <<op, accepted>> /\ op = None /\ StartAuth
    BY <1>0, <1>2 DEF Start, AuthOK
  <2>2. CASE disk' = Created /\ mem' = Created /\ next' = next + 2 /\ held' = None
    <3>1. AuthOK'
      BY <1>0, <2>1, <2>2 DEF AuthOK, Credentials, Created
    <3>2. CodeOnce'
      BY <1>0, <2>1, <2>2 DEF AuthOK, CodeOnce, Created
    <3> QED
      BY <2>1, <2>2, <3>1, <3>2 DEF PairInv, PairUnderWay, HeldKept
  <2>3. CASE disk # None /\ mem' = disk /\ UNCHANGED <<disk, next, held>>
    BY <1>0, <2>1, <2>3 DEF PairInv, AuthOK, CodeOnce, PairUnderWay, HeldKept, Credentials
  <2> QED
    BY <2>1, <2>2, <2>3 DEF StartAuth
<1>3. ASSUME NEW code \in 1..next, Pair(code)
      PROVE  PairInv'
  <2>1. up = "up" /\ up' = up /\ op = None /\ UNCHANGED <<disk, accepted, held>> /\ mem \in Credentials
    BY <1>0, <1>3 DEF Pair, Free, AuthOK
  <2>2. CASE code # mem.code
    <3>1. UNCHANGED authVars
      BY <1>3, <2>1, <2>2 DEF Pair, authVars
    <3> QED
      BY <2>1, <3>1, Aside
  <2>3. CASE code = mem.code
    <3>1. /\ mem' = [mem EXCEPT !.code = next] /\ next' = next + 1
          /\ op' = [type |-> "pair", code |-> code, write |-> "no"]
      BY <1>3, <2>3 DEF Pair
    <3>2. /\ mem'.code = next /\ mem'.token = mem.token /\ mem' \in Credentials'
          /\ disk' \in (Credentials \cup {None})' /\ code \in 1..(next - 1)
      <4>1. next \in Nat /\ next' = next + 1 /\ disk \in Credentials \cup {None} /\ disk' = disk
        BY <1>0, <2>1, <3>1 DEF AuthOK
      <4>2. mem.code \in 1..(next - 1) /\ mem.token \in 1..(next - 1)
            /\ mem = [code |-> mem.code, token |-> mem.token]
        BY <2>1 DEF Credentials
      <4>3. mem' = [code |-> next, token |-> mem.token]
        BY <4>2, <3>1
      <4>4. mem' \in Credentials'
        BY <4>1, <4>2, <4>3 DEF Credentials
      <4>5. Credentials \subseteq Credentials'
        BY <4>1 DEF Credentials
      <4> QED
        BY <4>1, <4>2, <4>3, <4>4, <4>5, <2>3
    <3>3. AuthOK'
      BY <1>0, <2>1, <3>1, <3>2 DEF AuthOK
    <3>4. CodeOnce' /\ PairUnderWay' /\ HeldKept'
      BY <1>0, <2>1, <3>1, <3>2 DEF AuthOK, CodeOnce, PairUnderWay, HeldKept
    <3> QED
      BY <3>3, <3>4 DEF PairInv
  <2> QED
    BY <2>2, <2>3
<1>4. ASSUME NEW field \in {"code", "token"}, Rotate(field)
      PROVE  PairInv'
  <2>1. /\ up = "up" /\ up' = up /\ UNCHANGED <<disk, accepted>> /\ mem \in Credentials
        /\ mem' = [mem EXCEPT ![field] = next] /\ next' = next + 1
        /\ op' = [type |-> field, code |-> None, write |-> "no"]
        /\ held' = IF field = "token" THEN None ELSE held
    BY <1>0, <1>4 DEF Rotate, Free, AuthOK
  <2>2. /\ mem' \in Credentials' /\ disk' \in (Credentials \cup {None})'
        /\ mem'.code \in {mem.code, next} /\ (field = "code" => mem'.token = mem.token)
    BY <1>0, <2>1 DEF AuthOK, Credentials
  <2>3. AuthOK'
    BY <1>0, <2>1, <2>2 DEF AuthOK
  <2>4. CodeOnce' /\ PairUnderWay'
    BY <1>0, <2>1, <2>2 DEF AuthOK, CodeOnce, PairUnderWay, Credentials
  <2>5. HeldKept'
    BY <1>0, <2>1, <2>2 DEF HeldKept
  <2> QED
    BY <2>3, <2>4, <2>5 DEF PairInv
<1>5. CASE Write
  <2>1. /\ up = "up" /\ op # None /\ mem \in Credentials
        /\ UNCHANGED <<up, mem, next, accepted, held>>
    BY <1>0, <1>5 DEF Write, AuthOK
  <2>2. CASE disk' = mem /\ op' = [op EXCEPT !.write = "done"]
    <3>1. op'.write = "done" /\ op'.type = op.type /\ op'.code = op.code
      BY <1>0, <2>1, <2>2 DEF AuthOK
    <3> QED
      BY <1>0, <2>1, <2>2, <3>1 DEF PairInv, AuthOK, CodeOnce, PairUnderWay, HeldKept, Credentials
  <2>3. CASE op' = [op EXCEPT !.write = "failed"] /\ UNCHANGED disk
    <3>1. op'.write = "failed" /\ op'.type = op.type /\ op'.code = op.code
      BY <1>0, <2>1, <2>3 DEF AuthOK
    <3> QED
      BY <1>0, <2>1, <2>3, <3>1 DEF PairInv, AuthOK, CodeOnce, PairUnderWay, HeldKept, Credentials
  <2> QED
    BY <1>5, <2>2, <2>3 DEF Write
<1>6. CASE Answer
  <2>1. /\ up = "up" /\ op # None /\ op' = None /\ mem \in Credentials
        /\ UNCHANGED <<up, disk, mem, next>>
    BY <1>0, <1>6 DEF Answer, AuthOK
  <2>2. CASE op.type = "pair" /\ op.write = "done"
    <3>1. accepted' = accepted \cup {op.code} /\ held' = mem.token
      BY <1>6, <2>2 DEF Answer
    <3>2. disk = mem /\ mem.code # op.code /\ op.code \in 1..(next - 1)
      BY <1>0, <2>1, <2>2 DEF PairUnderWay, AuthOK
    <3>3. AuthOK'
      BY <1>0, <2>1, <3>1, <3>2 DEF AuthOK, Credentials
    <3> QED
      BY <1>0, <2>1, <3>1, <3>2, <3>3 DEF PairInv, CodeOnce, PairUnderWay, HeldKept
  <2>3. CASE ~ (op.type = "pair" /\ op.write = "done")
    <3>1. UNCHANGED <<accepted, held>>
      BY <1>6, <2>3 DEF Answer
    <3> QED
      BY <1>0, <2>1, <3>1 DEF PairInv, AuthOK, CodeOnce, PairUnderWay, HeldKept, Credentials
  <2> QED
    BY <2>2, <2>3
<1>7. CASE Dead
  BY <1>0, <1>7 DEF Dead, PairInv, AuthOK, CodeOnce, PairUnderWay, HeldKept, Credentials
<1> QED
  BY <1>1, <1>2, <1>3, <1>4, <1>5, <1>6, <1>7
     DEF Next, Starting, Restarting, Crash, InterruptItself, SupervisorStops

(* A pairing code is accepted once, and the token it was worth works until *)
(* it is rotated or a process that starts cannot read auth.json, whatever  *)
(* fails or dies in between (Store.Pair, Store.loadOrCreate).              *)
THEOREM PairingsHold == Spec => []PairingHolds
<1>1. PairInv => PairingHolds
  BY DEF PairInv, AuthOK, HeldKept, PairingHolds, PairedStays
<1> QED
  BY <1>1, InitPairInv, NextPairInv, PTL DEF Spec
------------------------------------------------------------------------------
(***************************************************************************)
(* The restart flag.                                                       *)
(***************************************************************************)
FlagInv == FlagIsMine /\ (scheduled => up = "up")

LEMMA NextFlagInv == FlagInv /\ [Next]_vars => FlagInv'
<1> SUFFICES ASSUME FlagInv, [Next]_vars
             PROVE  FlagInv'
  OBVIOUS
<1> USE DEF FlagInv, FlagIsMine
<1>1. CASE UNCHANGED <<up, flag, scheduled>>
  BY <1>1
<1>2. CASE Start
  BY <1>2 DEF Start
<1>3. CASE Listen
  BY <1>3 DEF Listen, restartVars
<1>4. CASE RequestRestart
  BY <1>4 DEF RequestRestart
<1>5. CASE Dead
  BY <1>5 DEF Dead
<1>6. CASE Tick \/ Seed \/ CreateChat \/ PairRefused \/ (\E code \in 1..next : Pair(code))
           \/ (\E field \in {"code", "token"} : Rotate(field)) \/ Write \/ Answer
  BY <1>1, <1>6
     DEF Tick, Seed, CreateChat, PairRefused, Pair, Rotate, Write, Answer, restartVars
<1>7. CASE UNCHANGED vars
  BY <1>1, <1>7 DEF vars, restartVars
<1> QED
  BY <1>2, <1>3, <1>4, <1>5, <1>6, <1>7
     DEF Next, Starting, Restarting, Crash, InterruptItself, SupervisorStops

(* A flag that an earlier process left is gone before this one serves, so  *)
(* that the supervisor only stops a process that was asked to restart.     *)
THEOREM FlagsAreMine == Spec => []FlagIsMine
<1>1. Init => FlagInv
  BY DEF Init, FlagInv, FlagIsMine
<1>2. FlagInv => FlagIsMine
  BY DEF FlagInv
<1> QED
  BY <1>1, <1>2, NextFlagInv, PTL DEF Spec
------------------------------------------------------------------------------
(***************************************************************************)
(* The limiter.  Its hits are the last that were allowed, and those it has *)
(* dropped are too old to count.                                           *)
(***************************************************************************)
Spaced ==
  \A i \in DOMAIN allowed :
    i + MaxAttempts \in DOMAIN allowed => allowed[i + MaxAttempts] - allowed[i] >= Window

LimiterInv ==
  /\ now \in Nat
  /\ hits \in Seq(Nat) /\ allowed \in Seq(Nat)
  /\ Len(hits) <= Len(allowed) /\ Len(hits) <= MaxAttempts
  /\ \A i \in DOMAIN hits : hits[i] = allowed[Len(allowed) - Len(hits) + i]
  /\ \A i \in 1..(Len(allowed) - Len(hits)) : now - allowed[i] >= Window
  /\ Spaced

LEMMA Limits == /\ MaxAttempts \in Nat /\ MaxAttempts > 0 /\ Window \in Nat /\ Window > 0
                /\ MaxCalls \in Nat
BY ConstantsAssumption

LEMMA InitLimiter == Init => LimiterInv
BY Limits DEF Init, LimiterInv, Spaced

LEMMA KeptHits ==
  ASSUME LimiterInv, NEW n \in 0..MaxAttempts, Forget(n),
         NEW o, o = Len(allowed) - Len(hits) + n
  PROVE  /\ n \in Nat /\ n <= Len(hits) /\ Len(hits) \in Nat /\ Len(allowed) \in Nat
         /\ o \in Nat /\ o + Len(hits) = Len(allowed) + n
         /\ Kept(n) \in Seq(Nat) /\ Len(Kept(n)) = Len(hits) - n
         /\ \A i \in DOMAIN Kept(n) : Kept(n)[i] = allowed[o + i]
         /\ \A i \in 1..o : now - allowed[i] >= Window
<1>1. /\ n \in Nat /\ n <= Len(hits) /\ Len(hits) \in Nat /\ Len(allowed) \in Nat
      /\ Len(hits) <= Len(allowed)
  BY Limits DEF Forget, LimiterInv
<1>2. /\ Kept(n) \in Seq(Nat) /\ Len(Kept(n)) = Len(hits) - n
      /\ DOMAIN Kept(n) = 1..(Len(hits) - n) /\ DOMAIN hits = 1..Len(hits)
      /\ \A i \in DOMAIN Kept(n) : Kept(n)[i] = hits[n + i]
  <2>1. hits \in Seq(Nat) /\ n + 1 \in Int /\ Len(hits) \in Int
    BY <1>1 DEF LimiterInv
  <2>2. \A i \in (n + 1)..Len(hits) : hits[i] \in Nat
    BY <1>1, <2>1
  <2>3. /\ SubSeq(hits, n + 1, Len(hits)) \in Seq(Nat)
        /\ Len(SubSeq(hits, n + 1, Len(hits)))
             = IF n + 1 <= Len(hits) THEN Len(hits) - (n + 1) + 1 ELSE 0
        /\ \A i \in 1..(Len(hits) - (n + 1) + 1) :
             SubSeq(hits, n + 1, Len(hits))[i] = hits[n + 1 + i - 1]
    BY <2>1, <2>2, SubSeqProperties
  <2>4. Len(Kept(n)) = Len(hits) - n
    BY <1>1, <2>3 DEF Kept
  <2>5. \A i \in 1..(Len(hits) - n) : Kept(n)[i] = hits[n + i]
    <3> TAKE i \in 1..(Len(hits) - n)
    <3>1. i \in 1..(Len(hits) - (n + 1) + 1) /\ n + 1 + i - 1 = n + i
      BY <1>1
    <3>2. Kept(n)[i] = hits[n + 1 + i - 1]
      BY <2>3, <3>1 DEF Kept
    <3> QED
      BY <3>1, <3>2
  <2> QED
    BY <1>1, <2>1, <2>3, <2>4, <2>5 DEF Kept
<1>3. ASSUME NEW i \in DOMAIN Kept(n)
      PROVE  hits[n + i] = allowed[o + i]
  <2>1. i \in Nat /\ n + i \in DOMAIN hits
    BY <1>1, <1>2
  <2>2. Len(allowed) - Len(hits) + (n + i) = o + i
    BY <1>1, <2>1
  <2>3. hits[n + i] = allowed[Len(allowed) - Len(hits) + (n + i)]
    BY <2>1 DEF LimiterInv
  <2> QED
    BY <2>2, <2>3
<1>4. ASSUME NEW i \in 1..o
      PROVE  now - allowed[i] >= Window
  <2>1. CASE i <= Len(allowed) - Len(hits)
    BY <1>1, <2>1 DEF LimiterInv
  <2>2. CASE i > Len(allowed) - Len(hits)
    <3> DEFINE k == i - (Len(allowed) - Len(hits))
    <3>1. k \in DOMAIN hits /\ k <= n /\ Len(allowed) - Len(hits) + k = i
      BY <1>1, <2>2 DEF LimiterInv
    <3>2. hits[k] = allowed[i]
      BY <3>1 DEF LimiterInv
    <3> QED
      BY <3>1, <3>2 DEF Forget
  <2> QED
    BY <1>1, <2>1, <2>2
<1>5. o \in Nat /\ o + Len(hits) = Len(allowed) + n
  BY <1>1
<1>6. \A i \in DOMAIN Kept(n) : Kept(n)[i] = allowed[o + i]
  BY <1>2, <1>3
<1> QED
  BY <1>1, <1>2, <1>4, <1>5, <1>6

LEMMA RefusedLimiter ==
  ASSUME LimiterInv, PairRefused
  PROVE  LimiterInv'
<1>1. PICK n \in 0..MaxAttempts : Forget(n) /\ hits' = Kept(n)
  BY DEF PairRefused
<1>2. UNCHANGED <<now, allowed>>
  BY DEF PairRefused
<1>3. PICK o : o = Len(allowed) - Len(hits) + n
  OBVIOUS
<1>4. /\ n \in Nat /\ n <= Len(hits) /\ Len(hits) \in Nat /\ Len(allowed) \in Nat
      /\ o \in Nat /\ o + Len(hits) = Len(allowed) + n
      /\ hits' \in Seq(Nat) /\ Len(hits') = Len(hits) - n
      /\ \A i \in DOMAIN hits' : hits'[i] = allowed[o + i]
      /\ \A i \in 1..o : now - allowed[i] >= Window
  BY <1>1, <1>3, KeptHits
<1>5. Len(allowed') - Len(hits') = o
  BY <1>2, <1>4
<1>6. \A i \in DOMAIN hits' : hits'[i] = allowed'[Len(allowed') - Len(hits') + i]
  BY <1>2, <1>4, <1>5
<1>7. \A i \in 1..(Len(allowed') - Len(hits')) : now' - allowed'[i] >= Window
  BY <1>2, <1>4, <1>5
<1>8. Len(hits') <= Len(allowed') /\ Len(hits') <= MaxAttempts /\ hits' \in Seq(Nat)
  BY <1>2, <1>4, Limits DEF LimiterInv
<1> QED
  BY <1>2, <1>6, <1>7, <1>8 DEF LimiterInv, Spaced

LEMMA AllowedLimiter ==
  ASSUME LimiterInv, NEW code, Pair(code)
  PROVE  LimiterInv'
<1>1. PICK n \in 0..MaxAttempts : /\ Forget(n) /\ Len(hits) - n < MaxAttempts
                                  /\ hits' = Append(Kept(n), now)
  BY DEF Pair
<1>2. now' = now /\ allowed' = Append(allowed, now) /\ now \in Nat
  BY DEF Pair, LimiterInv
<1>3. PICK o : o = Len(allowed) - Len(hits) + n
  OBVIOUS
<1>4. /\ n \in Nat /\ n <= Len(hits) /\ Len(hits) \in Nat /\ Len(allowed) \in Nat
      /\ o \in Nat /\ o + Len(hits) = Len(allowed) + n
      /\ Kept(n) \in Seq(Nat) /\ Len(Kept(n)) = Len(hits) - n
      /\ \A i \in DOMAIN Kept(n) : Kept(n)[i] = allowed[o + i]
      /\ \A i \in 1..o : now - allowed[i] >= Window
  <2>1. Forget(n)
    BY <1>1
  <2> QED
    BY <1>3, <2>1, KeptHits
<1>5. /\ hits' \in Seq(Nat) /\ Len(hits') = Len(hits) - n + 1
      /\ DOMAIN hits' = DOMAIN Kept(n) \cup {Len(hits) - n + 1}
      /\ \A i \in DOMAIN Kept(n) : hits'[i] = Kept(n)[i]
      /\ hits'[Len(hits) - n + 1] = now
  <2> DEFINE kept == Kept(n)
  <2>1. kept \in Seq(Nat) /\ Len(kept) = Len(hits) - n /\ hits' = Append(kept, now)
    BY <1>1, <1>4
  <2> HIDE DEF kept
  <2>2. /\ hits' \in Seq(Nat) /\ Len(hits') = Len(kept) + 1
        /\ DOMAIN hits' = DOMAIN kept \cup {Len(kept) + 1}
        /\ \A i \in DOMAIN kept : hits'[i] = kept[i]
        /\ hits'[Len(kept) + 1] = now
    BY <1>2, <2>1
  <2> QED
    BY <2>1, <2>2 DEF kept
<1>6. /\ allowed' \in Seq(Nat) /\ Len(allowed') = Len(allowed) + 1
      /\ DOMAIN allowed' = 1..(Len(allowed) + 1) /\ DOMAIN allowed = 1..Len(allowed)
      /\ \A i \in 1..Len(allowed) : allowed'[i] = allowed[i]
      /\ allowed'[Len(allowed) + 1] = now
  BY <1>2 DEF LimiterInv
<1>7. Len(allowed') - Len(hits') = o /\ o <= Len(allowed)
  BY <1>4, <1>5, <1>6
<1>8. ASSUME NEW i \in DOMAIN hits'
      PROVE  hits'[i] = allowed'[o + i]
  <2>1. CASE i = Len(hits) - n + 1
    <3>1. /\ n \in Nat /\ o \in Nat /\ Len(hits) \in Nat /\ Len(allowed) \in Nat
          /\ o + Len(hits) = Len(allowed) + n
      BY <1>4
    <3>2. o + i = Len(allowed) + 1
      BY <2>1, <3>1
    <3> QED
      BY <1>5, <1>6, <2>1, <3>2
  <2>2. CASE i \in DOMAIN Kept(n)
    <3>1. o + i \in 1..Len(allowed)
      BY <1>4, <2>2
    <3> QED
      BY <1>4, <1>5, <1>6, <2>2, <3>1
  <2> QED
    BY <1>5, <2>1, <2>2
<1>9. \A i \in 1..o : now' - allowed'[i] >= Window
  BY <1>2, <1>4, <1>6, <1>7
<1>10. ASSUME NEW i \in DOMAIN allowed', i + MaxAttempts \in DOMAIN allowed'
       PROVE  allowed'[i + MaxAttempts] - allowed'[i] >= Window
  <2>1. CASE i + MaxAttempts = Len(allowed) + 1
    <3>1. i \in 1..o
      BY <1>1, <1>4, <1>6, <2>1, Limits
    <3>2. now' - allowed'[i] >= Window
      BY <1>9, <3>1
    <3> QED
      BY <1>2, <1>6, <2>1, <3>2
  <2>2. CASE i + MaxAttempts # Len(allowed) + 1
    <3>1. i \in DOMAIN allowed /\ i + MaxAttempts \in DOMAIN allowed
      BY <1>4, <1>6, <1>10, <2>2, Limits
    <3> QED
      BY <1>6, <3>1 DEF LimiterInv, Spaced
  <2> QED
    BY <2>1, <2>2
<1>11. Len(hits') <= Len(allowed') /\ Len(hits') <= MaxAttempts
  BY <1>1, <1>4, <1>5, <1>6, Limits
<1> QED
  BY <1>2, <1>5, <1>6, <1>7, <1>8, <1>9, <1>10, <1>11 DEF LimiterInv, Spaced

LEMMA NextLimiter == LimiterInv /\ [Next]_vars => LimiterInv'
<1> SUFFICES ASSUME LimiterInv, [Next]_vars
             PROVE  LimiterInv'
  OBVIOUS
<1>1. CASE UNCHANGED <<now, hits, allowed>>
  BY <1>1 DEF LimiterInv, Spaced
<1>2. CASE Tick
  <2>1. now' = now + 1 /\ UNCHANGED <<hits, allowed>>
    BY <1>2 DEF Tick, limiterVars
  <2>2. \A i \in 1..(Len(allowed) - Len(hits)) : now' - allowed[i] >= Window
    <3> TAKE i \in 1..(Len(allowed) - Len(hits))
    <3>1. i \in DOMAIN allowed
      BY DEF LimiterInv
    <3>2. allowed[i] \in Nat /\ now \in Nat /\ now - allowed[i] >= Window
      BY <3>1 DEF LimiterInv
    <3> QED
      BY <2>1, <3>2, Limits
  <2> QED
    BY <2>1, <2>2 DEF LimiterInv, Spaced
<1>3. CASE Dead
  <2>1. hits' = <<>> /\ allowed' = <<>> /\ now' = now
    BY <1>3 DEF Dead
  <2> QED
    BY <2>1, Limits DEF LimiterInv, Spaced
<1>4. CASE Starting \/ CreateChat \/ RequestRestart
  BY <1>1, <1>4 DEF Starting, Start, Seed, Listen, CreateChat, RequestRestart, limiterVars
<1>5. CASE Write \/ Answer \/ \E field \in {"code", "token"} : Rotate(field)
  BY <1>1, <1>5 DEF Write, Answer, Rotate, limiterVars
<1>6. CASE UNCHANGED vars
  BY <1>1, <1>6 DEF vars, limiterVars
<1> QED
  BY <1>2, <1>3, <1>4, <1>5, <1>6, RefusedLimiter, AllowedLimiter
     DEF Next, Restarting, Crash, InterruptItself, SupervisorStops
------------------------------------------------------------------------------
(***************************************************************************)
(* The demo chats.  They are written before anybody has a chat of his own, *)
(* one after the other, and only when none of them is there.               *)
(***************************************************************************)
Chat == [sample : 0..Len(Samples), messages : Nat]

SeedInv ==
  /\ up \in {"down", "starting", "up"}
  /\ chats \in Seq(Chat)
  /\ seeding \in 0..Len(Samples)
  /\ seeding # 0 => up = "starting" /\ \A i \in DOMAIN chats : chats[i].sample # 0
  /\ \A i, j \in DOMAIN chats : chats[i].sample = chats[j].sample /\ chats[i].sample # 0 => i = j
  /\ \A i, j \in DOMAIN chats : i < j /\ chats[j].sample # 0 => chats[i].sample # 0

LEMMA SampleCount == Len(Samples) \in Nat /\ (Samples # <<>> => Len(Samples) >= 1)
BY ConstantsAssumption

LEMMA InitSeed == Init => SeedInv
BY SampleCount DEF Init, SeedInv, Chat

(* A chat is added. *)
LEMMA ChatAppended ==
  ASSUME SeedInv, NEW s \in 0..Len(Samples), chats' = Append(chats, [sample |-> s, messages |-> 0])
  PROVE  /\ chats' \in Seq(Chat)
         /\ DOMAIN chats' = DOMAIN chats \cup {Len(chats) + 1}
         /\ \A i \in DOMAIN chats : chats'[i] = chats[i] /\ i \in Nat /\ i <= Len(chats)
         /\ chats'[Len(chats) + 1].sample = s /\ Len(chats) \in Nat
<1>1. [sample |-> s, messages |-> 0] \in Chat
  BY DEF Chat
<1>2. chats \in Seq(Chat)
  BY DEF SeedInv
<1>3. chats'[Len(chats) + 1] = [sample |-> s, messages |-> 0]
  BY <1>1, <1>2
<1> QED
  BY <1>1, <1>2, <1>3

LEMMA SeedSeed ==
  ASSUME SeedInv, Seed
  PROVE  SeedInv'
<1>1. up' = up /\ up = "starting" /\ seeding # 0 /\ seeding \in 0..Len(Samples)
  BY DEF Seed, SeedInv
<1>2. CASE /\ WrittenOf(seeding) = {}
           /\ chats' = Append(chats, [sample |-> seeding, messages |-> 0])
           /\ UNCHANGED seeding
  <2>1. \A i \in DOMAIN chats : chats[i].sample # seeding
    BY <1>2 DEF WrittenOf
  <2>2. /\ chats' \in Seq(Chat)
        /\ DOMAIN chats' = DOMAIN chats \cup {Len(chats) + 1}
        /\ \A i \in DOMAIN chats : chats'[i] = chats[i] /\ i \in Nat /\ i <= Len(chats)
        /\ chats'[Len(chats) + 1].sample = seeding /\ Len(chats) \in Nat
    BY <1>1, <1>2, ChatAppended
  <2>3. \A i \in DOMAIN chats' : chats'[i].sample # 0
    BY <1>1, <2>2 DEF SeedInv
  <2>4. \A i, j \in DOMAIN chats' : chats'[i].sample = chats'[j].sample => i = j
    BY <1>1, <2>1, <2>2 DEF SeedInv
  <2> QED
    BY <1>1, <1>2, <2>2, <2>3, <2>4 DEF SeedInv
<1>3. ASSUME NEW i \in WrittenOf(seeding),
             chats' = [chats EXCEPT ![i].messages = @ + 1],
             seeding' = IF chats'[i].messages < Samples[seeding] THEN seeding
                        ELSE IF seeding < Len(Samples) THEN seeding + 1 ELSE 0
      PROVE  SeedInv'
  <2>1. i \in DOMAIN chats /\ chats \in Seq(Chat)
    BY DEF WrittenOf, SeedInv
  <2>2. DOMAIN chats' = DOMAIN chats /\ Len(chats') = Len(chats)
    BY <1>3, <2>1
  <2>3. \A k \in DOMAIN chats : chats[k] \in Chat /\ chats'[k] \in Chat /\ chats'[k].sample = chats[k].sample
    <3>1. \A k \in DOMAIN chats : chats[k] \in Chat
      BY <2>1
    <3>2. chats'[i] = [chats[i] EXCEPT !.messages = chats[i].messages + 1]
      BY <1>3, <2>1
    <3>3. chats'[i] \in Chat /\ chats'[i].sample = chats[i].sample
      <4>1. chats[i] = [sample |-> chats[i].sample, messages |-> chats[i].messages]
            /\ chats[i].sample \in 0..Len(Samples) /\ chats[i].messages \in Nat
        BY <2>1, <3>1 DEF Chat
      <4>2. chats'[i] = [sample |-> chats[i].sample, messages |-> chats[i].messages + 1]
        BY <3>2, <4>1
      <4> QED
        BY <4>1, <4>2 DEF Chat
    <3>4. \A k \in DOMAIN chats \ {i} : chats'[k] = chats[k]
      BY <1>3, <2>1
    <3> QED
      BY <3>1, <3>3, <3>4
  <2>4. chats' \in Seq(Chat)
    BY <1>3, <2>1, <2>3
  <2>5. seeding' \in 0..Len(Samples)
    BY <1>1, <1>3, SampleCount
  <2> QED
    BY <1>1, <2>2, <2>3, <2>4, <2>5 DEF SeedInv
<1>4. CASE seeding' = 0 /\ UNCHANGED chats
  BY <1>1, <1>4, SampleCount DEF SeedInv
<1> QED
  BY <1>2, <1>3, <1>4 DEF Seed

LEMMA NextSeed == SeedInv /\ [Next]_vars => SeedInv'
<1> SUFFICES ASSUME SeedInv, [Next]_vars
             PROVE  SeedInv'
  OBVIOUS
<1>1. CASE UNCHANGED <<up, chats, seeding>>
  BY <1>1 DEF SeedInv
<1>2. CASE Start
  <2>1. /\ chats' = chats /\ up' = "starting"
        /\ seeding' = IF chats = <<>> /\ Samples # <<>> THEN 1 ELSE 0
    BY <1>2 DEF Start
  <2>2. chats = <<>> => DOMAIN chats = {}
    OBVIOUS
  <2> QED
    BY <2>1, <2>2, SampleCount DEF SeedInv
<1>3. CASE Listen
  BY <1>3 DEF Listen, chatVars, SeedInv
<1>4. CASE CreateChat
  <2>1. /\ chats' = Append(chats, [sample |-> 0, messages |-> 0]) /\ UNCHANGED <<up, seeding>>
        /\ up = "up"
    BY <1>4 DEF CreateChat, Free
  <2>2. /\ chats' \in Seq(Chat)
        /\ DOMAIN chats' = DOMAIN chats \cup {Len(chats) + 1}
        /\ \A i \in DOMAIN chats : chats'[i] = chats[i] /\ i \in Nat /\ i <= Len(chats)
        /\ chats'[Len(chats) + 1].sample = 0 /\ Len(chats) \in Nat
    BY <2>1, SampleCount, ChatAppended
  <2> QED
    BY <2>1, <2>2 DEF SeedInv
<1>5. CASE Dead
  BY <1>5, SampleCount DEF Dead, SeedInv
<1>6. CASE Tick \/ PairRefused \/ RequestRestart
  BY <1>1, <1>6 DEF Tick, PairRefused, RequestRestart, chatVars
<1>7. ASSUME NEW code, Pair(code)
      PROVE  SeedInv'
  BY <1>1, <1>7 DEF Pair, chatVars
<1>8. CASE Write \/ Answer \/ \E field \in {"code", "token"} : Rotate(field)
  BY <1>1, <1>8 DEF Write, Answer, Rotate, chatVars
<1>9. CASE UNCHANGED vars
  BY <1>1, <1>9 DEF vars, chatVars
<1> QED
  BY <1>2, <1>3, <1>4, <1>5, <1>6, <1>7, <1>8, <1>9, SeedSeed
     DEF Next, Starting, Restarting, Crash, InterruptItself, SupervisorStops

(* However often the hub dies while it seeds its demo chats, none of them  *)
(* is there twice and they do not come after a chat of a user              *)
(* (EnsureDemoSessions).                                                   *)
THEOREM SeededAtMostOnce == Spec => []SeededOnce
<1>1. ASSUME SeedInv
      PROVE  SeededOnce
  <2>1. ASSUME NEW sample \in DOMAIN Samples
        PROVE  Cardinality(WrittenOf(sample)) <= 1
    <3>1. sample # 0
      BY ConstantsAssumption
    <3>2. \A i, j \in WrittenOf(sample) : i = j
      BY <1>1, <3>1 DEF SeedInv, WrittenOf
    <3>3. CASE WrittenOf(sample) = {}
      BY <3>3, FS_EmptySet
    <3>4. ASSUME NEW i \in WrittenOf(sample)
          PROVE  Cardinality(WrittenOf(sample)) <= 1
      <4>1. WrittenOf(sample) = {i}
        BY <3>2, <3>4
      <4>2. Cardinality({i}) = 1
        BY FS_Singleton
      <4> QED
        BY <4>1, <4>2
    <3> QED
      BY <3>3, <3>4
  <2> QED
    BY <1>1, <2>1 DEF SeedInv, SeededOnce
<1> QED
  BY <1>1, InitSeed, NextSeed, PTL DEF Spec
------------------------------------------------------------------------------
(***************************************************************************)
(* The rest of the state.                                                  *)
(***************************************************************************)
CountInv == calls \in 0..MaxCalls /\ now \in 0..calls

FlagTyped == {flag, scheduled} \subseteq BOOLEAN

LEMMA NextCount == CountInv /\ [Next]_vars => CountInv'
<1> SUFFICES ASSUME CountInv, [Next]_vars
             PROVE  CountInv'
  OBVIOUS
<1> USE Limits DEF CountInv
<1>1. CASE UNCHANGED <<calls, now>>
  BY <1>1
<1>2. CASE Called /\ now' \in {now, now + 1}
  BY <1>2 DEF Called
<1>3. CASE Tick \/ CreateChat \/ PairRefused \/ Crash \/ RequestRestart
           \/ \E field \in {"code", "token"} : Rotate(field)
  BY <1>2, <1>3 DEF Tick, CreateChat, PairRefused, Crash, Dead, RequestRestart, Rotate
<1>4. ASSUME NEW code, Pair(code)
      PROVE  CountInv'
  BY <1>2, <1>4 DEF Pair
<1>5. CASE Starting \/ Write \/ Answer \/ Restarting
  BY <1>1, <1>5 DEF Starting, Start, Seed, Listen, Write, Answer, Restarting, InterruptItself,
                    SupervisorStops, Dead
<1>6. CASE UNCHANGED vars
  BY <1>1, <1>6 DEF vars
<1> QED
  BY <1>3, <1>4, <1>5, <1>6 DEF Next

LEMMA NextFlagTyped == FlagTyped /\ [Next]_vars => FlagTyped'
<1> SUFFICES ASSUME FlagTyped, [Next]_vars
             PROVE  FlagTyped'
  OBVIOUS
<1> USE DEF FlagTyped
<1>1. CASE UNCHANGED restartVars
  BY <1>1 DEF restartVars
<1>2. CASE Starting \/ RequestRestart \/ Crash \/ Restarting
  BY <1>1, <1>2 DEF Starting, Start, Seed, Listen, RequestRestart, Crash, Restarting, InterruptItself,
                    SupervisorStops, Dead
<1>3. CASE Tick \/ CreateChat \/ PairRefused \/ \E field \in {"code", "token"} : Rotate(field)
  BY <1>1, <1>3 DEF Tick, CreateChat, PairRefused, Rotate
<1>4. ASSUME NEW code, Pair(code)
      PROVE  FlagTyped'
  BY <1>1, <1>4 DEF Pair
<1>5. CASE Write \/ Answer
  BY <1>1, <1>5 DEF Write, Answer
<1>6. CASE UNCHANGED vars
  BY <1>1, <1>6 DEF vars
<1> QED
  BY <1>2, <1>3, <1>4, <1>5, <1>6 DEF Next

IInv == PairInv /\ FlagInv /\ FlagTyped /\ LimiterInv /\ SeedInv /\ CountInv

LEMMA Invariant == Spec => []IInv
<1>1. Init => IInv
  <2>1. Init => FlagInv /\ FlagTyped
    BY DEF Init, FlagInv, FlagIsMine, FlagTyped
  <2>2. Init => CountInv
    BY Limits DEF Init, CountInv
  <2> QED
    BY <2>1, <2>2, InitPairInv, InitLimiter, InitSeed DEF IInv
<1>2. IInv /\ [Next]_vars => IInv'
  BY NextPairInv, NextFlagInv, NextFlagTyped, NextLimiter, NextSeed, NextCount DEF IInv
<1> QED
  BY <1>1, <1>2, PTL DEF Spec

LEMMA TypeFollows == IInv => TypeOK
<1> SUFFICES ASSUME IInv
             PROVE  TypeOK
  OBVIOUS
<1>1. AuthOK /\ LimiterInv /\ SeedInv /\ CountInv /\ FlagTyped /\ FlagInv
  BY DEF IInv, PairInv
<1>2. \A i \in DOMAIN chats : chats[i].sample \in 0..Len(Samples)
  <2>1. chats \in Seq(Chat)
    BY <1>1 DEF SeedInv
  <2>2. \A i \in DOMAIN chats : chats[i] \in Chat
    BY <2>1
  <2> QED
    BY <2>2 DEF Chat
<1> QED
  BY <1>1, <1>2 DEF TypeOK, AuthOK, LimiterInv, SeedInv, CountInv, FlagTyped, FlagInv

(* The shape of the state. *)
THEOREM TypeCorrect == Spec => []TypeOK
BY Invariant, TypeFollows, PTL

(* No client tries more than MaxAttempts codes in any Window of a process, *)
(* for any limits (PairRateLimiter.Allow).                                 *)
THEOREM AttemptsAreBounded == Spec => []AttemptsBounded
<1>1. IInv => AttemptsBounded
  BY TypeFollows DEF IInv, LimiterInv, Spaced, AttemptsBounded
<1> QED
  BY <1>1, Invariant, PTL
==============================================================================
