--------------------------- MODULE HubTurnsProofs ---------------------------
(***************************************************************************)
(* Proofs about HubTurns for any number of turns, sessions and stops.      *)
(***************************************************************************)
EXTENDS HubTurns, TLAPS

LEMMA SessType == \A t \in Turns : Sess(t) \in Sessions
BY ConstantsAssumption DEF Sess

LEMMA InitTypeOK == Init => TypeOK
BY ConstantsAssumption DEF Init, TypeOK, Labels

LEMMA AppendMessageType ==
  ASSUME TypeOK, NEW t \in Turns, NEW m \in Message, AppendMessage(t, m)
  PROVE  transcript' \in [Sessions -> Seq(Message)]
BY SessType DEF TypeOK, AppendMessage

LEMMA BroadcastType ==
  ASSUME TypeOK, NEW t \in Turns, NEW e \in {"user_message", "delta"} \cup Finals, Broadcast(t, e)
  PROVE  wire' \in [Sessions -> Seq(WireEvent)]
<1>1. [turn |-> t, type |-> e] \in WireEvent
  BY DEF WireEvent
<1> QED
  BY <1>1, SessType DEF TypeOK, Broadcast

LEMMA MessageTypes ==
  ASSUME NEW t \in Turns, NEW c \in BOOLEAN
  PROVE  User(t) \in Message /\ Assistant(t, c) \in Message
BY DEF User, Assistant, Message

LEMMA TurnTypeOK ==
  ASSUME TypeOK, NEW t \in Turns, Send(t) \/ Answer(t) \/ Hear(t) \/ CloseChannel(t)
  PROVE  TypeOK'
<1>1. CASE Send(t)
  BY <1>1 DEF TypeOK, Send, Goto, Labels
<1>2. CASE Answer(t)
  BY <1>2 DEF TypeOK, Answer, AnswerOk, AnswerError, AnswerTimeout
<1>3. CASE Hear(t)
  <2>1. wire' \in [Sessions -> Seq(WireEvent)]
    BY <1>3, BroadcastType DEF Hear, Finals
  <2>2. deltas' \in [Turns -> 0..MaxDeltas]
    <3>1. CASE UNCHANGED deltas
      BY <3>1 DEF TypeOK
    <3>2. CASE deltas[t] < MaxDeltas /\ deltas' = [deltas EXCEPT ![t] = @ + 1]
      <4>1. deltas[t] + 1 \in 0..MaxDeltas
        BY <3>2, ConstantsAssumption DEF TypeOK
      <4> QED
        BY <3>2, <4>1 DEF TypeOK
    <3> QED
      BY <1>3, <3>1, <3>2 DEF Hear
  <2>3. final' \in [Turns -> Finals \cup {"none"}]
    BY <1>3 DEF Hear, TypeOK, Finals
  <2> QED
    BY <1>3, <2>1, <2>2, <2>3 DEF Hear, TypeOK
<1>4. CASE CloseChannel(t)
  BY <1>4 DEF TypeOK, CloseChannel
<1> QED
  BY <1>1, <1>2, <1>3, <1>4

LEMMA RunTypeOK ==
  ASSUME TypeOK, NEW t \in Turns, Run(t)
  PROVE  TypeOK'
<1> USE SessType DEF TypeOK, Goto, Labels, Holding, Slotted, turnVars
<1>1. CASE Acquire(t)
  BY <1>1 DEF Acquire
<1>2. CASE SetTurnCancel(t)
  BY <1>2 DEF SetTurnCancel
<1>3. CASE SaveUser(t)
  BY <1>3, MessageTypes, AppendMessageType DEF SaveUser
<1>4. CASE Announce(t)
  BY <1>4, BroadcastType DEF Announce
<1>5. CASE StartReply(t)
  <2>0. transcript[Sess(t)] \in Seq(Message) /\ <<>> \in Seq(Message)
    OBVIOUS
  <2>1. history' \in [Turns -> Seq(Message)]
    <3>1. PICK h \in {transcript[Sess(t)], <<>>} : history' = [history EXCEPT ![t] = h]
      BY <1>5 DEF StartReply
    <3>2. h \in Seq(Message)
      BY <2>0
    <3> QED
      BY <3>1, <3>2
  <2>2. note' \in [Turns -> {"none", "id", "failing", "err", "refused", "both"}]
    BY <1>5 DEF StartReply
  <2>3. chan' \in [Turns -> BOOLEAN] /\ pc' \in [Turns -> Labels]
    BY <1>5 DEF StartReply
  <2> QED
    BY <1>5, <2>1, <2>2, <2>3 DEF StartReply
<1>6. CASE EndReply(t)
  <2>1. wire' \in [Sessions -> Seq(WireEvent)]
    BY <1>6, BroadcastType DEF EndReply, Finals
  <2>2. final' \in [Turns -> Finals \cup {"none"}]
    BY <1>6 DEF EndReply, Finals
  <2> QED
    BY <1>6, <2>1, <2>2 DEF EndReply
<1>7. CASE SaveReply(t)
  BY <1>7, MessageTypes, AppendMessageType DEF SaveReply
<1>8. CASE ClearTurnCancel(t)
  BY <1>8 DEF ClearTurnCancel
<1>9. CASE Release(t)
  BY <1>9 DEF Release
<1> QED
  BY <1>1, <1>2, <1>3, <1>4, <1>5, <1>6, <1>7, <1>8, <1>9 DEF Run

LEMMA StopTypeOK ==
  ASSUME TypeOK,
         (\E x \in Stops : CallCancel(x) \/ \E s \in Sessions : TakeCancel(x, s)) \/ Crash
  PROVE  TypeOK'
<1>1. ASSUME NEW x \in Stops, CallCancel(x)
      PROVE  TypeOK'
  BY <1>1 DEF CallCancel, TypeOK, turnVars
<1>2. ASSUME NEW x \in Stops, NEW s \in Sessions, TakeCancel(x, s)
      PROVE  TypeOK'
  BY <1>2 DEF TakeCancel, TypeOK, turnVars
<1>3. CASE Crash
  BY <1>3, ConstantsAssumption DEF Crash, TypeOK, Labels
<1> QED
  BY <1>1, <1>2, <1>3

LEMMA NextTypeOK == TypeOK /\ [Next]_vars => TypeOK'
<1> SUFFICES ASSUME TypeOK, [Next]_vars
             PROVE  TypeOK'
  OBVIOUS
<1>1. CASE UNCHANGED vars
  BY <1>1 DEF vars, turnVars, TypeOK
<1> QED
  BY <1>1, TurnTypeOK, RunTypeOK, StopTypeOK DEF Next

(* The state keeps its shape in every run. *)
THEOREM TypeCorrect == Spec => []TypeOK
BY InitTypeOK, NextTypeOK, PTL DEF Spec
------------------------------------------------------------------------------
(***************************************************************************)
(* The mutex.  A turn that is past Lock and before Unlock is the holder.   *)
(***************************************************************************)
LockInv ==
  /\ \A t \in Turns : pc[t] \in Holding => lock[Sess(t)] = t
  /\ \A s \in Sessions : \A t \in Turns : lock[s] = t => pc[t] \in Holding /\ Sess(t) = s

OnlyMoves(t) == \A u \in Turns \ {t} : pc'[u] = pc[u]

(* The steps of runChat between setTurnCancel and the deferred calls.      *)
Inside(t) == SaveUser(t) \/ Announce(t) \/ StartReply(t) \/ EndReply(t) \/ SaveReply(t)

(* They leave the mutex, the slot and the contexts alone. *)
LEMMA InsideQuiet ==
  ASSUME TypeOK, NEW t \in Turns, Inside(t)
  PROVE  /\ UNCHANGED <<lock, slot, ctx, grabbed>>
         /\ pc[t] \in Slotted /\ pc'[t] \in Slotted
         /\ OnlyMoves(t)
<1> USE DEF TypeOK, Goto, OnlyMoves, Slotted
<1>1. CASE SaveUser(t)
  BY <1>1 DEF SaveUser
<1>2. CASE Announce(t)
  BY <1>2 DEF Announce
<1>3. CASE StartReply(t)
  BY <1>3 DEF StartReply
<1>4. CASE EndReply(t)
  BY <1>4 DEF EndReply
<1>5. CASE SaveReply(t)
  BY <1>5 DEF SaveReply
<1> QED
  BY <1>1, <1>2, <1>3, <1>4, <1>5 DEF Inside

LEMMA LockNext == TypeOK /\ LockInv /\ [Next]_vars => LockInv'
<1> SUFFICES ASSUME TypeOK, LockInv, [Next]_vars
             PROVE  LockInv'
  OBVIOUS
<1> USE SessType, ConstantsAssumption
    DEF TypeOK, LockInv, Goto, Holding, Slotted
<1>1. ASSUME NEW t \in Turns, Acquire(t)
      PROVE  LockInv'
  BY <1>1 DEF Acquire
<1>2. ASSUME NEW t \in Turns, Release(t)
      PROVE  LockInv'
  <2>1. /\ lock' = [lock EXCEPT ![Sess(t)] = None]
        /\ pc[t] \in Holding
        /\ pc' = [pc EXCEPT ![t] = "finished"] /\ "finished" \notin Holding
    BY <1>2 DEF Release
  <2>2. lock[Sess(t)] = t
    BY <2>1
  <2>3. ASSUME NEW u \in Turns, pc'[u] \in Holding
        PROVE  lock'[Sess(u)] = u
    BY <2>1, <2>2, <2>3
  <2>4. ASSUME NEW s \in Sessions, NEW u \in Turns, lock'[s] = u
        PROVE  pc'[u] \in Holding /\ Sess(u) = s
    BY <2>1, <2>2, <2>4
  <2> QED
    BY <2>3, <2>4
<1>3. ASSUME NEW t \in Turns, Inside(t)
      PROVE  LockInv'
  <2>1. /\ lock' = lock
        /\ pc[t] \in Holding /\ pc'[t] \in Holding
        /\ OnlyMoves(t)
    BY <1>3, InsideQuiet DEF OnlyMoves
  <2> QED
    BY <2>1 DEF OnlyMoves
<1>9. ASSUME NEW t \in Turns, SetTurnCancel(t) \/ ClearTurnCancel(t)
      PROVE  LockInv'
  <2>1. /\ lock' = lock
        /\ pc[t] \in Holding /\ pc'[t] \in Holding
        /\ OnlyMoves(t)
    BY <1>9 DEF SetTurnCancel, ClearTurnCancel, OnlyMoves
  <2> QED
    BY <2>1 DEF OnlyMoves
<1>4. ASSUME NEW t \in Turns, Send(t)
      PROVE  LockInv'
  BY <1>4 DEF Send
<1>5. ASSUME NEW t \in Turns, Answer(t) \/ Hear(t) \/ CloseChannel(t)
      PROVE  LockInv'
  BY <1>5 DEF Answer, AnswerOk, AnswerError, AnswerTimeout, Hear, CloseChannel
<1>6. ASSUME NEW x \in Stops, CallCancel(x) \/ \E s \in Sessions : TakeCancel(x, s)
      PROVE  LockInv'
  BY <1>6 DEF CallCancel, TakeCancel
<1>7. CASE Crash
  BY <1>7 DEF Crash
<1>8. CASE UNCHANGED vars
  BY <1>8 DEF vars
<1> QED
  BY <1>1, <1>2, <1>3, <1>4, <1>5, <1>6, <1>7, <1>8, <1>9 DEF Next, Run, Inside

LEMMA InitLock == Init => LockInv
BY ConstantsAssumption, SessType DEF Init, LockInv, Holding, Slotted
------------------------------------------------------------------------------
(***************************************************************************)
(* The slot.  SlotIsRunning is inductive together with LockInv: whoever    *)
(* writes or empties the slot holds the mutex, so it is its own.           *)
(***************************************************************************)
LEMMA InitSlot == Init => SlotIsRunning
BY ConstantsAssumption DEF Init, SlotIsRunning

LEMMA SlotNext == TypeOK /\ LockInv /\ SlotIsRunning /\ [Next]_vars => SlotIsRunning'
<1> SUFFICES ASSUME TypeOK, LockInv, SlotIsRunning, [Next]_vars
             PROVE  SlotIsRunning'
  OBVIOUS
<1> USE SessType, ConstantsAssumption
    DEF TypeOK, LockInv, SlotIsRunning, Goto, Holding, Slotted
<1>1. ASSUME NEW t \in Turns, Acquire(t)
      PROVE  SlotIsRunning'
  BY <1>1 DEF Acquire
<1>2. ASSUME NEW t \in Turns, SetTurnCancel(t)
      PROVE  SlotIsRunning'
  BY <1>2 DEF SetTurnCancel
<1>3. ASSUME NEW t \in Turns, Inside(t)
      PROVE  SlotIsRunning'
  <2>1. slot' = slot /\ lock' = lock
    BY <1>3, InsideQuiet
  <2>2. pc'[t] \in Slotted /\ OnlyMoves(t)
    BY <1>3, InsideQuiet
  <2> QED
    BY <2>1, <2>2 DEF OnlyMoves
<1>4. ASSUME NEW t \in Turns, ClearTurnCancel(t)
      PROVE  SlotIsRunning'
  BY <1>4 DEF ClearTurnCancel
<1>5. ASSUME NEW t \in Turns, Release(t)
      PROVE  SlotIsRunning'
  BY <1>5 DEF Release
<1>6. ASSUME NEW t \in Turns, Send(t)
      PROVE  SlotIsRunning'
  BY <1>6 DEF Send
<1>7. ASSUME NEW t \in Turns, Answer(t) \/ Hear(t) \/ CloseChannel(t)
      PROVE  SlotIsRunning'
  BY <1>7 DEF Answer, AnswerOk, AnswerError, AnswerTimeout, Hear, CloseChannel
<1>8. ASSUME NEW x \in Stops, CallCancel(x)
      PROVE  SlotIsRunning'
  BY <1>8 DEF CallCancel
<1>11. ASSUME NEW x \in Stops, NEW s \in Sessions, TakeCancel(x, s)
      PROVE  SlotIsRunning'
  BY <1>11 DEF TakeCancel
<1>9. CASE Crash
  BY <1>9 DEF Crash
<1>10. CASE UNCHANGED vars
  BY <1>10 DEF vars
<1> QED
  BY <1>1, <1>2, <1>3, <1>4, <1>5, <1>6, <1>7, <1>8, <1>9, <1>10, <1>11
     DEF Next, Run, Inside

LEMMA SlotInvariant == Spec => [](TypeOK /\ LockInv /\ SlotIsRunning)
<1>1. Init => TypeOK /\ LockInv /\ SlotIsRunning
  BY InitTypeOK, InitLock, InitSlot
<1>2. TypeOK /\ LockInv /\ SlotIsRunning /\ [Next]_vars => (TypeOK /\ LockInv /\ SlotIsRunning)'
  BY NextTypeOK, LockNext, SlotNext
<1> QED
  BY <1>1, <1>2, PTL DEF Spec

(* clearTurnCancel, which compares nothing, only ever removes its own turn. *)
THEOREM SlotsAreRunning == Spec => []SlotIsRunning
BY SlotInvariant, PTL
------------------------------------------------------------------------------
LEMMA InitReaches == Init => StopReaches
BY DEF Init, StopReaches, Slotted

LEMMA ReachesNext ==
  TypeOK /\ LockInv /\ SlotIsRunning /\ StopReaches /\ [Next]_vars => StopReaches'
<1> SUFFICES ASSUME TypeOK, LockInv, SlotIsRunning, StopReaches, [Next]_vars
             PROVE  StopReaches'
  OBVIOUS
<1> USE SessType, ConstantsAssumption
    DEF TypeOK, StopReaches, Goto, Slotted
<1>1. ASSUME NEW t \in Turns, Acquire(t)
      PROVE  StopReaches'
  BY <1>1 DEF Acquire
<1>2. ASSUME NEW t \in Turns, SetTurnCancel(t)
      PROVE  StopReaches'
  BY <1>2 DEF SetTurnCancel, LockInv, Holding
<1>3. ASSUME NEW t \in Turns, Inside(t)
      PROVE  StopReaches'
  BY <1>3, InsideQuiet DEF OnlyMoves
<1>4. ASSUME NEW t \in Turns, ClearTurnCancel(t)
      PROVE  StopReaches'
  BY <1>4 DEF ClearTurnCancel, LockInv, Holding
<1>5. ASSUME NEW t \in Turns, Release(t)
      PROVE  StopReaches'
  BY <1>5 DEF Release
<1>6. ASSUME NEW t \in Turns, Send(t)
      PROVE  StopReaches'
  BY <1>6 DEF Send
<1>7. ASSUME NEW t \in Turns, Answer(t) \/ Hear(t) \/ CloseChannel(t)
      PROVE  StopReaches'
  BY <1>7 DEF Answer, AnswerOk, AnswerError, AnswerTimeout, Hear, CloseChannel
<1>8. ASSUME NEW x \in Stops, CallCancel(x)
      PROVE  StopReaches'
  BY <1>8 DEF CallCancel
<1>9. ASSUME NEW x \in Stops, NEW s \in Sessions, TakeCancel(x, s)
      PROVE  StopReaches'
  BY <1>9 DEF TakeCancel
<1>10. CASE Crash
  BY <1>10 DEF Crash
<1>11. CASE UNCHANGED vars
  BY <1>11 DEF vars
<1> QED
  BY <1>1, <1>2, <1>3, <1>4, <1>5, <1>6, <1>7, <1>8, <1>9, <1>10, <1>11 DEF Next, Run, Inside

(* A Stop at any moment of a turn finds it, found it, or is not needed.    *)
THEOREM StopsReach == Spec => []StopReaches
<1>1. Init => TypeOK /\ LockInv /\ SlotIsRunning /\ StopReaches
  BY InitTypeOK, InitLock, InitSlot, InitReaches
<1>2. TypeOK /\ LockInv /\ SlotIsRunning /\ StopReaches /\ [Next]_vars
        => (TypeOK /\ LockInv /\ SlotIsRunning /\ StopReaches)'
  BY NextTypeOK, LockNext, SlotNext, ReachesNext
<1> QED
  BY <1>1, <1>2, PTL DEF Spec

(* Both together: the slot has the running turn of its session and no      *)
(* other, and no running turn is out of Stop's reach.                      *)
THEOREM StopAlwaysFinds == Spec => []StopFinds
  BY SlotsAreRunning, StopsReach, PTL DEF StopFinds
------------------------------------------------------------------------------
(***************************************************************************)
(* Program counters only move forward.                                     *)
(***************************************************************************)
Heard == {"announced", "streaming", "ended", "leaving", "cleared"} \cup Over
Written == {"saved"} \cup Heard

Forward(u) ==
  /\ pc[u] \in Written => pc'[u] \in Written
  /\ pc[u] \in Heard => pc'[u] \in Heard
  /\ pc[u] \in Over => pc'[u] \in Over
  /\ pc[u] = "lost" => pc'[u] = "lost"

LEMMA MovesForward == TypeOK /\ [Next]_vars => \A u \in Turns : Forward(u)
<1> SUFFICES ASSUME TypeOK, [Next]_vars, NEW u \in Turns
             PROVE  Forward(u)
  OBVIOUS
<1> USE DEF Forward, Written, Heard, Over, Goto, TypeOK
<1>1. ASSUME NEW t \in Turns, Send(t) \/ Acquire(t) \/ SetTurnCancel(t) \/ SaveUser(t)
      PROVE  Forward(u)
  BY <1>1 DEF Send, Acquire, SetTurnCancel, SaveUser
<1>2. ASSUME NEW t \in Turns, Announce(t) \/ StartReply(t) \/ EndReply(t) \/ SaveReply(t)
      PROVE  Forward(u)
  BY <1>2 DEF Announce, StartReply, EndReply, SaveReply
<1>3. ASSUME NEW t \in Turns, ClearTurnCancel(t) \/ Release(t)
      PROVE  Forward(u)
  BY <1>3 DEF ClearTurnCancel, Release
<1>4. ASSUME NEW t \in Turns, Answer(t) \/ Hear(t) \/ CloseChannel(t)
      PROVE  Forward(u)
  BY <1>4 DEF Answer, AnswerOk, AnswerError, AnswerTimeout, Hear, CloseChannel
<1>5. ASSUME NEW x \in Stops, CallCancel(x) \/ \E s \in Sessions : TakeCancel(x, s)
      PROVE  Forward(u)
  BY <1>5 DEF CallCancel, TakeCancel
<1>6. CASE Crash
  BY <1>6 DEF Crash
<1>7. CASE UNCHANGED vars
  BY <1>7 DEF vars
<1> QED
  BY <1>1, <1>2, <1>3, <1>4, <1>5, <1>6, <1>7 DEF Next, Run
------------------------------------------------------------------------------
(***************************************************************************)
(* A refused turn is on its way out, and stays refused.                    *)
(***************************************************************************)
RefusedLeaves == \A t \in Turns : Refused(t) => pc[t] \in {"leaving", "cleared"} \cup Over

LEMMA RefusedNext ==
  TypeOK /\ RefusedLeaves /\ [Next]_vars
    => RefusedLeaves' /\ \A t \in Turns : Refused(t) => Refused(t)'
<1> SUFFICES ASSUME TypeOK, RefusedLeaves, [Next]_vars, NEW t \in Turns
             PROVE  /\ Refused(t) => Refused(t)'
                    /\ Refused(t)' => pc'[t] \in {"leaving", "cleared"} \cup Over
  BY DEF RefusedLeaves, Refused, Over
<1> USE DEF RefusedLeaves, Refused, Over, Goto, TypeOK
<1>1. ASSUME NEW u \in Turns, Send(u) \/ Acquire(u) \/ SetTurnCancel(u) \/ SaveUser(u)
      PROVE  /\ Refused(t) => Refused(t)'
             /\ Refused(t)' => pc'[t] \in {"leaving", "cleared"} \cup Over
  BY <1>1 DEF Send, Acquire, SetTurnCancel, SaveUser, turnVars
<1>2. ASSUME NEW u \in Turns, Announce(u) \/ EndReply(u) \/ SaveReply(u)
      PROVE  /\ Refused(t) => Refused(t)'
             /\ Refused(t)' => pc'[t] \in {"leaving", "cleared"} \cup Over
  BY <1>2 DEF Announce, EndReply, SaveReply, turnVars
<1>3. ASSUME NEW u \in Turns, StartReply(u)
      PROVE  /\ Refused(t) => Refused(t)'
             /\ Refused(t)' => pc'[t] \in {"leaving", "cleared"} \cup Over
  BY <1>3 DEF StartReply
<1>4. ASSUME NEW u \in Turns, ClearTurnCancel(u) \/ Release(u)
      PROVE  /\ Refused(t) => Refused(t)'
             /\ Refused(t)' => pc'[t] \in {"leaving", "cleared"} \cup Over
  BY <1>4 DEF ClearTurnCancel, Release, turnVars
<1>5. ASSUME NEW u \in Turns, Answer(u) \/ Hear(u) \/ CloseChannel(u)
      PROVE  /\ Refused(t) => Refused(t)'
             /\ Refused(t)' => pc'[t] \in {"leaving", "cleared"} \cup Over
  BY <1>5 DEF Answer, AnswerOk, AnswerError, AnswerTimeout, Hear, CloseChannel
<1>6. ASSUME NEW x \in Stops, CallCancel(x) \/ \E s \in Sessions : TakeCancel(x, s)
      PROVE  /\ Refused(t) => Refused(t)'
             /\ Refused(t)' => pc'[t] \in {"leaving", "cleared"} \cup Over
  BY <1>6 DEF CallCancel, TakeCancel, turnVars
<1>7. CASE Crash
  BY <1>7 DEF Crash
<1>8. CASE UNCHANGED vars
  BY <1>8 DEF vars, turnVars
<1> QED
  BY <1>1, <1>2, <1>3, <1>4, <1>5, <1>6, <1>7, <1>8 DEF Next, Run

LEMMA InitRefused == Init => RefusedLeaves
BY DEF Init, RefusedLeaves, Refused
------------------------------------------------------------------------------
(***************************************************************************)
(* What a step does to the transcript: a message of the turn that saves is *)
(* appended, or nothing.                                                   *)
(***************************************************************************)
LEMMA TranscriptSteps ==
  ASSUME TypeOK, [Next]_vars
  PROVE  \/ UNCHANGED transcript
         \/ \E t \in Turns : SaveUser(t) /\ AppendMessage(t, User(t)) /\ pc'[t] = "saved"
         \/ \E t \in Turns : SaveReply(t) /\ AppendMessage(t, Assistant(t, final[t] = "cancelled"))
<1>1. ASSUME NEW t \in Turns, SaveUser(t), ~ UNCHANGED transcript
      PROVE  AppendMessage(t, User(t)) /\ pc'[t] = "saved"
  BY <1>1 DEF SaveUser, Goto, TypeOK
<1>2. ASSUME NEW t \in Turns, SaveReply(t), ~ UNCHANGED transcript
      PROVE  AppendMessage(t, Assistant(t, final[t] = "cancelled"))
  BY <1>2 DEF SaveReply
<1>3. ASSUME NEW t \in Turns, Run(t), ~ SaveUser(t), ~ SaveReply(t)
      PROVE  UNCHANGED transcript
  BY <1>3 DEF Run, Acquire, SetTurnCancel, Announce, StartReply, EndReply, ClearTurnCancel, Release
<1>4. ASSUME NEW t \in Turns, Send(t) \/ Answer(t) \/ Hear(t) \/ CloseChannel(t)
      PROVE  UNCHANGED transcript
  BY <1>4 DEF Send, Answer, AnswerOk, AnswerError, AnswerTimeout, Hear, CloseChannel
<1>5. ASSUME NEW x \in Stops, CallCancel(x) \/ \E s \in Sessions : TakeCancel(x, s)
      PROVE  UNCHANGED transcript
  BY <1>5 DEF CallCancel, TakeCancel
<1>6. CASE Crash
  BY <1>6 DEF Crash
<1>7. CASE UNCHANGED vars
  BY <1>7 DEF vars
<1> QED
  BY <1>1, <1>2, <1>3, <1>4, <1>5, <1>6, <1>7 DEF Next

(* Appending leaves the old messages where they were. *)
LEMMA Appended ==
  ASSUME TypeOK, NEW t \in Turns, NEW m \in Message, AppendMessage(t, m)
  PROVE  LET s == Sess(t) IN
         /\ Len(transcript'[s]) = Len(transcript[s]) + 1
         /\ transcript'[s][Len(transcript[s]) + 1] = m
         /\ \A i \in 1..Len(transcript[s]) : transcript'[s][i] = transcript[s][i]
         /\ \A r \in Sessions \ {s} : transcript'[r] = transcript[r]
BY SessType DEF TypeOK, AppendMessage

LEMMA TranscriptGrows ==
  ASSUME TypeOK, [Next]_vars, NEW s \in Sessions, NEW i \in DOMAIN transcript[s]
  PROVE  i \in DOMAIN transcript'[s] /\ transcript'[s][i] = transcript[s][i]
<1>1. ASSUME NEW t \in Turns, NEW m \in Message, AppendMessage(t, m)
      PROVE  i \in DOMAIN transcript'[s] /\ transcript'[s][i] = transcript[s][i]
  BY <1>1, SessType DEF TypeOK, AppendMessage
<1>2. \A t \in Turns : User(t) \in Message /\ Assistant(t, final[t] = "cancelled") \in Message
  BY MessageTypes
<1> QED
  BY <1>1, <1>2, TranscriptSteps
------------------------------------------------------------------------------
(***************************************************************************)
(* An id is reported only for a message on disk, and messages stay there.  *)
(***************************************************************************)
Saved(t) == \E i \in DOMAIN transcript[Sess(t)] : transcript[Sess(t)][i] = User(t)

Reported(t) == note[t] \in {"id", "refused", "both"} \/ answer[t] = "ok"

NotedSaved == \A t \in Turns : Reported(t) => Saved(t)

LEMMA SavedStays ==
  ASSUME TypeOK, [Next]_vars, NEW t \in Turns, Saved(t)
  PROVE  Saved(t)'
BY TranscriptGrows, SessType DEF Saved, Sess, User

(* A turn that has announced its message has reported its id. *)
AnnouncedReported == \A t \in Turns : pc[t] \in {"saved", "announced"} => note[t] = "id"

LEMMA AnnouncedNext == TypeOK /\ AnnouncedReported /\ [Next]_vars => AnnouncedReported'
<1> SUFFICES ASSUME TypeOK, AnnouncedReported, [Next]_vars
             PROVE  AnnouncedReported'
  OBVIOUS
<1> USE DEF AnnouncedReported, Goto, TypeOK
<1>1. ASSUME NEW t \in Turns, Send(t) \/ Acquire(t) \/ SetTurnCancel(t) \/ SaveUser(t)
      PROVE  AnnouncedReported'
  BY <1>1 DEF Send, Acquire, SetTurnCancel, SaveUser, turnVars
<1>2. ASSUME NEW t \in Turns, Announce(t) \/ StartReply(t) \/ EndReply(t) \/ SaveReply(t)
      PROVE  AnnouncedReported'
  BY <1>2 DEF Announce, StartReply, EndReply, SaveReply, turnVars
<1>3. ASSUME NEW t \in Turns, ClearTurnCancel(t) \/ Release(t)
      PROVE  AnnouncedReported'
  BY <1>3 DEF ClearTurnCancel, Release, turnVars
<1>4. ASSUME NEW t \in Turns, Answer(t) \/ Hear(t) \/ CloseChannel(t)
      PROVE  AnnouncedReported'
  BY <1>4 DEF Answer, AnswerOk, AnswerError, AnswerTimeout, Hear, CloseChannel
<1>5. ASSUME NEW x \in Stops, CallCancel(x) \/ \E s \in Sessions : TakeCancel(x, s)
      PROVE  AnnouncedReported'
  BY <1>5 DEF CallCancel, TakeCancel, turnVars
<1>6. CASE Crash
  BY <1>6 DEF Crash
<1>7. CASE UNCHANGED vars
  BY <1>7 DEF vars, turnVars
<1> QED
  BY <1>1, <1>2, <1>3, <1>4, <1>5, <1>6, <1>7 DEF Next, Run

LEMMA NotedNext == TypeOK /\ NotedSaved /\ AnnouncedReported /\ [Next]_vars => NotedSaved'
<1> SUFFICES ASSUME TypeOK, NotedSaved, AnnouncedReported, [Next]_vars, NEW u \in Turns,
                    Reported(u)'
             PROVE  Saved(u)'
  BY DEF NotedSaved
<1>0. ASSUME Reported(u)
      PROVE  Saved(u)'
  BY <1>0, SavedStays DEF NotedSaved
<1>1. ASSUME NEW t \in Turns, SaveUser(t), ~ Reported(u)
      PROVE  Saved(u)'
  <2>1. u = t /\ AppendMessage(t, User(t))
    BY <1>1 DEF SaveUser, TypeOK, Reported
  <2>2. User(t) \in Message
    BY MessageTypes
  <2>3. transcript' \in [Sessions -> Seq(Message)] /\ transcript \in [Sessions -> Seq(Message)]
    BY <2>1, <2>2, AppendMessageType DEF TypeOK
  <2>4. LET n == Len(transcript[Sess(t)]) + 1
        IN  n \in DOMAIN transcript'[Sess(t)] /\ transcript'[Sess(t)][n] = User(t)
    BY <2>1, <2>2, <2>3, Appended, SessType
  <2> QED
    BY <2>1, <2>4 DEF Saved, Sess, User
<1>2. ASSUME NEW t \in Turns, Run(t), ~ SaveUser(t)
      PROVE  Reported(u)
  BY <1>2 DEF Run, Acquire, SetTurnCancel, Announce, StartReply, EndReply, SaveReply,
              ClearTurnCancel, Release, TypeOK, turnVars, Reported, AnnouncedReported
<1>3. ASSUME NEW t \in Turns, Send(t) \/ Answer(t)
      PROVE  Reported(u)
  BY <1>3 DEF Send, Answer, AnswerOk, AnswerError, AnswerTimeout, TypeOK, Reported
<1>4. ASSUME NEW t \in Turns, Hear(t) \/ CloseChannel(t)
      PROVE  Reported(u)
  BY <1>4 DEF Hear, CloseChannel, Reported
<1>5. ASSUME NEW x \in Stops, CallCancel(x) \/ \E s \in Sessions : TakeCancel(x, s)
      PROVE  Reported(u)
  BY <1>5 DEF CallCancel, TakeCancel, turnVars, Reported
<1>6. CASE Crash
  BY <1>0, <1>6 DEF Crash, TypeOK, Reported
<1>7. CASE UNCHANGED vars
  BY <1>0, <1>7 DEF vars, turnVars, Reported
<1> QED
  BY <1>0, <1>1, <1>2, <1>3, <1>4, <1>5, <1>6, <1>7 DEF Next

(* A message answered with an id is on disk, also after any crash.         *)
THEOREM OkIsSaved == Spec => []OkMeansSaved
<1>1. Init => TypeOK /\ NotedSaved /\ AnnouncedReported
  BY InitTypeOK DEF Init, NotedSaved, Reported, AnnouncedReported
<1>2. TypeOK /\ NotedSaved /\ AnnouncedReported /\ [Next]_vars
        => (TypeOK /\ NotedSaved /\ AnnouncedReported)'
  BY NextTypeOK, NotedNext, AnnouncedNext
<1>3. NotedSaved => OkMeansSaved
  BY DEF NotedSaved, Saved, Reported, OkMeansSaved
<1> QED
  BY <1>1, <1>2, <1>3, PTL DEF Spec
------------------------------------------------------------------------------
(***************************************************************************)
(* What is on disk.  Messages are of their session's turns that are past   *)
(* SaveUser; while a turn runs, its message is the last one and the only   *)
(* one of its own.                                                         *)
(***************************************************************************)
LastIs(q, t) == q # <<>> /\ q[Len(q)] = User(t) /\ \A i \in 1..Len(q)-1 : q[i].turn # t

DiskInv ==
  /\ \A s \in Sessions : \A i \in DOMAIN transcript[s] :
       Sess(transcript[s][i].turn) = s /\ pc[transcript[s][i].turn] \in Written
  /\ \A t \in Turns :
       pc[t] \in {"saved", "announced", "streaming", "ended"} => LastIs(transcript[Sess(t)], t)

LEMMA InitDisk == Init => DiskInv
BY SessType DEF Init, DiskInv

(* The holder of the mutex is alone: the other turns that left something   *)
(* in its session are over.                                                *)
LEMMA Alone ==
  ASSUME LockInv, NEW t \in Turns, pc[t] \in Holding,
         NEW u \in Turns, u # t, Sess(u) = Sess(t), pc[u] \in Written
  PROVE  pc[u] \in Over
BY DEF LockInv, Written, Heard, Over, Holding, Slotted

LEMMA MessageTurns ==
  ASSUME TypeOK
  PROVE  /\ transcript \in [Sessions -> Seq(Message)]
         /\ \A s \in Sessions : \A i \in DOMAIN transcript[s] : transcript[s][i].turn \in Turns
<1>1. transcript \in [Sessions -> Seq(Message)]
  BY DEF TypeOK
<1>2. \A s \in Sessions : \A i \in DOMAIN transcript[s] : transcript[s][i] \in Message
  BY <1>1
<1> QED
  BY <1>1, <1>2 DEF Message

LEMMA DiskNext == TypeOK /\ LockInv /\ DiskInv /\ [Next]_vars => DiskInv'
<1> SUFFICES ASSUME TypeOK, LockInv, DiskInv, [Next]_vars
             PROVE  DiskInv'
  OBVIOUS
<1>0. /\ transcript \in [Sessions -> Seq(Message)]
      /\ \A s \in Sessions : \A i \in DOMAIN transcript[s] : transcript[s][i].turn \in Turns
  BY MessageTurns
<1>1. ASSUME UNCHANGED transcript,
             \A t \in Turns : pc'[t] \in {"saved", "announced", "streaming", "ended"}
                                => pc[t] \in {"saved", "announced", "streaming", "ended"}
      PROVE  DiskInv'
  <2>1. \A s \in Sessions : \A i \in DOMAIN transcript[s] :
          pc'[transcript[s][i].turn] \in Written
    BY <1>0, MovesForward DEF DiskInv, Forward
  <2> QED
    BY <1>1, <2>1 DEF DiskInv, Sess, LastIs, User
<1>2. ASSUME NEW t \in Turns, SaveUser(t), AppendMessage(t, User(t)), pc'[t] = "saved"
      PROVE  DiskInv'
  <2> DEFINE s == Sess(t)
             n == Len(transcript[s])
  <2>1. User(t) \in Message /\ User(t).turn = t /\ s \in Sessions
    BY MessageTypes, SessType DEF User
  <2>2. /\ Len(transcript'[s]) = n + 1
        /\ transcript'[s][n + 1] = User(t)
        /\ \A i \in 1..n : transcript'[s][i] = transcript[s][i]
        /\ \A r \in Sessions \ {s} : transcript'[r] = transcript[r]
        /\ transcript' \in [Sessions -> Seq(Message)]
    BY <1>2, <2>1, Appended, AppendMessageType
  <2>3. pc[t] = "slotted" /\ OnlyMoves(t)
    BY <1>2, InsideQuiet DEF SaveUser, Inside
  <2>4. \A r \in Sessions : \A i \in DOMAIN transcript'[r] :
          Sess(transcript'[r][i].turn) = r /\ pc'[transcript'[r][i].turn] \in Written
    <3> SUFFICES ASSUME NEW r \in Sessions, NEW i \in DOMAIN transcript'[r]
                 PROVE  Sess(transcript'[r][i].turn) = r /\ pc'[transcript'[r][i].turn] \in Written
      OBVIOUS
    <3>1. CASE r = s /\ i = n + 1
      BY <1>2, <2>1, <2>2, <3>1 DEF Written
    <3>2. CASE ~ (r = s /\ i = n + 1)
      <4>1. i \in DOMAIN transcript[r] /\ transcript'[r][i] = transcript[r][i]
        BY <1>0, <2>1, <2>2, <3>2
      <4> QED
        BY <1>0, <4>1, MovesForward DEF DiskInv, Forward
    <3> QED
      BY <3>1, <3>2
  <2>5. \A i \in 1..n : transcript[s][i].turn # t
    BY <1>0, <2>1, <2>3 DEF DiskInv, Written, Heard, Over
  <2>6. LastIs(transcript'[s], t)
    BY <2>1, <2>2, <2>5 DEF LastIs
  <2>7. ASSUME NEW u \in Turns, u # t,
               pc'[u] \in {"saved", "announced", "streaming", "ended"}
        PROVE  LastIs(transcript'[Sess(u)], u)
    <3>1. pc[u] \in Holding /\ pc[t] \in Holding
      BY <2>3, <2>7 DEF OnlyMoves, Holding, Slotted
    <3>2. Sess(u) # s
      BY <3>1, <2>7 DEF LockInv
    <3> QED
      BY <2>2, <2>3, <2>7, <3>2, SessType DEF DiskInv, OnlyMoves
  <2> QED
    BY <2>4, <2>6, <2>7 DEF DiskInv, Sess, LastIs, User
<1>3. ASSUME NEW t \in Turns, SaveReply(t), AppendMessage(t, Assistant(t, final[t] = "cancelled"))
      PROVE  DiskInv'
  <2> DEFINE s == Sess(t)
             n == Len(transcript[s])
             m == Assistant(t, final[t] = "cancelled")
  <2>1. m \in Message /\ m.turn = t /\ s \in Sessions
    BY MessageTypes, SessType DEF Assistant
  <2>2. /\ Len(transcript'[s]) = n + 1
        /\ transcript'[s][n + 1] = m
        /\ \A i \in 1..n : transcript'[s][i] = transcript[s][i]
        /\ \A r \in Sessions \ {s} : transcript'[r] = transcript[r]
        /\ transcript' \in [Sessions -> Seq(Message)]
    BY <1>3, <2>1, Appended, AppendMessageType
  <2>3. pc[t] = "ended" /\ pc'[t] = "leaving" /\ OnlyMoves(t)
    BY <1>3, InsideQuiet DEF SaveReply, Inside, Goto, TypeOK
  <2>4. \A r \in Sessions : \A i \in DOMAIN transcript'[r] :
          Sess(transcript'[r][i].turn) = r /\ pc'[transcript'[r][i].turn] \in Written
    <3> SUFFICES ASSUME NEW r \in Sessions, NEW i \in DOMAIN transcript'[r]
                 PROVE  Sess(transcript'[r][i].turn) = r /\ pc'[transcript'[r][i].turn] \in Written
      OBVIOUS
    <3>1. CASE r = s /\ i = n + 1
      BY <2>1, <2>2, <2>3, <3>1 DEF Written, Heard
    <3>2. CASE ~ (r = s /\ i = n + 1)
      <4>1. i \in DOMAIN transcript[r] /\ transcript'[r][i] = transcript[r][i]
        BY <1>0, <2>1, <2>2, <3>2
      <4> QED
        BY <1>0, <4>1, MovesForward DEF DiskInv, Forward
    <3> QED
      BY <3>1, <3>2
  <2>5. ASSUME NEW u \in Turns,
               pc'[u] \in {"saved", "announced", "streaming", "ended"}
        PROVE  LastIs(transcript'[Sess(u)], u)
    <3>0. u # t /\ pc'[u] = pc[u]
      BY <2>3, <2>5 DEF OnlyMoves
    <3>1. pc[u] \in Holding /\ pc[t] \in Holding
      BY <2>3, <2>5, <3>0 DEF Holding, Slotted
    <3>2. Sess(u) # s
      BY <3>0, <3>1 DEF LockInv
    <3> QED
      BY <2>2, <2>5, <3>0, <3>2, SessType DEF DiskInv
  <2> QED
    BY <2>4, <2>5 DEF DiskInv, Sess, LastIs, User
<1>4. ASSUME UNCHANGED transcript, NEW t \in Turns,
             pc'[t] \in {"saved", "announced", "streaming", "ended"}
      PROVE  pc[t] \in {"saved", "announced", "streaming", "ended"}
  <2>1. CASE \E u \in Turns : SaveUser(u)
    BY <1>0, <1>4, <2>1, SessType DEF SaveUser, AppendMessage, Goto, TypeOK
  <2>2. CASE \E u \in Turns : Run(u) /\ ~ SaveUser(u)
    BY <1>4, <2>2 DEF Run, Acquire, SetTurnCancel, Announce, StartReply, EndReply, SaveReply,
                      ClearTurnCancel, Release, Goto, TypeOK
  <2>3. CASE \E u \in Turns : Send(u) \/ Answer(u) \/ Hear(u) \/ CloseChannel(u)
    BY <1>4, <2>3 DEF Send, Answer, AnswerOk, AnswerError, AnswerTimeout, Hear, CloseChannel,
                      Goto, TypeOK
  <2>4. CASE \E x \in Stops : CallCancel(x) \/ \E s \in Sessions : TakeCancel(x, s)
    BY <1>4, <2>4 DEF CallCancel, TakeCancel
  <2>5. CASE Crash
    BY <1>4, <2>5 DEF Crash, TypeOK
  <2>6. CASE UNCHANGED vars
    BY <1>4, <2>6 DEF vars
  <2> QED
    BY <2>1, <2>2, <2>3, <2>4, <2>5, <2>6 DEF Next
<1> QED
  BY <1>1, <1>2, <1>3, <1>4, TranscriptSteps
------------------------------------------------------------------------------
LEMMA HistoryNext ==
  TypeOK /\ LockInv /\ DiskInv /\ HistoryComplete /\ [Next]_vars => HistoryComplete'
<1> SUFFICES ASSUME TypeOK, LockInv, DiskInv, HistoryComplete, [Next]_vars
             PROVE  HistoryComplete'
  OBVIOUS
<1> DEFINE Good(h, t) ==
      h # <<>> => /\ h[Len(h)] = User(t)
                  /\ \A i \in 1..Len(h)-1 : h[i].turn # t /\ pc'[h[i].turn] \in Over
<1>1. SUFFICES ASSUME NEW t \in Turns
               PROVE  Good(history'[t], t)
  BY <1>1 DEF HistoryComplete, User
<1>2. history \in [Turns -> Seq(Message)]
  BY DEF TypeOK
<1>3. Good(history[t], t)
  <2>0. \A i \in 1..Len(history[t]) : history[t][i] \in Message
    BY <1>2
  <2>1. \A i \in 1..Len(history[t]) : history[t][i].turn \in Turns
    BY <2>0 DEF Message
  <2>2. Len(history[t]) \in Nat
    BY <1>2
  <2> QED
    BY <2>1, <2>2, MovesForward DEF HistoryComplete, Forward
<1>4. CASE StartReply(t)
  <2> DEFINE q == transcript[Sess(t)]
  <2>1. history'[t] \in {q, <<>>}
    BY <1>2, <1>4 DEF StartReply
  <2>2. LastIs(q, t) /\ pc[t] \in Holding /\ OnlyMoves(t)
    BY <1>4, InsideQuiet DEF StartReply, Inside, DiskInv, Holding, Slotted
  <2>3. Len(q) \in Nat /\ DOMAIN q = 1..Len(q)
    BY SessType, MessageTurns
  <2>4. ASSUME NEW i \in 1..Len(q)-1
        PROVE  q[i].turn # t /\ pc'[q[i].turn] \in Over
    <3>1. q[i].turn # t
      BY <2>2, <2>4 DEF LastIs
    <3>2. q[i].turn \in Turns /\ Sess(q[i].turn) = Sess(t) /\ pc[q[i].turn] \in Written
      BY <2>3, <2>4, SessType, MessageTurns DEF DiskInv
    <3>3. pc[q[i].turn] \in Over
      BY <2>2, <3>1, <3>2, Alone
    <3> QED
      BY <2>2, <3>1, <3>2, <3>3 DEF OnlyMoves
  <2> QED
    BY <2>1, <2>2, <2>4 DEF LastIs
<1>5. ASSUME \A u \in Turns : StartReply(u) => u # t
      PROVE  history'[t] = history[t]
  <2>1. ASSUME NEW u \in Turns, StartReply(u)
        PROVE  history'[t] = history[t]
    BY <1>2, <1>5, <2>1 DEF StartReply
  <2>2. ASSUME NEW u \in Turns, Run(u), ~ StartReply(u)
        PROVE  history'[t] = history[t]
    BY <2>2 DEF Run, Acquire, SetTurnCancel, SaveUser, Announce, EndReply, SaveReply,
                ClearTurnCancel, Release, turnVars
  <2>3. ASSUME NEW u \in Turns, Send(u) \/ Answer(u) \/ Hear(u) \/ CloseChannel(u)
        PROVE  history'[t] = history[t]
    BY <2>3 DEF Send, Answer, AnswerOk, AnswerError, AnswerTimeout, Hear, CloseChannel
  <2>4. ASSUME NEW x \in Stops, CallCancel(x) \/ \E s \in Sessions : TakeCancel(x, s)
        PROVE  history'[t] = history[t]
    BY <2>4 DEF CallCancel, TakeCancel, turnVars
  <2>5. CASE Crash
    BY <2>5 DEF Crash
  <2>6. CASE UNCHANGED vars
    BY <2>6 DEF vars, turnVars
  <2> QED
    BY <2>1, <2>2, <2>3, <2>4, <2>5, <2>6 DEF Next
<1> QED
  BY <1>3, <1>4, <1>5

LEMMA DiskInvariant == Spec => [](TypeOK /\ LockInv /\ DiskInv)
<1>1. Init => TypeOK /\ LockInv /\ DiskInv
  BY InitTypeOK, InitLock, InitDisk
<1>2. TypeOK /\ LockInv /\ DiskInv /\ [Next]_vars => (TypeOK /\ LockInv /\ DiskInv)'
  BY NextTypeOK, LockNext, DiskNext
<1> QED
  BY <1>1, <1>2, PTL DEF Spec

(* The adapter is given the turn's own message last, and before it only    *)
(* messages of turns that are over, whatever crashed or failed to be saved. *)
THEOREM HistoriesComplete == Spec => []HistoryComplete
<1>1. Init => HistoryComplete
  BY DEF Init, HistoryComplete
<1>2. TypeOK /\ LockInv /\ DiskInv /\ HistoryComplete /\ [Next]_vars => HistoryComplete'
  BY HistoryNext
<1> QED
  BY <1>1, <1>2, DiskInvariant, PTL DEF Spec
------------------------------------------------------------------------------
(***************************************************************************)
(* What the clients see.  The latest event of a session is of the turn     *)
(* that is announced or streaming, or else it ended its turn, or its turn  *)
(* was refused.                                                            *)
(***************************************************************************)
Running == {"announced", "streaming"}
Replied == Heard \ {"announced"}
Latest(w) == w[Len(w)]

WireOf == \A s \in Sessions : \A i \in DOMAIN wire[s] :
            Sess(wire[s][i].turn) = s /\ pc[wire[s][i].turn] \in Heard

LatestIsRunning == \A t \in Turns :
  pc[t] \in Running => wire[Sess(t)] # <<>> /\ Latest(wire[Sess(t)]).turn = t

LatestEnds == \A s \in Sessions :
  wire[s] # <<>> => LET a == Latest(wire[s]) IN
                    \/ a.type \in Finals
                    \/ pc[a.turn] \in Running \cup {"lost"}
                    \/ Refused(a.turn)

FinalIsLatest == \A t \in Turns :
  final[t] # "none" => /\ pc[t] \in Replied
                       /\ pc[t] = "streaming" => Latest(wire[Sess(t)]).type \in Finals

WireInv == WireOf /\ LatestIsRunning /\ LatestEnds /\ FinalIsLatest /\ RefusedLeaves

RefusedStays == \A u \in Turns : Refused(u) => Refused(u)'

LEMMA InitWire == Init => WireInv
BY SessType, InitRefused
   DEF Init, WireInv, WireOf, LatestIsRunning, LatestEnds, FinalIsLatest, Running

LEMMA WireTurns ==
  ASSUME TypeOK
  PROVE  /\ wire \in [Sessions -> Seq(WireEvent)]
         /\ \A s \in Sessions : \A i \in DOMAIN wire[s] : wire[s][i].turn \in Turns
         /\ \A s \in Sessions : /\ Len(wire[s]) \in Nat /\ DOMAIN wire[s] = 1..Len(wire[s])
                                /\ wire[s] # <<>> => Len(wire[s]) \in DOMAIN wire[s]
<1>1. wire \in [Sessions -> Seq(WireEvent)]
  BY DEF TypeOK
<1>2. ASSUME NEW s \in Sessions
      PROVE  /\ Len(wire[s]) \in Nat /\ DOMAIN wire[s] = 1..Len(wire[s])
             /\ wire[s] # <<>> => Len(wire[s]) \in DOMAIN wire[s]
             /\ \A i \in DOMAIN wire[s] : wire[s][i] \in WireEvent
  <2>1. wire[s] \in Seq(WireEvent)
    BY <1>1
  <2> QED
    BY <2>1
<1>3. \A e \in WireEvent : e.turn \in Turns
  BY DEF WireEvent
<1> QED
  BY <1>1, <1>2, <1>3

(* What Broadcast appends. *)
LEMMA Broadcasted ==
  ASSUME TypeOK, NEW t \in Turns, NEW e \in {"user_message", "delta"} \cup Finals, Broadcast(t, e)
  PROVE  LET s == Sess(t) IN
         /\ s \in Sessions
         /\ wire' \in [Sessions -> Seq(WireEvent)]
         /\ Len(wire'[s]) = Len(wire[s]) + 1
         /\ DOMAIN wire'[s] = 1..Len(wire[s]) + 1
         /\ wire'[s][Len(wire[s]) + 1] = [turn |-> t, type |-> e]
         /\ Latest(wire'[s]) = [turn |-> t, type |-> e]
         /\ wire'[s] # <<>>
         /\ \A i \in 1..Len(wire[s]) : wire'[s][i] = wire[s][i]
         /\ \A r \in Sessions \ {s} : wire'[r] = wire[r]
<1>1. Sess(t) \in Sessions /\ wire \in [Sessions -> Seq(WireEvent)]
  BY SessType DEF TypeOK
<1>2. wire'[Sess(t)] = Append(wire[Sess(t)], [turn |-> t, type |-> e])
  BY <1>1 DEF Broadcast
<1>3. \A r \in Sessions \ {Sess(t)} : wire'[r] = wire[r]
  BY <1>1 DEF Broadcast
<1>4. wire' \in [Sessions -> Seq(WireEvent)]
  BY BroadcastType
<1> QED
  BY <1>1, <1>2, <1>3, <1>4 DEF Latest

(* Steps that broadcast nothing and end no reply; a crash is one of them.  *)
Silent ==
  /\ UNCHANGED <<wire, final>>
  /\ \A u \in Turns : /\ pc'[u] \in Running => pc'[u] = pc[u]
                      /\ pc[u] \in Running => pc'[u] \in {pc[u], "lost"}

LEMMA SilentSteps ==
  ASSUME TypeOK, [Next]_vars,
         \A t \in Turns : ~ Announce(t) /\ ~ Hear(t) /\ ~ StartReply(t) /\ ~ EndReply(t)
  PROVE  Silent
<1> USE DEF Silent, Running, Goto, TypeOK
<1>1. ASSUME NEW t \in Turns, Send(t) \/ Acquire(t) \/ SetTurnCancel(t) \/ SaveUser(t)
      PROVE  Silent
  BY <1>1 DEF Send, Acquire, SetTurnCancel, SaveUser, turnVars
<1>2. ASSUME NEW t \in Turns, SaveReply(t) \/ ClearTurnCancel(t) \/ Release(t)
      PROVE  Silent
  BY <1>2 DEF SaveReply, ClearTurnCancel, Release, turnVars
<1>3. ASSUME NEW t \in Turns, Answer(t) \/ CloseChannel(t)
      PROVE  Silent
  BY <1>3 DEF Answer, AnswerOk, AnswerError, AnswerTimeout, CloseChannel
<1>4. ASSUME NEW x \in Stops, CallCancel(x) \/ \E s \in Sessions : TakeCancel(x, s)
      PROVE  Silent
  BY <1>4 DEF CallCancel, TakeCancel, turnVars
<1>5. CASE Crash
  BY <1>5 DEF Crash
<1>6. CASE UNCHANGED vars
  BY <1>6 DEF vars, turnVars
<1> QED
  BY <1>1, <1>2, <1>3, <1>4, <1>5, <1>6 DEF Next, Run

(* An event of turn t reaches the clients; a final one only once.          *)
EventTypes == {"user_message", "delta"} \cup Finals

Speaks(t, e) ==
  /\ Broadcast(t, e) /\ OnlyMoves(t)
  /\ final[t] = "none"
  /\ \A u \in Turns \ {t} : final'[u] = final[u]
  /\ final'[t] = IF e \in Finals THEN e ELSE "none"
  /\ pc[t] \in {"saved", "streaming"}
  /\ pc[t] = "saved" => e = "user_message"
  /\ pc'[t] \in IF e \in Finals THEN Replied ELSE Running

LEMMA WireSteps ==
  ASSUME TypeOK, FinalIsLatest, [Next]_vars
  PROVE  \/ Silent
         \/ \E t \in Turns : StartReply(t)
         \/ \E t \in Turns : EndReply(t) /\ UNCHANGED <<wire, final>> /\ final[t] # "none"
         \/ \E t \in Turns : \E e \in EventTypes : Speaks(t, e)
<1> USE DEF Goto, TypeOK, Speaks, EventTypes, Finals, Running, Replied, Heard, OnlyMoves
<1>1. ASSUME NEW t \in Turns, Announce(t)
      PROVE  Speaks(t, "user_message")
  BY <1>1 DEF Announce, turnVars, FinalIsLatest, Over
<1>2. ASSUME NEW t \in Turns, Hear(t)
      PROVE  \E e \in EventTypes : Speaks(t, e)
  <2>1. CASE Broadcast(t, "delta") /\ UNCHANGED final
    <3>1. Speaks(t, "delta")
      BY <1>2, <2>1 DEF Hear
    <3> QED
      BY <3>1
  <2>2. ASSUME NEW e \in Finals, final' = [final EXCEPT ![t] = e], Broadcast(t, e)
        PROVE  Speaks(t, e)
    BY <1>2, <2>2 DEF Hear
  <2> QED
    BY <1>2, <2>1, <2>2 DEF Hear
<1>3. ASSUME NEW t \in Turns, EndReply(t), final[t] = "none"
      PROVE  Speaks(t, "cancelled")
  BY <1>3 DEF EndReply
<1>4. ASSUME NEW t \in Turns, EndReply(t), final[t] # "none"
      PROVE  UNCHANGED <<wire, final>>
  BY <1>4 DEF EndReply
<1>5. "user_message" \in EventTypes /\ "cancelled" \in EventTypes
  OBVIOUS
<1> QED
  BY <1>1, <1>2, <1>3, <1>4, <1>5, SilentSteps

(* The turn that speaks holds the mutex: no other of its session is running. *)
LEMMA SpeaksAlone ==
  ASSUME LockInv, NEW t \in Turns, NEW e, Speaks(t, e),
         NEW u \in Turns, Sess(u) = Sess(t), pc[u] \in Running
  PROVE  u = t
BY DEF LockInv, Speaks, Running, Holding, Slotted

LEMMA SpeaksWire ==
  ASSUME TypeOK, LockInv, WireInv, \A u \in Turns : Forward(u), RefusedStays, RefusedLeaves',
         NEW t \in Turns, NEW e \in EventTypes, Speaks(t, e)
  PROVE  WireInv'
<1> DEFINE s == Sess(t)
           n == Len(wire[s])
<1>0. /\ s \in Sessions
      /\ wire' \in [Sessions -> Seq(WireEvent)]
      /\ DOMAIN wire'[s] = 1..n + 1
      /\ wire'[s][n + 1] = [turn |-> t, type |-> e]
      /\ Latest(wire'[s]) = [turn |-> t, type |-> e]
      /\ wire'[s] # <<>>
      /\ \A i \in 1..n : wire'[s][i] = wire[s][i]
      /\ \A r \in Sessions \ {s} : wire'[r] = wire[r]
  BY Broadcasted DEF Speaks, EventTypes
<1>1. pc'[t] \in Heard /\ (pc'[t] \in Running \/ e \in Finals) /\ OnlyMoves(t)
  BY DEF Speaks, Replied, Running, Heard
<1>2. WireOf'
  <2> SUFFICES ASSUME NEW r \in Sessions, NEW i \in DOMAIN wire'[r]
               PROVE  Sess(wire'[r][i].turn) = r /\ pc'[wire'[r][i].turn] \in Heard
    BY DEF WireOf, Sess
  <2>1. CASE r = s /\ i = n + 1
    BY <1>0, <1>1, <2>1
  <2>2. CASE ~ (r = s /\ i = n + 1)
    <3>1. i \in DOMAIN wire[r] /\ wire'[r][i] = wire[r][i]
      BY <1>0, <2>2, WireTurns
    <3> QED
      BY <3>1, WireTurns DEF WireInv, WireOf, Forward
  <2> QED
    BY <2>1, <2>2
<1>3. LatestIsRunning'
  <2> SUFFICES ASSUME NEW u \in Turns, pc'[u] \in Running
               PROVE  wire'[Sess(u)] # <<>> /\ Latest(wire'[Sess(u)]).turn = u
    BY DEF LatestIsRunning, Sess, Latest, Running
  <2>1. CASE u = t
    BY <1>0, <2>1
  <2>2. CASE u # t
    <3>1. pc[u] \in Running
      BY <1>1, <2>2 DEF OnlyMoves
    <3>2. wire'[Sess(u)] = wire[Sess(u)]
      BY <1>0, <2>2, <3>1, SpeaksAlone, SessType
    <3> QED
      BY <3>1, <3>2 DEF WireInv, LatestIsRunning
  <2> QED
    BY <2>1, <2>2
<1>4. LatestEnds'
  <2> SUFFICES ASSUME NEW r \in Sessions, wire'[r] # <<>>
               PROVE  \/ Latest(wire'[r]).type \in Finals
                      \/ pc'[Latest(wire'[r]).turn] \in Running \cup {"lost"}
                      \/ note'[Latest(wire'[r]).turn] \in {"refused", "both"}
    BY DEF LatestEnds, Latest, Running, Finals, Refused
  <2>1. CASE r = s
    BY <1>0, <1>1, <2>1
  <2>2. CASE r # s
    <3>1. wire'[r] = wire[r]
      BY <1>0, <2>2
    <3>2. Latest(wire[r]).turn \in Turns /\ Sess(Latest(wire[r]).turn) = r
      BY <3>1, WireTurns DEF WireInv, WireOf, Latest
    <3> QED
      BY <1>1, <2>2, <3>1, <3>2 DEF WireInv, LatestEnds, OnlyMoves, RefusedStays, Refused
  <2> QED
    BY <2>1, <2>2
<1>5. FinalIsLatest'
  <2> SUFFICES ASSUME NEW u \in Turns, final'[u] # "none"
               PROVE  /\ pc'[u] \in Replied
                      /\ pc'[u] = "streaming" => Latest(wire'[Sess(u)]).type \in Finals
    BY DEF FinalIsLatest, Sess, Latest, Replied, Finals, Heard, Over
  <2>1. CASE u = t
    BY <1>0, <2>1 DEF Speaks
  <2>2. CASE u # t
    <3>1. final[u] # "none" /\ pc'[u] = pc[u]
      BY <2>2 DEF Speaks, OnlyMoves
    <3>2. pc[u] = "streaming" => wire'[Sess(u)] = wire[Sess(u)]
      BY <1>0, <2>2, SpeaksAlone, SessType DEF Running
    <3> QED
      BY <3>1, <3>2 DEF WireInv, FinalIsLatest
  <2> QED
    BY <2>1, <2>2
<1> QED
  BY <1>2, <1>3, <1>4, <1>5 DEF WireInv

(* The other steps leave the wire and the final events as they are.        *)
Quiet ==
  /\ UNCHANGED <<wire, final>>
  /\ \A u \in Turns :
       /\ pc'[u] \in Running => pc[u] \in Running
       /\ pc[u] \in Running => \/ pc'[u] \in Running \cup {"lost"}
                               \/ final[u] # "none" /\ pc[u] = "streaming"
                               \/ Refused(u)'
       /\ final[u] # "none" /\ pc'[u] = "streaming" => pc[u] = "streaming"
       /\ final[u] # "none" => pc'[u] \in Replied

LEMMA QuietSteps ==
  ASSUME TypeOK, FinalIsLatest, [Next]_vars,
         \A t \in Turns : \A e \in EventTypes : ~ Speaks(t, e)
  PROVE  Quiet
<1> USE DEF Quiet, Running
<1>1. CASE Silent
  <2>1. \A u \in Turns : Forward(u)
    BY MovesForward
  <2> QED
    BY <1>1, <2>1 DEF Silent, Forward, FinalIsLatest, Replied, Heard
<1>2. ASSUME NEW t \in Turns, StartReply(t)
      PROVE  Quiet
  BY <1>2 DEF StartReply, Goto, TypeOK, FinalIsLatest, Replied, Heard, Over, Refused
<1>3. ASSUME NEW t \in Turns, EndReply(t), UNCHANGED <<wire, final>>, final[t] # "none"
      PROVE  Quiet
  BY <1>3 DEF EndReply, Goto, TypeOK, FinalIsLatest, Replied, Heard, Over
<1> QED
  BY <1>1, <1>2, <1>3, WireSteps

LEMMA QuietWire ==
  ASSUME TypeOK, WireInv, \A u \in Turns : Forward(u), RefusedStays, RefusedLeaves', Quiet
  PROVE  WireInv'
<1>1. wire' = wire /\ final' = final
  BY DEF Quiet
<1>2. WireOf'
  BY <1>1, WireTurns DEF WireInv, WireOf, Forward, Sess
<1>3. LatestIsRunning'
  BY <1>1 DEF WireInv, LatestIsRunning, Quiet, Sess, Latest, Running
<1>4. LatestEnds'
  <2> SUFFICES ASSUME NEW s \in Sessions, wire[s] # <<>>
               PROVE  \/ Latest(wire[s]).type \in Finals
                      \/ pc'[Latest(wire[s]).turn] \in Running \cup {"lost"}
                      \/ note'[Latest(wire[s]).turn] \in {"refused", "both"}
    BY <1>1 DEF LatestEnds, Latest, Running, Finals, Refused
  <2> DEFINE u == Latest(wire[s]).turn
  <2>1. u \in Turns /\ Sess(u) = s
    BY WireTurns DEF WireInv, WireOf, Latest
  <2>2. Latest(wire[s]).type \in Finals \/ pc[u] \in Running \cup {"lost"} \/ Refused(u)
    BY DEF WireInv, LatestEnds
  <2>3. final[u] # "none" /\ pc[u] = "streaming" => Latest(wire[s]).type \in Finals
    BY <2>1 DEF WireInv, FinalIsLatest
  <2>4. pc[u] = "lost" => pc'[u] = "lost"
    BY <2>1 DEF Forward
  <2>5. pc[u] \in Running => \/ pc'[u] \in Running \cup {"lost"}
                             \/ final[u] # "none" /\ pc[u] = "streaming"
                             \/ note'[u] \in {"refused", "both"}
    BY <2>1 DEF Quiet, Refused
  <2>6. Refused(u) => note'[u] \in {"refused", "both"}
    BY <2>1 DEF RefusedStays, Refused
  <2> QED
    BY <2>2, <2>3, <2>4, <2>5, <2>6 DEF Refused
<1>5. FinalIsLatest'
  BY <1>1 DEF WireInv, FinalIsLatest, Quiet, Sess, Latest, Replied, Finals, Heard, Over
<1> QED
  BY <1>2, <1>3, <1>4, <1>5 DEF WireInv

LEMMA WireNext == TypeOK /\ LockInv /\ WireInv /\ [Next]_vars => WireInv'
<1> SUFFICES ASSUME TypeOK, LockInv, WireInv, [Next]_vars
             PROVE  WireInv'
  OBVIOUS
<1>1. FinalIsLatest /\ (\A u \in Turns : Forward(u)) /\ RefusedStays /\ RefusedLeaves'
  BY MovesForward, RefusedNext DEF WireInv, RefusedStays
<1> QED
  BY <1>1, QuietSteps, QuietWire, SpeaksWire

LEMMA WireInvariant == Spec => [](TypeOK /\ LockInv /\ WireInv)
<1>1. Init => TypeOK /\ LockInv /\ WireInv
  BY InitTypeOK, InitLock, InitWire
<1>2. TypeOK /\ LockInv /\ WireInv /\ [Next]_vars => (TypeOK /\ LockInv /\ WireInv)'
  BY NextTypeOK, LockNext, WireNext
<1> QED
  BY <1>1, <1>2, PTL DEF Spec
------------------------------------------------------------------------------
LEMMA BracketedNext ==
  TypeOK /\ LockInv /\ WireInv /\ WireBracketed /\ [Next]_vars => WireBracketed'
<1> SUFFICES ASSUME TypeOK, LockInv, WireInv, WireBracketed, [Next]_vars
             PROVE  WireBracketed'
  OBVIOUS
<1> DEFINE Good(a, b) ==
      a.turn # b.turn => /\ b.type = "user_message"
                         /\ \/ a.type \in Finals
                            \/ pc'[a.turn] = "lost"
                            \/ note'[a.turn] \in {"refused", "both"}
<1>1. SUFFICES ASSUME NEW r \in Sessions, NEW i \in 2..Len(wire'[r])
               PROVE  Good(wire'[r][i-1], wire'[r][i])
  BY <1>1 DEF WireBracketed, Finals, Refused
<1>2. /\ \A u \in Turns : Forward(u)
      /\ RefusedStays
      /\ Len(wire[r]) \in Nat /\ DOMAIN wire[r] = 1..Len(wire[r])
      /\ \A j \in DOMAIN wire[r] : wire[r][j].turn \in Turns
  BY MovesForward, RefusedNext, WireTurns DEF WireInv, RefusedStays
<1>3. i \in 2..Len(wire[r]) => Good(wire[r][i-1], wire[r][i])
  BY <1>2 DEF WireBracketed, Forward, RefusedStays, Refused
<1>4. CASE Quiet
  BY <1>3, <1>4 DEF Quiet
<1>5. ASSUME NEW t \in Turns, NEW e \in EventTypes, Speaks(t, e)
      PROVE  Good(wire'[r][i-1], wire'[r][i])
  <2> DEFINE s == Sess(t)
             n == Len(wire[s])
  <2>0. /\ s \in Sessions
        /\ Len(wire'[s]) = n + 1
        /\ wire'[s][n + 1] = [turn |-> t, type |-> e]
        /\ \A j \in 1..n : wire'[s][j] = wire[s][j]
        /\ \A q \in Sessions \ {s} : wire'[q] = wire[q]
    BY <1>5, Broadcasted DEF Speaks, EventTypes
  <2>1. CASE r = s /\ i = n + 1
    <3> DEFINE a == Latest(wire[s])
    <3>1. wire'[r][i] = [turn |-> t, type |-> e] /\ wire'[r][i-1] = a /\ n \in DOMAIN wire[s]
      BY <1>2, <2>0, <2>1 DEF Latest
    <3>2. a.turn \in Turns /\ Sess(a.turn) = s /\ wire[s] # <<>>
      BY <1>2, <2>1, <3>1, WireTurns DEF Latest, WireInv, WireOf
    <3>3. ASSUME a.turn # t
          PROVE  e = "user_message"
      BY <1>5, <3>3 DEF Speaks, WireInv, LatestIsRunning, Running
    <3>4. ASSUME a.turn # t
          PROVE  \/ a.type \in Finals
                 \/ pc'[a.turn] = "lost"
                 \/ note'[a.turn] \in {"refused", "both"}
      BY <1>2, <1>5, <2>0, <3>2, <3>4, SpeaksAlone
         DEF WireInv, LatestEnds, Forward, RefusedStays, Refused
    <3> QED
      BY <3>1, <3>3, <3>4
  <2>2. CASE ~ (r = s /\ i = n + 1)
    <3>0. i \in 2..Len(wire[r])
      <4>1. CASE r = s
        BY <1>2, <2>0, <2>2, <4>1
      <4>2. CASE r # s
        BY <2>0, <4>2
      <4> QED
        BY <4>1, <4>2
    <3>1. wire'[r][i-1] = wire[r][i-1] /\ wire'[r][i] = wire[r][i]
      <4>1. CASE r = s
        BY <1>2, <2>0, <3>0, <4>1
      <4>2. CASE r # s
        BY <2>0, <4>2
      <4> QED
        BY <4>1, <4>2
    <3>2. Good(wire[r][i-1], wire[r][i])
      BY <1>3, <3>0
    <3> QED
      BY <3>1, <3>2
  <2> QED
    BY <2>1, <2>2
<1> QED
  BY <1>4, <1>5, QuietSteps DEF WireInv

(* A turn is announced to the clients only after the previous turn of its  *)
(* session had its assistant_done, died with the process, or was refused   *)
(* by its adapter.                                                         *)
THEOREM WiresBracketed == Spec => []WireBracketed
<1>1. Init => WireBracketed
  BY DEF Init, WireBracketed
<1>2. TypeOK /\ LockInv /\ WireInv /\ WireBracketed /\ [Next]_vars => WireBracketed'
  BY BracketedNext
<1> QED
  BY <1>1, <1>2, WireInvariant, PTL DEF Spec
------------------------------------------------------------------------------
(***************************************************************************)
(* The final event.  final[t] says which one the clients of t have got,    *)
(* and a turn whose message was saved does not leave without one.          *)
(***************************************************************************)
NoneYet == \A t \in Turns :
  final[t] = "none" =>
    \A i \in DOMAIN wire[Sess(t)] : wire[Sess(t)][i].turn = t => wire[Sess(t)][i].type \notin Finals

FinalSent == \A t \in Turns :
  final[t] # "none" =>
    \E i \in DOMAIN wire[Sess(t)] : wire[Sess(t)][i] = [turn |-> t, type |-> final[t]]

FinalIsLast == \A t \in Turns : \A i, j \in DOMAIN wire[Sess(t)] :
  i < j /\ wire[Sess(t)][i].turn = t /\ wire[Sess(t)][j].turn = t
    => wire[Sess(t)][i].type \notin Finals

EndedFinal == \A t \in Turns :
  \/ pc[t] = "ended"
  \/ pc[t] \in {"leaving", "cleared", "finished"} /\ note[t] = "id"
  => final[t] # "none"

RefusedFinal == \A t \in Turns : Refused(t) => final[t] = "none"

FinalInv == NoneYet /\ FinalSent /\ FinalIsLast /\ EndedFinal /\ RefusedFinal

LEMMA InitFinal == Init => FinalInv
BY SessType DEF Init, FinalInv, NoneYet, FinalSent, FinalIsLast, EndedFinal, RefusedFinal, Refused

LEMMA RefusedFinalNext == TypeOK /\ WireInv /\ RefusedFinal /\ [Next]_vars => RefusedFinal'
<1> SUFFICES ASSUME TypeOK, WireInv, RefusedFinal, [Next]_vars,
                    NEW t \in Turns, note'[t] \in {"refused", "both"}
             PROVE  final'[t] = "none"
  BY DEF RefusedFinal, Refused
<1>0. /\ Refused(t) => final[t] = "none" /\ pc[t] \in {"leaving", "cleared"} \cup Over
      /\ final[t] # "none" => pc[t] \in Replied
  BY DEF WireInv, RefusedLeaves, RefusedFinal, FinalIsLatest
<1> USE DEF Refused, Over, Goto, TypeOK
<1>1. ASSUME NEW u \in Turns, Send(u) \/ Acquire(u) \/ SetTurnCancel(u) \/ SaveUser(u)
      PROVE  final'[t] = "none"
  BY <1>0, <1>1 DEF Send, Acquire, SetTurnCancel, SaveUser, turnVars
<1>2. ASSUME NEW u \in Turns, Announce(u) \/ EndReply(u) \/ SaveReply(u)
      PROVE  final'[t] = "none"
  BY <1>0, <1>2 DEF Announce, EndReply, SaveReply, turnVars
<1>3. ASSUME NEW u \in Turns, StartReply(u)
      PROVE  final'[t] = "none"
  BY <1>0, <1>3 DEF StartReply, Replied
<1>4. ASSUME NEW u \in Turns, ClearTurnCancel(u) \/ Release(u)
      PROVE  final'[t] = "none"
  BY <1>0, <1>4 DEF ClearTurnCancel, Release, turnVars
<1>5. ASSUME NEW u \in Turns, Answer(u) \/ Hear(u) \/ CloseChannel(u)
      PROVE  final'[t] = "none"
  BY <1>0, <1>5 DEF Answer, AnswerOk, AnswerError, AnswerTimeout, Hear, CloseChannel
<1>6. ASSUME NEW x \in Stops, CallCancel(x) \/ \E s \in Sessions : TakeCancel(x, s)
      PROVE  final'[t] = "none"
  BY <1>0, <1>6 DEF CallCancel, TakeCancel, turnVars
<1>7. CASE Crash
  BY <1>0, <1>7 DEF Crash
<1>8. CASE UNCHANGED vars
  BY <1>0, <1>8 DEF vars, turnVars
<1> QED
  BY <1>1, <1>2, <1>3, <1>4, <1>5, <1>6, <1>7, <1>8 DEF Next, Run

LEMMA EndedNext == TypeOK /\ FinalInv /\ [Next]_vars => EndedFinal'
<1> SUFFICES ASSUME TypeOK, EndedFinal, [Next]_vars
             PROVE  EndedFinal'
  BY DEF FinalInv
<1> USE DEF EndedFinal, TypeOK, Goto
<1>1. ASSUME NEW t \in Turns, Send(t) \/ Acquire(t) \/ SetTurnCancel(t) \/ SaveUser(t)
      PROVE  EndedFinal'
  BY <1>1 DEF Send, Acquire, SetTurnCancel, SaveUser, turnVars
<1>2. ASSUME NEW t \in Turns, Announce(t) \/ StartReply(t) \/ EndReply(t)
      PROVE  EndedFinal'
  BY <1>2 DEF Announce, StartReply, EndReply, turnVars
<1>3. ASSUME NEW t \in Turns, SaveReply(t) \/ ClearTurnCancel(t) \/ Release(t)
      PROVE  EndedFinal'
  BY <1>3 DEF SaveReply, ClearTurnCancel, Release, turnVars
<1>4. ASSUME NEW t \in Turns, Answer(t) \/ Hear(t) \/ CloseChannel(t)
      PROVE  EndedFinal'
  BY <1>4 DEF Answer, AnswerOk, AnswerError, AnswerTimeout, Hear, CloseChannel
<1>5. ASSUME NEW x \in Stops, CallCancel(x) \/ \E s \in Sessions : TakeCancel(x, s)
      PROVE  EndedFinal'
  BY <1>5 DEF CallCancel, TakeCancel, turnVars
<1>6. CASE Crash
  BY <1>6 DEF Crash
<1>7. CASE UNCHANGED vars
  BY <1>7 DEF vars, turnVars
<1> QED
  BY <1>1, <1>2, <1>3, <1>4, <1>5, <1>6, <1>7 DEF Next, Run

LEMMA SpeaksFinal ==
  ASSUME TypeOK, FinalInv, NEW t \in Turns, NEW e \in EventTypes, Speaks(t, e)
  PROVE  (NoneYet /\ FinalSent /\ FinalIsLast)'
<1> DEFINE s == Sess(t)
           n == Len(wire[s])
<1>0. /\ s \in Sessions
      /\ n \in Nat /\ DOMAIN wire[s] = 1..n
      /\ DOMAIN wire'[s] = 1..n + 1
      /\ wire'[s][n + 1] = [turn |-> t, type |-> e]
      /\ \A i \in 1..n : wire'[s][i] = wire[s][i]
      /\ \A r \in Sessions \ {s} : wire'[r] = wire[r]
  BY Broadcasted, WireTurns DEF Speaks, EventTypes
<1>1. /\ final[t] = "none" /\ final'[t] = IF e \in Finals THEN e ELSE "none"
      /\ \A u \in Turns \ {t} : final'[u] = final[u]
  BY DEF Speaks
<1>2. NoneYet'
  <2> SUFFICES ASSUME NEW u \in Turns, final'[u] = "none", NEW i \in DOMAIN wire'[Sess(u)],
                      wire'[Sess(u)][i].turn = u
               PROVE  wire'[Sess(u)][i].type \notin Finals
    BY DEF NoneYet, Sess, Finals
  <2>1. CASE Sess(u) = s /\ i = n + 1
    <3>1. u = t
      BY <1>0, <2>1
    <3> QED
      BY <1>0, <1>1, <2>1, <3>1 DEF Finals
  <2>2. CASE ~ (Sess(u) = s /\ i = n + 1)
    <3>1. i \in DOMAIN wire[Sess(u)] /\ wire'[Sess(u)][i] = wire[Sess(u)][i]
      BY <1>0, <2>2, SessType
    <3>2. final[u] = "none"
      BY <1>1
    <3> QED
      BY <3>1, <3>2 DEF FinalInv, NoneYet
  <2> QED
    BY <2>1, <2>2
<1>3. FinalSent'
  <2> SUFFICES ASSUME NEW u \in Turns, final'[u] # "none"
               PROVE  \E i \in DOMAIN wire'[Sess(u)] :
                        wire'[Sess(u)][i] = [turn |-> u, type |-> final'[u]]
    BY DEF FinalSent, Sess
  <2>1. CASE u = t
    BY <1>0, <1>1, <2>1
  <2>2. CASE u # t
    <3>1. PICK i \in DOMAIN wire[Sess(u)] : wire[Sess(u)][i] = [turn |-> u, type |-> final[u]]
      BY <1>1, <2>2 DEF FinalInv, FinalSent
    <3>2. i \in DOMAIN wire'[Sess(u)] /\ wire'[Sess(u)][i] = wire[Sess(u)][i]
      BY <1>0, SessType
    <3> QED
      BY <1>1, <2>2, <3>1, <3>2
  <2> QED
    BY <2>1, <2>2
<1>4. FinalIsLast'
  <2> SUFFICES ASSUME NEW u \in Turns,
                      NEW i \in DOMAIN wire'[Sess(u)], NEW j \in DOMAIN wire'[Sess(u)],
                      i < j, wire'[Sess(u)][i].turn = u, wire'[Sess(u)][j].turn = u
               PROVE  wire'[Sess(u)][i].type \notin Finals
    BY DEF FinalIsLast, Sess, Finals
  <2>1. CASE Sess(u) = s
    <3>1. i \in 1..n /\ wire'[s][i] = wire[s][i]
      BY <1>0, <2>1
    <3>2. CASE j = n + 1
      BY <1>0, <1>1, <2>1, <3>1, <3>2 DEF FinalInv, NoneYet
    <3>3. CASE j # n + 1
      <4>1. j \in 1..n /\ wire'[s][j] = wire[s][j]
        BY <1>0, <2>1, <3>3
      <4> QED
        BY <1>0, <2>1, <3>1, <4>1 DEF FinalInv, FinalIsLast
    <3> QED
      BY <3>2, <3>3
  <2>2. CASE Sess(u) # s
    BY <1>0, <2>2, SessType DEF FinalInv, FinalIsLast
  <2> QED
    BY <2>1, <2>2
<1> QED
  BY <1>2, <1>3, <1>4

LEMMA FinalNext == TypeOK /\ WireInv /\ FinalInv /\ [Next]_vars => FinalInv'
<1> SUFFICES ASSUME TypeOK, WireInv, FinalInv, [Next]_vars
             PROVE  FinalInv'
  OBVIOUS
<1>1. EndedFinal' /\ RefusedFinal'
  BY EndedNext, RefusedFinalNext DEF FinalInv
<1>2. ASSUME Quiet
      PROVE  (NoneYet /\ FinalSent /\ FinalIsLast)'
  BY <1>2 DEF Quiet, FinalInv, NoneYet, FinalSent, FinalIsLast, Sess, Finals
<1> QED
  BY <1>1, <1>2, SpeaksFinal, QuietSteps DEF FinalInv, WireInv

LEMMA FinalInvariant == Spec => [](TypeOK /\ LockInv /\ DiskInv /\ WireInv /\ FinalInv)
<1>1. Init => FinalInv
  BY InitFinal
<1>2. TypeOK /\ WireInv /\ FinalInv /\ [Next]_vars => FinalInv'
  BY FinalNext
<1> QED
  BY <1>1, <1>2, WireInvariant, DiskInvariant, PTL DEF Spec

(* Clients get exactly one assistant_done for each turn that its adapter   *)
(* took and that ran to its end, nothing of the turn after it, and none    *)
(* for a turn that was refused.                                            *)
THEOREM FinalsAreUnique == Spec => []OneFinal
<1>1. TypeOK /\ FinalInv => OneFinal
  <2> SUFFICES ASSUME TypeOK, FinalInv, NEW t \in Turns
               PROVE  LET w == wire[Sess(t)]
                          ends == {i \in DOMAIN w : w[i].turn = t /\ w[i].type \in Finals}
                      IN
                      /\ \A i \in ends : \A j \in DOMAIN w : i < j => w[j].turn # t
                      /\ pc[t] = "finished" /\ note[t] = "id" => ends # {}
                      /\ Refused(t) => ends = {}
    BY DEF OneFinal
  <2> DEFINE w == wire[Sess(t)]
             ends == {i \in DOMAIN w : w[i].turn = t /\ w[i].type \in Finals}
  <2>1. \A i \in ends : \A j \in DOMAIN w : i < j => w[j].turn # t
    BY DEF FinalInv, FinalIsLast
  <2>2. ASSUME pc[t] = "finished", note[t] = "id"
        PROVE  ends # {}
    <3>1. final[t] \in Finals
      BY <2>2 DEF FinalInv, EndedFinal, TypeOK
    <3>2. PICK i \in DOMAIN w : w[i] = [turn |-> t, type |-> final[t]]
      BY <3>1 DEF FinalInv, FinalSent, Finals
    <3>3. w[i].turn = t /\ w[i].type \in Finals
      BY <3>1, <3>2
    <3> QED
      BY <3>3
  <2>3. ASSUME Refused(t)
        PROVE  ends = {}
    BY <2>3 DEF FinalInv, RefusedFinal, NoneYet
  <2> QED
    BY <2>1, <2>2, <2>3
<1> QED
  BY <1>1, FinalInvariant, PTL

(* Both together: clients see turns one after the other, each with exactly *)
(* one assistant_done, its last event, unless its adapter refused it.      *)
THEOREM WiresOrdered == Spec => []WireOrdered
  BY WiresBracketed, FinalsAreUnique, PTL DEF WireOrdered
------------------------------------------------------------------------------
(***************************************************************************)
(* The transcript and the wire agree: SaveReply appends right after the    *)
(* turn's own message, once its final event was broadcast.                 *)
(***************************************************************************)
Agrees(s, i) ==
  LET m == transcript[s][i] IN
  m.role = "assistant" =>
    /\ i > 1 /\ transcript[s][i-1] = User(m.turn)
    /\ \E j \in DOMAIN wire[s] :
         wire[s][j] = [turn |-> m.turn, type |-> IF m.cancelled THEN "cancelled" ELSE "done"]

LEMMA WireGrows ==
  ASSUME TypeOK, WireInv, [Next]_vars, NEW s \in Sessions, NEW j \in DOMAIN wire[s]
  PROVE  j \in DOMAIN wire'[s] /\ wire'[s][j] = wire[s][j]
<1>1. CASE Quiet
  BY <1>1 DEF Quiet
<1>2. ASSUME NEW t \in Turns, NEW e \in EventTypes, Speaks(t, e)
      PROVE  j \in DOMAIN wire'[s] /\ wire'[s][j] = wire[s][j]
  <2>1. CASE s = Sess(t)
    <3>1. /\ DOMAIN wire'[s] = 1..Len(wire[s]) + 1
          /\ \A i \in 1..Len(wire[s]) : wire'[s][i] = wire[s][i]
      BY <1>2, <2>1, Broadcasted DEF Speaks, EventTypes
    <3>2. Len(wire[s]) \in Nat /\ j \in 1..Len(wire[s])
      BY WireTurns
    <3> QED
      BY <3>1, <3>2
  <2>2. CASE s # Sess(t)
    BY <1>2, <2>2, Broadcasted DEF Speaks, EventTypes
  <2> QED
    BY <2>1, <2>2
<1> QED
  BY <1>1, <1>2, QuietSteps DEF WireInv

LEMMA AgreesStays ==
  ASSUME TypeOK, WireInv, [Next]_vars, NEW s \in Sessions, NEW i \in DOMAIN transcript[s],
         Agrees(s, i)
  PROVE  Agrees(s, i)'
<1> DEFINE m == transcript[s][i]
<1>1. i \in DOMAIN transcript'[s] /\ transcript'[s][i] = m
  BY TranscriptGrows
<1>2. SUFFICES ASSUME m.role = "assistant"
               PROVE  /\ i > 1 /\ transcript'[s][i-1] = User(m.turn)
                      /\ \E j \in DOMAIN wire'[s] :
                           wire'[s][j] = [turn |-> m.turn,
                                          type |-> IF m.cancelled THEN "cancelled" ELSE "done"]
  BY <1>1, <1>2 DEF Agrees, User
<1>3. transcript[s] \in Seq(Message)
  BY MessageTurns
<1>4. i > 1 /\ transcript[s][i-1] = User(m.turn)
  BY <1>2 DEF Agrees
<1>5. i - 1 \in DOMAIN transcript[s]
  BY <1>3, <1>4
<1>6. transcript'[s][i-1] = transcript[s][i-1]
  BY <1>5, TranscriptGrows
<1>7. PICK j \in DOMAIN wire[s] :
        wire[s][j] = [turn |-> m.turn, type |-> IF m.cancelled THEN "cancelled" ELSE "done"]
  BY <1>2 DEF Agrees
<1>8. j \in DOMAIN wire'[s] /\ wire'[s][j] = wire[s][j]
  BY WireGrows
<1> QED
  BY <1>4, <1>6, <1>7, <1>8

LEMMA AgreesNext ==
  TypeOK /\ DiskInv /\ WireInv /\ FinalInv /\ TranscriptAgrees /\ [Next]_vars => TranscriptAgrees'
<1> SUFFICES ASSUME TypeOK, DiskInv, WireInv, FinalInv, TranscriptAgrees, [Next]_vars,
                    NEW r \in Sessions, NEW i \in DOMAIN transcript'[r]
             PROVE  Agrees(r, i)'
  BY DEF TranscriptAgrees, Agrees, User
<1>1. i \in DOMAIN transcript[r] => Agrees(r, i)'
  BY AgreesStays DEF TranscriptAgrees, Agrees
<1>2. CASE UNCHANGED transcript
  BY <1>1, <1>2
<1>3. ASSUME NEW t \in Turns, NEW m \in Message, AppendMessage(t, m), m.role = "user"
      PROVE  Agrees(r, i)'
  <2>1. /\ transcript' \in [Sessions -> Seq(Message)] /\ transcript[r] \in Seq(Message)
        /\ Len(transcript'[Sess(t)]) = Len(transcript[Sess(t)]) + 1
        /\ transcript'[Sess(t)][Len(transcript[Sess(t)]) + 1] = m
        /\ \A q \in Sessions \ {Sess(t)} : transcript'[q] = transcript[q]
    BY <1>3, Appended, AppendMessageType, MessageTurns
  <2>2. CASE r = Sess(t) /\ i = Len(transcript[r]) + 1
    <3>1. transcript'[r][i].role = "user"
      BY <1>3, <2>1, <2>2
    <3> QED
      BY <3>1 DEF Agrees
  <2>3. CASE ~ (r = Sess(t) /\ i = Len(transcript[r]) + 1)
    <3>1. i \in DOMAIN transcript[r]
      BY <2>1, <2>3
    <3> QED
      BY <1>1, <3>1
  <2> QED
    BY <2>2, <2>3
<1>4. ASSUME NEW t \in Turns, SaveReply(t), AppendMessage(t, Assistant(t, final[t] = "cancelled"))
      PROVE  Agrees(r, i)'
  <2> DEFINE s == Sess(t)
             n == Len(transcript[s])
             m == Assistant(t, final[t] = "cancelled")
  <2>1. m \in Message /\ s \in Sessions /\ m.turn = t /\ m.cancelled = (final[t] = "cancelled")
    BY MessageTypes, SessType DEF Assistant
  <2>2. /\ transcript' \in [Sessions -> Seq(Message)]
        /\ Len(transcript'[s]) = n + 1
        /\ transcript'[s][n + 1] = m
        /\ \A k \in 1..n : transcript'[s][k] = transcript[s][k]
        /\ \A q \in Sessions \ {s} : transcript'[q] = transcript[q]
    BY <1>4, <2>1, Appended, AppendMessageType
  <2>3. n \in Nat /\ DOMAIN transcript[s] = 1..n /\ DOMAIN transcript'[s] = 1..n + 1
    BY <2>1, <2>2, MessageTurns
  <2>4. CASE ~ (r = s /\ i = n + 1)
    BY <1>1, <2>2, <2>3, <2>4
  <2>5. CASE r = s /\ i = n + 1
    <3>1. pc[t] = "ended" /\ UNCHANGED wire
      BY <1>4 DEF SaveReply
    <3>2. n > 0 /\ transcript[s][n] = User(t)
      BY <2>3, <3>1, MessageTurns, SessType DEF DiskInv, LastIs
    <3>3. final[t] \in Finals
      BY <3>1 DEF FinalInv, EndedFinal, TypeOK
    <3>4. PICK j \in DOMAIN wire[s] : wire[s][j] = [turn |-> t, type |-> final[t]]
      BY <3>3 DEF FinalInv, FinalSent, Finals
    <3>5. final[t] = IF m.cancelled THEN "cancelled" ELSE "done"
      BY <2>1, <3>3 DEF Finals
    <3>6. transcript'[r][i-1] = User(m.turn)
      BY <2>1, <2>2, <2>3, <2>5, <3>2
    <3>7. wire'[s][j] = [turn |-> m.turn, type |-> IF m.cancelled THEN "cancelled" ELSE "done"]
      BY <2>1, <3>1, <3>4, <3>5
    <3>8. i > 1 /\ transcript'[r][i] = m /\ j \in DOMAIN wire'[r] /\ wire'[r][j] = wire'[s][j]
      BY <2>2, <2>3, <2>5, <3>1, <3>2
    <3> HIDE DEF m, n
    <3> QED
      BY <3>6, <3>7, <3>8 DEF Agrees, User
  <2> QED
    BY <2>4, <2>5
<1>5. \A t \in Turns : User(t) \in Message /\ User(t).role = "user"
  BY MessageTypes DEF User
<1> QED
  BY <1>2, <1>3, <1>4, <1>5, TranscriptSteps

(* A stored reply stands right after the message it answers, and carries   *)
(* the same ending as the assistant_done that the clients got.             *)
THEOREM TranscriptsAgree == Spec => []TranscriptAgrees
<1>1. Init => TranscriptAgrees
  BY DEF Init, TranscriptAgrees
<1>2. TypeOK /\ DiskInv /\ WireInv /\ FinalInv /\ TranscriptAgrees /\ [Next]_vars
        => TranscriptAgrees'
  BY AgreesNext
<1> QED
  BY <1>1, <1>2, FinalInvariant, PTL DEF Spec
==============================================================================
