----------------------------- MODULE ReplyStream -----------------------------
(***************************************************************************)
(* What the hub may rely on when it ranges over the channel returned by    *)
(* agent.Adapter.StreamReply: events come one by one, nothing follows an   *)
(* assistant_done, the channel is closed for good, and it may be closed    *)
(* without any assistant_done (the hub then makes one up itself).  The     *)
(* interface states none of this; it is what runChat is written against.   *)
(***************************************************************************)
EXTENDS Sequences

CONSTANTS Event,  \* kinds of event that an adapter sends
          Final   \* those that stand for an assistant_done

VARIABLES stream,  \* everything sent on the channel so far
          open     \* the channel is not closed yet

streamVars == <<stream, open>>

Ended(s) == \E i \in DOMAIN s : s[i] \in Final

Init ==
  /\ stream = <<>>
  /\ open = TRUE

(* An event is sent; the sender may close the channel right after it. *)
Emit ==
  /\ open
  /\ ~ Ended(stream)
  /\ \E e \in Event : stream' = Append(stream, e)
  /\ open' \in {open, FALSE}

Close ==
  /\ open
  /\ open' = FALSE
  /\ UNCHANGED stream

Next == Emit \/ Close

Spec == Init /\ [][Next]_streamVars

(* The channel is closed at last, whatever its sender is waiting for. *)
FairSpec == Spec /\ <>(~ open)
==============================================================================
