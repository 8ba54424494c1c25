------------------------------ MODULE MCReplies ------------------------------
EXTENDS Replies

(* Two calls of one tool and their results, with ids and without, in any   *)
(* order, a call that is sent again, a card.                               *)
Call(id, status) == [type |-> "tool_call", id |-> id, name |-> "grep", status |-> status,
                     result |-> FALSE, error |-> FALSE]
Result(id) == [Call(id, None) EXCEPT !.type = "tool_result", !.result = TRUE]
Card(id) == [Call(id, "error") EXCEPT !.type = "tool_card", !.error = TRUE]

SomeTools ==
  { Call("1", None), Call("2", None), Call(None, None), Call("1", "running"),
    Result("1"), Result("2"), Result(None), Card("1") }
==============================================================================
