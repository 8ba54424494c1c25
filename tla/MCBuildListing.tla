--------------------------- MODULE MCBuildListing ---------------------------
EXTENDS BuildListing

CONSTANTS a, b

(* Two directories of one name and one of another, in the order in which   *)
(* they are walked; the last is in the other home.                         *)
ThreePlaces == << [home |-> "own", name |-> a], [home |-> "own", name |-> a],
                  [home |-> "inferred", name |-> b] >>

Line(size, shape, role, text) ==
  [json |-> TRUE, size |-> size, shape |-> shape, role |-> role, text |-> text]

SomeLines ==
  { Line("fits", "flat", "user", "query"), Line("fits", "flat", "assistant", "plain"),
    Line("huge", "flat", "tool", "plain"), Line("fits", "update", "user_message_chunk", "plain") }

SomeSummaries ==
  { [id |-> None, hidden |-> "unset", stamp |-> FALSE],
    [id |-> b, hidden |-> "unset", stamp |-> TRUE] }
==============================================================================
