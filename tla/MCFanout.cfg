\* Two clients and two sessions, one of which has something to tell; one of
\* the clients asks for it, either may stall or go away.
SPECIFICATION FairSpec
CONSTANTS
  c1 = c1
  c2 = c2
  s1 = s1
  s2 = s2
  None = None
  Conns = {c1, c2}
  Sessions = {s1, s2}
  MaxItems <- OneItem
  MaxTroubles = 1
  MaxAsks <- OneSpeaks
INVARIANTS Registered OnlyGapMissed
PROPERTIES BroadcastEnds FailedForgotten
\* Nobody has anything to send.
CHECK_DEADLOCK FALSE
