\* A subscription made after the deadline of the last Broadcast.
SPECIFICATION Spec
CONSTANTS
  c1 = c1
  c2 = c2
  s1 = s1
  s2 = s2
  None = None
  Conns = {c1, c2}
  Sessions = {s1, s2}
  MaxItems <- OneItem
  MaxTroubles = 0
  MaxAsks <- OneSpeaks
PROPERTY SubscribeAnswered
\* Nobody has anything to send.
CHECK_DEADLOCK FALSE
