\* Two callers, an agent that the hub starts, one connection.
SPECIFICATION FairSpec
CONSTANTS
  Callers = {c1, c2}
  Sessions = {s1}
  AutoStart = TRUE
  MaxConns = 1
PROPERTY
  CallsReturn
\* Everybody has called.
CHECK_DEADLOCK FALSE
