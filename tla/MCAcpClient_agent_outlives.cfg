\* The agent is down, and a caller starts it under its own context.
SPECIFICATION Spec
CONSTANTS
  Callers = {c1, c2}
  Sessions = {s1}
  AutoStart = TRUE
  MaxConns = 1
PROPERTY
  AgentOutlivesCaller
\* Everybody has called.
CHECK_DEADLOCK FALSE
