\* Two callers, a connection that is lost and dialled again.
SPECIFICATION Spec
CONSTANTS
  Callers = {c1, c2}
  Sessions = {s1}
  AutoStart = FALSE
  MaxConns = 2
SYMMETRY CallersAlike
INVARIANTS OneReader WaitsForSomething AgentAgreed
\* Everybody has called.
CHECK_DEADLOCK FALSE
