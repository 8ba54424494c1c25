\* Two callers load one session, the connection is lost and dialled again.
SPECIFICATION Spec
CONSTANTS
  Callers = {c1, c2}
  Sessions = {s1}
  AutoStart = FALSE
  MaxConns = 2
PROPERTY
  LoadResumes
\* Everybody has called.
CHECK_DEADLOCK FALSE
