\* A late webhook answer against a cancelled job.
SPECIFICATION Spec
CONSTANTS
  Callers = {c1, c2}
  Modes = {"webhook"}
  QueueCap = 2
  MockEvents = 0
  MaxCalls = 2
PROPERTY CancelledStays
CHECK_DEADLOCK FALSE
