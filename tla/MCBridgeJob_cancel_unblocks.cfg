\* A session cancelled while its job's queue is full; the deadline may never
\* come.
SPECIFICATION FairSpec
CONSTANTS
  Callers = {c1, c2}
  Modes = {"webhook"}
  QueueCap = 1
  MockEvents = 0
  MaxCalls = 2
PROPERTY CancelUnblocks
\* A job that has ended and gets no more calls rests.
CHECK_DEADLOCK FALSE
