\* Every way a job may come about, two concurrent HTTP callers; the deadline
\* may never come.
SPECIFICATION FairSpec
CONSTANTS
  Callers = {c1, c2}
  Modes = {"mock", "webhook", "unknown", "inbound"}
  QueueCap = 1
  MockEvents = 1
  MaxCalls = 2
INVARIANTS EndCloses StopExplained
PROPERTIES ImplementsStream StreamCloses MockStops CancelUnblocksWaiter
\* A job that has ended and gets no more calls rests.
CHECK_DEADLOCK FALSE
