\* Two turns, a Stop, a connection that may be lost, full channels.
SPECIFICATION FairSpec
CONSTANTS
  t1 = t1
  t2 = t2
  x1 = x1
  None = None
  Turns = {t1, t2}
  Stops = {x1}
  QueueCap = 1
  OutCap = 1
  MaxUpdates = 1
  MaxLosses = 1
INVARIANTS PromptComplete TurnsApart
PROPERTIES PromptIsStream StopEndsTurn
\* Everybody has got an answer.
CHECK_DEADLOCK FALSE
