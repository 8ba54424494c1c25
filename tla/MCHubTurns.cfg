\* Two turns of one session, one Stop, one crash; adapters that may say
\* nothing until they are stopped.
SPECIFICATION FairSpec
CONSTANTS
  t1 = t1
  t2 = t2
  t3 = t3
  s1 = s1
  s2 = s2
  Turns = {t1, t2}
  Sessions = {s1}
  SessionOf <- OneSession
  Stops = {x1}
  None = None
  MaxDeltas = 1
  MaxCrashes = 1
INVARIANTS StopFinds HistoryComplete WireOrdered TranscriptAgrees OkMeansSaved
PROPERTIES TurnsFinish StopEndsTurn
\* A hub with nothing more to send rests.
CHECK_DEADLOCK FALSE
