\* Two callers, two turns that meet a limit, time for three fetches that are a TTL apart.
SPECIFICATION UsageSpec
CONSTANTS
  c1 = c1
  c2 = c2
  t1 = t1
  t2 = t2
  Nil = Nil
  Callers = {c1, c2}
  Turns = {t1, t2}
  TTL = 1
  MaxTime = 2
INVARIANTS FetchesApart AnswersFresh NothingInvented
PROPERTY LimitsKept
