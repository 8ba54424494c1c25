\* A turn is refused for a while, then a fetch fails.
SPECIFICATION UsageSpec
CONSTANTS
  c1 = c1
  c2 = c2
  t1 = t1
  t2 = t2
  Nil = Nil
  Callers = {c1, c2}
  Turns = {t1, t2}
  TTL = 1
  MaxTime = 2
PROPERTY ShortWindowKept
