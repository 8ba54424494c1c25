\* Three directories in two homes, two ids, summaries that name their own
\* directory or another one.
SPECIFICATION Spec
CONSTANTS
  a = a
  b = b
  None = None
  Ids = {a, b}
  Places <- ThreePlaces
  Lines <- SomeLines
  Summaries <- SomeSummaries
  MaxWrites = 2
  MaxLines = 2
INVARIANTS RowsSound BubbleListed
PROPERTIES ListComplete RowsStay
