\* A line of more than 2 MiB comes before one of ordinary length.
SPECIFICATION Spec
CONSTANTS
  a = a
  b = b
  None = None
  Ids = {a, b}
  Places <- ThreePlaces
  Lines <- SomeLines
  Summaries <- SomeSummaries
  MaxWrites = 1
  MaxLines = 2
INVARIANT HugeLinesSkipped
