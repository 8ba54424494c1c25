\* A demo reply of two words; four events of another adapter.
SPECIFICATION Spec
CONSTANTS
  None = None
  Tools <- SomeTools
  Words = 2
  ChanCap = 2
  MaxEvents = 4
INVARIANTS SavedIsSaid CardsSound
PROPERTY DemoIsStream
\* The reply is saved.
CHECK_DEADLOCK FALSE
