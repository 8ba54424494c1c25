\* Two demo chats, two attempts in two ticks, six calls, ticks or crashes.
SPECIFICATION Spec
CONSTANTS
  None = None
  Samples <- TwoSamples
  MaxAttempts = 2
  Window = 2
  SignalIgnored = FALSE
  MaxCalls = 6
INVARIANTS PairingHolds AttemptsBounded FlagIsMine SeededOnce
\* The hub rests when nobody calls.
CHECK_DEADLOCK FALSE
