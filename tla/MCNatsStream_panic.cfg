SPECIFICATION Spec
CONSTANTS
  MaxEvents = 3
  ChanCap = 2
  Lossy = FALSE
  HasTimeout = TRUE
INVARIANT NoSendOnClosed
CHECK_DEADLOCK FALSE
