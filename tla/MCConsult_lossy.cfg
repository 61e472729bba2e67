SPECIFICATION ConsultSpec
CONSTANTS
  MaxEvents = 3
  ChanCap = 1
  Lossy = TRUE
  HasTimeout = TRUE
INVARIANTS HearsPrefix SerializedDelivery VerdictTrue
PROPERTIES EventsClose TerminatorHeard ConsultReturns AbstractSpec
CHECK_DEADLOCK FALSE
