SPECIFICATION FairSpec
CONSTANTS
  MaxTurns = 2
  MaxFrames = 2
  MaxData = 1
  FrameCap = 1
  ChanCap = 1
  MayTimeout = TRUE
INVARIANTS ScreenInOrder SessionThreaded NoMessageDropped AbandonedIsCancelled
PROPERTIES HandlerReturns CompleteShown
CHECK_DEADLOCK FALSE
