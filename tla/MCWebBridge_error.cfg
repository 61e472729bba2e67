SPECIFICATION FairSpec
CONSTANTS
  MaxTurns = 1
  MaxFrames = 0
  MaxData = 1
  FrameCap = 1
  ChanCap = 2
  MayTimeout = FALSE
PROPERTIES ErrorShown
CHECK_DEADLOCK FALSE
