SPECIFICATION MemoriesSpec
CONSTANTS
  Appends = {a1, a2, a3, a4}
  DynamoAppends = {a1, a2}
  DynamoTurns = 1
  MaxAppendRetries = 2
  MaxTurns = 2
  Writers = {w1, w2}
  TTL = 2
  MaxSkew = 1
  MaxClock = 3
INVARIANTS TurnsWhole LoadsWhole ChatOrder BootedReady
PROPERTIES AppendEnds ImplementsMemory
CHECK_DEADLOCK FALSE
