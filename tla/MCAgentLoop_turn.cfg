SPECIFICATION FairSpec
CONSTANTS
  Tools = {qc, sql, nope}
  Connected = {qc, sql}
  FatalTools = {sql}
  HasMemory = TRUE
  Keys = {k1, k2}
  MaxIterations = 3
  MaxEmptyAnswerRetries = 1
  MaxToolRetries = 1
  MaxTurns = 1
  MaxCalls = 2
  MaxRefs = 2
INVARIANTS AnswerFaithful RequestWellFormed MemoryMatchesStream
PROPERTY TurnEnds
CHECK_DEADLOCK FALSE
