SPECIFICATION Spec
CONSTANTS
  Appends = {a1, a2}
  MaxAppendRetries = 2
  MaxTurns = 1
INVARIANT LoadsMostRecent
CHECK_DEADLOCK FALSE
