SPECIFICATION ChatSpec
CONSTANTS
  MaxAttempts = 2
  RetryOn = {"transient", "timeout", "upstream"}
  Backoff = "exponential"
  InitialDelay = 1
  MaxDelay = 3
  Jitter = TRUE
  PerAttemptTimeout = 0
  TotalBudget = 2
  MaxClock = 2
  MaxEvents = 4
  MaxAnswers = 2
INVARIANTS WholeVoice ReplyTrue AnswerKept
PROPERTY RequestEnds
CHECK_DEADLOCK FALSE
