SPECIFICATION Spec
CONSTANTS
  MaxAttempts = 3
  RetryOn = {"transient", "timeout"}
  Backoff = "exponential"
  InitialDelay = 1
  MaxDelay = 3
  Jitter = TRUE
  PerAttemptTimeout = 2
  TotalBudget = 0
  MaxClock = 10
INVARIANT OneVoice
CHECK_DEADLOCK FALSE
