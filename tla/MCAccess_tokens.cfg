SPECIFICATION AccessSpec
CONSTANTS
  Credentials = {s1, s2}
  Tokens = {t1, t2}
  TokenTTL = 1
  MaxAge = 2
  LastTick = 4
  Functions = {f, g}
  Callers = {c1}
  cacheTTL = 2
  requestTimeout = 1
  cacheMaxEntries = 1
SYMMETRY Symmetric
INVARIANTS TokenHonoured CredentialReleased RevocationBounded
CHECK_DEADLOCK FALSE
