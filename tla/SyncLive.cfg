SPECIFICATION FairSpec
CONSTANTS
  Workers = {w1, w2}
  Accounts = {a1}
  RunIds = {r1, r2}
  Window = 1
  StaleAfter = 0
  RateLimits <- Limits
  MaxStart = 1
  MaxBooked = 0
  MaxTime = 2
  MaxCrashes = 1
PROPERTY StaleRunsEnd
