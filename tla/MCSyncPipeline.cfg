SPECIFICATION Spec
CONSTANTS
  Workers = {w1, w2}
  Accounts = {a1, a2}
  RunIds = {r1, r2}
  Window = 2
  StaleAfter = 0
  RateLimits <- NoLimits
  MaxBooked = 2
  MaxStart = 3
  MaxTime = 3
  MaxCrashes = 1
SYMMETRY Symmetry
INVARIANTS
  TypeOK
  CursorSound
  OverlapOnlyAfterRelease
  CompletedRunIsComplete
