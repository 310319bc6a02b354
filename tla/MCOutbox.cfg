CONSTANTS
  m1 = m1
  m2 = m2
  hOwn = hOwn
  hAny = hAny
  Messages = {m1, m2}
  Publishers = {p1, p2}
  Handlers = {hOwn, hAny}
  HandlersOf <- MCHandlersOf
  CLAIM_TIMEOUT = 1
  CreatedTimes = {1, 2}
  BatchSize = 2
  MaxCrashes = 1
SPECIFICATION FairSpec
INVARIANTS TypeOK ExclusiveClaim SentIsHandled
PROPERTIES VerdictNotWithdrawn EveryMessageSettles ImplementsContract
