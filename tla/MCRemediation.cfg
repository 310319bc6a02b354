\* One issue with two generations, two workers; a lease, the grace period and the
\* retention end with the next time step.
SPECIFICATION MCSpec
CONSTANTS
  i1 = i1
  w1 = w1
  w2 = w2
  NONE = NONE
  Issues = {i1}
  BridgeIssues = {i1}
  Workers = {w1, w2}
  Detectors = {d1}
  Generations = 1
  ClaimLimit = 2
  LeaseTime = 0
  MaxDelay = 1
  Grace = 0
  Retention = 0
  MaxVer = 2
  MaxEvents = 2
INVARIANTS
  TypeOK
  ProcessingIsLeased
  OutcomeIsCurrentClaims
PROPERTIES
  ResolvedIsNotOverwritten
  AbandonedIsReclaimed
