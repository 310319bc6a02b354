SPECIFICATION LimiterSpec
CONSTANTS
  Backends = {"redis", "local"}
  Procs = {p1, p2}
  Minute = 2
  MaxPerMin = 2
  MaxTime = 3
  MaxRestarts = 1
INVARIANT WindowBound
