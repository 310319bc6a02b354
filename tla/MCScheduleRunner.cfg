SPECIFICATION Spec
CONSTANTS
  Schedules = {s1, s2}
  Exports = {s2}
  Replicas = {r1, r2}
  Users = {}
  Hourly = {}
  Daily = {2}
  Day = 3
  CLAIM_GRACE = 1
  CATCHUP_MAX_DELAY = 2
  LeaseTtl = 2
  MaxTime = 5
  MaxVersion = 2
  MaxEvents = 1
SYMMETRY Symmetry
INVARIANTS TypeOK ExclusiveRun ExclusiveExport
PROPERTY PlanMovesForward
CHECK_DEADLOCK FALSE
