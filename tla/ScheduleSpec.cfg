\* A day of six half hours and a week of three days; the third and fourth half
\* hour of the second day do not exist, those of the fourth day exist twice.
SPECIFICATION Spec
CONSTANTS
  Day = 6
  Week = 3
  SpringAt = 8
  FallAt = 20
  Shift = 2
  Times = {0, 2, 3, 5}
  DaySets = {{0, 1, 2}, {0, 1}, {1}, {0, 2}}
  Intervals = {2, 4, 6}
  CATCHUP_MAX_DELAY = 7
  PreviewCount = 4
  MaxTime = 32
  MaxEdits = 1
  Null = Null
INVARIANTS
  PlanIsFirst
  EveryDayOnce
  PreviewIsPlan
CHECK_DEADLOCK FALSE
