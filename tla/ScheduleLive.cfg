SPECIFICATION FairSpec
CONSTANTS
  Schedules = {s2}
  Exports = {s2}
  Replicas = {r1}
  Users = {u1}
  Hourly = {1}
  Daily = {0}
  Day = 2
  CLAIM_GRACE = 1
  CATCHUP_MAX_DELAY = 2
  LeaseTtl = 2
  MaxTime = 5
  MaxVersion = 2
  MaxEvents = 1
PROPERTY DueIsServed
CHECK_DEADLOCK FALSE
