SPECIFICATION MCSpec
CONSTANTS
  w1 = w1
  w2 = w2
  Calls = {k1}
  Hooks = {1, 2}
  Matches <- AllMatch
  Retriers = {w1, w2}
  MaxAttempts = 3
  BaseDelay = 1
  BatchLimit = 2
  MaxCrashes = 1
INVARIANTS TypeOK PostsBounded
PROPERTIES DeliveredIsFinal BackoffKept EveryDeliverySettles
