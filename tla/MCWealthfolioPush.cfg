\* Two accounts of two transactions, the first of each older than the window;
\* chunks of one.
SPECIFICATION MCSpec
CONSTANTS
  a1 = a1
  a2 = a2
  w1 = w1
  w2 = w2
  NONE = NONE
  Accounts = {a1, a2}
  MaxPos = 2
  WindowStart = 2
  ChunkSize = 1
  Pushers = {w1, w2}
  MaxRuns = 3
  MaxEvents = 2
  Mentions <- MCMentions
INVARIANTS
  TypeOK
  CompletedIsDelivered
PROPERTIES
  RunRowEnds
  DeliveredInTheEnd
