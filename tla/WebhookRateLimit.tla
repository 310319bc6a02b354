-------------------------- MODULE WebhookRateLimit --------------------------
(***************************************************************************)
(* The limiter of webhook deliveries for one webhook: a Redis counter per  *)
(* calendar minute shared by all worker processes, and, whenever Redis     *)
(* fails or is not configured, a sliding window in each process's memory.  *)
(* The clock is the unit of both; time.time and time.monotonic advance     *)
(* together.  A delivery is dated by the clock that its check read: the    *)
(* INCR is awaited after that and counts for the minute of the reading.    *)
(***************************************************************************)
EXTENDS Naturals, FiniteSets

CONSTANTS
  Backends,    \* "redis" if redis_url is set, "local" if it is not or calls may fail
  Procs,       \* worker and API processes, each with its _rate_limiter
  Minute,      \* 60 seconds: the bucket and the window
  MaxPerMin,   \* rate_limit_max_per_minute
  MaxTime,     \* bound: instants 0 .. MaxTime
  MaxRestarts  \* bound on process restarts

ASSUME RateLimitConstants ==
  /\ Backends \subseteq {"redis", "local"}
  /\ IsFiniteSet(Procs) /\ \A p \in Procs : p \notin Nat
  /\ Minute \in Nat \ {0}
  /\ MaxPerMin \in Nat
  /\ MaxTime \in Nat /\ MaxRestarts \in Nat

VARIABLES
  now,       \* the clock
  count,     \* the counter of the current minute's key in Redis
  windows,   \* windows[p]: the deliveries whose time stamps p keeps
  restarts,  \* number of process restarts so far
  life,      \* history: life[p], p itself or the restart that p runs since
  passed     \* history: the deliveries that were let pass

limiterVars == <<now, count, windows, restarts, life, passed>>

Times == 0 .. MaxTime

\* by: the life whose window let it pass, {} if it was Redis; no: how many that
\* limiter then counted, which tells the deliveries of one instant apart.
Delivery(by, no) == [at |-> now, by |-> by, no |-> no]

LimiterInit ==
  /\ now = 0
  /\ count = 0
  /\ windows = [p \in Procs |-> {}]
  /\ restarts = 0
  /\ life = [p \in Procs |-> p]
  /\ passed = {}

\* Fault: the test is made before the delivery is counted.
RedisAllowsOneMore == count <= MaxPerMin

\* INCR, then count <= rate_limit_max_per_minute.
RedisAllows == count + 1 <= MaxPerMin

\* The prune of is_allowed: t > now - window.
Recent(p) == {d \in windows[p] : d.at + Minute > now}

\* The shared counter decides.  Once it has passed the limit it is kept there:
\* more refusals change nothing.
AskRedis(p) ==
  /\ "redis" \in Backends
  /\ count <= MaxPerMin
  /\ count' = count + 1
  /\ passed' = IF RedisAllows THEN passed \union {Delivery({}, count + 1)} ELSE passed
  /\ UNCHANGED <<now, windows, restarts, life>>

\* Redis is absent or raises, perhaps after INCR has counted the delivery: the
\* process's own window decides.
AskLocal(p) ==
  /\ "local" \in Backends
  /\ count' \in {count, IF count > MaxPerMin THEN count ELSE count + 1}
  /\ LET n == Cardinality(Recent(p))
         d == Delivery({life[p]}, n + 1)
     IN IF n >= MaxPerMin
        THEN /\ windows' = [windows EXCEPT ![p] = Recent(p)]
             /\ UNCHANGED passed
        ELSE /\ windows' = [windows EXCEPT ![p] = Recent(p) \union {d}]
             /\ passed' = passed \union {d}
  /\ UNCHANGED <<now, restarts, life>>

\* "Not persisted across restarts".
Restart(p) ==
  /\ restarts < MaxRestarts
  /\ windows' = [windows EXCEPT ![p] = {}]
  /\ restarts' = restarts + 1
  /\ life' = [life EXCEPT ![p] = restarts + 1]
  /\ UNCHANGED <<now, count, passed>>

\* The next minute has a key of its own.
NextInstant ==
  /\ now < MaxTime
  /\ now' = now + 1
  /\ count' = IF (now + 1) \div Minute = now \div Minute THEN count ELSE 0
  /\ UNCHANGED <<windows, restarts, life, passed>>

LimiterNext ==
  \/ \E p \in Procs : AskRedis(p) \/ AskLocal(p) \/ Restart(p)
  \/ NextInstant

LimiterSpec == LimiterInit /\ [][LimiterNext]_limiterVars

-----------------------------------------------------------------------------
\* The instants of the 60-second window that ends at t.
WindowOf(t) == {u \in Times : u <= t /\ u + Minute > t}

PassedIn(S) == {d \in passed : d.at \in S}

\* What the two limiters together guarantee although Redis comes and goes: any
\* 60-second window sees at most two minutes' allowances of the shared counter
\* and one for each process and each restart.
WindowBound ==
  \A t \in Times :
    Cardinality(PassedIn(WindowOf(t))) <= MaxPerMin * (2 + Cardinality(Procs) + restarts)

=============================================================================
