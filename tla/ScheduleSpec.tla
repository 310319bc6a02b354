---------------------------- MODULE ScheduleSpec ----------------------------
(***************************************************************************)
(* The recurrence arithmetic of sync/schedule_spec.py in a zone with a     *)
(* daylight saving time, and the life of one schedule that is planned with *)
(* it: runs on time and late, catch-ups that are given up, edits, and runs *)
(* on request.                                                             *)
(*                                                                         *)
(* An instant is a number of units since an arbitrary midnight (UTC), a    *)
(* wall time a number of units since the same midnight on the local clock, *)
(* which is `Shift' ahead from SpringAt until FallAt.                      *)
(***************************************************************************)
EXTENDS Integers, Sequences, FiniteSets

CONSTANTS
  Day, Week,          \* units in a day, days in a week
  SpringAt, FallAt,   \* the instants at which the offset changes
  Shift,              \* the change of the offset
  Times,              \* times of the day users may set
  DaySets,            \* sets of weekdays users may set; daily is the full set
  Intervals,          \* values of interval_hours, in units
  CATCHUP_MAX_DELAY,
  PreviewCount,       \* instants in a preview
  MaxTime,            \* bound on the clock
  MaxEdits,           \* bound on edits and requested runs
  Null

ASSUME SpecConstants ==
  /\ Day \in Nat \ {0} /\ Week \in Nat \ {0} /\ Shift \in 1 .. Day - 1
  /\ SpringAt \in Nat /\ FallAt \in Nat /\ SpringAt + Shift < FallAt
  /\ Times \subseteq 0 .. Day - 1
  /\ DaySets \subseteq (SUBSET (0 .. Week - 1)) \ {{}}
  /\ Intervals \subseteq Nat /\ \A n \in Intervals : n >= Shift
  /\ CATCHUP_MAX_DELAY \in Nat /\ PreviewCount \in Nat \ {0}
  /\ MaxTime \in Nat /\ MaxEdits \in Nat
  /\ Null \notin Int

VARIABLES
  now,
  spec,    \* the recurrence of the row
  next,    \* next_run_at
  from,    \* history: the instant `next' was computed from, Null for a request
  served,  \* history: the local days that were run since the plan last began
           \* anew, in order
  edits

vars == <<now, spec, next, from, served, edits>>

\* validate_schedule: weekdays and daily are weekly with a fixed set of days.
Specs == [frequency : {"hourly"}, interval : Intervals]
           \union [frequency : {"weekly"}, days : DaySets, time : Times]

-----------------------------------------------------------------------------
\* astimezone(zone) of an instant.
Local(u) == IF SpringAt <= u /\ u < FallAt THEN u + Shift ELSE u

\* astimezone(UTC) of a wall time with fold = 0: one that does not exist or
\* exists twice has the offset of before the change.
Utc(w) == IF SpringAt + Shift <= w /\ w < FallAt + Shift THEN w - Shift ELSE w

\* Fault: the steps are taken from the first instant on, in UTC.
HourlyInstantsUtc(interval, after, count) ==
  [i \in 1 .. count |-> Utc(Local(after) + interval) + (i - 1) * interval]

\* _next_hourly: steps on the local clock.
HourlyInstants(interval, after, count) ==
  [i \in 1 .. count |-> Utc(Local(after) + i * interval)]

DayOf(w) == w \div Day

\* Fault: an occurrence at `after' itself is found again.
CandidateDaysFrom(p, after, count) ==
  {d \in DayOf(Local(after)) .. DayOf(Local(after)) + Week * count :
     d % Week \in p.days /\ d * Day + p.time >= Local(after)}

\* The days that _next_daily_like looks at: the comparison of two datetimes of
\* one zone is that of their wall times.
CandidateDays(p, after, count) ==
  {d \in DayOf(Local(after)) .. DayOf(Local(after)) + Week * count :
     d % Week \in p.days /\ d * Day + p.time > Local(after)}

\* The loop goes from day to day.
Nth(S, i) == CHOOSE d \in S : Cardinality({e \in S : e < d}) = i - 1

DailyInstants(p, after, count) ==
  LET days == CandidateDays(p, after, count)
  IN  [i \in 1 .. count |-> Utc(Nth(days, i) * Day + p.time)]

\* next_run_instants
Instants(p, after, count) ==
  IF p.frequency = "hourly" THEN HourlyInstants(p.interval, after, count)
                            ELSE DailyInstants(p, after, count)

\* compute_next_run with count = 1.
NextRun(p, after) == Instants(p, after, 1)[1]

-----------------------------------------------------------------------------
\* The plan begins anew at instant t.
Replan(p, t) ==
  /\ spec' = p
  /\ next' = NextRun(p, t)
  /\ from' = t
  /\ served' = <<>>

Init ==
  /\ now \in 0 .. MaxTime
  /\ spec \in Specs
  /\ next = NextRun(spec, now)
  /\ from = now
  /\ served = <<>>
  /\ edits = 0

Late == now > next + CATCHUP_MAX_DELAY

\* Fault: planned from the time of the run.
AfterRunFromNow == now

\* The next run follows the occurrence that was due, not the time of the run.
AfterRun == next

\* The worker runs the occurrence that is due.
Run ==
  /\ next <= now /\ ~Late
  /\ next' = NextRun(spec, AfterRun)
  /\ from' = AfterRun
  /\ served' = IF from = Null THEN <<>> ELSE Append(served, DayOf(Local(next)))
  /\ UNCHANGED <<now, spec, edits>>

\* An occurrence that is too old is not caught up.
ResetNextRun ==
  /\ next <= now /\ Late
  /\ Replan(spec, now)
  /\ UNCHANGED <<now, edits>>

Edit(p) ==
  /\ edits < MaxEdits /\ p # spec
  /\ Replan(p, now)
  /\ edits' = edits + 1
  /\ UNCHANGED now

\* run_schedule_now
RunNow ==
  /\ edits < MaxEdits
  /\ next' = now /\ from' = Null /\ served' = <<>>
  /\ edits' = edits + 1
  /\ UNCHANGED <<now, spec>>

Tick ==
  /\ now < MaxTime
  /\ now' = now + 1
  /\ UNCHANGED <<spec, next, from, served, edits>>

Next == Run \/ ResetNextRun \/ RunNow \/ Tick \/ \E p \in Specs : Edit(p)

Spec == Init /\ [][Next]_vars

-----------------------------------------------------------------------------
\* The instants a recurrence stands for: one on each of its days.
Occurrences(p) ==
  {Utc(d * Day + p.time) : d \in {e \in 0 .. DayOf(MaxTime) + 2 * Week : e % Week \in p.days}}

\* The two spans of instants whose wall time misleads: after the clock was put
\* back, while it shows what it showed before; and as long after it was put
\* forward as the hour lasts that did not exist.
SecondPass(u) == FallAt <= u /\ u < FallAt + Shift
AfterGap(u) == SpringAt <= u /\ u < SpringAt + Shift

\* The wall times that do not exist.
MissingTime(w) == SpringAt <= w /\ w < SpringAt + Shift

\* The plan is the first occurrence after the instant it was made from.  An
\* interval is kept on the local clock: it is as much longer or shorter as the
\* clock was moved within it.  Only from the second pass of an hour a daily plan
\* may lie back, by less than the hour; and just after the gap it may leave out
\* the occurrence that the gap has put off.
PlanIsFirst ==
  from # Null =>
    IF spec.frequency = "hourly"
    THEN /\ from < next
         /\ \/ next = from + spec.interval
            \/ next = from + spec.interval + Shift /\ from < FallAt /\ FallAt <= next
            \/ next = from + spec.interval - Shift /\ from < SpringAt /\ SpringAt <= next
    ELSE /\ next \in Occurrences(spec)
         /\ \/ from < next /\ \A u \in Occurrences(spec) : u <= from \/ next <= u
            \/ SecondPass(from) /\ next < from /\ from < next + Shift
            \/ /\ AfterGap(from) /\ from < next
               /\ \A u \in Occurrences(spec) : u <= from \/ next <= u \/ u < SpringAt + Shift

\* However late the worker runs them, the occurrences of a plan are run once on
\* every day of the recurrence, in order, through both changes of the clock.
EveryDayOnce ==
  spec.frequency = "weekly" => \A i \in 1 .. Len(served) :
    /\ served[i] % Week \in spec.days
    /\ i > 1 => /\ served[i - 1] < served[i]
                /\ \A d \in served[i - 1] + 1 .. served[i] - 1 : d % Week \notin spec.days

\* What the worker plans run by run, from the instant of a preview.
Chain(p, after) ==
  LET step[i \in 0 .. PreviewCount] == IF i = 0 THEN after ELSE NextRun(p, step[i - 1])
  IN  [i \in 1 .. PreviewCount |-> step[i]]

\* The docstring of preview: it shows exactly what the scheduler will plan.  An
\* hourly step into the hour that does not exist is the exception: the preview
\* goes on from the wall time, the worker from the instant.
PreviewIsPlan ==
  \/ Instants(spec, now, PreviewCount) = Chain(spec, now)
  \/ /\ spec.frequency = "hourly"
     /\ \E u \in {now} \union {Chain(spec, now)[i] : i \in 1 .. PreviewCount - 1} :
          MissingTime(Local(u) + spec.interval)
=============================================================================
