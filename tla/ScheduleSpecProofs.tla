------------------------- MODULE ScheduleSpecProofs -------------------------
(***************************************************************************)
(* The recurrence arithmetic for every length of day and week, every zone  *)
(* that moves its clock forward and back, and every set of days and times. *)
(***************************************************************************)
EXTENDS ScheduleSpec, TLAPS, FiniteSetTheorems, WellFoundedInduction

\* The first day that _next_daily_like finds, and the wall time on a day.
FirstDay(p, after) == Nth(CandidateDays(p, after, 1), 1)
Wall(p, d) == d * Day + p.time
Matches(p, d) == d % Week \in p.days

-----------------------------------------------------------------------------
(* Numbers.                                                                *)

\* Every set of naturals that is not empty has a least element.
LEMMA LeastNumber ==
  ASSUME NEW T \in SUBSET Nat, T # {}
  PROVE  \E n \in T : \A m \in T : n <= m
<1>1. PICK n \in T : \A m \in T : ~(<<m, n>> \in OpToRel(<, Nat))
  BY NatLessThanWellFounded, WFMin, Zenon
<1>2. \A m \in T : ~(m < n) BY <1>1, Zenon DEF OpToRel
<1>3. \A m \in T : n <= m BY <1>2
<1> QED BY <1>3

\* The constants, as the arithmetic uses them.
LEMMA Constants ==
  /\ Day \in Nat /\ Day > 0 /\ Week \in Nat /\ Week > 0
  /\ Shift \in Nat /\ Shift > 0 /\ Shift < Day
  /\ SpringAt \in Nat /\ FallAt \in Nat /\ SpringAt + Shift < FallAt
  /\ MaxTime \in Nat
BY SpecConstants

\* A wall time lies on its day.
LEMMA OnDay ==
  ASSUME NEW w \in Int
  PROVE  /\ DayOf(w) \in Int /\ DayOf(w) * Day \in Int
         /\ DayOf(w) * Day <= w /\ w < DayOf(w) * Day + Day
BY Constants DEF DayOf

\* One day is a day later than the other.
LEMMA DayApart ==
  ASSUME NEW d \in Int, NEW e \in Int, d < e
  PROVE  d * Day \in Int /\ e * Day \in Int /\ d * Day + Day <= e * Day
BY Constants

\* The day of a time within it.
LEMMA DayIs ==
  ASSUME NEW d \in Int, NEW t \in 0 .. Day - 1
  PROVE  DayOf(d * Day + t) = d /\ d * Day + t \in Int
BY Constants DEF DayOf

\* Within a week of any day there is one of each weekday.
LEMMA WeekdayComes ==
  ASSUME NEW d \in Int, NEW r \in 0 .. Week - 1
  PROVE  \E e \in d + 1 .. d + Week : e % Week = r
<1> DEFINE q == (d + Week - r) \div Week
           e == Week * q + r
<1>1. q \in Int /\ Week * q \in Int /\ Week * q <= d + Week - r /\ d + Week - r < Week * q + Week
  BY Constants
<1> HIDE DEF q
<1>2. e \in d + 1 .. d + Week BY <1>1, Constants
<1>3. e % Week = r BY <1>1, Constants
<1> QED BY <1>2, <1>3

-----------------------------------------------------------------------------
(* Recurrences.                                                            *)

\* What validate_schedule lets through.
LEMMA HourlySpec ==
  ASSUME NEW p \in Specs, p.frequency = "hourly"
  PROVE  p.interval \in Nat /\ p.interval >= Shift
<1>1. p.interval \in Intervals BY DEF Specs
<1> QED BY <1>1, SpecConstants

\* A schedule that is not hourly has days and a time.
LEMMA WeeklySpec ==
  ASSUME NEW p \in Specs, p.frequency # "hourly"
  PROVE  /\ p.frequency = "weekly" /\ p.time \in 0 .. Day - 1
         /\ p.days \subseteq 0 .. Week - 1 /\ p.days # {}
<1>1. p.frequency = "weekly" /\ p.days \in DaySets /\ p.time \in Times BY DEF Specs
<1> QED BY <1>1, SpecConstants

\* The local clock and its inverse.
LEMMA Clock ==
  /\ \A u \in Nat : Local(u) \in Nat /\ u <= Local(u) /\ Local(u) <= u + Shift
  /\ \A w \in Nat : Utc(w) \in Nat /\ Utc(w) <= w /\ w <= Utc(w) + Shift
BY Constants DEF Local, Utc

\* The first of a set of days is the least, if the set has one.
LEMMA FirstIsLeast ==
  ASSUME NEW a \in Nat, NEW b \in Nat, NEW S \in SUBSET (a .. b), S # {}
  PROVE  Nth(S, 1) \in S /\ \A e \in S : Nth(S, 1) <= e
<1>1. S \in SUBSET Nat /\ IsFiniteSet(S)
  <2>1. IsFiniteSet(a .. b) BY FS_Interval
  <2>2. IsFiniteSet(S) BY <2>1, FS_Subset, Zenon
  <2>3. S \in SUBSET Nat OBVIOUS
  <2> QED BY <2>2, <2>3
<1>2. PICK n \in S : \A m \in S : n <= m BY <1>1, LeastNumber
<1>3. {e \in S : e < n} = {}
  <2>1. \A e \in S : ~(e < n) BY <1>1, <1>2
  <2> QED BY <2>1, Zenon
<1>4. Cardinality({e \in S : e < n}) = 1 - 1 BY <1>3, FS_EmptySet
<1>5. Nth(S, 1) \in S /\ Cardinality({e \in S : e < Nth(S, 1)}) = 1 - 1
  BY <1>4, Zenon DEF Nth
<1>6. IsFiniteSet({e \in S : e < Nth(S, 1)}) BY <1>1, FS_Subset
<1>7. {e \in S : e < Nth(S, 1)} = {} BY <1>5, <1>6, FS_EmptySet
<1>8. \A e \in S : ~(e < Nth(S, 1)) BY <1>7, Zenon
<1>9. \A e \in S : Nth(S, 1) <= e
  <2> DEFINE n1 == Nth(S, 1)
  <2>1. n1 \in Nat BY <1>1, <1>5
  <2>2. \A e \in S : ~(e < n1) BY <1>8
  <2> HIDE DEF n1
  <2>3. \A e \in S : n1 <= e BY <1>1, <2>1, <2>2
  <2> QED BY <2>3 DEF n1
<1> QED BY <1>5, <1>9

\* _next_daily_like finds the first day of the recurrence whose wall time is
\* after the one it is asked for: its bound on the days leaves none out.
LEMMA FirstDayIs ==
  ASSUME NEW p \in Specs, p.frequency = "weekly", NEW after \in Nat
  PROVE  /\ FirstDay(p, after) \in Nat
         /\ DayOf(Local(after)) <= FirstDay(p, after)
         /\ FirstDay(p, after) <= DayOf(Local(after)) + Week
         /\ Matches(p, FirstDay(p, after))
         /\ Wall(p, FirstDay(p, after)) > Local(after)
         /\ \A e \in Int : Matches(p, e) /\ Wall(p, e) > Local(after) => FirstDay(p, after) <= e
<1> DEFINE L == Local(after)
           D == DayOf(L)
           S == CandidateDays(p, after, 1)
<1>1. p.time \in 0 .. Day - 1 /\ p.days \subseteq 0 .. Week - 1 /\ p.days # {} BY WeeklySpec
<1>2. L \in Nat BY Clock
<1>3. D \in Nat /\ D * Day \in Int /\ D * Day <= L /\ L < D * Day + Day
  BY <1>2, Constants, OnDay DEF DayOf
<1>4. \A d : d \in S <=> d \in D .. D + Week /\ Matches(p, d) /\ Wall(p, d) > L
  BY <1>3, Constants DEF CandidateDays, Matches, Wall
<1> HIDE DEF L, D, S
<1>5. S # {}
  <2>1. PICK r \in p.days : TRUE BY <1>1
  <2>2. PICK e \in D + 1 .. D + Week : e % Week = r BY <1>1, <1>3, <2>1, WeekdayComes
  <2>3. e \in Int /\ D < e /\ e \in D .. D + Week BY <1>3, <2>2, Constants
  <2>4. D * Day + Day <= e * Day /\ e * Day \in Int BY <1>3, <2>3, DayApart
  <2>5. Wall(p, e) > L BY <1>1, <1>2, <1>3, <2>4, Constants DEF Wall
  <2> QED BY <1>4, <2>1, <2>2, <2>3, <2>5 DEF Matches
<1>6. D + Week \in Nat /\ S \in SUBSET (D .. D + Week) BY <1>3, <1>4, Constants
<1>7. Nth(S, 1) \in S /\ \A e \in S : Nth(S, 1) <= e BY <1>3, <1>5, <1>6, FirstIsLeast
<1>8. FirstDay(p, after) = Nth(S, 1) BY DEF FirstDay, S
<1>9. ASSUME NEW e \in Int, Matches(p, e), Wall(p, e) > L PROVE Nth(S, 1) <= e
  <2>1. CASE e < D
    <3>1. e * Day + Day <= D * Day /\ e * Day \in Int BY <1>3, <2>1, DayApart
    <3> QED BY <1>1, <1>2, <1>3, <1>9, <3>1, Constants DEF Wall
  <2>2. CASE e > D + Week BY <1>3, <1>4, <1>7, <2>2, Constants
  <2>3. CASE e \in D .. D + Week BY <1>4, <1>7, <1>9, <2>3
  <2> QED BY <1>3, <2>1, <2>2, <2>3, Constants
<1>10. Nth(S, 1) \in D .. D + Week /\ Matches(p, Nth(S, 1)) /\ Wall(p, Nth(S, 1)) > L
  BY <1>4, <1>7
<1> QED BY <1>3, <1>8, <1>9, <1>10, Constants DEF L, D

\* compute_next_run, written out.
LEMMA NextRunHourly ==
  ASSUME NEW p, p.frequency = "hourly", NEW after \in Nat
  PROVE  NextRun(p, after) = Utc(Local(after) + 1 * p.interval)
BY DEF NextRun, Instants, HourlyInstants

\* compute_next_run, written out.
LEMMA NextRunWeekly ==
  ASSUME NEW p, p.frequency = "weekly", NEW after \in Nat
  PROVE  NextRun(p, after) = Utc(Wall(p, FirstDay(p, after)))
BY DEF NextRun, Instants, DailyInstants, FirstDay, Wall

-----------------------------------------------------------------------------
(* The first occurrence.                                                   *)

\* The wall time of an occurrence is a natural number.
LEMMA WallType ==
  ASSUME NEW p \in Specs, p.frequency = "weekly", NEW d \in Nat
  PROVE  Wall(p, d) \in Nat /\ d * Day <= Wall(p, d) /\ Wall(p, d) < d * Day + Day
         /\ d * Day \in Nat
<1>1. p.time \in 0 .. Day - 1 BY WeeklySpec
<1>2. d * Day \in Nat BY Constants
<1> QED BY <1>1, <1>2, Constants DEF Wall

\* A plan is an instant.
LEMMA NextRunType ==
  ASSUME NEW p \in Specs, NEW after \in Nat
  PROVE  NextRun(p, after) \in Nat
<1>1. CASE p.frequency = "hourly"
  <2>1. p.interval \in Nat /\ Local(after) \in Nat BY <1>1, HourlySpec, Clock
  <2>2. Local(after) + 1 * p.interval \in Nat BY <2>1
  <2> QED BY <1>1, <2>2, Clock, NextRunHourly
<1>2. CASE p.frequency # "hourly"
  <2>1. p.frequency = "weekly" BY <1>2, WeeklySpec
  <2>2. FirstDay(p, after) \in Nat BY <2>1, FirstDayIs
  <2>3. Wall(p, FirstDay(p, after)) \in Nat BY <2>1, <2>2, WallType
  <2> QED BY <2>1, <2>3, Clock, NextRunWeekly
<1> QED BY <1>1, <1>2

\* What PlanIsFirst says of a plan n that was made for p from f.
FirstHourly(p, f, n) ==
  /\ f < n
  /\ \/ n = f + p.interval
     \/ n = f + p.interval + Shift /\ f < FallAt /\ FallAt <= n
     \/ n = f + p.interval - Shift /\ f < SpringAt /\ SpringAt <= n

FirstWeekly(p, f, n) ==
  /\ n \in Occurrences(p)
  /\ \/ f < n /\ \A u \in Occurrences(p) : u <= f \/ n <= u
     \/ SecondPass(f) /\ n < f /\ f < n + Shift
     \/ /\ AfterGap(f) /\ f < n
        /\ \A u \in Occurrences(p) : u <= f \/ n <= u \/ u < SpringAt + Shift

\* An interval is kept on the local clock.
LEMMA HourlyPlan ==
  ASSUME NEW p \in Specs, p.frequency = "hourly", NEW f \in Nat
  PROVE  FirstHourly(p, f, NextRun(p, f))
<1> DEFINE n == NextRun(p, f)
           k == p.interval
<1>1. k \in Nat /\ k >= Shift BY HourlySpec
<1>2. n = Utc(Local(f) + k) BY <1>1, NextRunHourly
<1> SUFFICES FirstHourly(p, f, n) OBVIOUS
<1> HIDE DEF n, k
<1>3. CASE f < SpringAt BY <1>1, <1>2, <1>3, Constants DEF FirstHourly, Local, Utc, k
<1>4. CASE SpringAt <= f /\ f < FallAt BY <1>1, <1>2, <1>4, Constants DEF FirstHourly, Local, Utc, k
<1>5. CASE FallAt <= f BY <1>1, <1>2, <1>5, Constants DEF FirstHourly, Local, Utc, k
<1> QED BY <1>3, <1>4, <1>5, Constants

\* Occurrences are put in order by their days.
LEMMA DaysInOrder ==
  ASSUME NEW p \in Specs, p.frequency = "weekly", NEW d \in Nat, NEW e \in Nat, d <= e
  PROVE  Utc(Wall(p, d)) <= Utc(Wall(p, e))
<1>1. Wall(p, d) \in Nat /\ Wall(p, e) \in Nat BY WallType
<1>2. CASE d = e BY <1>1, <1>2, Clock
<1>3. CASE d < e
  <2>1. p.time \in 0 .. Day - 1 BY WeeklySpec
  <2>2. d * Day \in Int /\ e * Day \in Int /\ d * Day + Day <= e * Day BY <1>3, DayApart
  <2>3. Wall(p, d) + Shift <= Wall(p, e) BY <2>1, <2>2, Constants DEF Wall
  <2> QED BY <1>1, <2>3, Clock, Constants
<1> QED BY <1>2, <1>3

\* A plan of days is the first occurrence, save in the two spans.
LEMMA WeeklyPlan ==
  ASSUME NEW p \in Specs, p.frequency = "weekly", NEW f \in 0 .. MaxTime
  PROVE  FirstWeekly(p, f, NextRun(p, f))
<1> DEFINE d == FirstDay(p, f)
           w == Wall(p, d)
           n == NextRun(p, f)
           L == Local(f)
<1>1. f \in Nat BY Constants
<1>2. /\ d \in Nat /\ d <= DayOf(L) + Week /\ Matches(p, d) /\ w > L
      /\ \A e \in Int : Matches(p, e) /\ Wall(p, e) > L => d <= e
  BY <1>1, FirstDayIs
<1>3. w \in Nat BY <1>2, WallType
<1>4. n = Utc(w) BY <1>1, NextRunWeekly
<1>5. L \in Nat BY <1>1, Clock
<1>6. n \in Occurrences(p)
  <2>1. L <= MaxTime + Day BY <1>1, <1>5, Clock, Constants
  <2>2. DayOf(L) <= DayOf(MaxTime) + 1
    <3> DEFINE D == DayOf(L)
               M == DayOf(MaxTime)
    <3>1. D \in Int /\ D * Day \in Int /\ D * Day <= L BY <1>5, OnDay
    <3>2. M \in Int /\ M * Day \in Int /\ MaxTime < M * Day + Day BY Constants, OnDay
    <3>3. (M + 1) * Day = M * Day + Day BY <3>2, Constants
    <3> HIDE DEF D, M
    <3>4. ASSUME M + 1 < D PROVE FALSE
      <4>1. (M + 1) * Day + Day <= D * Day BY <3>1, <3>2, <3>4, DayApart
      <4> QED BY <1>5, <2>1, <3>1, <3>2, <3>3, <4>1, Constants
    <3>5. D <= M + 1 BY <3>1, <3>2, <3>4
    <3> QED BY <3>5 DEF D, M
  <2>3. DayOf(L) \in Int /\ DayOf(MaxTime) \in Int BY <1>5, OnDay, Constants
  <2>4. d \in 0 .. DayOf(MaxTime) + 2 * Week BY <1>2, <2>2, <2>3, Constants
  <2> QED BY <1>2, <1>4, <2>4, Zenon DEF Occurrences, Wall, Matches
<1>7. ASSUME NEW u \in Occurrences(p)
      PROVE  \E x \in Nat : u = Utc(x) /\ (x > L => n <= u)
  <2>1. PICK e \in 0 .. DayOf(MaxTime) + 2 * Week : Matches(p, e) /\ u = Utc(Wall(p, e))
    BY <1>7 DEF Occurrences, Wall, Matches
  <2>2. e \in Nat BY <2>1
  <2>3. Wall(p, e) \in Nat BY <2>2, WallType
  <2>4. Wall(p, e) > L => n <= u
    <3>1. HAVE Wall(p, e) > L
    <3>2. d <= e BY <1>2, <2>1, <2>2, <3>1
    <3> QED BY <1>2, <1>4, <2>1, <2>2, <3>2, DaysInOrder
  <2> QED BY <2>1, <2>3, <2>4
<1>8. Utc(w) \in Nat /\ \A u \in Occurrences(p) : u \in Nat BY <1>3, <1>7, Clock
<1> HIDE DEF d, w, n, L
<1>9. CASE f < SpringAt
  <2>1. L = f BY <1>1, <1>9, Constants DEF L, Local
  <2>2. f < n BY <1>1, <1>2, <1>3, <1>4, <1>9, <2>1, Constants DEF Utc
  <2>3. ASSUME NEW u \in Occurrences(p) PROVE u <= f \/ n <= u
    <3>1. PICK x \in Nat : u = Utc(x) /\ (x > L => n <= u) BY <1>7
    <3> QED BY <1>1, <2>1, <3>1, Clock, Constants
  <2> QED BY <1>6, <2>2, <2>3 DEF FirstWeekly, n
<1>10. CASE SpringAt <= f /\ f < FallAt
  <2>1. L = f + Shift BY <1>1, <1>10, Constants DEF L, Local
  <2>2. f < n BY <1>1, <1>2, <1>3, <1>4, <1>10, <2>1, Constants DEF Utc
  <2>3. ASSUME NEW u \in Occurrences(p) PROVE u <= f \/ n <= u \/ (u < SpringAt + Shift /\ AfterGap(f))
    <3>1. PICK x \in Nat : u = Utc(x) /\ (x > L => n <= u) BY <1>7
    <3>2. CASE x > L BY <3>1, <3>2
    <3>3. CASE x <= L BY <1>1, <1>10, <2>1, <3>1, <3>3, Constants DEF Utc, AfterGap
    <3> QED BY <1>5, <3>2, <3>3
  <2> QED BY <1>6, <2>2, <2>3 DEF FirstWeekly, n
<1>11. CASE FallAt <= f
  <2>1. L = f BY <1>1, <1>11, Constants DEF L, Local
  <2>2. CASE w >= FallAt + Shift
    <3>1. n = w /\ f < n BY <1>1, <1>2, <1>3, <1>4, <2>1, <2>2, Constants DEF Utc
    <3>2. ASSUME NEW u \in Occurrences(p) PROVE u <= f \/ n <= u
      <4>1. PICK x \in Nat : u = Utc(x) /\ (x > L => n <= u) BY <1>7
      <4> QED BY <1>1, <2>1, <4>1, Clock, Constants
    <3> QED BY <1>6, <3>1, <3>2 DEF FirstWeekly, n
  <2>3. CASE w < FallAt + Shift
    <3>1. n = w - Shift BY <1>1, <1>2, <1>3, <1>4, <1>11, <2>1, <2>3, Constants DEF Utc
    <3>2. SecondPass(f) /\ n < f /\ f < n + Shift
      BY <1>1, <1>2, <1>3, <1>11, <2>1, <2>3, <3>1, Constants DEF SecondPass
    <3> QED BY <1>6, <3>2 DEF FirstWeekly, n
  <2> QED BY <1>3, <2>2, <2>3, Constants
<1> QED BY <1>1, <1>9, <1>10, <1>11, Constants

-----------------------------------------------------------------------------
(* The days that are run.                                                  *)

\* The hour that does not exist, and the one into which its times are put off,
\* are on one day.  It is so in every zone that does not move its clock
\* forward in the last two hours of a day.
GapWithinDay == DayOf(SpringAt) = DayOf(SpringAt + 2 * Shift - 1)

\* Day e is the next of the recurrence after day d.
Follows(p, d, e) ==
  /\ d < e /\ Matches(p, e)
  /\ \A x \in d + 1 .. e - 1 : ~Matches(p, x)

\* A wall time comes back from UTC as it was, or put off if it does not exist.
LEMMA BackFromUtc ==
  ASSUME NEW w \in Nat
  PROVE  /\ ~MissingTime(w) => Local(Utc(w)) = w
         /\ MissingTime(w) => Local(Utc(w)) = w + Shift
BY Constants DEF MissingTime, Local, Utc

\* The plan after a run is for the next day of the recurrence.
LEMMA NextDayFollows ==
  ASSUME NEW p \in Specs, p.frequency = "weekly", NEW d \in Nat
  PROVE  Follows(p, d, FirstDay(p, Utc(Wall(p, d)))) /\ FirstDay(p, Utc(Wall(p, d))) \in Nat
<1> DEFINE w == Wall(p, d)
           n == Utc(w)
           L == Local(n)
           e == FirstDay(p, n)
<1>1. p.time \in 0 .. Day - 1 BY WeeklySpec
<1>2. w \in Nat /\ d * Day \in Nat BY WallType
<1>3. n \in Nat BY <1>2, Clock
<1>4. w <= L /\ L < w + Day /\ L \in Nat BY <1>2, BackFromUtc, Constants
<1>5. w = d * Day + p.time BY DEF Wall
<1>6. /\ e \in Nat /\ Matches(p, e) /\ Wall(p, e) > L
      /\ \A x \in Int : Matches(p, x) /\ Wall(p, x) > L => e <= x
  BY <1>3, FirstDayIs
<1> HIDE DEF w, n, L, e
<1>7. d < e
  <2>1. ASSUME e < d PROVE FALSE
    <3>1. e * Day + Day <= d * Day /\ e * Day \in Int BY <1>6, <2>1, DayApart
    <3>2. Wall(p, e) = e * Day + p.time BY DEF Wall
    <3>3. Wall(p, e) < w BY <1>1, <1>2, <1>5, <3>1, <3>2, Constants
    <3>4. Wall(p, e) \in Int BY <1>1, <3>1, <3>2
    <3> QED BY <1>2, <1>4, <1>6, <3>3, <3>4
  <2>2. ASSUME e = d PROVE FALSE
    <3>1. Wall(p, e) = w BY <2>2 DEF w
    <3> QED BY <1>2, <1>4, <1>6, <3>1
  <2> QED BY <1>6, <2>1, <2>2
<1>8. ASSUME NEW x \in d + 1 .. e - 1 PROVE ~Matches(p, x)
  <2>1. x \in Int /\ d < x /\ x < e BY <1>6, <1>8
  <2>2. d * Day + Day <= x * Day /\ x * Day \in Int BY <2>1, DayApart
  <2>3. Wall(p, x) > L BY <1>1, <1>2, <1>4, <1>5, <2>2, Constants DEF Wall
  <2> QED BY <1>6, <2>1, <2>3
<1> QED BY <1>6, <1>7, <1>8 DEF Follows, n, w, e

\* The run is on its day: a time that does not exist is put off within the day.
LEMMA RunOnItsDay ==
  ASSUME GapWithinDay, NEW p \in Specs, p.frequency = "weekly", NEW d \in Nat
  PROVE  DayOf(Local(Utc(Wall(p, d)))) = d
<1> DEFINE w == Wall(p, d)
           L == Local(Utc(w))
<1>1. w \in Nat /\ d * Day <= w /\ w < d * Day + Day /\ d * Day \in Nat BY WallType
<1>2. w <= L /\ L < d * Day + Day /\ L \in Nat
  <2>1. CASE ~MissingTime(w)
    <3>1. L = w BY <1>1, <2>1, BackFromUtc
    <3> QED BY <1>1, <3>1
  <2>2. CASE MissingTime(w)
    <3>1. L = w + Shift BY <1>1, <2>2, BackFromUtc
    <3> DEFINE D == DayOf(SpringAt)
    <3>2. D \in Int /\ D * Day \in Int /\ D * Day <= SpringAt BY Constants, OnDay
    <3>3. SpringAt + 2 * Shift - 1 < D * Day + Day
      BY Constants, OnDay DEF GapWithinDay
    <3> HIDE DEF D
    <3>4. D * Day <= w /\ w + Shift < D * Day + Day
      BY <1>1, <2>2, <3>2, <3>3, Constants DEF MissingTime
    <3>5. ~(D < d)
      <4>1. ASSUME D < d PROVE D * Day + Day <= d * Day BY <3>2, <4>1, DayApart
      <4> QED BY <1>1, <3>2, <3>4, <4>1, Constants
    <3>6. ~(d < D)
      <4>1. ASSUME d < D PROVE d * Day + Day <= D * Day BY <3>2, <4>1, DayApart
      <4> QED BY <1>1, <3>2, <3>4, <4>1, Constants
    <3>7. D = d BY <3>2, <3>5, <3>6
    <3> QED BY <1>1, <3>1, <3>4, <3>7, Constants
  <2> QED BY <2>1, <2>2
<1> HIDE DEF w, L
<1>3. L - d * Day \in 0 .. Day - 1 /\ d * Day + (L - d * Day) = L BY <1>1, <1>2, Constants
<1>4. DayOf(L) = d BY <1>3, DayIs
<1> QED BY <1>4 DEF L, w

-----------------------------------------------------------------------------
(* The plan of a schedule.                                                 *)

\* The plan was made from the instant `from'.
PlanInv ==
  /\ now \in 0 .. MaxTime /\ spec \in Specs /\ next \in Nat
  /\ served \in Seq(Nat)
  /\ from # Null => from \in 0 .. MaxTime /\ next = NextRun(spec, from)

\* A new plan from an instant that has come.
LEMMA Planned ==
  ASSUME NEW p \in Specs, NEW t \in 0 .. MaxTime
  PROVE  NextRun(p, t) \in Nat
<1>1. t \in Nat BY Constants
<1> QED BY <1>1, NextRunType

\* Every behaviour keeps it.
LEMMA PlanInductive == Spec => []PlanInv
<1>1. Init => PlanInv
  BY Planned DEF Init, PlanInv
<1>2. PlanInv /\ [Next]_vars => PlanInv'
  <2> SUFFICES ASSUME PlanInv, [Next]_vars PROVE PlanInv' OBVIOUS
  <2>1. CASE Run
    <3>1. next \in 0 .. MaxTime BY <2>1, Constants DEF Run, PlanInv
    <3>2. next' = NextRun(spec, next) /\ from' = next /\ UNCHANGED <<now, spec>>
      BY <2>1 DEF Run, AfterRun
    <3>3. next' \in Nat BY <3>1, <3>2, Planned DEF PlanInv
    <3>4. served' \in Seq(Nat)
      <4>1. DayOf(Local(next)) \in Nat
        <5>1. Local(next) \in Nat BY Clock DEF PlanInv
        <5> QED BY <5>1, Constants DEF DayOf
      <4>2. served \in Seq(Nat) BY DEF PlanInv
      <4> QED BY <2>1, <4>1, <4>2 DEF Run
    <3> QED BY <3>1, <3>2, <3>3, <3>4 DEF PlanInv
  <2>2. ASSUME NEW p \in Specs, Replan(p, now), UNCHANGED now PROVE PlanInv'
    BY <2>2, Planned DEF Replan, PlanInv
  <2>3. CASE ResetNextRun BY <2>2, <2>3 DEF ResetNextRun, PlanInv
  <2>4. CASE RunNow BY <2>4, Constants DEF RunNow, PlanInv
  <2>5. CASE Tick BY <2>5, Constants DEF Tick, PlanInv
  <2>6. ASSUME NEW p \in Specs, Edit(p) PROVE PlanInv'
    BY <2>2, <2>6 DEF Edit
  <2>7. CASE UNCHANGED vars BY <2>7 DEF vars, PlanInv
  <2> QED BY <2>1, <2>3, <2>4, <2>5, <2>6, <2>7 DEF Next
<1> QED BY <1>1, <1>2, PTL DEF Spec

\* next_run_instants plans the first occurrence after the instant it is asked
\* for, in every zone, save in the two spans that PlanIsFirst names.
THEOREM PlanFirst == Spec => []PlanIsFirst
<1>1. PlanInv => PlanIsFirst
  <2> SUFFICES ASSUME PlanInv, from # Null PROVE PlanIsFirst BY DEF PlanIsFirst
  <2>1. from \in 0 .. MaxTime /\ from \in Nat /\ next = NextRun(spec, from) /\ spec \in Specs
    BY Constants DEF PlanInv
  <2>2. CASE spec.frequency = "hourly"
    <3>1. FirstHourly(spec, from, next) BY <2>1, <2>2, HourlyPlan
    <3> QED BY <2>2, <3>1, Zenon DEF PlanIsFirst, FirstHourly
  <2>3. CASE spec.frequency # "hourly"
    <3>1. spec.frequency = "weekly" BY <2>1, <2>3, WeeklySpec
    <3>2. FirstWeekly(spec, from, next) BY <2>1, <3>1, WeeklyPlan
    <3> QED BY <2>3, <3>2, Zenon DEF PlanIsFirst, FirstWeekly
  <2> QED BY <2>2, <2>3
<1> QED BY <1>1, PlanInductive, PTL

\* The days that were run are days of the recurrence, each the next one after
\* the day before, and the plan is for the next one after the last.
ServedDays(p, s) == \A i \in 1 .. Len(s) : Matches(p, s[i]) /\ (i > 1 => Follows(p, s[i - 1], s[i]))
ServedInv ==
  spec.frequency = "weekly" =>
    /\ ServedDays(spec, served)
    /\ from # Null /\ served # <<>> => Follows(spec, served[Len(served)], FirstDay(spec, from))

\* A plan that begins anew has nothing behind it.
LEMMA NothingServed ==
  ASSUME served' = <<>>
  PROVE  ServedInv'
BY DEF ServedInv, ServedDays

\* A step keeps what the run of a day relies on.
LEMMA ServedStep ==
  ASSUME GapWithinDay, PlanInv, ServedInv, [Next]_vars
  PROVE  ServedInv'
<1>1. CASE Run
  <2>1. next' = NextRun(spec, next) /\ from' = next /\ UNCHANGED <<now, spec>>
        /\ served' = IF from = Null THEN <<>> ELSE Append(served, DayOf(Local(next)))
    BY <1>1 DEF Run, AfterRun
  <2>2. CASE from = Null BY <2>1, <2>2, NothingServed
  <2>3. ASSUME from # Null, spec.frequency = "weekly" PROVE ServedInv'
    <3> DEFINE d == FirstDay(spec, from)
    <3>1. from \in Nat /\ spec \in Specs /\ next = NextRun(spec, from) /\ served \in Seq(Nat)
      BY <2>3, Constants DEF PlanInv
    <3>2. next = Utc(Wall(spec, d)) BY <2>3, <3>1, NextRunWeekly
    <3>3. d \in Nat /\ Matches(spec, d) BY <2>3, <3>1, FirstDayIs
    <3>4. DayOf(Local(next)) = d /\ Follows(spec, d, FirstDay(spec, next))
      BY <2>3, <3>1, <3>2, <3>3, NextDayFollows, RunOnItsDay
    <3>5. served # <<>> => Follows(spec, served[Len(served)], d)
      BY <2>3 DEF ServedInv
    <3>6. served' = Append(served, d) BY <2>1, <2>3, <3>4
    <3>7. ServedDays(spec, served) BY <2>3 DEF ServedInv
    <3> HIDE DEF d
    <3>8. Len(served') = Len(served) + 1 /\ served'[Len(served) + 1] = d
          /\ (\A i \in 1 .. Len(served) : served'[i] = served[i]) /\ Len(served) \in Nat
          /\ served' # <<>>
      BY <3>1, <3>3, <3>6
    <3>9. ServedDays(spec, served')
      <4> SUFFICES ASSUME NEW i \in 1 .. Len(served')
                   PROVE  Matches(spec, served'[i])
                          /\ (i > 1 => Follows(spec, served'[i - 1], served'[i]))
        BY DEF ServedDays
      <4>1. CASE i \in 1 .. Len(served)
        <5>1. served'[i] = served[i] /\ (i > 1 => served'[i - 1] = served[i - 1]) BY <3>8, <4>1
        <5> QED BY <3>7, <4>1, <5>1 DEF ServedDays
      <4>2. CASE i = Len(served) + 1
        <5>1. served'[i] = d BY <3>8, <4>2
        <5>2. i > 1 => served'[i - 1] = served[Len(served)] /\ served # <<>>
          BY <3>1, <3>8, <4>2
        <5> QED BY <3>3, <3>5, <5>1, <5>2
      <4> QED BY <3>8, <4>1, <4>2
    <3>10. Follows(spec, served'[Len(served')], FirstDay(spec, next)) BY <3>4, <3>8
    <3> QED BY <2>1, <3>9, <3>10 DEF ServedInv
  <2>4. CASE spec.frequency # "weekly" BY <2>1, <2>4 DEF ServedInv
  <2> QED BY <2>2, <2>3, <2>4
<1>2. CASE ResetNextRun BY <1>2, NothingServed DEF ResetNextRun, Replan
<1>3. CASE RunNow BY <1>3, NothingServed DEF RunNow
<1>4. CASE Tick BY <1>4 DEF Tick, ServedInv
<1>5. ASSUME NEW p \in Specs, Edit(p) PROVE ServedInv'
  BY <1>5, NothingServed DEF Edit, Replan
<1>6. CASE UNCHANGED vars BY <1>6 DEF vars, ServedInv
<1> QED BY <1>1, <1>2, <1>3, <1>4, <1>5, <1>6 DEF Next

\* The runner leaves out no day of a recurrence and runs none twice, however
\* late it runs them, if the clock is not moved forward at the end of a day.
THEOREM EveryDay ==
  ASSUME GapWithinDay
  PROVE  Spec => []EveryDayOnce
<1>1. Init => ServedInv BY DEF Init, ServedInv, ServedDays
<1>2. PlanInv /\ ServedInv /\ [Next]_vars => ServedInv' BY ServedStep
<1>3. ServedInv => EveryDayOnce
  <2> SUFFICES ASSUME ServedInv, spec.frequency = "weekly" PROVE EveryDayOnce
    BY DEF EveryDayOnce
  <2>1. ServedDays(spec, served) BY DEF ServedInv
  <2> QED BY <2>1 DEF EveryDayOnce, ServedDays, Follows, Matches
<1> QED BY <1>1, <1>2, <1>3, PlanInductive, PTL DEF Spec

-----------------------------------------------------------------------------
(* Previews.                                                               *)

\* The plans that follow one another from an instant.
IsPlanFrom(g, p, after, n) ==
  g = [i \in 0 .. n |-> IF i = 0 THEN after ELSE NextRun(p, g[i - 1])]

\* There are such plans for any number of steps.
LEMMA PlansExist ==
  ASSUME NEW p, NEW after, NEW n \in Nat
  PROVE  \E g : IsPlanFrom(g, p, after, n)
<1> DEFINE T == {m \in Nat : ~\E g : IsPlanFrom(g, p, after, m)}
<1> SUFFICES ASSUME T # {} PROVE FALSE OBVIOUS
<1>1. T \in SUBSET Nat OBVIOUS
<1>2. PICK m \in T : \A k \in T : m <= k
  <2> HIDE DEF T
  <2> QED BY <1>1, LeastNumber
<1>3. m \in Nat /\ ~\E g : IsPlanFrom(g, p, after, m) BY <1>2
<1>4. CASE m = 0
  <2> DEFINE g == [i \in 0 .. 0 |-> after]
  <2>1. IsPlanFrom(g, p, after, 0)
    <3>1. \A i \in 0 .. 0 : i = 0 OBVIOUS
    <3> QED BY <3>1 DEF IsPlanFrom
  <2> QED BY <1>3, <1>4, <2>1
<1>5. CASE m # 0
  <2>1. m - 1 \in Nat /\ ~(m <= m - 1) BY <1>3, <1>5
  <2>2. m - 1 \notin T BY <1>2, <2>1
  <2>3. PICK g : IsPlanFrom(g, p, after, m - 1) BY <2>1, <2>2
  <2> DEFINE h == [i \in 0 .. m |-> IF i = m THEN NextRun(p, g[m - 1]) ELSE g[i]]
  <2>4. \A i \in 0 .. m - 1 : g[i] = IF i = 0 THEN after ELSE NextRun(p, g[i - 1])
    BY <2>3, Zenon DEF IsPlanFrom
  <2>5. ASSUME NEW i \in 0 .. m
        PROVE  h[i] = IF i = 0 THEN after ELSE NextRun(p, h[i - 1])
    <3>1. CASE i = m
      <4>1. h[i] = NextRun(p, g[m - 1]) BY <3>1
      <4>2. h[m - 1] = g[m - 1] BY <1>3, <2>1
      <4> HIDE DEF h
      <4> QED BY <1>5, <3>1, <4>1, <4>2
    <3>2. CASE i # m
      <4>1. i \in 0 .. m - 1 /\ (i # 0 => i - 1 \in 0 .. m /\ i - 1 # m) BY <1>3, <3>2
      <4>2. h[i] = g[i] /\ (i # 0 => h[i - 1] = g[i - 1]) BY <3>2, <4>1
      <4> HIDE DEF h
      <4> QED BY <2>4, <4>1, <4>2
    <3> QED BY <3>1, <3>2
  <2>6. IsPlanFrom(h, p, after, m)
    <3>1. h = [i \in 0 .. m |-> h[i]] OBVIOUS
    <3> HIDE DEF h
    <3> QED BY <2>5, <3>1, Zenon DEF IsPlanFrom
  <2> QED BY <1>3, <2>6
<1> QED BY <1>4, <1>5

\* What the worker plans run by run.
LEMMA ChainIs ==
  ASSUME NEW p, NEW after
  PROVE  /\ Chain(p, after) = [i \in 1 .. PreviewCount |-> Chain(p, after)[i]]
         /\ Chain(p, after)[1] = NextRun(p, after)
         /\ \A i \in 2 .. PreviewCount : Chain(p, after)[i] = NextRun(p, Chain(p, after)[i - 1])
<1> DEFINE step == CHOOSE g : IsPlanFrom(g, p, after, PreviewCount)
<1>1. PreviewCount \in Nat /\ PreviewCount > 0 BY SpecConstants
<1>2. IsPlanFrom(step, p, after, PreviewCount) BY <1>1, PlansExist, Zenon
<1>3. Chain(p, after) = [i \in 1 .. PreviewCount |-> step[i]]
  BY Zenon DEF Chain, IsPlanFrom
<1> HIDE DEF step
<1>4. \A i \in 0 .. PreviewCount : step[i] = IF i = 0 THEN after ELSE NextRun(p, step[i - 1])
  BY <1>2, Zenon DEF IsPlanFrom
<1>5. \A i \in 1 .. PreviewCount : Chain(p, after)[i] = step[i] BY <1>3
<1>6. step[0] = after /\ step[1] = NextRun(p, step[0])
      /\ \A i \in 2 .. PreviewCount : step[i] = NextRun(p, step[i - 1])
  BY <1>1, <1>4
<1>7. Chain(p, after)[1] = NextRun(p, after) BY <1>1, <1>5, <1>6
<1>8. \A i \in 2 .. PreviewCount : Chain(p, after)[i] = NextRun(p, Chain(p, after)[i - 1])
  BY <1>1, <1>5, <1>6
<1> QED BY <1>3, <1>7, <1>8

\* A day has more days before it than an earlier one.
LEMMA MoreBefore ==
  ASSUME NEW S, IsFiniteSet(S), S \subseteq Nat, NEW d \in S, NEW e \in S, d < e
  PROVE  Cardinality({x \in S : x < d}) + 1 <= Cardinality({x \in S : x < e})
<1> DEFINE A == {x \in S : x < d}
           B == {x \in S : x < e}
<1>1. IsFiniteSet(A) /\ IsFiniteSet(B)
  <2>1. A \in SUBSET S /\ B \in SUBSET S OBVIOUS
  <2> HIDE DEF A, B
  <2> QED BY <2>1, FS_Subset, Zenon
<1>2. d \notin A /\ A \union {d} \in SUBSET B
  <2>1. ~(d < d) /\ \A x \in S : x < d => x < e OBVIOUS
  <2>2. d \notin A BY <2>1, Zenon
  <2>3. A \union {d} \in SUBSET B BY <2>1, Zenon
  <2> QED BY <2>2, <2>3
<1> HIDE DEF A, B
<1>3. Cardinality(A \union {d}) = Cardinality(A) + 1 BY <1>1, <1>2, FS_AddElement
<1>4. Cardinality(A \union {d}) <= Cardinality(B) BY <1>1, <1>2, FS_Subset
<1>5. Cardinality(A) + 1 <= Cardinality(B) BY <1>3, <1>4
<1> QED BY <1>5 DEF A, B

\* The i-th of a set of days is the one with i - 1 before it.
LEMMA NthIs ==
  ASSUME NEW S, IsFiniteSet(S), S \subseteq Nat, NEW d \in S, NEW i \in Nat,
         Cardinality({x \in S : x < d}) = i - 1
  PROVE  Nth(S, i) = d
<1> DEFINE e == Nth(S, i)
<1>1. e \in S /\ Cardinality({x \in S : x < e}) = i - 1 BY Zenon DEF Nth
<1> SUFFICES e = d OBVIOUS
<1> HIDE DEF e
<1>2. ASSUME d < e PROVE FALSE
  <2>1. (i - 1) + 1 <= i - 1 BY <1>1, <1>2, MoreBefore
  <2> QED BY <2>1
<1>3. ASSUME e < d PROVE FALSE
  <2>1. (i - 1) + 1 <= i - 1 BY <1>1, <1>3, MoreBefore
  <2> QED BY <2>1
<1>4. d \in Nat /\ e \in Nat BY <1>1
<1> QED BY <1>2, <1>3, <1>4

\* The plan of step i of a preview, for days: the i-th day that the loop of
\* _next_daily_like finds is the one that the worker plans.
PreviewDay(p, after, i) ==
  LET S == CandidateDays(p, after, PreviewCount)
  IN  \E d \in S : /\ Cardinality({x \in S : x < d}) = i - 1
                   /\ d <= DayOf(Local(after)) + Week * i
                   /\ Chain(p, after)[i] = Utc(Wall(p, d))

\* The days of a preview, as a set.
LEMMA PreviewSet ==
  ASSUME NEW p \in Specs, p.frequency = "weekly", NEW after \in Nat
  PROVE  /\ CandidateDays(p, after, PreviewCount) \subseteq Nat
         /\ IsFiniteSet(CandidateDays(p, after, PreviewCount))
         /\ DayOf(Local(after)) \in Nat /\ Local(after) \in Nat
         /\ Week * PreviewCount \in Nat
         /\ \A d \in Int : d \in CandidateDays(p, after, PreviewCount) <=>
              /\ DayOf(Local(after)) <= d /\ d <= DayOf(Local(after)) + Week * PreviewCount
              /\ Matches(p, d) /\ Wall(p, d) > Local(after)
<1> DEFINE L == Local(after)
           D == DayOf(L)
           N == Week * PreviewCount
           S == CandidateDays(p, after, PreviewCount)
<1>1. L \in Nat BY Clock
<1>2. D \in Nat BY <1>1, Constants DEF DayOf
<1>3. N \in Nat BY SpecConstants
<1>4. S = {d \in D .. D + N : Matches(p, d) /\ Wall(p, d) > L}
  BY DEF CandidateDays, Matches, Wall
<1> HIDE DEF L, D, N, S
<1>5. IsFiniteSet(D .. D + N) BY <1>2, <1>3, FS_Interval
<1>6. S \in SUBSET (D .. D + N) BY <1>4
<1>7. IsFiniteSet(S) BY <1>5, <1>6, FS_Subset, Zenon
<1>8. S \subseteq Nat BY <1>2, <1>3, <1>6
<1>9. \A d \in Int : d \in S <=> D <= d /\ d <= D + N /\ Matches(p, d) /\ Wall(p, d) > L
  BY <1>2, <1>3, <1>4
<1> QED BY <1>1, <1>2, <1>3, <1>7, <1>8, <1>9 DEF L, D, N, S

\* The first day of a preview.
LEMMA PreviewFirst ==
  ASSUME NEW p \in Specs, p.frequency = "weekly", NEW after \in Nat
  PROVE  PreviewDay(p, after, 1)
<1> DEFINE L == Local(after)
           D == DayOf(L)
           N == Week * PreviewCount
           S == CandidateDays(p, after, PreviewCount)
           d == FirstDay(p, after)
<1>1. /\ S \subseteq Nat /\ IsFiniteSet(S) /\ D \in Nat /\ L \in Nat /\ N \in Nat
      /\ \A e \in Int : e \in S <=> D <= e /\ e <= D + N /\ Matches(p, e) /\ Wall(p, e) > L
  BY PreviewSet
<1>2. /\ d \in Nat /\ D <= d /\ d <= D + Week /\ Matches(p, d) /\ Wall(p, d) > L
      /\ \A e \in Int : Matches(p, e) /\ Wall(p, e) > L => d <= e
  BY FirstDayIs
<1>3. Week <= N
  <2>1. PreviewCount \in Nat /\ PreviewCount > 0 BY SpecConstants
  <2> QED BY <2>1, Constants
<1>4. Chain(p, after)[1] = Utc(Wall(p, d)) BY ChainIs, NextRunWeekly
<1> SUFFICES \E e \in S : /\ Cardinality({x \in S : x < e}) = 1 - 1
                          /\ e <= D + Week * 1
                          /\ Chain(p, after)[1] = Utc(Wall(p, e))
  BY DEF PreviewDay
<1> HIDE DEF L, D, N, S, d
<1>5. d \in S BY <1>1, <1>2, <1>3, Constants
<1>6. {x \in S : x < d} = {}
  <2>1. \A x \in S : ~(x < d)
    <3> TAKE x \in S
    <3>1. x \in Nat BY <1>1
    <3>2. d <= x BY <1>1, <1>2, <3>1
    <3> QED BY <1>2, <3>1, <3>2
  <2> QED BY <2>1, Zenon
<1>7. Cardinality({x \in S : x < d}) = 1 - 1 BY <1>6, FS_EmptySet
<1>8. d <= D + Week * 1 BY <1>1, <1>2, Constants
<1> QED BY <1>4, <1>5, <1>7, <1>8

\* The next day of a preview.
LEMMA PreviewNext ==
  ASSUME NEW p \in Specs, p.frequency = "weekly", NEW after \in Nat,
         NEW i \in 2 .. PreviewCount, PreviewDay(p, after, i - 1)
  PROVE  PreviewDay(p, after, i)
<1> DEFINE L == Local(after)
           D == DayOf(L)
           N == Week * PreviewCount
           S == CandidateDays(p, after, PreviewCount)
<1>1. /\ S \subseteq Nat /\ IsFiniteSet(S) /\ D \in Nat /\ L \in Nat /\ N \in Nat
      /\ \A e \in Int : e \in S <=> D <= e /\ e <= D + N /\ Matches(p, e) /\ Wall(p, e) > L
  BY PreviewSet
<1>2. PICK d \in S : /\ Cardinality({x \in S : x < d}) = (i - 1) - 1
                     /\ d <= D + Week * (i - 1)
                     /\ Chain(p, after)[i - 1] = Utc(Wall(p, d))
  BY DEF PreviewDay
<1> DEFINE u == Utc(Wall(p, d))
           e == FirstDay(p, u)
<1>3. d \in Nat BY <1>1
<1>4. Wall(p, d) \in Nat BY <1>3, WallType
<1>5. u \in Nat BY <1>4, Clock
<1>6. Follows(p, d, e) /\ e \in Nat BY <1>3, NextDayFollows
<1>7. Chain(p, after)[i] = Utc(Wall(p, e))
  <2>1. Chain(p, after)[i] = NextRun(p, u) BY <1>2, ChainIs
  <2> QED BY <1>5, <2>1, NextRunWeekly
<1> SUFFICES \E x \in S : /\ Cardinality({y \in S : y < x}) = i - 1
                          /\ x <= D + Week * i
                          /\ Chain(p, after)[i] = Utc(Wall(p, x))
  BY DEF PreviewDay
<1> HIDE DEF L, D, N, S, e, u
<1>8. e <= d + Week
  <2>1. PICK r \in p.days : r \in 0 .. Week - 1 BY WeeklySpec
  <2>2. PICK x \in d + 1 .. d + Week : x % Week = r BY <1>3, <2>1, WeekdayComes
  <2>3. x \in Int /\ Matches(p, x) BY <1>3, <2>1, <2>2, Constants DEF Matches
  <2> QED BY <1>3, <1>6, <2>2, <2>3, Constants DEF Follows
<1>9. e <= D + Week * i /\ Week * i <= N /\ Week * i \in Nat
  <2>1. PreviewCount \in Nat /\ i \in Nat /\ i <= PreviewCount BY SpecConstants
  <2>2. Week * (i - 1) + Week = Week * i /\ Week * (i - 1) \in Int /\ Week * i \in Nat
    BY <2>1, Constants
  <2>3. Week * i <= N BY <2>1, Constants DEF N
  <2> QED BY <1>1, <1>2, <1>3, <1>6, <1>8, <2>2, <2>3, Constants
<1>10. e \in S
  <2>1. d < e /\ Matches(p, e) BY <1>6 DEF Follows
  <2>2. D <= d /\ Wall(p, d) > L BY <1>1, <1>2, <1>3
  <2>3. Wall(p, e) > L
    <3>1. d * Day + Day <= e * Day /\ d * Day \in Int /\ e * Day \in Int
      BY <1>3, <1>6, <2>1, DayApart
    <3>2. p.time \in 0 .. Day - 1 BY WeeklySpec
    <3>3. Wall(p, d) <= Wall(p, e) BY <3>1, <3>2, Constants DEF Wall
    <3>4. Wall(p, e) \in Nat BY <1>6, WallType
    <3> QED BY <1>1, <1>4, <2>2, <3>3, <3>4
  <2>4. D <= e /\ e <= D + N BY <1>1, <1>3, <1>6, <1>9, <2>1, <2>2
  <2> QED BY <1>1, <1>6, <2>1, <2>3, <2>4
<1>11. Cardinality({y \in S : y < e}) = i - 1
  <2> DEFINE A == {y \in S : y < d}
  <2>1. {y \in S : y < e} = A \union {d}
    <3>1. d < e /\ \A x \in d + 1 .. e - 1 : ~Matches(p, x) BY <1>6 DEF Follows
    <3>2. ASSUME NEW y \in S PROVE y < e <=> y < d \/ y = d
      <4>1. y \in Nat /\ Matches(p, y) BY <1>1
      <4>2. ASSUME y < e, d < y PROVE FALSE
        <5>1. y \in d + 1 .. e - 1 BY <1>3, <1>6, <4>1, <4>2
        <5> QED BY <3>1, <4>1, <5>1
      <4> QED BY <1>3, <1>6, <3>1, <4>1, <4>2
    <3> QED BY <1>2, <3>2
  <2>2. d \notin A BY <1>3
  <2>3. A \in SUBSET S OBVIOUS
  <2>4. Cardinality(A) = (i - 1) - 1 BY <1>2
  <2> HIDE DEF A
  <2>5. IsFiniteSet(A) BY <1>1, <2>3, FS_Subset, Zenon
  <2>6. Cardinality(A \union {d}) = Cardinality(A) + 1 BY <2>2, <2>5, FS_AddElement
  <2>7. Cardinality(A \union {d}) = i - 1 BY <2>4, <2>6, SpecConstants
  <2> QED BY <2>1, <2>7, Zenon
<1> QED BY <1>7, <1>9, <1>10, <1>11

\* A preview of days shows what the worker will plan.
LEMMA DailyPreview ==
  ASSUME NEW p \in Specs, p.frequency = "weekly", NEW after \in Nat
  PROVE  Instants(p, after, PreviewCount) = Chain(p, after)
<1> DEFINE T == {i \in 1 .. PreviewCount : ~PreviewDay(p, after, i)}
           S == CandidateDays(p, after, PreviewCount)
<1>1. PreviewCount \in Nat BY SpecConstants
<1>2. T = {}
  <2> SUFFICES ASSUME T # {} PROVE FALSE OBVIOUS
  <2>1. T \in SUBSET Nat BY <1>1
  <2>2. PICK i \in T : \A j \in T : i <= j
    <3> HIDE DEF T
    <3> QED BY <2>1, LeastNumber
  <2>3. i \in 1 .. PreviewCount /\ ~PreviewDay(p, after, i) BY <2>2
  <2>4. i # 1 BY <2>3, PreviewFirst
  <2>5. i \in 2 .. PreviewCount /\ i - 1 \in 1 .. PreviewCount /\ ~(i <= i - 1) BY <1>1, <2>3, <2>4
  <2>6. PreviewDay(p, after, i - 1) BY <2>2, <2>5
  <2> QED BY <2>3, <2>5, <2>6, PreviewNext
<1>3. ASSUME NEW i \in 1 .. PreviewCount
      PROVE  Chain(p, after)[i] = Utc(Nth(S, i) * Day + p.time)
  <2>1. PreviewDay(p, after, i) BY <1>2
  <2>2. PICK d \in S : /\ Cardinality({x \in S : x < d}) = i - 1
                       /\ Chain(p, after)[i] = Utc(Wall(p, d))
    BY <2>1 DEF PreviewDay
  <2>3. S \subseteq Nat /\ IsFiniteSet(S) BY PreviewSet
  <2>4. i \in Nat BY <1>1
  <2> HIDE DEF S
  <2>5. Nth(S, i) = d BY <2>2, <2>3, <2>4, NthIs
  <2> QED BY <2>2, <2>5 DEF Wall
<1>4. Instants(p, after, PreviewCount) = [i \in 1 .. PreviewCount |-> Utc(Nth(S, i) * Day + p.time)]
  BY DEF Instants, DailyInstants
<1>5. Chain(p, after) = [i \in 1 .. PreviewCount |-> Chain(p, after)[i]] BY ChainIs
<1> HIDE DEF S
<1>6. [i \in 1 .. PreviewCount |-> Chain(p, after)[i]]
        = [i \in 1 .. PreviewCount |-> Utc(Nth(S, i) * Day + p.time)] BY <1>3, Zenon
<1> QED BY <1>4, <1>5, <1>6, Zenon

\* A preview of hourly steps shows what the worker will plan, unless a step is
\* into the hour that does not exist.
LEMMA HourlyPreview ==
  ASSUME NEW p \in Specs, p.frequency = "hourly", NEW after \in Nat,
         \A u \in {after} \union {Chain(p, after)[i] : i \in 1 .. PreviewCount - 1} :
           ~MissingTime(Local(u) + p.interval)
  PROVE  Instants(p, after, PreviewCount) = Chain(p, after)
<1> DEFINE k == p.interval
           C == Chain(p, after)
           L == Local(after)
           Good(i) == /\ L + i * k \in Nat /\ C[i] = Utc(L + i * k) /\ C[i] \in Nat
                      /\ i < PreviewCount => Local(C[i]) = L + i * k
           T == {i \in 1 .. PreviewCount : ~Good(i)}
<1>1. PreviewCount \in Nat /\ k \in Nat /\ L \in Nat BY SpecConstants, HourlySpec, Clock
<1>2. /\ C = [i \in 1 .. PreviewCount |-> C[i]] /\ C[1] = NextRun(p, after)
      /\ \A i \in 2 .. PreviewCount : C[i] = NextRun(p, C[i - 1])
  BY ChainIs
<1>3. \A u \in Nat : NextRun(p, u) = Utc(Local(u) + 1 * k) BY NextRunHourly
<1>4. ~MissingTime(L + k) /\ \A i \in 1 .. PreviewCount - 1 : ~MissingTime(Local(C[i]) + k)
  OBVIOUS
<1> HIDE DEF k, C, L
<1>5. Good(1)
  <2>1. C[1] = Utc(L + k) /\ 1 * k = k /\ L + k \in Nat BY <1>1, <1>2, <1>3 DEF L
  <2>2. Local(Utc(L + k)) = L + k /\ Utc(L + k) \in Nat BY <1>4, <2>1, BackFromUtc, Clock
  <2> QED BY <2>1, <2>2
<1>6. ASSUME NEW i \in 2 .. PreviewCount, Good(i - 1) PROVE Good(i)
  <2>1. i - 1 < PreviewCount /\ i - 1 \in 1 .. PreviewCount - 1 BY <1>1
  <2>2. Local(C[i - 1]) = L + (i - 1) * k /\ C[i - 1] \in Nat BY <1>6, <2>1
  <2>3. C[i] = Utc(Local(C[i - 1]) + 1 * k) BY <1>2, <1>3, <2>2
  <2>4. (L + (i - 1) * k) + 1 * k = L + i * k /\ L + i * k \in Nat
        /\ (L + (i - 1) * k) + k = L + i * k
    <3>1. i \in Nat /\ (i - 1) * k + k = i * k /\ i * k \in Nat /\ (i - 1) * k \in Int BY <1>1
    <3> QED BY <1>1, <3>1
  <2>5. C[i] = Utc(L + i * k) BY <2>2, <2>3, <2>4
  <2>6. ~MissingTime(L + i * k) BY <1>4, <2>1, <2>2, <2>4
  <2>7. Local(Utc(L + i * k)) = L + i * k /\ Utc(L + i * k) \in Nat
    BY <2>4, <2>6, BackFromUtc, Clock
  <2> QED BY <2>4, <2>5, <2>7
<1> HIDE DEF Good
<1>7. T = {}
  <2> SUFFICES ASSUME T # {} PROVE FALSE OBVIOUS
  <2>1. T \in SUBSET Nat BY <1>1
  <2>2. PICK i \in T : \A j \in T : i <= j
    <3> HIDE DEF T
    <3> QED BY <2>1, LeastNumber
  <2>3. i \in 1 .. PreviewCount /\ ~Good(i) BY <2>2
  <2>4. i # 1 BY <1>5, <2>3
  <2>5. i \in 2 .. PreviewCount /\ i - 1 \in 1 .. PreviewCount /\ ~(i <= i - 1) BY <1>1, <2>3, <2>4
  <2>6. Good(i - 1) BY <2>2, <2>5
  <2> QED BY <1>6, <2>3, <2>5, <2>6
<1>8. \A i \in 1 .. PreviewCount : C[i] = Utc(L + i * k)
  <2> TAKE i \in 1 .. PreviewCount
  <2>1. Good(i) BY <1>7
  <2>2. Good(i) => C[i] = Utc(L + i * k) BY Zenon DEF Good
  <2> QED BY <2>1, <2>2
<1>9. Instants(p, after, PreviewCount) = [i \in 1 .. PreviewCount |-> Utc(L + i * k)]
  BY DEF Instants, HourlyInstants, L, k
<1>10. [i \in 1 .. PreviewCount |-> C[i]] = [i \in 1 .. PreviewCount |-> Utc(L + i * k)]
  BY <1>8, Zenon
<1>11. Instants(p, after, PreviewCount) = C BY <1>2, <1>9, <1>10, Zenon
<1> QED BY <1>11 DEF C

\* The preview of a schedule shows exactly what the scheduler will plan, for
\* any number of instants, but for hourly steps into the missing hour.
THEOREM PreviewPlan == Spec => []PreviewIsPlan
<1>1. PlanInv => PreviewIsPlan
  <2> SUFFICES ASSUME PlanInv PROVE PreviewIsPlan OBVIOUS
  <2>1. now \in Nat /\ spec \in Specs BY Constants DEF PlanInv
  <2>2. CASE spec.frequency = "hourly"
    <3>1. CASE \E u \in {now} \union {Chain(spec, now)[i] : i \in 1 .. PreviewCount - 1} :
                 MissingTime(Local(u) + spec.interval)
      BY <2>2, <3>1, Zenon DEF PreviewIsPlan
    <3>2. CASE ~\E u \in {now} \union {Chain(spec, now)[i] : i \in 1 .. PreviewCount - 1} :
                 MissingTime(Local(u) + spec.interval)
      <4>1. Instants(spec, now, PreviewCount) = Chain(spec, now)
        BY <2>1, <2>2, <3>2, HourlyPreview
      <4> QED BY <4>1, Zenon DEF PreviewIsPlan
    <3> QED BY <3>1, <3>2
  <2>3. CASE spec.frequency # "hourly"
    <3>1. spec.frequency = "weekly" BY <2>1, <2>3, WeeklySpec
    <3>2. Instants(spec, now, PreviewCount) = Chain(spec, now) BY <2>1, <3>1, DailyPreview
    <3> QED BY <3>2, Zenon DEF PreviewIsPlan
  <2> QED BY <2>2, <2>3
<1> QED BY <1>1, PlanInductive, PTL

=============================================================================
