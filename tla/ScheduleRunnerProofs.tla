------------------------ MODULE ScheduleRunnerProofs ------------------------
(***************************************************************************)
(* Proofs about ScheduleRunner: types, the protection the guarded claim    *)
(* gives, the protection the export lease gives, and that plans move       *)
(* forward, for any number of schedules, replicas and users.               *)
(***************************************************************************)
EXTENDS ScheduleRunner, TLAPS

\* Some recurrence exists.
LEMMA FirstSpecType == FirstSpec \in Specs
  <1>1. PICK n : n \in Hourly \/ n \in Daily
    BY ScheduleConstants
  <1>2. [frequency |-> "hourly", n |-> n] \in Specs \/ [frequency |-> "daily", n |-> n] \in Specs
    BY <1>1 DEF Specs
  <1>3. \E p : p \in Specs
    BY <1>2
  <1> QED
    BY <1>3 DEF FirstSpec

\* The remainder of a division by the length of a day.
LEMMA DayRemainder ==
  ASSUME NEW x \in Nat
  PROVE  x % Day \in Nat /\ x % Day < Day
  <1>1. Day \in Nat /\ Day > 0
    BY ScheduleConstants
  <1>2. x % Day \in 0 .. Day - 1
    BY <1>1
  <1> QED
    BY <1>1, <1>2

\* The next run of a recurrence is a later instant.
LEMMA NextRunType ==
  ASSUME NEW p \in Specs, NEW t \in Nat
  PROVE  NextRun(p, t) \in Nat /\ NextRun(p, t) > t
  <1>1. CASE p \in [frequency : {"hourly"}, n : Hourly]
    <2>1. p.frequency = "hourly" /\ p.n \in Hourly
      BY <1>1
    <2>2. p.n \in Nat \ {0}
      BY <2>1, Zenon, ScheduleConstants
    <2>3. p.n > 0
      BY <2>2
    <2> QED
      BY <2>1, <2>2, <2>3 DEF NextRun
  <1>2. CASE p \in [frequency : {"daily"}, n : Daily]
    <2>1. p.frequency = "daily" /\ p.n \in 0 .. Day - 1
      BY <1>2, ScheduleConstants
    <2>2. PICK x \in Nat : x = t + Day - p.n
      BY <2>1, ScheduleConstants
    <2>3. PICK y \in Nat : y = x % Day /\ y < Day
      BY DayRemainder
    <2>4. t + Day - y \in Nat /\ t + Day - y > t
      BY <2>3, ScheduleConstants
    <2> QED
      BY <2>1, <2>2, <2>3, <2>4 DEF NextRun
  <1> QED
    BY <1>1, <1>2 DEF Specs

\* The constants of the initial state have the types of the variables.
LEMMA StartTypes ==
  /\ NoRow \in Row /\ NoRow.status = "absent" /\ NoRow.last = 0
  /\ IdleReplica \in Replica /\ IdleReplica.pc = "idle" /\ IdleReplica.cur = {}
  /\ IdleReplica.todo = {}
  /\ IdleEdit \in Edit
  /\ NoLease \in Lease
  <1>1. NoRow \in Row /\ NoRow.status = "absent" /\ NoRow.last = 0
    BY FirstSpecType DEF NoRow, Row, Null
  <1>2. /\ IdleReplica \in Replica /\ IdleReplica.pc = "idle" /\ IdleReplica.cur = {}
        /\ IdleReplica.todo = {}
    BY <1>1 DEF IdleReplica, Replica
  <1> QED
    BY <1>1, <1>2 DEF IdleEdit, Edit, NoLease, Lease

\* An UPDATE of a row yields a row and touches neither claim nor existence.
LEMMA MergeType ==
  ASSUME NEW a \in Row, NEW b \in Row, NEW c \in Row
  PROVE  /\ Merge(a, b, c) \in Row
         /\ Merge(a, b, c).last = a.last
         /\ Merge(a, b, c).status = a.status
         /\ c.enabled = b.enabled => Merge(a, b, c).enabled = a.enabled
         /\ Merge(a, b, c).next = IF c.next = b.next THEN a.next ELSE c.next
  <1>1. PICK e \in BOOLEAN : e = IF c.enabled = b.enabled THEN a.enabled ELSE c.enabled
    BY DEF Row
  <1>2. PICK p \in Specs : p = IF c.spec = b.spec THEN a.spec ELSE c.spec
    BY DEF Row
  <1>3. PICK v \in Nat : v = IF c.version = b.version THEN a.version ELSE c.version
    BY DEF Row
  <1>4. PICK n \in Nat : n = IF c.next = b.next THEN a.next ELSE c.next
    BY DEF Row
  <1>5. Merge(a, b, c) = [a EXCEPT !.enabled = e, !.spec = p, !.version = v, !.next = n]
    BY <1>1, <1>2, <1>3, <1>4 DEF Merge
  <1>6. PICK X : X = [a EXCEPT !.enabled = e, !.spec = p, !.version = v, !.next = n]
    OBVIOUS
  <1>7. X \in Row
    BY <1>6 DEF Row
  <1>8. X.last = a.last /\ X.status = a.status /\ X.enabled = e /\ X.next = n
    BY <1>6 DEF Row
  <1> QED
    BY <1>1, <1>4, <1>5, <1>6, <1>7, <1>8

\* The replica after a row has been dealt with.
LEMMA ContinueType ==
  ASSUME NEW c \in Replica, NEW s \in Schedules
  PROVE  /\ Continue(c, s) \in Replica
         /\ Continue(c, s).pc \in {"idle", "loop"}
         /\ Continue(c, s).pc = "loop" => Continue(c, s).tick = c.tick
         /\ \A t \in Continue(c, s).todo :
              /\ t \in c.todo /\ t # s /\ Continue(c, s).loaded[t] = c.loaded[t]
              /\ Continue(c, s).pc = "loop"
  <1>1. CASE c.todo \ {s} = {}
    BY <1>1, StartTypes DEF Continue
  <1>2. CASE c.todo \ {s} # {}
    <2>1. PICK L \in [Schedules -> Row] : L = [c.loaded EXCEPT ![s] = NoRow]
      BY StartTypes DEF Replica
    <2>2. PICK T \in SUBSET Schedules : T = c.todo \ {s}
      BY DEF Replica
    <2>3. Continue(c, s) = [c EXCEPT !.pc = "loop", !.todo = T, !.loaded = L, !.cur = {},
                                     !.misfire = FALSE, !.seen = {}, !.since = 0]
      BY <1>2, <2>1, <2>2 DEF Continue, Replica
    <2>4. PICK X : X = [c EXCEPT !.pc = "loop", !.todo = T, !.loaded = L, !.cur = {},
                                     !.misfire = FALSE, !.seen = {}, !.since = 0]
      OBVIOUS
    <2>5. X \in Replica
      BY <2>4 DEF Replica
    <2>6. X.pc = "loop" /\ X.tick = c.tick /\ X.todo = T /\ X.loaded = L
      BY <2>4 DEF Replica
    <2>7. \A t \in T : t \in c.todo /\ t # s /\ t \in Schedules
      BY <2>2
    <2>8. \A t \in T : L[t] = c.loaded[t]
      BY <2>1, <2>7 DEF Replica
    <2> QED
      BY <2>3, <2>4, <2>5, <2>6, <2>7, <2>8
  <1> QED
    BY <1>1, <1>2

-----------------------------------------------------------------------------
(***************************************************************************)
(* One action at a time: what a step of replica r makes of rep[r] and      *)
(* row[s], stated once for the type proof and for both invariants.         *)
(***************************************************************************)

\* The columns that a claim, a plan or an edit leaves alone.
Kept(s) == row'[s].last = row[s].last /\ row'[s].status = row[s].status

\* A step of replica r on schedule s that leaves the claims of all rows alone.
Quiet(r) ==
  /\ row' \in [Schedules -> Row] /\ \A s \in Schedules : Kept(s)
  /\ \A q \in Replicas : q # r => rep'[q] = rep[q]
  /\ now' = now /\ disturbed' \subseteq Schedules

\* From the claim to the plan: the row that replica r has claimed.
HasClaimed(r, s) == rep[r].pc \in {"reset", "run", "export", "ran", "plan"} /\ rep[r].cur = {s}

\* A claimed row stays claimed, by the same tick and for the same purpose.
SameClaim(r, s) ==
  /\ HasClaimed(r, s)
  /\ rep'[r].tick = rep[r].tick /\ rep'[r].misfire = rep[r].misfire
  /\ rep'[r].todo = rep[r].todo /\ rep'[r].loaded = rep[r].loaded

\* The rows replica r has still to look at stay as it loaded them.
Carried(r) ==
  \A t \in rep'[r].todo :
    /\ t \in rep[r].todo /\ rep'[r].loaded[t] = rep[r].loaded[t]
    /\ rep'[r].tick = rep[r].tick /\ rep'[r].pc # "idle"

\* The tick takes the clock with it and claims nothing yet.
LEMMA LoadDueFacts ==
  ASSUME TypeOK, NEW r \in Replicas, LoadDue(r)
  PROVE  /\ rep' \in [Replicas -> Replica] /\ Quiet(r)
         /\ rep'[r].pc = "loop" /\ rep'[r].tick = now
         /\ row' = row /\ disturbed' = disturbed
         /\ \A s \in rep'[r].todo : s \in Schedules /\ Due(s) /\ rep'[r].loaded[s] = row[s]
  <1>1. PICK L \in [Schedules -> Row] : L = [s \in Schedules |-> IF Due(s) THEN row[s] ELSE NoRow]
    BY StartTypes DEF TypeOK
  <1>2. PICK T \in SUBSET Schedules : T = {s \in Schedules : Due(s)}
    OBVIOUS
  <1>3. PICK X : X = [IdleReplica EXCEPT !.pc = "loop", !.tick = now, !.todo = T, !.loaded = L]
    OBVIOUS
  <1>4. X \in Replica /\ X.pc = "loop" /\ X.tick = now /\ X.todo = T /\ X.loaded = L
    <2>1. now \in Nat /\ IdleReplica \in Replica
      BY StartTypes DEF TypeOK
    <2>2. X \in Replica
      BY <2>1, <1>3 DEF Replica
    <2>3. X.pc = "loop" /\ X.tick = now /\ X.todo = T /\ X.loaded = L
      BY <2>1, <1>3 DEF Replica
    <2> QED
      BY <2>2, <2>3
  <1>5. rep' = [rep EXCEPT ![r] =
               [IdleReplica EXCEPT !.pc = "loop", !.tick = now,
                  !.todo = {s \in Schedules : Due(s)},
                  !.loaded = [s \in Schedules |-> IF Due(s) THEN row[s] ELSE NoRow]]]
    BY Zenon DEF LoadDue
  <1>6. rep' = [rep EXCEPT ![r] = X]
    BY Zenon, <1>1, <1>2, <1>3, <1>5
  <1>7. \A s \in T : s \in Schedules /\ Due(s) /\ L[s] = row[s]
    BY <1>1, <1>2
  <1>8. rep'[r] = X /\ row' = row /\ disturbed' = disturbed
    BY <1>6 DEF LoadDue, TypeOK
  <1> QED
    BY <1>4, <1>6, <1>7, <1>8 DEF LoadDue, TypeOK, Quiet, Kept

\* A refused claim leaves every row as it is.
LEMMA RefusedFacts ==
  ASSUME TypeOK, NEW r \in Replicas, NEW s \in Schedules, ClaimRefused(r, s)
  PROVE  /\ rep' \in [Replicas -> Replica] /\ Quiet(r)
         /\ rep'[r].pc \in {"idle", "loop"}
         /\ rep'[r].pc = "loop" => rep'[r].tick = rep[r].tick /\ rep[r].pc # "idle"
         /\ Carried(r) /\ row' = row /\ disturbed' = disturbed
  <1>1. rep[r] \in Replica
    BY DEF TypeOK
  <1>2. rep' = [rep EXCEPT ![r] = Continue(rep[r], s)]
    BY DEF ClaimRefused
  <1>3. rep'[r] = Continue(rep[r], s) /\ rep' \in [Replicas -> Replica]
    BY <1>1, <1>2, ContinueType DEF TypeOK
  <1>4. Quiet(r)
    BY <1>2 DEF ClaimRefused, Quiet, Kept, TypeOK
  <1>5. row' = row /\ disturbed' = disturbed
    BY DEF ClaimRefused
  <1>6. Carried(r)
    BY <1>1, <1>3, ContinueType DEF Carried
  <1> QED
    BY <1>1, <1>3, <1>4, <1>5, <1>6, ContinueType DEF ClaimRefused, InHand

\* A claim writes the tick over a claim that is null or older than CLAIM_GRACE.
LEMMA ClaimFacts ==
  ASSUME TypeOK, NEW r \in Replicas, NEW s \in Schedules, ClaimSchedule(r, s)
  PROVE  /\ rep' \in [Replicas -> Replica] /\ row' \in [Schedules -> Row]
         /\ \A q \in Replicas : q # r => rep'[q] = rep[q]
         /\ rep[r].pc = "loop"
         /\ rep'[r].pc \in {"run", "reset"} /\ rep'[r].cur = {s} /\ rep'[r].tick = rep[r].tick
         /\ row[s].status = "present"
         /\ row[s].last = 0 \/ row[s].last + CLAIM_GRACE < rep[r].tick
         /\ row'[s].status = "present" /\ row'[s].last = rep[r].tick
         /\ \A t \in Schedules : t # s => Kept(t)
         /\ now' = now /\ disturbed' = disturbed
         /\ Carried(r) /\ s \in rep'[r].todo
         /\ rep'[r].misfire => rep[r].tick > rep[r].loaded[s].next
         /\ row[s].enabled
         /\ row'[s].enabled = row[s].enabled /\ row'[s].next = row[s].next
         /\ \A t \in Schedules : t # s => row'[t] = row[t]
  <1>1. rep[r] \in Replica /\ row[s] \in Row
    BY DEF TypeOK
  <1>2. PICK late \in BOOLEAN :
          /\ late => rep[r].tick > rep[r].loaded[s].next + CATCHUP_MAX_DELAY
          /\ rep' = [rep EXCEPT ![r].pc = IF late THEN "reset" ELSE "run",
                                ![r].misfire = late, ![r].cur = {s}]
    <2> DEFINE late == rep[r].tick > rep[r].loaded[s].next + CATCHUP_MAX_DELAY
    <2>1. late \in BOOLEAN
      OBVIOUS
    <2>2. rep' = [rep EXCEPT ![r].pc = IF late THEN "reset" ELSE "run",
                             ![r].misfire = late, ![r].cur = {s}]
      BY Zenon DEF ClaimSchedule
    <2>3. late => rep[r].tick > rep[r].loaded[s].next + CATCHUP_MAX_DELAY
      OBVIOUS
    <2> HIDE DEF late
    <2> QED
      BY <2>1, <2>2, <2>3
  <1>3. PICK p \in {"reset", "run"} : p = IF late THEN "reset" ELSE "run"
    OBVIOUS
  <1>4. rep' = [rep EXCEPT ![r] = [rep[r] EXCEPT !.pc = p, !.misfire = late, !.cur = {s}]]
    BY <1>2, <1>3 DEF TypeOK
  <1>5. LET X == [rep[r] EXCEPT !.pc = p, !.misfire = late, !.cur = {s}]
        IN  X \in Replica /\ X.pc = p /\ X.cur = {s} /\ X.tick = rep[r].tick
            /\ X.misfire = late /\ X.todo = rep[r].todo /\ X.loaded = rep[r].loaded
    BY <1>1 DEF Replica
  <1>6. /\ rep' \in [Replicas -> Replica]
        /\ rep'[r].pc \in {"run", "reset"} /\ rep'[r].cur = {s} /\ rep'[r].tick = rep[r].tick
        /\ rep'[r].misfire = late /\ rep'[r].todo = rep[r].todo /\ rep'[r].loaded = rep[r].loaded
    BY <1>4, <1>5 DEF TypeOK
  <1>7. \A q \in Replicas : q # r => rep'[q] = rep[q]
    BY <1>4 DEF TypeOK
  <1>8. rep[r].tick \in Nat
    BY <1>1 DEF Replica
  <1>9. row' = [row EXCEPT ![s] = [row[s] EXCEPT !.last = rep[r].tick]]
    BY DEF ClaimSchedule, TypeOK
  <1>10. LET Y == [row[s] EXCEPT !.last = rep[r].tick]
         IN  /\ Y \in Row /\ Y.last = rep[r].tick /\ Y.status = row[s].status
             /\ Y.enabled = row[s].enabled /\ Y.next = row[s].next
    BY <1>1, <1>8 DEF Row
  <1>11. /\ row' \in [Schedules -> Row] /\ row'[s].last = rep[r].tick /\ row'[s].status = row[s].status
         /\ row'[s].enabled = row[s].enabled /\ row'[s].next = row[s].next
    BY <1>9, <1>10 DEF TypeOK
  <1>12. \A t \in Schedules : t # s => Kept(t) /\ row'[t] = row[t]
    BY <1>9 DEF TypeOK, Kept
  <1>13. rep[r].pc = "loop" /\ now' = now /\ disturbed' = disturbed /\ s \in rep[r].todo
    BY DEF ClaimSchedule, InHand
  <1>14. /\ row[s].status = "present" /\ row[s].enabled
         /\ row[s].last = 0 \/ row[s].last + CLAIM_GRACE < rep[r].tick
    BY DEF ClaimSchedule, Claimable, Null
  <1>15. Carried(r) /\ s \in rep'[r].todo
    BY <1>6, <1>13 DEF Carried
  <1>16. rep'[r].misfire => rep[r].tick > rep[r].loaded[s].next
    <2>1. rep[r].loaded[s].next \in Nat
      BY <1>1 DEF Replica, Row
    <2> QED
      BY <1>2, <1>6, <1>8, <2>1, ScheduleConstants
  <1> QED
    BY <1>6, <1>7, <1>11, <1>12, <1>13, <1>14, <1>15, <1>16

\* The ends of a run, with or without the lease.
LEMMA RanFacts ==
  ASSUME TypeOK, NEW r \in Replicas, NEW s \in Schedules,
         IngestionEnds(r, s) \/ ExportInProgress(r, s) \/ ExportEnds(r, s)
  PROVE  /\ rep' \in [Replicas -> Replica] /\ Quiet(r)
         /\ rep'[r].pc \in {"ran", "manualRan"} /\ rep'[r].tick = rep[r].tick
         /\ rep[r].pc # "idle"
         /\ Carried(r) /\ row' = row /\ disturbed' = disturbed
         /\ \A t \in Schedules : HasClaimed(r, t)' => SameClaim(r, t)
  <1>1. rep[r] \in Replica
    BY DEF TypeOK
  <1>2. PICK p \in {"ran", "manualRan"} :
          /\ rep' = [rep EXCEPT ![r].pc = p, ![r].rebound = TRUE]
          /\ p = "ran" => rep[r].pc \in {"run", "export"}
    BY DEF IngestionEnds, ExportInProgress, ExportEnds, Ends
  <1>3. rep' = [rep EXCEPT ![r] = [rep[r] EXCEPT !.pc = p, !.rebound = TRUE]]
    BY <1>2 DEF TypeOK
  <1>4. LET X == [rep[r] EXCEPT !.pc = p, !.rebound = TRUE]
        IN  X \in Replica /\ X.pc = p /\ X.tick = rep[r].tick
            /\ X.cur = rep[r].cur /\ X.misfire = rep[r].misfire
            /\ X.todo = rep[r].todo /\ X.loaded = rep[r].loaded
    BY <1>1 DEF Replica
  <1>5. row' = row /\ disturbed' = disturbed /\ now' = now /\ rep[r].pc # "idle"
    BY DEF IngestionEnds, ExportInProgress, ExportEnds, Asks, Exporting
  <1>6. /\ rep'[r].pc = p /\ rep'[r].tick = rep[r].tick
        /\ rep'[r].cur = rep[r].cur /\ rep'[r].misfire = rep[r].misfire
        /\ rep'[r].todo = rep[r].todo /\ rep'[r].loaded = rep[r].loaded
    BY <1>3, <1>4 DEF TypeOK
  <1>7. Carried(r) /\ \A t \in Schedules : HasClaimed(r, t)' => SameClaim(r, t)
    BY <1>2, <1>6 DEF Carried, HasClaimed, SameClaim
  <1> QED
    BY <1>3, <1>4, <1>5, <1>7 DEF TypeOK, Quiet, Kept

\* An export that takes the lease stays in the run it belongs to.
LEMMA AcquireFacts ==
  ASSUME TypeOK, NEW r \in Replicas, NEW s \in Schedules, AcquireLease(r, s)
  PROVE  /\ rep' \in [Replicas -> Replica] /\ Quiet(r)
         /\ rep[r].pc \in {"run", "manual"} /\ rep[r].cur = {s}
         /\ rep'[r].pc = Begins(r) /\ rep'[r].tick = rep[r].tick /\ rep'[r].cur = {s}
         /\ rep'[r].since = now
         /\ Carried(r) /\ row' = row /\ disturbed' = disturbed
         /\ \A t \in Schedules : HasClaimed(r, t)' => SameClaim(r, t)
  <1>1. rep[r] \in Replica /\ now \in Nat
    BY DEF TypeOK
  <1>2. PICK p \in {"export", "manualExport"} : p = Begins(r)
    BY DEF Begins
  <1>6. rep' = [rep EXCEPT ![r].pc = p, ![r].since = now]
    BY <1>2 DEF AcquireLease
  <1>7. rep[r].pc \in {"run", "manual"} /\ rep[r].cur = {s}
    BY DEF AcquireLease, Asks
  <1>3. rep' = [rep EXCEPT ![r] = [rep[r] EXCEPT !.pc = p, !.since = now]]
    BY <1>6 DEF TypeOK
  <1>4. LET X == [rep[r] EXCEPT !.pc = p, !.since = now]
        IN  X \in Replica /\ X.pc = p /\ X.tick = rep[r].tick /\ X.cur = rep[r].cur /\ X.since = now
            /\ X.misfire = rep[r].misfire /\ X.todo = rep[r].todo /\ X.loaded = rep[r].loaded
    BY <1>1 DEF Replica
  <1>5. row' = row /\ disturbed' = disturbed /\ now' = now
    BY DEF AcquireLease
  <1>8. /\ rep'[r].pc = p /\ rep'[r].tick = rep[r].tick
        /\ rep'[r].cur = rep[r].cur /\ rep'[r].misfire = rep[r].misfire
        /\ rep'[r].todo = rep[r].todo /\ rep'[r].loaded = rep[r].loaded
    BY <1>3, <1>4 DEF TypeOK
  <1>9. Carried(r) /\ \A t \in Schedules : HasClaimed(r, t)' => SameClaim(r, t)
    BY <1>2, <1>7, <1>8 DEF Carried, HasClaimed, SameClaim, Begins
  <1> QED
    BY <1>2, <1>3, <1>4, <1>5, <1>7, <1>9 DEF TypeOK, Quiet, Kept

\* Reading the row again starts no run.
LEMMA ReadFacts ==
  ASSUME TypeOK, NEW r \in Replicas, NEW s \in Schedules, ReadRow(r, s)
  PROVE  /\ rep' \in [Replicas -> Replica] /\ Quiet(r)
         /\ rep'[r].pc \in {"idle", "loop", "plan"}
         /\ rep'[r].pc # "idle" => rep'[r].tick = rep[r].tick /\ rep[r].pc # "idle"
         /\ Carried(r) /\ row' = row /\ disturbed' = disturbed
         /\ \A t \in Schedules : HasClaimed(r, t)' => SameClaim(r, t)
         /\ rep'[r].pc = "plan" =>
              /\ HasClaimed(r, s)
              /\ rep'[r].seen = {row[s]} \/ rep'[r].seen = {rep[r].loaded[s]}
  <1>1. rep[r] \in Replica /\ row[s] \in Row /\ rep[r].loaded[s] \in Row
    BY DEF TypeOK, Replica
  <1>2. PICK z \in Row : z = IF rep[r].rebound THEN row[s] ELSE rep[r].loaded[s]
    BY <1>1
  <1>3. PICK X : X = IF row[s].status # "present" THEN Continue(rep[r], s)
                     ELSE [rep[r] EXCEPT !.pc = "plan", !.seen = {z}]
    OBVIOUS
  <1>4. rep' = [rep EXCEPT ![r] = X]
    BY <1>2, <1>3 DEF ReadRow
  <1>5. LET Y == [rep[r] EXCEPT !.pc = "plan", !.seen = {z}]
        IN  Y \in Replica /\ Y.pc = "plan" /\ Y.tick = rep[r].tick
            /\ Y.cur = rep[r].cur /\ Y.misfire = rep[r].misfire /\ Y.seen = {z}
            /\ Y.todo = rep[r].todo /\ Y.loaded = rep[r].loaded
    BY <1>1, <1>2 DEF Replica
  <1>6. X \in Replica /\ X.pc \in {"idle", "loop", "plan"} /\ (X.pc # "idle" => X.tick = rep[r].tick)
    BY <1>1, <1>3, <1>5, ContinueType
  <1>7. row' = row /\ disturbed' = disturbed /\ now' = now /\ rep[r].pc # "idle"
    BY DEF ReadRow
  <1>8. rep'[r] = X
    BY <1>4 DEF TypeOK
  <1>9. CASE row[s].status # "present"
    <2>1. Carried(r) /\ rep'[r].pc \in {"idle", "loop"}
      BY <1>1, <1>3, <1>8, <1>9, ContinueType DEF Carried
    <2> QED
      BY <1>4, <1>6, <1>7, <2>1 DEF TypeOK, Quiet, Kept, HasClaimed
  <1>10. CASE row[s].status = "present"
    <2>1. HasClaimed(r, s)
      BY DEF ReadRow, HasClaimed
    <2>2. /\ rep'[r].pc = "plan" /\ rep'[r].tick = rep[r].tick
          /\ rep'[r].cur = rep[r].cur /\ rep'[r].misfire = rep[r].misfire /\ rep'[r].seen = {z}
          /\ rep'[r].todo = rep[r].todo /\ rep'[r].loaded = rep[r].loaded
      BY <1>3, <1>5, <1>8, <1>10
    <2>3. \A t \in Schedules : HasClaimed(r, t)' => SameClaim(r, t)
      BY <2>1, <2>2 DEF HasClaimed, SameClaim
    <2>4. Carried(r)
      BY <2>2 DEF Carried
    <2> QED
      BY <1>2, <1>4, <1>6, <1>7, <2>1, <2>2, <2>3, <2>4 DEF TypeOK, Quiet, Kept
  <1> QED
    BY <1>9, <1>10

\* A planned row is a row.
LEMMA PlannedType ==
  ASSUME TypeOK, NEW r \in Replicas, NEW s \in Schedules, NEW z \in Row
  PROVE  /\ Planned(r, s, z) \in Row
         /\ Planned(r, s, z).enabled = z.enabled
         /\ z.enabled => Planned(r, s, z).next = NextRun(z.spec, IF rep[r].misfire THEN rep[r].tick
                                                                 ELSE rep[r].loaded[s].next)
  <1>1. rep[r] \in Replica /\ rep[r].tick \in Nat /\ rep[r].loaded[s] \in Row /\ rep[r].loaded[s].next \in Nat
    BY DEF TypeOK, Replica, Row
  <1>2. z.spec \in Specs /\ z.next \in Nat
    BY DEF Row
  <1>3. NextRun(z.spec, rep[r].tick) \in Nat /\ NextRun(z.spec, rep[r].loaded[s].next) \in Nat
    BY <1>1, <1>2, NextRunType
  <1>4. PICK n \in Nat :
          /\ Planned(r, s, z) = [z EXCEPT !.next = n]
          /\ z.enabled => n = NextRun(z.spec, IF rep[r].misfire THEN rep[r].tick
                                              ELSE rep[r].loaded[s].next)
    <2>1. CASE rep[r].misfire
      BY <2>1, <1>2, <1>3 DEF Planned
    <2>2. CASE ~rep[r].misfire
      BY <2>2, <1>3 DEF Planned, Null
    <2> QED
      BY <2>1, <2>2
  <1>5. LET X == [z EXCEPT !.next = n] IN X \in Row /\ X.enabled = z.enabled /\ X.next = n
    BY DEF Row
  <1> QED
    BY <1>4, <1>5

\* Writing the plan touches no claim, ends the work on the row, and disturbs the
\* schedule if the replica has overslept.
LEMMA PlanFacts ==
  ASSUME TypeOK, NEW r \in Replicas, NEW s \in Schedules, WritePlan(r, s)
  PROVE  /\ rep' \in [Replicas -> Replica] /\ Quiet(r)
         /\ rep'[r].pc \in {"idle", "loop"}
         /\ rep'[r].pc = "loop" => rep'[r].tick = rep[r].tick /\ rep[r].pc # "idle"
         /\ Carried(r) /\ s \notin rep'[r].todo
         /\ HasClaimed(r, s) /\ rep[r].pc = "plan"
         /\ disturbed' = IF Overslept(r) THEN disturbed \union {s} ELSE disturbed
         /\ \A t \in Schedules : t # s => row'[t] = row[t]
         /\ row'[s].enabled = row[s].enabled
         /\ \/ row'[s].next = row[s].next
            \/ \E z \in rep[r].seen : row'[s].next = Planned(r, s, z).next
  <1>1. rep[r] \in Replica /\ row[s] \in Row /\ rep[r].seen \subseteq Row
    BY DEF TypeOK, Replica
  <1>2. /\ now' = now /\ rep[r].pc = "plan" /\ rep[r].cur = {s}
        /\ disturbed' = IF Overslept(r) THEN disturbed \union {s} ELSE disturbed
    BY DEF WritePlan
  <1>3. disturbed' \subseteq Schedules /\ HasClaimed(r, s)
    BY <1>2 DEF TypeOK, HasClaimed
  <1>4. CASE row[s].status = "present"
    <2>1. PICK z \in rep[r].seen : row' = [row EXCEPT ![s] = Merge(row[s], z, Planned(r, s, z))]
      BY <1>4 DEF WritePlan
    <2>2. z \in Row /\ Planned(r, s, z) \in Row /\ Planned(r, s, z).enabled = z.enabled
      BY <2>1, <1>1, PlannedType
    <2>3. PICK m \in Row :
            /\ m = Merge(row[s], z, Planned(r, s, z))
            /\ m.last = row[s].last /\ m.status = row[s].status /\ m.enabled = row[s].enabled
            /\ m.next = row[s].next \/ m.next = Planned(r, s, z).next
      BY <2>2, <1>1, MergeType
    <2>4. row' \in [Schedules -> Row] /\ \A t \in Schedules : Kept(t)
      BY <2>1, <2>3 DEF TypeOK, Kept
    <2>5. /\ \A t \in Schedules : t # s => row'[t] = row[t]
          /\ row'[s].enabled = row[s].enabled
          /\ row'[s].next = row[s].next \/ row'[s].next = Planned(r, s, z).next
      BY <2>1, <2>3 DEF TypeOK
    <2>6. rep' = [rep EXCEPT ![r] = Continue(rep[r], s)]
      BY <1>4 DEF WritePlan
    <2>7. rep' \in [Replicas -> Replica] /\ rep'[r] = Continue(rep[r], s)
      BY <2>6, <1>1, ContinueType DEF TypeOK
    <2>8. \A q \in Replicas : q # r => rep'[q] = rep[q]
      BY <2>6 DEF TypeOK
    <2>9. Carried(r) /\ s \notin rep'[r].todo
      BY <2>7, <1>1, ContinueType DEF Carried
    <2> QED
      BY <2>1, <2>4, <2>5, <2>7, <2>8, <2>9, <1>1, <1>2, <1>3, ContinueType DEF Quiet
  <1>5. CASE row[s].status # "present"
    <2>1. row' = row /\ rep' = [rep EXCEPT ![r] = IdleReplica]
      BY <1>5 DEF WritePlan
    <2>2. rep'[r] = IdleReplica
      BY <2>1 DEF TypeOK
    <2>3. Carried(r) /\ s \notin rep'[r].todo
      BY <2>2, StartTypes DEF Carried
    <2> QED
      BY <2>1, <2>2, <2>3, <1>2, <1>3, StartTypes DEF TypeOK, Quiet, Kept
  <1> QED
    BY <1>4, <1>5

\* A crash leaves the rows and the leases as they are.
LEMMA CrashFacts ==
  ASSUME TypeOK, NEW r \in Replicas, Crash(r)
  PROVE  /\ rep' \in [Replicas -> Replica] /\ Quiet(r) /\ rep'[r].pc = "idle"
         /\ Carried(r) /\ row' = row /\ disturbed' = disturbed
  BY StartTypes DEF Crash, TypeOK, Quiet, Kept, Carried

\* An edited row is a row.
LEMMA EditedType ==
  ASSUME TypeOK, NEW z \in Row, NEW p \in Specs, NEW e \in BOOLEAN
  PROVE  Edited(z, p, e) \in Row
  <1>1. PICK n \in Nat : n = IF e THEN NextRun(p, now) ELSE Null
    BY NextRunType DEF TypeOK, Null
  <1>2. PICK v \in Nat : v = z.version + 1
    BY DEF Row
  <1>3. Edited(z, p, e) = [z EXCEPT !.spec = p, !.enabled = e, !.version = v, !.next = n]
    BY <1>1, <1>2 DEF Edited, Row
  <1> QED
    BY <1>3 DEF Row

\* What a request means to make of a row is a row.
LEMMA RequestType ==
  ASSUME TypeOK, NEW s \in Schedules, NEW n \in Nat, NEW e \in BOOLEAN
  PROVE  /\ [row[s] EXCEPT !.next = n] \in Row
         /\ [row[s] EXCEPT !.enabled = e, !.next = n] \in Row
  <1>1. row[s] \in Row
    BY DEF TypeOK
  <1> QED
    BY <1>1 DEF Row

\* A request changes nothing before its commit.
LEMMA RequestFacts ==
  ASSUME TypeOK, NEW u \in Users, NEW s \in Schedules,
         UpdateCheck(u, s) \/ RunNow(u, s) \/ Pause(u, s) \/ Resume(u, s)
  PROVE  /\ edit' \in [Users -> Edit]
         /\ row' = row /\ rep' = rep /\ now' = now /\ lease' = lease
         /\ disturbed' = disturbed
         /\ events' \in 0 .. MaxEvents
  <1>1. row[s] \in Row /\ edit[u] \in Edit /\ now \in Nat /\ row[s].spec \in Specs /\ row[s].next \in Nat
    BY DEF TypeOK, Row
  <1>2. \E c \in Row : Request(u, s, c)
    <2>1. CASE UpdateCheck(u, s)
      <3>1. PICK p \in Specs, e \in BOOLEAN : Request(u, s, Edited(row[s], p, e))
        BY <2>1 DEF UpdateCheck
      <3> QED
        BY <1>1, <3>1, EditedType
    <2>2. CASE RunNow(u, s)
      BY <2>2, <1>1, RequestType DEF RunNow
    <2>3. CASE Pause(u, s)
      <3>1. PICK n \in Nat : n = IF s \in Exports THEN row[s].next ELSE Null
        BY <1>1 DEF Null
      <3>2. PICK c : /\ c = [row[s] EXCEPT !.enabled = FALSE,
                                          !.next = IF s \in Exports THEN row[s].next ELSE Null]
                     /\ Request(u, s, c)
        BY <2>3 DEF Pause
      <3>3. c = [row[s] EXCEPT !.enabled = FALSE, !.next = n]
        BY <3>1, <3>2
      <3> QED
        BY <3>2, <3>3, RequestType
    <2>4. CASE Resume(u, s)
      <3>1. NextRun(row[s].spec, now) \in Nat
        BY <1>1, NextRunType
      <3> QED
        BY <2>4, <3>1, RequestType DEF Resume
    <2> QED
      BY <2>1, <2>2, <2>3, <2>4
  <1>3. PICK c \in Row : Request(u, s, c)
    BY <1>2
  <1>4. [pc |-> "checked", cur |-> {s}, old |-> {row[s]}, new |-> {c}] \in Edit
    BY <1>1 DEF Edit
  <1>5. /\ edit' \in [Users -> Edit]
        /\ row' = row /\ rep' = rep /\ now' = now /\ lease' = lease
        /\ disturbed' = disturbed
    BY <1>3, <1>4 DEF Request, TypeOK
  <1>6. events' \in 0 .. MaxEvents
    BY ScheduleConstants DEF TypeOK, UpdateCheck, RunNow, Pause, Resume, Event
  <1> QED
    BY <1>5, <1>6

\* A request changes columns of a row, never its claim.
LEMMA EditFacts ==
  ASSUME TypeOK, NEW u \in Users, NEW s \in Schedules, EditStep(u, s)
  PROVE  /\ edit' \in [Users -> Edit]
         /\ row' \in [Schedules -> Row] /\ \A t \in Schedules : Kept(t)
         /\ rep' = rep /\ now' = now /\ lease' = lease
         /\ disturbed \subseteq disturbed' /\ disturbed' \subseteq Schedules
         /\ \A t \in Schedules : t \in disturbed' \/ row'[t] = row[t]
         /\ events' \in 0 .. MaxEvents
  <1>1. row[s] \in Row /\ edit[u] \in Edit
    BY DEF TypeOK
  <1>2. CASE UpdateCheck(u, s) \/ RunNow(u, s) \/ Pause(u, s) \/ Resume(u, s)
    BY <1>2, RequestFacts DEF TypeOK, Kept
  <1>3. CASE UpdateCommit(u, s)
    <2>1. /\ edit' \in [Users -> Edit]
          /\ rep' = rep /\ now' = now /\ lease' = lease /\ events' \in 0 .. MaxEvents
          /\ disturbed' = disturbed \union {s} /\ disturbed' \subseteq Schedules
      BY <1>3, StartTypes DEF UpdateCommit, TypeOK
    <2>2. CASE row[s].status # "present"
      BY <1>3, <2>1, <2>2 DEF UpdateCommit, TypeOK, Kept
    <2>3. CASE row[s].status = "present"
      <3>1. PICK old \in edit[u].old, c \in edit[u].new : row' = [row EXCEPT ![s] = Merge(row[s], old, c)]
        BY <1>3, <2>3 DEF UpdateCommit
      <3>2. old \in Row /\ c \in Row
        BY <1>1, <3>1 DEF Edit
      <3>7. PICK m \in Row : m = Merge(row[s], old, c) /\ m.last = row[s].last /\ m.status = row[s].status
        BY <1>1, <3>2, MergeType
      <3>8. /\ row' \in [Schedules -> Row] /\ \A t \in Schedules : Kept(t)
            /\ \A t \in Schedules : t # s => row'[t] = row[t]
        BY <3>1, <3>7 DEF TypeOK, Kept
      <3> QED
        BY <2>1, <3>8
    <2> QED
      BY <2>2, <2>3
  <1> QED
    BY <1>2, <1>3 DEF EditStep

\* A request that exports neither reads nor writes a claim.
LEMMA ManualFacts ==
  ASSUME TypeOK, NEW r \in Replicas, NEW s \in Schedules, ManualRun(r, s) \/ ManualDone(r, s)
  PROVE  /\ rep' \in [Replicas -> Replica] /\ Quiet(r)
         /\ rep'[r].pc \in {"idle", "manual"}
         /\ rep'[r].pc = "manual" => rep'[r].tick = now
         /\ Carried(r) /\ row' = row /\ disturbed' = disturbed
         /\ lease' = lease /\ edit' = edit
         /\ events' \in 0 .. MaxEvents
  <1>1. now \in Nat /\ IdleReplica \in Replica /\ IdleReplica.pc = "idle" /\ IdleReplica.todo = {}
    BY StartTypes DEF TypeOK
  <1>2. PICK X : X = [IdleReplica EXCEPT !.pc = "manual", !.tick = now, !.cur = {s}]
    OBVIOUS
  <1>3. X \in Replica
    BY <1>1, <1>2 DEF Replica
  <1>4. X.pc = "manual" /\ X.tick = now /\ X.todo = {}
    BY <1>1, <1>2 DEF Replica
  <1>5. rep' = [rep EXCEPT ![r] = X] \/ rep' = [rep EXCEPT ![r] = IdleReplica]
    BY <1>2 DEF ManualRun, ManualDone
  <1>6. /\ rep' \in [Replicas -> Replica]
        /\ \A q \in Replicas : q # r => rep'[q] = rep[q]
        /\ rep'[r].pc \in {"idle", "manual"}
        /\ rep'[r].pc = "manual" => rep'[r].tick = now
        /\ rep'[r].todo = {}
    BY <1>1, <1>3, <1>4, <1>5 DEF TypeOK
  <1>7. /\ row' = row /\ now' = now /\ lease' = lease /\ edit' = edit /\ disturbed' = disturbed
        /\ events' \in 0 .. MaxEvents
    BY ScheduleConstants DEF ManualRun, ManualDone, Event, TypeOK
  <1> QED
    BY <1>6, <1>7 DEF TypeOK, Quiet, Kept, Carried

\* A row is created at most once, and a deleted row is gone for good.
LEMMA EnsureFacts ==
  ASSUME TypeOK, NEW s \in Schedules, EnsureForScope(s) \/ DeleteSchedule(s)
  PROVE  /\ row' \in [Schedules -> Row]
         /\ \A t \in Schedules : t # s => Kept(t) /\ row'[t] = row[t]
         /\ EnsureForScope(s) => row[s].status = "absent" /\ row'[s].enabled
         /\ DeleteSchedule(s) => row'[s].status = "deleted"
         /\ rep' = rep /\ now' = now /\ disturbed' = disturbed
  <1>1. CASE EnsureForScope(s)
    <2>1. PICK p \in Specs :
            row' = [row EXCEPT ![s] = [status |-> "present", enabled |-> TRUE, spec |-> p,
                                       version |-> 1, next |-> NextRun(p, now), last |-> Null]]
      BY <1>1 DEF EnsureForScope
    <2>2. NextRun(p, now) \in Nat
      BY <2>1, NextRunType DEF TypeOK
    <2>3. [status |-> "present", enabled |-> TRUE, spec |-> p,
           version |-> 1, next |-> NextRun(p, now), last |-> Null] \in Row
      BY <2>2 DEF Row, Null
    <2>4. row[s].status = "absent" /\ ~DeleteSchedule(s)
      BY <1>1 DEF EnsureForScope, DeleteSchedule
    <2>5. rep' = rep /\ now' = now /\ disturbed' = disturbed
      BY <1>1 DEF EnsureForScope
    <2> QED
      BY <2>1, <2>3, <2>4, <2>5 DEF TypeOK, Kept
  <1>2. CASE DeleteSchedule(s)
    <2>1. [NoRow EXCEPT !.status = "deleted"] \in Row /\ [NoRow EXCEPT !.status = "deleted"].status = "deleted"
      BY StartTypes DEF Row
    <2>2. ~EnsureForScope(s)
      BY <1>2 DEF EnsureForScope, DeleteSchedule
    <2> QED
      BY <1>2, <2>1, <2>2 DEF DeleteSchedule, TypeOK, Kept
  <1> QED
    BY <1>1, <1>2

-----------------------------------------------------------------------------
\* A step of replica r, whichever it is.
LEMMA ReplicaTypes ==
  ASSUME TypeOK, NEW r \in Replicas, ReplicaStep(r) \/ Crash(r)
  PROVE  TypeOK'
  <1>1. rep' \in [Replicas -> Replica] /\ row' \in [Schedules -> Row] /\ disturbed' \subseteq Schedules
    BY LoadDueFacts, RefusedFacts, ClaimFacts, RanFacts, AcquireFacts, ReadFacts, PlanFacts, CrashFacts,
       ManualFacts DEF ReplicaStep, Quiet, TypeOK
  <1>2. now' = now /\ edit' = edit
    BY DEF ReplicaStep, LoadDue, ClaimRefused, ClaimSchedule, IngestionEnds, AcquireLease,
           ExportInProgress, ExportEnds, ReadRow, WritePlan, ManualDone, Crash
  <1>3. events' \in 0 .. MaxEvents
    <2>1. CASE ReplicaStep(r)
      BY <2>1 DEF TypeOK, ReplicaStep, LoadDue, ClaimRefused, ClaimSchedule, IngestionEnds,
                  AcquireLease, ExportInProgress, ExportEnds, ReadRow, WritePlan, ManualDone
    <2>2. CASE Crash(r)
      BY <2>2, ScheduleConstants DEF TypeOK, Crash, Event
    <2> QED
      BY <2>1, <2>2
  <1>4. lease' \in [Schedules -> Lease]
    <2>1. ASSUME NEW s \in Schedules, AcquireLease(r, s)
          PROVE  lease' \in [Schedules -> Lease]
      <3>1. now + LeaseTtl \in Nat
        BY ScheduleConstants DEF TypeOK
      <3>2. [owner |-> {r}, until |-> now + LeaseTtl] \in Lease
        BY <3>1 DEF Lease
      <3> QED
        BY <2>1, <3>2 DEF AcquireLease, TypeOK
    <2>2. ASSUME NEW s \in Schedules, ExportEnds(r, s)
          PROVE  lease' \in [Schedules -> Lease]
      BY <2>2, StartTypes DEF ExportEnds, TypeOK
    <2>3. CASE lease' = lease
      BY <2>3 DEF TypeOK
    <2> QED
      BY <2>1, <2>2, <2>3
         DEF ReplicaStep, LoadDue, ClaimRefused, ClaimSchedule, IngestionEnds,
             ExportInProgress, ReadRow, WritePlan, ManualDone, Crash
  <1> QED
    BY <1>1, <1>2, <1>3, <1>4 DEF TypeOK

\* Types are preserved by every step.
LEMMA TypeStep == TypeOK /\ [Next]_vars => TypeOK'
  <1> SUFFICES ASSUME TypeOK, [Next]_vars PROVE TypeOK'
    OBVIOUS
  <1>1. ASSUME NEW s \in Schedules, EnsureForScope(s) \/ DeleteSchedule(s)
        PROVE  TypeOK'
    BY <1>1, EnsureFacts DEF TypeOK, EnsureForScope, DeleteSchedule
  <1>2. ASSUME NEW u \in Users, NEW s \in Schedules, EditStep(u, s)
        PROVE  TypeOK'
    BY <1>2, EditFacts DEF TypeOK
  <1>5. ASSUME NEW r \in Replicas, NEW s \in Schedules, ManualRun(r, s)
        PROVE  TypeOK'
    BY <1>5, ManualFacts DEF TypeOK, Quiet
  <1>3. CASE Tick
    BY <1>3, ScheduleConstants DEF TypeOK, Tick
  <1>4. CASE UNCHANGED vars
    BY <1>4 DEF TypeOK, vars
  <1> QED
    BY <1>1, <1>2, <1>3, <1>4, <1>5, ReplicaTypes DEF Next

\* The initial state has the types.
LEMMA TypeInit == Init => TypeOK
  BY StartTypes, ScheduleConstants DEF Init, TypeOK

\* Rows, runs, leases and edits keep their types for any number of schedules,
\* replicas and users.
THEOREM TypeCorrect == Spec => []TypeOK
  BY TypeInit, TypeStep, PTL DEF Spec

-----------------------------------------------------------------------------
(***************************************************************************)
(* The guarded claim.  A claim writes the tick of its replica over the     *)
(* last claim only if that is older than CLAIM_GRACE; hence the row of a   *)
(* schedule remembers a tick at least as young as that of any replica that *)
(* has claimed it, from the claim to the plan, and two of them are more    *)
(* than CLAIM_GRACE apart.                                                 *)
(***************************************************************************)
TicksPast == \A r \in Replicas : rep[r].pc # "idle" => rep[r].tick \in 1 .. now

ClaimRemembered ==
  \A r \in Replicas, s \in Schedules :
    HasClaimed(r, s) => /\ row[s].status # "absent"
                        /\ row[s].status = "present" => row[s].last >= rep[r].tick

ClaimsApart ==
  \A r, q \in Replicas, s \in Schedules :
    (r # q /\ HasClaimed(r, s) /\ HasClaimed(q, s))
      => \/ rep[r].tick + CLAIM_GRACE < rep[q].tick
         \/ rep[q].tick + CLAIM_GRACE < rep[r].tick

RunInv == TicksPast /\ ClaimRemembered /\ ClaimsApart

\* Of two replicas that have claimed a schedule one has overslept its claim.
LEMMA OneAwake ==
  ASSUME TypeOK, RunInv, NEW r \in Replicas, NEW q \in Replicas, NEW s \in Schedules,
         r # q, HasClaimed(r, s), HasClaimed(q, s)
  PROVE  Overslept(r) \/ Overslept(q)
  <1>1. rep[r].tick \in 1 .. now /\ rep[q].tick \in 1 .. now
    BY DEF RunInv, TicksPast, HasClaimed
  <1>2. \/ rep[r].tick + CLAIM_GRACE < rep[q].tick
        \/ rep[q].tick + CLAIM_GRACE < rep[r].tick
    BY DEF RunInv, ClaimsApart
  <1>3. now \in Nat
    BY DEF TypeOK
  <1> QED
    BY <1>1, <1>2, <1>3, ScheduleConstants DEF Overslept

\* What the invariant is for.
LEMMA RunInvSuffices == TypeOK /\ RunInv => ExclusiveRun
  <1> SUFFICES ASSUME TypeOK, RunInv, NEW r \in Replicas, NEW q \in Replicas, NEW s \in Schedules,
                      r # q, Running(r, s), Running(q, s)
               PROVE  Overslept(r) \/ Overslept(q)
    BY DEF ExclusiveRun
  <1>1. HasClaimed(r, s) /\ HasClaimed(q, s)
    BY DEF Running, HasClaimed
  <1> QED
    BY <1>1, OneAwake

\* A step that claims nothing and starts no run.
LEMMA QuietStep ==
  ASSUME TypeOK, RunInv, NEW r \in Replicas, Quiet(r),
         rep'[r].pc # "idle" => rep'[r].tick \in 1 .. now,
         \A s \in Schedules : HasClaimed(r, s)' => HasClaimed(r, s) /\ rep'[r].tick = rep[r].tick
  PROVE  RunInv'
  <1>1. TicksPast'
    BY DEF RunInv, TicksPast, Quiet
  <1>2. \A q \in Replicas, s \in Schedules :
          HasClaimed(q, s)' => HasClaimed(q, s) /\ rep'[q].tick = rep[q].tick
    BY DEF Quiet, HasClaimed
  <1>3. ClaimRemembered'
    BY <1>2 DEF RunInv, ClaimRemembered, Quiet, Kept
  <1>4. ClaimsApart'
    BY <1>2 DEF RunInv, ClaimsApart
  <1> QED
    BY <1>1, <1>3, <1>4 DEF RunInv

\* The claim itself.
LEMMA ClaimStep ==
  ASSUME TypeOK, RunInv, NEW r \in Replicas, NEW s \in Schedules, ClaimSchedule(r, s)
  PROVE  RunInv'
  <1>1. rep[r].tick \in 1 .. now /\ now \in Nat
    BY ClaimFacts DEF RunInv, TicksPast, TypeOK
  <1>2. TicksPast'
    BY <1>1, ClaimFacts DEF RunInv, TicksPast
  <1>3. ASSUME NEW q \in Replicas, q # r, HasClaimed(q, s)
        PROVE  rep[q].tick \in Nat /\ rep[q].tick + CLAIM_GRACE < rep[r].tick
    <2>1. row[s].last >= rep[q].tick
      BY <1>3, ClaimFacts DEF RunInv, ClaimRemembered
    <2>2. rep[q].tick \in 1 .. now
      BY <1>3 DEF RunInv, TicksPast, HasClaimed
    <2>3. row[s].last \in Nat
      BY DEF TypeOK, Row
    <2>4. row[s].last = 0 \/ row[s].last + CLAIM_GRACE < rep[r].tick
      BY ClaimFacts
    <2> QED
      BY <1>1, <2>1, <2>2, <2>3, <2>4, ScheduleConstants
  <1>4. \A q \in Replicas, t \in Schedules :
          HasClaimed(q, t)' => IF q = r THEN t = s ELSE HasClaimed(q, t) /\ rep'[q].tick = rep[q].tick
    BY ClaimFacts DEF HasClaimed
  <1>5. rep'[r].tick = rep[r].tick /\ row'[s].last = rep[r].tick /\ row'[s].status = "present"
    BY ClaimFacts
  <1>6. ClaimRemembered'
    <2> SUFFICES ASSUME NEW q \in Replicas, NEW t \in Schedules, HasClaimed(q, t)'
                 PROVE  /\ row'[t].status # "absent"
                        /\ row'[t].status = "present" => row'[t].last >= rep'[q].tick
      BY DEF ClaimRemembered
    <2>1. CASE q = r
      BY <2>1, <1>1, <1>4, <1>5
    <2>2. CASE q # r /\ t = s
      <3>1. rep[q].tick \in Nat /\ rep[q].tick + CLAIM_GRACE < rep[r].tick /\ rep'[q].tick = rep[q].tick
        BY <2>2, <1>3, <1>4
      <3> QED
        BY <3>1, <2>2, <1>1, <1>5, ScheduleConstants
    <2>3. CASE q # r /\ t # s
      BY <2>3, <1>4, ClaimFacts DEF RunInv, ClaimRemembered, Kept
    <2> QED
      BY <2>1, <2>2, <2>3
  <1>7. ClaimsApart'
    <2> SUFFICES ASSUME NEW a \in Replicas, NEW b \in Replicas, NEW t \in Schedules,
                        a # b, HasClaimed(a, t)', HasClaimed(b, t)'
                 PROVE  \/ rep'[a].tick + CLAIM_GRACE < rep'[b].tick
                        \/ rep'[b].tick + CLAIM_GRACE < rep'[a].tick
      BY DEF ClaimsApart
    <2>1. CASE a = r
      BY <2>1, <1>3, <1>4, <1>5
    <2>2. CASE b = r
      BY <2>2, <1>3, <1>4, <1>5
    <2>3. CASE a # r /\ b # r
      BY <2>3, <1>4 DEF RunInv, ClaimsApart
    <2> QED
      BY <2>1, <2>2, <2>3
  <1> QED
    BY <1>2, <1>6, <1>7 DEF RunInv

\* The claim invariant is preserved by every step.
LEMMA RunStep == TypeOK /\ RunInv /\ [Next]_vars => RunInv'
  <1> SUFFICES ASSUME TypeOK, RunInv, [Next]_vars PROVE RunInv'
    OBVIOUS
  <1>1. ASSUME NEW s \in Schedules, EnsureForScope(s) \/ DeleteSchedule(s)
        PROVE  RunInv'
    <2>1. rep' = rep /\ now' = now
      BY <1>1 DEF EnsureForScope, DeleteSchedule
    <2>2. TicksPast' /\ ClaimsApart'
      BY <2>1 DEF RunInv, TicksPast, ClaimsApart, HasClaimed
    <2>3. \A q \in Replicas, t \in Schedules : HasClaimed(q, t)' => HasClaimed(q, t) /\ rep'[q].tick = rep[q].tick
      BY <2>1 DEF HasClaimed
    <2>4. \A q \in Replicas : HasClaimed(q, s) => DeleteSchedule(s) /\ row'[s].status = "deleted"
      BY <1>1, EnsureFacts DEF RunInv, ClaimRemembered
    <2>5. \A t \in Schedules : t # s => Kept(t)
      BY <1>1, EnsureFacts
    <2>6. ClaimRemembered'
      BY <2>3, <2>4, <2>5 DEF RunInv, ClaimRemembered, Kept
    <2> QED
      BY <2>2, <2>6 DEF RunInv
  <1>2. ASSUME NEW u \in Users, NEW s \in Schedules, EditStep(u, s)
        PROVE  RunInv'
    <2>1. rep' = rep /\ now' = now
      BY <1>2, EditFacts
    <2>2. \A t \in Schedules : Kept(t)
      BY <1>2, EditFacts
    <2> QED
      BY <2>1, <2>2 DEF RunInv, TicksPast, ClaimsApart, ClaimRemembered, HasClaimed, Kept
  <1>3. ASSUME NEW r \in Replicas, LoadDue(r)
        PROVE  RunInv'
    <2>1. now \in 1 .. now
      BY DEF TypeOK
    <2> QED
      BY <1>3, <2>1, LoadDueFacts, QuietStep DEF HasClaimed
  <1>4. ASSUME NEW r \in Replicas, NEW s \in Schedules, ClaimRefused(r, s)
        PROVE  RunInv'
    BY <1>4, RefusedFacts, QuietStep DEF HasClaimed, RunInv, TicksPast
  <1>5. ASSUME NEW r \in Replicas, NEW s \in Schedules, ClaimSchedule(r, s)
        PROVE  RunInv'
    BY <1>5, ClaimStep
  <1>6. ASSUME NEW r \in Replicas, NEW s \in Schedules,
               IngestionEnds(r, s) \/ ExportInProgress(r, s) \/ ExportEnds(r, s)
        PROVE  RunInv'
    BY <1>6, RanFacts, QuietStep DEF SameClaim, RunInv, TicksPast
  <1>7. ASSUME NEW r \in Replicas, NEW s \in Schedules, AcquireLease(r, s)
        PROVE  RunInv'
    BY <1>7, AcquireFacts, QuietStep DEF SameClaim, RunInv, TicksPast
  <1>8. ASSUME NEW r \in Replicas, NEW s \in Schedules, ReadRow(r, s)
        PROVE  RunInv'
    BY <1>8, ReadFacts, QuietStep DEF SameClaim, RunInv, TicksPast
  <1>9. ASSUME NEW r \in Replicas, NEW s \in Schedules, WritePlan(r, s)
        PROVE  RunInv'
    BY <1>9, PlanFacts, QuietStep DEF HasClaimed, RunInv, TicksPast
  <1>10. ASSUME NEW r \in Replicas, Crash(r)
         PROVE  RunInv'
    BY <1>10, CrashFacts, QuietStep DEF HasClaimed
  <1>11. CASE Tick
    <2>1. rep' = rep /\ row' = row /\ now' = now + 1 /\ now \in Nat
      BY <1>11 DEF Tick, TypeOK
    <2>2. TicksPast'
      BY <2>1 DEF RunInv, TicksPast
    <2>3. ClaimRemembered' /\ ClaimsApart'
      BY <2>1 DEF RunInv, ClaimRemembered, ClaimsApart, HasClaimed
    <2> QED
      BY <2>2, <2>3 DEF RunInv
  <1>12. CASE UNCHANGED vars
    BY <1>12 DEF vars, RunInv, TicksPast, ClaimRemembered, ClaimsApart, HasClaimed
  <1>13. ASSUME NEW r \in Replicas, NEW s \in Schedules, ManualRun(r, s) \/ ManualDone(r, s)
         PROVE  RunInv'
    <2>1. now \in 1 .. now
      BY DEF TypeOK
    <2> QED
      BY <1>13, <2>1, ManualFacts, QuietStep DEF HasClaimed
  <1> QED
    BY <1>1, <1>2, <1>3, <1>4, <1>5, <1>6, <1>7, <1>8, <1>9, <1>10, <1>11, <1>12, <1>13
       DEF Next, ReplicaStep

\* Nothing runs in the initial state.
LEMMA RunInit == Init => RunInv
  BY StartTypes DEF Init, RunInv, TicksPast, ClaimRemembered, ClaimsApart, HasClaimed

\* However many replicas tick, crash and stall, two of them run one schedule at
\* a time only if the tick of one is older than CLAIM_GRACE.
THEOREM ClaimExclusive == Spec => []ExclusiveRun
  <1>1. Init => TypeOK /\ RunInv
    BY TypeInit, RunInit
  <1>2. (TypeOK /\ RunInv) /\ [Next]_vars => (TypeOK /\ RunInv)'
    BY TypeStep, RunStep
  <1> QED
    BY <1>1, <1>2, RunInvSuffices, PTL DEF Spec

-----------------------------------------------------------------------------
(***************************************************************************)
(* The export lease.  Every export either still owns the lease it took, or *)
(* has been at work for the whole life of it.                              *)
(***************************************************************************)
LeaseInv ==
  \A r \in Replicas, s \in Schedules :
    Exporting(r, s) => \/ lease[s].owner = {r} /\ lease[s].until = rep[r].since + LeaseTtl
                       \/ now >= rep[r].since + LeaseTtl

\* A step that starts no export and leaves the leases alone.
LEMMA NoExportStep ==
  ASSUME TypeOK, LeaseInv, NEW r \in Replicas, Quiet(r), lease' = lease,
         rep'[r].pc \notin {"export", "manualExport"}
  PROVE  LeaseInv'
  BY DEF LeaseInv, Exporting, Quiet

\* SET NX grants a lease only when the previous one is gone or has run out.
LEMMA AcquireStep ==
  ASSUME TypeOK, LeaseInv, NEW r \in Replicas, NEW s \in Schedules, AcquireLease(r, s)
  PROVE  LeaseInv'
  <1>1. /\ lease' = [lease EXCEPT ![s] = [owner |-> {r}, until |-> now + LeaseTtl]]
        /\ ~Held(s)
    BY DEF AcquireLease
  <1>2. lease'[s].owner = {r} /\ lease'[s].until = now + LeaseTtl
    BY <1>1 DEF TypeOK
  <1>3. \A t \in Schedules : t # s => lease'[t] = lease[t]
    BY <1>1 DEF TypeOK
  <1>4. rep'[r].cur = {s} /\ rep'[r].since = now /\ now' = now
    BY AcquireFacts DEF Quiet
  <1>5. \A q \in Replicas : q # r => rep'[q] = rep[q]
    BY AcquireFacts DEF Quiet
  <1> SUFFICES ASSUME NEW q \in Replicas, NEW t \in Schedules, Exporting(q, t)'
               PROVE  \/ lease'[t].owner = {q} /\ lease'[t].until = rep'[q].since + LeaseTtl
                      \/ now' >= rep'[q].since + LeaseTtl
    BY DEF LeaseInv
  <1>6. CASE q = r
    <2>1. t = s
      BY <1>4, <1>6 DEF Exporting
    <2> QED
      BY <2>1, <1>2, <1>4, <1>6
  <1>7. CASE q # r /\ t # s
    BY <1>3, <1>4, <1>5, <1>7 DEF LeaseInv, Exporting
  <1>8. CASE q # r /\ t = s
    <2>1. Exporting(q, s) /\ rep'[q] = rep[q]
      BY <1>5, <1>8 DEF Exporting
    <2>2. \/ lease[s].owner = {q} /\ lease[s].until = rep[q].since + LeaseTtl
          \/ now >= rep[q].since + LeaseTtl
      BY <2>1 DEF LeaseInv
    <2>3. lease[s].owner = {} \/ lease[s].until <= now
      <3>1. lease[s].until \in Nat /\ now \in Nat
        BY DEF TypeOK, Lease
      <3> QED
        BY <1>1, <3>1 DEF Held
    <2>4. now >= rep[q].since + LeaseTtl
      BY <2>2, <2>3
    <2> QED
      BY <2>1, <2>4, <1>4
  <1> QED
    BY <1>6, <1>7, <1>8

\* The release deletes the lease only under the token of the export.
LEMMA ReleaseStep ==
  ASSUME TypeOK, LeaseInv, NEW r \in Replicas, NEW s \in Schedules, ExportEnds(r, s)
  PROVE  LeaseInv'
  <1>1. \A t \in Schedules : lease'[t] = lease[t] \/ lease[t].owner = {r}
    BY DEF ExportEnds, TypeOK
  <1>2. rep'[r].pc \in {"ran", "manualRan"} /\ now' = now
    BY RanFacts DEF Quiet
  <1>3. \A q \in Replicas : q # r => rep'[q] = rep[q]
    BY RanFacts DEF Quiet
  <1> SUFFICES ASSUME NEW q \in Replicas, NEW t \in Schedules, Exporting(q, t)'
               PROVE  \/ lease'[t].owner = {q} /\ lease'[t].until = rep'[q].since + LeaseTtl
                      \/ now' >= rep'[q].since + LeaseTtl
    BY DEF LeaseInv
  <1>4. q # r /\ Exporting(q, t) /\ rep'[q] = rep[q]
    BY <1>2, <1>3 DEF Exporting
  <1>5. \/ lease[t].owner = {q} /\ lease[t].until = rep[q].since + LeaseTtl
        \/ now >= rep[q].since + LeaseTtl
    BY <1>4 DEF LeaseInv
  <1>6. {q} # {r}
    BY <1>4
  <1> QED
    BY <1>1, <1>2, <1>4, <1>5, <1>6

\* The lease invariant is preserved by every step.
LEMMA LeaseStep == TypeOK /\ LeaseInv /\ [Next]_vars => LeaseInv'
  <1> SUFFICES ASSUME TypeOK, LeaseInv, [Next]_vars PROVE LeaseInv'
    OBVIOUS
  <1>1. CASE lease' = lease /\ rep' = rep /\ now' = now
    BY <1>1 DEF LeaseInv, Exporting
  <1>2. CASE Tick
    <2>1. rep' = rep /\ lease' = lease /\ now' = now + 1 /\ now \in Nat
      BY <1>2 DEF Tick, TypeOK
    <2>2. \A r \in Replicas : rep[r].since + LeaseTtl \in Nat
      BY ScheduleConstants DEF TypeOK, Replica
    <2> QED
      BY <2>1, <2>2 DEF LeaseInv, Exporting
  <1>3. ASSUME NEW r \in Replicas, LoadDue(r) \/ Crash(r)
        PROVE  LeaseInv'
    BY <1>3, LoadDueFacts, CrashFacts, NoExportStep DEF LoadDue, Crash
  <1>4. ASSUME NEW r \in Replicas, NEW s \in Schedules, ClaimRefused(r, s)
        PROVE  LeaseInv'
    BY <1>4, RefusedFacts, NoExportStep DEF ClaimRefused
  <1>5. ASSUME NEW r \in Replicas, NEW s \in Schedules, ClaimSchedule(r, s)
        PROVE  LeaseInv'
    <2>1. lease' = lease /\ now' = now
      BY <1>5 DEF ClaimSchedule
    <2>2. rep'[r].pc \notin {"export", "manualExport"} /\ \A q \in Replicas : q # r => rep'[q] = rep[q]
      BY <1>5, ClaimFacts
    <2> QED
      BY <2>1, <2>2 DEF LeaseInv, Exporting
  <1>6. ASSUME NEW r \in Replicas, NEW s \in Schedules, IngestionEnds(r, s) \/ ExportInProgress(r, s)
        PROVE  LeaseInv'
    BY <1>6, RanFacts, NoExportStep DEF IngestionEnds, ExportInProgress
  <1>7. ASSUME NEW r \in Replicas, NEW s \in Schedules, ReadRow(r, s)
        PROVE  LeaseInv'
    BY <1>7, ReadFacts, NoExportStep DEF ReadRow
  <1>8. ASSUME NEW r \in Replicas, NEW s \in Schedules, WritePlan(r, s)
        PROVE  LeaseInv'
    BY <1>8, PlanFacts, NoExportStep DEF WritePlan
  <1>9. ASSUME NEW s \in Schedules, EnsureForScope(s) \/ DeleteSchedule(s)
        PROVE  LeaseInv'
    BY <1>1, <1>9 DEF EnsureForScope, DeleteSchedule
  <1>10. ASSUME NEW u \in Users, NEW s \in Schedules, EditStep(u, s)
         PROVE  LeaseInv'
    BY <1>1, <1>10, EditFacts
  <1>12. ASSUME NEW r \in Replicas, NEW s \in Schedules, ManualRun(r, s) \/ ManualDone(r, s)
         PROVE  LeaseInv'
    BY <1>12, ManualFacts, NoExportStep
  <1>11. CASE UNCHANGED vars
    BY <1>1, <1>11 DEF vars
  <1> QED
    BY <1>2, <1>3, <1>4, <1>5, <1>6, <1>7, <1>8, <1>9, <1>10, <1>11, <1>12, AcquireStep, ReleaseStep
       DEF Next, ReplicaStep

\* Nothing is exported in the initial state.
LEMMA LeaseInit == Init => LeaseInv
  BY StartTypes DEF Init, LeaseInv, Exporting

\* Two exports of one target overlap only if one has outlived its lease,
\* whatever leases crashes have left behind.
THEOREM LeaseExclusive == Spec => []ExclusiveExport
  <1>1. Init => TypeOK /\ LeaseInv
    BY TypeInit, LeaseInit
  <1>2. (TypeOK /\ LeaseInv) /\ [Next]_vars => (TypeOK /\ LeaseInv)'
    BY TypeStep, LeaseStep
  <1>3. TypeOK /\ LeaseInv => ExclusiveExport
    BY DEF LeaseInv, Exporting, ExclusiveExport
  <1> QED
    BY <1>1, <1>2, <1>3, PTL DEF Spec

-----------------------------------------------------------------------------
(***************************************************************************)
(* The plan.  A schedule is calm if it exists and no edit and no replica   *)
(* that overslept has written its plan.  A replica that looks at a calm    *)
(* row which was planned anew since it loaded the row is refused by the    *)
(* claim, for the replica that planned it claimed it in the grace period;  *)
(* and from the claim to the plan nobody else is awake to write one.       *)
(***************************************************************************)
Calm(s) == s \notin disturbed /\ row[s].status = "present"

CalmEnabled == \A s \in Schedules : Calm(s) => row[s].enabled

\* The rows replica r has still to look at.
LoadedOf(r) ==
  \A s \in Schedules :
    s \in rep[r].todo =>
      /\ rep[r].pc # "idle"
      /\ rep[r].loaded[s].enabled
      /\ row[s].status # "absent"
      /\ (Calm(s) /\ row[s].next # rep[r].loaded[s].next)
            => (row[s].last # Null /\ row[s].last + CLAIM_GRACE >= rep[r].tick)

\* The row replica r has claimed.
ClaimOf(r) ==
  \A s \in Schedules :
    HasClaimed(r, s) =>
      /\ s \in rep[r].todo
      /\ rep[r].misfire => rep[r].tick > rep[r].loaded[s].next
      /\ (Calm(s) /\ ~Overslept(r)) =>
           /\ row[s].next = rep[r].loaded[s].next
           /\ rep[r].pc = "plan" =>
                \A z \in rep[r].seen : z.enabled /\ z.next = rep[r].loaded[s].next

PlanInv == CalmEnabled /\ \A r \in Replicas : LoadedOf(r) /\ ClaimOf(r)

\* What a replica at rest knows stays true while the rows it relies on keep plan
\* and claim.
LEMMA OthersKeep ==
  ASSUME NEW q \in Replicas, rep'[q] = rep[q], now' = now,
         disturbed \subseteq disturbed',
         \A s \in Schedules : row'[s] = row[s] \/ (s \in disturbed' /\ Kept(s))
  PROVE  (LoadedOf(q) => LoadedOf(q)') /\ (ClaimOf(q) => ClaimOf(q)')
  <1>1. \A s \in Schedules : Calm(s)' => Calm(s) /\ row'[s] = row[s]
    BY DEF Calm, Kept
  <1>2. \A s \in Schedules : row'[s].status = "absent" => row[s].status = "absent"
    BY DEF Kept
  <1>3. LoadedOf(q) => LoadedOf(q)'
    BY <1>1, <1>2 DEF LoadedOf
  <1>4. \A s \in Schedules : HasClaimed(q, s)' => HasClaimed(q, s)
    BY DEF HasClaimed
  <1>5. Overslept(q)' <=> Overslept(q)
    BY DEF Overslept
  <1>6. ClaimOf(q) => ClaimOf(q)'
    BY <1>1, <1>4, <1>5 DEF ClaimOf
  <1> QED
    BY <1>3, <1>6

\* A step of a replica that writes no row.
LEMMA StillStep ==
  ASSUME PlanInv, NEW r \in Replicas, Quiet(r), row' = row, disturbed' = disturbed,
         LoadedOf(r)', ClaimOf(r)'
  PROVE  PlanInv'
  <1>1. \A q \in Replicas : q # r => LoadedOf(q)' /\ ClaimOf(q)'
    BY OthersKeep DEF PlanInv, Quiet
  <1>2. CalmEnabled'
    BY DEF PlanInv, CalmEnabled, Calm
  <1> QED
    BY <1>1, <1>2 DEF PlanInv

\* What a replica carries on with stays loaded as it was.
LEMMA CarriedKeeps ==
  ASSUME NEW r \in Replicas, LoadedOf(r), Carried(r), row' = row, disturbed' = disturbed
  PROVE  LoadedOf(r)'
  BY DEF LoadedOf, Carried, Calm

\* A claim keeps what it relies on as long as the row is not planned.
LEMMA SameClaimKeeps ==
  ASSUME NEW r \in Replicas, ClaimOf(r), row' = row, disturbed' = disturbed, now' = now,
         rep'[r].pc # "plan",
         \A s \in Schedules : HasClaimed(r, s)' => SameClaim(r, s)
  PROVE  ClaimOf(r)'
  <1> SUFFICES ASSUME NEW s \in Schedules, HasClaimed(r, s)'
               PROVE  /\ s \in rep'[r].todo
                      /\ rep'[r].misfire => rep'[r].tick > rep'[r].loaded[s].next
                      /\ (Calm(s)' /\ ~Overslept(r)') => row'[s].next = rep'[r].loaded[s].next
    BY DEF ClaimOf
  <1>1. SameClaim(r, s)
    OBVIOUS
  <1>2. Calm(s)' => Calm(s)
    BY DEF Calm
  <1>3. Overslept(r)' <=> Overslept(r)
    BY <1>1 DEF Overslept, SameClaim
  <1> QED
    BY <1>1, <1>2, <1>3 DEF ClaimOf, SameClaim

\* The tick: whatever is due is enabled, and loaded as it is.
LEMMA LoadKeeps ==
  ASSUME TypeOK, PlanInv, NEW r \in Replicas, LoadDue(r)
  PROVE  PlanInv'
  <1>1. LoadedOf(r)'
    BY LoadDueFacts DEF LoadedOf, Due
  <1>2. ClaimOf(r)'
    BY LoadDueFacts DEF ClaimOf, HasClaimed
  <1> QED
    BY <1>1, <1>2, LoadDueFacts, StillStep

\* The steps of a replica that write no row and read none.
LEMMA IdleKeeps ==
  ASSUME TypeOK, PlanInv, NEW r \in Replicas, NEW s \in Schedules,
         ClaimRefused(r, s) \/ ManualRun(r, s) \/ ManualDone(r, s) \/ Crash(r)
  PROVE  PlanInv'
  <1>1. /\ Carried(r) /\ Quiet(r) /\ row' = row /\ disturbed' = disturbed
        /\ rep'[r].pc \in {"idle", "loop", "manual"}
    BY RefusedFacts, ManualFacts, CrashFacts
  <1>2. LoadedOf(r)'
    BY <1>1, CarriedKeeps DEF PlanInv
  <1>3. ClaimOf(r)'
    BY <1>1 DEF ClaimOf, HasClaimed
  <1> QED
    BY <1>1, <1>2, <1>3, StillStep

\* The run of a claimed schedule.
LEMMA RunKeeps ==
  ASSUME TypeOK, PlanInv, NEW r \in Replicas, NEW s \in Schedules,
         IngestionEnds(r, s) \/ ExportInProgress(r, s) \/ ExportEnds(r, s) \/ AcquireLease(r, s)
  PROVE  PlanInv'
  <1>1. /\ Carried(r) /\ Quiet(r) /\ row' = row /\ disturbed' = disturbed
        /\ rep'[r].pc # "plan"
        /\ \A t \in Schedules : HasClaimed(r, t)' => SameClaim(r, t)
    BY RanFacts, AcquireFacts DEF Begins
  <1>2. LoadedOf(r)'
    BY <1>1, CarriedKeeps DEF PlanInv
  <1>3. ClaimOf(r)'
    BY <1>1, SameClaimKeeps DEF PlanInv, Quiet
  <1> QED
    BY <1>1, <1>2, <1>3, StillStep

\* The row is read again: by then it still has the plan that was loaded.
LEMMA ReadKeeps ==
  ASSUME TypeOK, PlanInv, NEW r \in Replicas, NEW s \in Schedules, ReadRow(r, s)
  PROVE  PlanInv'
  <1>1. /\ Carried(r) /\ Quiet(r) /\ row' = row /\ disturbed' = disturbed /\ now' = now
        /\ \A t \in Schedules : HasClaimed(r, t)' => SameClaim(r, t)
    BY ReadFacts DEF Quiet
  <1>2. LoadedOf(r)'
    BY <1>1, CarriedKeeps DEF PlanInv
  <1>3. CASE rep'[r].pc # "plan"
    BY <1>1, <1>2, <1>3, SameClaimKeeps, StillStep DEF PlanInv
  <1>4. CASE rep'[r].pc = "plan"
    <2>1. HasClaimed(r, s) /\ (rep'[r].seen = {row[s]} \/ rep'[r].seen = {rep[r].loaded[s]})
      BY <1>4, ReadFacts
    <2>2. ClaimOf(r) /\ LoadedOf(r) /\ CalmEnabled
      BY DEF PlanInv
    <2>3. s \in rep[r].todo /\ rep[r].loaded[s].enabled
      BY <2>1, <2>2 DEF ClaimOf, LoadedOf
    <2>4. (Calm(s) /\ ~Overslept(r)) => row[s].next = rep[r].loaded[s].next
      BY <2>1, <2>2 DEF ClaimOf
    <2>5. (Calm(s) /\ ~Overslept(r)) =>
            \A z \in rep'[r].seen : z.enabled /\ z.next = rep[r].loaded[s].next
      BY <2>1, <2>2, <2>3, <2>4 DEF CalmEnabled
    <2>6. ASSUME NEW t \in Schedules, HasClaimed(r, t)'
          PROVE  t = s /\ SameClaim(r, s)
      <3>1. SameClaim(r, t)
        BY <1>1, <2>6
      <3>2. rep[r].cur = {t} /\ rep[r].cur = {s}
        BY <2>1, <3>1 DEF SameClaim, HasClaimed
      <3> QED
        BY <3>1, <3>2
    <2>7. (Calm(s)' => Calm(s)) /\ (SameClaim(r, s) => (Overslept(r)' <=> Overslept(r)))
      BY <1>1 DEF Calm, Overslept, SameClaim
    <2>8. ClaimOf(r)'
      <3> SUFFICES ASSUME HasClaimed(r, s)'
                   PROVE  /\ s \in rep'[r].todo
                          /\ rep'[r].misfire => rep'[r].tick > rep'[r].loaded[s].next
                          /\ (Calm(s)' /\ ~Overslept(r)') =>
                               /\ row'[s].next = rep'[r].loaded[s].next
                               /\ \A z \in rep'[r].seen : z.enabled /\ z.next = rep'[r].loaded[s].next
        BY <1>4, <2>6 DEF ClaimOf
      <3>1. SameClaim(r, s)
        BY <2>6
      <3>2. rep[r].misfire => rep[r].tick > rep[r].loaded[s].next
        BY <2>1, <2>2 DEF ClaimOf
      <3> QED
        BY <1>1, <2>3, <2>4, <2>5, <2>7, <3>1, <3>2 DEF SameClaim
    <2> QED
      BY <1>1, <1>2, <2>8, StillStep
  <1> QED
    BY <1>3, <1>4

\* The claim: a row that was planned anew since it was loaded cannot be claimed,
\* and a younger claim keeps it from the others too.
LEMMA ClaimKeeps ==
  ASSUME TypeOK, RunInv, PlanInv, NEW r \in Replicas, NEW s \in Schedules, ClaimSchedule(r, s)
  PROVE  PlanInv'
  <1>1. /\ \A t \in Schedules : t # s => row'[t] = row[t]
        /\ row'[s].status = row[s].status /\ row'[s].enabled = row[s].enabled
        /\ row'[s].next = row[s].next /\ row'[s].last = rep[r].tick
        /\ disturbed' = disturbed /\ now' = now
    BY ClaimFacts
  <1>2. \A t \in Schedules : (Calm(t)' <=> Calm(t)) /\ row'[t].next = row[t].next
                             /\ row'[t].enabled = row[t].enabled /\ row'[t].status = row[t].status
    BY <1>1 DEF Calm
  <1>3. CalmEnabled'
    BY <1>2 DEF PlanInv, CalmEnabled
  <1>4. /\ row[s].last \in Nat /\ rep[r].tick \in Nat /\ rep[r].tick > 0
        /\ row[s].last = 0 \/ row[s].last + CLAIM_GRACE < rep[r].tick
    BY ClaimFacts DEF TypeOK, Row, RunInv, TicksPast
  <1>5. \A q \in Replicas : rep[q].tick \in Nat
    BY DEF TypeOK, Replica
  <1>6. \A t \in Schedules, q \in Replicas :
          (row[t].last # Null /\ row[t].last + CLAIM_GRACE >= rep[q].tick)
            => (row'[t].last # Null /\ row'[t].last + CLAIM_GRACE >= rep[q].tick)
    BY <1>1, <1>4, <1>5, ScheduleConstants DEF Null
  <1>7. ASSUME NEW q \in Replicas
        PROVE  LoadedOf(q)'
    <2>1. \A t \in rep'[q].todo :
            /\ t \in rep[q].todo /\ rep'[q].loaded[t] = rep[q].loaded[t]
            /\ rep'[q].tick = rep[q].tick /\ rep'[q].pc # "idle"
      <3>1. CASE q = r
        BY <3>1, ClaimFacts DEF Carried
      <3>2. CASE q # r
        BY <3>2, ClaimFacts DEF PlanInv, LoadedOf, TypeOK, Replica
      <3> QED
        BY <3>1, <3>2
    <2> SUFFICES ASSUME NEW t \in Schedules, t \in rep'[q].todo
                 PROVE  /\ rep'[q].loaded[t].enabled
                        /\ row'[t].status # "absent"
                        /\ (Calm(t)' /\ row'[t].next # rep'[q].loaded[t].next)
                              => (row'[t].last # Null /\ row'[t].last + CLAIM_GRACE >= rep'[q].tick)
      BY <2>1 DEF LoadedOf
    <2>2. LoadedOf(q)
      BY DEF PlanInv
    <2>3. /\ rep[q].loaded[t].enabled
          /\ row[t].status # "absent"
          /\ (Calm(t) /\ row[t].next # rep[q].loaded[t].next)
                => (row[t].last # Null /\ row[t].last + CLAIM_GRACE >= rep[q].tick)
      BY <2>1, <2>2 DEF LoadedOf
    <2> QED
      BY <1>2, <1>6, <2>1, <2>3
  <1>8. ASSUME NEW q \in Replicas, q # r
        PROVE  ClaimOf(q)'
    <2>1. rep'[q] = rep[q] /\ ClaimOf(q)
      BY <1>8, ClaimFacts DEF PlanInv
    <2>2. \A t \in Schedules : HasClaimed(q, t)' => HasClaimed(q, t)
      BY <2>1 DEF HasClaimed
    <2>3. Overslept(q)' <=> Overslept(q)
      BY <1>1, <2>1 DEF Overslept
    <2> QED
      BY <1>2, <2>1, <2>2, <2>3 DEF ClaimOf
  <1>9. ClaimOf(r)'
    <2>1. /\ rep'[r].cur = {s} /\ rep'[r].pc # "plan" /\ s \in rep'[r].todo /\ Carried(r)
          /\ rep'[r].misfire => rep[r].tick > rep[r].loaded[s].next
      BY ClaimFacts
    <2>2. s \in rep[r].todo /\ rep'[r].loaded[s] = rep[r].loaded[s] /\ rep'[r].tick = rep[r].tick
      BY <2>1 DEF Carried
    <2>3. Calm(s) => row[s].next = rep[r].loaded[s].next
      BY <1>4, <2>2, ScheduleConstants DEF PlanInv, LoadedOf, Null
    <2>4. \A t \in Schedules : HasClaimed(r, t)' => t = s
      BY <2>1 DEF HasClaimed
    <2> QED
      BY <1>2, <2>1, <2>2, <2>3, <2>4 DEF ClaimOf
  <1> QED
    BY <1>3, <1>7, <1>8, <1>9 DEF PlanInv

\* The plan: an awake replica has the schedule to itself and has claimed it in the
\* grace period; what one that overslept writes is not calm any more.
LEMMA PlanKeeps ==
  ASSUME TypeOK, RunInv, PlanInv, NEW r \in Replicas, NEW s \in Schedules, WritePlan(r, s)
  PROVE  PlanInv'
  <1>1. /\ rep'[r].pc \in {"idle", "loop"} /\ Carried(r) /\ s \notin rep'[r].todo /\ HasClaimed(r, s)
        /\ disturbed' = IF Overslept(r) THEN disturbed \union {s} ELSE disturbed
        /\ \A t \in Schedules : t # s => row'[t] = row[t]
        /\ row'[s].enabled = row[s].enabled
        /\ now' = now /\ \A t \in Schedules : Kept(t)
        /\ \A q \in Replicas : q # r => rep'[q] = rep[q]
    BY PlanFacts DEF Quiet
  <1>2. \A t \in Schedules : Calm(t)' => Calm(t)
    BY <1>1 DEF Calm, Kept
  <1>3. CalmEnabled'
    BY <1>1, <1>2 DEF PlanInv, CalmEnabled
  <1>4. LoadedOf(r)'
    <2> SUFFICES ASSUME NEW t \in Schedules, t \in rep'[r].todo
                 PROVE  /\ rep'[r].pc # "idle"
                        /\ rep'[r].loaded[t].enabled
                        /\ row'[t].status # "absent"
                        /\ (Calm(t)' /\ row'[t].next # rep'[r].loaded[t].next)
                              => (row'[t].last # Null /\ row'[t].last + CLAIM_GRACE >= rep'[r].tick)
      BY DEF LoadedOf
    <2>1. t # s /\ row'[t] = row[t] /\ t \in rep[r].todo /\ rep'[r].loaded[t] = rep[r].loaded[t]
          /\ rep'[r].tick = rep[r].tick /\ rep'[r].pc # "idle"
      BY <1>1 DEF Carried
    <2> QED
      BY <1>2, <2>1 DEF PlanInv, LoadedOf
  <1>5. ClaimOf(r)'
    BY <1>1 DEF ClaimOf, HasClaimed
  <1>6. CASE Overslept(r)
    <2>1. disturbed \subseteq disturbed' /\ \A t \in Schedules : row'[t] = row[t] \/ (t \in disturbed' /\ Kept(t))
      BY <1>1, <1>6
    <2>2. \A q \in Replicas : q # r => LoadedOf(q)' /\ ClaimOf(q)'
      BY <1>1, <2>1, OthersKeep DEF PlanInv
    <2> QED
      BY <1>3, <1>4, <1>5, <2>2 DEF PlanInv
  <1>7. CASE ~Overslept(r)
    <2>1. /\ row[s].status = "present" => row[s].last >= rep[r].tick
          /\ rep[r].tick \in 1 .. now /\ now <= rep[r].tick + CLAIM_GRACE
          /\ row[s].last \in Nat /\ now \in Nat
      BY <1>1, <1>7, ScheduleConstants DEF RunInv, ClaimRemembered, TicksPast, HasClaimed, Overslept, TypeOK, Row
    <2>2. ASSUME NEW q \in Replicas, q # r
          PROVE  LoadedOf(q)' /\ ClaimOf(q)'
      <3>1. rep'[q] = rep[q] /\ LoadedOf(q) /\ ClaimOf(q)
        BY <1>1, <2>2 DEF PlanInv
      <3>2. Overslept(q)' <=> Overslept(q)
        BY <1>1, <3>1 DEF Overslept
      <3>3. \A t \in Schedules : HasClaimed(q, t)' => HasClaimed(q, t)
        BY <3>1 DEF HasClaimed
      <3>4. HasClaimed(q, s) => Overslept(q)
        BY <1>1, <1>7, <2>2, OneAwake
      <3>5. ClaimOf(q)'
        BY <1>1, <1>2, <3>1, <3>2, <3>3, <3>4 DEF ClaimOf
      <3>6. rep[q].pc # "idle" => rep[q].tick \in 1 .. now
        BY DEF RunInv, TicksPast
      <3>7. s \in rep[q].todo =>
              (Calm(s) => row'[s].last # Null /\ row'[s].last + CLAIM_GRACE >= rep[q].tick)
        BY <1>1, <2>1, <3>1, <3>6, ScheduleConstants DEF LoadedOf, Calm, Kept, Null
      <3>8. LoadedOf(q)'
        BY <1>1, <1>2, <3>1, <3>7 DEF LoadedOf, Kept
      <3> QED
        BY <3>5, <3>8
    <2> QED
      BY <1>3, <1>4, <1>5, <2>2 DEF PlanInv
  <1> QED
    BY <1>6, <1>7

\* Rows are created once, before anyone has loaded them, and gone when deleted.
LEMMA RowKeeps ==
  ASSUME TypeOK, RunInv, PlanInv, NEW s \in Schedules, EnsureForScope(s) \/ DeleteSchedule(s)
  PROVE  PlanInv'
  <1>1. /\ rep' = rep /\ now' = now /\ disturbed' = disturbed
        /\ \A t \in Schedules : t # s => row'[t] = row[t]
    BY EnsureFacts
  <1>2. ASSUME NEW q \in Replicas
        PROVE  LoadedOf(q)' /\ ClaimOf(q)'
    <2>1. LoadedOf(q) /\ ClaimOf(q)
      BY DEF PlanInv
    <2>2. s \notin rep[q].todo \/ (row'[s].status = "deleted" /\ ~Calm(s)')
      BY <2>1, EnsureFacts DEF LoadedOf, Calm
    <2>3. \A t \in Schedules : t # s => (Calm(t)' <=> Calm(t))
      BY <1>1 DEF Calm
    <2>4. LoadedOf(q)'
      BY <1>1, <2>1, <2>2, <2>3 DEF LoadedOf
    <2>5. \A t \in Schedules : HasClaimed(q, t)' => HasClaimed(q, t)
      BY <1>1 DEF HasClaimed
    <2>6. Overslept(q)' <=> Overslept(q)
      BY <1>1 DEF Overslept
    <2>7. ClaimOf(q)'
      BY <1>1, <2>1, <2>2, <2>3, <2>5, <2>6 DEF ClaimOf
    <2> QED
      BY <2>4, <2>7
  <1>3. CalmEnabled'
    BY <1>1, EnsureFacts DEF PlanInv, CalmEnabled, Calm
  <1> QED
    BY <1>2, <1>3 DEF PlanInv

\* What a request writes is not calm any more.
LEMMA EditKeeps ==
  ASSUME TypeOK, PlanInv, NEW u \in Users, NEW s \in Schedules, EditStep(u, s)
  PROVE  PlanInv'
  <1>1. /\ rep' = rep /\ now' = now /\ disturbed \subseteq disturbed'
        /\ \A t \in Schedules : row'[t] = row[t] \/ (t \in disturbed' /\ Kept(t))
    BY EditFacts
  <1>2. \A q \in Replicas : LoadedOf(q)' /\ ClaimOf(q)'
    BY <1>1, OthersKeep DEF PlanInv
  <1>3. CalmEnabled'
    BY <1>1 DEF PlanInv, CalmEnabled, Calm
  <1> QED
    BY <1>2, <1>3 DEF PlanInv

\* Time only wears claims off.
LEMMA TimeKeeps ==
  ASSUME TypeOK, PlanInv, Tick
  PROVE  PlanInv'
  <1>1. rep' = rep /\ row' = row /\ disturbed' = disturbed /\ now' = now + 1 /\ now \in Nat
    BY DEF Tick, TypeOK
  <1>2. \A q \in Replicas : rep[q].tick + CLAIM_GRACE \in Nat
    BY ScheduleConstants DEF TypeOK, Replica
  <1>3. \A q \in Replicas : Overslept(q) => Overslept(q)'
    BY <1>1, <1>2 DEF Overslept
  <1>4. \A t \in Schedules : Calm(t)' <=> Calm(t)
    BY <1>1 DEF Calm
  <1>5. \A q \in Replicas : LoadedOf(q)'
    BY <1>1, <1>4 DEF PlanInv, LoadedOf
  <1>6. \A q \in Replicas : ClaimOf(q)'
    BY <1>1, <1>3, <1>4 DEF PlanInv, ClaimOf, HasClaimed
  <1>7. CalmEnabled'
    BY <1>1, <1>4 DEF PlanInv, CalmEnabled
  <1> QED
    BY <1>5, <1>6, <1>7 DEF PlanInv

\* The plan invariant is preserved by every step.
LEMMA PlanStep == TypeOK /\ RunInv /\ PlanInv /\ [Next]_vars => PlanInv'
  <1> SUFFICES ASSUME TypeOK, RunInv, PlanInv, [Next]_vars PROVE PlanInv'
    OBVIOUS
  <1>1. CASE UNCHANGED vars
    BY <1>1 DEF vars, PlanInv, CalmEnabled, LoadedOf, ClaimOf, Calm, HasClaimed, Overslept
  <1>2. ASSUME NEW r \in Replicas, ReplicaStep(r)
        PROVE  PlanInv'
    BY <1>2, LoadKeeps, IdleKeeps, RunKeeps, ReadKeeps, ClaimKeeps, PlanKeeps DEF ReplicaStep
  <1>3. ASSUME NEW r \in Replicas, Crash(r)
        PROVE  PlanInv'
    <2>1. /\ Carried(r) /\ Quiet(r) /\ row' = row /\ disturbed' = disturbed
          /\ rep'[r].pc = "idle"
      BY <1>3, CrashFacts
    <2>2. LoadedOf(r)'
      BY <2>1, CarriedKeeps DEF PlanInv
    <2>3. ClaimOf(r)'
      BY <2>1 DEF ClaimOf, HasClaimed
    <2> QED
      BY <2>1, <2>2, <2>3, StillStep
  <1> QED
    BY <1>1, <1>2, <1>3, RowKeeps, EditKeeps, TimeKeeps, IdleKeeps DEF Next

\* Nothing is loaded and nothing planned in the initial state.
LEMMA PlanInit == Init => PlanInv
  BY StartTypes DEF Init, PlanInv, CalmEnabled, LoadedOf, ClaimOf, Calm, HasClaimed

\* A step that changes the plan of an undisturbed schedule is the plan of a replica
\* that is awake: it goes on from the plan it finds, or from a later tick.
LEMMA PlanAdvances ==
  ASSUME TypeOK, PlanInv, NEW r \in Replicas, NEW s \in Schedules, WritePlan(r, s),
         Calm(s), s \notin disturbed', row'[s].next # row[s].next
  PROVE  row'[s].next > row[s].next
  <1>1. HasClaimed(r, s) /\ rep[r].pc = "plan" /\ ~Overslept(r)
    BY PlanFacts
  <1>2. /\ rep[r].misfire => rep[r].tick > rep[r].loaded[s].next
        /\ row[s].next = rep[r].loaded[s].next
        /\ \A z \in rep[r].seen : z.enabled /\ z.next = rep[r].loaded[s].next
    BY <1>1 DEF PlanInv, ClaimOf
  <1>3. /\ rep[r].tick \in Nat /\ rep[r].loaded[s] \in Row /\ rep[r].seen \subseteq Row
    BY DEF TypeOK, Replica
  <1>4. rep[r].loaded[s].next \in Nat
    BY <1>3 DEF Row
  <1>5. PICK z \in rep[r].seen : row'[s].next = Planned(r, s, z).next
    BY PlanFacts
  <1>6. z \in Row /\ z.enabled /\ z.spec \in Specs
    BY <1>2, <1>3, <1>5 DEF Row
  <1>7. PICK t \in Nat : t = IF rep[r].misfire THEN rep[r].tick ELSE rep[r].loaded[s].next
    BY <1>3, <1>4
  <1>8. row'[s].next = NextRun(z.spec, t)
    BY <1>5, <1>6, <1>7, PlannedType
  <1>9. NextRun(z.spec, t) \in Nat /\ NextRun(z.spec, t) > t
    BY <1>6, NextRunType
  <1>10. t >= row[s].next
    BY <1>2, <1>3, <1>4, <1>7
  <1> QED
    BY <1>2, <1>4, <1>8, <1>9, <1>10

\* No step moves the plan of an undisturbed schedule back.
LEMMA ForwardStep ==
  ASSUME TypeOK, PlanInv, [Next]_vars, NEW s \in Schedules,
         row[s].status = "present", row'[s].status = "present", row'[s].next # row[s].next
  PROVE  row'[s].next > row[s].next \/ s \in disturbed'
  <1>1. row' # row
    OBVIOUS
  <1>2. ASSUME NEW r \in Replicas, ReplicaStep(r)
        PROVE  row'[s].next > row[s].next \/ s \in disturbed'
    <2>1. PICK t \in Schedules : ClaimSchedule(r, t) \/ WritePlan(r, t)
      BY <1>1, <1>2, LoadDueFacts, RefusedFacts, RanFacts, AcquireFacts, ReadFacts, ManualFacts
         DEF ReplicaStep
    <2>2. CASE ClaimSchedule(r, t)
      BY <2>2, ClaimFacts
    <2>3. CASE WritePlan(r, t)
      <3>1. t = s
        BY <2>3, PlanFacts
      <3>2. disturbed \subseteq disturbed'
        BY <2>3, PlanFacts
      <3> QED
        BY <2>3, <3>1, <3>2, PlanAdvances DEF Calm
    <2> QED
      BY <2>1, <2>2, <2>3
  <1>3. ASSUME NEW r \in Replicas, NEW t \in Schedules, ManualRun(r, t) \/ Crash(r)
        PROVE  FALSE
    BY <1>1, <1>3, ManualFacts, CrashFacts
  <1>4. ASSUME NEW t \in Schedules, EnsureForScope(t) \/ DeleteSchedule(t)
        PROVE  FALSE
    BY <1>4, EnsureFacts
  <1>5. ASSUME NEW u \in Users, NEW t \in Schedules, EditStep(u, t)
        PROVE  s \in disturbed'
    BY <1>5, EditFacts
  <1>6. ~Tick /\ ~UNCHANGED vars
    BY <1>1 DEF Tick, vars
  <1> QED
    BY <1>2, <1>3, <1>4, <1>5, <1>6 DEF Next

\* The plan of a schedule never moves back, however many replicas tick, crash and
\* stall, unless an edit or a replica that overslept its claim has written it.
THEOREM PlanForward == Spec => PlanMovesForward
  <1>1. Init => TypeOK /\ RunInv /\ PlanInv
    BY TypeInit, RunInit, PlanInit
  <1>2. (TypeOK /\ RunInv /\ PlanInv) /\ [Next]_vars => (TypeOK /\ RunInv /\ PlanInv)'
    BY TypeStep, RunStep, PlanStep
  <1>3. TypeOK /\ PlanInv /\ [Next]_vars =>
          [\A s \in Schedules :
             (/\ row[s].status = "present" /\ row'[s].status = "present"
              /\ row'[s].next # row[s].next)
               => (row'[s].next > row[s].next \/ s \in disturbed')]_vars
    BY ForwardStep
  <1> QED
    BY <1>1, <1>2, <1>3, PTL DEF Spec, PlanMovesForward

=============================================================================
