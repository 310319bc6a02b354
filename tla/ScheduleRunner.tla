--------------------------- MODULE ScheduleRunner ---------------------------
(***************************************************************************)
(* Tenant sync schedules: the minute tick of every worker replica loads    *)
(* the due rows, claims them one by one with a guarded UPDATE, runs the    *)
(* connector or exporter and plans the next run, while users edit the same *)
(* rows, pause and resume them, and start exports through the API.         *)
(* Exports also take a Redis lease.                                        *)
(*                                                                         *)
(* Instants are natural numbers from 1 on; 0 stands for NULL.  An UPDATE   *)
(* of the ORM writes only the columns whose value differs from what its    *)
(* session read.                                                           *)
(***************************************************************************)
EXTENDS Naturals, FiniteSets

CONSTANTS
  Schedules,    \* rows of sync_schedules that may be created
  Exports,      \* those of scope export
  Replicas,     \* processes that run run_scheduled_syncs_job or an export of the API
  Users,        \* API requests that edit schedules
  Hourly,       \* the recurrences "every n hours" (values of n) users may set
  Daily,        \* the recurrences "daily at" (instants of the day) users may set
  Day,          \* length of a day
  CLAIM_GRACE, CATCHUP_MAX_DELAY,
  LeaseTtl,     \* ttl_seconds of RetryLease
  MaxTime,      \* bound on the clock
  MaxVersion,   \* bound on the edits of one row
  MaxEvents     \* bound on crashes, and on requests that ask for no version

ASSUME ScheduleConstants ==
  /\ Exports \subseteq Schedules
  /\ Hourly \subseteq Nat \ {0}
  /\ Day \in Nat \ {0} /\ Daily \subseteq 0 .. Day - 1
  /\ Hourly \union Daily # {}
  /\ CLAIM_GRACE \in Nat /\ CATCHUP_MAX_DELAY \in Nat /\ LeaseTtl \in Nat
  /\ MaxTime \in Nat /\ MaxVersion \in Nat /\ MaxEvents \in Nat
  /\ MaxTime >= 1

VARIABLES
  now,      \* the clock
  row,      \* row[s]: the committed row of schedule s
  rep,      \* rep[r]: the local state of one run_due_schedules or run_target call
  lease,    \* lease[s]: the Redis lease of an export target
  edit,     \* edit[u]: the local state of one update request
  events,   \* number of such crashes and requests so far
  disturbed \* history: schedules whose plan has been written by an edit or by a
            \* replica that had overslept its claim

vars == <<now, row, rep, lease, edit, events, disturbed>>

Null == 0
Specs == [frequency : {"hourly"}, n : Hourly] \union [frequency : {"daily"}, n : Daily]

\* next_run_instants with count = 1: hourly steps from the given instant, the
\* others take the next matching instant of the calendar.
NextRun(spec, after) ==
  IF spec.frequency = "hourly"
  THEN after + spec.n
  ELSE after + Day - ((after + Day - spec.n) % Day)

\* next: next_run_at; last: last_scheduled_at, which the claim writes.
Row == [status : {"absent", "present", "deleted"}, enabled : BOOLEAN, spec : Specs,
        version : Nat, next : Nat, last : Nat]

\* tick: the instant the call started; todo: due rows not looked at yet; loaded:
\* rows as the first query returned them; cur: the row in hand; seen: that row
\* as last read; rebound: whether the session of the call has been replaced;
\* since: when the lease was taken.  The last three places are those of an export
\* that a request has started.
Replica == [pc : {"idle", "loop", "reset", "run", "export", "ran", "plan",
                  "manual", "manualExport", "manualRan"},
            tick : Nat, todo : SUBSET Schedules, loaded : [Schedules -> Row],
            cur : SUBSET Schedules, misfire : BOOLEAN, seen : SUBSET Row,
            rebound : BOOLEAN, since : Nat]

\* old, new: the row as it was read, and what the request makes of it.
Edit == [pc : {"idle", "checked"}, cur : SUBSET Schedules, old : SUBSET Row, new : SUBSET Row]

Lease == [owner : SUBSET Replicas, until : Nat]

FirstSpec == CHOOSE p \in Specs : TRUE
NoRow == [status |-> "absent", enabled |-> FALSE, spec |-> FirstSpec, version |-> 0,
          next |-> Null, last |-> Null]
IdleReplica == [pc |-> "idle", tick |-> 0, todo |-> {}, loaded |-> [s \in Schedules |-> NoRow],
                cur |-> {}, misfire |-> FALSE, seen |-> {}, rebound |-> FALSE, since |-> 0]
IdleEdit == [pc |-> "idle", cur |-> {}, old |-> {}, new |-> {}]
NoLease == [owner |-> {}, until |-> 0]

Init ==
  /\ now = 1
  /\ row = [s \in Schedules |-> NoRow]
  /\ rep = [r \in Replicas |-> IdleReplica]
  /\ lease = [s \in Schedules |-> NoLease]
  /\ edit = [u \in Users |-> IdleEdit]
  /\ events = 0
  /\ disturbed = {}

-----------------------------------------------------------------------------
\* ensure_for_scope inserts the default row; the unique constraint lets one of
\* several callers win.  Which recurrence is the default is left open.
EnsureForScope(s) ==
  /\ row[s].status = "absent"
  /\ \E p \in Specs :
       row' = [row EXCEPT ![s] = [status |-> "present", enabled |-> TRUE, spec |-> p,
                                  version |-> 1, next |-> NextRun(p, now), last |-> Null]]
  /\ UNCHANGED <<now, rep, lease, edit, events, disturbed>>

\* A destination is deleted, and its schedule with it; the schedule of a deleted
\* connection stays.
DeleteSchedule(s) ==
  /\ s \in Exports
  /\ row[s].status = "present"
  /\ row' = [row EXCEPT ![s] = [NoRow EXCEPT !.status = "deleted"]]
  /\ UNCHANGED <<now, rep, lease, edit, events, disturbed>>

\* Every change counts up the version and plans the next run from now on.
Edited(old, p, e) ==
  [old EXCEPT !.spec = p, !.enabled = e, !.version = @ + 1,
              !.next = IF e THEN NextRun(p, now) ELSE Null]

\* A request has read the row and means to make it new.
Request(u, s, new) ==
  /\ edit[u].pc = "idle"
  /\ row[s].status = "present"
  /\ edit' = [edit EXCEPT ![u] = [pc |-> "checked", cur |-> {s}, old |-> {row[s]},
                                  new |-> {new}]]
  /\ UNCHANGED <<now, row, rep, lease, disturbed>>

Event == events < MaxEvents /\ events' = events + 1

\* update reads the row, compares the version the caller sends and works out
\* the change; a stale version is answered with 409, no change with the row.
UpdateCheck(u, s) ==
  /\ row[s].version < MaxVersion
  /\ \E p \in Specs, e \in BOOLEAN :
       /\ <<p, e>> # <<row[s].spec, row[s].enabled>>
       /\ Request(u, s, Edited(row[s], p, e))
  /\ UNCHANGED events

\* run_schedule_now: an enabled schedule is queued for the next tick.
RunNow(u, s) ==
  /\ row[s].enabled
  /\ Request(u, s, [row[s] EXCEPT !.next = now])
  /\ Event

\* Pausing a connection or a destination disables its schedule; the plan of a
\* destination is left in the row.  Neither asks for the version.
Pause(u, s) ==
  /\ Request(u, s, [row[s] EXCEPT !.enabled = FALSE, !.next = IF s \in Exports THEN @ ELSE Null])
  /\ Event

\* Resuming a connection or activating a destination.
Resume(u, s) ==
  /\ Request(u, s, [row[s] EXCEPT !.enabled = TRUE, !.next = NextRun(row[s].spec, now)])
  /\ Event

\* The columns an UPDATE writes: what the session read, where changed.
Merge(current, old, new) ==
  [current EXCEPT !.enabled = IF new.enabled = old.enabled THEN @ ELSE new.enabled,
                  !.spec = IF new.spec = old.spec THEN @ ELSE new.spec,
                  !.version = IF new.version = old.version THEN @ ELSE new.version,
                  !.next = IF new.next = old.next THEN @ ELSE new.next]

\* The flush and commit of the request.
UpdateCommit(u, s) ==
  /\ edit[u].pc = "checked"
  /\ edit[u].cur = {s}
  /\ \E old \in edit[u].old, new \in edit[u].new :
       row' = IF row[s].status = "present"
              THEN [row EXCEPT ![s] = Merge(row[s], old, new)] ELSE row
  /\ edit' = [edit EXCEPT ![u] = IdleEdit]
  /\ disturbed' = disturbed \union {s}
  /\ UNCHANGED <<now, rep, lease, events>>

-----------------------------------------------------------------------------
Due(s) ==
  row[s].status = "present" /\ row[s].enabled /\ row[s].next # Null /\ row[s].next <= now

\* The tick: read the clock and the due rows.
LoadDue(r) ==
  /\ rep[r].pc = "idle"
  /\ \E s \in Schedules : Due(s)
  /\ rep' = [rep EXCEPT ![r] =
               [IdleReplica EXCEPT !.pc = "loop", !.tick = now,
                  !.todo = {s \in Schedules : Due(s)},
                  !.loaded = [s \in Schedules |-> IF Due(s) THEN row[s] ELSE NoRow]]]
  /\ UNCHANGED <<now, row, lease, edit, events, disturbed>>

\* The loop goes on with the next row, or the call returns.
Continue(c, s) ==
  IF c.todo \ {s} = {} THEN IdleReplica
  ELSE [c EXCEPT !.pc = "loop", !.todo = @ \ {s}, !.loaded[s] = NoRow, !.cur = {},
                 !.misfire = FALSE, !.seen = {}, !.since = 0]

\* Fault: a claim is not compared with the grace period.
ClaimableAlways(s, tick) == row[s].status = "present" /\ row[s].enabled

\* Fault: a row that was claimed once is never claimed again.
ClaimableOnce(s, tick) == row[s].status = "present" /\ row[s].enabled /\ row[s].last = Null

\* The WHERE clause of _claim_schedule: claim_cutoff is tick - CLAIM_GRACE.
Claimable(s, tick) ==
  /\ row[s].status = "present" /\ row[s].enabled
  /\ row[s].last = Null \/ row[s].last + CLAIM_GRACE < tick

\* Rows are taken in the order of the next_run_at that was loaded.
InHand(r, s) ==
  /\ rep[r].pc = "loop"
  /\ s \in rep[r].todo
  /\ \A t \in rep[r].todo : rep[r].loaded[s].next <= rep[r].loaded[t].next

ClaimRefused(r, s) ==
  /\ InHand(r, s)
  /\ ~Claimable(s, rep[r].tick)
  /\ rep' = [rep EXCEPT ![r] = Continue(rep[r], s)]
  /\ UNCHANGED <<now, row, lease, edit, events, disturbed>>

\* The guarded UPDATE and its commit.  A row that is too far overdue will only
\* be planned anew.
ClaimSchedule(r, s) ==
  /\ InHand(r, s)
  /\ Claimable(s, rep[r].tick)
  /\ row' = [row EXCEPT ![s].last = rep[r].tick]
  /\ LET late == rep[r].tick > rep[r].loaded[s].next + CATCHUP_MAX_DELAY
     IN  rep' = [rep EXCEPT ![r].pc = IF late THEN "reset" ELSE "run",
                            ![r].misfire = late, ![r].cur = {s}]
  /\ UNCHANGED <<now, lease, edit, events, disturbed>>

\* _run_ingestion returns or raises (its inside is SyncPipeline).
IngestionEnds(r, s) ==
  /\ rep[r].pc = "run"
  /\ rep[r].cur = {s} /\ s \notin Exports
  /\ rep' = [rep EXCEPT ![r].pc = "ran", ![r].rebound = TRUE]
  /\ UNCHANGED <<now, row, lease, edit, events, disturbed>>

\* run_target: the request neither looks at a claim nor leaves one.
ManualRun(r, s) ==
  /\ rep[r].pc = "idle"
  /\ s \in Exports /\ row[s].status = "present"
  /\ rep' = [rep EXCEPT ![r] = [IdleReplica EXCEPT !.pc = "manual", !.tick = now, !.cur = {s}]]
  /\ Event /\ UNCHANGED <<now, row, lease, edit, disturbed>>

Held(s) == lease[s].owner # {} /\ lease[s].until > now

\* The lease is asked for in a run of either kind.
Asks(r, s) == rep[r].pc \in {"run", "manual"} /\ rep[r].cur = {s} /\ s \in Exports
Exporting(r, s) == rep[r].pc \in {"export", "manualExport"} /\ rep[r].cur = {s}

\* The export begins, or the run is over.
Begins(r) == IF rep[r].pc = "run" THEN "export" ELSE "manualExport"
Ends(r) == IF rep[r].pc \in {"run", "export"} THEN "ran" ELSE "manualRan"

\* Fault: the lease is taken whoever holds it.
AcquireLeaseAnyway(r, s) ==
  /\ Asks(r, s)
  /\ lease' = [lease EXCEPT ![s] = [owner |-> {r}, until |-> now + LeaseTtl]]
  /\ rep' = [rep EXCEPT ![r].pc = Begins(r), ![r].since = now]
  /\ UNCHANGED <<now, row, edit, events, disturbed>>

\* Fault: the expiry is computed the wrong way round.
AcquireLeaseSwapped(r, s) ==
  /\ Asks(r, s)
  /\ ~Held(s)
  /\ lease' = [lease EXCEPT ![s] = [owner |-> {r}, until |-> LeaseTtl - now]]
  /\ rep' = [rep EXCEPT ![r].pc = Begins(r), ![r].since = now]
  /\ UNCHANGED <<now, row, edit, events, disturbed>>

\* run_export: SET key token NX EX ttl.
AcquireLease(r, s) ==
  /\ Asks(r, s)
  /\ ~Held(s)
  /\ lease' = [lease EXCEPT ![s] = [owner |-> {r}, until |-> now + LeaseTtl]]
  /\ rep' = [rep EXCEPT ![r].pc = Begins(r), ![r].since = now]
  /\ UNCHANGED <<now, row, edit, events, disturbed>>

\* The lease is taken, Redis raises, the destination is missing or not ready:
\* the run is over.
ExportInProgress(r, s) ==
  /\ Asks(r, s)
  /\ rep' = [rep EXCEPT ![r].pc = Ends(r), ![r].rebound = TRUE]
  /\ UNCHANGED <<now, row, lease, edit, events, disturbed>>

\* The export ends: the lease is deleted if it still holds this token, or left
\* to expire if Redis raises.
ExportEnds(r, s) ==
  /\ Exporting(r, s)
  /\ \/ lease' = [lease EXCEPT ![s] = IF @.owner = {r} THEN NoLease ELSE @]
     \/ UNCHANGED lease
  /\ rep' = [rep EXCEPT ![r].pc = Ends(r), ![r].rebound = TRUE]
  /\ UNCHANGED <<now, row, edit, events, disturbed>>

\* The request writes its outcome, which is left out, or fails on a row that is gone.
ManualDone(r, s) ==
  /\ rep[r].pc = "manualRan"
  /\ rep[r].cur = {s}
  /\ rep' = [rep EXCEPT ![r] = IdleReplica]
  /\ UNCHANGED <<now, row, lease, edit, events, disturbed>>

\* The row is read again to plan the next run: in a session of its own after a
\* run, which then replaces the one of the loop; by _reset_next_run in the
\* session of the loop, whose identity map may still hold the row as loaded.
ReadRow(r, s) ==
  /\ rep[r].pc \in {"reset", "ran"}
  /\ rep[r].cur = {s}
  /\ rep' = [rep EXCEPT ![r] =
               IF row[s].status # "present"
               THEN Continue(rep[r], s)
               ELSE [rep[r] EXCEPT !.pc = "plan",
                       !.seen = {IF rep[r].rebound THEN row[s] ELSE rep[r].loaded[s]}]]
  /\ UNCHANGED <<now, row, lease, edit, events, disturbed>>

\* What the row should be: after a misfire the next instant from the tick on,
\* after a run the one that follows the instant that was due.
Planned(r, s, seen) ==
  IF rep[r].misfire
  THEN [seen EXCEPT !.next = IF seen.enabled THEN NextRun(seen.spec, rep[r].tick) ELSE @]
  ELSE [seen EXCEPT !.next = IF seen.enabled THEN NextRun(seen.spec, rep[r].loaded[s].next)
                                             ELSE Null]

\* The claim no longer keeps others off.
Overslept(r) == now > rep[r].tick + CLAIM_GRACE

\* The flush and commit.  An UPDATE that finds no row raises out of the loop.
WritePlan(r, s) ==
  /\ rep[r].pc = "plan"
  /\ rep[r].cur = {s}
  /\ IF row[s].status = "present"
     THEN /\ \E seen \in rep[r].seen :
               row' = [row EXCEPT ![s] = Merge(row[s], seen, Planned(r, s, seen))]
          /\ rep' = [rep EXCEPT ![r] = Continue(rep[r], s)]
     ELSE /\ rep' = [rep EXCEPT ![r] = IdleReplica]
          /\ UNCHANGED row
  /\ disturbed' = IF Overslept(r) THEN disturbed \union {s} ELSE disturbed
  /\ UNCHANGED <<now, lease, edit, events>>

\* The worker dies; claim and lease stay as they are.
Crash(r) ==
  /\ rep[r].pc # "idle"
  /\ rep' = [rep EXCEPT ![r] = IdleReplica]
  /\ Event /\ UNCHANGED <<now, row, lease, edit, disturbed>>

Tick ==
  /\ now < MaxTime
  /\ now' = now + 1
  /\ UNCHANGED <<row, rep, lease, edit, events, disturbed>>

ReplicaStep(r) ==
  \/ LoadDue(r)
  \/ \E s \in Schedules :
       \/ ClaimRefused(r, s) \/ ClaimSchedule(r, s) \/ IngestionEnds(r, s)
       \/ AcquireLease(r, s) \/ ExportInProgress(r, s) \/ ExportEnds(r, s)
       \/ ReadRow(r, s) \/ WritePlan(r, s) \/ ManualDone(r, s)

EditStep(u, s) ==
  \/ UpdateCheck(u, s) \/ RunNow(u, s) \/ Pause(u, s) \/ Resume(u, s) \/ UpdateCommit(u, s)

Next ==
  \/ \E s \in Schedules : EnsureForScope(s) \/ DeleteSchedule(s)
  \/ \E u \in Users, s \in Schedules : EditStep(u, s)
  \/ \E r \in Replicas, s \in Schedules : ManualRun(r, s)
  \/ \E r \in Replicas : ReplicaStep(r) \/ Crash(r)
  \/ Tick

Spec == Init /\ [][Next]_vars

\* The minute tick comes back, runs end (HTTP calls have timeouts), requests
\* are committed and time passes.  Nothing obliges a user, a deletion or a
\* crash to happen.
FairSpec ==
  /\ Spec
  /\ WF_vars(Tick)
  /\ \A r \in Replicas : WF_vars(ReplicaStep(r))

-----------------------------------------------------------------------------
\* Rows, runs, leases and edits keep their types.
TypeOK ==
  /\ now \in 1 .. MaxTime
  /\ row \in [Schedules -> Row]
  /\ rep \in [Replicas -> Replica]
  /\ lease \in [Schedules -> Lease]
  /\ edit \in [Users -> Edit]
  /\ events \in 0 .. MaxEvents
  /\ disturbed \subseteq Schedules

\* From the claim to the end of a scheduled run.
Running(r, s) == rep[r].pc \in {"run", "export"} /\ rep[r].cur = {s}

\* What the guarded claim protects: two replicas run one schedule only if the
\* tick of one of them is older than CLAIM_GRACE, although a tick may claim its
\* last rows long after it read the clock.
ExclusiveRun ==
  \A r, q \in Replicas, s \in Schedules :
    (r # q /\ Running(r, s) /\ Running(q, s)) => (Overslept(r) \/ Overslept(q))

\* Two exports of one target, scheduled or started by a request, overlap only if
\* one of them has been at work for the whole life of its lease, although leases
\* are left behind by crashes and released late.
ExclusiveExport ==
  \A r, q \in Replicas, s \in Schedules :
    (r # q /\ Exporting(r, s) /\ Exporting(q, s))
      => (now >= rep[r].since + LeaseTtl \/ now >= rep[q].since + LeaseTtl)

\* The plan of a schedule never moves back to an occurrence that was dealt with,
\* or is lost, as long as nobody edits the schedule and no replica comes to plan
\* it after its claim has worn off: crashes, refused claims, skipped catch-ups and
\* a row kept in an old session never do that on their own.  One late plan is
\* enough to let replicas that are in time move the plan back later.
PlanMovesForward ==
  [][\A s \in Schedules :
       (/\ row[s].status = "present" /\ row'[s].status = "present"
        /\ row'[s].next # row[s].next)
         => (row'[s].next > row[s].next \/ s \in disturbed')]_vars

\* No due schedule is left behind: as long as its last claim can still expire,
\* it is eventually planned anew (or edited, disabled or deleted), although
\* replicas crash with the claim in hand.
DueIsServed ==
  \A s \in Schedules, n \in 1 .. MaxTime :
    (Due(s) /\ row[s].next = n)
      ~> (row[s].next # n \/ ~Due(s) \/ row[s].last + CLAIM_GRACE >= MaxTime)

=============================================================================
