------------------------- MODULE RemediationBacklog -------------------------
(***************************************************************************)
(* The durable backlog of data-quality remediation work: detectors that    *)
(* register findings, workers that claim rows under a lease, execute them  *)
(* and write outcomes, operators who requeue, ignore or patch rows, the    *)
(* Wealthfolio health bridge and the retention job                         *)
(* (reconciliation/remediation/, services/remediation.py,                  *)
(* services/wealthfolio_health_bridge.py, worker/jobs.py).                 *)
(*                                                                         *)
(* A row of data_quality_remediation_items is named <<issue, generation>>: *)
(* generation 0 has the plain deduplication key of the issue, the others   *)
(* the keys with a generation suffix.  Timestamps are kept as what the     *)
(* code compares: the time left (lease, next) or passed (resolvedAge, age) *)
(* and every count stops where no comparison can tell it from a larger     *)
(* one, so time is unbounded.  A claim token is the worker that drew it: a *)
(* worker holds a row at most once at a time.                              *)
(***************************************************************************)
EXTENDS Integers, FiniteSets

CONSTANTS
  Issues,         \* findings the detectors report
  BridgeIssues,   \* issues the Wealthfolio bridge owns
  Workers,        \* processes that run data_quality_remediation_job
  Detectors,      \* transactions that register findings
  Generations,    \* bound on the generations after the first
  ClaimLimit,     \* remediation_claim_limit
  LeaseTime,      \* max(remediation_lease_seconds, max_execution + 30)
  MaxDelay,       \* largest backoff of retry_at
  Grace,          \* resolved_grace
  Retention,      \* remediation_retention_days
  MaxVer,         \* remediation_max_verification_attempts
  MaxEvents,      \* bound on the operator calls, polls and failed jobs
  NONE            \* SQL NULL

ASSUME RemediationAssumption ==
  /\ ClaimLimit \in Nat \ {0} /\ LeaseTime \in Nat /\ MaxDelay \in Nat \ {0}
  /\ Grace \in Nat /\ Retention \in Nat /\ MaxVer \in Nat \ {0}
  /\ Generations \in Nat /\ MaxEvents \in Nat
  /\ BridgeIssues \subseteq Issues
  /\ NONE \notin Workers /\ NONE \notin Int

VARIABLES
  rows,   \* rows[k]: the committed row of key k
  work,   \* work[w]: the job of worker w, with what it has not committed
  det,    \* det[d]: what register() of detector d decided before its upsert
  events  \* number of operator calls, polls and failed jobs so far

vars == <<rows, work, det, events>>

Keys == Issues \X (0 .. Generations)
Base(i) == <<i, 0>>

ACTIVE_STATUSES == {"pending", "retry_wait", "deferred"}
Statuses == ACTIVE_STATUSES \union
  {"absent", "processing", "resolved", "failed", "ignored", "manual_review"}

\* A strategy the executor has registered, none it has, or the marker of a
\* finding that the provider's coverage explains.
Strategies == {"registered", "unsupported", "coverage_boundary"}

\* Time left of a lease, -1 once it is past; time until next_attempt_at; time
\* since resolved_at and since updated_at.
Leases == -1 .. LeaseTime \union {NONE}
Delays == 0 .. MaxDelay
Counts == 0 .. MaxVer
SinceResolved == 0 .. Grace + 1 \union {NONE}
SinceUpdate == 0 .. Retention + 1

Row == [status : Statuses, strategy : Strategies, token : Workers \union {NONE},
        lease : Leases, next : Delays, ver : Counts, resolvedAge : SinceResolved,
        age : SinceUpdate]

NoRow == [status |-> "absent", strategy |-> "unsupported", token |-> NONE, lease |-> NONE, next |-> 0,
          ver |-> 0, resolvedAge |-> NONE, age |-> 0]

\* held: claimed items still to execute; seen: what was loaded with each;
\* wrote: rows written and not committed, whose new value is buf.
Loaded == [ver : Counts, strategy : Strategies]
NotLoaded == [ver |-> 0, strategy |-> "unsupported"]
Job == [busy : BOOLEAN, held : SUBSET Keys, seen : [Keys -> Loaded],
        wrote : SUBSET Keys, buf : [Keys -> Row]]

IdleJob == [busy |-> FALSE, held |-> {}, seen |-> [k \in Keys |-> NotLoaded],
            wrote |-> {}, buf |-> [k \in Keys |-> NoRow]]

Detector == [pc : {"idle", "touch", "upsert"}, key : Keys \union {NONE},
             strategy : Strategies]
IdleDetector == [pc |-> "idle", key |-> NONE, strategy |-> "unsupported"]

Init ==
  /\ rows = [k \in Keys |-> NoRow]
  /\ work = [w \in Workers |-> IdleJob]
  /\ det = [d \in Detectors |-> IdleDetector]
  /\ events = 0

Present(k) == rows[k].status # "absent"

\* A row some worker wrote and has not committed is locked for all others.
Free(k) == \A w \in Workers : k \notin work[w].wrote
FreeFor(w, k) == \A v \in Workers \ {w} : k \notin work[v].wrote

Event == events < MaxEvents /\ events' = events + 1

Smaller(m, n) == IF m < n THEN m ELSE n

------------------------------------------------------------------------------
(* Detection.                                                              *)

InGrace(r) == r.resolvedAge # NONE /\ r.resolvedAge <= Grace
ResolvedInGrace(i) == rows[Base(i)].status = "resolved" /\ InGrace(rows[Base(i)])
Returned(i) == rows[Base(i)].status = "resolved" /\ ~InGrace(rows[Base(i)])

\* register() up to its upsert: it reads the row of the plain key. A finding
\* that returns after the grace period gets the key of a fresh generation.
RegisterRead(d, i, strategy) ==
  /\ det[d].pc = "idle"
  /\ \E pc \in {"touch", "upsert"}, g \in 0 .. Generations :
       /\ \/ g = 0 /\ pc = "upsert" /\ rows[Base(i)].status # "resolved"
          \/ g = 0 /\ pc = "touch" /\ ResolvedInGrace(i)
          \/ g > 0 /\ pc = "upsert" /\ Returned(i) /\ ~Present(<<i, g>>)
       /\ det' = [det EXCEPT ![d] =
                   [pc |-> pc, key |-> <<i, g>>, strategy |-> strategy]]
  /\ UNCHANGED <<rows, work, events>>

\* INSERT .. ON CONFLICT DO UPDATE. The conflict branch sets the status and
\* resolved_at; the claim, the lease, next_attempt_at, the counts and (ON
\* CONFLICT runs no onupdate) updated_at keep their values.
Upserted(r, strategy) ==
  [r EXCEPT
     !.strategy = strategy,
     !.status = IF strategy = "coverage_boundary" THEN "ignored" ELSE "pending",
     !.resolvedAge = IF strategy = "coverage_boundary" THEN 0 ELSE NONE]

\* The write of register(): a flush of last_seen_at and context, or the upsert.
RegisterWrite(d) ==
  /\ det[d].pc # "idle"
  /\ LET k == det[d].key IN
     /\ Free(k)
     /\ \/ /\ det[d].pc = "touch"
           /\ rows' = IF Present(k) THEN [rows EXCEPT ![k].age = 0] ELSE rows
        \/ /\ det[d].pc = "upsert"
           /\ rows' = [rows EXCEPT ![k] = Upserted(rows[k], det[d].strategy)]
  /\ det' = [det EXCEPT ![d] = IdleDetector]
  /\ UNCHANGED <<work, events>>

------------------------------------------------------------------------------
(* The worker's job: claim, execute item by item, one commit at the end.   *)

\* Fault: an expired lease is not looked at.
DueActiveOnly(r) == r.status \in ACTIVE_STATUSES /\ r.next = 0

Due(r) ==
  /\ \/ r.status \in ACTIVE_STATUSES
     \/ r.status = "processing" /\ r.lease = -1
  /\ r.next = 0

\* Fault: the claim writes no lease_until.
ClaimedUnleased(w, r) == [r EXCEPT !.status = "processing", !.token = w, !.age = 0]

Claimed(w, r) ==
  [r EXCEPT !.status = "processing", !.token = w, !.lease = LeaseTime, !.age = 0]

\* claim() with FOR UPDATE SKIP LOCKED, and the commit that makes it durable.
\* Which of the due rows fill the batch is a matter of scores.
ClaimDue(w) ==
  /\ ~work[w].busy
  /\ LET due == {k \in Keys : Due(rows[k]) /\ Free(k)} IN
     \E S \in SUBSET due :
       /\ S # {}
       /\ Cardinality(S) = Smaller(ClaimLimit, Cardinality(due))
       /\ rows' = [k \in Keys |-> IF k \in S THEN Claimed(w, rows[k]) ELSE rows[k]]
       /\ work' = [work EXCEPT ![w].busy = TRUE, ![w].held = S,
                     ![w].seen = [k \in Keys |->
                       IF k \in S THEN [ver |-> rows[k].ver, strategy |-> rows[k].strategy]
                       ELSE NotLoaded]]
  /\ UNCHANGED <<det, events>>

\* Fault: the claim token is left on the row.
TransitionedKeepsClaim(r, status, delay) ==
  [r EXCEPT !.status = status, !.next = delay, !.lease = NONE, !.age = 0,
            !.resolvedAge = IF status = "resolved" THEN 0 ELSE r.resolvedAge]

\* transition(): a new status, and the claim given up.
Transitioned(r, status, delay) ==
  [r EXCEPT !.status = status, !.next = delay, !.token = NONE, !.lease = NONE,
            !.age = 0,
            !.resolvedAge = IF status = "resolved" THEN 0 ELSE r.resolvedAge]

\* Fault: the WHERE clause of transition() leaves the token out.
IfClaimedUnchecked(w, r, s) == s

\* transition() with a claim_token: no row matches once the claim is lost.
IfClaimed(w, r, s) == IF r.token = w THEN s ELSE r

\* One item settled in the worker's session: the row is r from here on, to be
\* committed with the rest. An UPDATE that matches no row locks none.
Settle(w, k, r) ==
  work' = [work EXCEPT
    ![w].held = @ \ {k}, ![w].seen[k] = NotLoaded,
    ![w].wrote = IF r = rows[k] THEN @ ELSE @ \union {k},
    ![w].buf[k] = IF r = rows[k] THEN NoRow ELSE r]

\* No strategy is registered, or it does not support the item.
ExecuteUnsupported(w, k) ==
  /\ k \in work[w].held /\ FreeFor(w, k)
  /\ work[w].seen[k].strategy # "registered"
  /\ Settle(w, k, IfClaimed(w, rows[k], Transitioned(rows[k], "manual_review", 0)))
  /\ UNCHANGED <<rows, det, events>>

\* The attempt ends without a verification: the quota is missing or refused or
\* the provider limits the rate, the error is transient (or the item was left
\* out of its batch), permanent, or a matter of authentication.
ExecuteFails(w, k, status, delay) ==
  /\ k \in work[w].held /\ FreeFor(w, k)
  /\ work[w].seen[k].strategy = "registered"
  /\ status \in {"deferred", "retry_wait", "failed", "manual_review"}
  /\ status # "deferred" => delay > 0
  /\ Settle(w, k, IfClaimed(w, rows[k], Transitioned(rows[k], status, delay)))
  /\ UNCHANGED <<rows, det, events>>

\* The strategy ran and its verification answered. The count is flushed by
\* primary key, from the value loaded with the claim, whoever claims the row
\* now; only the transition asks for the token.
ExecuteVerified(w, k, resolved, delay) ==
  /\ k \in work[w].held /\ FreeFor(w, k)
  /\ work[w].seen[k].strategy = "registered"
  /\ resolved => delay = 0
  /\ LET ver == Smaller(work[w].seen[k].ver + 1, MaxVer)
         counted == [rows[k] EXCEPT !.ver = ver, !.age = 0]
         status == IF resolved THEN "resolved"
                   ELSE IF ver = MaxVer THEN "manual_review" ELSE "retry_wait"
     IN /\ status = "retry_wait" => delay > 0
        /\ Settle(w, k, IfClaimed(w, counted, Transitioned(counted, status, delay)))
  /\ UNCHANGED <<rows, det, events>>

\* The single commit after all batches.
CommitJob(w) ==
  /\ work[w].busy /\ work[w].held = {}
  /\ rows' = [k \in Keys |-> IF k \in work[w].wrote THEN work[w].buf[k] ELSE rows[k]]
  /\ work' = [work EXCEPT ![w] = IdleJob]
  /\ UNCHANGED <<det, events>>

\* An exception outside execute()'s own handler rolls every outcome of the
\* session back, as a crash does; the claims stay.
AbortJob(w) ==
  /\ work[w].busy
  /\ work' = [work EXCEPT ![w] = IdleJob]
  /\ Event /\ UNCHANGED <<rows, det>>

------------------------------------------------------------------------------
(* Operators, the Wealthfolio bridge, retention.                           *)

Requeueable == {"failed", "manual_review", "deferred", "retry_wait"}

Write(k, r) ==
  /\ Present(k) /\ Free(k)
  /\ rows' = [rows EXCEPT ![k] = r]
  /\ Event /\ UNCHANGED <<work, det>>

Requeue(k) ==
  /\ rows[k].status \in Requeueable
  /\ Write(k, Transitioned(rows[k], "pending", 0))

\* bulk_requeue() has its own UPDATE, which leaves claim and lease alone.
BulkRequeue(S) ==
  /\ S # {} /\ \A k \in S : Free(k)
  /\ rows' = [k \in Keys |->
       IF k \in S THEN [rows[k] EXCEPT !.status = "pending", !.next = 0, !.age = 0]
       ELSE rows[k]]
  /\ Event /\ UNCHANGED <<work, det>>

Ignore(k) ==
  /\ rows[k].status \in Requeueable \union {"pending", "processing"}
  /\ Write(k, Transitioned(rows[k], "ignored", 0))

\* patch(): the status alone, from any status.
Patch(k, status) ==
  /\ status \in {"pending", "manual_review", "ignored"}
  /\ Write(k, [rows[k] EXCEPT !.status = status, !.age = 0])

\* enqueue_success() of a poll, in one transaction: every reported issue is
\* registered, and if the poll was complete the active rows of the target
\* whose key is not a plain key of a reported issue are resolved.
BridgePoll(reported, strategy, complete) ==
  LET fresh(i) == {g \in 1 .. Generations : ~Present(<<i, g>>)}
      generation(i) == CHOOSE g \in fresh(i) : \A h \in fresh(i) : g <= h
      touches == {Base(i) : i \in {j \in reported : ResolvedInGrace(j)}}
      upserts == {<<i, generation(i)>> : i \in {j \in reported : Returned(j)}}
                 \union {Base(i) : i \in {j \in reported : rows[Base(j)].status # "resolved"}}
      registered(k) == IF k \in upserts THEN Upserted(rows[k], strategy)
                       ELSE IF k \in touches THEN [rows[k] EXCEPT !.age = 0]
                       ELSE rows[k]
      gone(k) == /\ complete /\ k[1] \in BridgeIssues
                 /\ registered(k).status \in ACTIVE_STATUSES
                 /\ k \notin {Base(i) : i \in reported}
  IN /\ \A i \in reported : Returned(i) => fresh(i) # {}
     /\ \A k \in Keys : k \in upserts \union touches \/ gone(k) => Free(k)
     /\ rows' = [k \in Keys |-> IF gone(k) THEN Transitioned(registered(k), "resolved", 0)
                                ELSE registered(k)]
     /\ Event /\ UNCHANGED <<work, det>>

\* cleanup_terminal(). Retention is counted in weeks and a job in minutes: no
\* job still holds a row that has not changed for as long.
CleanupTerminal ==
  LET old == {k \in Keys : /\ rows[k].status \in {"resolved", "ignored"}
                           /\ rows[k].age > Retention
                           /\ \A w \in Workers : k \notin work[w].held \union work[w].wrote}
  IN /\ old # {}
     /\ rows' = [k \in Keys |-> IF k \in old THEN NoRow ELSE rows[k]]
     /\ UNCHANGED <<work, det, events>>

\* Fault: a lease is counted down past its end.
AgedPastEnd(r) == [r EXCEPT !.lease = IF @ = NONE THEN @ ELSE @ - 1]

Aged(r) ==
  IF r.status = "absent" THEN r
  ELSE [r EXCEPT
    !.lease = IF @ = NONE \/ @ = -1 THEN @ ELSE @ - 1,
    !.next = IF @ = 0 THEN 0 ELSE @ - 1,
    !.resolvedAge = IF @ = NONE THEN @ ELSE Smaller(@ + 1, Grace + 1),
    !.age = Smaller(@ + 1, Retention + 1)]

Tick ==
  /\ rows' = [k \in Keys |-> Aged(rows[k])]
  /\ work' = [w \in Workers |-> [work[w] EXCEPT
       !.buf = [k \in Keys |-> Aged(work[w].buf[k])]]]
  /\ UNCHANGED <<det, events>>

WorkerStep(w) ==
  \/ ClaimDue(w)
  \/ \E k \in work[w].held :
       \/ ExecuteUnsupported(w, k)
       \/ \E delay \in Delays :
            \/ \E status \in Statuses : ExecuteFails(w, k, status, delay)
            \/ \E resolved \in BOOLEAN : ExecuteVerified(w, k, resolved, delay)
  \/ CommitJob(w)

Next ==
  \/ \E d \in Detectors, i \in Issues, s \in Strategies : RegisterRead(d, i, s)
  \/ \E d \in Detectors : RegisterWrite(d)
  \/ \E w \in Workers : WorkerStep(w) \/ AbortJob(w)
  \/ \E k \in Keys : Requeue(k) \/ Ignore(k)
  \/ \E S \in SUBSET {k \in Keys : rows[k].status \in Requeueable} : BulkRequeue(S)
  \/ \E k \in Keys, status \in Statuses : Patch(k, status)
  \/ \E R \in SUBSET BridgeIssues, s \in Strategies, complete \in BOOLEAN :
       BridgePoll(R, s, complete)
  \/ CleanupTerminal
  \/ Tick

Spec == Init /\ [][Next]_vars

------------------------------------------------------------------------------
TypeOK ==
  /\ rows \in [Keys -> Row]
  /\ work \in [Workers -> Job]
  /\ det \in [Detectors -> Detector]
  /\ events \in 0 .. MaxEvents

\* claim() finds a row in processing again only through its lease, so one
\* without a lease would never be worked on again: whatever operators,
\* detectors and workers do to a row, processing comes with claim and lease.
ProcessingIsLeased ==
  \A k \in Keys : rows[k].status = "processing" =>
    rows[k].token # NONE /\ rows[k].lease # NONE

\* transition() checks the claim when it is called, the commit comes after the
\* last batch. In between nobody else writes the row: an outcome that waits
\* for the commit belongs to the claim the row still carries.
OutcomeIsCurrentClaims ==
  \A w \in Workers : \A k \in work[w].wrote :
    /\ FreeFor(w, k)
    /\ work[w].buf[k].token # rows[k].token => rows[k].token = w

\* A resolution is not undone by a worker that comes late: its claim is gone
\* from every resolved row, also when the bridge resolved it under the worker.
ResolvedIsNotOverwritten ==
  [][\A w \in Workers, k \in Keys :
       CommitJob(w) /\ rows[k].status = "resolved" => rows'[k].status = "resolved"]_vars

\* The comment on the claim's commit: a crash leaves work recoverable through
\* the persisted lease. A row in processing that no job holds is taken up
\* again, or settled in another way.
AbandonedIsReclaimed ==
  \A k \in Keys :
    (rows[k].status = "processing" /\ \A w \in Workers : k \notin work[w].held)
      ~> (rows[k].status # "processing" \/ \E w \in Workers : k \in work[w].held)

==============================================================================
