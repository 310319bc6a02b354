# Verification of finance-sync

finance-sync fetches transactions and balances from financial providers, stores
them in PostgreSQL, and exports them to destinations. Most of its difficulty is
not in the arithmetic but in the many processes that share a few tables: worker
replicas, API requests, operators, and retry jobs. This directory holds TLA+
models of those protocols, TLC configurations, and TLAPS proofs.

    tlc -workers 2 -config MCOutbox.cfg MCOutbox      # one of the runs below
    tlapm OutboxProofs.tla                            # one of the proof modules

Paths below are relative to `src/src/finance_sync/` unless they start with `docs/`
(which lies in `src/docs/`). `PROJECT.json` maps every definition to its lines.

## 1. Inventory

### Parts that coordinate through shared state

| Part | State | Operations | Interacts with |
|---|---|---|---|
| Transactional outbox (`sync/outbox.py`, `sync/outbox_publisher.py`) | `outbox_messages`: status, `claimed_at`, `created_at` | add (in the producer's transaction), claim a batch (`SKIP LOCKED`), dispatch to handlers, mark sent or failed, take over old claims | producers: sync pipeline and services; consumer: webhook dispatch, registered for every event |
| Sync pipeline (`sync/orchestrator.py`, `sync/sync_run.py`, `sync/sync_cursor.py`, `sync/preflight.py`) | `sync_runs` with a partial unique index on running rows, `sync_cursor` per account, `retry_after_at` of the connection, stored transactions | rate-limit guard, stale recovery, start, per-account transaction, complete, fail, stop (API), record outcome | schedule runner, API, CLI call it; it writes outbox messages |
| Webhook delivery (`services/webhook.py`) | `webhooks`, `webhook_delivery_log` | create, delete, fan-out of an event, attempt, backoff, retry job | called by the outbox publisher; rate limiter |
| Webhook rate limit (`services/webhook.py`) | Redis counter per webhook and minute; a sliding window per process | ask, fall back, restart | every delivery attempt |
| Sync schedules (`worker/schedule_runner.py`, `services/sync_schedule.py`, `services/retry_lock.py`, endpoints of schedules, connections and destinations) | `sync_schedules`: enabled, recurrence, version, `next_run_at`, `last_scheduled_at`; Redis lease per export target | ensure, edit (optimistic version), pause, resume, run now, delete, load due, guarded claim, run, lease, plan; exports started by a request | runs the sync pipeline and the exporters |
| Remediation backlog (`reconciliation/remediation/`, `services/remediation.py`, `services/wealthfolio_health_bridge.py`) | `data_quality_remediation_items`: status, strategy, claim token, lease, next attempt, verification count, resolution | register (upsert, generations), claim, execute batch, transition, requeue, bulk requeue, ignore, patch, cleanup, bridge poll | Wealthfolio health bridge, worker job, API |
| Wealthfolio exporter (`exporter/wealthfolio/exporter.py`, `client.py`) | `export_runs`, `wealthfolio_deliveries` (cursor per account), the activities at the destination | start a run, prune, delete what the source withdrew, map, import in chunks, move the cursor, repair, complete | schedule runner, API and CLI start it; reads stored transactions |
| Tax lots (`services/tax_lot_service.py`; check in `services/data_health.py`) | `tax_lots`: quantities, basis, closing sale, wash sale | delete and rebuild all lots of a security in one transaction: purchases, FIFO sales, wash sales, transfers, quantity events | after each sync, and on request of the API |
| Recurrence arithmetic (`sync/schedule_spec.py`) | none of its own; the plan of a schedule row | next instants for hourly, daily and weekly recurrences in a zone with clock changes | every plan, edit, request and preview of a schedule |
| Market intelligence scheduler, connector rate limiter, job monitor | budgets, token buckets, job rows | refresh, acquire, record | provider HTTP APIs |

### Parts that compute

FX and prices, reconciliation, persistence and duplicate matching, DEGIRO and Saxo file
imports, exporters, analytics, classification, identity resolution.

### Parts that only carry

HTTP API and authentication, MCP server, CLI and web pages, Python SDK,
configuration, migrations, monitoring, credentials.

### What is hard here

* **Claims that expire.** The outbox, the schedule runner, the export lease and
  the remediation backlog all hand out work under a claim that ends by time, and
  none of them renews or re-checks the claim before the effect is written.
* **State read before an await and used after it.** The retry job numbers an
  attempt from its scan; the schedule runner plans from the row it loaded at the
  start of its tick; an edit compares a version it read without a lock.
* **Several commits per operation.** A sync commits account by account; a webhook
  fan-out posts many requests and commits once; a remediation job writes the
  outcomes of its whole batch in one commit after the effects; a push changes a
  remote system that no transaction covers. A crash falls in between.
* **Rebuilding what others rebuild.** Two syncs delete and rewrite the same lots,
  two pushes the same destination, and only a unique constraint or the next run
  puts things right.
* **Wall clocks.** Plans are made on a clock that leaves hours out and repeats
  them.
* **Writes that test nothing.** Verdicts, completions and plans are `UPDATE`s by
  primary key, whatever the row has become in the meantime.

`PROJECT.json` lists these under `hazards`, each at its line with the property
that would catch it.

### What makes each part correct

* Outbox: nobody else works on a message under an unexpired claim; "sent" is
  true; no message is stranded.
* Sync: resuming at the watermark skips nothing; one pipeline per connection
  unless a row was taken away; no row stays running for ever.
* Webhooks: per delivery (a handler call and a webhook), bounded requests, no
  repetition after success, backoff kept, every failure is eventually settled.
* Schedules: one run per schedule and one export per target within the time the
  claim and the lease protect; plans move forward; nothing due is forgotten.
* Recurrences: the plan is the first occurrence after the instant it is made
  from, no day is run twice or left out, and a preview tells the truth.
* Remediation: an outcome is committed only under the claim it was made with; a
  resolution is not overwritten by a late worker; abandoned rows are taken up.
* Wealthfolio push: "completed" means delivered; no run row stays running; what
  can be mapped arrives in the end.
* Tax lots: units and acquisition cost are conserved, lots are used first in
  first out, and the committed lots are those of one rebuild.

## 2. Modules

### `Outbox`, `OutboxContract`, `MCOutbox`, `OutboxProofs`

`row[m]` is the committed row, `pub[p]` the local state of one `run_once`.
`FetchSelect` and `FetchCommit` are the two halves of `_fetch_pending`: between
them the selected rows are locked (`Locked`), and a second publisher skips them.
`RunHandler` is one iteration of `_dispatch`; a handler returns or raises.
`MarkOutcome` is the unguarded `UPDATE` of the verdict. `Crash` covers a death of
the process and an exception that leaves `run_once`. Time is kept as ages that
saturate one unit after `CLAIM_TIMEOUT`, so the model needs no clock bound.
Handlers are opaque: a handler changes nothing but the history `handled`.

`OutboxContract` is what producers and consumers may rely on: a message that was
written gets a verdict, "sent" is only said when every handler has processed the
message, a verdict may be revised but not withdrawn, and repetition is allowed.
`Outbox` implements it under the mapping `verdict[m]` = the status of the row,
with pending and processing both "accepted".

### `SyncPipeline`, `MCSyncPipeline`, `SyncPipelineProofs`

One connection, any number of callers of `run_sync`. `job[w]` follows the call:
guard (`BeginSync`), stale recovery, pre-authentication, `StartSyncRun` (looks
for an active run), `InsertRun` (the insert, which waits for another open insert
because of the unique index), `CommitRun`, `LoadCursors`, then per account
`OpenAccount` (whose heartbeat locks the row), `FetchTransactions`,
`CommitAccount`, and finally `CompleteSyncRun` or `PipelineError` with
`MarkSyncRunFailed`, then `RecordOutcome`. `StopSyncRun` is the API request.
A transaction is the instant it occurred at, which is all the fetch filter looks
at. `horizon[a]` is a history variable: the earliest instant the account was ever
fetched from.

Two assumptions belong to this model. A provider shows a transaction from the
instant it is dated (`ProviderBooks`); late bookings with an old date are listed
as a hazard without a property. And no sync lasts longer than the backfill window
of 90 days (`Tick`): `NoGapBehindCursor` needs it, because a first sync that
began more than a window before another one could move the watermark over a gap.

### `WebhookDelivery`, `MCWebhookDelivery`, `WebhookDeliveryProofs`

A delivery is a pair of a handler call and a webhook. `StartDispatch`, `Deliver`
and `CommitDispatch` are `dispatch_event` with its single commit; `Scan`,
`SkipInactive`, `LoadFresh`, `Attempt` and `CommitRetry` are
`retry_due_deliveries`. `LoadFresh` overwrites the attempt number of the fresh
row by that of the scan plus one, as the code does. `next_retry_at` is kept as
the time left. `posts`, `lost`, `since` and `shared` are history: requests made,
requests whose record a crash rolled back, time since the last request, and the
deliveries that one retry job scanned while another still had them in its queue.

The properties speak of deliveries and not of events. An outbox message whose
claim expired during a slow fan-out, or whose publisher died between
`CommitDispatch` and the verdict of the outbox, is dispatched again, and that is
another call with rows and attempts of its own: an event may reach a webhook up
to `max_attempts` times for each dispatch. Nor do the properties bound `shared`
rows, which two jobs post and number independently; they say that every other
row is safe although jobs overlap. `MCWebhookDelivery` runs two scenes: one retry
job over two webhooks, and two retry jobs on one webhook.

### `WebhookRateLimit`

One webhook. `AskRedis` is the counter of the calendar minute, `AskLocal` the
sliding window of a process, used when Redis is absent or raises (also after it
has counted). `Restart` empties a process's window. A delivery is dated by the clock
its check read, since Redis counts it for the minute of that reading. `passed` and
`life` are history: what was let pass, by Redis or by which life of a process; a life
ends with a restart, as its window does.

### `ScheduleRunner`, `MCScheduleRunner`, `ScheduleRunnerProofs`

`rep[r]` is one `run_due_schedules` call: `LoadDue` reads the clock once and the
due rows, then per row `ClaimRefused` or `ClaimSchedule`, the run (`IngestionEnds`,
or `AcquireLease`, `ExportInProgress`, `ExportEnds`), `ReadRow` and `WritePlan`.
An occurrence that is too late goes to `ReadRow` without a run
(`_reset_next_run`). `Merge` is the `UPDATE` of an ORM flush: only the columns
that differ from what the session read. `rebound` records that a run replaces the
session of the loop, so a later `ReadRow` sees the database, while before it the
identity map still returns the row as loaded. `UpdateCheck` and `UpdateCommit`
are the two halves of an edit.

`RunNow`, `Pause` and `Resume` are the other requests that rewrite the row; they
go through the same read and flush (`Request`, `UpdateCommit`) but do not compare
the version. `ManualRun` and `ManualDone` are an export that a request starts: it
asks for the same lease (`Asks`, `AcquireLease`, `ExportInProgress`) and neither
looks at the claim (`last_scheduled_at`) nor writes it; the outcome columns it
writes are left out. `disturbed` is a history variable: the schedules whose plan an
edit, or a replica that had overslept its claim, has written.

Recurrences are hourly and daily in a zone without clock changes; the module
`ScheduleSpec` has the others.

### `ScheduleSpec`, `ScheduleSpecProofs`

One schedule and its plan. An instant and a wall time are numbers; `Local` and
`Utc` are the two conversions of `zoneinfo`, with the offset of before the change
for a wall time that does not exist or exists twice. `HourlyInstants` and
`DailyInstants` are the two generators, `NextRun` their first element. `Run` and
`ResetNextRun` plan as the worker does, from the occurrence that was due or from
now; `Edit` and `RunNow` are the requests. `Occurrences` is the reference
definition: one instant on each day of the recurrence.

### `RemediationBacklog`, `MCRemediation`, `RemediationProofs`

`rows[k]` is the committed row of an issue and a generation, `work[w]` the job of
a worker with the rows it has written and not committed (`wrote`, `buf`: they are
locked), `det[d]` what a detector decided before its upsert. `ClaimDue` is the
claim with `SKIP LOCKED` and its commit; `ExecuteUnsupported`, `ExecuteFails` and
`ExecuteVerified` are the three outcomes of one item, through `transition` or
through a flush of the loaded object; `CommitJob` is the one commit of the job and
`AbortJob` its rollback or death. `Requeue`, `BulkRequeue`, `Ignore`, `Patch`,
`BridgePoll` and `CleanupTerminal` are the calls from outside. Times are kept as
time left or passed and saturate. `MCRemediation` runs three scenes: two workers
on one row, one worker on a row whose strategy changes, one worker on a batch of
two generations.

### `WealthfolioPush`, `MCWealthfolioPush`, `WealthfolioPushProofs`

`src[t]` says what the source has under a transaction (mappable, blocked by the
stream validation, malformed, unresolved, withdrawn), `remote` what the
destination has, `cursor[a]` the delivery cursor, `job[w]` a push. `Start` creates
the run row and cancels the rows of older runs; `Prune`, `ListStale`,
`DeleteStale`, `FetchAndMap`, `PushChunk`, `UpdateCursor`, `Compare`, `Repair` and
`Check` are the steps of one account, each an await; `AccountFails` and
`PushRejected` its errors; `CompleteRun` and `RunEndsEarly` the end. The
destination is external: an import with a known idempotency key changes nothing,
and one that ends without an error may still have stored a part of the chunk only
(rows that the check endpoint left out, or that were skipped), so `PushChunk`
takes what was stored as a parameter. `Compare` reads the source once and `Check`
takes a transaction for present if its activity is there or if another activity
of the account contains its external id; the constant `Mentions` says which ids
contain which. What a run answers for (`owed`) is what it fetched and what its
comparisons read.
`MCWealthfolioPush` runs two scenes: one push at a time over two accounts, and two
overlapping pushes on one account, in which a transaction of either place in the
order may appear between the reading of the identities and the deletion.

### `Fractions`, `TaxLots`, `MCTaxLots`, `TaxLotsProofs`

`Fractions` are exact rationals in lowest terms. `Outcomes(V, T, t, g)` is the
effect of one transaction on the lots in view, as a set, because lots of one day
may be used in any order: `Purchased`, `Sold` (with `SoldFrom` and `WashAdjusted`),
`Transferred` with its pairing of legs (`PartnersOf`), `QuantityChanged`. A rebuild
is `BeginDelete`, `FinishDelete`, `ReadTransactions`, one `ProcessTransaction` per
transaction, `Commit`; in between it holds row locks (`Locks`), waits for those of
others (`WaitsFor`), and ends by `UniqueViolation`, `ForeignKeyViolation` or as a
`DeadlockVictim`. `SameKey` is the whole unique key of a lot: account, purchase and day.
Meanwhile a sync adds a transaction (`Store`) or updates its row in place, all but
the account (`Change`), and an account is deleted with its transactions and lots in
one database transaction (`DeleteAccount`). An element of `Transactions` is therefore
a version of a row: `row` is the row, `id` the place of the version in the order of a
rebuild, `date` its `occurred_at` in whole days; an update to a type or a security that
the rebuild does not select is one to an event without a ratio. `seen` is the history of
all versions. `Broken` is what `services/data_health.py` asks of the links, quantities and
signs of a lot; its comparison of total and unit cost is about rounding (section 7).

## 3. Runs

Every run finishes within a few minutes with two TLC workers.

| Run | Checks | Instance |
|---|---|---|
| `outbox` | `TypeOK`, `ExclusiveClaim`, `SentIsHandled`, `VerdictNotWithdrawn`, `EveryMessageSettles`, `ImplementsContract` | 2 publishers, 2 messages with different handler lists, batch of 2, 1 crash |
| `sync` | `TypeOK`, `CursorSound`, `OverlapOnlyAfterRelease`, `CompletedRunIsComplete` | 2 workers, 2 accounts, 2 rows, 1 crash, symmetric workers, rows and accounts |
| `sync_stale` | `StaleRunsEnd` | 2 workers, 1 account, rate limits, 1 crash |
| `webhook_delivery` | `TypeOK`, `PostsBounded`, `DeliveredIsFinal`, `BackoffKept`, `EveryDeliverySettles` | 1 call; 2 webhooks and 1 retry job, or 1 webhook and 2; 3 attempts, 1 crash |
| `webhook_rate` | `WindowBound` | 2 processes, limit 2, a window across a minute boundary, 1 restart |
| `schedules` | `TypeOK`, `ExclusiveRun`, `ExclusiveExport`, `PlanMovesForward` | 2 replicas, an ingestion and an export, one crash or one export by request, symmetric replicas |
| `schedule_served` | `DueIsServed` | 1 replica, 1 user, an export, hourly and daily, one crash, pause, request or export by request |
| `recurrence` | `PlanIsFirst`, `EveryDayOnce`, `PreviewIsPlan` | 4 sets of weekdays, 4 times of day, 3 intervals, both clock changes, 1 edit or request, any start |
| `remediation` | `TypeOK`, `ProcessingIsLeased`, `OutcomeIsCurrentClaims`, `ResolvedIsNotOverwritten`, `AbandonedIsReclaimed` | 1 issue with 2 generations, 2 workers, 1 detector, 2 calls, polls or failed jobs |
| `wealthfolio_push` | `TypeOK`, `CompletedIsDelivered`, `RunRowEnds`, `DeliveredInTheEnd` | 2 accounts of 2 transactions of every kind, one id part of another, chunks of 1, 2 pushers, 2 failures, partial imports or changes |
| `tax_lots` | `UnitsConserved`, `FifoExact`, `BasisConserved`, `NoBrokenLot` | every set of up to 5 of 15 transactions on 2 accounts, rebuilt one at a time; an account deleted at any time if they are 3 or fewer |
| `tax_lot_rebuilds` | `OneGeneration`, `StoredIsBooked` | 2 rebuilds that overlap while 2 purchases arrive, one is re-dated, or the account is deleted |

### Why these bounds

* Two competitors are enough for every exclusion here, since each property
  speaks of a pair, and the theorems cover more.
* Outbox: a batch of two messages lets a claim expire on the second message
  while the first is in hand; the two messages have different handler lists, so
  that the handlers of one event type and those of `*` both occur.
* Sync: the clock runs one or two units past the first window, so that a second
  run resumes at a watermark, `StaleAfter = 0` makes a live run stale, and
  bookings happen during a run. Two accounts let a run fail or be overtaken
  between two commits.
* Webhooks: three attempts give two different delays. Two jobs on one row are
  every overlap, since jobs meet only in a row. `BatchLimit = 2` holds all rows; what happens with a smaller batch is described in section 6.
* Schedules: the catch-up delay is longer than the grace, as in the code, so
  that a second replica may run an occurrence whose claim has expired; with
  `CLAIM_GRACE = 1`, `LeaseTtl = 2` and five instants a schedule becomes due at the
  second, is claimed, outlives the grace at the fourth, and is too late to be caught
  up at the fifth, when its next occurrence is due. `schedules` has the daily
  recurrence, `schedule_served` the hourly one too. Users edit in
  `schedule_served`; `PlanMovesForward` excuses every plan after an edit, so it is
  checked where nobody edits. It also excuses every plan after one that an overslept
  replica wrote: with a later clock and a longer catch-up delay TLC finds that one
  late plan lets two replicas that are both in time take the plan back afterwards.
* Recurrences: the clock runs over five days with the gap on the second and the
  repeated hour on the fourth; times of day lie before, at the edge of, inside and
  after both; a start at every instant covers every plan made from it. The
  catch-up delay is longer than a day, so that a run may be a day late.
* Remediation: a lease, the grace period and the retention all end with the next
  time step, so that each of them ends between any two steps of a job. Two
  competitors on one row are every pair; a batch has two rows because the second
  waits for the first.
* Wealthfolio push: the first transaction of an account lies before the window
  of an incremental push; chunks of one make every import two requests; an account
  that fails is followed by one that does not. The id of the first transaction of
  an account is part of that of the second. Two overlapping pushes share one
  account, since accounts do not interact.
* Tax lots: the fifteen transactions hold a gain and a loss, two lots of one day,
  splits both ways, a paired transfer, legs without a partner, a purchase and an
  event without their numbers; five at a time reach every pair of rules twice over.
  What overlapping rebuilds do to each other does not depend on sales, so
  `tax_lot_rebuilds` has two purchases and a second version of the first, with a day
  after that of the other. `MaxChanges = 1` lets the first be given the later day, or the account be
  deleted while it holds one transaction, at any point of two rebuilds.

Deadlock checking is off for schedules and recurrences only, where the clock and
the edits are bounded and a system with nothing due really stops.

Each property of a passing run has a mutant in `PROJECT.json`: a change of one
definition, as a plausible bug would make it, under which TLC finds the property
violated. The definitions marked `Fault:` in the modules are these changes; no
action uses them.

### Fairness

* `Outbox`: the interval job polls again and again, handlers return (the HTTP
  client has a timeout), the clock advances. Weak fairness per publisher and on
  `Tick`.
* `SyncPipeline`: the scheduler keeps starting syncs and a started one proceeds.
* `WebhookDelivery`, `ScheduleRunner`: as for the outbox, per job and replica.
* `RemediationBacklog`: the interval job keeps starting, a job that neither fails
  nor dies runs to its commit, and the clock advances. Weak fairness per worker.
* `WealthfolioPush`: schedules and requests keep starting pushes and a push that
  neither fails nor dies runs to its end. Weak fairness per process.
* `TaxLots`: strong fairness per rebuild, because PostgreSQL queues lock requests:
  a statement that waits gets its lock when the holder ends, although another
  rebuild could ask again and again. A rebuild after every sync is what makes
  `StoredIsBooked` hold in spite of swallowed failures.

Nothing obliges a message, an edit, a stop, a deletion or a crash to happen, and
crashes are bounded: a process that crashes for ever serves nobody.
`StaleRunsEnd` holds because a sync begins again after a crash, which is what
the schedules are for. `DueIsServed` is claimed as long as the last claim can
still expire before the end of the bounded clock.

## 4. Proofs

The theorems hold for every value of the constants under the named assumptions
(`OutboxConstants`, `SyncConstants`, `WebhookConstants`, `PowersAreNaturals`,
`PowersGrow`, `RateLimitConstants`, `ScheduleConstants`, `SpecConstants`, `RemediationAssumption`,
`PushAssumption`, `TransactionShape`), which only say what kind of values the constants are (the two
on powers of two state what the prover's arithmetic lacks), and which TLC evaluates
in the runs. They are proved from `Spec`, without fairness. Each module has one
effect lemma per action, which says what the step leaves alone, and one step per
action in the proof that the invariant is preserved.

* **OutboxProofs.** `IInv` is inductive: a publisher at work has a batch
  (`BatchInv`), open claims lock disjoint rows (`LockInv`) that may still be
  claimed (`ClaimInv`), a message in hand exists (`PresentInv`), and `HoldInv`:
  until the claim of a publisher expires, each message of its batch is settled or
  carries exactly its claim. Without `HoldInv`, `ExclusiveClaim` is not inductive:
  a row whose age is not that of its holder could be taken over. `ProgressInv`
  says that as long as nothing raised, the handlers already called have processed
  the message, which gives `SentIsHandled` at the verdict. From it:
  `TypeCorrect`, `ClaimsExclusive`, `SentHandled`, `VerdictKept` (an action
  property: a locked row has no verdict), and `Refinement`, that `Outbox`
  implements the safety part of `OutboxContract`.
* **SyncPipelineProofs.** `CursorInv` relates each job to the database: where a
  job will resume, nothing is missing before it (`JobResumes`); what it holds in
  hand is everything from there to its start (`JobInHand`); and its clock lies
  within a window of now (`JobClocks`). `CommitCovers` is the heart: whatever
  overlapping commits happened since a job read its watermark, its own commit
  leaves no gap. From it `NoGapBehindCursor` and `CompletedIsComplete`. `RunInv`
  relates rows to owners and gives `OverlapNeedsRelease`.
* **WebhookDeliveryProofs.** `DeliveryInv` counts every request: before the
  fan-out commits it is in the call's open transaction, afterwards the attempt
  number counts it, but for one in flight and those a crash forgot. A row in the
  queue of a retry job is still what the scan saw, unless a second job held it too;
  `BaseInv` says that two jobs hold one row only if it is in `shared`, which is why
  a job's commit leaves what the others hold as they saw it. `BackoffInv` adds that
  the time since the last request and the time left of a failed row make up the delay
  of its attempt, and that a request of a retry job begins a delay only its own
  uncommitted row knows of; it gives `BackoffHonoured`. With `RequestsBounded` and
  `DeliveryFinal` it holds for any number of overlapping jobs and every row outside
  `shared`; the exception is needed, since two jobs number the attempts of a row they
  both hold from the same scan (section 5).
  The same module proves `RateBounded` from `LimiterSpec`. `LimiterInv` bounds each
  limiter by itself: a calendar minute of Redis by its counter (`BucketInv`), and every
  60 seconds of one life of a process by its window (`LifeBound`), which needs that the
  window is exactly the recent deliveries of that life (`LifeInv`). A window of 60
  seconds meets two calendar minutes, and the rest of it is spread over the lives
  (`SpreadBound`, a pigeonhole lemma), of which there are as many as processes and
  restarts.
* **ScheduleRunnerProofs.** `RunInv`: ticks lie in the past, the row of a schedule
  remembers a tick at least as young as that of any replica that has claimed it, from
  the claim to the plan, and two such replicas are more than the grace apart; so one
  of them has overslept (`OneAwake`). It gives `ClaimExclusive`. `LeaseInv`: an
  export, started by a schedule or by a request, still owns its lease or has outlived
  it. It gives `LeaseExclusive`. `PlanInv` is about undisturbed rows. A row that was
  planned anew since a replica loaded it carries a claim too young for that replica
  to claim it (`LoadedOf`); so the replica that claims a row loaded its plan, and keeps
  it until it plans, being the only one awake (`ClaimOf`). Without `LoadedOf` the
  claim would not relate the plan to what was loaded. It gives `PlanForward`, an
  action property.
* **ScheduleSpecProofs.** No run-time invariant beyond "the plan was made from
  `from`" and "each day run follows the one before" (`PlanInv`, `ServedInv`); the
  work is in the arithmetic: a week of candidate days holds each weekday
  (`WeekdayComes`), conversions are inverse but in the gap and the repeated hour, and
  what was skipped was no occurrence. `PlanFirst` holds in every zone, `EveryDay` under
  `GapWithinDay`: a clock moved forward at the end of a day puts the missing time off
  into the next day. `PreviewPlan` is by induction over the place in the preview, done
  with the least place at which preview and worker differ; `Chain` is a recursive
  function over numbers, which the least-number principle reaches.
* **RemediationProofs.** Besides types, `IInv` says: a row in processing carries claim
  and lease and a resolved one no claim, for committed rows and for those that wait for
  a commit alike (`RowsInv`); an item is executed once (`HandInv`); and what a worker
  has written without a commit is locked, carries the claim of its row, and does not
  undo a resolution (`WroteInv`). The last is needed because the commit replaces the
  row: without it nothing is known of what the commit writes. It gives
  `ProcessingLeased`, `OutcomeCurrent` and the action property `ResolutionKept`.
* **WealthfolioPushProofs.** `JobInv`: a push without an error has everything it
  answers for at the destination, or its id is part of another one's, or the
  comparison has still to look at it (`Answers`: a chunk stored in part is no
  error, only the comparison finds it); it answers for no
  account it has yet to begin, and for nothing of the account whose activities it may
  still delete (`OwedBegun`); without that a deletion would break `Answers`. Another
  push that deletes takes what it deletes off what everybody answers for, as
  `CompletedIsDelivered` excepts it. It gives `CompletedDelivered`.
* **TaxLotsProofs.** A rebuild takes no lock of its own; `IInv` says why two of them
  still do not mix. What a rebuild has inserted carries its own tag (`Fresh`); what it
  has inserted or updated nobody else deletes (`Locked`: the row locks).
  The rest speaks of the purchases of a set of rows S that have kept their kind and
  day in every version and have not been removed: an update of their amount leaves the
  unique key of their lot alone. A rebuild has a row for each of them it has processed
  (`Booked`), and none has two rows that both come to stay (`Apart`: the unique
  constraint). A DELETE takes all of the table or none (`Complete`), and of two sets of
  them read one holds the other, as they are never removed (`Nested`): so a rebuild that
  deleted nothing and inserts meets the lot of the first of them and fails. `Single` is
  the result. `IInv(S)` holds of the largest such S (`SteadyRows`, with the rows that are not
  stored yet), which only shrinks: a change or a deletion takes its rows out of S,
  and `OthersKeep` says that `IInv` is kept for those that stay. It gives `OneRebuild`.
  The argument needs only the keys of lots.
  `LotsPassTheCheck` is about what is in them. `Sound` holds of every lot that is
  stored, deleted or uncommitted: its numbers fit each other, and whatever it names has
  been stored in the version its rebuild read; each of the outcomes of a transaction
  keeps it. `Outdated` collects the lots `NoBrokenLot` excepts because a transaction they
  name has gone or changed its kind. The work is in
  exact fractions and in the folds that sum them: `TakenBounds` is what a loop over lots
  may take of each, and `WashedSound` needs that a disallowed loss is not negative. A lot
  without units breaks it at once, which is why `NoBrokenLot` excepts the lots of
  purchases delivered without a quantity.
  `UnitsKept`, `FirstInFirstOut` and `BasisKept` compare the committed lots with a
  second count over the transactions they were built from, for any number of
  rebuilders that do not overlap (`OneAtATime`; the run has one). Without that they are
  false: a rebuild that began on an empty table and read no purchase deletes nothing,
  fails at no constraint and commits beside the lots of another. `Settled` says that the
  table is what the last rebuild committed in the accounts not deleted since
  (`Committed`), that a rebuild deletes the whole table, and that its own lots keep the `Ledger` of what it
  has processed, in three parts. `Books`: the units of each account are what a holder
  has counted; it needs where each lot comes from (`Origin`), because a leg that has
  delivered once is skipped, and lots with distinct keys, because a set would swallow
  equal ones. `Spread`: in an account that only buys and sells, for every day, the lots
  until then hold what was bought until then less all that was sold; a sale keeps it
  because its loop meets the lots in order of their day (`FifoAll`), a purchase because
  everything before it was bought by its day. `Balanced`: what is used and what is
  left of the basis is what was paid and a surplus of at most the disallowed losses.
  The surplus stays an unknown: how much of a disallowed loss comes back depends on
  units the replacement lots have already sold. `OutcomeEffect` and `OutcomeBasis` say
  of each outcome of a transaction what it does to units and basis, `LedgerKept` puts
  them together. Sums over sets are folds; they are split, filtered and renumbered by
  `PartUnion`, `PartFilter` and `PartImage`, which rest on the least-number principle.

Only model-checked: everything under fairness (`EveryMessageSettles`, the
liveness part of `ImplementsContract`, `StaleRunsEnd`, `EveryDeliverySettles`,
`DueIsServed`, `AbandonedIsReclaimed`, `RunRowEnds`, `DeliveredInTheEnd`,
`StoredIsBooked`), since liveness and ENABLED are beyond this prover. Every invariant
and every other action property of the runs is a theorem.

## 5. Where code and documents disagree

The models contain these behaviours; the properties of the runs are stated so
that they say what holds in their presence.

| The documents say | The code |
|---|---|
| "Outbox delivery is at-least-once" (`docs/ARCHITECTURE.md:81`) | a handler that raises once makes the row failed, and no poll selects failed rows |
| a stop request ends a sync "at its next safe pipeline checkpoint" (`api/v1/sync_runs.py:214`) | nothing in the pipeline reads the status; the run opens its next account and completes |
| "Max webhook delivery retry attempts" (`config/settings.py:1012`) | two overlapping jobs number attempts from the same scan and together exceed it |
| a planned execution can never start twice (`docs/sync-schedules.md:103`) | a run longer than the grace is started again for the same occurrence |
| "two concurrent admins cannot silently clobber each other" (`models/sync_schedule.py:152`) | the version is compared after a plain SELECT, and not again by the UPDATE; pause, resume and run-now do not look at it |
| never two runs for one wall-clock time (`docs/sync-schedules.md:63`) | a daily plan made in the second pass of the repeated hour lies in the past, and the time is run a second time |
| a preview is "exactly what the scheduler will plan" (`services/sync_schedule.py:256`) | an hourly preview into the missing hour shows one instant twice; the worker goes on from the instant |
| the comparison checks the destination "by source identity" (`exporter/wealthfolio/exporter.py:3325`) | an activity whose JSON contains the external id anywhere counts as present, so a missing transaction whose id is part of another one's stays missing (`Confusable`) |
| "later events wait until this review item is resolved" (`exporter/wealthfolio/exporter.py:2593`) | the repair of the same push imports them |
| "direct callers must not append a second generation of lots" (`services/tax_lot_service.py:709`) | a purchase that is re-dated between the reads of two overlapping rebuilds has two lots with different keys, and both generations commit |
| a wash sale is "within a 30-day window (30 days before or after the sale)" (`services/tax_lot_service.py:451`) | a later repurchase is not a lot yet when the sale is processed, so its loss stays realised |

## 6. Other behaviour the models show

These follow from the same actions and are not runs of their own.

* A handler may process a message twice, after an expired claim or a crash
  before the verdict: `has_been_processed` and `is_duplicate` have no callers
  (`sync/outbox_publisher.py:6` speaks of idempotency keys). `OutboxContract`
  therefore allows repetition, and a webhook that is slow or a crash may get the
  event once more for each dispatch, each with its own retries.
* Watermarks commit with each account, so a run that fails in a later account has
  moved earlier ones (`models/sync_cursor.py:25` says never). `CursorSound` shows
  that nothing is lost by it.
* `next_retry_at` is never cleared (`models/webhook.py:112` says null when
  delivered); only the status filter keeps such a row from being retried, which
  is what `DeliveredIsFinal` depends on.
* Rows of deleted webhooks stay due and can fill the unordered batch of every
  scan, so with a full batch of them a live delivery may never be retried.
* With Redis the limiter counts per calendar minute: twice the limit can pass
  within 60 seconds (`models/webhook.py:57` says sliding window). `WindowBound`
  states what does hold.
* After a late hourly run the next instant is computed from the occurrence that
  was due, so a schedule several periods late is caught up several times.
* A replica that read the row before it was disabled writes a next run into the
  disabled row. `Due` looks at `enabled`, so nothing runs.
* A "run now" during a run is overwritten by the plan of that run; it also moves
  the phase of an hourly schedule. An export by request writes `last_run_at`, not
  the claim, so a due schedule exports once more right after it.
* A plan made just after the gap leaves out the occurrence that the gap put off.
* Remediation: a new detection of a finding sets its row to pending under a live
  lease, and also if an operator had ignored it; the executing worker keeps its
  token and its outcome still counts. Every detection after the grace period adds
  another generation. A rollback loses the outcomes of the whole batch, whose
  effects are not undone. `verification_count` is written from the value loaded
  with the claim.
* Wealthfolio push: the docstring speaks of resuming at the delivery cursor, but
  every push starts at its window. If nothing before an unresolved transaction
  can be mapped, the repair is skipped, and later ones wait until it is resolved.
  Overlapping pushes may delete what the other imported; the next push repairs it.
  A run that a later start cancelled may still overwrite its row with completed.
* Tax lots: the gain of a partial sale is not recorded on the lot; a wash
  adjustment is spread over the units of a lot that are already sold, so part of a
  disallowed loss disappears (`BasisConserved` bounds it); only the lots of purchases
  are under the unique constraint, so a rebuild that read no purchase but legs of
  transfers may leave transferred lots beside those of an overlapping rebuild
  (`OneGeneration` speaks of the lots of purchases, and of those of purchases that kept
  their kind and day, see section 5). Legs of one reference are paired by rank, and a
  pair within one account is dropped; the model ranks legs by their place in time,
  the code by the text of their row ids, which no property tells apart. A rebuild
  that meets a deleted account fails on the foreign key and is lost to the others.

## 7. Not modelled

* In modelled parts: payloads, signatures and URL checks of webhooks; tax lots,
  reconciliation, connector state and telemetry inside a sync; the `LIMIT 200`
  of due schedules, audit rows, and a deployment without Redis, where exports have
  no lease; what a remediation strategy does at the provider, scores and budgets;
  the content of an exported activity, holdings, quotes, FX, categories, the CSV
  export; in a push, leaving out the pruning (`prune_accounts`), the limit
  `max_transactions`, the purge of Easy-Budgeting activities, and which cash, fee and
  tax totals the comparison compares; LIFO (no caller) and the read-only summaries
  of tax lots.
* Rounding of tax lots. The numbers of a lot are kept to eight decimals, refreshed after
  each write; the model has exact fractions. So `BasisConserved` holds up to
  the rounding of unit costs, and `UnitsConserved` and `FifoExact` up to that of quantity
  events. The data-health check compares total and unit cost with a
  tolerance of 0.01, which rounding alone can exceed (10,000,000 units for 157.33 have a
  unit cost of 0.00001573 and are off by 0.03): `Broken` leaves that comparison out,
  and no property speaks of it. A quantity event that shrinks lots may round what is
  left to zero, which `NoBrokenLot` excepts.
* Parts left out with their reason are in `PROJECT.json` under `components`:
  external HTTP clients and parsers, heuristics without a specification, read-only
  aggregation, cryptography by libraries, wiring, generated DDL. They are by far
  the larger part of the repository's lines; what is modelled are the protocols
  over shared tables and the arithmetic with a definition to check against.

## 8. Plan

1. `FileImport`: the stages of DEGIRO and Saxo uploads, from preview to commit.
2. `IntelScheduler` and the connector rate limiter: budgets at their limit.
3. `Persistence`: upsert keys and duplicate matching under overlapping syncs.
4. Composition of `Outbox` with `WebhookDelivery`: calls become claims of
   messages, and the bound on requests is stated per message.
