---------------------------- MODULE SyncPipeline ----------------------------
(***************************************************************************)
(* The sync of one connection: any number of workers (scheduler, API, CLI) *)
(* may call SyncOrchestrator.run_sync for it.  A run owns one sync_runs    *)
(* row, then commits account by account: the transactions fetched since    *)
(* the account's watermark, together with the new watermark, the start of  *)
(* the run.  A partial unique index admits one running row per connection; *)
(* an operator may stop a run, a worker may die in any step, and every new *)
(* run first closes the rows that are too old.                             *)
(*                                                                         *)
(* A provider transaction is represented by the account it belongs to and  *)
(* the instant it occurred at, which is all that the fetch filter sees.    *)
(***************************************************************************)
EXTENDS Integers

CONSTANTS
  Workers,      \* callers of run_sync
  Accounts,     \* accounts of the connection
  RunIds,       \* rows of sync_runs a behaviour may write
  Window,       \* default backfill of a first sync (90 days)
  StaleAfter,   \* sync_run_stale_after_minutes
  RateLimits,   \* retry_after of a provider's 429 answer, NoTime for none
  MaxStart,     \* bound: the last instant a run may start
  MaxBooked,    \* bound: the last instant a transaction may occur
  MaxTime,      \* bound: the clock stops here
  MaxCrashes    \* bound: worker crashes in one behaviour

VARIABLES
  now,        \* the clock
  run,        \* run[r]: the committed row r of sync_runs
  job,        \* job[w]: the local state of the run_sync call of w
  provider,   \* provider[a]: instants of a's transactions at the provider
  stored,     \* stored[a]: those persisted here
  cursor,     \* cursor[a]: the sync_cursor row of a
  retryAfter, \* credential.retry_after_at
  horizon,    \* history: the earliest instant a was ever fetched from
  crashes     \* number of crashes so far

vars == <<now, run, job, provider, stored, cursor, retryAfter, horizon, crashes>>
tables == <<run, stored, cursor, retryAfter>>

NoTime == -1
NoRun == "no_run"
NoAccount == "no_account"
Time == Nat
OptTime == Nat \cup {NoTime}

ASSUME SyncConstants ==
  /\ Window \in Nat /\ StaleAfter \in Nat
  /\ RateLimits \subseteq OptTime
  /\ MaxStart \in Nat /\ MaxBooked \in Nat /\ MaxTime \in Nat /\ MaxCrashes \in Nat
  /\ NoRun \notin RunIds /\ NoAccount \notin Accounts

Row == [status : {"absent", "running", "completed", "failed", "cancelled"},
        started : OptTime, cursor : OptTime, accounts : SUBSET Accounts]

\* began: when run_sync was called; full: an explicit since (full history);
\* start: start_ts of the pipeline; run, started: its row, which the database
\* holds only from CommitRun on; accounts, todo: those returned by the provider
\* and those still to do; seen: the watermarks loaded; acct, batch: the account
\* in hand and what was fetched for it; result, until: the SyncResult.
Job == [pc : {"idle", "recover", "start", "insert", "accounts", "cursors",
              "loop", "fetch", "persist", "fail", "record"},
        began : OptTime, full : BOOLEAN, start : OptTime,
        run : RunIds \cup {NoRun}, started : OptTime,
        accounts : SUBSET Accounts, todo : SUBSET Accounts,
        seen : [Accounts -> OptTime],
        acct : Accounts \cup {NoAccount}, batch : SUBSET Time,
        result : {"none", "completed", "failed", "rate_limited"},
        until : OptTime]

Absent == [status |-> "absent", started |-> NoTime, cursor |-> NoTime, accounts |-> {}]
NothingSeen == [a \in Accounts |-> NoTime]
IdleJob == [pc |-> "idle", began |-> NoTime, full |-> FALSE, start |-> NoTime,
            run |-> NoRun, started |-> NoTime, accounts |-> {}, todo |-> {},
            seen |-> NothingSeen, acct |-> NoAccount, batch |-> {},
            result |-> "none", until |-> NoTime]

Init ==
  /\ now = Window
  /\ run = [r \in RunIds |-> Absent]
  /\ job = [w \in Workers |-> IdleJob]
  /\ provider = [a \in Accounts |-> 0 .. Window - 1]
  /\ stored = [a \in Accounts |-> {}]
  /\ cursor = NothingSeen
  /\ retryAfter = NoTime
  /\ horizon = NothingSeen
  /\ crashes = 0

-----------------------------------------------------------------------------
\* The pipeline of w runs: from reading start_ts to its result.
InPipeline(w) == job[w].pc \in {"insert", "accounts", "cursors", "loop",
                                "fetch", "persist"}
Syncing(w) == job[w].pc \in {"recover", "start"} \/ InPipeline(w)

\* w has inserted its row in a transaction that is still open.
Inserting(w) == job[w].pc = "accounts"

\* The pipeline of w owns a committed row.
Owns(w) == job[w].pc \in {"cursors", "loop", "fetch", "persist", "fail"}

\* The heartbeat at the head of the account loop keeps the row of a running
\* run locked until the account commits.
RowLocked(r) ==
  \E w \in Workers : job[w].run = r /\ job[w].pc \in {"fetch", "persist"}

ActiveRun == \E r \in RunIds : run[r].status = "running"
Fresh(r) == run[r].status = "absent" /\ \A w \in Workers : job[w].run # r
Stale(r) == run[r].status = "running" /\ run[r].started < now - StaleAfter

\* _default_since, or the start of the provider's history.
Since(j) == IF j.full THEN 0 ELSE j.began - Window

\* cursors.get(external_account_id, since)
AccountSince(j, a) == IF j.seen[a] = NoTime THEN Since(j) ELSE j.seen[a]

Earliest(t, u) == IF t = NoTime \/ u < t THEN u ELSE t

-----------------------------------------------------------------------------
\* run_sync passes its rate-limit guard; otherwise it returns at once.
BeginSync(w) ==
  /\ job[w].pc = "idle"
  /\ retryAfter <= now
  /\ \E full \in BOOLEAN :
       job' = [job EXCEPT ![w] = [IdleJob EXCEPT !.pc = "recover",
                                    !.began = now, !.full = full]]
  /\ UNCHANGED <<now, tables, provider, horizon, crashes>>

\* Fault: the cutoff is never reached.
RecoverNever(w) ==
  /\ job[w].pc = "recover"
  /\ job' = [job EXCEPT ![w].pc = "start"]
  /\ UNCHANGED <<now, tables, provider, horizon, crashes>>

\* recover_stale_sync_runs: one UPDATE, which waits for locked rows.
RecoverStale(w) ==
  /\ job[w].pc = "recover"
  /\ \A r \in RunIds : Stale(r) => ~RowLocked(r)
  /\ run' = [r \in RunIds |-> IF Stale(r) THEN [run[r] EXCEPT !.status = "failed"]
                                          ELSE run[r]]
  /\ job' = [job EXCEPT ![w].pc = "start"]
  /\ UNCHANGED <<now, stored, cursor, retryAfter, provider, horizon, crashes>>

\* Bound: a retry-after that the clock can reach.
Capped(t) == IF t < MaxTime THEN t ELSE MaxTime

\* The SyncResult of an error: a 429 carries the instant of its retry-after,
\* or none.
ErrorResults ==
  {[kind |-> "failed", until |-> NoTime]}
    \cup {[kind |-> "rate_limited",
            until |-> IF d = NoTime THEN NoTime ELSE Capped(now + d)] : d \in RateLimits}

Finish(w, result) ==
  [job EXCEPT ![w] = [IdleJob EXCEPT !.pc = "record", !.result = result.kind,
                                     !.until = result.until]]

\* authenticate_before_pipeline fails: a row that is failed from the start is
\* written, or that write fails too and is logged.
PreauthenticationFails(w) ==
  /\ job[w].pc = "start"
  /\ \E result \in ErrorResults : job' = Finish(w, result)
  /\ \/ \E r \in RunIds : Fresh(r) /\ run' = [run EXCEPT ![r].status = "failed"]
     \/ UNCHANGED run
  /\ UNCHANGED <<now, stored, cursor, retryAfter, provider, horizon, crashes>>

\* _run_pipeline reads start_ts; start_sync_run looks for an active run.
StartSyncRun(w) ==
  /\ job[w].pc = "start"
  /\ now <= MaxStart
  /\ IF ActiveRun
       THEN job' = Finish(w, [kind |-> "failed", until |-> NoTime])
       ELSE job' = [job EXCEPT ![w].pc = "insert", ![w].start = now]
  /\ UNCHANGED <<now, tables, provider, horizon, crashes>>

\* Fault: the table has no unique index.
InsertRunUnchecked(w) ==
  /\ job[w].pc = "insert"
  /\ now <= MaxStart
  /\ \E r \in RunIds :
       /\ Fresh(r)
       /\ job' = [job EXCEPT ![w].pc = "accounts", ![w].run = r, ![w].started = now]
  /\ UNCHANGED <<now, tables, provider, horizon, crashes>>

\* The INSERT waits for the open insert of another worker.
InsertRun(w) ==
  /\ job[w].pc = "insert"
  /\ now <= MaxStart
  /\ ~ActiveRun
  /\ \A v \in Workers : ~Inserting(v)
  /\ \E r \in RunIds :
       /\ Fresh(r)
       /\ job' = [job EXCEPT ![w].pc = "accounts", ![w].run = r, ![w].started = now]
  /\ UNCHANGED <<now, tables, provider, horizon, crashes>>

\* The unique index, or the database, refuses the row: nothing is recorded.
InsertRefused(w) ==
  /\ job[w].pc = "insert"
  /\ job' = Finish(w, [kind |-> "failed", until |-> NoTime])
  /\ UNCHANGED <<now, tables, provider, horizon, crashes>>

\* Authentication and the account fetch succeed; the row is committed.
CommitRun(w) ==
  /\ Inserting(w)
  /\ \E offered \in SUBSET Accounts :
       /\ run' = [run EXCEPT ![job[w].run] =
                    [status |-> "running", started |-> job[w].started,
                     cursor |-> NoTime, accounts |-> {}]]
       /\ job' = [job EXCEPT ![w].pc = "cursors", ![w].accounts = offered,
                             ![w].todo = offered]
  /\ UNCHANGED <<now, stored, cursor, retryAfter, provider, horizon, crashes>>

\* get_connector_cursors, only when no explicit since was given.
LoadCursors(w) ==
  /\ job[w].pc = "cursors"
  /\ job' = [job EXCEPT ![w].pc = "loop",
                        ![w].seen = IF job[w].full THEN NothingSeen ELSE cursor]
  /\ UNCHANGED <<now, tables, provider, horizon, crashes>>

\* The next account: its transaction opens with a heartbeat.
OpenAccount(w) ==
  /\ job[w].pc = "loop"
  /\ \E a \in job[w].todo :
       job' = [job EXCEPT ![w].pc = "fetch", ![w].acct = a, ![w].todo = @ \ {a}]
  /\ UNCHANGED <<now, tables, provider, horizon, crashes>>

\* The provider's answer: everything that occurred on or after since.
FetchTransactions(w) ==
  /\ job[w].pc = "fetch"
  /\ job' = [job EXCEPT ![w].pc = "persist",
       ![w].batch = {t \in provider[job[w].acct] : t >= AccountSince(job[w], job[w].acct)}]
  /\ UNCHANGED <<now, tables, provider, horizon, crashes>>

\* Fault: the watermark is the time of the commit.
CommitAccountNow(w) ==
  /\ job[w].pc = "persist"
  /\ LET a == job[w].acct
     IN  /\ stored' = [stored EXCEPT ![a] = @ \cup job[w].batch]
         /\ cursor' = [cursor EXCEPT ![a] = now]
         /\ horizon' = [horizon EXCEPT ![a] = Earliest(@, AccountSince(job[w], a))]
  /\ job' = [job EXCEPT ![w].pc = "loop", ![w].acct = NoAccount, ![w].batch = {}]
  /\ UNCHANGED <<now, run, retryAfter, provider, crashes>>

\* Transactions and watermark of one account commit together.
CommitAccount(w) ==
  /\ job[w].pc = "persist"
  /\ LET a == job[w].acct
     IN  /\ stored' = [stored EXCEPT ![a] = @ \cup job[w].batch]
         /\ cursor' = [cursor EXCEPT ![a] = job[w].start]
         /\ horizon' = [horizon EXCEPT ![a] = Earliest(@, AccountSince(job[w], a))]
  /\ job' = [job EXCEPT ![w].pc = "loop", ![w].acct = NoAccount, ![w].batch = {}]
  /\ UNCHANGED <<now, run, retryAfter, provider, crashes>>

\* Fault: an account that failed is skipped.
PipelineErrorSkips(w) ==
  /\ job[w].pc \in {"fetch", "persist"}
  /\ job' = [job EXCEPT ![w].pc = "loop", ![w].acct = NoAccount, ![w].batch = {}]
  /\ UNCHANGED <<now, tables, provider, horizon, crashes>>

\* Any stage raises: the open transaction rolls back.
PipelineError(w) ==
  /\ job[w].pc \in {"accounts", "cursors", "loop", "fetch", "persist"}
  /\ \E result \in ErrorResults :
       job' = [job EXCEPT ![w] = [IdleJob EXCEPT !.pc = "fail", !.run = job[w].run,
                 !.start = job[w].start, !.accounts = job[w].accounts,
                 !.result = result.kind, !.until = result.until]]
  /\ UNCHANGED <<now, tables, provider, horizon, crashes>>

\* mark_sync_run_failed: whatever the row says by now, or a new row when the
\* rollback took it; its own failure is only logged.
MarkSyncRunFailed(w) ==
  /\ job[w].pc = "fail"
  /\ \/ run' = [run EXCEPT ![job[w].run].status = "failed"]
     \/ UNCHANGED run
  /\ job' = Finish(w, [kind |-> job[w].result, until |-> job[w].until])
  /\ UNCHANGED <<now, stored, cursor, retryAfter, provider, horizon, crashes>>

\* complete_sync_run, whatever the row says by now; report and event go along.
CompleteSyncRun(w) ==
  /\ job[w].pc = "loop" /\ job[w].todo = {}
  /\ run' = [run EXCEPT ![job[w].run] = [@ EXCEPT !.status = "completed",
               !.cursor = job[w].start, !.accounts = job[w].accounts]]
  /\ job' = Finish(w, [kind |-> "completed", until |-> NoTime])
  /\ UNCHANGED <<now, stored, cursor, retryAfter, provider, horizon, crashes>>

\* _record_connection_outcome; its own failure is only logged.
RecordOutcome(w) ==
  /\ job[w].pc = "record"
  /\ retryAfter' \in
       {retryAfter, CASE job[w].result = "completed"    -> NoTime
                      [] job[w].result = "rate_limited" -> job[w].until
                      [] OTHER                          -> retryAfter}
  /\ job' = [job EXCEPT ![w] = IdleJob]
  /\ UNCHANGED <<now, run, stored, cursor, provider, horizon, crashes>>

\* Fault: a status the enumeration does not know.
StopSyncRunMisspelt(r) ==
  /\ run[r].status = "running"
  /\ ~RowLocked(r)
  /\ run' = [run EXCEPT ![r].status = "canceled"]
  /\ UNCHANGED <<now, job, stored, cursor, retryAfter, provider, horizon, crashes>>

\* stop_sync_run: a guarded UPDATE, which waits for a locked row.
StopSyncRun(r) ==
  /\ run[r].status = "running"
  /\ ~RowLocked(r)
  /\ run' = [run EXCEPT ![r].status = "cancelled"]
  /\ UNCHANGED <<now, job, stored, cursor, retryAfter, provider, horizon, crashes>>

\* The process dies: its open transaction rolls back.
Crash(w) ==
  /\ job[w].pc # "idle"
  /\ crashes < MaxCrashes
  /\ crashes' = crashes + 1
  /\ job' = [job EXCEPT ![w] = IdleJob]
  /\ UNCHANGED <<now, tables, provider, horizon>>

\* The provider books a transaction; it is dated when it becomes visible.
ProviderBooks(a) ==
  /\ now <= MaxBooked
  /\ now \notin provider[a]
  /\ provider' = [provider EXCEPT ![a] = @ \cup {now}]
  /\ UNCHANGED <<now, job, tables, horizon, crashes>>

\* Time passes; no sync takes longer than the backfill window.
Tick ==
  /\ now < MaxTime
  /\ \A w \in Workers : Syncing(w) => now < job[w].began + Window
  /\ now' = now + 1
  /\ UNCHANGED <<job, tables, provider, horizon, crashes>>

Step(w) ==
  \/ RecoverStale(w) \/ PreauthenticationFails(w) \/ StartSyncRun(w)
  \/ InsertRun(w) \/ InsertRefused(w) \/ CommitRun(w) \/ LoadCursors(w)
  \/ OpenAccount(w) \/ FetchTransactions(w) \/ CommitAccount(w)
  \/ PipelineError(w) \/ MarkSyncRunFailed(w) \/ CompleteSyncRun(w)
  \/ RecordOutcome(w)

Next ==
  \/ \E w \in Workers : BeginSync(w) \/ Step(w) \/ Crash(w)
  \/ \E r \in RunIds : StopSyncRun(r)
  \/ \E a \in Accounts : ProviderBooks(a)
  \/ Tick

Spec == Init /\ [][Next]_vars

\* The scheduler keeps starting syncs, a started one proceeds, time passes.
Fairness ==
  /\ \A w \in Workers : WF_vars(BeginSync(w)) /\ WF_vars(Step(w))
  /\ WF_vars(Tick)

FairSpec == Spec /\ Fairness

-----------------------------------------------------------------------------
\* Everything that occurred in [from, to) is stored.
Covered(a, from, to) ==
  \A t \in provider[a] : from <= t /\ t < to => t \in stored[a]

\* Every column and local variable keeps its type; a job that is not idle
\* remembers when it began.
TypeOK ==
  /\ now \in Time
  /\ run \in [RunIds -> Row]
  /\ job \in [Workers -> Job]
  /\ provider \in [Accounts -> SUBSET Time]
  /\ stored \in [Accounts -> SUBSET Time]
  /\ cursor \in [Accounts -> OptTime]
  /\ horizon \in [Accounts -> OptTime]
  /\ retryAfter \in OptTime
  /\ crashes \in Nat

\* No gap behind the watermark: whatever overlapping, failed, stopped, stale or
\* crashed runs left behind, every provider transaction from the first instant
\* the account was fetched from up to its sync_cursor is stored, so resuming at
\* the cursor skips nothing.
CursorSound ==
  \A a \in Accounts :
    cursor[a] # NoTime => horizon[a] # NoTime /\ Covered(a, horizon[a], cursor[a])

\* A row reported completed is true to its own watermark, for every account it
\* names, even when a stop or a stale recovery let another run overlap it.
CompletedRunIsComplete ==
  \A r \in RunIds : run[r].status = "completed" =>
    \A a \in run[r].accounts :
      horizon[a] # NoTime /\ Covered(a, horizon[a], run[r].cursor)

\* Two pipelines of one connection work at the same time only if the row of
\* one of them was stopped, recovered or failed in the meantime.
OverlapOnlyAfterRelease ==
  \A v, w \in Workers :
    v # w /\ Owns(v) /\ Owns(w)
      => \E u \in {v, w} : run[job[u].run].status # "running"

\* A row never stays running: if its worker died, a later sync closes it.
StaleRunsEnd ==
  \A r \in RunIds : run[r].status = "running" ~> run[r].status # "running"

=============================================================================
