------------------------- MODULE SyncPipelineProofs -------------------------
(***************************************************************************)
(* Proofs about SyncPipeline, for every set of workers, accounts and rows, *)
(* every window and every bound.                                           *)
(***************************************************************************)
EXTENDS SyncPipeline, TLAPS

\* The part of the state that watermarks are about.
World == [now |-> now, cursor |-> cursor, horizon |-> horizon,
          provider |-> provider, stored |-> stored]

Worlds == [now : Time, cursor : [Accounts -> OptTime], horizon : [Accounts -> OptTime],
           provider : [Accounts -> SUBSET Time], stored : [Accounts -> SUBSET Time]]

\* Covered, in the world W.
CoveredIn(W, a, from, to) ==
  \A t \in W.provider[a] : from <= t /\ t < to => t \in W.stored[a]

\* A watermark and a horizon exist together, and nothing between them is missing.
AccountsSound(W) ==
  \A a \in Accounts :
    /\ W.cursor[a] <= W.now /\ W.horizon[a] <= W.now
    /\ W.cursor[a] = NoTime <=> W.horizon[a] = NoTime
    /\ W.cursor[a] # NoTime => CoveredIn(W, a, W.horizon[a], W.cursor[a])

\* CompletedRunIsComplete, for one row.
RowSound(row, W) ==
  /\ row.cursor <= W.now
  /\ row.status = "completed" =>
       \A a \in row.accounts :
         W.horizon[a] # NoTime /\ CoveredIn(W, a, W.horizon[a], row.cursor)

PipelinePcs == {"insert", "accounts", "cursors", "loop", "fetch", "persist"}
ResumedPcs == {"loop", "fetch", "persist"}

\* No sync outlives the backfill window; what it saw exists.
JobClocks(j, W) ==
  /\ \A a \in Accounts : j.seen[a] <= W.now /\ (j.seen[a] # NoTime => W.cursor[a] # NoTime)
  /\ j.pc \in {"recover", "start"} \cup PipelinePcs =>
       /\ j.began \in Nat /\ Window <= j.began
       /\ j.began <= W.now /\ W.now <= j.began + Window
  /\ j.pc \in PipelinePcs =>
       /\ j.began <= j.start /\ j.start <= W.now
       /\ \A a \in Accounts : W.horizon[a] <= j.start

\* Where a fetch resumes nothing is missing before it; accounts that are done
\* are complete up to the start of the run.
JobResumes(j, W) ==
  j.pc \in ResumedPcs =>
    \A a \in Accounts :
      /\ W.horizon[a] # NoTime => CoveredIn(W, a, W.horizon[a], AccountSince(j, a))
      /\ a \in j.accounts /\ a \notin j.todo /\ a # j.acct
           => W.horizon[a] # NoTime /\ CoveredIn(W, a, W.horizon[a], j.start)

\* The account in hand, and what was fetched for it.
JobInHand(j, W) ==
  /\ j.pc \in {"fetch", "persist"} => j.acct \in Accounts
  /\ j.pc = "persist" =>
       \A t \in W.provider[j.acct] :
         AccountSince(j, j.acct) <= t /\ t < j.start => t \in j.batch
  /\ j.pc \notin {"fetch", "persist"} => j.acct = NoAccount
  /\ j.pc = "cursors" => j.todo = j.accounts

JobSound(j, W) == JobClocks(j, W) /\ JobResumes(j, W) /\ JobInHand(j, W)

\* The inductive invariant behind CursorSound and CompletedRunIsComplete.
CursorInv ==
  /\ TypeOK
  /\ Window <= now
  /\ AccountsSound(World)
  /\ \A r \in RunIds : RowSound(run[r], World)
  /\ \A w \in Workers : JobSound(job[w], World)

\* Rows and their owners: the inductive invariant behind OverlapOnlyAfterRelease.
RunInv ==
  /\ \A w \in Workers : Owns(w) \/ Inserting(w) => job[w].run \in RunIds
  /\ \A v, w \in Workers : job[v].run # NoRun /\ job[v].run = job[w].run => v = w
  /\ \A r, s \in RunIds : run[r].status = "running" /\ run[s].status = "running" => r = s
  /\ \A w \in Workers : Inserting(w) => ~ActiveRun /\ run[job[w].run].status = "absent"
  /\ \A v, w \in Workers : Inserting(v) /\ Inserting(w) => v = w

-----------------------------------------------------------------------------
\* The types of the pieces that the steps are built from.
LEMMA OptTimes ==
  ASSUME TypeOK
  PROVE  /\ NoTime \in OptTime /\ now \in OptTime
         /\ NothingSeen \in [Accounts -> OptTime]
         /\ \A w \in Workers : job[w] \in Job
         /\ \A r \in RunIds : run[r] \in Row
BY DEF TypeOK, OptTime, Time, NothingSeen

\* An idle worker has the type of a job.
LEMMA IdleJobType == IdleJob \in Job
<1>1. NoTime \in OptTime /\ NothingSeen \in [Accounts -> OptTime]
  BY DEF OptTime, NothingSeen
<1> QED BY <1>1 DEF IdleJob, Job

\* The results an error of the pipeline can have.
LEMMA ErrorResultType ==
  ASSUME TypeOK, NEW result \in ErrorResults
  PROVE  /\ result.kind \in {"failed", "rate_limited"}
         /\ result.until \in OptTime
<1>1. CASE result = [kind |-> "failed", until |-> NoTime]
  BY <1>1 DEF OptTime
<1>2. ASSUME NEW d \in RateLimits,
             result = [kind |-> "rate_limited",
                       until |-> IF d = NoTime THEN NoTime ELSE Capped(now + d)]
      PROVE  /\ result.kind = "rate_limited"
             /\ result.until \in OptTime
  <2>1. d = NoTime \/ d \in Nat BY SyncConstants DEF OptTime
  <2>2. d \in Nat => Capped(now + d) \in OptTime
    BY SyncConstants DEF Capped, OptTime, TypeOK, Time
  <2>3. result.kind = "rate_limited" BY <1>2
  <2>4. result.until = IF d = NoTime THEN NoTime ELSE Capped(now + d) BY <1>2
  <2> QED BY <2>1, <2>2, <2>3, <2>4, OptTimes
<1> QED BY <1>1, <1>2 DEF ErrorResults

\* Handing a result to the recorder yields jobs.
LEMMA FinishType ==
  ASSUME TypeOK, NEW w \in Workers, NEW kind \in {"none", "completed", "failed", "rate_limited"},
         NEW until \in OptTime
  PROVE  Finish(w, [kind |-> kind, until |-> until]) \in [Workers -> Job]
<1>1. [IdleJob EXCEPT !.pc = "record", !.result = kind, !.until = until] \in Job
  BY IdleJobType DEF Job
<1> QED BY <1>1 DEF Finish, TypeOK

\* The job after the provider has named its accounts.
LEMMA OfferedJob ==
  ASSUME NEW j \in Job, NEW offered \in SUBSET Accounts
  PROVE  [j EXCEPT !.pc = "cursors", !.accounts = offered, !.todo = offered] \in Job
BY DEF Job

\* The job after it has opened an account.
LEMMA OpenedJob ==
  ASSUME NEW j \in Job, NEW a \in Accounts, NEW rest \in SUBSET Accounts
  PROVE  [j EXCEPT !.pc = "fetch", !.acct = a, !.todo = rest] \in Job
BY DEF Job

\* Types are preserved by every step.
LEMMA TypeStep ==
  ASSUME CursorInv, [Next]_vars
  PROVE  TypeOK'
<1> TypeOK BY DEF CursorInv
<1> USE SyncConstants, OptTimes
<1>1. ASSUME NEW w \in Workers, BeginSync(w) PROVE TypeOK'
  <2>1. PICK full \in BOOLEAN :
          job' = [job EXCEPT ![w] = [IdleJob EXCEPT !.pc = "recover",
                                    !.began = now, !.full = full]]
    BY <1>1 DEF BeginSync
  <2>2. [IdleJob EXCEPT !.pc = "recover", !.began = now, !.full = full] \in Job
    BY IdleJobType DEF Job
  <2>3. job' \in [Workers -> Job] BY <2>1, <2>2 DEF TypeOK
  <2> QED BY <1>1, <2>3 DEF BeginSync, TypeOK, tables
<1>2. ASSUME NEW w \in Workers, RecoverStale(w) PROVE TypeOK'
  <2>1. [job[w] EXCEPT !.pc = "start"] \in Job BY DEF Job
  <2>2. job' \in [Workers -> Job] BY <1>2, <2>1 DEF RecoverStale, TypeOK
  <2>3. \A r \in RunIds : [run[r] EXCEPT !.status = "failed"] \in Row BY DEF Row
  <2>4. run' \in [RunIds -> Row] BY <1>2, <2>3 DEF RecoverStale, TypeOK
  <2> QED BY <1>2, <2>2, <2>4 DEF RecoverStale, TypeOK
<1>3. ASSUME NEW w \in Workers, PreauthenticationFails(w) PROVE TypeOK'
  <2>1. PICK result \in ErrorResults : job' = Finish(w, result)
    BY <1>3 DEF PreauthenticationFails
  <2>2. Finish(w, result) = Finish(w, [kind |-> result.kind, until |-> result.until])
    BY DEF Finish
  <2>3. job' \in [Workers -> Job] BY <2>1, <2>2, ErrorResultType, FinishType
  <2>4. \A r \in RunIds : [run[r] EXCEPT !.status = "failed"] \in Row BY DEF Row
  <2>5. run' \in [RunIds -> Row] BY <1>3, <2>4 DEF PreauthenticationFails, TypeOK
  <2> QED BY <1>3, <2>3, <2>5 DEF PreauthenticationFails, TypeOK
<1>4. ASSUME NEW w \in Workers, StartSyncRun(w) PROVE TypeOK'
  <2>1. [job[w] EXCEPT !.pc = "insert", !.start = now] \in Job BY DEF Job
  <2>2. Finish(w, [kind |-> "failed", until |-> NoTime]) \in [Workers -> Job]
    BY FinishType
  <2>3. job' \in [Workers -> Job] BY <1>4, <2>1, <2>2 DEF StartSyncRun, TypeOK
  <2> QED BY <1>4, <2>3 DEF StartSyncRun, TypeOK, tables
<1>5. ASSUME NEW w \in Workers, InsertRun(w) PROVE TypeOK'
  <2>1. PICK r \in RunIds :
          job' = [job EXCEPT ![w].pc = "accounts", ![w].run = r, ![w].started = now]
    BY <1>5 DEF InsertRun
  <2>2. [job[w] EXCEPT !.pc = "accounts", !.run = r, !.started = now] \in Job BY DEF Job
  <2>3. job' \in [Workers -> Job] BY <2>1, <2>2 DEF TypeOK
  <2> QED BY <1>5, <2>3 DEF InsertRun, TypeOK, tables
<1>6. ASSUME NEW w \in Workers, InsertRefused(w) PROVE TypeOK'
  <2>1. job' \in [Workers -> Job] BY <1>6, FinishType DEF InsertRefused
  <2> QED BY <1>6, <2>1 DEF InsertRefused, TypeOK, tables
<1>7. ASSUME NEW w \in Workers, CommitRun(w) PROVE TypeOK'
  <2>1. PICK offered \in SUBSET Accounts :
          job' = [job EXCEPT ![w].pc = "cursors", ![w].accounts = offered,
                             ![w].todo = offered]
    BY <1>7 DEF CommitRun
  <2>2. [job[w] EXCEPT !.pc = "cursors", !.accounts = offered, !.todo = offered] \in Job
    BY OfferedJob
  <2>3. job' \in [Workers -> Job] BY <2>1, <2>2 DEF TypeOK
  <2>4. job[w].started \in OptTime BY DEF Job
  <2>5. [status |-> "running", started |-> job[w].started, cursor |-> NoTime,
         accounts |-> {}] \in Row
    BY <2>4 DEF Row
  <2>6. run' \in [RunIds -> Row] BY <1>7, <2>5 DEF CommitRun, TypeOK
  <2> QED BY <1>7, <2>3, <2>6 DEF CommitRun, TypeOK
<1>8. ASSUME NEW w \in Workers, LoadCursors(w) PROVE TypeOK'
  <2>1. cursor \in [Accounts -> OptTime] BY DEF TypeOK
  <2>2. PICK seen \in [Accounts -> OptTime] :
          job' = [job EXCEPT ![w].pc = "loop", ![w].seen = seen]
    BY <1>8, <2>1 DEF LoadCursors
  <2>3. [job[w] EXCEPT !.pc = "loop", !.seen = seen] \in Job BY DEF Job
  <2>4. job' \in [Workers -> Job] BY <2>2, <2>3 DEF TypeOK
  <2> QED BY <1>8, <2>4 DEF LoadCursors, TypeOK, tables
<1>9. ASSUME NEW w \in Workers, OpenAccount(w) PROVE TypeOK'
  <2>1. PICK a \in job[w].todo :
          job' = [job EXCEPT ![w].pc = "fetch", ![w].acct = a, ![w].todo = @ \ {a}]
    BY <1>9 DEF OpenAccount
  <2>2. a \in Accounts BY <2>1 DEF Job
  <2>3. [job[w] EXCEPT !.pc = "fetch", !.acct = a, !.todo = @ \ {a}] \in Job
    <3>1. job[w].todo \ {a} \in SUBSET Accounts BY DEF Job
    <3> QED BY <2>2, <3>1, OpenedJob
  <2>4. job' \in [Workers -> Job] BY <2>1, <2>3 DEF TypeOK
  <2> QED BY <1>9, <2>4 DEF OpenAccount, TypeOK, tables
<1>10. ASSUME NEW w \in Workers, FetchTransactions(w) PROVE TypeOK'
  <2>1. job[w].acct \in Accounts
    BY <1>10 DEF CursorInv, JobSound, JobInHand, FetchTransactions
  <2>2. PICK batch \in SUBSET Time :
          job' = [job EXCEPT ![w].pc = "persist", ![w].batch = batch]
    BY <1>10, <2>1 DEF FetchTransactions, TypeOK
  <2>3. [job[w] EXCEPT !.pc = "persist", !.batch = batch] \in Job BY DEF Job
  <2>4. job' \in [Workers -> Job] BY <2>2, <2>3 DEF TypeOK
  <2> QED BY <1>10, <2>4 DEF FetchTransactions, TypeOK, tables
<1>11. ASSUME NEW w \in Workers, CommitAccount(w) PROVE TypeOK'
  <2>1. job[w].acct \in Accounts
    BY <1>11 DEF CursorInv, JobSound, JobInHand, CommitAccount
  <2>2. /\ job[w].start \in OptTime /\ job[w].batch \subseteq Time
        /\ AccountSince(job[w], job[w].acct) \in OptTime
    <3>1. /\ job[w].start \in OptTime /\ job[w].batch \subseteq Time
          /\ job[w].seen[job[w].acct] \in OptTime
      BY <2>1 DEF Job
    <3>2. Since(job[w]) \in Nat
      <4>1. job[w].began \in Nat /\ Window <= job[w].began
        BY <1>11 DEF CommitAccount, CursorInv, JobSound, JobClocks, PipelinePcs
      <4> QED BY <4>1 DEF Since
    <3> QED BY <3>1, <3>2 DEF AccountSince, OptTime
  <2>3. [job[w] EXCEPT !.pc = "loop", !.acct = NoAccount, !.batch = {}] \in Job BY DEF Job
  <2>4. job' \in [Workers -> Job] BY <1>11, <2>3 DEF CommitAccount, TypeOK
  <2>5. stored' \in [Accounts -> SUBSET Time] BY <1>11, <2>1, <2>2 DEF CommitAccount, TypeOK
  <2>6. cursor' \in [Accounts -> OptTime] BY <1>11, <2>1, <2>2 DEF CommitAccount, TypeOK
  <2>7. horizon' \in [Accounts -> OptTime]
    BY <1>11, <2>1, <2>2 DEF CommitAccount, TypeOK, Earliest
  <2> QED BY <1>11, <2>4, <2>5, <2>6, <2>7 DEF CommitAccount, TypeOK
<1>12. ASSUME NEW w \in Workers, PipelineError(w) PROVE TypeOK'
  <2>1. PICK result \in ErrorResults :
          job' = [job EXCEPT ![w] = [IdleJob EXCEPT !.pc = "fail", !.run = job[w].run,
                    !.start = job[w].start, !.accounts = job[w].accounts,
                    !.result = result.kind, !.until = result.until]]
    BY <1>12 DEF PipelineError
  <2>2. /\ result.kind \in {"failed", "rate_limited"} /\ result.until \in OptTime
        /\ job[w].run \in RunIds \cup {NoRun} /\ job[w].start \in OptTime
        /\ job[w].accounts \in SUBSET Accounts
    BY ErrorResultType DEF Job
  <2>3. [IdleJob EXCEPT !.pc = "fail", !.run = job[w].run,
                    !.start = job[w].start, !.accounts = job[w].accounts,
                    !.result = result.kind, !.until = result.until] \in Job
    BY <2>2, IdleJobType DEF Job
  <2>4. job' \in [Workers -> Job] BY <2>1, <2>3 DEF TypeOK
  <2> QED BY <1>12, <2>4 DEF PipelineError, TypeOK, tables
<1>13. ASSUME NEW w \in Workers, MarkSyncRunFailed(w) PROVE TypeOK'
  <2>1. job[w].result \in {"none", "completed", "failed", "rate_limited"} /\ job[w].until \in OptTime
    BY DEF Job
  <2>2. job' \in [Workers -> Job] BY <1>13, <2>1, FinishType DEF MarkSyncRunFailed
  <2>3. \A r \in RunIds : [run[r] EXCEPT !.status = "failed"] \in Row BY DEF Row
  <2>4. run' \in [RunIds -> Row] BY <1>13, <2>3 DEF MarkSyncRunFailed, TypeOK
  <2> QED BY <1>13, <2>2, <2>4 DEF MarkSyncRunFailed, TypeOK
<1>14. ASSUME NEW w \in Workers, CompleteSyncRun(w) PROVE TypeOK'
  <2>1. job[w].start \in OptTime /\ job[w].accounts \in SUBSET Accounts BY DEF Job
  <2>2. job' \in [Workers -> Job] BY <1>14, FinishType DEF CompleteSyncRun
  <2>3. \A r \in RunIds : [run[r] EXCEPT !.status = "completed", !.cursor = job[w].start,
                                         !.accounts = job[w].accounts] \in Row
    BY <2>1 DEF Row
  <2>4. run' \in [RunIds -> Row] BY <1>14, <2>3 DEF CompleteSyncRun, TypeOK
  <2> QED BY <1>14, <2>2, <2>4 DEF CompleteSyncRun, TypeOK
<1>15. ASSUME NEW w \in Workers, RecordOutcome(w) PROVE TypeOK'
  <2>1. job[w].until \in OptTime BY DEF Job
  <2>2. retryAfter' \in OptTime BY <1>15, <2>1 DEF RecordOutcome, TypeOK
  <2>3. job' \in [Workers -> Job] BY <1>15, IdleJobType DEF RecordOutcome, TypeOK
  <2> QED BY <1>15, <2>2, <2>3 DEF RecordOutcome, TypeOK
<1>16. ASSUME NEW r \in RunIds, StopSyncRun(r) PROVE TypeOK'
  <2>1. [run[r] EXCEPT !.status = "cancelled"] \in Row BY DEF Row
  <2>2. run' \in [RunIds -> Row] BY <1>16, <2>1 DEF StopSyncRun, TypeOK
  <2> QED BY <1>16, <2>2 DEF StopSyncRun, TypeOK
<1>17. ASSUME NEW w \in Workers, Crash(w) PROVE TypeOK'
  <2>1. job' \in [Workers -> Job] BY <1>17, IdleJobType DEF Crash, TypeOK
  <2> QED BY <1>17, <2>1 DEF Crash, TypeOK, tables
<1>18. ASSUME NEW a \in Accounts, ProviderBooks(a) PROVE TypeOK'
  BY <1>18 DEF ProviderBooks, TypeOK, tables
<1>19. CASE Tick
  BY <1>19 DEF Tick, TypeOK, tables, Time
<1>20. CASE UNCHANGED vars
  BY <1>20 DEF TypeOK, vars
<1> QED
  BY <1>1, <1>2, <1>3, <1>4, <1>5, <1>6, <1>7, <1>8, <1>9, <1>10, <1>11, <1>12,
     <1>13, <1>14, <1>15, <1>16, <1>17, <1>18, <1>19, <1>20 DEF Next, Step

-----------------------------------------------------------------------------
\* The default since of one sync lies before the start of every other one that
\* runs at the same time.
LEMMA SinceBound ==
  ASSUME NEW W \in Worlds, NEW j \in Job, NEW k \in Job,
         JobClocks(j, W), JobClocks(k, W), j.pc \in PipelinePcs, k.pc \in PipelinePcs
  PROVE  Since(j) \in Nat /\ Since(j) <= k.start
<1>1. j.began \in Nat /\ Window <= j.began /\ j.began <= W.now
  BY DEF JobClocks
<1>2. k.began \in Nat /\ W.now <= k.began + Window /\ k.began <= k.start
  BY DEF JobClocks
<1>3. k.start \in Int /\ W.now \in Nat
  BY DEF Job, Worlds, OptTime, NoTime, Time
<1> QED BY <1>1, <1>2, <1>3, SyncConstants DEF Since

\* The lower bound of a fetch lies in the past.
LEMMA SinceType ==
  ASSUME NEW W \in Worlds, NEW j \in Job, JobClocks(j, W), j.pc \in PipelinePcs,
         NEW a \in Accounts
  PROVE  AccountSince(j, a) \in Nat /\ AccountSince(j, a) <= W.now
<1>1. Since(j) \in Nat /\ Since(j) <= W.now
  <2>1. j.began \in Nat /\ Window <= j.began /\ j.began <= W.now
    BY DEF JobClocks
  <2>2. W.now \in Nat BY DEF Worlds, Time
  <2> QED BY <2>1, <2>2, SyncConstants DEF Since
<1>2. j.seen[a] \in OptTime /\ j.seen[a] <= W.now
  BY DEF Job, JobClocks
<1> QED BY <1>1, <1>2 DEF AccountSince, OptTime

\* What the commit of one account does to the world.
Commits(j, W, V) ==
  /\ V.now = W.now /\ V.provider = W.provider
  /\ V.stored = [W.stored EXCEPT ![j.acct] = @ \cup j.batch]
  /\ V.cursor = [W.cursor EXCEPT ![j.acct] = j.start]
  /\ V.horizon = [W.horizon EXCEPT ![j.acct] = Earliest(@, AccountSince(j, j.acct))]

\* Nothing that was covered from the horizon on is lost, and the account in
\* hand is covered up to the start of the run.
LEMMA CommitCovers ==
  ASSUME NEW W \in Worlds, NEW V \in Worlds, NEW j \in Job, AccountsSound(W),
         JobSound(j, W), j.pc = "persist", Commits(j, W, V)
  PROVE  /\ \A a \in Accounts, u \in Nat :
              W.horizon[a] # NoTime /\ CoveredIn(W, a, W.horizon[a], u)
                => V.horizon[a] # NoTime /\ CoveredIn(V, a, V.horizon[a], u)
         /\ V.horizon[j.acct] # NoTime
         /\ V.horizon[j.acct] <= j.start
         /\ CoveredIn(V, j.acct, V.horizon[j.acct], j.start)
<1> DEFINE b == j.acct
<1> DEFINE s == AccountSince(j, b)
<1> DEFINE h == W.horizon[b]
<1>1. b \in Accounts BY DEF JobSound, JobInHand
<1>2. s \in Nat /\ s <= W.now BY <1>1, SinceType DEF JobSound, PipelinePcs
<1>3. j.start \in Nat /\ h <= j.start
  <2>1. j.began \in Nat /\ j.began <= j.start /\ h <= j.start
    BY <1>1 DEF JobSound, JobClocks, PipelinePcs
  <2>2. j.start \in OptTime BY DEF Job
  <2> QED BY <2>1, <2>2 DEF OptTime, NoTime
<1>4. \A t \in W.provider[b] : s <= t /\ t < j.start => t \in j.batch
  BY DEF JobSound, JobInHand
<1>5. h # NoTime => CoveredIn(W, b, h, s)
  BY <1>1 DEF JobSound, JobResumes, ResumedPcs
<1>6. h \in OptTime BY <1>1 DEF Worlds
<1>7. W.provider[b] \subseteq Nat BY <1>1 DEF Worlds, Time
<1>8. V.horizon[b] = IF h = NoTime \/ s < h THEN s ELSE h
  BY <1>1 DEF Commits, Earliest, Worlds
<1>9. V.stored[b] = W.stored[b] \cup j.batch /\ V.provider[b] = W.provider[b]
  BY <1>1 DEF Commits, Worlds
<1>10. h = NoTime => s <= j.start
  <2> SUFFICES ASSUME h = NoTime PROVE s <= j.start
    OBVIOUS
  <2>1. W.cursor[b] = NoTime BY <1>1 DEF AccountsSound
  <2>2. j.seen[b] = NoTime BY <2>1, <1>1 DEF JobSound, JobClocks
  <2>3. Since(j) <= j.start BY SinceBound DEF JobSound, PipelinePcs
  <2> QED BY <2>2, <2>3 DEF AccountSince
<1> HIDE DEF s, h, b
<1>11. ASSUME NEW u \in Nat, h # NoTime, CoveredIn(W, b, h, u)
       PROVE  V.horizon[b] # NoTime /\ CoveredIn(V, b, V.horizon[b], u)
  <2>1. V.horizon[b] \in Nat BY <1>11, <1>8, <1>6, <1>2 DEF OptTime
  <2>2. ASSUME NEW t \in W.provider[b], V.horizon[b] <= t, t < u PROVE t \in V.stored[b]
    <3>1. CASE h <= t BY <2>2, <3>1, <1>11, <1>9 DEF CoveredIn
    <3>2. CASE ~(h <= t)
      <4>1. s <= t /\ t < j.start
        BY <1>2, <1>3, <1>6, <1>7, <1>8, <1>11, <2>2, <3>2 DEF OptTime, NoTime
      <4> QED BY <4>1, <1>4, <1>9
    <3> QED BY <3>1, <3>2
  <2>3. CoveredIn(V, b, V.horizon[b], u) BY <2>2, <1>9 DEF CoveredIn
  <2> QED BY <2>1, <2>3 DEF NoTime
<1>12. V.horizon[b] # NoTime /\ V.horizon[b] <= j.start
  BY <1>2, <1>3, <1>6, <1>8, <1>10 DEF OptTime, NoTime
<1>13. CoveredIn(V, b, V.horizon[b], j.start)
  <2>1. ASSUME NEW t \in W.provider[b], V.horizon[b] <= t, t < j.start PROVE t \in V.stored[b]
    <3>1. CASE s <= t BY <2>1, <3>1, <1>4, <1>9
    <3>2. CASE ~(s <= t)
      <4>1. h # NoTime /\ h <= t /\ t < s
        BY <1>2, <1>6, <1>7, <1>8, <2>1, <3>2 DEF OptTime, NoTime
      <4> QED BY <4>1, <1>5, <1>9, <2>1 DEF CoveredIn
    <3> QED BY <3>1, <3>2
  <2> QED BY <2>1, <1>9 DEF CoveredIn
<1>14. ASSUME NEW a \in Accounts, a # b
       PROVE  /\ V.horizon[a] = W.horizon[a] /\ V.cursor[a] = W.cursor[a]
              /\ V.stored[a] = W.stored[a] /\ V.provider[a] = W.provider[a]
  BY <1>14, <1>1 DEF Commits, Worlds, b
<1>15. ASSUME NEW a \in Accounts, NEW u \in Nat,
              W.horizon[a] # NoTime, CoveredIn(W, a, W.horizon[a], u)
       PROVE  V.horizon[a] # NoTime /\ CoveredIn(V, a, V.horizon[a], u)
  <2>1. CASE a = b BY <2>1, <1>15, <1>11 DEF h
  <2>2. CASE a # b BY <2>2, <1>15, <1>14 DEF CoveredIn
  <2> QED BY <2>1, <2>2
<1> QED BY <1>12, <1>13, <1>15 DEF b

\* The commit of an account leaves no gap behind any watermark.
LEMMA CommitKeepsAccounts ==
  ASSUME NEW W \in Worlds, NEW V \in Worlds, NEW j \in Job, AccountsSound(W),
         JobSound(j, W), j.pc = "persist", Commits(j, W, V)
  PROVE  AccountsSound(V)
<1>1. j.acct \in Accounts BY DEF JobSound, JobInHand
<1>2. j.start \in Nat /\ j.start <= W.now
  <2>1. j.began \in Nat /\ j.began <= j.start /\ j.start <= W.now
    BY DEF JobSound, JobClocks, PipelinePcs
  <2>2. j.start \in OptTime BY DEF Job
  <2> QED BY <2>1, <2>2 DEF OptTime, NoTime
<1>3. W.now \in Nat /\ V.now = W.now BY DEF Worlds, Commits, Time
<1>4. ASSUME NEW a \in Accounts, a # j.acct
      PROVE  /\ V.horizon[a] = W.horizon[a] /\ V.cursor[a] = W.cursor[a]
             /\ V.stored[a] = W.stored[a] /\ V.provider[a] = W.provider[a]
  BY <1>4, <1>1 DEF Commits, Worlds
<1>5. V.cursor[j.acct] = j.start BY <1>1 DEF Commits, Worlds
<1>6. ASSUME NEW a \in Accounts
      PROVE  /\ V.cursor[a] <= V.now /\ V.horizon[a] <= V.now
             /\ V.cursor[a] = NoTime <=> V.horizon[a] = NoTime
             /\ V.cursor[a] # NoTime => CoveredIn(V, a, V.horizon[a], V.cursor[a])
  <2>1. CASE a = j.acct
    <3>1. V.horizon[a] # NoTime /\ V.horizon[a] <= j.start
          /\ CoveredIn(V, a, V.horizon[a], j.start)
      BY <2>1, CommitCovers
    <3>2. V.horizon[a] \in OptTime BY DEF Worlds
    <3>3. V.horizon[a] <= V.now BY <3>1, <3>2, <1>2, <1>3 DEF OptTime, NoTime
    <3>4. V.cursor[a] # NoTime BY <2>1, <1>5, <1>2 DEF NoTime
    <3> QED BY <2>1, <3>1, <3>3, <3>4, <1>5, <1>2, <1>3
  <2>2. CASE a # j.acct
    BY <2>2, <1>3, <1>4 DEF AccountsSound, CoveredIn
  <2> QED BY <2>1, <2>2
<1> QED BY <1>6 DEF AccountsSound

\* The commit of an account takes nothing from what a completed row covers.
LEMMA CommitKeepsRow ==
  ASSUME NEW W \in Worlds, NEW V \in Worlds, NEW j \in Job, AccountsSound(W),
         JobSound(j, W), j.pc = "persist", Commits(j, W, V),
         NEW row \in Row, RowSound(row, W)
  PROVE  RowSound(row, V)
<1>1. V.now = W.now BY DEF Commits
<1>2. ASSUME NEW a \in Accounts, W.horizon[a] # NoTime,
             CoveredIn(W, a, W.horizon[a], row.cursor)
      PROVE  V.horizon[a] # NoTime /\ CoveredIn(V, a, V.horizon[a], row.cursor)
  <2>1. CASE row.cursor \in Nat BY <2>1, <1>2, CommitCovers
  <2>2. CASE row.cursor = NoTime
    <3>1. CoveredIn(W, a, W.horizon[a], 0) BY DEF CoveredIn, Worlds, Time
    <3>2. V.horizon[a] # NoTime BY <3>1, <1>2, CommitCovers
    <3> QED BY <2>2, <3>2 DEF CoveredIn, Worlds, Time, NoTime
  <2> QED BY <2>1, <2>2 DEF Row, OptTime
<1> QED BY <1>1, <1>2 DEF RowSound, Row

\* The commit of one pipeline does not disturb another.
LEMMA CommitKeepsJob ==
  ASSUME NEW W \in Worlds, NEW V \in Worlds, NEW j \in Job, AccountsSound(W),
         JobSound(j, W), j.pc = "persist", Commits(j, W, V),
         NEW k \in Job, JobSound(k, W)
  PROVE  JobSound(k, V)
<1>1. V.now = W.now /\ V.provider = W.provider BY DEF Commits
<1>2. \A a \in Accounts : W.cursor[a] # NoTime => V.cursor[a] # NoTime
  <2>1. j.acct \in Accounts BY DEF JobSound, JobInHand
  <2>2. j.start # NoTime
    <3>1. j.began \in Nat /\ j.began <= j.start
      BY DEF JobSound, JobClocks, PipelinePcs
    <3> QED BY <3>1 DEF NoTime
  <2> QED BY <2>1, <2>2 DEF Commits, Worlds
<1>3. JobInHand(k, V) BY <1>1 DEF JobSound, JobInHand
<1>4. JobClocks(k, V)
  <2>1. ASSUME k.pc \in PipelinePcs, NEW a \in Accounts PROVE V.horizon[a] <= k.start
    <3>1. j.acct \in Accounts BY DEF JobSound, JobInHand
    <3>2. W.horizon[a] <= k.start BY <2>1 DEF JobSound, JobClocks
    <3>3. CASE a # j.acct BY <3>1, <3>2, <3>3 DEF Commits, Worlds
    <3>4. CASE a = j.acct /\ W.horizon[a] # NoTime
      <4>1. V.horizon[a] = Earliest(W.horizon[a], AccountSince(j, a))
        BY <3>1, <3>4 DEF Commits, Worlds
      <4>2. AccountSince(j, a) \in Nat BY SinceType DEF JobSound, PipelinePcs
      <4>3. W.horizon[a] \in OptTime /\ k.start \in OptTime BY DEF Worlds, Job
      <4> QED BY <4>1, <4>2, <4>3, <3>2, <3>4 DEF Earliest, OptTime, NoTime
    <3>5. CASE a = j.acct /\ W.horizon[a] = NoTime
      <4>1. V.horizon[a] = AccountSince(j, a)
        BY <3>1, <3>5 DEF Commits, Worlds, Earliest
      <4>2. j.seen[a] = NoTime BY <3>5 DEF AccountsSound, JobSound, JobClocks
      <4>3. Since(j) <= k.start BY <2>1, SinceBound DEF JobSound, PipelinePcs
      <4> QED BY <4>1, <4>2, <4>3 DEF AccountSince
    <3> QED BY <3>3, <3>4, <3>5
  <2> QED BY <1>1, <1>2, <2>1 DEF JobSound, JobClocks
<1>5. JobResumes(k, V)
  <2> SUFFICES ASSUME k.pc \in ResumedPcs, NEW a \in Accounts
               PROVE  /\ V.horizon[a] # NoTime => CoveredIn(V, a, V.horizon[a], AccountSince(k, a))
                      /\ a \in k.accounts /\ a \notin k.todo /\ a # k.acct
                           => V.horizon[a] # NoTime /\ CoveredIn(V, a, V.horizon[a], k.start)
    BY DEF JobResumes
  <2>1. k.pc \in PipelinePcs BY DEF ResumedPcs, PipelinePcs
  <2>2. AccountSince(k, a) \in Nat BY <2>1, SinceType DEF JobSound
  <2>3. k.start \in Nat
    <3>1. k.began \in Nat /\ k.began <= k.start BY <2>1 DEF JobSound, JobClocks
    <3>2. k.start \in OptTime BY DEF Job
    <3> QED BY <3>1, <3>2 DEF OptTime, NoTime
  <2>4. ASSUME V.horizon[a] # NoTime
        PROVE  CoveredIn(V, a, V.horizon[a], AccountSince(k, a))
    <3>1. CASE W.horizon[a] # NoTime
      BY <3>1, <2>2, CommitCovers DEF JobSound, JobResumes
    <3>2. CASE W.horizon[a] = NoTime
      <4>1. a = j.acct
        BY <3>2, <2>4 DEF Commits, Worlds
      <4>2. CoveredIn(V, a, V.horizon[a], j.start) BY <4>1, CommitCovers
      <4>3. k.seen[a] = NoTime BY <3>2 DEF AccountsSound, JobSound, JobClocks
      <4>4. Since(k) <= j.start BY <2>1, SinceBound DEF JobSound, PipelinePcs
      <4>5. AccountSince(k, a) <= j.start BY <4>3, <4>4 DEF AccountSince
      <4>6. j.start \in OptTime /\ V.provider[a] \subseteq Nat BY DEF Job, Worlds, Time
      <4> QED BY <4>2, <4>5, <4>6, <2>2 DEF CoveredIn, OptTime, NoTime
    <3> QED BY <3>1, <3>2
  <2>5. ASSUME a \in k.accounts, a \notin k.todo, a # k.acct
        PROVE  V.horizon[a] # NoTime /\ CoveredIn(V, a, V.horizon[a], k.start)
    BY <2>3, <2>5, CommitCovers DEF JobSound, JobResumes
  <2> QED BY <2>4, <2>5
<1> QED BY <1>3, <1>4, <1>5 DEF JobSound

-----------------------------------------------------------------------------
\* A transaction that occurs now changes nothing before now.
LEMMA BookingKeeps ==
  ASSUME NEW W \in Worlds, NEW V \in Worlds, NEW b \in Accounts,
         V.now = W.now, V.cursor = W.cursor, V.horizon = W.horizon, V.stored = W.stored,
         V.provider = [W.provider EXCEPT ![b] = @ \cup {W.now}]
  PROVE  /\ AccountsSound(W) => AccountsSound(V)
         /\ \A row \in Row : RowSound(row, W) => RowSound(row, V)
         /\ \A k \in Job : JobSound(k, W) => JobSound(k, V)
<1>1. \A a \in Accounts : \A t \in V.provider[a] : t \in W.provider[a] \/ t = W.now
  BY DEF Worlds
<1>2. W.now \in Nat BY DEF Worlds, Time
<1>3. ASSUME NEW a \in Accounts, NEW from, NEW to \in OptTime, to <= W.now,
             CoveredIn(W, a, from, to)
      PROVE  CoveredIn(V, a, from, to)
  BY <1>1, <1>2, <1>3 DEF CoveredIn, OptTime, NoTime
<1>4. AccountsSound(W) => AccountsSound(V)
  <2>1. \A a \in Accounts : W.cursor[a] \in OptTime BY DEF Worlds
  <2> QED BY <2>1, <1>3 DEF AccountsSound
<1>5. ASSUME NEW row \in Row, RowSound(row, W) PROVE RowSound(row, V)
  <2>1. row.cursor \in OptTime /\ row.accounts \subseteq Accounts BY DEF Row
  <2> QED BY <2>1, <1>3, <1>5 DEF RowSound
<1>6. ASSUME NEW k \in Job, JobSound(k, W) PROVE JobSound(k, V)
  <2>1. JobClocks(k, V) BY <1>6 DEF JobSound, JobClocks
  <2>2. k.start \in OptTime BY DEF Job
  <2>3. JobInHand(k, V)
    <3>1. ASSUME k.pc = "persist", NEW t \in V.provider[k.acct],
                 AccountSince(k, k.acct) <= t, t < k.start
          PROVE  t \in k.batch
      <4>1. k.acct \in Accounts BY <3>1, <1>6 DEF JobSound, JobInHand
      <4>2. k.start <= W.now BY <3>1, <1>6 DEF JobSound, JobClocks, PipelinePcs
      <4>3. t # W.now BY <3>1, <4>2, <2>2, <1>2 DEF OptTime, NoTime
      <4>4. t \in W.provider[k.acct] BY <4>1, <4>3, <1>1
      <4> QED BY <4>4, <3>1, <1>6 DEF JobSound, JobInHand
    <3> QED BY <3>1, <1>6 DEF JobSound, JobInHand
  <2>4. JobResumes(k, V)
    <3> SUFFICES ASSUME k.pc \in ResumedPcs, NEW a \in Accounts
                 PROVE  /\ V.horizon[a] # NoTime
                             => CoveredIn(V, a, V.horizon[a], AccountSince(k, a))
                        /\ a \in k.accounts /\ a \notin k.todo /\ a # k.acct
                             => V.horizon[a] # NoTime /\ CoveredIn(V, a, V.horizon[a], k.start)
      BY DEF JobResumes
    <3>1. k.pc \in PipelinePcs BY DEF ResumedPcs, PipelinePcs
    <3>2. AccountSince(k, a) \in OptTime /\ AccountSince(k, a) <= W.now
      BY <3>1, <1>6, SinceType DEF JobSound, OptTime
    <3>3. k.start <= W.now BY <3>1, <1>6 DEF JobSound, JobClocks
    <3> QED BY <3>2, <3>3, <2>2, <1>3, <1>6 DEF JobSound, JobResumes
  <2> QED BY <2>1, <2>3, <2>4 DEF JobSound
<1> QED BY <1>4, <1>5, <1>6

\* Time passes, and no sync outlives the window.
LEMMA TickKeeps ==
  ASSUME NEW W \in Worlds, NEW V \in Worlds,
         V.now = W.now + 1, V.cursor = W.cursor, V.horizon = W.horizon,
         V.stored = W.stored, V.provider = W.provider
  PROVE  /\ AccountsSound(W) => AccountsSound(V)
         /\ \A row \in Row : RowSound(row, W) => RowSound(row, V)
         /\ \A k \in Job : /\ JobSound(k, W)
                           /\ k.pc \in {"recover", "start"} \cup PipelinePcs
                                => W.now < k.began + Window
                           => JobSound(k, V)
<1>1. W.now \in Nat BY DEF Worlds, Time
<1>2. \A a \in Accounts : W.cursor[a] \in OptTime /\ W.horizon[a] \in OptTime
  BY DEF Worlds
<1>3. AccountsSound(W) => AccountsSound(V)
  BY <1>1, <1>2 DEF AccountsSound, CoveredIn, OptTime, NoTime
<1>4. ASSUME NEW row \in Row, RowSound(row, W) PROVE RowSound(row, V)
  <2>1. row.cursor \in OptTime BY DEF Row
  <2>2. row.cursor <= V.now BY <1>1, <1>4, <2>1 DEF RowSound, OptTime, NoTime
  <2> QED BY <1>4, <2>2 DEF RowSound, CoveredIn
<1>5. ASSUME NEW k \in Job, JobSound(k, W),
             k.pc \in {"recover", "start"} \cup PipelinePcs => W.now < k.began + Window
      PROVE  JobSound(k, V)
  <2>1. JobInHand(k, V) BY <1>5 DEF JobSound, JobInHand
  <2>2. JobResumes(k, V) BY <1>5 DEF JobSound, JobResumes, CoveredIn
  <2>3. JobClocks(k, V)
    <3>1. \A a \in Accounts : k.seen[a] \in OptTime BY DEF Job
    <3>2. k.start \in OptTime BY DEF Job
    <3>3. \A a \in Accounts : k.seen[a] <= V.now /\ (k.seen[a] # NoTime => V.cursor[a] # NoTime)
      BY <1>1, <1>5, <3>1 DEF JobSound, JobClocks, OptTime, NoTime
    <3>4. ASSUME k.pc \in {"recover", "start"} \cup PipelinePcs
          PROVE  /\ k.began \in Nat /\ Window <= k.began
                 /\ k.began <= V.now /\ V.now <= k.began + Window
      BY <1>1, <1>5, <3>4, SyncConstants DEF JobSound, JobClocks
    <3>5. ASSUME k.pc \in PipelinePcs
          PROVE  /\ k.began <= k.start /\ k.start <= V.now
                 /\ \A a \in Accounts : V.horizon[a] <= k.start
      BY <1>1, <1>5, <3>2, <3>5 DEF JobSound, JobClocks, OptTime, NoTime
    <3> QED BY <3>3, <3>4, <3>5 DEF JobClocks
  <2> QED BY <2>1, <2>2, <2>3 DEF JobSound
<1> QED BY <1>3, <1>4, <1>5

\* A job that is outside the pipeline and saw nothing is sound.
LEMMA OutsideSound ==
  ASSUME NEW W \in Worlds, NEW j,
         j.pc \in {"idle", "fail", "record"}, j.seen = NothingSeen, j.acct = NoAccount
  PROVE  JobSound(j, W)
<1>1. W.now \in Nat BY DEF Worlds, Time
<1>2. JobClocks(j, W) BY <1>1 DEF JobClocks, NothingSeen, NoTime, PipelinePcs
<1> QED BY <1>2 DEF JobSound, JobResumes, JobInHand, ResumedPcs

-----------------------------------------------------------------------------
\* The view of the database has its type.
LEMMA WorldType == TypeOK => World \in Worlds
BY DEF TypeOK, World, Worlds

\* The parts of the invariant, put together again.
LEMMA Assemble ==
  ASSUME TypeOK', Window <= now', AccountsSound(World'),
         \A r \in RunIds : RowSound(run'[r], World'),
         \A w \in Workers : JobSound(job'[w], World')
  PROVE  CursorInv'
BY DEF CursorInv

\* A step that changes one job, and perhaps a row, but not the world.
LEMMA JobStep ==
  ASSUME CursorInv, TypeOK', UNCHANGED <<now, cursor, horizon, provider, stored>>,
         NEW w \in Workers, \A v \in Workers \ {w} : job'[v] = job[v],
         JobSound(job'[w], World),
         \A r \in RunIds : RowSound(run'[r], World)
  PROVE  CursorInv'
<1>1. World' = World BY DEF World
<1>2. \A v \in Workers : JobSound(job'[v], World) BY DEF CursorInv
<1> QED BY <1>1, <1>2, Assemble DEF CursorInv

\* The watermark invariant is preserved by every step.
LEMMA CursorStep ==
  ASSUME CursorInv, [Next]_vars
  PROVE  CursorInv'
<1> USE SyncConstants
<1>t. TypeOK /\ TypeOK' BY TypeStep DEF CursorInv
<1>w. World \in Worlds /\ World' \in Worlds BY <1>t DEF TypeOK, World, Worlds
<1>n. World.now = now /\ now \in Nat /\ Window <= now
  BY <1>t DEF World, CursorInv, TypeOK, Time
<1>j. \A w \in Workers : job[w] \in Job /\ JobSound(job[w], World)
  BY <1>t DEF CursorInv, TypeOK
<1>r. \A r \in RunIds : run[r] \in Row /\ RowSound(run[r], World)
  BY <1>t DEF CursorInv, TypeOK
<1>a. AccountsSound(World) BY DEF CursorInv
<1>f. \A row \in Row : RowSound(row, World) =>
        /\ RowSound([row EXCEPT !.status = "failed"], World)
        /\ RowSound([row EXCEPT !.status = "cancelled"], World)
  BY DEF RowSound, Row
<1>d. \A w \in Workers : job \in [Workers -> Job] BY <1>t DEF TypeOK
<1>1. ASSUME NEW w \in Workers, BeginSync(w) PROVE CursorInv'
  <2>1. PICK full \in BOOLEAN :
          job' = [job EXCEPT ![w] = [IdleJob EXCEPT !.pc = "recover",
                                    !.began = now, !.full = full]]
    BY <1>1 DEF BeginSync
  <2>2. /\ job'[w].pc = "recover" /\ job'[w].began = now
        /\ job'[w].seen = NothingSeen /\ job'[w].acct = NoAccount
    BY <2>1, <1>d DEF IdleJob
  <2>3. JobClocks(job'[w], World)
    BY <2>2, <1>n DEF JobClocks, NothingSeen, NoTime, PipelinePcs
  <2>4. JobSound(job'[w], World)
    BY <2>2, <2>3 DEF JobSound, JobResumes, JobInHand, ResumedPcs
  <2>5. \A v \in Workers \ {w} : job'[v] = job[v] BY <2>1, <1>d
  <2> QED BY <1>1, <1>r, <1>t, <2>4, <2>5, JobStep DEF BeginSync, tables
<1>2. ASSUME NEW w \in Workers, RecoverStale(w) PROVE CursorInv'
  <2>1. job' = [job EXCEPT ![w] = [job[w] EXCEPT !.pc = "start"]]
    BY <1>2 DEF RecoverStale
  <2>2. job[w].pc = "recover" BY <1>2 DEF RecoverStale
  <2>3. /\ job'[w].pc = "start" /\ job'[w].began = job[w].began
        /\ job'[w].seen = job[w].seen /\ job'[w].acct = job[w].acct
    BY <2>1, <1>j, <1>d DEF Job
  <2>4. JobSound(job'[w], World)
    BY <2>2, <2>3, <1>j DEF JobSound, JobClocks, JobResumes, JobInHand, ResumedPcs, PipelinePcs
  <2>5. \A v \in Workers \ {w} : job'[v] = job[v] BY <2>1, <1>d
  <2>6. \A r \in RunIds : RowSound(run'[r], World) BY <1>2, <1>r, <1>f DEF RecoverStale
  <2> QED BY <1>2, <1>t, <2>4, <2>5, <2>6, JobStep DEF RecoverStale
<1>3. ASSUME NEW w \in Workers, NEW result, job' = Finish(w, result),
             UNCHANGED <<now, cursor, horizon, provider, stored>>,
             \A r \in RunIds : RowSound(run'[r], World)
      PROVE  CursorInv'
  <2>1. job' = [job EXCEPT ![w] = [IdleJob EXCEPT !.pc = "record", !.result = result.kind,
                                     !.until = result.until]]
    BY <1>3 DEF Finish
  <2>2. /\ job'[w].pc = "record" /\ job'[w].seen = NothingSeen /\ job'[w].acct = NoAccount
    BY <2>1, <1>d DEF IdleJob
  <2>3. JobSound(job'[w], World) BY <2>2, <1>w, OutsideSound
  <2>4. \A v \in Workers \ {w} : job'[v] = job[v] BY <2>1, <1>d
  <2> QED BY <1>3, <1>t, <2>3, <2>4, JobStep
<1>4. ASSUME NEW w \in Workers, PreauthenticationFails(w) PROVE CursorInv'
  <2>1. PICK result \in ErrorResults : job' = Finish(w, result)
    BY <1>4 DEF PreauthenticationFails
  <2>2. \A r \in RunIds : RowSound(run'[r], World)
    <3>1. CASE UNCHANGED run BY <3>1, <1>r
    <3>2. ASSUME NEW s \in RunIds, run' = [run EXCEPT ![s].status = "failed"]
          PROVE  \A r \in RunIds : RowSound(run'[r], World)
      <4>1. run' = [run EXCEPT ![s] = [run[s] EXCEPT !.status = "failed"]] BY <3>2
      <4> QED BY <4>1, <1>r, <1>f, <1>t DEF TypeOK
    <3> QED BY <1>4, <3>1, <3>2 DEF PreauthenticationFails
  <2> QED BY <1>4, <2>1, <2>2, <1>3 DEF PreauthenticationFails
<1>5. ASSUME NEW w \in Workers, StartSyncRun(w) PROVE CursorInv'
  <2>1. CASE job' = Finish(w, [kind |-> "failed", until |-> NoTime])
    BY <1>5, <2>1, <1>3, <1>r DEF StartSyncRun, tables
  <2>2. CASE job' = [job EXCEPT ![w] = [job[w] EXCEPT !.pc = "insert", !.start = now]]
    <3>1. job[w].pc = "start" BY <1>5 DEF StartSyncRun
    <3>2. /\ job'[w].pc = "insert" /\ job'[w].began = job[w].began /\ job'[w].start = now
          /\ job'[w].seen = job[w].seen /\ job'[w].acct = job[w].acct
      BY <2>2, <1>j, <1>d DEF Job
    <3>3. JobClocks(job'[w], World)
      BY <3>1, <3>2, <1>j, <1>a, <1>n DEF JobSound, JobClocks, AccountsSound, PipelinePcs
    <3>4. JobSound(job'[w], World)
      BY <3>1, <3>2, <3>3, <1>j DEF JobSound, JobResumes, JobInHand, ResumedPcs
    <3>5. \A v \in Workers \ {w} : job'[v] = job[v] BY <2>2, <1>d
    <3> QED BY <1>5, <1>r, <1>t, <3>4, <3>5, JobStep DEF StartSyncRun, tables
  <2> QED BY <1>5, <2>1, <2>2 DEF StartSyncRun
<1>6. ASSUME NEW w \in Workers, InsertRun(w) PROVE CursorInv'
  <2>1. PICK r \in RunIds :
          job' = [job EXCEPT ![w] = [job[w] EXCEPT !.pc = "accounts", !.run = r, !.started = now]]
    BY <1>6 DEF InsertRun
  <2>2. job[w].pc = "insert" BY <1>6 DEF InsertRun
  <2>3. /\ job'[w].pc = "accounts" /\ job'[w].began = job[w].began /\ job'[w].start = job[w].start
        /\ job'[w].seen = job[w].seen /\ job'[w].acct = job[w].acct
    BY <2>1, <1>j, <1>d DEF Job
  <2>4. JobSound(job'[w], World)
    BY <2>2, <2>3, <1>j DEF JobSound, JobClocks, JobResumes, JobInHand, ResumedPcs, PipelinePcs
  <2>5. \A v \in Workers \ {w} : job'[v] = job[v] BY <2>1, <1>d
  <2> QED BY <1>6, <1>r, <1>t, <2>4, <2>5, JobStep DEF InsertRun, tables
<1>7. ASSUME NEW w \in Workers, InsertRefused(w) PROVE CursorInv'
  BY <1>7, <1>3, <1>r DEF InsertRefused, tables
<1>8. ASSUME NEW w \in Workers, CommitRun(w) PROVE CursorInv'
  <2>0. PICK offered \in SUBSET Accounts :
          job' = [job EXCEPT ![w].pc = "cursors", ![w].accounts = offered,
                             ![w].todo = offered]
    BY <1>8 DEF CommitRun
  <2>1. job' = [job EXCEPT ![w] = [job[w] EXCEPT !.pc = "cursors", !.accounts = offered,
                                                 !.todo = offered]]
    BY <2>0, <1>d
  <2>2. job[w].pc = "accounts" BY <1>8 DEF CommitRun, Inserting
  <2>3. /\ job'[w].pc = "cursors" /\ job'[w].began = job[w].began /\ job'[w].start = job[w].start
        /\ job'[w].seen = job[w].seen /\ job'[w].acct = job[w].acct
        /\ job'[w].todo = job'[w].accounts
    BY <2>1, <1>j, <1>d DEF Job
  <2>4. JobSound(job'[w], World)
    BY <2>2, <2>3, <1>j DEF JobSound, JobClocks, JobResumes, JobInHand, ResumedPcs, PipelinePcs
  <2>5. \A v \in Workers \ {w} : job'[v] = job[v] BY <2>1, <1>d
  <2>6. RowSound([status |-> "running", started |-> job[w].started,
                  cursor |-> NoTime, accounts |-> {}], World)
    BY <1>n DEF RowSound, NoTime
  <2>7. \A r \in RunIds : RowSound(run'[r], World)
    <3>1. run' = [run EXCEPT ![job[w].run] =
                    [status |-> "running", started |-> job[w].started,
                     cursor |-> NoTime, accounts |-> {}]]
      BY <1>8 DEF CommitRun
    <3>2. run \in [RunIds -> Row] BY <1>t DEF TypeOK
    <3> QED BY <3>1, <3>2, <2>6, <1>r
  <2> QED BY <1>8, <1>t, <2>4, <2>5, <2>7, JobStep DEF CommitRun
<1>9. ASSUME NEW w \in Workers, LoadCursors(w) PROVE CursorInv'
  <2>1. job' = [job EXCEPT ![w] = [job[w] EXCEPT !.pc = "loop",
                  !.seen = IF job[w].full THEN NothingSeen ELSE cursor]]
    BY <1>9 DEF LoadCursors
  <2>2. job[w].pc = "cursors" BY <1>9 DEF LoadCursors
  <2>3. /\ job'[w].pc = "loop" /\ job'[w].began = job[w].began /\ job'[w].start = job[w].start
        /\ job'[w].seen = (IF job[w].full THEN NothingSeen ELSE cursor)
        /\ job'[w].acct = job[w].acct /\ job'[w].full = job[w].full
        /\ job'[w].todo = job[w].todo /\ job'[w].accounts = job[w].accounts
    BY <2>1, <1>j, <1>d DEF Job
  <2>4. \A a \in Accounts : job'[w].seen[a] = IF job[w].full THEN NoTime ELSE cursor[a]
    BY <2>3 DEF NothingSeen
  <2>5. World.cursor = cursor BY DEF World
  <2>6. JobClocks(job'[w], World)
    <3>1. \A a \in Accounts : job'[w].seen[a] <= World.now
                              /\ (job'[w].seen[a] # NoTime => World.cursor[a] # NoTime)
      BY <2>4, <2>5, <1>a, <1>n DEF AccountsSound, NoTime
    <3> QED BY <3>1, <2>2, <2>3, <1>j DEF JobSound, JobClocks, PipelinePcs
  <2>7. JobResumes(job'[w], World)
    <3>1. ASSUME NEW a \in Accounts, World.horizon[a] # NoTime
          PROVE  CoveredIn(World, a, World.horizon[a], AccountSince(job'[w], a))
      <4>1. CASE job[w].full
        <5>1. AccountSince(job'[w], a) = 0
          BY <4>1, <2>3, <2>4 DEF AccountSince, Since
        <5>2. World.horizon[a] \in OptTime BY <1>w DEF Worlds
        <5>3. World.provider[a] \subseteq Nat BY <1>w DEF Worlds, Time
        <5> QED BY <5>1, <5>2, <5>3 DEF CoveredIn
      <4>2. CASE ~job[w].full
        <5>1. World.cursor[a] # NoTime BY <3>1, <1>a DEF AccountsSound
        <5>2. AccountSince(job'[w], a) = World.cursor[a]
          BY <4>2, <5>1, <2>4, <2>5 DEF AccountSince
        <5> QED BY <5>1, <5>2, <1>a DEF AccountsSound
      <4> QED BY <4>1, <4>2
    <3>2. job'[w].todo = job'[w].accounts
      BY <2>2, <2>3, <1>j DEF JobSound, JobInHand
    <3> QED BY <3>1, <3>2 DEF JobResumes
  <2>8. JobInHand(job'[w], World) BY <2>2, <2>3, <1>j DEF JobSound, JobInHand
  <2>9. JobSound(job'[w], World) BY <2>6, <2>7, <2>8 DEF JobSound
  <2>10. \A v \in Workers \ {w} : job'[v] = job[v] BY <2>1, <1>d
  <2> QED BY <1>9, <1>r, <1>t, <2>9, <2>10, JobStep DEF LoadCursors, tables
<1>10. ASSUME NEW w \in Workers, OpenAccount(w) PROVE CursorInv'
  <2>1. PICK a \in job[w].todo :
          job' = [job EXCEPT ![w].pc = "fetch", ![w].acct = a, ![w].todo = @ \ {a}]
    BY <1>10 DEF OpenAccount
  <2>2. job[w].pc = "loop" BY <1>10 DEF OpenAccount
  <2>3. a \in Accounts BY <2>1, <1>j DEF Job
  <2>4. /\ job'[w].pc = "fetch" /\ job'[w].began = job[w].began /\ job'[w].start = job[w].start
        /\ job'[w].seen = job[w].seen /\ job'[w].acct = a /\ job'[w].full = job[w].full
        /\ job'[w].todo = job[w].todo \ {a} /\ job'[w].accounts = job[w].accounts
    BY <2>1, <1>j, <1>d DEF Job
  <2>5. JobClocks(job'[w], World)
    BY <2>2, <2>4, <1>j DEF JobSound, JobClocks, PipelinePcs
  <2>6. JobResumes(job'[w], World)
    <3>1. \A b \in Accounts : AccountSince(job'[w], b) = AccountSince(job[w], b)
      BY <2>4 DEF AccountSince, Since
    <3>2. job[w].acct = NoAccount BY <2>2, <1>j DEF JobSound, JobInHand
    <3> QED BY <2>2, <2>4, <3>1, <3>2, <1>j DEF JobSound, JobResumes, ResumedPcs
  <2>7. JobInHand(job'[w], World) BY <2>3, <2>4 DEF JobInHand
  <2>8. JobSound(job'[w], World) BY <2>5, <2>6, <2>7 DEF JobSound
  <2>9. \A v \in Workers \ {w} : job'[v] = job[v] BY <2>1, <1>d
  <2> QED BY <1>10, <1>r, <1>t, <2>8, <2>9, JobStep DEF OpenAccount, tables
<1>11. ASSUME NEW w \in Workers, FetchTransactions(w) PROVE CursorInv'
  <2> DEFINE batch == {t \in provider[job[w].acct] : t >= AccountSince(job[w], job[w].acct)}
  <2>1. job' = [job EXCEPT ![w] = [job[w] EXCEPT !.pc = "persist", !.batch = batch]]
    BY <1>11 DEF FetchTransactions
  <2>2. job[w].pc = "fetch" BY <1>11 DEF FetchTransactions
  <2> HIDE DEF batch
  <2>3. /\ job'[w].pc = "persist" /\ job'[w].began = job[w].began /\ job'[w].start = job[w].start
        /\ job'[w].seen = job[w].seen /\ job'[w].acct = job[w].acct
        /\ job'[w].full = job[w].full /\ job'[w].batch = batch
        /\ job'[w].todo = job[w].todo /\ job'[w].accounts = job[w].accounts
    BY <2>1, <1>j, <1>d DEF Job
  <2>4. \A b : AccountSince(job'[w], b) = AccountSince(job[w], b)
    BY <2>3 DEF AccountSince, Since
  <2>5. JobClocks(job'[w], World)
    BY <2>2, <2>3, <1>j DEF JobSound, JobClocks, PipelinePcs
  <2>6. JobResumes(job'[w], World)
    BY <2>2, <2>3, <2>4, <1>j DEF JobSound, JobResumes, ResumedPcs
  <2>7. JobInHand(job'[w], World)
    <3>1. job[w].acct \in Accounts BY <2>2, <1>j DEF JobSound, JobInHand
    <3>2. provider[job[w].acct] \subseteq Nat BY <3>1, <1>t DEF TypeOK, Time
    <3>3. AccountSince(job[w], job[w].acct) \in Nat
      BY <3>1, <2>2, <1>j, <1>w, SinceType DEF JobSound, PipelinePcs
    <3>4. \A t \in World.provider[job'[w].acct] :
            AccountSince(job'[w], job'[w].acct) <= t => t \in job'[w].batch
      BY <2>3, <2>4, <3>2, <3>3 DEF World, batch
    <3> QED BY <2>3, <3>1, <3>4 DEF JobInHand
  <2>8. JobSound(job'[w], World) BY <2>5, <2>6, <2>7 DEF JobSound
  <2>9. \A v \in Workers \ {w} : job'[v] = job[v] BY <2>1, <1>d
  <2> QED BY <1>11, <1>r, <1>t, <2>8, <2>9, JobStep DEF FetchTransactions, tables
<1>12. ASSUME NEW w \in Workers, CommitAccount(w) PROVE CursorInv'
  <2>1. job[w].pc = "persist" BY <1>12 DEF CommitAccount
  <2>2. Commits(job[w], World, World') BY <1>12 DEF CommitAccount, Commits, World
  <2>3. job' = [job EXCEPT ![w] = [job[w] EXCEPT !.pc = "loop", !.acct = NoAccount, !.batch = {}]]
    BY <1>12 DEF CommitAccount
  <2>4. AccountsSound(World')
    BY <2>1, <2>2, <1>w, <1>j, <1>a, CommitKeepsAccounts
  <2>5. \A r \in RunIds : RowSound(run'[r], World')
    <3>1. run' = run BY <1>12 DEF CommitAccount
    <3> QED BY <3>1, <2>1, <2>2, <1>w, <1>j, <1>a, <1>r, CommitKeepsRow
  <2>6. \A v \in Workers : JobSound(job[v], World')
    BY <2>1, <2>2, <1>w, <1>j, <1>a, CommitKeepsJob
  <2>7. /\ World'.horizon[job[w].acct] # NoTime
        /\ CoveredIn(World', job[w].acct, World'.horizon[job[w].acct], job[w].start)
    BY <2>1, <2>2, <1>w, <1>j, <1>a, CommitCovers
  <2>8. /\ job'[w].pc = "loop" /\ job'[w].began = job[w].began /\ job'[w].start = job[w].start
        /\ job'[w].seen = job[w].seen /\ job'[w].acct = NoAccount
        /\ job'[w].full = job[w].full
        /\ job'[w].todo = job[w].todo /\ job'[w].accounts = job[w].accounts
    BY <2>3, <1>j, <1>d DEF Job
  <2>9. \A b : AccountSince(job'[w], b) = AccountSince(job[w], b)
    BY <2>8 DEF AccountSince, Since
  <2>10. JobSound(job'[w], World')
    <3>1. JobSound(job[w], World') BY <2>6
    <3>2. JobClocks(job'[w], World')
      BY <3>1, <2>1, <2>8 DEF JobSound, JobClocks, PipelinePcs
    <3>3. JobResumes(job'[w], World')
      BY <3>1, <2>1, <2>7, <2>8, <2>9 DEF JobSound, JobResumes, ResumedPcs
    <3>4. JobInHand(job'[w], World') BY <2>8 DEF JobInHand
    <3> QED BY <3>2, <3>3, <3>4 DEF JobSound
  <2>11. \A v \in Workers \ {w} : job'[v] = job[v] BY <2>3, <1>d
  <2>12. \A v \in Workers : JobSound(job'[v], World') BY <2>6, <2>10, <2>11
  <2>13. now' = now BY <1>12 DEF CommitAccount
  <2> QED BY <2>4, <2>5, <2>12, <2>13, <1>t, <1>n, Assemble
<1>13. ASSUME NEW w \in Workers, PipelineError(w) PROVE CursorInv'
  <2>1. PICK result \in ErrorResults :
          job' = [job EXCEPT ![w] = [IdleJob EXCEPT !.pc = "fail", !.run = job[w].run,
                    !.start = job[w].start, !.accounts = job[w].accounts,
                    !.result = result.kind, !.until = result.until]]
    BY <1>13 DEF PipelineError
  <2>2. /\ job'[w].pc = "fail" /\ job'[w].seen = NothingSeen /\ job'[w].acct = NoAccount
    BY <2>1, <1>d DEF IdleJob
  <2>3. JobSound(job'[w], World) BY <2>2, <1>w, OutsideSound
  <2>4. \A v \in Workers \ {w} : job'[v] = job[v] BY <2>1, <1>d
  <2> QED BY <1>13, <1>r, <1>t, <2>3, <2>4, JobStep DEF PipelineError, tables
<1>14. ASSUME NEW w \in Workers, MarkSyncRunFailed(w) PROVE CursorInv'
  <2>1. \A r \in RunIds : RowSound(run'[r], World)
    <3>1. CASE UNCHANGED run BY <3>1, <1>r
    <3>2. CASE run' = [run EXCEPT ![job[w].run].status = "failed"]
      <4>1. run' = [run EXCEPT ![job[w].run] = [run[job[w].run] EXCEPT !.status = "failed"]]
        BY <3>2
      <4> QED BY <4>1, <1>r, <1>f, <1>t DEF TypeOK
    <3> QED BY <1>14, <3>1, <3>2 DEF MarkSyncRunFailed
  <2> QED BY <1>14, <2>1, <1>3 DEF MarkSyncRunFailed
<1>15. ASSUME NEW w \in Workers, CompleteSyncRun(w) PROVE CursorInv'
  <2> DEFINE row == [run[job[w].run] EXCEPT !.status = "completed",
                       !.cursor = job[w].start, !.accounts = job[w].accounts]
  <2>1. job[w].pc = "loop" /\ job[w].todo = {} BY <1>15 DEF CompleteSyncRun
  <2>2. run' = [run EXCEPT ![job[w].run] = row] BY <1>15 DEF CompleteSyncRun
  <2>3. ASSUME job[w].run \in RunIds PROVE RowSound(row, World)
    <3>1. /\ row.status = "completed" /\ row.cursor = job[w].start
          /\ row.accounts = job[w].accounts
      BY <2>3, <1>r DEF Row
    <3>2. job[w].start <= World.now
      BY <2>1, <1>j DEF JobSound, JobClocks, PipelinePcs
    <3>3. job[w].acct = NoAccount BY <2>1, <1>j DEF JobSound, JobInHand
    <3>4. job[w].accounts \subseteq Accounts BY <1>j DEF Job
    <3>5. \A a \in job[w].accounts :
            World.horizon[a] # NoTime /\ CoveredIn(World, a, World.horizon[a], job[w].start)
      BY <2>1, <3>3, <3>4, <1>j DEF JobSound, JobResumes, ResumedPcs
    <3> QED BY <3>1, <3>2, <3>5 DEF RowSound
  <2> HIDE DEF row
  <2>4. \A r \in RunIds : RowSound(run'[r], World) BY <2>2, <2>3, <1>r, <1>t DEF TypeOK
  <2> QED BY <1>15, <2>4, <1>3 DEF CompleteSyncRun
<1>16. ASSUME NEW w \in Workers, RecordOutcome(w) \/ Crash(w) PROVE CursorInv'
  <2>1. job' = [job EXCEPT ![w] = IdleJob] BY <1>16 DEF RecordOutcome, Crash
  <2>2. /\ job'[w].pc = "idle" /\ job'[w].seen = NothingSeen /\ job'[w].acct = NoAccount
    BY <2>1, <1>d DEF IdleJob
  <2>3. JobSound(job'[w], World) BY <2>2, <1>w, OutsideSound
  <2>4. \A v \in Workers \ {w} : job'[v] = job[v] BY <2>1, <1>d
  <2>5. UNCHANGED <<now, cursor, horizon, provider, stored, run>>
    BY <1>16 DEF RecordOutcome, Crash, tables
  <2> QED BY <2>5, <1>r, <1>t, <2>3, <2>4, JobStep
<1>17. ASSUME NEW s \in RunIds, StopSyncRun(s) PROVE CursorInv'
  <2>1. World' = World BY <1>17 DEF StopSyncRun, World
  <2>2. run' = [run EXCEPT ![s] = [run[s] EXCEPT !.status = "cancelled"]]
    BY <1>17 DEF StopSyncRun
  <2>3. \A r \in RunIds : RowSound(run'[r], World) BY <2>2, <1>r, <1>f, <1>t DEF TypeOK
  <2>4. job' = job /\ now' = now BY <1>17 DEF StopSyncRun
  <2> QED BY <2>1, <2>3, <2>4, <1>t, <1>n, <1>a, <1>j, Assemble
<1>18. ASSUME NEW b \in Accounts, ProviderBooks(b) PROVE CursorInv'
  <2>1. /\ World'.now = World.now /\ World'.cursor = World.cursor
        /\ World'.horizon = World.horizon /\ World'.stored = World.stored
        /\ World'.provider = [World.provider EXCEPT ![b] = @ \cup {World.now}]
    BY <1>18 DEF ProviderBooks, World, tables
  <2>2. job' = job /\ run' = run /\ now' = now BY <1>18 DEF ProviderBooks, tables
  <2>3. AccountsSound(World') BY <2>1, <1>w, <1>a, BookingKeeps
  <2>4. \A r \in RunIds : RowSound(run'[r], World') BY <2>1, <2>2, <1>w, <1>r, BookingKeeps
  <2>5. \A w \in Workers : JobSound(job'[w], World') BY <2>1, <2>2, <1>w, <1>j, BookingKeeps
  <2> QED BY <2>2, <2>3, <2>4, <2>5, <1>t, <1>n, Assemble
<1>19. CASE Tick
  <2>1. /\ World'.now = World.now + 1 /\ World'.cursor = World.cursor
        /\ World'.horizon = World.horizon /\ World'.stored = World.stored
        /\ World'.provider = World.provider
    BY <1>19 DEF Tick, World, tables
  <2>2. job' = job /\ run' = run /\ now' = now + 1 BY <1>19 DEF Tick, tables
  <2>3. AccountsSound(World') BY <2>1, <1>w, <1>a, TickKeeps
  <2>4. \A r \in RunIds : RowSound(run'[r], World') BY <2>1, <2>2, <1>w, <1>r, TickKeeps
  <2>5. \A w \in Workers : job[w].pc \in {"recover", "start"} \cup PipelinePcs
                              => World.now < job[w].began + Window
    BY <1>19, <1>n DEF Tick, Syncing, InPipeline, PipelinePcs
  <2>6. \A w \in Workers : JobSound(job'[w], World')
    BY <2>1, <2>2, <2>5, <1>w, <1>j, TickKeeps
  <2>7. Window <= now' BY <2>2, <1>n
  <2> QED BY <2>3, <2>4, <2>6, <2>7, <1>t, Assemble
<1>20. CASE UNCHANGED vars
  <2>1. World' = World /\ job' = job /\ run' = run /\ now' = now BY <1>20 DEF vars, World
  <2> QED BY <2>1, <1>t, <1>n, <1>a, <1>r, <1>j, Assemble
<1> QED
  BY <1>1, <1>2, <1>4, <1>5, <1>6, <1>7, <1>8, <1>9, <1>10, <1>11, <1>12, <1>13,
     <1>14, <1>15, <1>16, <1>17, <1>18, <1>19, <1>20 DEF Next, Step

\* The watermark invariant holds initially.
LEMMA CursorInit == Init => CursorInv
<1> SUFFICES ASSUME Init PROVE CursorInv
  OBVIOUS
<1> USE SyncConstants
<1>1. TypeOK
  <2>1. Absent \in Row BY DEF Absent, Row, OptTime
  <2>2. NothingSeen \in [Accounts -> OptTime] BY DEF NothingSeen, OptTime
  <2>3. 0 .. Window - 1 \subseteq Time BY DEF Time
  <2> QED BY <2>1, <2>2, <2>3, IdleJobType DEF Init, TypeOK, Time, OptTime
<1>2. World \in Worlds BY <1>1, WorldType
<1>3. AccountsSound(World)
  BY DEF AccountsSound, World, Init, NothingSeen, NoTime
<1>4. \A r \in RunIds : RowSound(run[r], World)
  BY DEF RowSound, World, Init, Absent, NoTime
<1>5. \A w \in Workers : JobSound(job[w], World)
  <2>1. IdleJob.pc = "idle" /\ IdleJob.seen = NothingSeen /\ IdleJob.acct = NoAccount
    BY DEF IdleJob
  <2>2. JobSound(IdleJob, World) BY <2>1, <1>2, OutsideSound
  <2> QED BY <2>2 DEF Init
<1> QED BY <1>1, <1>3, <1>4, <1>5 DEF CursorInv, Init

\* The watermark invariant holds always.
LEMMA CursorInvariant == Spec => []CursorInv
<1>1. CursorInv /\ [Next]_vars => CursorInv' BY CursorStep
<1> QED BY <1>1, CursorInit, PTL DEF Spec

\* Every column and local variable keeps its type.
THEOREM TypeCorrect == Spec => []TypeOK
<1>1. CursorInv => TypeOK BY DEF CursorInv
<1> QED BY <1>1, CursorInvariant, PTL

\* However the runs of a connection overlap, fail, stop or die, no transaction
\* behind a watermark is missing.
THEOREM NoGapBehindCursor == Spec => []CursorSound
<1>1. CursorInv => CursorSound
  BY DEF CursorInv, AccountsSound, CursorSound, CoveredIn, Covered, World
<1> QED BY <1>1, CursorInvariant, PTL

\* A completed row is true to its own watermark for every account it names.
THEOREM CompletedIsComplete == Spec => []CompletedRunIsComplete
<1>1. CursorInv => CompletedRunIsComplete
  BY DEF CursorInv, RowSound, CompletedRunIsComplete, CoveredIn, Covered, World
<1> QED BY <1>1, CursorInvariant, PTL

-----------------------------------------------------------------------------
\* A step that leaves the owner and phase of every job and every row as they
\* are, except that rows may stop running and jobs may let go of theirs.
LEMMA Releases ==
  ASSUME RunInv,
         \A w \in Workers : job'[w].run \in {job[w].run, NoRun},
         \A w \in Workers : Owns(w)' => Owns(w) /\ job'[w].run = job[w].run,
         \A w \in Workers : Inserting(w)' => Inserting(w) /\ job'[w].run = job[w].run,
         \A r \in RunIds : run'[r].status = "running" => run[r].status = "running",
         \A w \in Workers : Inserting(w)' => run'[job[w].run].status = run[job[w].run].status
  PROVE  RunInv'
<1>1. \A w \in Workers : (Owns(w) \/ Inserting(w))' => job'[w].run \in RunIds
  BY DEF RunInv
<1>2. \A v, w \in Workers : job'[v].run # NoRun /\ job'[v].run = job'[w].run => v = w
  BY DEF RunInv
<1>3. \A r, s \in RunIds : run'[r].status = "running" /\ run'[s].status = "running" => r = s
  BY DEF RunInv
<1>4. \A w \in Workers : Inserting(w)' => ~ActiveRun' /\ run'[job'[w].run].status = "absent"
  <2>1. ~ActiveRun => ~ActiveRun' BY DEF ActiveRun
  <2> QED BY <2>1 DEF RunInv
<1>5. \A v, w \in Workers : Inserting(v)' /\ Inserting(w)' => v = w
  BY DEF RunInv
<1> QED BY <1>1, <1>2, <1>3, <1>4, <1>5 DEF RunInv

\* The invariant on running rows is preserved by every step.
LEMMA RunStep ==
  ASSUME TypeOK, RunInv, [Next]_vars
  PROVE  RunInv'
<1> USE SyncConstants
<1>d. job \in [Workers -> Job] /\ run \in [RunIds -> Row] BY DEF TypeOK
<1>1. ASSUME NEW w \in Workers, NEW result, job' = Finish(w, result),
             \A r \in RunIds : run'[r].status = "running" => run[r].status = "running",
             \A v \in Workers \ {w} : Inserting(v)
                => run'[job[v].run].status = run[job[v].run].status
      PROVE  RunInv'
  <2>1. job' = [job EXCEPT ![w] = [IdleJob EXCEPT !.pc = "record", !.result = result.kind,
                                     !.until = result.until]]
    BY <1>1 DEF Finish
  <2>2. job'[w].pc = "record" /\ job'[w].run = NoRun BY <2>1, <1>d DEF IdleJob
  <2>3. \A v \in Workers \ {w} : job'[v] = job[v] BY <2>1, <1>d
  <2> QED BY <1>1, <2>2, <2>3, Releases DEF Owns, Inserting
<1>2. ASSUME NEW w \in Workers, BeginSync(w) \/ RecordOutcome(w) \/ Crash(w) PROVE RunInv'
  <2>1. /\ \A v \in Workers \ {w} : job'[v] = job[v]
        /\ job'[w].pc \in {"recover", "idle"} /\ job'[w].run = NoRun
    <3>1. CASE BeginSync(w) BY <3>1, <1>d DEF BeginSync, IdleJob
    <3>2. CASE RecordOutcome(w) \/ Crash(w)
      <4>1. job' = [job EXCEPT ![w] = IdleJob] BY <3>2 DEF RecordOutcome, Crash
      <4> QED BY <4>1, <1>d DEF IdleJob
    <3> QED BY <1>2, <3>1, <3>2
  <2>2. run' = run BY <1>2 DEF BeginSync, RecordOutcome, Crash, tables
  <2>3. \A v \in Workers : job'[v].run \in {job[v].run, NoRun} BY <2>1
  <2>4. \A v \in Workers : Owns(v)' => Owns(v) /\ job'[v].run = job[v].run
    BY <2>1 DEF Owns
  <2>5. \A v \in Workers : Inserting(v)' => Inserting(v) /\ job'[v].run = job[v].run
    BY <2>1 DEF Inserting
  <2> QED BY <2>2, <2>3, <2>4, <2>5, Releases
<1>3. ASSUME NEW w \in Workers, RecoverStale(w) PROVE RunInv'
  <2>1. /\ \A v \in Workers \ {w} : job'[v] = job[v]
        /\ job'[w].pc = "start" /\ job'[w].run = job[w].run
    BY <1>3, <1>d DEF RecoverStale, Job
  <2>2. \A r \in RunIds : run'[r].status = IF Stale(r) THEN "failed" ELSE run[r].status
    BY <1>3, <1>d DEF RecoverStale, Row
  <2>3. \A v \in Workers : Inserting(v) => run'[job[v].run].status = run[job[v].run].status
    BY <2>2 DEF RunInv, Stale
  <2>4. \A r \in RunIds : run'[r].status = "running" => run[r].status = "running"
    BY <2>2
  <2>5. \A v \in Workers : job'[v].run = job[v].run BY <2>1
  <2>6. \A v \in Workers : Inserting(v)' => Inserting(v)
    BY <2>1 DEF Inserting
  <2>7. \A v \in Workers : Owns(v)' => Owns(v)
    BY <2>1 DEF Owns
  <2> QED BY <2>1, <2>3, <2>4, <2>5, <2>6, <2>7, Releases
<1>4. ASSUME NEW w \in Workers, PreauthenticationFails(w) PROVE RunInv'
  <2>1. PICK result \in ErrorResults : job' = Finish(w, result)
    BY <1>4 DEF PreauthenticationFails
  <2>2. /\ \A r \in RunIds : run'[r].status = "running" => run[r].status = "running"
        /\ \A v \in Workers : Inserting(v) => run'[job[v].run].status = run[job[v].run].status
    <3>1. CASE run' = run BY <3>1
    <3>2. ASSUME NEW r \in RunIds, Fresh(r), run' = [run EXCEPT ![r].status = "failed"]
          PROVE  /\ \A s \in RunIds : run'[s].status = "running" => run[s].status = "running"
                 /\ \A v \in Workers : Inserting(v)
                      => run'[job[v].run].status = run[job[v].run].status
      BY <3>2, <1>d DEF Fresh, Row, RunInv
    <3> QED BY <1>4, <3>1, <3>2 DEF PreauthenticationFails
  <2> QED BY <2>1, <2>2, <1>1
<1>5. ASSUME NEW w \in Workers, StartSyncRun(w) PROVE RunInv'
  <2>1. run' = run BY <1>5 DEF StartSyncRun, tables
  <2>2. CASE job' = Finish(w, [kind |-> "failed", until |-> NoTime])
    BY <2>1, <2>2, <1>1
  <2>3. CASE job' = [job EXCEPT ![w].pc = "insert", ![w].start = now]
    <3>1. /\ \A v \in Workers \ {w} : job'[v] = job[v]
          /\ job'[w].pc = "insert" /\ job'[w].run = job[w].run
      BY <2>3, <1>d DEF Job
    <3>2. \A v \in Workers : job'[v].run \in {job[v].run, NoRun} BY <3>1
    <3>3. \A v \in Workers : Owns(v)' => Owns(v) /\ job'[v].run = job[v].run
      BY <3>1 DEF Owns
    <3>4. \A v \in Workers : Inserting(v)' => Inserting(v) /\ job'[v].run = job[v].run
      BY <3>1 DEF Inserting
    <3> QED BY <2>1, <3>2, <3>3, <3>4, Releases
  <2> QED BY <1>5, <2>2, <2>3 DEF StartSyncRun
<1>6. ASSUME NEW w \in Workers, InsertRun(w) PROVE RunInv'
  <2>1. PICK r \in RunIds :
          /\ Fresh(r)
          /\ job' = [job EXCEPT ![w].pc = "accounts", ![w].run = r, ![w].started = now]
    BY <1>6 DEF InsertRun
  <2>2. /\ \A v \in Workers \ {w} : job'[v] = job[v]
        /\ job'[w].pc = "accounts" /\ job'[w].run = r
    BY <2>1, <1>d DEF Job
  <2>3. run' = run /\ ~ActiveRun /\ \A v \in Workers : ~Inserting(v)
    BY <1>6 DEF InsertRun, tables
  <2>4. \A v \in Workers : (Owns(v) \/ Inserting(v))' => job'[v].run \in RunIds
    BY <2>2 DEF Owns, Inserting, RunInv
  <2>5. \A u, v \in Workers : job'[u].run # NoRun /\ job'[u].run = job'[v].run => u = v
    <3>1. \A v \in Workers : job[v].run # r BY <2>1 DEF Fresh
    <3>2. \A u, v \in Workers : job[u].run # NoRun /\ job[u].run = job[v].run => u = v
      BY DEF RunInv
    <3>3. \A v \in Workers : v # w => job'[v].run = job[v].run BY <2>2
    <3> QED BY <3>1, <3>2, <3>3, <2>2
  <2>6. \A q, s \in RunIds : run'[q].status = "running" /\ run'[s].status = "running" => q = s
    BY <2>3 DEF RunInv
  <2>7. \A v \in Workers : Inserting(v)' => v = w BY <2>2, <2>3 DEF Inserting
  <2>8. ~ActiveRun' BY <2>3 DEF ActiveRun
  <2>9. run'[job'[w].run].status = "absent" BY <2>1, <2>2, <2>3 DEF Fresh
  <2> QED BY <2>4, <2>5, <2>6, <2>7, <2>8, <2>9 DEF RunInv
<1>7. ASSUME NEW w \in Workers, InsertRefused(w) PROVE RunInv'
  <2>1. run' = run BY <1>7 DEF InsertRefused, tables
  <2> QED BY <1>7, <2>1, <1>1 DEF InsertRefused
<1>8. ASSUME NEW w \in Workers, CommitRun(w) PROVE RunInv'
  <2> DEFINE r == job[w].run
  <2>1. Inserting(w) /\ r \in RunIds BY <1>8 DEF CommitRun, RunInv
  <2>2. /\ \A v \in Workers \ {w} : job'[v] = job[v]
        /\ job'[w].pc = "cursors" /\ job'[w].run = r
    <3>1. PICK offered \in SUBSET Accounts :
            job' = [job EXCEPT ![w].pc = "cursors", ![w].accounts = offered,
                               ![w].todo = offered]
      BY <1>8 DEF CommitRun
    <3> QED BY <3>1, <1>d DEF Job
  <2>3. /\ run'[r].status = "running"
        /\ \A s \in RunIds \ {r} : run'[s] = run[s]
    <3>1. run' = [run EXCEPT ![r] = [status |-> "running", started |-> job[w].started,
                                     cursor |-> NoTime, accounts |-> {}]]
      BY <1>8 DEF CommitRun
    <3> QED BY <3>1, <2>1, <1>d
  <2>4. \A s \in RunIds : run[s].status # "running" BY <2>1 DEF RunInv, ActiveRun
  <2>5. \A v \in Workers : ~Inserting(v)' BY <2>1, <2>2 DEF Inserting, RunInv
  <2>6. \A v \in Workers : Owns(v)' => job'[v].run \in RunIds
    BY <2>1, <2>2 DEF Owns, RunInv
  <2>7. \A u, v \in Workers : job'[u].run # NoRun /\ job'[u].run = job'[v].run => u = v
    BY <2>2 DEF RunInv
  <2>8. \A q, s \in RunIds : run'[q].status = "running" /\ run'[s].status = "running" => q = s
    BY <2>3, <2>4
  <2> QED BY <2>5, <2>6, <2>7, <2>8 DEF RunInv
<1>9. ASSUME NEW w \in Workers,
             LoadCursors(w) \/ OpenAccount(w) \/ FetchTransactions(w) \/ CommitAccount(w)
      PROVE  RunInv'
  <2>1. run' = run
    BY <1>9 DEF LoadCursors, OpenAccount, FetchTransactions, CommitAccount, tables
  <2>2. job[w].pc \in {"cursors", "loop", "fetch", "persist"}
    BY <1>9 DEF LoadCursors, OpenAccount, FetchTransactions, CommitAccount
  <2>3. /\ \A v \in Workers \ {w} : job'[v] = job[v]
        /\ job'[w].pc \in {"loop", "fetch", "persist"} /\ job'[w].run = job[w].run
    <3>1. CASE LoadCursors(w) BY <3>1, <1>d DEF LoadCursors, Job
    <3>2. CASE OpenAccount(w) BY <3>2, <1>d DEF OpenAccount, Job
    <3>3. CASE FetchTransactions(w) BY <3>3, <1>d DEF FetchTransactions, Job
    <3>4. CASE CommitAccount(w) BY <3>4, <1>d DEF CommitAccount, Job
    <3> QED BY <1>9, <3>1, <3>2, <3>3, <3>4
  <2>4. \A v \in Workers : job'[v].run \in {job[v].run, NoRun} BY <2>3
  <2>5. \A v \in Workers : Owns(v)' => Owns(v) /\ job'[v].run = job[v].run
    BY <2>2, <2>3 DEF Owns
  <2>6. \A v \in Workers : Inserting(v)' => Inserting(v) /\ job'[v].run = job[v].run
    BY <2>3 DEF Inserting
  <2> QED BY <2>1, <2>4, <2>5, <2>6, Releases
<1>10. ASSUME NEW w \in Workers, PipelineError(w) PROVE RunInv'
  <2>1. run' = run BY <1>10 DEF PipelineError, tables
  <2>2. /\ \A v \in Workers \ {w} : job'[v] = job[v]
        /\ job'[w].pc = "fail" /\ job'[w].run = job[w].run
    BY <1>10, <1>d DEF PipelineError, IdleJob
  <2>3. Owns(w) \/ Inserting(w) BY <1>10 DEF PipelineError, Owns, Inserting
  <2>4. \A v \in Workers : (Owns(v) \/ Inserting(v))' => job'[v].run \in RunIds
    BY <2>2, <2>3 DEF Owns, Inserting, RunInv
  <2>5. \A u, v \in Workers : job'[u].run # NoRun /\ job'[u].run = job'[v].run => u = v
    BY <2>2 DEF RunInv
  <2>6. \A v \in Workers : Inserting(v)' => Inserting(v) /\ job'[v].run = job[v].run
    BY <2>2 DEF Inserting
  <2>7. ActiveRun' <=> ActiveRun BY <2>1 DEF ActiveRun
  <2>8. \A q, s \in RunIds : run'[q].status = "running" /\ run'[s].status = "running" => q = s
    BY <2>1 DEF RunInv
  <2>9. \A v \in Workers : Inserting(v)' => ~ActiveRun' /\ run'[job'[v].run].status = "absent"
    BY <2>1, <2>6, <2>7 DEF RunInv
  <2>10. \A u, v \in Workers : Inserting(u)' /\ Inserting(v)' => u = v
    BY <2>6 DEF RunInv
  <2> QED BY <2>4, <2>5, <2>8, <2>9, <2>10 DEF RunInv
<1>11. ASSUME NEW w \in Workers, MarkSyncRunFailed(w) \/ CompleteSyncRun(w) PROVE RunInv'
  <2>1. Owns(w) BY <1>11 DEF MarkSyncRunFailed, CompleteSyncRun, Owns
  <2>2. job[w].run \in RunIds BY <2>1 DEF RunInv
  <2>3. /\ \A s \in RunIds \ {job[w].run} : run'[s] = run[s]
        /\ \/ run'[job[w].run] = run[job[w].run]
           \/ run'[job[w].run].status # "running"
    BY <1>11, <2>2, <1>d DEF MarkSyncRunFailed, CompleteSyncRun, Row
  <2>4. \A v \in Workers \ {w} : Inserting(v) => job[v].run # job[w].run /\ job[v].run \in RunIds
    BY <2>2 DEF RunInv
  <2>5. PICK result : job' = Finish(w, result)
    BY <1>11 DEF MarkSyncRunFailed, CompleteSyncRun
  <2> QED BY <2>3, <2>4, <2>5, <1>1
<1>12. ASSUME NEW r \in RunIds, StopSyncRun(r) PROVE RunInv'
  <2>1. job' = job /\ run' = [run EXCEPT ![r].status = "cancelled"] /\ run[r].status = "running"
    BY <1>12 DEF StopSyncRun
  <2>2. \A s \in RunIds : run'[s].status = "running" => run[s].status = "running"
    BY <2>1, <1>d DEF Row
  <2>3. \A v \in Workers : Inserting(v) => run'[job[v].run].status = run[job[v].run].status
    BY <2>1, <1>d DEF RunInv, ActiveRun
  <2>4. \A v \in Workers : (Owns(v)' <=> Owns(v)) /\ (Inserting(v)' <=> Inserting(v))
    BY <2>1 DEF Owns, Inserting
  <2> QED BY <2>1, <2>2, <2>3, <2>4, Releases
<1>13. CASE Tick \/ (\E a \in Accounts : ProviderBooks(a)) \/ UNCHANGED vars
  <2>1. job' = job /\ run' = run BY <1>13 DEF Tick, ProviderBooks, vars, tables
  <2> QED BY <2>1 DEF RunInv, Owns, Inserting, ActiveRun
<1> QED
  BY <1>2, <1>3, <1>4, <1>5, <1>6, <1>7, <1>8, <1>9, <1>10, <1>11, <1>12, <1>13
     DEF Next, Step

\* No run exists in the initial state.
LEMMA RunInit == Init => RunInv
<1> SUFFICES ASSUME Init PROVE RunInv
  OBVIOUS
<1>1. \A w \in Workers : job[w].pc = "idle" /\ job[w].run = NoRun BY DEF Init, IdleJob
<1>2. \A r \in RunIds : run[r].status = "absent" BY DEF Init, Absent
<1> QED BY <1>1, <1>2 DEF RunInv, Owns, Inserting

\* Two pipelines of one connection overlap only after one of them lost its row.
THEOREM OverlapNeedsRelease == Spec => []OverlapOnlyAfterRelease
<1>1. TypeOK /\ RunInv /\ [Next]_vars => RunInv' BY RunStep
<1>2. Spec => []RunInv BY <1>1, RunInit, TypeCorrect, PTL DEF Spec
<1>3. RunInv => OverlapOnlyAfterRelease
  <2> SUFFICES ASSUME RunInv, NEW v \in Workers, NEW w \in Workers,
                      v # w, Owns(v), Owns(w),
                      run[job[v].run].status = "running", run[job[w].run].status = "running"
               PROVE  FALSE
    BY DEF OverlapOnlyAfterRelease
  <2>1. job[v].run \in RunIds /\ job[w].run \in RunIds BY DEF RunInv
  <2>2. job[v].run = job[w].run BY <2>1 DEF RunInv
  <2> QED BY <2>1, <2>2, SyncConstants DEF RunInv
<1> QED BY <1>2, <1>3, PTL
=============================================================================
