---------------------------- MODULE WealthfolioPush ----------------------------
(***************************************************************************)
(* push_to_wealthfolio(): the projection of finance-sync transactions onto *)
(* a Wealthfolio destination (exporter/wealthfolio/exporter.py and         *)
(* client.py).  A push creates an ExportRun row, removes what the source   *)
(* no longer has, maps and imports the transactions of a time window in    *)
(* chunks, moves the delivery cursor, repairs what is still missing and    *)
(* writes the outcome of the run.                                          *)
(*                                                                         *)
(* A transaction is <<account, n>>, n its place in the order of            *)
(* occurred_at.  The lease of a destination ends after 900 seconds and the *)
(* command line takes none, so pushes overlap.  The row of a finished run  *)
(* is forgotten when the next run starts.                                  *)
(***************************************************************************)
EXTENDS Integers, FiniteSets

CONSTANTS
  Accounts,    \* accounts of the tenant
  MaxPos,      \* transactions per account
  WindowStart, \* first position inside the window of an incremental push
  ChunkSize,   \* chunk_size
  Pushers,     \* processes that push
  MaxRuns,     \* ExportRun rows that are not history yet
  MaxEvents,   \* bound on changes from outside and on failures
  Mentions,    \* <<u, t>>: the activity of u contains the external id of t
  NONE

ASSUME PushAssumption ==
  /\ MaxPos \in Nat \ {0} /\ WindowStart \in Nat \ {0} /\ ChunkSize \in Nat \ {0}
  /\ MaxEvents \in Nat /\ MaxRuns \in Nat \ {0}
  /\ NONE \notin Accounts /\ NONE \notin Int
  /\ Mentions \subseteq (Accounts \X Nat) \X (Accounts \X Nat)

VARIABLES
  src,     \* src[t]: transaction t in the database
  scope,   \* the accounts selected for the destination
  remote,  \* the activities at the destination, by idempotency key
  cursor,  \* cursor[a]: position of WealthfolioDelivery, 0 without a row
  runRow,  \* runRow[r]: status of an ExportRun
  job,     \* job[w]: the push of process w
  events   \* changes from outside and failures so far

vars == <<src, scope, remote, cursor, runRow, job, events>>

Txns == Accounts \X (1 .. MaxPos)
Of(a) == {t \in Txns : t[1] = a}

\* blocked: validate_transaction_stream reports an error, and it can be mapped;
\* foreign: cash in another currency, which the push and the repair map and the
\* comparison of the totals does not; malformed: the mapping raises ValueError;
\* unresolved: it lacks a security or a currency, for which the mapping raises
\* a subclass of ValueError.
ActiveKinds == {"ok", "blocked", "foreign", "malformed", "unresolved"}
Kinds == ActiveKinds \union {"absent", "withdrawn"}

Runs == 1 .. MaxRuns
RunRefs == Runs \union {NONE}
Places == 0 .. MaxPos

Active(t) == src[t] \in ActiveKinds
Mappable(t) == src[t] \in {"ok", "blocked", "foreign"}
Pushable(t) == src[t] \in {"ok", "foreign"}
Comparable(t) == src[t] \in {"ok", "blocked"}

Modes == {"incremental", "full", "rebuild"}
Window(mode) == {t \in Txns : mode = "incremental" => t[2] >= WindowStart}

\* todo: accounts not yet begun; acct: the one in hand; batch: what the step at
\* pc works on; last: position of the last transaction mapped; listed: the
\* source as the comparison read it; bad: errors is not empty; owed: what was
\* read for the push or the comparison and nobody else has taken away since.
Job == [pc : {"idle", "prune", "next", "clean", "delete", "fetch", "push",
              "cursor", "compare", "repair", "check", "final"},
        run : RunRefs, mode : Modes, todo : SUBSET Accounts,
        acct : Accounts \union {NONE}, batch : SUBSET Txns, last : Places,
        listed : SUBSET Txns, bad : BOOLEAN, owed : SUBSET Txns]

IdleJob == [pc |-> "idle", run |-> NONE, mode |-> "incremental", todo |-> {},
            acct |-> NONE, batch |-> {}, last |-> 0, listed |-> {}, bad |-> FALSE, owed |-> {}]

Init ==
  /\ src \in [Txns -> Kinds]
  /\ scope \in SUBSET Accounts
  /\ remote = {}
  /\ cursor = [a \in Accounts |-> 0]
  /\ runRow = [r \in Runs |-> "none"]
  /\ job = [w \in Pushers |-> IdleJob]
  /\ events = 0

Event == events < MaxEvents /\ events' = events + 1
At(w, pc) == job[w].pc = pc

\* The next account: whatever happened to this one, the loop goes on.
NextAccount(j, bad) ==
  [j EXCEPT !.pc = "next", !.acct = NONE, !.batch = {}, !.last = 0, !.listed = {},
            !.bad = @ \/ bad]

\* Activities S are deleted at the destination by w (NONE: by someone else).
\* Every other push is no longer to answer for them.
Remove(w, S, j) ==
  /\ remote' = remote \ S
  /\ job' = [v \in Pushers |-> IF v = w THEN j
                               ELSE [job[v] EXCEPT !.owed = @ \ S]]

------------------------------------------------------------------------------
(* The push.                                                               *)

\* The row of a new run takes the place of one that is history.
FreeRuns == {r \in Runs : runRow[r] # "running" /\ \A w \in Pushers : job[w].run # r}
NewRun(r) == r \in FreeRuns /\ \A q \in FreeRuns : r <= q

\* Fault: the rows of interrupted runs are left as they are.
StartOverOrphans(w, mode) ==
  /\ At(w, "idle")
  /\ \E r \in Runs :
       /\ NewRun(r)
       /\ runRow' = [q \in Runs |-> IF q = r THEN "running"
                                    ELSE IF runRow[q] = "running" THEN "running"
                                    ELSE "none"]
       /\ job' = [job EXCEPT ![w] = [IdleJob EXCEPT !.pc = "prune", !.run = r,
                    !.mode = mode, !.todo = IF scope = {} THEN Accounts ELSE scope]]
  /\ UNCHANGED <<src, scope, remote, cursor, events>>

\* The rows of runs that a restart left behind are cancelled in the
\* transaction that adds the row of this one.
Start(w, mode) ==
  /\ At(w, "idle")
  /\ \E r \in Runs :
       /\ NewRun(r)
       /\ runRow' = [q \in Runs |-> IF q = r THEN "running"
                                    ELSE IF runRow[q] = "running" THEN "cancelled"
                                    ELSE "none"]
       /\ job' = [job EXCEPT ![w] = [IdleJob EXCEPT !.pc = "prune", !.run = r,
                    !.mode = mode, !.todo = IF scope = {} THEN Accounts ELSE scope]]
  /\ UNCHANGED <<src, scope, remote, cursor, events>>

\* delete_accounts_not_owned_by_finance_sync(): the accounts outside the
\* dataset go with all their activities.
Prune(w) ==
  /\ At(w, "prune")
  /\ Remove(w, {t \in remote : t[1] \notin job[w].todo}, [job[w] EXCEPT !.pc = "next"])
  /\ UNCHANGED <<src, scope, cursor, runRow, events>>

\* The next account: a rebuild lists all its activities for deletion. Any
\* other push first reads the identities the source has.
NextAccountBegins(w) ==
  /\ At(w, "next")
  /\ \E a \in job[w].todo :
       job' = [job EXCEPT ![w] = [job[w] EXCEPT
         !.todo = @ \ {a}, !.acct = a,
         !.pc = IF job[w].mode = "rebuild" THEN "delete" ELSE "clean",
         !.batch = IF job[w].mode = "rebuild" THEN remote \intersect Of(a)
                   ELSE {t \in Of(a) : Active(t)}]]
  /\ UNCHANGED <<src, scope, remote, cursor, runRow, events>>

\* delete_activities_not_in() lists the activities, then deletes them.
ListStale(w) ==
  /\ At(w, "clean")
  /\ job' = [job EXCEPT ![w].pc = "delete",
               ![w].batch = (remote \intersect Of(job[w].acct)) \ @]
  /\ UNCHANGED <<src, scope, remote, cursor, runRow, events>>

DeleteStale(w) ==
  /\ At(w, "delete")
  /\ Remove(w, job[w].batch, [job[w] EXCEPT !.pc = "fetch", !.batch = {}])
  /\ UNCHANGED <<src, scope, cursor, runRow, events>>

\* Fault: a malformed trade ends the loop as well.
MappedOfStrict(S) ==
  {t \in S : Pushable(t) /\ \A u \in S : src[u] \in {"malformed", "unresolved"} => t[2] < u[2]}

\* The mapping loop: an error of the stream validation or a malformed trade is
\* passed over, an unresolved one ends the loop.
Unresolved(S) == {t \in S : src[t] = "unresolved"}
MappedOf(S) ==
  {t \in S : Pushable(t) /\ \A u \in Unresolved(S) : t[2] < u[2]}
LastOf(S) == IF S = {} THEN 0 ELSE CHOOSE n \in 1 .. MaxPos :
  (\E t \in S : t[2] = n) /\ \A t \in S : t[2] <= n

\* _fetch_pending_transactions() and the mapping.
FetchAndMap(w) ==
  /\ At(w, "fetch")
  /\ LET fetched == {t \in Of(job[w].acct) \intersect Window(job[w].mode) : Active(t)}
         mapped == MappedOf(fetched)
         bad == \E t \in fetched : ~Pushable(t)
     IN job' = [job EXCEPT ![w] =
          IF mapped = {} THEN [NextAccount(job[w], bad) EXCEPT !.owed = @ \union fetched]
          ELSE [job[w] EXCEPT !.pc = "push", !.batch = mapped, !.last = LastOf(mapped),
                         !.bad = @ \/ bad, !.owed = @ \union fetched]]
  /\ UNCHANGED <<src, scope, remote, cursor, runRow, events>>

\* The first chunk of what is left, in order.
IsChunk(C, S) ==
  /\ C \subseteq S /\ C # {}
  /\ \A t \in C, u \in S \ C : t[2] < u[2]
  /\ Cardinality(C) = ChunkSize \/ (C = S /\ Cardinality(C) <= ChunkSize)

\* push_activities() of one chunk C ends without an error: the destination
\* keeps one activity for an idempotency key.  It may have stored less, for
\* the rows that the check endpoint left out or the import skipped are no
\* failures.
PushChunk(w, C, stored) ==
  /\ At(w, "push")
  /\ IsChunk(C, job[w].batch) /\ stored \subseteq C
  /\ remote' = remote \union stored
  /\ job' = [job EXCEPT ![w].batch = @ \ C,
               ![w].pc = IF job[w].batch = C THEN "cursor" ELSE "push"]
  /\ \/ stored = C /\ UNCHANGED events
     \/ stored # C /\ Event
  /\ UNCHANGED <<src, scope, cursor, runRow>>

\* The import is rejected: its summary is no success, whatever part of the
\* chunk was stored. The cursor stays and the loop goes to the next account.
PushRejected(w, C, stored) ==
  /\ At(w, "push")
  /\ IsChunk(C, job[w].batch) /\ stored \subseteq C
  /\ remote' = remote \union stored
  /\ job' = [job EXCEPT ![w] = NextAccount(job[w], TRUE)]
  /\ Event /\ UNCHANGED <<src, scope, cursor, runRow>>

\* Fault: the cursor is put on the transaction after the last.
UpdateCursorPast(w) ==
  /\ At(w, "cursor")
  /\ cursor' = [cursor EXCEPT ![job[w].acct] = job[w].last + 1]
  /\ job' = [job EXCEPT ![w].pc = "compare"]
  /\ UNCHANGED <<src, scope, remote, runRow, events>>

\* _update_wealthfolio_delivery(), after every chunk succeeded.
UpdateCursor(w) ==
  /\ At(w, "cursor")
  /\ cursor' = [cursor EXCEPT ![job[w].acct] = job[w].last]
  /\ job' = [job EXCEPT ![w].pc = "compare"]
  /\ UNCHANGED <<src, scope, remote, runRow, events>>

\* _reconcile_activity_totals(): the source, in the window or not, against the
\* destination.  Nothing missing: the totals are compared at once, with a
\* finding for a transaction that cannot be mapped.
Compare(w) ==
  /\ At(w, "compare")
  /\ LET listed == {t \in Of(job[w].acct) : Active(t)}
         bad == \E t \in listed : ~Comparable(t)
     IN job' = [job EXCEPT ![w] =
          IF listed \subseteq remote
          THEN [NextAccount(job[w], bad) EXCEPT !.owed = @ \union listed]
          ELSE [job[w] EXCEPT !.pc = "repair", !.listed = listed, !.bad = @ \/ bad,
                         !.batch = {t \in listed \ remote : Mappable(t)},
                         !.owed = @ \union listed]]
  /\ UNCHANGED <<src, scope, remote, cursor, runRow, events>>

\* The repair imports what is missing and maps, as far as the destination
\* accepts it: a rejection is logged only, and the check below reports it.
Repair(w, accepted) ==
  /\ At(w, "repair")
  /\ accepted \subseteq job[w].batch
  /\ remote' = remote \union accepted
  /\ job' = [job EXCEPT ![w].pc = "check", ![w].batch = {}]
  /\ \/ accepted = job[w].batch /\ UNCHANGED events
     \/ accepted # job[w].batch /\ Event
  /\ UNCHANGED <<src, scope, cursor, runRow>>

\* By its identity, or by an activity of the account whose text contains it.
Found(t) == t \in remote \/ \E u \in remote \intersect Of(t[1]) : <<u, t>> \in Mentions

\* Fault: what the repair has sent is taken for delivered.
CheckTrusting(w) ==
  /\ At(w, "check")
  /\ job' = [job EXCEPT ![w] = NextAccount(job[w], FALSE)]
  /\ UNCHANGED <<src, scope, remote, cursor, runRow, events>>

\* The destination is read again: one finding for every transaction that the
\* comparison read and that is not found there.
Check(w) ==
  /\ At(w, "check")
  /\ job' = [job EXCEPT ![w] = NextAccount(job[w], \E t \in job[w].listed : ~Found(t))]
  /\ UNCHANGED <<src, scope, remote, cursor, runRow, events>>

\* Anything that raises inside the loop costs this account and no other. A
\* request that raises may have been carried out: in part, if it deletes.
AccountFails(w) ==
  /\ job[w].acct # NONE
  /\ Event
  /\ \/ remote' = remote
        /\ job' = [job EXCEPT ![w] = NextAccount(job[w], TRUE)]
     \/ At(w, "delete")
        /\ \E S \in SUBSET job[w].batch : Remove(w, S, NextAccount(job[w], TRUE))
     \/ /\ \E stored \in SUBSET job[w].batch :
             /\ remote' = remote \union stored
             /\ \/ At(w, "repair")
                \/ At(w, "push") /\ \E C \in SUBSET job[w].batch :
                     IsChunk(C, job[w].batch) /\ stored \subseteq C
        /\ job' = [job EXCEPT ![w] = NextAccount(job[w], TRUE)]
  /\ UNCHANGED <<src, scope, cursor, runRow>>

\* _sync_and_reconcile_holdings() found a difference: an error, no exception.
HoldingsFinding(w) ==
  /\ At(w, "fetch") \/ At(w, "compare") \/ At(w, "final")
  /\ job' = [job EXCEPT ![w].bad = TRUE]
  /\ Event /\ UNCHANGED <<src, scope, remote, cursor, runRow>>

AccountsDone(w) ==
  /\ At(w, "next") /\ job[w].todo = {}
  /\ job' = [job EXCEPT ![w].pc = "final"]
  /\ UNCHANGED <<src, scope, remote, cursor, runRow, events>>

\* _complete_run() writes the row of the run, whatever its status is by now.
CompleteRun(w) ==
  /\ At(w, "final")
  /\ runRow' = [runRow EXCEPT ![job[w].run] = IF job[w].bad THEN "failed" ELSE "completed"]
  /\ job' = [job EXCEPT ![w] = IdleJob]
  /\ UNCHANGED <<src, scope, remote, cursor, events>>

\* An exception outside the loop over the accounts, or a cancellation.
RunEndsEarly(w, status) ==
  /\ ~At(w, "idle")
  /\ status = "cancelled" \/ (status = "failed" /\ job[w].acct = NONE)
  /\ runRow' = [runRow EXCEPT ![job[w].run] = status]
  /\ job' = [job EXCEPT ![w] = IdleJob]
  /\ Event /\ UNCHANGED <<src, scope, remote, cursor>>

Crash(w) ==
  /\ ~At(w, "idle")
  /\ job' = [job EXCEPT ![w] = IdleJob]
  /\ Event /\ UNCHANGED <<src, scope, remote, cursor, runRow>>

------------------------------------------------------------------------------
(* Around the push.                                                        *)

\* The sync adds, changes or withdraws a transaction; a withdrawn one is not
\* to be at the destination any more.
SourceChanges(t, kind) ==
  /\ src[t] # kind /\ kind # "absent"
  /\ src' = [src EXCEPT ![t] = kind]
  /\ job' = [w \in Pushers |-> IF kind \in ActiveKinds THEN job[w]
                               ELSE [job[w] EXCEPT !.owed = @ \ {t}]]
  /\ Event /\ UNCHANGED <<scope, remote, cursor, runRow>>

SelectAccounts(S) ==
  /\ S # scope
  /\ scope' = S
  /\ Event /\ UNCHANGED <<src, remote, cursor, runRow, job>>

\* The user deletes an activity at the destination.
ManualDelete(t) ==
  /\ t \in remote
  /\ Remove(NONE, {t}, IdleJob)
  /\ Event /\ UNCHANGED <<src, scope, cursor, runRow>>

PushStep(w) ==
  \/ Prune(w) \/ NextAccountBegins(w) \/ ListStale(w) \/ DeleteStale(w)
  \/ FetchAndMap(w) \/ UpdateCursor(w) \/ Compare(w)
  \/ \E C \in SUBSET job[w].batch : PushChunk(w, C, C)
  \/ Repair(w, job[w].batch) \/ Check(w) \/ AccountsDone(w) \/ CompleteRun(w)

Faults(w) ==
  \/ AccountFails(w) \/ HoldingsFinding(w) \/ Crash(w)
  \/ \E C \in SUBSET job[w].batch : \E S \in SUBSET C :
       (S # C /\ PushChunk(w, C, S)) \/ PushRejected(w, C, S)
  \/ \E S \in SUBSET job[w].batch : S # job[w].batch /\ Repair(w, S)
  \/ \E status \in {"failed", "cancelled"} : RunEndsEarly(w, status)

Next ==
  \/ \E w \in Pushers :
       \/ \E mode \in Modes : Start(w, mode)
       \/ PushStep(w)
       \/ Faults(w)
  \/ \E t \in Txns, kind \in Kinds : SourceChanges(t, kind)
  \/ \E S \in SUBSET Accounts : SelectAccounts(S)
  \/ \E t \in Txns : ManualDelete(t)

Spec == Init /\ [][Next]_vars

------------------------------------------------------------------------------
TypeOK ==
  /\ src \in [Txns -> Kinds]
  /\ scope \subseteq Accounts
  /\ remote \subseteq Txns
  /\ cursor \in [Accounts -> Places]
  /\ runRow \in [Runs -> {"none", "running", "completed", "failed", "cancelled"}]
  /\ job \in [Pushers -> Job]
  /\ events \in 0 .. MaxEvents

\* A run that is about to be recorded as completed has at the destination all
\* that it fetched and all that the comparisons of its accounts read, in the
\* window or not, save what the source or somebody else took back meanwhile
\* and what the comparison takes for present because another activity of the
\* account contains its external id.  A chunk that was stored in part, a
\* repair that was rejected and an account that failed are not lost on the way
\* to the outcome of the run.
Confusable(t) == \E u \in Of(t[1]) : <<u, t>> \in Mentions

CompletedIsDelivered ==
  \A w \in Pushers :
    job[w].pc = "final" /\ ~job[w].bad => \A t \in job[w].owed : t \in remote \/ Confusable(t)

\* The comment on orphaned rows: the UI never reports a permanently active
\* export. A row in running is left, through its own push or the next one.
RunRowEnds ==
  \A r \in Runs : runRow[r] = "running" ~> runRow[r] # "running"

\* A transaction inside the window that maps, and waits for no other one, gets
\* to the destination in the end, whichever pushes and accounts fail before.
Ready(t) ==
  /\ Pushable(t) /\ t[2] >= WindowStart /\ (t[1] \in scope \/ scope = {})
  /\ \A u \in Of(t[1]) : src[u] = "unresolved" => u[2] > t[2]

DeliveredInTheEnd ==
  \A t \in Txns : Ready(t) ~> (t \in remote \/ ~Ready(t))

==============================================================================
