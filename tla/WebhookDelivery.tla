-------------------------- MODULE WebhookDelivery --------------------------
(***************************************************************************)
(* Webhook fan-out and its retry worker.  A handler call of the outbox     *)
(* publisher posts one event to every subscribed webhook and commits one   *)
(* delivery-log row per webhook; a periodic job picks up the failed rows   *)
(* whose next_retry_at has passed and posts them again.                    *)
(*                                                                         *)
(* A delivery is a pair <<call, webhook>>.  An outbox message that is      *)
(* dispatched again is another call, whose deliveries have rows and        *)
(* attempts of their own: what is said here of a delivery is not said of   *)
(* the event.  next_retry_at is kept as the time that is left until it.    *)
(* Whether the rate limiter lets an attempt pass is left open here (see    *)
(* WebhookRateLimit).                                                      *)
(***************************************************************************)
EXTENDS Naturals, FiniteSets

CONSTANTS
  Calls,        \* calls of handle_outbox_message (one message may cause several)
  Hooks,        \* webhooks, numbered in the order of created_at
  Matches,      \* Matches[k]: webhooks of the call's tenant and event type
  Retriers,     \* worker processes that run process_webhook_retries_job
  MaxAttempts,  \* webhook_max_retries, copied to max_attempts of every row
  BaseDelay,    \* webhook_retry_base_delay_s
  BatchLimit,   \* LIMIT of the retry query
  MaxCrashes    \* bound on the crashes of one behaviour

ASSUME WebhookConstants ==
  /\ Hooks \subseteq Nat
  /\ Matches \in [Calls -> SUBSET Hooks]
  /\ MaxAttempts \in Nat
  /\ BaseDelay \in Nat
  /\ BatchLimit \in Nat \ {0}
  /\ MaxCrashes \in Nat

ASSUME PowersAreNaturals == \A n \in 0 .. MaxAttempts : 2 ^ n \in Nat

ASSUME PowersGrow == \A n \in 1 .. MaxAttempts : 2 ^ (n - 1) <= 2 ^ (MaxAttempts - 1)

VARIABLES
  hook,     \* hook[h]: whether webhook h is not yet created, active or deleted
  call,     \* call[k]: local state of handler call k, its open transaction included
  log,      \* log[d]: the committed delivery-log row of d
  retrier,  \* retrier[w]: local state of the retry job in process w
  posts,    \* history: HTTP requests made for d
  lost,     \* history: requests for d whose record a crash rolled back
  since,    \* history: time since the last request for d
  shared,   \* history: deliveries that two retry jobs held in their queues at once
  crashes   \* number of crashes so far

vars == <<hook, call, log, retrier, posts, lost, since, shared, crashes>>

Deliveries == Calls \X Hooks
Outcomes == {"delivered", "failed", "rate_limited"}
Status == Outcomes \union {"absent", "pending"}

\* planned: next_retry_at is not null; wait: how far it lies ahead.
Row == [status : Status, attempt : Nat, planned : BOOLEAN, wait : Nat]
NoRow == [status |-> "absent", attempt |-> 0, planned |-> FALSE, wait |-> 0]
NewRow == [status |-> "pending", attempt |-> 1, planned |-> FALSE, wait |-> 0]

\* todo: webhooks of the snapshot still to be served; rows: rows not committed.
Call == [pc : {"new", "fanout", "done"}, todo : SUBSET Hooks, rows : [Hooks -> Row]]
NewCall == [pc |-> "new", todo |-> {}, rows |-> [h \in Hooks |-> NoRow]]

\* queue: rows of the scan not looked at yet; seen: attempt_number at the scan;
\* cur, row: the entry in hand and its fresh, uncommitted row.
Retrier == [pc : {"idle", "next", "loaded", "posted"}, queue : SUBSET Deliveries,
            seen : [Deliveries -> Nat], cur : SUBSET Deliveries, row : Row]
IdleRetrier == [pc |-> "idle", queue |-> {}, seen |-> [d \in Deliveries |-> 0],
                cur |-> {}, row |-> NoRow]

Init ==
  /\ hook = [h \in Hooks |-> "new"]
  /\ call = [k \in Calls |-> NewCall]
  /\ log = [d \in Deliveries |-> NoRow]
  /\ retrier = [w \in Retriers |-> IdleRetrier]
  /\ posts = [d \in Deliveries |-> 0]
  /\ lost = [d \in Deliveries |-> 0]
  /\ since = [d \in Deliveries |-> 0]
  /\ shared = {}
  /\ crashes = 0

Delay(n) == BaseDelay * 2 ^ (n - 1)
LongestDelay == Delay(MaxAttempts)

\* Fault: a row that may be retried is not given a time.
AfterAttemptUnplanned(row, outcome) == [row EXCEPT !.status = outcome]

\* Fault: the final failure is stored as it was created.
AfterAttemptPending(row, outcome) ==
  IF outcome = "failed" /\ row.attempt >= MaxAttempts
  THEN [row EXCEPT !.status = "pending"]
  ELSE IF outcome = "failed"
       THEN [row EXCEPT !.status = outcome, !.planned = TRUE, !.wait = Delay(row.attempt)]
       ELSE [row EXCEPT !.status = outcome]

\* What _attempt_delivery writes into a row: next_retry_at only for a failure
\* that leaves attempts; otherwise it stays what it was.
AfterAttempt(row, outcome) ==
  IF outcome = "failed" /\ row.attempt < MaxAttempts
  THEN [row EXCEPT !.status = outcome, !.planned = TRUE, !.wait = Delay(row.attempt)]
  ELSE [row EXCEPT !.status = outcome]

\* A request leaves the process unless the rate limiter stopped it.
Requested(d, outcome) ==
  IF outcome = "rate_limited"
  THEN UNCHANGED <<posts, since>>
  ELSE /\ posts' = [posts EXCEPT ![d] = @ + 1]
       /\ since' = [since EXCEPT ![d] = 0]

-----------------------------------------------------------------------------
CreateWebhook(h) ==
  /\ hook[h] = "new"
  /\ \A g \in Hooks : g < h => hook[g] # "new"
  /\ hook' = [hook EXCEPT ![h] = "active"]
  /\ UNCHANGED <<call, log, retrier, posts, lost, since, crashes, shared>>

\* The delivery log has no foreign key: its rows stay.
DeleteWebhook(h) ==
  /\ hook[h] = "active"
  /\ hook' = [hook EXCEPT ![h] = "deleted"]
  /\ UNCHANGED <<call, log, retrier, posts, lost, since, crashes, shared>>

\* dispatch_event reads the active subscribers; without any it is done.
StartDispatch(k) ==
  /\ call[k].pc = "new"
  /\ LET targets == {h \in Matches[k] : hook[h] = "active"}
     IN  call' = [call EXCEPT ![k].pc = IF targets = {} THEN "done" ELSE "fanout",
                              ![k].todo = targets]
  /\ UNCHANGED <<hook, log, retrier, posts, lost, since, crashes, shared>>

\* _deliver for the next webhook of the snapshot, oldest first: a new row, one
\* attempt, nothing committed.
Deliver(k, h) ==
  /\ call[k].pc = "fanout"
  /\ h \in call[k].todo
  /\ \A g \in call[k].todo : h <= g
  /\ \E o \in Outcomes :
       /\ call' = [call EXCEPT ![k].todo = @ \ {h},
                               ![k].rows[h] = AfterAttempt(NewRow, o)]
       /\ Requested(<<k, h>>, o)
  /\ UNCHANGED <<hook, log, retrier, lost, crashes, shared>>

\* One commit for the rows of all webhooks.
CommitDispatch(k) ==
  /\ call[k].pc = "fanout"
  /\ call[k].todo = {}
  /\ log' = [d \in Deliveries |->
               IF d[1] = k /\ call[k].rows[d[2]] # NoRow THEN call[k].rows[d[2]] ELSE log[d]]
  /\ call' = [call EXCEPT ![k] = [NewCall EXCEPT !.pc = "done"]]
  /\ UNCHANGED <<hook, retrier, posts, lost, since, crashes, shared>>

\* The publisher dies during the fan-out: every row rolls back, the requests
\* are out, and the reclaimed outbox message is dispatched from the start.
CrashDispatch(k) ==
  /\ crashes < MaxCrashes
  /\ call[k].pc = "fanout"
  /\ lost' = [d \in Deliveries |->
                IF d[1] = k /\ call[k].rows[d[2]].status \in {"delivered", "failed"}
                THEN lost[d] + 1 ELSE lost[d]]
  /\ call' = [call EXCEPT ![k] = NewCall]
  /\ crashes' = crashes + 1
  /\ UNCHANGED <<hook, log, retrier, posts, since, shared>>

-----------------------------------------------------------------------------
\* Fault: the status is not part of the query.
DueAnyStatus(d) == log[d].planned /\ log[d].wait = 0 /\ log[d].attempt < MaxAttempts

\* Fault: next_retry_at is only tested for null.
DueAtOnce(d) == log[d].status = "failed" /\ log[d].planned /\ log[d].attempt < MaxAttempts

\* Fault: the last attempt is retried too.
DueOnceMore(d) ==
  log[d].status = "failed" /\ log[d].planned /\ log[d].wait = 0
    /\ log[d].attempt <= MaxAttempts

\* The WHERE clause of retry_due_deliveries.
Due(d) ==
  log[d].status = "failed" /\ log[d].planned /\ log[d].wait = 0
    /\ log[d].attempt < MaxAttempts

\* The scan: any BatchLimit of the due rows, with no order and no lock.
Scan(w) ==
  /\ retrier[w].pc = "idle"
  /\ \E S \in SUBSET {d \in Deliveries : Due(d)} :
       /\ S # {}
       /\ Cardinality(S) <= BatchLimit
       /\ Cardinality(S) < BatchLimit => \A d \in Deliveries : Due(d) => d \in S
       /\ retrier' = [retrier EXCEPT ![w] =
                        [pc |-> "next", queue |-> S, cur |-> {}, row |-> NoRow,
                         seen |-> [d \in Deliveries |-> IF d \in S THEN log[d].attempt ELSE 0]]]
       /\ shared' = shared \union {d \in S : \E v \in Retriers : d \in retrier[v].queue}
  /\ UNCHANGED <<hook, call, log, posts, lost, since, crashes>>

\* The retry job once it has finished the entry in hand.
Advance(r, d) ==
  IF r.queue \ {d} = {} THEN IdleRetrier
  ELSE [r EXCEPT !.pc = "next", !.queue = @ \ {d}, !.seen[d] = 0, !.cur = {}, !.row = NoRow]

\* The webhook is gone: only error_message is written, so the row stays due.
SkipInactive(w, d) ==
  /\ retrier[w].pc = "next"
  /\ d \in retrier[w].queue
  /\ hook[d[2]] # "active"
  /\ retrier' = [retrier EXCEPT ![w] = Advance(retrier[w], d)]
  /\ UNCHANGED <<hook, call, log, posts, lost, since, crashes, shared>>

\* The webhook is read, then the row afresh; its attempt_number is overwritten
\* by the one of the scan plus one.
LoadFresh(w, d) ==
  /\ retrier[w].pc = "next"
  /\ d \in retrier[w].queue
  /\ hook[d[2]] = "active"
  /\ retrier' = [retrier EXCEPT ![w].pc = "loaded", ![w].cur = {d},
                                ![w].row = [log[d] EXCEPT !.attempt = retrier[w].seen[d] + 1]]
  /\ UNCHANGED <<hook, call, log, posts, lost, since, crashes, shared>>

\* _attempt_delivery: the request, with no lock on the row.
Attempt(w, d) ==
  /\ retrier[w].pc = "loaded"
  /\ retrier[w].cur = {d}
  /\ \E o \in Outcomes :
       /\ retrier' = [retrier EXCEPT ![w].pc = "posted", ![w].row = AfterAttempt(@, o)]
       /\ Requested(d, o)
  /\ UNCHANGED <<hook, call, log, lost, crashes, shared>>

\* UPDATE ... WHERE id = log_entry.id with every column, and commit.
CommitRetry(w, d) ==
  /\ retrier[w].pc = "posted"
  /\ retrier[w].cur = {d}
  /\ log' = [log EXCEPT ![d] = retrier[w].row]
  /\ retrier' = [retrier EXCEPT ![w] = Advance(retrier[w], d)]
  /\ UNCHANGED <<hook, call, posts, lost, since, crashes, shared>>

\* The worker dies: an attempt not yet committed leaves no trace.
CrashRetrier(w) ==
  /\ crashes < MaxCrashes
  /\ retrier[w].pc # "idle"
  /\ lost' = [d \in Deliveries |->
                IF /\ retrier[w].pc = "posted"
                   /\ d \in retrier[w].cur
                   /\ retrier[w].row.status # "rate_limited"
                THEN lost[d] + 1 ELSE lost[d]]
  /\ retrier' = [retrier EXCEPT ![w] = IdleRetrier]
  /\ crashes' = crashes + 1
  /\ UNCHANGED <<hook, call, log, posts, since, shared>>

Closer(row) == [row EXCEPT !.wait = IF @ = 0 THEN 0 ELSE @ - 1]

\* Time passes.
Tick ==
  /\ log' = [d \in Deliveries |-> Closer(log[d])]
  /\ call' = [k \in Calls |->
                [call[k] EXCEPT !.rows = [h \in Hooks |-> Closer(call[k].rows[h])]]]
  /\ retrier' = [w \in Retriers |-> [retrier[w] EXCEPT !.row = Closer(retrier[w].row)]]
  /\ since' = [d \in Deliveries |-> IF since[d] < LongestDelay THEN since[d] + 1 ELSE since[d]]
  /\ UNCHANGED <<hook, posts, lost, crashes, shared>>

RetryStep(w) ==
  \/ Scan(w)
  \/ \E d \in Deliveries :
       SkipInactive(w, d) \/ LoadFresh(w, d) \/ Attempt(w, d) \/ CommitRetry(w, d)

DispatchStep(k) == StartDispatch(k) \/ (\E h \in Hooks : Deliver(k, h)) \/ CommitDispatch(k)

Next ==
  \/ \E h \in Hooks : CreateWebhook(h) \/ DeleteWebhook(h)
  \/ \E k \in Calls : DispatchStep(k) \/ CrashDispatch(k)
  \/ \E w \in Retriers : RetryStep(w) \/ CrashRetrier(w)
  \/ Tick

Spec == Init /\ [][Next]_vars

\* The interval job runs again and again, requests end (the HTTP client has a
\* timeout) and the clock advances.  Nothing obliges an event, a change of the
\* webhooks or a crash to happen.
FairSpec == Spec /\ WF_vars(Tick) /\ \A w \in Retriers : WF_vars(RetryStep(w))

-----------------------------------------------------------------------------
\* Rows, calls and retry jobs keep their types, and the status pending that a
\* row is created with is never visible outside the transaction that attempts
\* it.
TypeOK ==
  /\ hook \in [Hooks -> {"new", "active", "deleted"}]
  /\ call \in [Calls -> Call]
  /\ log \in [Deliveries -> Row]
  /\ \A d \in Deliveries : log[d].status # "pending"
  /\ retrier \in [Retriers -> Retrier]
  /\ posts \in [Deliveries -> Nat]
  /\ lost \in [Deliveries -> Nat]
  /\ since \in [Deliveries -> Nat]
  /\ shared \subseteq Deliveries
  /\ crashes \in 0 .. MaxCrashes

AttemptLimit == IF MaxAttempts = 0 THEN 1 ELSE MaxAttempts

\* A delivery is posted at most max_attempts times (once if that is 0), plus
\* once for every request whose record a crash rolled back.  Only a delivery
\* that a retry job scanned while another one held it may go beyond that: two
\* jobs do no harm to each other's other rows.
PostsBounded == \A d \in Deliveries \ shared : posts[d] <= AttemptLimit + lost[d]

\* A delivery recorded as delivered is final: no scan that is under way and no
\* late commit makes it failed or posts it again, unless two retry jobs held
\* it at once.
DeliveredIsFinal ==
  [][\A d \in Deliveries \ shared :
       log[d].status = "delivered" => log'[d].status = "delivered" /\ posts'[d] = posts[d]]_vars

\* A repeated request of a delivery waits out the exponential backoff of the
\* failed attempt before it, unless a crash lost an attempt or two retry jobs
\* held the delivery at once.
BackoffKept ==
  [][\A d \in Deliveries \ shared :
       (posts'[d] > posts[d] /\ posts[d] > 0 /\ lost[d] = 0)
         => since[d] >= Delay(log[d].attempt)]_vars

Settled(d) ==
  \/ log[d].status \in {"delivered", "rate_limited"}
  \/ log[d].attempt >= MaxAttempts
  \/ hook[d[2]] # "active"

\* A failed delivery with attempts left is retried until it is delivered, its
\* attempts are used up, the limiter ends it, or its webhook is gone, although
\* retry jobs crash.
EveryDeliverySettles == \A d \in Deliveries : (log[d].status = "failed") ~> Settled(d)

=============================================================================
