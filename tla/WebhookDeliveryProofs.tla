----------------------- MODULE WebhookDeliveryProofs -----------------------
(***************************************************************************)
(* Proofs about WebhookDelivery, for any number of retry jobs: types, the  *)
(* bound on requests, the finality of delivery and the backoff; and about  *)
(* WebhookRateLimit: the bound of its two limiters together.               *)
(***************************************************************************)
EXTENDS WebhookDelivery, WebhookRateLimit, FiniteSetTheorems, FunctionTheorems, TLAPS

\* An uncommitted row is never pending between two steps of the handler call,
\* and the retry job's row has been attempted when it waits for its commit.
InHandInv ==
  /\ \A k \in Calls, h \in Hooks : call[k].rows[h].status # "pending"
  /\ \A w \in Retriers :
       /\ retrier[w].pc = "loaded" => retrier[w].row.attempt >= 1
       /\ retrier[w].pc = "posted" => retrier[w].row.status \in Outcomes

TypeInv == TypeOK /\ InHandInv

\* The rows the model starts from are rows.
LEMMA ConstantRows ==
  /\ NoRow \in Row /\ NewRow \in Row
  /\ NoRow.status = "absent" /\ NoRow.attempt = 0
  /\ NewRow.attempt = 1
  BY DEF NoRow, NewRow, Row, Status, Outcomes

\* The delay of an attempt that is not the last is a natural number.
LEMMA DelayNat ==
  ASSUME NEW n \in Nat, n >= 1, n < MaxAttempts
  PROVE  Delay(n) \in Nat
  <1>1. n - 1 \in 0 .. MaxAttempts
    BY WebhookConstants
  <1>2. 2 ^ (n - 1) \in Nat
    BY <1>1, PowersAreNaturals
  <1> QED
    BY <1>2, WebhookConstants DEF Delay

\* An attempt turns a row into a row with its outcome and attempt number.
LEMMA AfterAttemptRow ==
  ASSUME NEW r \in Row, r.attempt >= 1, NEW o \in Outcomes
  PROVE  /\ AfterAttempt(r, o) \in Row
         /\ AfterAttempt(r, o).status = o
         /\ AfterAttempt(r, o).attempt = r.attempt
  <1>0. o \in Status /\ r.attempt \in Nat
    BY DEF Status, Row
  <1>1. CASE o = "failed" /\ r.attempt < MaxAttempts
    <2>1. Delay(r.attempt) \in Nat
      BY <1>0, <1>1, DelayNat
    <2>2. AfterAttempt(r, o) = [r EXCEPT !.status = o, !.planned = TRUE, !.wait = Delay(r.attempt)]
      BY <1>1 DEF AfterAttempt
    <2>3. PICK z \in Nat : z = Delay(r.attempt)
      BY <2>1
    <2>4. AfterAttempt(r, o) = [r EXCEPT !.status = o, !.planned = TRUE, !.wait = z]
      BY <2>2, <2>3
    <2> QED
      BY <2>4, <1>0 DEF Row
  <1>2. CASE ~(o = "failed" /\ r.attempt < MaxAttempts)
    BY <1>0, <1>2 DEF AfterAttempt, Row
  <1> QED
    BY <1>1, <1>2

\* Time changes nothing of a row but how far next_retry_at lies ahead.
LEMMA CloserRow ==
  ASSUME NEW r \in Row
  PROVE  /\ Closer(r) \in Row
         /\ Closer(r).status = r.status
         /\ Closer(r).attempt = r.attempt
         /\ r = NoRow => Closer(r) = NoRow
  <1>1. ASSUME NEW z \in Nat
        PROVE  LET q == [r EXCEPT !.wait = z]
               IN  q \in Row /\ q.status = r.status /\ q.attempt = r.attempt
    BY DEF Row
  <1>2. (IF r.wait = 0 THEN 0 ELSE r.wait - 1) \in Nat
    BY DEF Row
  <1>3. Closer(r) = [r EXCEPT !.wait = IF r.wait = 0 THEN 0 ELSE r.wait - 1]
    BY DEF Closer
  <1>4. r = NoRow => Closer(r) = NoRow
    BY DEF Closer, NoRow
  <1> QED
    BY <1>1, <1>2, <1>3, <1>4

\* The states of a retry job between two entries.
LEMMA AdvanceType ==
  ASSUME NEW r \in Retrier, NEW d \in Deliveries
  PROVE  /\ Advance(r, d) \in Retrier
         /\ Advance(r, d).pc \in {"idle", "next"}
         /\ Advance(r, d).queue = r.queue \ {d}
         /\ Advance(r, d).cur = {}
         /\ \A e \in r.queue \ {d} : Advance(r, d).seen[e] = r.seen[e]
  <1>0. IdleRetrier \in Retrier /\ IdleRetrier.pc = "idle" /\ IdleRetrier.queue = {} /\ IdleRetrier.cur = {}
    BY ConstantRows DEF IdleRetrier, Retrier
  <1>1. CASE r.queue \ {d} = {}
    BY <1>0, <1>1 DEF Advance
  <1>2. CASE r.queue \ {d} # {}
    <2>1. Advance(r, d) = [r EXCEPT !.pc = "next", !.queue = r.queue \ {d}, !.seen = [r.seen EXCEPT ![d] = 0],
                                    !.cur = {}, !.row = NoRow]
      BY <1>2 DEF Advance, Retrier
    <2>2. [r.seen EXCEPT ![d] = 0] \in [Deliveries -> Nat]
      BY DEF Retrier
    <2>3. \A e \in r.queue \ {d} : [r.seen EXCEPT ![d] = 0][e] = r.seen[e]
      BY DEF Retrier
    <2>4. PICK s \in [Deliveries -> Nat] : s = [r.seen EXCEPT ![d] = 0]
      BY <2>2
    <2>5. PICK q \in SUBSET Deliveries : q = r.queue \ {d}
      BY DEF Retrier
    <2>6. Advance(r, d) = [r EXCEPT !.pc = "next", !.queue = q, !.seen = s, !.cur = {}, !.row = NoRow]
      BY <2>1, <2>4, <2>5
    <2>7. /\ Advance(r, d) \in Retrier /\ Advance(r, d).pc = "next"
          /\ Advance(r, d).queue = q /\ Advance(r, d).cur = {} /\ Advance(r, d).seen = s
      BY <2>6, ConstantRows DEF Retrier
    <2> QED
      BY <2>3, <2>4, <2>5, <2>7
  <1> QED
    BY <1>1, <1>2

-----------------------------------------------------------------------------
\* The initial state has the types.
LEMMA TypeInit == Init => TypeInv
  <1> SUFFICES ASSUME Init PROVE TypeInv
    OBVIOUS
  <1>1. NewCall \in Call /\ \A h \in Hooks : NewCall.rows[h] = NoRow
    BY ConstantRows DEF NewCall, Call
  <1>2. IdleRetrier \in Retrier /\ IdleRetrier.pc = "idle"
    BY ConstantRows DEF IdleRetrier, Retrier
  <1>3. TypeOK
    BY <1>1, <1>2, ConstantRows, WebhookConstants DEF Init, TypeOK
  <1>4. InHandInv
    BY <1>1, <1>2, ConstantRows DEF Init, InHandInv
  <1> QED
    BY <1>3, <1>4 DEF TypeInv

\* The history variables keep their types when a request is made.
LEMMA RequestedType ==
  ASSUME posts \in [Deliveries -> Nat], since \in [Deliveries -> Nat],
         NEW d \in Deliveries, NEW o \in Outcomes, Requested(d, o)
  PROVE  posts' \in [Deliveries -> Nat] /\ since' \in [Deliveries -> Nat]
  BY DEF Requested

\* Types are preserved by every step.
LEMMA TypeStep == TypeInv /\ [Next]_vars => TypeInv'
  <1> SUFFICES ASSUME TypeInv, [Next]_vars PROVE TypeInv'
    OBVIOUS
  <1>0. /\ TypeOK /\ InHandInv
        /\ NewCall \in Call /\ (\A h \in Hooks : NewCall.rows[h] = NoRow)
        /\ IdleRetrier \in Retrier /\ IdleRetrier.pc = "idle"
    BY ConstantRows DEF TypeInv, NewCall, Call, IdleRetrier, Retrier
  <1>1. ASSUME NEW h \in Hooks, CreateWebhook(h) \/ DeleteWebhook(h) PROVE TypeInv'
    BY <1>0, <1>1 DEF TypeInv, TypeOK, InHandInv, CreateWebhook, DeleteWebhook
  <1>2. ASSUME NEW k \in Calls, StartDispatch(k) PROVE TypeInv'
    <2>1. PICK T \in SUBSET Hooks, p \in {"done", "fanout"} :
            call' = [call EXCEPT ![k].pc = p, ![k].todo = T]
      BY <1>2, <1>0, WebhookConstants DEF StartDispatch, TypeOK
    <2>2. call[k] \in Call
      BY <1>0 DEF TypeOK
    <2>3. [call[k] EXCEPT !.pc = p, !.todo = T] \in Call
      BY <2>2 DEF Call
    <2>4. call' = [call EXCEPT ![k] = [call[k] EXCEPT !.pc = p, !.todo = T]]
      BY <2>1, <1>0 DEF TypeOK
    <2>5. call' \in [Calls -> Call]
      BY <2>3, <2>4, <1>0 DEF TypeOK
    <2>6. [call[k] EXCEPT !.pc = p, !.todo = T].rows = call[k].rows
      BY <2>2 DEF Call
    <2>7. \A j \in Calls : call'[j].rows = call[j].rows
      BY <2>4, <2>6, <1>0 DEF TypeOK
    <2> QED
      BY <2>5, <2>7, <1>0, <1>2 DEF StartDispatch, TypeInv, TypeOK, InHandInv
  <1>3. ASSUME NEW k \in Calls, NEW h \in Hooks, Deliver(k, h) PROVE TypeInv'
    <2>1. PICK o \in Outcomes :
            /\ call' = [call EXCEPT ![k].todo = @ \ {h}, ![k].rows[h] = AfterAttempt(NewRow, o)]
            /\ Requested(<<k, h>>, o)
      BY <1>3 DEF Deliver
    <2>2. call[k] \in Call
      BY <1>0 DEF TypeOK
    <2>3. AfterAttempt(NewRow, o) \in Row /\ AfterAttempt(NewRow, o).status = o
      BY ConstantRows, AfterAttemptRow
    <2>4. ASSUME NEW r \in Row, NEW T \in SUBSET Hooks
          PROVE  [call[k] EXCEPT !.todo = T, !.rows = [call[k].rows EXCEPT ![h] = r]] \in Call
      BY <2>2 DEF Call
    <2>5. call' = [call EXCEPT ![k] =
                     [call[k] EXCEPT !.todo = call[k].todo \ {h},
                                     !.rows = [call[k].rows EXCEPT ![h] = AfterAttempt(NewRow, o)]]]
      BY <2>1, <2>2, <1>0 DEF TypeOK, Call
    <2>6. call[k].todo \ {h} \in SUBSET Hooks
      BY <2>2 DEF Call
    <2>7. call' \in [Calls -> Call]
      BY <2>3, <2>4, <2>5, <2>6, <1>0 DEF TypeOK
    <2>8. \A j \in Calls, g \in Hooks :
            call'[j].rows[g] = IF j = k /\ g = h THEN AfterAttempt(NewRow, o) ELSE call[j].rows[g]
      <3>1. call'[k].rows = [call[k].rows EXCEPT ![h] = AfterAttempt(NewRow, o)]
        BY <2>5, <2>2, <1>0 DEF TypeOK, Call
      <3>2. call[k].rows \in [Hooks -> Row]
        BY <2>2 DEF Call
      <3>3. \A j \in Calls : j # k => call'[j] = call[j]
        BY <2>5, <1>0 DEF TypeOK
      <3> QED
        BY <3>1, <3>2, <3>3
    <2>9. \A j \in Calls, g \in Hooks : call'[j].rows[g].status # "pending"
      BY <2>8, <2>3, <1>0 DEF InHandInv, Outcomes
    <2>10. posts' \in [Deliveries -> Nat] /\ since' \in [Deliveries -> Nat]
      BY <2>1, <1>0, RequestedType DEF TypeOK, Deliveries
    <2> QED
      BY <2>7, <2>9, <2>10, <1>0, <1>3 DEF Deliver, TypeInv, TypeOK, InHandInv
  <1>4. ASSUME NEW k \in Calls, CommitDispatch(k) PROVE TypeInv'
    <2>1. call[k] \in Call /\ call[k].rows \in [Hooks -> Row]
      BY <1>0 DEF TypeOK, Call
    <2>2. [NewCall EXCEPT !.pc = "done"] \in Call /\ [NewCall EXCEPT !.pc = "done"].rows = NewCall.rows
      BY <1>0 DEF Call
    <2>3. call' \in [Calls -> Call] /\ \A j \in Calls, g \in Hooks : call'[j].rows[g].status # "pending"
      BY <2>2, <1>0, <1>4, ConstantRows DEF CommitDispatch, TypeOK, InHandInv
    <2>4. \A d \in Deliveries : d[2] \in Hooks
      BY DEF Deliveries
    <2>5. log' \in [Deliveries -> Row]
      BY <2>1, <2>4, <1>0, <1>4 DEF CommitDispatch, TypeOK
    <2>6. \A d \in Deliveries : log'[d].status # "pending"
      BY <2>4, <1>0, <1>4 DEF CommitDispatch, TypeOK, InHandInv
    <2> QED
      BY <2>3, <2>5, <2>6, <1>0, <1>4 DEF CommitDispatch, TypeInv, TypeOK, InHandInv
  <1>5. ASSUME NEW k \in Calls, CrashDispatch(k) PROVE TypeInv'
    <2>1. call' \in [Calls -> Call] /\ \A j \in Calls, g \in Hooks : call'[j].rows[g].status # "pending"
      BY <1>0, <1>5, ConstantRows DEF CrashDispatch, TypeOK, InHandInv
    <2>2. lost' \in [Deliveries -> Nat]
      BY <1>0, <1>5 DEF CrashDispatch, TypeOK
    <2>3. crashes' \in 0 .. MaxCrashes
      BY <1>0, <1>5, WebhookConstants DEF CrashDispatch, TypeOK
    <2> QED
      BY <2>1, <2>2, <2>3, <1>0, <1>5 DEF CrashDispatch, TypeInv, TypeOK, InHandInv
  <1>6. ASSUME NEW w \in Retriers, Scan(w) PROVE TypeInv'
    <2>1. PICK S \in SUBSET {d \in Deliveries : Due(d)} :
            /\ retrier' = [retrier EXCEPT ![w] =
                        [pc |-> "next", queue |-> S, cur |-> {}, row |-> NoRow,
                         seen |-> [d \in Deliveries |-> IF d \in S THEN log[d].attempt ELSE 0]]]
            /\ shared' = shared \union {d \in S : \E v \in Retriers : d \in retrier[v].queue}
      BY <1>6 DEF Scan
    <2>2. [d \in Deliveries |-> IF d \in S THEN log[d].attempt ELSE 0] \in [Deliveries -> Nat]
      BY <1>0 DEF TypeOK, Row
    <2>3. retrier' \in [Retriers -> Retrier] /\ retrier'[w].pc = "next"
      BY <2>1, <2>2, <1>0, ConstantRows DEF TypeOK, Retrier
    <2>4. \A v \in Retriers : v # w => retrier'[v] = retrier[v]
      BY <2>1, <1>0 DEF TypeOK
    <2>5. shared' \subseteq Deliveries
      BY <2>1, <1>0 DEF TypeOK
    <2> QED
      BY <2>3, <2>4, <2>5, <1>0, <1>6 DEF Scan, TypeInv, TypeOK, InHandInv
  <1>7. ASSUME NEW w \in Retriers, NEW d \in Deliveries, SkipInactive(w, d) PROVE TypeInv'
    <2>1. retrier[w] \in Retrier
      BY <1>0 DEF TypeOK
    <2>2. retrier' \in [Retriers -> Retrier] /\ retrier'[w].pc \in {"idle", "next"}
      BY <2>1, <1>0, <1>7, AdvanceType DEF SkipInactive, TypeOK
    <2>3. \A v \in Retriers : v # w => retrier'[v] = retrier[v]
      BY <1>0, <1>7 DEF TypeOK, SkipInactive
    <2> QED
      BY <2>2, <2>3, <1>0, <1>7 DEF SkipInactive, TypeInv, TypeOK, InHandInv
  <1>8. ASSUME NEW w \in Retriers, NEW d \in Deliveries, LoadFresh(w, d) PROVE TypeInv'
    <2>1. retrier[w] \in Retrier /\ log[d] \in Row
      BY <1>0 DEF TypeOK
    <2>2. ASSUME NEW n \in Nat
          PROVE  LET q == [log[d] EXCEPT !.attempt = n + 1] IN q \in Row /\ q.attempt >= 1
      BY <2>1 DEF Row
    <2>3. retrier[w].seen[d] \in Nat
      BY <2>1 DEF Retrier
    <2>4. ASSUME NEW q \in Row
          PROVE  LET r == [retrier[w] EXCEPT !.pc = "loaded", !.cur = {d}, !.row = q]
                 IN  r \in Retrier /\ r.pc = "loaded" /\ r.row = q
      BY <2>1 DEF Retrier
    <2>5. retrier' = [retrier EXCEPT ![w] =
                        [retrier[w] EXCEPT !.pc = "loaded", !.cur = {d},
                           !.row = [log[d] EXCEPT !.attempt = retrier[w].seen[d] + 1]]]
      BY <1>0, <1>8 DEF LoadFresh, TypeOK
    <2>6. retrier' \in [Retriers -> Retrier] /\ retrier'[w].pc = "loaded" /\ retrier'[w].row.attempt >= 1
      BY <2>2, <2>3, <2>4, <2>5, <1>0 DEF TypeOK
    <2>7. \A v \in Retriers : v # w => retrier'[v] = retrier[v]
      BY <2>5, <1>0 DEF TypeOK
    <2> QED
      BY <2>6, <2>7, <1>0, <1>8 DEF LoadFresh, TypeInv, TypeOK, InHandInv
  <1>9. ASSUME NEW w \in Retriers, NEW d \in Deliveries, Attempt(w, d) PROVE TypeInv'
    <2>1. PICK o \in Outcomes :
            /\ retrier' = [retrier EXCEPT ![w].pc = "posted", ![w].row = AfterAttempt(@, o)]
            /\ Requested(d, o)
      BY <1>9 DEF Attempt
    <2>2. retrier[w] \in Retrier /\ retrier[w].row \in Row /\ retrier[w].row.attempt >= 1
      BY <1>0, <1>9 DEF TypeOK, Retrier, InHandInv, Attempt
    <2>3. AfterAttempt(retrier[w].row, o) \in Row /\ AfterAttempt(retrier[w].row, o).status = o
      BY <2>2, AfterAttemptRow
    <2>4. ASSUME NEW q \in Row
          PROVE  LET r == [retrier[w] EXCEPT !.pc = "posted", !.row = q]
                 IN  r \in Retrier /\ r.pc = "posted" /\ r.row = q
      BY <2>2 DEF Retrier
    <2>5. retrier' = [retrier EXCEPT ![w] =
                        [retrier[w] EXCEPT !.pc = "posted", !.row = AfterAttempt(retrier[w].row, o)]]
      BY <2>1, <1>0 DEF TypeOK
    <2>6. retrier' \in [Retriers -> Retrier] /\ retrier'[w].pc = "posted" /\ retrier'[w].row.status = o
      BY <2>3, <2>4, <2>5, <1>0 DEF TypeOK
    <2>7. \A v \in Retriers : v # w => retrier'[v] = retrier[v]
      BY <2>5, <1>0 DEF TypeOK
    <2>8. posts' \in [Deliveries -> Nat] /\ since' \in [Deliveries -> Nat]
      BY <2>1, <1>0, RequestedType DEF TypeOK
    <2> QED
      BY <2>6, <2>7, <2>8, <1>0, <1>9 DEF Attempt, TypeInv, TypeOK, InHandInv
  <1>10. ASSUME NEW w \in Retriers, NEW d \in Deliveries, CommitRetry(w, d) PROVE TypeInv'
    <2>1. retrier[w] \in Retrier /\ retrier[w].row \in Row /\ retrier[w].row.status # "pending"
      BY <1>0, <1>10 DEF TypeOK, Retrier, CommitRetry, InHandInv, Outcomes
    <2>2. retrier' \in [Retriers -> Retrier] /\ retrier'[w].pc \in {"idle", "next"}
      BY <2>1, <1>0, <1>10, AdvanceType DEF CommitRetry, TypeOK
    <2>3. \A v \in Retriers : v # w => retrier'[v] = retrier[v]
      BY <1>0, <1>10 DEF TypeOK, CommitRetry
    <2>4. log' \in [Deliveries -> Row] /\ \A e \in Deliveries : log'[e].status # "pending"
      BY <2>1, <1>0, <1>10 DEF TypeOK, CommitRetry
    <2> QED
      BY <2>2, <2>3, <2>4, <1>0, <1>10 DEF CommitRetry, TypeInv, TypeOK, InHandInv
  <1>11. ASSUME NEW w \in Retriers, CrashRetrier(w) PROVE TypeInv'
    <2>1. retrier' \in [Retriers -> Retrier] /\ retrier'[w].pc = "idle"
      BY <1>0, <1>11 DEF CrashRetrier, TypeOK
    <2>2. \A v \in Retriers : v # w => retrier'[v] = retrier[v]
      BY <1>0, <1>11 DEF TypeOK, CrashRetrier
    <2>3. lost' \in [Deliveries -> Nat]
      BY <1>0, <1>11 DEF CrashRetrier, TypeOK
    <2>4. crashes' \in 0 .. MaxCrashes
      BY <1>0, <1>11, WebhookConstants DEF CrashRetrier, TypeOK
    <2> QED
      BY <2>1, <2>2, <2>3, <2>4, <1>0, <1>11 DEF CrashRetrier, TypeInv, TypeOK, InHandInv
  <1>12. ASSUME Tick PROVE TypeInv'
    <2>1. log' \in [Deliveries -> Row] /\ \A d \in Deliveries : log'[d].status # "pending"
      BY <1>0, <1>12, CloserRow DEF Tick, TypeOK
    <2>2. ASSUME NEW k \in Calls
          PROVE  /\ call'[k] \in Call
                 /\ \A h \in Hooks : call'[k].rows[h].status # "pending"
      <3>1. call[k] \in Call /\ call[k].rows \in [Hooks -> Row]
        BY <1>0 DEF TypeOK, Call
      <3>2. [h \in Hooks |-> Closer(call[k].rows[h])] \in [Hooks -> Row]
        BY <3>1, CloserRow
      <3>3. ASSUME NEW f \in [Hooks -> Row]
            PROVE  LET c == [call[k] EXCEPT !.rows = f] IN c \in Call /\ c.rows = f
        BY <3>1 DEF Call
      <3>4. call'[k] = [call[k] EXCEPT !.rows = [h \in Hooks |-> Closer(call[k].rows[h])]]
        BY <1>12 DEF Tick
      <3>5. call'[k] \in Call /\ call'[k].rows = [h \in Hooks |-> Closer(call[k].rows[h])]
        BY <3>2, <3>3, <3>4
      <3> QED
        BY <3>1, <3>5, <1>0, CloserRow DEF InHandInv
    <2>3. call' \in [Calls -> Call]
      BY <2>2, <1>12 DEF Tick
    <2>4. ASSUME NEW w \in Retriers
          PROVE  /\ retrier'[w] \in Retrier
                 /\ retrier'[w].pc = retrier[w].pc
                 /\ retrier'[w].row = Closer(retrier[w].row)
                 /\ retrier[w].row \in Row
      <3>1. retrier[w] \in Retrier /\ retrier[w].row \in Row
        BY <1>0 DEF TypeOK, Retrier
      <3>2. ASSUME NEW q \in Row
            PROVE  LET r == [retrier[w] EXCEPT !.row = q]
                   IN  r \in Retrier /\ r.row = q /\ r.pc = retrier[w].pc
        BY <3>1 DEF Retrier
      <3>3. retrier'[w] = [retrier[w] EXCEPT !.row = Closer(retrier[w].row)]
        BY <1>12 DEF Tick
      <3> QED
        BY <3>1, <3>2, <3>3, CloserRow
    <2>5. retrier' \in [Retriers -> Retrier]
      BY <2>4, <1>12 DEF Tick
    <2>6. InHandInv'
      BY <2>2, <2>4, <1>0, CloserRow DEF InHandInv
    <2>7. since' \in [Deliveries -> Nat]
      BY <1>0, <1>12 DEF Tick, TypeOK
    <2> QED
      BY <2>1, <2>3, <2>5, <2>6, <2>7, <1>0, <1>12 DEF Tick, TypeInv, TypeOK
  <1>13. CASE UNCHANGED vars
    BY <1>0, <1>13 DEF vars, TypeInv, TypeOK, InHandInv
  <1> QED
    BY <1>1, <1>2, <1>3, <1>4, <1>5, <1>6, <1>7, <1>8, <1>9, <1>10, <1>11, <1>12, <1>13
    DEF Next, DispatchStep, RetryStep

\* Rows, handler calls and retry jobs keep their types, and no reader of the
\* delivery log ever sees the status pending that _deliver creates a row with.
THEOREM TypeCorrect == Spec => []TypeOK
  <1>1. TypeInv => TypeOK
    BY DEF TypeInv
  <1> QED
    BY TypeInit, TypeStep, <1>1, PTL DEF Spec

-----------------------------------------------------------------------------
(***************************************************************************)
(* The invariant accounts for every request: before the fan-out has        *)
(* committed it is in the call's open transaction, afterwards              *)
(* attempt_number counts it, but for one request a retry job may have in   *)
(* flight and those that a crash forgot.  A row in the queue of a retry    *)
(* job is still what the scan saw, unless a second job has held it too.    *)
(***************************************************************************)
Single == Deliveries \ shared

\* Only rows of committed calls exist and are scanned, and two jobs hold one
\* row only if the history says so.
BaseInv ==
  /\ \A d \in Deliveries : call[d[1]].pc # "done" => log[d] = NoRow
  /\ \A w \in Retriers :
       /\ retrier[w].cur \subseteq retrier[w].queue
       /\ \A d \in retrier[w].queue : call[d[1]].pc = "done"
  /\ \A v, w \in Retriers : \A d \in retrier[v].queue :
       d \in retrier[w].queue => v = w \/ d \in shared

Made(row) == IF row.status \in {"delivered", "failed"} THEN 1 ELSE 0

InFlight(d) ==
  \E w \in Retriers : /\ retrier[w].pc = "posted"
                      /\ d \in retrier[w].cur
                      /\ retrier[w].row.status # "rate_limited"

Extra(d) == IF InFlight(d) THEN 1 ELSE 0

\* Webhook h of call c, its committed row l, p requests, x of them forgotten
\* and e in flight.
Sound(c, h, l, p, x, e) ==
  /\ c.rows[h] = NoRow \/ (c.rows[h].status \in Outcomes /\ c.rows[h].attempt = 1)
  /\ (c.pc # "fanout" \/ h \in c.todo) => c.rows[h] = NoRow
  /\ c.pc # "done" => l = NoRow /\ p <= Made(c.rows[h]) + x
  /\ c.pc = "done" => p <= l.attempt + e + x
  /\ l.attempt <= AttemptLimit

\* Retry job r against the committed rows lg, those of X set aside.
RetrierSound(r, lg, X) ==
  /\ \A d \in r.queue \ X : /\ lg[d].status = "failed"
                            /\ lg[d].attempt < MaxAttempts
                            /\ r.seen[d] = lg[d].attempt
  /\ r.pc \in {"loaded", "posted"} => \A d \in r.cur \ X : r.row.attempt = lg[d].attempt + 1

DeliveryInv ==
  /\ BaseInv
  /\ \A d \in Single :
       Sound(call[d[1]], d[2], log[d], posts[d], lost[d], Extra(d))
  /\ \A w \in Retriers : RetrierSound(retrier[w], log, shared)

\* An entry of the queue belongs to a call that has committed.
LEMMA QueuedIsCommitted ==
  ASSUME TypeInv, BaseInv, NEW w \in Retriers, NEW d \in retrier[w].queue
  PROVE  /\ d \in Deliveries /\ d[1] \in Calls /\ d[2] \in Hooks
         /\ call[d[1]].pc = "done"
  BY DEF TypeInv, TypeOK, Retrier, BaseInv, Deliveries

\* A call in its fan-out has no committed row yet.
LEMMA OpenCallHasNoRow ==
  ASSUME TypeInv, BaseInv, NEW d \in Deliveries, call[d[1]].pc # "done"
  PROVE  /\ log[d] = NoRow
         /\ \A w \in Retriers : d \notin retrier[w].queue /\ d \notin retrier[w].cur
  BY DEF BaseInv

\* What a job holds nobody else does, unless the history says so.
LEMMA OnlyHolder ==
  ASSUME BaseInv, NEW w \in Retriers, NEW d \in retrier[w].queue, d \notin shared
  PROVE  \A v \in Retriers : v # w => d \notin retrier[v].queue /\ d \notin retrier[v].cur
  BY DEF BaseInv

\* A row that is due belongs to a call that has committed.
LEMMA DueIsCommitted ==
  ASSUME BaseInv, NEW d \in Deliveries, Due(d)
  PROVE  call[d[1]].pc = "done"
  BY DEF BaseInv, Due, NoRow

\* A step of a job that neither ends nor starts a request changes nothing in
\* flight.
LEMMA FlightKept ==
  ASSUME NEW w \in Retriers, \A v \in Retriers : v # w => retrier'[v] = retrier[v],
         retrier[w].pc # "posted", retrier'[w].pc # "posted"
  PROVE  \A d \in Deliveries : InFlight(d)' = InFlight(d) /\ Extra(d)' = Extra(d)
  <1>1. ASSUME NEW d \in Deliveries PROVE InFlight(d)' = InFlight(d)
    BY DEF InFlight
  <1> QED
    BY <1>1 DEF Extra

\* The base is preserved by every step.
LEMMA BaseStep ==
  ASSUME TypeInv, BaseInv, [Next]_vars
  PROVE  BaseInv' /\ shared \subseteq shared'
  <1>0. /\ call \in [Calls -> Call] /\ log \in [Deliveries -> Row]
        /\ retrier \in [Retriers -> Retrier]
        /\ \A d \in Deliveries : d[1] \in Calls /\ d[2] \in Hooks
        /\ \A w \in Retriers : retrier[w].queue \subseteq Deliveries
    BY DEF TypeInv, TypeOK, Deliveries, Retrier
  <1>1. ASSUME NEW h \in Hooks, CreateWebhook(h) \/ DeleteWebhook(h)
        PROVE  BaseInv' /\ shared \subseteq shared'
    BY <1>1 DEF BaseInv, CreateWebhook, DeleteWebhook
  <1>2. ASSUME NEW k \in Calls, call[k].pc # "done", UNCHANGED <<log, retrier, shared>>,
               \A j \in Calls : j # k => call'[j] = call[j]
        PROVE  BaseInv' /\ shared \subseteq shared'
    <2>1. \A w \in Retriers : \A d \in retrier[w].queue : d[1] # k
      BY <1>2 DEF BaseInv
    <2>2. \A d \in Deliveries : call'[d[1]].pc # "done" => log[d] = NoRow
      BY <1>0, <1>2 DEF BaseInv
    <2>3. \A w \in Retriers : \A d \in retrier[w].queue : call'[d[1]].pc = "done"
      BY <1>0, <1>2, <2>1 DEF BaseInv
    <2> QED
      BY <1>2, <2>2, <2>3 DEF BaseInv
  <1>3. ASSUME NEW k \in Calls, StartDispatch(k) PROVE BaseInv' /\ shared \subseteq shared'
    <2>1. PICK c : call' = [call EXCEPT ![k] = c]
      BY <1>3, Zenon DEF StartDispatch
    <2>2. \A j \in Calls : j # k => call'[j] = call[j]
      BY <2>1, <1>0
    <2> QED
      BY <1>2, <1>3, <2>2 DEF StartDispatch
  <1>4. ASSUME NEW k \in Calls, NEW h \in Hooks, Deliver(k, h)
        PROVE  BaseInv' /\ shared \subseteq shared'
    <2>1. PICK o \in Outcomes :
            call' = [call EXCEPT ![k].todo = @ \ {h}, ![k].rows[h] = AfterAttempt(NewRow, o)]
      BY <1>4 DEF Deliver
    <2>2. \A j \in Calls : j # k => call'[j] = call[j]
      BY <2>1, <1>0
    <2> QED
      BY <1>2, <1>4, <2>2 DEF Deliver
  <1>5. ASSUME NEW k \in Calls, CommitDispatch(k) PROVE BaseInv' /\ shared \subseteq shared'
    <2>1. /\ call'[k].pc = "done" /\ \A j \in Calls : j # k => call'[j] = call[j]
          /\ UNCHANGED <<retrier, shared>> /\ call[k].pc # "done"
      BY <1>5, <1>0 DEF CommitDispatch, NewCall
    <2>2. \A d \in Deliveries : d[1] # k => log'[d] = log[d]
      BY <1>5 DEF CommitDispatch
    <2>3. \A d \in Deliveries : call'[d[1]].pc # "done" => log'[d] = NoRow
      BY <1>0, <2>1, <2>2 DEF BaseInv
    <2>4. \A w \in Retriers : \A d \in retrier[w].queue : call'[d[1]].pc = "done"
      BY <1>0, <2>1 DEF BaseInv
    <2> QED
      BY <2>1, <2>3, <2>4 DEF BaseInv
  <1>6. ASSUME NEW k \in Calls, CrashDispatch(k) PROVE BaseInv' /\ shared \subseteq shared'
    <2>1. \A j \in Calls : j # k => call'[j] = call[j]
      BY <1>6, <1>0 DEF CrashDispatch
    <2> QED
      BY <1>2, <1>6, <2>1 DEF CrashDispatch
  <1>7. ASSUME NEW w \in Retriers, UNCHANGED <<call, shared>>,
               \A d \in Deliveries : log'[d] = log[d] \/ call[d[1]].pc = "done",
               \A v \in Retriers : v # w => retrier'[v] = retrier[v],
               retrier'[w].cur \subseteq retrier'[w].queue,
               retrier'[w].queue \subseteq retrier[w].queue
        PROVE  BaseInv' /\ shared \subseteq shared'
    <2>1. \A d \in Deliveries : call[d[1]].pc # "done" => log'[d] = NoRow
      BY <1>7 DEF BaseInv
    <2>2. \A v \in Retriers : /\ retrier'[v].cur \subseteq retrier'[v].queue
                              /\ retrier'[v].queue \subseteq retrier[v].queue
      BY <1>7 DEF BaseInv
    <2> QED
      BY <1>7, <2>1, <2>2 DEF BaseInv
  <1>8. ASSUME NEW w \in Retriers, Scan(w) PROVE BaseInv' /\ shared \subseteq shared'
    <2>1. PICK S \in SUBSET {d \in Deliveries : Due(d)} :
            /\ retrier' = [retrier EXCEPT ![w] =
                        [pc |-> "next", queue |-> S, cur |-> {}, row |-> NoRow,
                         seen |-> [d \in Deliveries |-> IF d \in S THEN log[d].attempt ELSE 0]]]
            /\ shared' = shared \union {d \in S : \E v \in Retriers : d \in retrier[v].queue}
      BY <1>8 DEF Scan
    <2>2. UNCHANGED <<call, log>>
      BY <1>8 DEF Scan
    <2>3. /\ retrier'[w].queue = S /\ retrier'[w].cur = {}
          /\ \A v \in Retriers : v # w => retrier'[v] = retrier[v]
      BY <2>1, <1>0
    <2>4. \A d \in S : call[d[1]].pc = "done"
      BY DueIsCommitted
    <2>5. \A v \in Retriers : /\ retrier'[v].cur \subseteq retrier'[v].queue
                              /\ \A d \in retrier'[v].queue : call[d[1]].pc = "done"
      BY <2>3, <2>4 DEF BaseInv
    <2>6. ASSUME NEW v \in Retriers, NEW u \in Retriers, NEW d \in retrier'[v].queue,
                 d \in retrier'[u].queue, v # u
          PROVE  d \in shared'
      <3>1. CASE v = w
        BY <2>1, <2>3, <2>6, <3>1
      <3>2. CASE u = w
        BY <2>1, <2>3, <2>6, <3>2
      <3>3. CASE v # w /\ u # w
        BY <2>1, <2>3, <2>6, <3>3 DEF BaseInv
      <3> QED
        BY <3>1, <3>2, <3>3
    <2>7. shared \subseteq shared'
      BY <2>1
    <2> HIDE DEF Due
    <2> QED
      BY <2>2, <2>5, <2>6, <2>7 DEF BaseInv
  <1>9. ASSUME NEW w \in Retriers, NEW d \in Deliveries, SkipInactive(w, d)
        PROVE  BaseInv' /\ shared \subseteq shared'
    <2>1. /\ retrier' = [retrier EXCEPT ![w] = Advance(retrier[w], d)]
          /\ UNCHANGED <<call, log, shared>>
      BY <1>9 DEF SkipInactive
    <2>2. Advance(retrier[w], d).queue = retrier[w].queue \ {d} /\ Advance(retrier[w], d).cur = {}
      BY <1>0, AdvanceType
    <2> QED
      BY <1>0, <1>7, <2>1, <2>2
  <1>10. ASSUME NEW w \in Retriers, NEW d \in Deliveries, LoadFresh(w, d)
         PROVE  BaseInv' /\ shared \subseteq shared'
    <2>1. UNCHANGED <<call, log, shared>> /\ d \in retrier[w].queue
      BY <1>10 DEF LoadFresh
    <2>2. /\ retrier'[w].queue = retrier[w].queue /\ retrier'[w].cur = {d}
          /\ \A v \in Retriers : v # w => retrier'[v] = retrier[v]
      BY <1>10, <1>0 DEF LoadFresh, Retrier
    <2> QED
      BY <1>7, <2>1, <2>2
  <1>11. ASSUME NEW w \in Retriers, NEW d \in Deliveries, Attempt(w, d)
         PROVE  BaseInv' /\ shared \subseteq shared'
    <2>1. UNCHANGED <<call, log, shared>>
      BY <1>11 DEF Attempt
    <2>2. PICK o \in Outcomes :
            retrier' = [retrier EXCEPT ![w].pc = "posted", ![w].row = AfterAttempt(@, o)]
      BY <1>11 DEF Attempt
    <2>3. /\ retrier'[w].queue = retrier[w].queue /\ retrier'[w].cur = retrier[w].cur
          /\ \A v \in Retriers : v # w => retrier'[v] = retrier[v]
      BY <2>2, <1>0 DEF Retrier
    <2> QED
      BY <1>7, <2>1, <2>3 DEF BaseInv
  <1>12. ASSUME NEW w \in Retriers, NEW d \in Deliveries, CommitRetry(w, d)
         PROVE  BaseInv' /\ shared \subseteq shared'
    <2>1. /\ retrier' = [retrier EXCEPT ![w] = Advance(retrier[w], d)]
          /\ UNCHANGED <<call, shared>> /\ retrier[w].cur = {d}
          /\ log' = [log EXCEPT ![d] = retrier[w].row]
      BY <1>12 DEF CommitRetry
    <2>2. Advance(retrier[w], d).queue = retrier[w].queue \ {d} /\ Advance(retrier[w], d).cur = {}
      BY <1>0, AdvanceType
    <2>3. call[d[1]].pc = "done"
      BY <2>1 DEF BaseInv
    <2>4. \A e \in Deliveries : log'[e] = log[e] \/ call[e[1]].pc = "done"
      BY <2>1, <2>3, <1>0
    <2> QED
      BY <1>0, <1>7, <2>1, <2>2, <2>4
  <1>13. ASSUME NEW w \in Retriers, CrashRetrier(w) PROVE BaseInv' /\ shared \subseteq shared'
    <2>1. UNCHANGED <<call, log, shared>>
      BY <1>13 DEF CrashRetrier
    <2>2. /\ retrier'[w].queue = {} /\ retrier'[w].cur = {}
          /\ \A v \in Retriers : v # w => retrier'[v] = retrier[v]
      BY <1>13, <1>0 DEF CrashRetrier, IdleRetrier
    <2> QED
      BY <1>7, <2>1, <2>2
  <1>14. ASSUME Tick PROVE BaseInv' /\ shared \subseteq shared'
    <2>1. UNCHANGED shared
      BY <1>14 DEF Tick
    <2>2. \A d \in Deliveries : log[d] = NoRow => log'[d] = NoRow
      BY <1>14, <1>0, CloserRow DEF Tick
    <2>3. ASSUME NEW k \in Calls PROVE call'[k].pc = call[k].pc
      <3>1. call'[k] = [call[k] EXCEPT !.rows = [g \in Hooks |-> Closer(call[k].rows[g])]]
        BY <1>14 DEF Tick
      <3> QED
        BY <3>1, <1>0 DEF Call
    <2>4. ASSUME NEW w \in Retriers
          PROVE  retrier'[w].queue = retrier[w].queue /\ retrier'[w].cur = retrier[w].cur
      <3>1. retrier'[w] = [retrier[w] EXCEPT !.row = Closer(retrier[w].row)]
        BY <1>14 DEF Tick
      <3> QED
        BY <3>1, <1>0 DEF Retrier
    <2>5. \A d \in Deliveries : call'[d[1]].pc = call[d[1]].pc
      BY <2>3, <1>0
    <2>6. \A w \in Retriers : \A d \in retrier[w].queue : call'[d[1]].pc = "done"
      BY <2>5, <1>0 DEF BaseInv
    <2> QED
      BY <2>1, <2>2, <2>4, <2>5, <2>6 DEF BaseInv
  <1>15. CASE UNCHANGED vars
    BY <1>15 DEF vars, BaseInv
  <1> QED
    BY <1>1, <1>3, <1>4, <1>5, <1>6, <1>8, <1>9, <1>10, <1>11, <1>12, <1>13, <1>14, <1>15
    DEF Next, DispatchStep, RetryStep

\* The attempt limit is a positive number.
LEMMA LimitFacts == AttemptLimit \in Nat /\ AttemptLimit >= 1 /\ MaxAttempts <= AttemptLimit /\ MaxAttempts \in Nat
  BY WebhookConstants DEF AttemptLimit

\* At most one request of a delivery is in flight and uncommitted.
LEMMA ExtraFacts == \A d \in Deliveries : Extra(d) \in {0, 1}
  BY DEF Extra

\* The delivery invariant holds initially.
LEMMA DeliveryInit == Init => DeliveryInv
  <1> SUFFICES ASSUME Init PROVE DeliveryInv
    OBVIOUS
  <1>1. ASSUME NEW d \in Deliveries
        PROVE  log[d] = NoRow /\ Sound(call[d[1]], d[2], log[d], posts[d], lost[d], Extra(d))
    <2>1. d[1] \in Calls /\ d[2] \in Hooks
      BY DEF Deliveries
    <2>2. call[d[1]].pc = "new" /\ call[d[1]].rows[d[2]] = NoRow
      BY <2>1 DEF Init, NewCall
    <2>3. log[d] = NoRow /\ posts[d] = 0 /\ lost[d] = 0
      BY DEF Init
    <2>4. Made(NoRow) = 0
      BY DEF Made, NoRow
    <2> QED
      BY <2>2, <2>3, <2>4, LimitFacts, ConstantRows DEF Sound
  <1>2. ASSUME NEW w \in Retriers 
        PROVE RetrierSound(retrier[w], log, shared) /\ retrier[w].queue = {} /\ retrier[w].cur = {}
    <2>1. retrier[w] = IdleRetrier
      BY DEF Init
    <2> QED
      BY <2>1 DEF RetrierSound, IdleRetrier
  <1>3. BaseInv
    BY <1>1, <1>2 DEF BaseInv
  <1> QED
    BY <1>1, <1>2, <1>3 DEF DeliveryInv, Single

\* The delivery invariant is preserved by every step.
LEMMA DeliveryStep ==
  ASSUME TypeInv, DeliveryInv, [Next]_vars
  PROVE  DeliveryInv'
  <1>0. /\ TypeOK /\ TypeInv'
        /\ \A d \in Deliveries : /\ d[1] \in Calls /\ d[2] \in Hooks
                                 /\ posts[d] \in Nat /\ lost[d] \in Nat
                                 /\ log[d] \in Row /\ log[d].attempt \in Nat
        /\ \A d \in Single : Sound(call[d[1]], d[2], log[d], posts[d], lost[d], Extra(d))
        /\ \A w \in Retriers : /\ RetrierSound(retrier[w], log, shared) /\ retrier[w] \in Retrier
                               /\ retrier[w].queue \subseteq Deliveries
        /\ \A k \in Calls : call[k] \in Call /\ call[k].rows \in [Hooks -> Row]
        /\ BaseInv /\ BaseInv' /\ Single \subseteq Deliveries /\ Single' \subseteq Single
    BY TypeStep, BaseStep DEF TypeInv, TypeOK, Deliveries, DeliveryInv, Row, Call, Retrier, Single
  <1>1. ASSUME NEW h \in Hooks, CreateWebhook(h) \/ DeleteWebhook(h) PROVE DeliveryInv'
    BY <1>0, <1>1 DEF DeliveryInv, Extra, InFlight, CreateWebhook, DeleteWebhook
  <1>2. ASSUME NEW k \in Calls, StartDispatch(k) PROVE DeliveryInv'
    <2>1. PICK T \in SUBSET Hooks, p \in {"done", "fanout"} :
            call' = [call EXCEPT ![k].pc = p, ![k].todo = T]
      BY <1>2, <1>0, WebhookConstants DEF StartDispatch
    <2>2. /\ call'[k].pc = p /\ call'[k].rows = call[k].rows
          /\ \A j \in Calls : j # k => call'[j] = call[j]
      BY <2>1, <1>0 DEF TypeOK, Call
    <2>3. UNCHANGED <<log, retrier, posts, lost, shared>> /\ call[k].pc = "new"
      BY <1>2 DEF StartDispatch
    <2>4. \A d \in Deliveries : Extra(d)' = Extra(d)
      BY <2>3 DEF Extra, InFlight
    <2>5. ASSUME NEW d \in Deliveries, d \in Single
          PROVE  Sound(call[d[1]], d[2], log[d], posts[d], lost[d], Extra(d))'
      <3>1. CASE d[1] = k
        <4>1. call[k].rows[d[2]] = NoRow /\ log[d] = NoRow /\ posts[d] <= Made(NoRow) + lost[d]
          BY <2>5, <3>1, <2>3, <1>0 DEF Sound
        <4>2. Made(NoRow) = 0
          BY DEF Made, NoRow
        <4>3. posts[d] <= log[d].attempt + Extra(d) + lost[d]
          BY <4>1, <4>2, <1>0, ExtraFacts, ConstantRows
        <4> QED
          BY <3>1, <2>2, <2>3, <2>4, <4>1, <4>3, LimitFacts, ConstantRows DEF Sound
      <3>2. CASE d[1] # k
        BY <2>5, <3>2, <2>2, <2>3, <2>4, <1>0
      <3> QED
        BY <3>1, <3>2
    <2> QED
      BY <2>3, <2>5, <1>0 DEF DeliveryInv
  <1>3. ASSUME NEW k \in Calls, NEW h \in Hooks, Deliver(k, h) PROVE DeliveryInv'
    <2>1. PICK o \in Outcomes :
            /\ call' = [call EXCEPT ![k].todo = @ \ {h}, ![k].rows[h] = AfterAttempt(NewRow, o)]
            /\ Requested(<<k, h>>, o)
      BY <1>3 DEF Deliver
    <2>2. PICK r \in Row : r = AfterAttempt(NewRow, o) /\ r.status = o /\ r.attempt = 1
      BY ConstantRows, AfterAttemptRow
    <2>3. /\ call'[k].pc = call[k].pc /\ call'[k].todo = call[k].todo \ {h}
          /\ call'[k].rows = [call[k].rows EXCEPT ![h] = r]
          /\ \A j \in Calls : j # k => call'[j] = call[j]
      BY <2>1, <2>2, <1>0 DEF TypeOK, Call
    <2>4. UNCHANGED <<log, retrier, lost, shared>> /\ call[k].pc = "fanout" /\ h \in call[k].todo
      BY <1>3 DEF Deliver
    <2>5. \A d \in Deliveries : Extra(d)' = Extra(d)
      BY <2>4 DEF Extra, InFlight
    <2>6. ASSUME NEW d \in Deliveries, d \in Single
          PROVE  Sound(call[d[1]], d[2], log[d], posts[d], lost[d], Extra(d))'
      <3>1. CASE d = <<k, h>>
        <4>1. call[k].rows[h] = NoRow /\ log[d] = NoRow /\ posts[d] <= Made(NoRow) + lost[d]
          BY <2>6, <3>1, <2>4, <1>0 DEF Sound
        <4>2. Made(NoRow) = 0 /\ Made(r) = IF o = "rate_limited" THEN 0 ELSE 1
          BY <2>2 DEF Made, NoRow, Outcomes
        <4>3. posts'[d] = IF o = "rate_limited" THEN posts[d] ELSE posts[d] + 1
          BY <2>1, <3>1, <1>0 DEF Requested, TypeOK
        <4>4. call'[k].rows[h] = r
          BY <2>3, <1>0
        <4>5. posts'[d] <= Made(r) + lost[d]
          BY <4>1, <4>2, <4>3, <1>0
        <4> QED
          BY <3>1, <2>2, <2>3, <2>4, <4>1, <4>4, <4>5, LimitFacts, ConstantRows DEF Sound
      <3>2. CASE d # <<k, h>>
        <4>1. posts'[d] = posts[d]
          BY <2>1, <3>2, <1>0 DEF Requested, TypeOK
        <4>2. d[1] = k => d[2] # h
          BY <3>2 DEF Deliveries
        <4>3. CASE d[1] = k
          <5>1. call'[k].rows[d[2]] = call[k].rows[d[2]]
            BY <4>2, <4>3, <2>3, <1>0
          <5>2. Sound(call[k], d[2], log[d], posts[d], lost[d], Extra(d))
            BY <2>6, <4>3, <1>0
          <5> QED
            BY <4>1, <4>3, <5>1, <5>2, <2>3, <2>4, <2>5 DEF Sound
        <4>4. CASE d[1] # k
          BY <2>6, <4>1, <4>4, <2>3, <2>4, <2>5, <1>0
        <4> QED
          BY <4>3, <4>4
      <3> QED
        BY <3>1, <3>2
    <2> QED
      BY <2>4, <2>6, <1>0 DEF DeliveryInv
  <1>4. ASSUME NEW k \in Calls, CommitDispatch(k) PROVE DeliveryInv'
    <2>1. /\ call'[k].pc = "done" /\ call'[k].rows = [g \in Hooks |-> NoRow]
          /\ \A j \in Calls : j # k => call'[j] = call[j]
      BY <1>4, <1>0 DEF CommitDispatch, TypeOK, NewCall
    <2>2. UNCHANGED <<retrier, posts, lost, shared>> /\ call[k].pc = "fanout" /\ call[k].todo = {}
      BY <1>4 DEF CommitDispatch
    <2>3. \A d \in Deliveries : Extra(d)' = Extra(d)
      BY <2>2 DEF Extra, InFlight
    <2>4. \A d \in Deliveries :
            log'[d] = IF d[1] = k /\ call[k].rows[d[2]] # NoRow THEN call[k].rows[d[2]] ELSE log[d]
      BY <1>4 DEF CommitDispatch
    <2>5. ASSUME NEW d \in Deliveries, d \in Single
          PROVE  Sound(call[d[1]], d[2], log[d], posts[d], lost[d], Extra(d))'
      <3>1. CASE d[1] = k
        <4>1. PICK r \in Row : r = call[k].rows[d[2]]
          BY <1>0
        <4>2. /\ r = NoRow \/ (r.status \in Outcomes /\ r.attempt = 1)
              /\ log[d] = NoRow
              /\ posts[d] <= Made(r) + lost[d]
          BY <2>5, <3>1, <4>1, <2>2, <1>0 DEF Sound
        <4>3. log'[d] = r
          BY <4>1, <4>2, <3>1, <2>4
        <4>4. Made(r) \in Nat /\ Made(r) <= r.attempt
          BY <4>2, ConstantRows DEF Made
        <4>5. r.attempt \in Nat /\ posts[d] <= r.attempt + Extra(d) + lost[d] /\ r.attempt <= AttemptLimit
          BY <4>2, <4>4, <1>0, LimitFacts, ExtraFacts, ConstantRows DEF Row
        <4>6. call'[k].rows[d[2]] = NoRow
          BY <2>1, <1>0
        <4> QED
          BY <3>1, <4>3, <4>5, <4>6, <2>1, <2>2, <2>3 DEF Sound
      <3>2. CASE d[1] # k
        BY <2>5, <3>2, <2>1, <2>2, <2>3, <2>4, <1>0
      <3> QED
        BY <3>1, <3>2
    <2>6. ASSUME NEW w \in Retriers PROVE RetrierSound(retrier[w], log, shared)'
      <3>1. \A d \in retrier[w].queue : log'[d] = log[d]
        BY <2>2, <2>4, <1>0, QueuedIsCommitted
      <3>2. retrier[w].cur \subseteq retrier[w].queue
        BY <1>0 DEF BaseInv
      <3> QED
        BY <3>1, <3>2, <2>2, <1>0 DEF RetrierSound
    <2> QED
      BY <2>5, <2>6, <1>0 DEF DeliveryInv
  <1>5. ASSUME NEW k \in Calls, CrashDispatch(k) PROVE DeliveryInv'
    <2>1. /\ call'[k].pc = "new" /\ call'[k].rows = [g \in Hooks |-> NoRow]
          /\ \A j \in Calls : j # k => call'[j] = call[j]
      BY <1>5, <1>0 DEF CrashDispatch, TypeOK, NewCall
    <2>2. UNCHANGED <<retrier, posts, log, shared>> /\ call[k].pc = "fanout"
      BY <1>5 DEF CrashDispatch
    <2>3. \A d \in Deliveries : Extra(d)' = Extra(d)
      BY <2>2 DEF Extra, InFlight
    <2>4. \A d \in Deliveries :
            lost'[d] = IF d[1] = k /\ call[k].rows[d[2]].status \in {"delivered", "failed"}
                       THEN lost[d] + 1 ELSE lost[d]
      BY <1>5 DEF CrashDispatch
    <2>5. ASSUME NEW d \in Deliveries, d \in Single
          PROVE  Sound(call[d[1]], d[2], log[d], posts[d], lost[d], Extra(d))'
      <3>1. CASE d[1] = k
        <4>1. log[d] = NoRow /\ posts[d] <= Made(call[k].rows[d[2]]) + lost[d]
          BY <2>5, <3>1, <2>2, <1>0 DEF Sound
        <4>2. lost'[d] = Made(call[k].rows[d[2]]) + lost[d]
          BY <3>1, <2>4, <1>0 DEF Made
        <4>3. Made(NoRow) = 0 /\ call'[k].rows[d[2]] = NoRow
          BY <2>1, <1>0 DEF Made, NoRow
        <4>4. posts[d] <= Made(NoRow) + lost'[d] /\ lost'[d] \in Nat
          BY <4>1, <4>2, <4>3, <1>0 DEF Made
        <4> QED
          BY <3>1, <4>1, <4>3, <4>4, <2>1, <2>2, LimitFacts, ConstantRows DEF Sound
      <3>2. CASE d[1] # k
        BY <2>5, <3>2, <2>1, <2>2, <2>3, <2>4, <1>0
      <3> QED
        BY <3>1, <3>2
    <2> QED
      BY <2>2, <2>5, <1>0 DEF DeliveryInv
  <1>6. ASSUME NEW w \in Retriers, Scan(w) PROVE DeliveryInv'
    <2>1. PICK S \in SUBSET {d \in Deliveries : Due(d)} :
            /\ retrier' = [retrier EXCEPT ![w] =
                        [pc |-> "next", queue |-> S, cur |-> {}, row |-> NoRow,
                         seen |-> [d \in Deliveries |-> IF d \in S THEN log[d].attempt ELSE 0]]]
            /\ shared' = shared \union {d \in S : \E v \in Retriers : d \in retrier[v].queue}
      BY <1>6 DEF Scan
    <2>2. UNCHANGED <<call, log, posts, lost>> /\ retrier[w].pc = "idle"
      BY <1>6 DEF Scan
    <2>3. /\ retrier'[w].pc = "next" /\ retrier'[w].queue = S /\ retrier'[w].cur = {}
          /\ \A d \in S : retrier'[w].seen[d] = log[d].attempt
          /\ \A v \in Retriers : v # w => retrier'[v] = retrier[v]
      BY <2>1, <1>0 DEF TypeOK
    <2>4. \A d \in Deliveries : Extra(d)' = Extra(d)
      BY <2>2, <2>3, FlightKept
    <2>5. RetrierSound(retrier'[w], log, shared')
      BY <2>3 DEF RetrierSound, Due
    <2>6. ASSUME NEW v \in Retriers, v # w PROVE RetrierSound(retrier'[v], log, shared')
      <3>1. shared \subseteq shared'
        BY <2>1
      <3> QED
        BY <3>1, <2>3, <2>6, <1>0 DEF RetrierSound
    <2>7. \A v \in Retriers : RetrierSound(retrier[v], log, shared)'
      BY <2>2, <2>5, <2>6
    <2> QED
      BY <2>2, <2>4, <2>7, <1>0 DEF DeliveryInv
  <1>7. ASSUME NEW w \in Retriers, NEW d \in Deliveries, SkipInactive(w, d) PROVE DeliveryInv'
    <2>1. UNCHANGED <<call, log, posts, lost, shared>> /\ retrier[w].pc = "next"
      BY <1>7 DEF SkipInactive
    <2>2. /\ retrier'[w] = Advance(retrier[w], d)
          /\ \A v \in Retriers : v # w => retrier'[v] = retrier[v]
      BY <1>7, <1>0 DEF SkipInactive, TypeOK
    <2>3. /\ retrier'[w].pc \in {"idle", "next"} /\ retrier'[w].cur = {}
          /\ retrier'[w].queue = retrier[w].queue \ {d}
          /\ \A e \in retrier[w].queue \ {d} : retrier'[w].seen[e] = retrier[w].seen[e]
      BY <2>2, <1>0, AdvanceType
    <2>4. \A e \in Deliveries : Extra(e)' = Extra(e)
      BY <2>1, <2>2, <2>3, FlightKept
    <2>5. RetrierSound(retrier'[w], log, shared)
      BY <2>3, <1>0 DEF RetrierSound
    <2>6. \A v \in Retriers : RetrierSound(retrier[v], log, shared)'
      BY <2>1, <2>2, <2>5, <1>0
    <2> QED
      BY <2>1, <2>4, <2>6, <1>0 DEF DeliveryInv
  <1>8. ASSUME NEW w \in Retriers, NEW d \in Deliveries, LoadFresh(w, d) PROVE DeliveryInv'
    <2>1. UNCHANGED <<call, log, posts, lost, shared>> /\ retrier[w].pc = "next" /\ d \in retrier[w].queue
      BY <1>8 DEF LoadFresh
    <2>2. PICK q \in Row : q = [log[d] EXCEPT !.attempt = retrier[w].seen[d] + 1]
                            /\ q.attempt = retrier[w].seen[d] + 1
      <3>1. PICK n \in Nat : n = retrier[w].seen[d]
        BY <1>0 DEF Retrier
      <3>2. [log[d] EXCEPT !.attempt = n + 1] \in Row /\ [log[d] EXCEPT !.attempt = n + 1].attempt = n + 1
        BY <1>0 DEF Row
      <3> QED
        BY <3>1, <3>2
    <2>3. retrier' = [retrier EXCEPT ![w].pc = "loaded", ![w].cur = {d}, ![w].row = q]
      BY <1>8, <2>2 DEF LoadFresh
    <2>4. /\ retrier'[w].pc = "loaded" /\ retrier'[w].cur = {d} /\ retrier'[w].row = q
          /\ retrier'[w].queue = retrier[w].queue /\ retrier'[w].seen = retrier[w].seen
          /\ \A v \in Retriers : v # w => retrier'[v] = retrier[v]
      BY <2>3, <1>0 DEF TypeOK, Retrier
    <2>5. \A e \in Deliveries : Extra(e)' = Extra(e)
      BY <2>1, <2>4, FlightKept
    <2>6. RetrierSound(retrier'[w], log, shared)
      BY <2>1, <2>2, <2>4, <1>0 DEF RetrierSound
    <2>7. \A v \in Retriers : RetrierSound(retrier[v], log, shared)'
      BY <2>1, <2>4, <2>6, <1>0
    <2> QED
      BY <2>1, <2>5, <2>7, <1>0 DEF DeliveryInv
  <1>9. ASSUME NEW w \in Retriers, NEW d \in Deliveries, Attempt(w, d) PROVE DeliveryInv'
    <2>1. UNCHANGED <<call, log, lost, shared>> /\ retrier[w].pc = "loaded" /\ retrier[w].cur = {d}
      BY <1>9 DEF Attempt
    <2>2. PICK o \in Outcomes :
            /\ retrier' = [retrier EXCEPT ![w].pc = "posted", ![w].row = AfterAttempt(@, o)]
            /\ Requested(d, o)
      BY <1>9 DEF Attempt
    <2>3. retrier[w].row \in Row /\ retrier[w].row.attempt >= 1
      BY <1>0, <2>1 DEF Retrier, TypeInv, InHandInv
    <2>4. PICK q \in Row : q = AfterAttempt(retrier[w].row, o) /\ q.status = o
                            /\ q.attempt = retrier[w].row.attempt
      BY <2>3, AfterAttemptRow
    <2>5. retrier' = [retrier EXCEPT ![w].pc = "posted", ![w].row = q]
      BY <2>2, <2>4, <1>0 DEF TypeOK
    <2>6. /\ retrier'[w].pc = "posted" /\ retrier'[w].cur = {d} /\ retrier'[w].row = q
          /\ retrier'[w].queue = retrier[w].queue /\ retrier'[w].seen = retrier[w].seen
          /\ \A v \in Retriers : v # w => retrier'[v] = retrier[v]
      BY <2>1, <2>5, <1>0 DEF TypeOK, Retrier
    <2>7. ASSUME NEW e \in Deliveries, e # d PROVE Extra(e)' = Extra(e) /\ posts'[e] = posts[e]
      <3>1. InFlight(e)' = InFlight(e)
        BY <2>1, <2>6, <2>7 DEF InFlight
      <3> QED
        BY <3>1, <2>2, <2>7, <1>0 DEF Extra, Requested, TypeOK
    <2>8. d \in retrier[w].queue /\ call[d[1]].pc = "done"
      BY <2>1, <1>0, QueuedIsCommitted DEF BaseInv
    <2>9. posts'[d] = IF o = "rate_limited" THEN posts[d] ELSE posts[d] + 1
      BY <2>2, <1>0 DEF Requested, TypeOK
    <2>10. d \in Single => Extra(d) = 0 /\ Extra(d)' = IF o = "rate_limited" THEN 0 ELSE 1
      <3> SUFFICES ASSUME d \in Single
                   PROVE  Extra(d) = 0 /\ Extra(d)' = IF o = "rate_limited" THEN 0 ELSE 1
        OBVIOUS
      <3>1. \A v \in Retriers : v # w => d \notin retrier[v].cur
        BY <2>8, <1>0, OnlyHolder DEF Single
      <3>2. ~InFlight(d)
        BY <3>1, <2>1 DEF InFlight
      <3>3. InFlight(d)' <=> o # "rate_limited"
        BY <3>1, <2>4, <2>6 DEF InFlight
      <3> QED
        BY <3>2, <3>3 DEF Extra
    <2>11. d \in Single => posts'[d] <= log[d].attempt + Extra(d)' + lost[d]
      <3>1. d \in Single => posts[d] <= log[d].attempt + 0 + lost[d]
        BY <2>8, <2>10, <1>0 DEF Sound
      <3> QED
        BY <3>1, <2>9, <2>10, <1>0
    <2>12. \A e \in Single :
             Sound(call[e[1]], e[2], log[e], posts[e], lost[e], Extra(e))'
      <3> SUFFICES ASSUME NEW e \in Deliveries, e \in Single
                   PROVE  Sound(call[e[1]], e[2], log[e], posts[e], lost[e], Extra(e))'
        BY <1>0
      <3>1. CASE e = d
        BY <3>1, <2>1, <2>8, <2>11, <1>0 DEF Sound
      <3>2. CASE e # d
        BY <3>2, <2>1, <2>7, <1>0
      <3> QED
        BY <3>1, <3>2
    <2>13. RetrierSound(retrier'[w], log, shared)
      BY <2>1, <2>4, <2>6, <1>0 DEF RetrierSound
    <2>14. \A v \in Retriers : RetrierSound(retrier[v], log, shared)'
      BY <2>1, <2>6, <2>13, <1>0
    <2> QED
      BY <2>12, <2>14, <1>0 DEF DeliveryInv
  <1>10. ASSUME NEW w \in Retriers, NEW d \in Deliveries, CommitRetry(w, d) PROVE DeliveryInv'
    <2>1. UNCHANGED <<call, posts, lost, shared>> /\ retrier[w].pc = "posted" /\ retrier[w].cur = {d}
      BY <1>10 DEF CommitRetry
    <2>2. /\ retrier'[w] = Advance(retrier[w], d)
          /\ \A v \in Retriers : v # w => retrier'[v] = retrier[v]
      BY <1>10, <1>0 DEF CommitRetry, TypeOK
    <2>3. /\ retrier'[w].pc \in {"idle", "next"} /\ retrier'[w].cur = {}
          /\ retrier'[w].queue = retrier[w].queue \ {d}
          /\ \A e \in retrier[w].queue \ {d} : retrier'[w].seen[e] = retrier[w].seen[e]
      BY <2>2, <1>0, AdvanceType
    <2>4. d \in retrier[w].queue /\ call[d[1]].pc = "done"
      BY <2>1, <1>0, QueuedIsCommitted DEF BaseInv
    <2>5. log'[d] = retrier[w].row /\ \A e \in Deliveries : e # d => log'[e] = log[e]
      BY <1>10, <1>0 DEF CommitRetry, TypeOK
    <2>6. d \in Single => log'[d].attempt = log[d].attempt + 1 /\ log[d].attempt < MaxAttempts
      BY <2>1, <2>4, <2>5, <1>0 DEF RetrierSound, Single
    <2>7. d \in Single => Extra(d)' = 0
      <3>1. d \in Single => \A v \in Retriers : v # w => d \notin retrier[v].cur
        BY <2>4, <1>0, OnlyHolder DEF Single
      <3> QED
        BY <3>1, <2>2, <2>3 DEF Extra, InFlight
    <2>8. ASSUME NEW e \in Deliveries, e # d PROVE Extra(e)' = Extra(e)
      <3>1. InFlight(e)' = InFlight(e)
        BY <2>1, <2>2, <2>3, <2>8 DEF InFlight
      <3> QED
        BY <3>1 DEF Extra
    <2>9. \A e \in Single :
            Sound(call[e[1]], e[2], log[e], posts[e], lost[e], Extra(e))'
      <3> SUFFICES ASSUME NEW e \in Deliveries, e \in Single
                   PROVE  Sound(call[e[1]], e[2], log[e], posts[e], lost[e], Extra(e))'
        BY <1>0
      <3>1. CASE e = d
        <4>1. posts[d] <= log[d].attempt + Extra(d) + lost[d]
          BY <2>4, <3>1, <1>0 DEF Sound
        <4>2. posts[d] <= log'[d].attempt + 0 + lost[d] /\ log'[d].attempt <= AttemptLimit
          BY <4>1, <2>6, <3>1, <1>0, ExtraFacts, LimitFacts
        <4> QED
          BY <3>1, <4>2, <2>1, <2>4, <2>7, <1>0 DEF Sound
      <3>2. CASE e # d
        BY <3>2, <2>1, <2>5, <2>8, <1>0
      <3> QED
        BY <3>1, <3>2
    <2>10. RetrierSound(retrier'[w], log', shared)
      <3>1. \A e \in retrier'[w].queue : log'[e] = log[e] /\ e \in retrier[w].queue
                                        /\ retrier'[w].seen[e] = retrier[w].seen[e]
        BY <2>3, <2>5, <1>0 DEF Retrier
      <3> QED
        BY <3>1, <2>3, <1>0 DEF RetrierSound
    <2>11. ASSUME NEW v \in Retriers, v # w PROVE RetrierSound(retrier'[v], log', shared)
      <3>1. \A e \in retrier[v].queue \ shared : log'[e] = log[e]
        <4>1. \A e \in retrier[v].queue : e = d => e \in shared
          BY <2>4, <2>11, <1>0 DEF BaseInv
        <4> QED
          BY <4>1, <2>5, <1>0
      <3>2. retrier[v].cur \subseteq retrier[v].queue
        BY <1>0 DEF BaseInv
      <3> QED
        BY <3>1, <3>2, <2>2, <2>11, <1>0 DEF RetrierSound
    <2>12. \A v \in Retriers : RetrierSound(retrier[v], log, shared)'
      BY <2>1, <2>10, <2>11
    <2> QED
      BY <2>9, <2>12, <1>0 DEF DeliveryInv
  <1>11. ASSUME NEW w \in Retriers, CrashRetrier(w) PROVE DeliveryInv'
    <2>1. UNCHANGED <<call, log, posts, shared>>
      BY <1>11 DEF CrashRetrier
    <2>2. /\ retrier'[w] = IdleRetrier
          /\ \A v \in Retriers : v # w => retrier'[v] = retrier[v]
      BY <1>11, <1>0 DEF CrashRetrier, TypeOK
    <2>3. ASSUME NEW e \in Deliveries, e \in Single
          PROVE  \/ lost'[e] = lost[e] /\ Extra(e)' = Extra(e)
                 \/ lost'[e] = lost[e] + 1 /\ Extra(e) = 1 /\ Extra(e)' = 0
      <3>1. CASE retrier[w].pc = "posted" /\ e \in retrier[w].cur /\ retrier[w].row.status # "rate_limited"
        <4>1. lost'[e] = lost[e] + 1
          BY <1>11, <3>1 DEF CrashRetrier
        <4>2. InFlight(e)
          BY <3>1 DEF InFlight
        <4>3. \A v \in Retriers : v # w => e \notin retrier[v].cur
          BY <2>3, <3>1, <1>0, OnlyHolder DEF BaseInv, Single
        <4>4. ~InFlight(e)'
          BY <4>3, <2>2 DEF InFlight, IdleRetrier
        <4> QED
          BY <4>1, <4>2, <4>4 DEF Extra
      <3>2. CASE ~(retrier[w].pc = "posted" /\ e \in retrier[w].cur /\ retrier[w].row.status # "rate_limited")
        <4>1. lost'[e] = lost[e]
          BY <1>11, <3>2 DEF CrashRetrier
        <4>2. InFlight(e)' = InFlight(e)
          BY <3>2, <2>2 DEF InFlight, IdleRetrier
        <4> QED
          BY <4>1, <4>2 DEF Extra
      <3> QED
        BY <3>1, <3>2
    <2>4. ASSUME NEW e \in Deliveries, e \in Single
          PROVE  Sound(call[e[1]], e[2], log[e], posts[e], lost[e], Extra(e))'
      <3>1. Sound(call[e[1]], e[2], log[e], posts[e], lost[e], Extra(e))
        BY <2>4, <1>0
      <3>2. CASE lost'[e] = lost[e] /\ Extra(e)' = Extra(e)
        BY <3>1, <3>2, <2>1
      <3>3. CASE lost'[e] = lost[e] + 1 /\ Extra(e) = 1 /\ Extra(e)' = 0
        <4>1. Made(call[e[1]].rows[e[2]]) \in Nat
          BY DEF Made
        <4>2. Sound(call[e[1]], e[2], log[e], posts[e], lost[e] + 1, 0)
          BY <3>1, <3>3, <4>1, <1>0 DEF Sound
        <4> QED
          BY <3>3, <4>2, <2>1
      <3> QED
        BY <2>3, <2>4, <3>2, <3>3
    <2>5. \A v \in Retriers : RetrierSound(retrier'[v], log, shared)
      BY <2>2, <1>0 DEF RetrierSound, IdleRetrier
    <2> QED
      BY <2>1, <2>4, <2>5, <1>0 DEF DeliveryInv
  <1>12. ASSUME Tick PROVE DeliveryInv'
    <2>1. UNCHANGED <<posts, lost, shared>>
      BY <1>12 DEF Tick
    <2>2. \A d \in Deliveries : /\ log'[d].status = log[d].status
                                /\ log'[d].attempt = log[d].attempt
                                /\ log[d] = NoRow => log'[d] = NoRow
      BY <1>12, <1>0, CloserRow DEF Tick
    <2>3. ASSUME NEW k \in Calls, NEW h \in Hooks
          PROVE  /\ call'[k].pc = call[k].pc /\ call'[k].todo = call[k].todo
                 /\ call'[k].rows[h].status = call[k].rows[h].status
                 /\ call'[k].rows[h].attempt = call[k].rows[h].attempt
                 /\ call[k].rows[h] = NoRow => call'[k].rows[h] = NoRow
      <3>1. call'[k] = [call[k] EXCEPT !.rows = [g \in Hooks |-> Closer(call[k].rows[g])]]
        BY <1>12 DEF Tick
      <3>2. /\ call'[k].pc = call[k].pc /\ call'[k].todo = call[k].todo
            /\ call'[k].rows = [g \in Hooks |-> Closer(call[k].rows[g])]
        BY <3>1, <1>0 DEF Call
      <3>3. call'[k].rows[h] = Closer(call[k].rows[h]) /\ call[k].rows[h] \in Row
        BY <3>2, <1>0
      <3> QED
        BY <3>2, <3>3, CloserRow
    <2>4. ASSUME NEW w \in Retriers
          PROVE  /\ retrier'[w].pc = retrier[w].pc /\ retrier'[w].cur = retrier[w].cur
                 /\ retrier'[w].queue = retrier[w].queue /\ retrier'[w].seen = retrier[w].seen
                 /\ retrier'[w].row.status = retrier[w].row.status
                 /\ retrier'[w].row.attempt = retrier[w].row.attempt
      <3>1. retrier'[w] = [retrier[w] EXCEPT !.row = Closer(retrier[w].row)]
        BY <1>12 DEF Tick
      <3>2. /\ retrier'[w].pc = retrier[w].pc /\ retrier'[w].cur = retrier[w].cur
            /\ retrier'[w].queue = retrier[w].queue /\ retrier'[w].seen = retrier[w].seen
            /\ retrier'[w].row = Closer(retrier[w].row)
        BY <3>1, <1>0 DEF Retrier
      <3>3. retrier[w].row \in Row
        BY <1>0 DEF Retrier
      <3> QED
        BY <3>2, <3>3, CloserRow
    <2>5. \A d \in Deliveries : Extra(d)' = Extra(d)
      BY <2>4 DEF Extra, InFlight
    <2>6. ASSUME NEW d \in Deliveries, d \in Single
          PROVE  Sound(call[d[1]], d[2], log[d], posts[d], lost[d], Extra(d))'
      <3>1. Made(call'[d[1]].rows[d[2]]) = Made(call[d[1]].rows[d[2]])
        BY <2>3, <1>0 DEF Made
      <3> QED
        BY <2>6, <3>1, <2>1, <2>2, <2>3, <2>5, <1>0 DEF Sound
    <2>7. ASSUME NEW w \in Retriers PROVE RetrierSound(retrier[w], log, shared)'
      <3>1. retrier[w].queue \subseteq Deliveries /\ retrier[w].cur \subseteq retrier[w].queue
        BY <1>0 DEF Retrier, BaseInv
      <3> QED
        BY <3>1, <2>1, <2>2, <2>4, <1>0 DEF RetrierSound
    <2> QED
      BY <2>6, <2>7, <1>0 DEF DeliveryInv
  <1>13. CASE UNCHANGED vars
    BY <1>0, <1>13 DEF vars, DeliveryInv, Extra, InFlight
  <1> QED
    BY <1>1, <1>2, <1>3, <1>4, <1>5, <1>6, <1>7, <1>8, <1>9, <1>10, <1>11, <1>12, <1>13
    DEF Next, DispatchStep, RetryStep

\* The delivery invariant bounds the requests.
LEMMA InvGivesBound ==
  ASSUME TypeInv, DeliveryInv PROVE PostsBounded
  <1> SUFFICES ASSUME NEW d \in Deliveries, d \in Single PROVE posts[d] <= AttemptLimit + lost[d]
    BY DEF PostsBounded, Single
  <1>1. /\ posts[d] \in Nat /\ lost[d] \in Nat /\ log[d].attempt \in Nat
        /\ Sound(call[d[1]], d[2], log[d], posts[d], lost[d], Extra(d))
    BY DEF TypeInv, TypeOK, Row, DeliveryInv
  <1>2. CASE call[d[1]].pc # "done"
    BY <1>1, <1>2, LimitFacts DEF Sound, Made
  <1>3. CASE call[d[1]].pc = "done" /\ InFlight(d)
    <2>1. PICK w \in Retriers : d \in retrier[w].cur
      BY <1>3 DEF InFlight
    <2>2. log[d].attempt < MaxAttempts
      BY <2>1 DEF DeliveryInv, BaseInv, RetrierSound, Single
    <2>3. posts[d] <= log[d].attempt + 1 + lost[d]
      BY <1>1, <1>3 DEF Sound, Extra
    <2> QED
      BY <1>1, <2>2, <2>3, LimitFacts
  <1>4. CASE call[d[1]].pc = "done" /\ ~InFlight(d)
    BY <1>1, <1>4, LimitFacts DEF Sound, Extra
  <1> QED
    BY <1>2, <1>3, <1>4

\* However many retry jobs run, a delivery (one call of the handler for one
\* webhook) is posted at most max_attempts times, plus once for each request
\* that a crash of _attempt_delivery's process forgot.  The exception is a
\* delivery that retry_due_deliveries returned to two jobs at once: their
\* requests for other deliveries stay within the bound.
THEOREM RequestsBounded == Spec => []PostsBounded
  <1>1. Init => TypeInv /\ DeliveryInv
    BY TypeInit, DeliveryInit
  <1>2. TypeInv /\ DeliveryInv /\ [Next]_vars => (TypeInv /\ DeliveryInv)'
    BY TypeStep, DeliveryStep
  <1>3. TypeInv /\ DeliveryInv => PostsBounded
    BY InvGivesBound
  <1> QED
    BY <1>1, <1>2, <1>3, PTL DEF Spec

\* No step posts or rewrites a delivered row.
LEMMA DeliveredStep ==
  ASSUME TypeInv, DeliveryInv, [Next]_vars, NEW d \in Single, log[d].status = "delivered"
  PROVE  log'[d].status = "delivered" /\ posts'[d] = posts[d]
  <1>0. /\ log \in [Deliveries -> Row] /\ posts \in [Deliveries -> Nat]
        /\ call[d[1]].pc = "done" /\ d \in Deliveries /\ d[1] \in Calls
        /\ \A w \in Retriers : d \notin retrier[w].queue /\ d \notin retrier[w].cur
    <2>1. log[d] # NoRow
      BY DEF NoRow
    <2>2. call[d[1]].pc = "done"
      BY <2>1 DEF DeliveryInv, Sound
    <2>3. \A w \in Retriers : d \notin retrier[w].queue /\ d \notin retrier[w].cur
      BY DEF DeliveryInv, BaseInv, RetrierSound, Single
    <2> QED
      BY <2>2, <2>3 DEF TypeInv, TypeOK, Deliveries, Single
  <1>1. CASE \E h \in Hooks : CreateWebhook(h) \/ DeleteWebhook(h)
    BY <1>1 DEF CreateWebhook, DeleteWebhook
  <1>2. ASSUME NEW k \in Calls, StartDispatch(k) \/ CrashDispatch(k)
        PROVE  log'[d].status = "delivered" /\ posts'[d] = posts[d]
    BY <1>2 DEF StartDispatch, CrashDispatch
  <1>3. ASSUME NEW k \in Calls, NEW h \in Hooks, Deliver(k, h)
        PROVE  log'[d].status = "delivered" /\ posts'[d] = posts[d]
    <2>1. d # <<k, h>>
      BY <1>0, <1>3 DEF Deliver
    <2> QED
      BY <2>1, <1>0, <1>3 DEF Deliver, Requested
  <1>4. ASSUME NEW k \in Calls, CommitDispatch(k)
        PROVE  log'[d].status = "delivered" /\ posts'[d] = posts[d]
    BY <1>0, <1>4 DEF CommitDispatch
  <1>5. ASSUME NEW w \in Retriers, NEW e \in Deliveries,
               Scan(w) \/ SkipInactive(w, e) \/ LoadFresh(w, e) \/ CrashRetrier(w)
        PROVE  log'[d].status = "delivered" /\ posts'[d] = posts[d]
    BY <1>5 DEF Scan, SkipInactive, LoadFresh, CrashRetrier
  <1>6. ASSUME NEW w \in Retriers, NEW e \in Deliveries, Attempt(w, e)
        PROVE  log'[d].status = "delivered" /\ posts'[d] = posts[d]
    <2>1. d # e
      BY <1>0, <1>6 DEF Attempt
    <2> QED
      BY <2>1, <1>0, <1>6 DEF Attempt, Requested
  <1>7. ASSUME NEW w \in Retriers, NEW e \in Deliveries, CommitRetry(w, e)
        PROVE  log'[d].status = "delivered" /\ posts'[d] = posts[d]
    <2>1. d # e
      BY <1>0, <1>7 DEF CommitRetry
    <2> QED
      BY <2>1, <1>0, <1>7 DEF CommitRetry
  <1>8. CASE Tick
    BY <1>0, <1>8, CloserRow DEF Tick
  <1>9. CASE UNCHANGED vars
    BY <1>9 DEF vars
  <1> QED
    BY <1>0, <1>1, <1>2, <1>3, <1>4, <1>5, <1>6, <1>7, <1>8, <1>9 DEF Next, DispatchStep, RetryStep

\* However many retry jobs run, a delivery whose row says delivered keeps that
\* status and is not posted again, unless two of them held it at once.
THEOREM DeliveryFinal == Spec => DeliveredIsFinal
  <1>1. Init => TypeInv /\ DeliveryInv
    BY TypeInit, DeliveryInit
  <1>2. TypeInv /\ DeliveryInv /\ [Next]_vars => (TypeInv /\ DeliveryInv)'
    BY TypeStep, DeliveryStep
  <1>3. TypeInv /\ DeliveryInv /\ [Next]_vars =>
          [\A d \in Deliveries \ shared :
             log[d].status = "delivered" => log'[d].status = "delivered" /\ posts'[d] = posts[d]]_vars
    BY DeliveredStep DEF Single
  <1> QED
    BY <1>1, <1>2, <1>3, PTL DEF Spec, DeliveredIsFinal

-----------------------------------------------------------------------------
(***************************************************************************)
(* The backoff.  Until next_retry_at of a failed row lies at least what is *)
(* left of the delay since the last request; a request of the retry job    *)
(* starts a delay that only its own, still uncommitted row knows of.       *)
(***************************************************************************)
Spaced(row, s) ==
  row.status = "failed" /\ row.attempt < MaxAttempts =>
    row.attempt >= 1 /\ s + row.wait >= Delay(row.attempt)

BackoffInv ==
  /\ \A d \in Single : lost[d] = 0 =>
       /\ Spaced(call[d[1]].rows[d[2]], since[d])
       /\ ~InFlight(d) => Spaced(log[d], since[d])
       /\ \A w \in Retriers :
            (retrier[w].pc = "posted" /\ d \in retrier[w].cur) => Spaced(retrier[w].row, since[d])
  /\ \A w \in Retriers : \A d \in retrier[w].queue \ shared : log[d].wait = 0

\* The delay of an attempt that is not the last is below the bound of the clock.
LEMMA DelayBounded ==
  ASSUME NEW n \in Nat, n >= 1, n < MaxAttempts
  PROVE  Delay(n) \in Nat /\ LongestDelay \in Nat /\ Delay(n) <= LongestDelay
  <1>1. /\ n - 1 \in 0 .. MaxAttempts /\ MaxAttempts - 1 \in 0 .. MaxAttempts
        /\ n \in 1 .. MaxAttempts
    BY WebhookConstants
  <1>2. PICK x \in Nat : x = 2 ^ (n - 1)
    BY <1>1, PowersAreNaturals
  <1>3. PICK y \in Nat : y = 2 ^ (MaxAttempts - 1)
    BY <1>1, PowersAreNaturals
  <1>4. x <= y
    BY <1>1, <1>2, <1>3, PowersGrow
  <1>5. PICK b \in Nat : b = BaseDelay
    BY WebhookConstants
  <1>6. b * x <= b * y /\ b * x \in Nat /\ b * y \in Nat
    BY <1>4
  <1> QED
    BY <1>2, <1>3, <1>5, <1>6 DEF Delay, LongestDelay

\* A row that does not wait for a retry is spaced whatever the time.
LEMMA NoRowSpaced ==
  ASSUME NEW r, r.status # "failed", NEW s
  PROVE  Spaced(r, s)
  BY DEF Spaced

\* An attempt that fails starts the delay.
LEMMA AttemptSpaced ==
  ASSUME NEW r \in Row, r.attempt >= 1, NEW o \in Outcomes, NEW s,
         o # "rate_limited" => s = 0
  PROVE  Spaced(AfterAttempt(r, o), s)
  <1>1. AfterAttempt(r, o).status = o /\ AfterAttempt(r, o).attempt = r.attempt
    BY AfterAttemptRow
  <1>2. CASE o = "failed" /\ r.attempt < MaxAttempts
    <2>1. PICK z \in Nat : z = Delay(r.attempt)
      BY <1>2, DelayBounded DEF Row
    <2>2. AfterAttempt(r, o).wait = z
      BY <1>2, <2>1 DEF AfterAttempt, Row
    <2>3. s + z >= z
      BY <1>2
    <2> QED
      BY <1>1, <2>1, <2>2, <2>3 DEF Spaced
  <1>3. CASE ~(o = "failed" /\ r.attempt < MaxAttempts)
    BY <1>1, <1>3 DEF Spaced
  <1> QED
    BY <1>2, <1>3

\* A tick of the clock adds to the one side what it takes from the other.
LEMMA TickSpaced ==
  ASSUME NEW r \in Row, NEW s \in Nat, Spaced(r, s)
  PROVE  Spaced(Closer(r), IF s < LongestDelay THEN s + 1 ELSE s)
  <1>1. /\ Closer(r).status = r.status /\ Closer(r).attempt = r.attempt
        /\ Closer(r).wait = IF r.wait = 0 THEN 0 ELSE r.wait - 1
    BY CloserRow DEF Closer, Row
  <1> SUFFICES ASSUME r.status = "failed", r.attempt < MaxAttempts
               PROVE  /\ r.attempt >= 1
                      /\ (IF s < LongestDelay THEN s + 1 ELSE s)
                           + (IF r.wait = 0 THEN 0 ELSE r.wait - 1) >= Delay(r.attempt)
    BY <1>1 DEF Spaced
  <1>2. r.attempt >= 1 /\ s + r.wait >= Delay(r.attempt) /\ r.attempt \in Nat /\ r.wait \in Nat
    BY DEF Spaced, Row
  <1>3. PICK z \in Nat : z = Delay(r.attempt)
    BY <1>2, DelayBounded
  <1>4. PICK y \in Nat : y = LongestDelay
    BY <1>2, DelayBounded
  <1>5. z <= y
    BY <1>2, <1>3, <1>4, DelayBounded
  <1> QED
    BY <1>2, <1>3, <1>4, <1>5

\* No row waits at first.
LEMMA BackoffInit == Init => BackoffInv
  <1> SUFFICES ASSUME Init PROVE BackoffInv
    OBVIOUS
  <1>1. NoRow.status # "failed"
    BY ConstantRows
  <1>2. ASSUME NEW d \in Deliveries
        PROVE  /\ Spaced(call[d[1]].rows[d[2]], since[d]) /\ Spaced(log[d], since[d])
    <2>1. call[d[1]].rows[d[2]] = NoRow /\ log[d] = NoRow
      BY DEF Init, NewCall, Deliveries
    <2> QED
      BY <1>1, <2>1, NoRowSpaced
  <1>3. \A w \in Retriers : retrier[w].pc = "idle" /\ retrier[w].queue = {}
    BY DEF Init, IdleRetrier
  <1> QED
    BY <1>2, <1>3 DEF BackoffInv, Single

\* The backoff invariant is preserved by every step.
LEMMA BackoffStep ==
  ASSUME TypeInv, DeliveryInv, BackoffInv, [Next]_vars
  PROVE  BackoffInv'
  <1>0. /\ TypeOK
        /\ \A d \in Deliveries : /\ d[1] \in Calls /\ d[2] \in Hooks
                                 /\ lost[d] \in Nat /\ since[d] \in Nat /\ log[d] \in Row
        /\ \A d \in Single : Sound(call[d[1]], d[2], log[d], posts[d], lost[d], Extra(d))
        /\ \A w \in Retriers : /\ RetrierSound(retrier[w], log, shared) /\ retrier[w] \in Retrier
                               /\ retrier[w].queue \subseteq Deliveries
                               /\ retrier[w].cur \subseteq retrier[w].queue
        /\ BaseInv /\ Single \subseteq Deliveries /\ Single' \subseteq Single
        /\ \A k \in Calls : call[k] \in Call /\ call[k].rows \in [Hooks -> Row]
        /\ NoRow.status # "failed"
    BY BaseStep, ConstantRows DEF TypeInv, TypeOK, Deliveries, DeliveryInv, Call, Retrier, BaseInv, Single
  <1>1. ASSUME NEW h \in Hooks, CreateWebhook(h) \/ DeleteWebhook(h) PROVE BackoffInv'
    BY <1>0, <1>1 DEF BackoffInv, InFlight, CreateWebhook, DeleteWebhook
  <1>2. ASSUME NEW k \in Calls, StartDispatch(k) PROVE BackoffInv'
    <2>1. PICK T \in SUBSET Hooks, p \in {"done", "fanout"} :
            call' = [call EXCEPT ![k].pc = p, ![k].todo = T]
      BY <1>2, <1>0, WebhookConstants DEF StartDispatch
    <2>2. \A j \in Calls : call'[j].rows = call[j].rows
      BY <2>1, <1>0 DEF TypeOK, Call
    <2>3. UNCHANGED <<log, retrier, since, lost, shared>>
      BY <1>2 DEF StartDispatch
    <2> QED
      BY <2>2, <2>3, <1>0 DEF BackoffInv, InFlight
  <1>3. ASSUME NEW k \in Calls, NEW h \in Hooks, Deliver(k, h) PROVE BackoffInv'
    <2>1. PICK o \in Outcomes :
            /\ call' = [call EXCEPT ![k].todo = @ \ {h}, ![k].rows[h] = AfterAttempt(NewRow, o)]
            /\ Requested(<<k, h>>, o)
      BY <1>3 DEF Deliver
    <2>2. PICK r \in Row : r = AfterAttempt(NewRow, o)
      BY ConstantRows, AfterAttemptRow
    <2>3. /\ call'[k].rows = [call[k].rows EXCEPT ![h] = r]
          /\ \A j \in Calls : j # k => call'[j] = call[j]
      BY <2>1, <2>2, <1>0 DEF TypeOK, Call
    <2>4. UNCHANGED <<log, retrier, lost, shared>> /\ call[k].pc = "fanout" /\ h \in call[k].todo
      BY <1>3 DEF Deliver
    <2>5. \A d \in Deliveries : InFlight(d)' = InFlight(d)
      BY <2>4 DEF InFlight
    <2>6. /\ \A d \in Deliveries : d # <<k, h>> => since'[d] = since[d]
          /\ o # "rate_limited" => since'[<<k, h>>] = 0
      BY <2>1, <1>0 DEF Requested, TypeOK, Deliveries
    <2>7. ASSUME NEW d \in Deliveries, d \in Single, lost[d] = 0
          PROVE  /\ Spaced(call'[d[1]].rows[d[2]], since'[d])
                 /\ ~InFlight(d) => Spaced(log[d], since'[d])
                 /\ \A w \in Retriers :
                      (retrier[w].pc = "posted" /\ d \in retrier[w].cur)
                        => Spaced(retrier[w].row, since'[d])
      <3>1. CASE d = <<k, h>>
        <4>1. Spaced(r, since'[d])
          BY <2>2, <2>6, <3>1, AttemptSpaced, ConstantRows
        <4>2. call'[d[1]].rows[d[2]] = r
          BY <2>3, <3>1, <1>0
        <4>3. log[d] = NoRow /\ \A w \in Retriers : d \notin retrier[w].cur
          BY <1>0, <2>4, <3>1, OpenCallHasNoRow
        <4> QED
          BY <4>1, <4>2, <4>3, <1>0, NoRowSpaced
      <3>2. CASE d # <<k, h>>
        <4>1. d[1] # k \/ d[2] # h
          BY <3>2 DEF Deliveries
        <4>2. call'[d[1]].rows[d[2]] = call[d[1]].rows[d[2]]
          BY <4>1, <2>3, <1>0
        <4> QED
          BY <2>6, <2>7, <3>2, <4>2 DEF BackoffInv
      <3> QED
        BY <3>1, <3>2
    <2> QED
      BY <2>4, <2>5, <2>7, <1>0 DEF BackoffInv
  <1>4. ASSUME NEW k \in Calls, CommitDispatch(k) PROVE BackoffInv'
    <2>1. /\ call'[k].rows = [g \in Hooks |-> NoRow]
          /\ \A j \in Calls : j # k => call'[j] = call[j]
      BY <1>4, <1>0 DEF CommitDispatch, TypeOK, NewCall
    <2>2. UNCHANGED <<retrier, since, lost, shared>> /\ call[k].pc = "fanout"
      BY <1>4 DEF CommitDispatch
    <2>3. \A d \in Deliveries : InFlight(d)' = InFlight(d)
      BY <2>2 DEF InFlight
    <2>4. \A d \in Deliveries :
            log'[d] = IF d[1] = k /\ call[k].rows[d[2]] # NoRow THEN call[k].rows[d[2]] ELSE log[d]
      BY <1>4 DEF CommitDispatch
    <2>5. ASSUME NEW d \in Deliveries, d \in Single, lost[d] = 0
          PROVE  /\ Spaced(call'[d[1]].rows[d[2]], since[d])
                 /\ ~InFlight(d) => Spaced(log'[d], since[d])
      <3>1. CASE d[1] = k
        <4>1. call'[d[1]].rows[d[2]] = NoRow
          BY <2>1, <3>1, <1>0
        <4>2. log'[d] = call[k].rows[d[2]] \/ log'[d] = log[d]
          BY <2>4
        <4> QED
          BY <2>5, <3>1, <4>1, <4>2, <1>0, NoRowSpaced DEF BackoffInv
      <3>2. CASE d[1] # k
        BY <2>1, <2>4, <2>5, <3>2, <1>0 DEF BackoffInv
      <3> QED
        BY <3>1, <3>2
    <2>6. \A w \in Retriers : \A d \in retrier[w].queue : log'[d] = log[d]
      BY <1>0, <2>2, <2>4, QueuedIsCommitted
    <2> QED
      BY <2>2, <2>3, <2>5, <2>6, <1>0 DEF BackoffInv
  <1>5. ASSUME NEW k \in Calls, CrashDispatch(k) PROVE BackoffInv'
    <2>1. /\ call'[k].rows = [g \in Hooks |-> NoRow]
          /\ \A j \in Calls : j # k => call'[j] = call[j]
      BY <1>5, <1>0 DEF CrashDispatch, TypeOK, NewCall
    <2>2. UNCHANGED <<retrier, since, log, shared>>
      BY <1>5 DEF CrashDispatch
    <2>3. \A d \in Deliveries : lost'[d] = 0 => lost[d] = 0
      BY <1>5, <1>0 DEF CrashDispatch
    <2>4. \A d \in Deliveries : InFlight(d)' = InFlight(d)
      BY <2>2 DEF InFlight
    <2>5. ASSUME NEW d \in Deliveries, d \in Single, lost[d] = 0
          PROVE  Spaced(call'[d[1]].rows[d[2]], since[d])
      <3>1. CASE d[1] = k
        <4>1. call'[d[1]].rows[d[2]] = NoRow
          BY <2>1, <3>1, <1>0
        <4> QED
          BY <4>1, <1>0, NoRowSpaced
      <3>2. CASE d[1] # k
        BY <2>1, <2>5, <3>2, <1>0 DEF BackoffInv
      <3> QED
        BY <3>1, <3>2
    <2> QED
      BY <2>2, <2>3, <2>4, <2>5, <1>0 DEF BackoffInv
  <1>6. ASSUME NEW w \in Retriers, Scan(w) PROVE BackoffInv'
    <2>1. PICK S \in SUBSET {d \in Deliveries : Due(d)} :
            /\ retrier' = [retrier EXCEPT ![w] =
                        [pc |-> "next", queue |-> S, cur |-> {}, row |-> NoRow,
                         seen |-> [d \in Deliveries |-> IF d \in S THEN log[d].attempt ELSE 0]]]
            /\ shared' = shared \union {d \in S : \E v \in Retriers : d \in retrier[v].queue}
      BY <1>6 DEF Scan
    <2>2. UNCHANGED <<call, log, since, lost>> /\ retrier[w].pc = "idle"
      BY <1>6 DEF Scan
    <2>3. /\ retrier'[w].pc = "next" /\ retrier'[w].queue = S
          /\ \A v \in Retriers : v # w => retrier'[v] = retrier[v]
          /\ shared \subseteq shared'
      BY <2>1, <1>0 DEF TypeOK
    <2>4. \A d \in S : log[d].wait = 0
      BY DEF Due
    <2>5. \A d \in Deliveries : InFlight(d)' = InFlight(d)
      BY <2>2, <2>3, FlightKept
    <2>6. \A v \in Retriers : retrier'[v].pc = "posted" => retrier'[v] = retrier[v]
      BY <2>3
    <2>7. \A v \in Retriers : \A d \in retrier'[v].queue \ shared' : log[d].wait = 0
      BY <2>3, <2>4 DEF BackoffInv
    <2> QED
      BY <2>2, <2>5, <2>6, <2>7, <1>0 DEF BackoffInv
  <1>7. ASSUME NEW w \in Retriers, NEW d \in Deliveries, SkipInactive(w, d) PROVE BackoffInv'
    <2>1. UNCHANGED <<call, log, since, lost, shared>> /\ retrier[w].pc = "next"
      BY <1>7 DEF SkipInactive
    <2>2. /\ retrier'[w] = Advance(retrier[w], d)
          /\ \A v \in Retriers : v # w => retrier'[v] = retrier[v]
      BY <1>7, <1>0 DEF SkipInactive, TypeOK
    <2>3. retrier'[w].pc \in {"idle", "next"} /\ retrier'[w].queue = retrier[w].queue \ {d}
      BY <2>2, <1>0, AdvanceType
    <2>4. \A e \in Deliveries : InFlight(e)' = InFlight(e)
      BY <2>1, <2>2, <2>3, FlightKept
    <2>5. \A v \in Retriers : /\ retrier'[v].pc = "posted" => retrier'[v] = retrier[v]
                              /\ retrier'[v].queue \subseteq retrier[v].queue
      BY <2>2, <2>3
    <2> QED
      BY <2>1, <2>4, <2>5, <1>0 DEF BackoffInv
  <1>8. ASSUME NEW w \in Retriers, NEW d \in Deliveries, LoadFresh(w, d) PROVE BackoffInv'
    <2>1. UNCHANGED <<call, log, since, lost, shared>> /\ retrier[w].pc = "next"
      BY <1>8 DEF LoadFresh
    <2>2. /\ retrier'[w].pc = "loaded" /\ retrier'[w].queue = retrier[w].queue
          /\ \A v \in Retriers : v # w => retrier'[v] = retrier[v]
      BY <1>8, <1>0 DEF LoadFresh, TypeOK, Retrier
    <2>3. \A e \in Deliveries : InFlight(e)' = InFlight(e)
      BY <2>1, <2>2, FlightKept
    <2>4. \A v \in Retriers : /\ retrier'[v].pc = "posted" => retrier'[v] = retrier[v]
                              /\ retrier'[v].queue \subseteq retrier[v].queue
      BY <2>2
    <2> QED
      BY <2>1, <2>3, <2>4, <1>0 DEF BackoffInv
  <1>9. ASSUME NEW w \in Retriers, NEW d \in Deliveries, Attempt(w, d) PROVE BackoffInv'
    <2>1. UNCHANGED <<call, log, lost, shared>> /\ retrier[w].pc = "loaded" /\ retrier[w].cur = {d}
      BY <1>9 DEF Attempt
    <2>2. PICK o \in Outcomes :
            /\ retrier' = [retrier EXCEPT ![w].pc = "posted", ![w].row = AfterAttempt(@, o)]
            /\ Requested(d, o)
      BY <1>9 DEF Attempt
    <2>3. retrier[w].row \in Row /\ retrier[w].row.attempt >= 1
      BY <1>0, <2>1 DEF Retrier, TypeInv, InHandInv
    <2>4. PICK q \in Row : q = AfterAttempt(retrier[w].row, o) /\ q.status = o
      BY <2>3, AfterAttemptRow
    <2>5. retrier' = [retrier EXCEPT ![w].pc = "posted", ![w].row = q]
      BY <2>2, <2>4, <1>0 DEF TypeOK
    <2>6. /\ retrier'[w].pc = "posted" /\ retrier'[w].cur = {d} /\ retrier'[w].row = q
          /\ retrier'[w].queue = retrier[w].queue
          /\ \A v \in Retriers : v # w => retrier'[v] = retrier[v]
      BY <2>1, <2>5, <1>0 DEF TypeOK, Retrier
    <2>7. /\ \A e \in Deliveries : e # d => since'[e] = since[e]
          /\ since'[d] = IF o = "rate_limited" THEN since[d] ELSE 0
      BY <2>2, <1>0 DEF Requested, TypeOK
    <2>8. /\ d \in retrier[w].queue
          /\ d \in Single => \A v \in Retriers : v # w => d \notin retrier[v].cur
      BY <2>1, <1>0, OnlyHolder DEF Single
    <2>9. o # "rate_limited" => InFlight(d)'
      BY <2>4, <2>6 DEF InFlight
    <2>10. Spaced(q, since'[d])
      BY <2>3, <2>4, <2>7, AttemptSpaced
    <2>11. d \in Single => call[d[1]].rows[d[2]] = NoRow
      <3>1. call[d[1]].pc = "done"
        BY <2>8, <1>0, QueuedIsCommitted
      <3> QED
        BY <3>1, <1>0 DEF Sound
    <2>12. ASSUME NEW e \in Deliveries, e \in Single, lost[e] = 0
           PROVE  /\ Spaced(call[e[1]].rows[e[2]], since'[e])
                  /\ ~InFlight(e)' => Spaced(log[e], since'[e])
      <3>1. CASE e = d
        <4>1. ~InFlight(d)
          BY <2>1, <2>8, <2>12, <3>1 DEF InFlight
        <4> QED
          BY <4>1, <2>7, <2>9, <2>11, <2>12, <3>1, <1>0, NoRowSpaced DEF BackoffInv
      <3>2. CASE e # d
        <4>1. InFlight(e)' = InFlight(e)
          BY <2>1, <2>6, <3>2 DEF InFlight
        <4> QED
          BY <4>1, <2>7, <2>12, <3>2 DEF BackoffInv
      <3> QED
        BY <3>1, <3>2
    <2>13. ASSUME NEW e \in Deliveries, e \in Single, lost[e] = 0, NEW v \in Retriers,
                  retrier'[v].pc = "posted", e \in retrier'[v].cur
           PROVE  Spaced(retrier'[v].row, since'[e])
      <3>1. CASE v = w
        BY <2>6, <2>10, <2>13, <3>1
      <3>2. CASE v # w
        <4>1. e # d
          BY <2>6, <2>8, <2>13, <3>2
        <4> QED
          BY <2>6, <2>7, <2>13, <3>2, <4>1 DEF BackoffInv
      <3> QED
        BY <3>1, <3>2
    <2>14. \A v \in Retriers : \A e \in retrier'[v].queue \ shared : log[e].wait = 0
      BY <2>6 DEF BackoffInv
    <2> QED
      BY <2>1, <2>12, <2>13, <2>14, <1>0 DEF BackoffInv
  <1>10. ASSUME NEW w \in Retriers, NEW d \in Deliveries, CommitRetry(w, d) PROVE BackoffInv'
    <2>1. UNCHANGED <<call, since, lost, shared>> /\ retrier[w].pc = "posted" /\ retrier[w].cur = {d}
      BY <1>10 DEF CommitRetry
    <2>2. /\ retrier'[w] = Advance(retrier[w], d)
          /\ \A v \in Retriers : v # w => retrier'[v] = retrier[v]
      BY <1>10, <1>0 DEF CommitRetry, TypeOK
    <2>3. retrier'[w].pc \in {"idle", "next"} /\ retrier'[w].queue = retrier[w].queue \ {d}
      BY <2>2, <1>0, AdvanceType
    <2>4. log'[d] = retrier[w].row /\ \A e \in Deliveries : e # d => log'[e] = log[e]
      BY <1>10, <1>0 DEF CommitRetry, TypeOK
    <2>5. \A v \in Retriers : /\ retrier'[v].pc = "posted" => retrier'[v] = retrier[v]
                              /\ retrier'[v].queue \subseteq retrier[v].queue
      BY <2>2, <2>3
    <2>6. ASSUME NEW e \in Deliveries, e \in Single, lost[e] = 0
          PROVE  /\ Spaced(call[e[1]].rows[e[2]], since[e])
                 /\ ~InFlight(e)' => Spaced(log'[e], since[e])
      <3>1. CASE e = d
        BY <2>1, <2>4, <2>6, <3>1 DEF BackoffInv
      <3>2. CASE e # d
        <4>1. InFlight(e)' = InFlight(e)
          BY <2>1, <2>2, <2>3, <3>2 DEF InFlight
        <4> QED
          BY <4>1, <2>4, <2>6, <3>2 DEF BackoffInv
      <3> QED
        BY <3>1, <3>2
    <2>7. ASSUME NEW v \in Retriers, NEW e \in retrier'[v].queue \ shared PROVE log'[e].wait = 0
      <3>1. e \in retrier[v].queue /\ e \in Deliveries
        BY <2>5, <1>0
      <3>2. e # d
        <4>1. CASE v = w
          BY <2>3, <4>1
        <4>2. CASE v # w
          BY <2>1, <3>1, <4>2, <1>0 DEF BaseInv
        <4> QED
          BY <4>1, <4>2
      <3> QED
        BY <2>4, <3>1, <3>2 DEF BackoffInv
    <2> QED
      BY <2>1, <2>5, <2>6, <2>7, <1>0 DEF BackoffInv
  <1>11. ASSUME NEW w \in Retriers, CrashRetrier(w) PROVE BackoffInv'
    <2>1. UNCHANGED <<call, log, since, shared>>
      BY <1>11 DEF CrashRetrier
    <2>2. /\ retrier'[w] = IdleRetrier /\ IdleRetrier.pc = "idle" /\ IdleRetrier.queue = {}
          /\ \A v \in Retriers : v # w => retrier'[v] = retrier[v]
      BY <1>11, <1>0 DEF CrashRetrier, TypeOK, IdleRetrier
    <2>3. ASSUME NEW e \in Deliveries, lost'[e] = 0 PROVE lost[e] = 0 /\ InFlight(e)' = InFlight(e)
      <3>1. /\ lost[e] = 0
            /\ ~(retrier[w].pc = "posted" /\ e \in retrier[w].cur /\ retrier[w].row.status # "rate_limited")
        BY <1>11, <2>3, <1>0 DEF CrashRetrier
      <3>2. InFlight(e)' = InFlight(e)
        BY <3>1, <2>2 DEF InFlight
      <3> QED
        BY <3>1, <3>2
    <2>4. \A v \in Retriers : /\ retrier'[v].pc = "posted" => retrier'[v] = retrier[v]
                              /\ retrier'[v].queue \subseteq retrier[v].queue
      BY <2>2
    <2> QED
      BY <2>1, <2>3, <2>4, <1>0 DEF BackoffInv
  <1>12. ASSUME Tick PROVE BackoffInv'
    <2>1. UNCHANGED <<lost, shared>>
      BY <1>12 DEF Tick
    <2>2. \A d \in Deliveries : /\ log'[d] = Closer(log[d])
                                /\ since'[d] = IF since[d] < LongestDelay THEN since[d] + 1 ELSE since[d]
      BY <1>12 DEF Tick
    <2>3. ASSUME NEW k \in Calls, NEW h \in Hooks
          PROVE  call'[k].rows[h] = Closer(call[k].rows[h]) /\ call[k].rows[h] \in Row
      <3>1. call'[k] = [call[k] EXCEPT !.rows = [g \in Hooks |-> Closer(call[k].rows[g])]]
        BY <1>12 DEF Tick
      <3> QED
        BY <3>1, <1>0 DEF Call
    <2>4. ASSUME NEW w \in Retriers
          PROVE  /\ retrier'[w].pc = retrier[w].pc /\ retrier'[w].cur = retrier[w].cur
                 /\ retrier'[w].queue = retrier[w].queue
                 /\ retrier'[w].row = Closer(retrier[w].row) /\ retrier[w].row \in Row
                 /\ retrier'[w].row.status = retrier[w].row.status
                 /\ retrier[w].queue \subseteq Deliveries
      <3>1. retrier'[w] = [retrier[w] EXCEPT !.row = Closer(retrier[w].row)]
        BY <1>12 DEF Tick
      <3>2. /\ retrier'[w].pc = retrier[w].pc /\ retrier'[w].cur = retrier[w].cur
            /\ retrier'[w].queue = retrier[w].queue
            /\ retrier'[w].row = Closer(retrier[w].row)
        BY <3>1, <1>0 DEF Retrier
      <3>3. retrier[w].row \in Row /\ retrier[w].queue \subseteq Deliveries
        BY <1>0 DEF Retrier
      <3> QED
        BY <3>2, <3>3, CloserRow
    <2>5. \A d \in Deliveries : InFlight(d)' = InFlight(d)
      BY <2>4 DEF InFlight
    <2>6. ASSUME NEW d \in Deliveries, d \in Single, lost[d] = 0
          PROVE  /\ Spaced(call'[d[1]].rows[d[2]], since'[d])
                 /\ ~InFlight(d) => Spaced(log'[d], since'[d])
                 /\ \A w \in Retriers :
                      (retrier[w].pc = "posted" /\ d \in retrier[w].cur)
                        => Spaced(retrier'[w].row, since'[d])
      <3>1. since[d] \in Nat
        BY <1>0
      <3>2. Spaced(call'[d[1]].rows[d[2]], since'[d])
        BY <2>2, <2>3, <2>6, <3>1, <1>0, TickSpaced DEF BackoffInv
      <3>3. ~InFlight(d) => Spaced(log'[d], since'[d])
        BY <2>2, <2>6, <3>1, <1>0, TickSpaced DEF BackoffInv
      <3>4. ASSUME NEW w \in Retriers, retrier[w].pc = "posted", d \in retrier[w].cur
            PROVE  Spaced(retrier'[w].row, since'[d])
        <4>1. Spaced(retrier[w].row, since[d])
          BY <2>6, <3>4 DEF BackoffInv
        <4> QED
          BY <2>2, <2>4, <3>1, <4>1, TickSpaced
      <3> QED
        BY <3>2, <3>3, <3>4
    <2>7. \A w \in Retriers : \A d \in retrier'[w].queue \ shared : log'[d].wait = 0
      <3> SUFFICES ASSUME NEW w \in Retriers, NEW d \in retrier'[w].queue \ shared PROVE log'[d].wait = 0
        OBVIOUS
      <3>1. log'[d] = Closer(log[d]) /\ log[d].wait = 0 /\ log[d] \in Row
        BY <2>2, <2>4, <1>0 DEF BackoffInv
      <3> QED
        BY <3>1 DEF Closer, Row
    <2> QED
      BY <2>1, <2>4, <2>5, <2>6, <2>7, <1>0 DEF BackoffInv
  <1>13. CASE UNCHANGED vars
    BY <1>0, <1>13 DEF vars, BackoffInv, InFlight, Single
  <1> QED
    BY <1>1, <1>2, <1>3, <1>4, <1>5, <1>6, <1>7, <1>8, <1>9, <1>10, <1>11, <1>12, <1>13
    DEF Next, DispatchStep, RetryStep

\* A step that repeats a request finds the delay over.
LEMMA RepeatStep ==
  ASSUME TypeInv, DeliveryInv, BackoffInv, [Next]_vars,
         NEW d \in Single, posts'[d] > posts[d], posts[d] > 0, lost[d] = 0
  PROVE  since[d] >= Delay(log[d].attempt)
  <1>0. /\ posts \in [Deliveries -> Nat] /\ since[d] \in Nat
        /\ Sound(call[d[1]], d[2], log[d], posts[d], lost[d], Extra(d))
        /\ d \in Deliveries /\ d[1] \in Calls /\ d[2] \in Hooks
        /\ \A k \in Calls, h \in Hooks : <<k, h>> \in Deliveries
    BY DEF TypeInv, TypeOK, Deliveries, DeliveryInv, Single
  <1>1. ASSUME NEW k \in Calls, NEW h \in Hooks, Deliver(k, h) PROVE FALSE
    <2>1. d = <<k, h>>
      BY <1>0, <1>1 DEF Deliver, Requested
    <2>2. call[k].pc = "fanout" /\ h \in call[k].todo
      BY <1>1 DEF Deliver
    <2>3. call[k].rows[h] = NoRow /\ posts[d] <= Made(NoRow) + lost[d]
      BY <2>1, <2>2, <1>0 DEF Sound
    <2>4. Made(NoRow) = 0
      BY DEF Made, NoRow
    <2> QED
      BY <2>3, <2>4, <1>0
  <1>2. ASSUME NEW w \in Retriers, NEW e \in Deliveries, Attempt(w, e)
        PROVE  since[d] >= Delay(log[d].attempt)
    <2>1. d = e
      BY <1>0, <1>2 DEF Attempt, Requested
    <2>2. retrier[w].pc = "loaded" /\ retrier[w].cur = {d}
      BY <1>2, <2>1 DEF Attempt
    <2>3. d \in retrier[w].queue /\ log[d].status = "failed" /\ log[d].attempt < MaxAttempts
      BY <2>2 DEF DeliveryInv, BaseInv, RetrierSound, Single
    <2>4. ~InFlight(d)
      <3>1. \A v \in Retriers : v # w => d \notin retrier[v].cur
        BY <2>3, OnlyHolder DEF DeliveryInv, Single
      <3> QED
        BY <2>2, <3>1 DEF InFlight
    <2>5. Spaced(log[d], since[d]) /\ log[d].wait = 0
      BY <2>3, <2>4 DEF BackoffInv, Single
    <2>6. since[d] + 0 >= Delay(log[d].attempt)
      BY <2>3, <2>5 DEF Spaced
    <2> QED
      BY <2>6, <1>0
  <1>3. CASE posts' = posts
    BY <1>0, <1>3
  <1> QED
    BY <1>1, <1>2, <1>3, Zenon
    DEF Next, vars, DispatchStep, RetryStep, CreateWebhook, DeleteWebhook, StartDispatch,
        CommitDispatch, CrashDispatch, Scan, SkipInactive, LoadFresh, CommitRetry, CrashRetrier, Tick

\* A repeated request of a delivery waits out the exponential backoff that
\* _attempt_delivery has set, unless a crash has lost a request of it or two
\* retry jobs held it at once.
THEOREM BackoffHonoured == Spec => BackoffKept
  <1>1. Init => TypeInv /\ DeliveryInv /\ BackoffInv
    BY TypeInit, DeliveryInit, BackoffInit
  <1>2. TypeInv /\ DeliveryInv /\ BackoffInv /\ [Next]_vars
          => (TypeInv /\ DeliveryInv /\ BackoffInv)'
    BY TypeStep, DeliveryStep, BackoffStep
  <1>3. TypeInv /\ DeliveryInv /\ BackoffInv /\ [Next]_vars =>
          [\A d \in Deliveries \ shared :
             (posts'[d] > posts[d] /\ posts[d] > 0 /\ lost[d] = 0)
               => since[d] >= Delay(log[d].attempt)]_vars
    BY RepeatStep DEF Single
  <1> QED
    BY <1>1, <1>2, <1>3, PTL DEF Spec, BackoffKept

(***************************************************************************)
(* The rate limit, for any number of processes and restarts.  A delivery   *)
(* that passed belongs to a calendar minute of Redis or to a life of a     *)
(* process, each of which keeps to its own bound.                          *)
(***************************************************************************)
\* Whatever may have a window of its own.
Lives == Procs \union (1 .. restarts)

\* What Redis let pass in one calendar minute, and one life in one window.
RedisIn(b) == {d \in passed : d.by = {} /\ d.at \div Minute = b}
LifeIn(i, t) == {d \in passed : d.by = {i} /\ d.at \in WindowOf(t)}

\* Types; every delivery lies in the past and has its limiter.
LimiterTypes ==
  /\ now \in Times /\ count \in Nat /\ restarts \in Nat
  /\ life \in [Procs -> Lives]
  /\ windows \in [Procs -> SUBSET passed]
  /\ IsFiniteSet(passed)
  /\ \A d \in passed : /\ d.at \in 0 .. now
                       /\ d.by = {} \/ \E i \in Lives : d.by = {i}

\* The counter of the current minute is at least what passed in it.
BucketInv ==
  /\ \A b \in Nat : Cardinality(RedisIn(b)) <= MaxPerMin
  /\ Cardinality(RedisIn(now \div Minute)) <= count

\* A window has the recent deliveries of the life of its process, and no two
\* processes share a life.
LifeInv ==
  /\ \A p, q \in Procs : life[p] = life[q] => p = q
  /\ \A p \in Procs : Recent(p) = {d \in passed : d.by = {life[p]} /\ d.at + Minute > now}

LifeBound == \A i \in Lives, t \in Times : Cardinality(LifeIn(i, t)) <= MaxPerMin

LimiterInv == LimiterTypes /\ BucketInv /\ LifeInv /\ LifeBound
-----------------------------------------------------------------------------
(* Counting.                                                               *)

\* A set that is spread over the members of A, with at most m at each, has at
\* most m times as many elements as A.
LEMMA SpreadBound ==
  ASSUME NEW D, NEW A, NEW m \in Nat, NEW src \in [D -> A], IsFiniteSet(A), IsFiniteSet(D),
         \A a \in A : Cardinality({d \in D : src[d] = a}) <= m
  PROVE  Cardinality(D) <= m * Cardinality(A)
  <1> DEFINE F(a) == {d \in D : src[d] = a}
             I == 1 .. m
             h == [a \in A |-> CHOOSE g : g \in Injection(F(a), I)]
             f == [d \in D |-> <<src[d], h[src[d]][d]>>]
  <1>1. ASSUME NEW a \in A
        PROVE  h[a] \in Injection(F(a), I)
    <2>1. IsFiniteSet(F(a)) /\ Cardinality(F(a)) <= m
      BY FS_Subset
    <2>2. PICK n \in Nat : n = Cardinality(F(a))
      BY <2>1, FS_CardinalityType
    <2>3. ExistsBijection(1 .. n, F(a))
      BY <2>1, <2>2, FS_CardinalityType
    <2>4. ExistsBijection(F(a), 1 .. n)
      BY <2>3, Fun_ExistsBijSymmetric
    <2>5. PICK g : g \in Bijection(F(a), 1 .. n)
      BY <2>4 DEF ExistsBijection
    <2>6. g \in [F(a) -> 1 .. n] /\ \A x, y \in F(a) : g[x] = g[y] => x = y
      BY <2>5 DEF Bijection, Injection, IsInjective
    <2>7. 1 .. n \subseteq I
      BY <2>1, <2>2
    <2>8. g \in [F(a) -> I]
      BY <2>6, <2>7
    <2>9. g \in Injection(F(a), I)
      BY <2>6, <2>8, Fun_IsInj
    <2> QED
      BY <2>9
  <1>2. ASSUME NEW d \in D
        PROVE  src[d] \in A /\ d \in F(src[d]) /\ h[src[d]][d] \in I
    <2>1. src[d] \in A /\ d \in F(src[d])
      OBVIOUS
    <2>2. h[src[d]] \in [F(src[d]) -> I]
      BY <1>1, <2>1 DEF Injection
    <2> QED
      BY <2>1, <2>2
  <1>3. f \in [D -> A \X I]
    BY <1>2
  <1>4. ASSUME NEW d \in D, NEW e \in D, f[d] = f[e]
        PROVE  d = e
    <2>1. src[d] = src[e] /\ h[src[d]][d] = h[src[e]][e]
      BY <1>4
    <2>2. d \in F(src[d]) /\ e \in F(src[d]) /\ src[d] \in A
      BY <1>2, <2>1
    <2>3. h[src[d]] \in Injection(F(src[d]), I)
      BY <1>1, <2>2
    <2> HIDE DEF h, F
    <2> QED
      BY <2>1, <2>2, <2>3 DEF Injection, IsInjective
  <1>5. f \in Injection(D, A \X I)
    BY <1>3, <1>4, Fun_IsInj
  <1> HIDE DEF f, I
  <1>6. IsFiniteSet(I) /\ Cardinality(I) = m
    BY FS_Interval DEF I
  <1>7. IsFiniteSet(A \X I) /\ Cardinality(A \X I) = Cardinality(A) * Cardinality(I)
    BY <1>6, FS_Product
  <1>8. Cardinality(D) <= Cardinality(A \X I)
    BY <1>5, <1>7, FS_Injection
  <1> QED
    BY <1>6, <1>7, <1>8, FS_CardinalityType

\* A window reaches into two calendar minutes.
LEMMA TwoMinutes ==
  ASSUME NEW t \in Nat, NEW u \in Nat, u <= t, u + Minute > t
  PROVE  u \div Minute = t \div Minute \/ u \div Minute = t \div Minute - 1
  BY RateLimitConstants

-----------------------------------------------------------------------------
(* Each limiter keeps to its own bound.                                    *)

\* Subsets of what passed are finite.
LEMMA PassedSubsets ==
  ASSUME LimiterTypes, NEW S \in SUBSET passed
  PROVE  IsFiniteSet(S) /\ Cardinality(S) \in Nat
  BY FS_Subset, FS_CardinalityType DEF LimiterTypes

\* One more element.
LEMMA OneMore ==
  ASSUME NEW S, NEW x, NEW T, IsFiniteSet(S), T \subseteq S \union {x}
  PROVE  IsFiniteSet(T) /\ Cardinality(T) \in Nat /\ Cardinality(T) <= Cardinality(S) + 1
  <1>1. IsFiniteSet(S \union {x}) /\ Cardinality(S \union {x}) <= Cardinality(S) + 1
    <2>1. Cardinality(S) \in Nat
      BY FS_CardinalityType
    <2>2. IsFiniteSet(S \union {x})
          /\ Cardinality(S \union {x}) = IF x \in S THEN Cardinality(S) ELSE Cardinality(S) + 1
      BY FS_AddElement
    <2> QED
      BY <2>1, <2>2
  <1>2. IsFiniteSet(T) /\ Cardinality(T) <= Cardinality(S \union {x})
    BY <1>1, FS_Subset
  <1> QED
    BY <1>1, <1>2, FS_CardinalityType

\* Nothing has passed at the start.
LEMMA LimiterStart == LimiterInit => LimiterInv
  <1> SUFFICES ASSUME LimiterInit PROVE LimiterInv
    OBVIOUS
  <1>1. IsFiniteSet({}) /\ Cardinality({}) = 0
    BY FS_EmptySet
  <1>2. \A b : RedisIn(b) = {}
    BY DEF LimiterInit, RedisIn
  <1>3. \A i, t : LifeIn(i, t) = {}
    BY DEF LimiterInit, LifeIn
  <1>4. LimiterTypes
    BY <1>1, RateLimitConstants DEF LimiterInit, LimiterTypes, Lives, Times
  <1>5. BucketInv
    BY <1>1, <1>2, RateLimitConstants DEF LimiterInit, BucketInv
  <1>6. LifeInv
    BY DEF LimiterInit, LifeInv, Recent
  <1>7. LifeBound
    BY <1>1, <1>3, RateLimitConstants DEF LifeBound
  <1> QED
    BY <1>4, <1>5, <1>6, <1>7 DEF LimiterInv

\* What Redis lets pass is counted in the minute of its clock reading
\* (_is_rate_allowed), and no window sees it.
LEMMA AskRedisStep ==
  ASSUME LimiterInv, NEW p \in Procs, AskRedis(p)
  PROVE  LimiterInv'
  <1> UNCHANGED <<now, windows, restarts, life>>
    BY DEF AskRedis
  <1>1. CASE ~RedisAllows
    <2>1. passed' = passed /\ count' = count + 1
      BY <1>1 DEF AskRedis
    <2>2. LimiterTypes' /\ LifeInv' /\ LifeBound'
      <3>1. LimiterTypes'
        BY <2>1 DEF LimiterInv, LimiterTypes, Lives
      <3>2. LifeInv'
        BY <2>1 DEF LimiterInv, LifeInv, Recent
      <3>3. LifeBound'
        BY <2>1 DEF LimiterInv, LifeBound, Lives, LifeIn
      <3> QED
        BY <3>1, <3>2, <3>3
    <2>3. BucketInv'
      <3>1. \A b : RedisIn(b)' = RedisIn(b)
        BY <2>1 DEF RedisIn
      <3>2. Cardinality(RedisIn(now \div Minute)) \in Nat
        BY PassedSubsets DEF RedisIn, LimiterInv
      <3> QED
        BY <2>1, <3>1, <3>2 DEF LimiterInv, BucketInv, LimiterTypes
    <2> QED
      BY <2>2, <2>3 DEF LimiterInv
  <1>2. CASE RedisAllows
    <2> DEFINE d == Delivery({}, count + 1)
    <2>1. passed' = passed \union {d} /\ d.at = now /\ d.by = {} /\ count' = count + 1
      BY <1>2 DEF Delivery, AskRedis
    <2>2. now \in Nat /\ count \in Nat /\ count + 1 <= MaxPerMin
      BY <1>2 DEF LimiterInv, LimiterTypes, Times, RedisAllows
    <2> HIDE DEF d
    <2>3. LimiterTypes'
      <3>1. IsFiniteSet(passed')
        BY <2>1, FS_AddElement DEF LimiterInv, LimiterTypes
      <3>2. windows' \in [Procs -> SUBSET passed']
        BY <2>1 DEF LimiterInv, LimiterTypes
      <3> QED
        BY <2>1, <2>2, <3>1, <3>2 DEF LimiterInv, LimiterTypes, Lives
    <2>4. LifeInv' /\ LifeBound'
      <3>1. \A i, t : LifeIn(i, t)' = LifeIn(i, t)
        BY <2>1 DEF LifeIn
      <3>2. LifeBound'
        BY <3>1 DEF LimiterInv, LifeBound, Lives
      <3>3. ASSUME NEW q \in Procs
            PROVE  Recent(q)' = {e \in passed' : e.by = {life'[q]} /\ e.at + Minute > now'}
        BY <2>1 DEF LimiterInv, LifeInv, Recent
      <3> QED
        BY <3>2, <3>3 DEF LimiterInv, LifeInv
    <2>5. BucketInv'
      <3>1. PICK c \in Nat : c = now \div Minute
        BY <2>2, RateLimitConstants
      <3>2. /\ RedisIn(c)' \subseteq RedisIn(c) \union {d}
            /\ \A b : b # c => RedisIn(b)' = RedisIn(b)
        BY <2>1, <3>1 DEF RedisIn
      <3>3. IsFiniteSet(RedisIn(c)) /\ Cardinality(RedisIn(c)) \in Nat
        BY PassedSubsets DEF RedisIn, LimiterInv
      <3>4. Cardinality(RedisIn(c)') <= Cardinality(RedisIn(c)) + 1
            /\ Cardinality(RedisIn(c)') \in Nat
        BY <3>2, <3>3, OneMore
      <3>5. Cardinality(RedisIn(c)) <= count
        BY <3>1 DEF LimiterInv, BucketInv
      <3>6. Cardinality(RedisIn(c)') <= count'
        BY <2>1, <2>2, <3>3, <3>4, <3>5
      <3>7. Cardinality(RedisIn(c)') <= MaxPerMin
        BY <2>1, <2>2, <3>4, <3>6, RateLimitConstants
      <3>8. ASSUME NEW b \in Nat
            PROVE  Cardinality(RedisIn(b)') <= MaxPerMin
        <4>1. CASE b = c
          BY <3>7, <4>1
        <4>2. CASE b # c
          BY <3>2, <4>2 DEF LimiterInv, BucketInv
        <4> QED
          BY <4>1, <4>2
      <3>9. now' = now
        OBVIOUS
      <3> QED
        BY <3>1, <3>6, <3>8, <3>9 DEF BucketInv
    <2> QED
      BY <2>3, <2>4, <2>5 DEF LimiterInv
  <1> QED
    BY <1>1, <1>2

\* A later instant is in the same minute or in a later one.
LEMMA MinutesGrow ==
  ASSUME NEW t \in Nat, NEW u \in Nat, u <= t
  PROVE  u \div Minute \in Nat /\ u \div Minute <= t \div Minute
  BY RateLimitConstants

\* What a window lets pass (is_allowed) is one more of the recent deliveries of
\* its life, and no window that ends later holds more of them.
LEMMA AskLocalStep ==
  ASSUME LimiterInv, NEW p \in Procs, AskLocal(p)
  PROVE  LimiterInv'
  <1> UNCHANGED <<now, restarts, life>>
    BY DEF AskLocal
  <1>1. count \in Nat /\ now \in Nat /\ Minute \in Nat \ {0}
    BY RateLimitConstants DEF LimiterInv, LimiterTypes, Times
  <1>2. count' \in Nat /\ count' >= count
    BY <1>1 DEF AskLocal
  <1>3. PICK n \in Nat : n = Cardinality(Recent(p))
    <2>1. Recent(p) \in SUBSET passed
      BY DEF LimiterInv, LimiterTypes, Recent
    <2> QED
      BY <2>1, PassedSubsets DEF LimiterInv
  <1>4. \A e \in passed : e.at \in Nat /\ e.at <= now
    BY <1>1 DEF LimiterInv, LimiterTypes
  <1>5. Cardinality(RedisIn(now \div Minute)) \in Nat
    BY PassedSubsets DEF RedisIn, LimiterInv
  <1>6. ASSUME \A b : RedisIn(b)' = RedisIn(b)
        PROVE  BucketInv'
    <2>1. PICK c : c = now \div Minute
      OBVIOUS
    <2>2. (now \div Minute)' = c
      BY <2>1
    <2>3. Cardinality(RedisIn(c)) \in Nat /\ Cardinality(RedisIn(c)) <= count
      BY <1>5, <2>1 DEF LimiterInv, BucketInv
    <2>4. Cardinality(RedisIn(c)') <= count'
      BY <1>1, <1>2, <1>6, <2>3
    <2>5. \A b \in Nat : Cardinality(RedisIn(b)') <= MaxPerMin
      BY <1>6 DEF LimiterInv, BucketInv
    <2> QED
      BY <2>2, <2>4, <2>5 DEF BucketInv
  <1>7. CASE n >= MaxPerMin
    <2>1. passed' = passed /\ windows' = [windows EXCEPT ![p] = Recent(p)]
      BY <1>3, <1>7 DEF AskLocal
    <2>2. windows' \in [Procs -> SUBSET passed]
      BY <2>1 DEF LimiterInv, LimiterTypes, Recent
    <2>3. LimiterTypes'
      BY <1>2, <2>1, <2>2 DEF LimiterInv, LimiterTypes, Lives
    <2>4. BucketInv'
      <3>1. \A b : RedisIn(b)' = RedisIn(b)
        BY <2>1 DEF RedisIn
      <3> QED
        BY <1>6, <3>1
    <2>5. \A q \in Procs : Recent(q)' = Recent(q)
      BY <2>1 DEF Recent, LimiterInv, LimiterTypes
    <2>6. LifeInv'
      BY <2>1, <2>5 DEF LimiterInv, LifeInv
    <2>7. LifeBound'
      BY <2>1 DEF LimiterInv, LifeBound, Lives, LifeIn
    <2> QED
      BY <2>3, <2>4, <2>6, <2>7 DEF LimiterInv
  <1>8. CASE n < MaxPerMin
    <2>1. PICK d : /\ d = Delivery({life[p]}, n + 1)
                   /\ d.at = now /\ d.by = {life[p]}
      <3>1. PICK e : e = Delivery({life[p]}, n + 1)
        OBVIOUS
      <3>2. e.at = now /\ e.by = {life[p]}
        BY <3>1 DEF Delivery
      <3> QED
        BY <3>1, <3>2
    <2>2. /\ passed' = passed \union {d}
          /\ windows' = [windows EXCEPT ![p] = Recent(p) \union {d}]
      <3>1. ~(Cardinality(Recent(p)) >= MaxPerMin)
        BY <1>3, <1>8, RateLimitConstants
      <3>2. d = Delivery({life[p]}, Cardinality(Recent(p)) + 1)
        BY <1>3, <2>1
      <3> QED
        BY <3>1, <3>2, Zenon DEF AskLocal
    <2>3. LimiterTypes'
      <3>1. IsFiniteSet(passed')
        <4>1. IsFiniteSet(passed)
          BY DEF LimiterInv, LimiterTypes
        <4>2. IsFiniteSet(passed \union {d})
          BY <4>1, FS_AddElement
        <4> QED
          BY <2>2, <4>2
      <3>2. windows' \in [Procs -> SUBSET passed']
        BY <2>2 DEF LimiterInv, LimiterTypes, Recent
      <3>3. life[p] \in Lives /\ d.by = {life[p]} /\ d.at \in 0 .. now
        <4>1. life[p] \in Lives
          BY DEF LimiterInv, LimiterTypes
        <4>2. d.at \in 0 .. now
          BY <1>1, <2>1
        <4> QED
          BY <2>1, <4>1, <4>2
      <3>4. Lives' = Lives
        BY DEF Lives
      <3>5. \A e \in passed' : e.at \in 0 .. now /\ (e.by = {} \/ \E i \in Lives : e.by = {i})
        BY <2>2, <3>3 DEF LimiterInv, LimiterTypes
      <3> QED
        BY <1>2, <3>1, <3>2, <3>4, <3>5 DEF LimiterInv, LimiterTypes
    <2>4. BucketInv'
      <3>1. \A b : RedisIn(b)' = RedisIn(b)
        BY <2>1, <2>2 DEF RedisIn
      <3> QED
        BY <1>6, <3>1
    <2>5. ASSUME NEW q \in Procs
          PROVE  Recent(q)' = {e \in passed' : e.by = {life'[q]} /\ e.at + Minute > now'}
      <3>1. Recent(q) = {e \in passed : e.by = {life[q]} /\ e.at + Minute > now}
        BY DEF LimiterInv, LifeInv
      <3>2. CASE q = p
        <4>1. windows'[q] = Recent(q) \union {d}
          BY <2>2, <3>2 DEF LimiterInv, LimiterTypes
        <4>2. d.at + Minute > now
          BY <1>1, <2>1
        <4>3. Recent(q)' = Recent(q) \union {d}
          BY <4>1, <4>2 DEF Recent
        <4> QED
          BY <2>1, <2>2, <3>1, <3>2, <4>2, <4>3
      <3>3. CASE q # p
        <4>1. windows'[q] = windows[q]
          BY <2>2, <3>3 DEF LimiterInv, LimiterTypes
        <4>2. Recent(q)' = Recent(q)
          BY <4>1 DEF Recent
        <4>3. d.by # {life[q]}
          BY <2>1, <3>3 DEF LimiterInv, LifeInv
        <4> QED
          BY <2>2, <3>1, <4>2, <4>3
      <3> QED
        BY <3>2, <3>3
    <2>6. LifeInv'
      BY <2>5 DEF LimiterInv, LifeInv
    <2>7. ASSUME NEW i \in Lives, NEW t \in Times
          PROVE  Cardinality(LifeIn(i, t)') <= MaxPerMin
      <3>1. CASE i = life[p] /\ now \in WindowOf(t)
        <4>1. now <= t /\ t \in Nat
          BY <3>1, RateLimitConstants DEF WindowOf, Times
        <4>2. \A e \in LifeIn(i, t) : e \in Recent(p)
          BY <1>1, <1>4, <3>1, <4>1 DEF LifeIn, WindowOf, LimiterInv, LifeInv
        <4>3. LifeIn(i, t)' \subseteq LifeIn(i, t) \union {d}
          BY <2>2 DEF LifeIn
        <4>4. LifeIn(i, t)' \subseteq Recent(p) \union {d}
          BY <4>2, <4>3
        <4>5. Recent(p) \in SUBSET passed
          BY DEF LimiterInv, LimiterTypes, Recent
        <4>6. IsFiniteSet(Recent(p))
          BY <4>5, PassedSubsets DEF LimiterInv
        <4>7. Cardinality(LifeIn(i, t)') \in Nat /\ Cardinality(LifeIn(i, t)') <= n + 1
          BY <1>3, <4>4, <4>6, OneMore
        <4> QED
          BY <1>8, <4>7, RateLimitConstants
      <3>2. CASE ~(i = life[p] /\ now \in WindowOf(t))
        <4>1. LifeIn(i, t)' = LifeIn(i, t)
          BY <2>1, <2>2, <3>2 DEF LifeIn
        <4> QED
          BY <4>1 DEF LimiterInv, LifeBound
      <3> QED
        BY <3>1, <3>2
    <2>8. LifeBound'
      BY <2>7 DEF LifeBound, Lives
    <2> QED
      BY <2>3, <2>4, <2>6, <2>8 DEF LimiterInv
  <1> QED
    BY <1>3, <1>7, <1>8, RateLimitConstants

\* A restart empties one window and starts a life of which nothing has passed.
LEMMA RestartStep ==
  ASSUME LimiterInv, NEW p \in Procs, Restart(p)
  PROVE  LimiterInv'
  <1> UNCHANGED <<now, count, passed>>
    BY DEF Restart
  <1>1. /\ restarts' = restarts + 1 /\ restarts \in Nat
        /\ windows' = [windows EXCEPT ![p] = {}]
        /\ life' = [life EXCEPT ![p] = restarts + 1]
    BY DEF Restart, LimiterInv, LimiterTypes
  <1>2. /\ Lives' = Lives \union {restarts + 1}
        /\ restarts + 1 \notin Lives
    BY <1>1, RateLimitConstants DEF Lives
  <1>3. life' \in [Procs -> Lives'] /\ windows' \in [Procs -> SUBSET passed]
    BY <1>1, <1>2 DEF LimiterInv, LimiterTypes
  <1>4. LimiterTypes'
    BY <1>1, <1>2, <1>3 DEF LimiterInv, LimiterTypes
  <1>5. BucketInv'
    BY DEF LimiterInv, BucketInv, RedisIn
  <1>6. \A d \in passed : d.by # {restarts + 1}
    BY <1>2 DEF LimiterInv, LimiterTypes
  <1>7. ASSUME NEW q \in Procs
        PROVE  Recent(q)' = {e \in passed' : e.by = {life'[q]} /\ e.at + Minute > now'}
    <2>1. CASE q = p
      <3>1. windows'[q] = {} /\ life'[q] = restarts + 1
        BY <1>1, <2>1 DEF LimiterInv, LimiterTypes
      <3> QED
        BY <1>6, <3>1 DEF Recent
    <2>2. CASE q # p
      <3>1. windows'[q] = windows[q] /\ life'[q] = life[q]
        BY <1>1, <2>2 DEF LimiterInv, LimiterTypes
      <3>2. Recent(q)' = Recent(q)
        BY <3>1 DEF Recent
      <3> QED
        BY <3>1, <3>2 DEF LimiterInv, LifeInv
    <2> QED
      BY <2>1, <2>2
  <1>8. \A q, r \in Procs : life'[q] = life'[r] => q = r
    <2>1. \A q \in Procs : life[q] # restarts + 1
      BY <1>2 DEF LimiterInv, LimiterTypes
    <2> QED
      BY <1>1, <2>1 DEF LimiterInv, LimiterTypes, LifeInv
  <1>9. LifeInv'
    BY <1>7, <1>8 DEF LifeInv
  <1>10. ASSUME NEW i \in Lives', NEW t \in Times
         PROVE  Cardinality(LifeIn(i, t)') <= MaxPerMin
    <2>1. CASE i \in Lives
      <3>1. LifeIn(i, t)' = LifeIn(i, t)
        BY DEF LifeIn
      <3> QED
        BY <2>1, <3>1 DEF LimiterInv, LifeBound
    <2>2. CASE i = restarts + 1
      <3>1. LifeIn(i, t)' = {}
        BY <1>6, <2>2 DEF LifeIn
      <3> QED
        BY <3>1, FS_EmptySet, RateLimitConstants
    <2> QED
      BY <1>2, <1>10, <2>1, <2>2
  <1>11. LifeBound'
    BY <1>10 DEF LifeBound
  <1> QED
    BY <1>4, <1>5, <1>9, <1>11 DEF LimiterInv

\* A new minute starts with nothing passed in it, and the windows only lose
\* deliveries.
LEMMA NextInstantStep ==
  ASSUME LimiterInv, NextInstant
  PROVE  LimiterInv'
  <1> UNCHANGED <<windows, restarts, life, passed>>
    BY DEF NextInstant
  <1>1. /\ now' = now + 1 /\ now \in Nat /\ now' \in Times
        /\ count' = IF (now + 1) \div Minute = now \div Minute THEN count ELSE 0
        /\ count \in Nat
    BY RateLimitConstants DEF NextInstant, LimiterInv, LimiterTypes, Times
  <1>2. \A e \in passed : e.at \in Nat /\ e.at <= now
    BY <1>1 DEF LimiterInv, LimiterTypes
  <1>3. LimiterTypes'
    <2>1. count' \in Nat
      BY <1>1
    <2>2. \A e \in passed : e.at \in 0 .. now'
      BY <1>1, <1>2
    <2>3. Lives' = Lives
      BY DEF Lives
    <2> QED
      BY <1>1, <2>1, <2>2, <2>3 DEF LimiterInv, LimiterTypes
  <1>4. BucketInv'
    <2>1. \A b : RedisIn(b)' = RedisIn(b)
      BY DEF RedisIn
    <2>2. PICK c \in Nat : c = (now + 1) \div Minute
      BY <1>1, MinutesGrow
    <2>3. Cardinality(RedisIn(c)) <= count'
      <3>1. CASE c = now \div Minute
        BY <1>1, <2>2, <3>1 DEF LimiterInv, BucketInv
      <3>2. CASE c # now \div Minute
        <4>1. now \div Minute \in Nat /\ now \div Minute <= c
          BY <1>1, <2>2, MinutesGrow
        <4>2. \A e \in passed : e.at \div Minute \in Nat /\ e.at \div Minute <= now \div Minute
          BY <1>1, <1>2, MinutesGrow
        <4>3. RedisIn(c) = {}
          BY <3>2, <4>1, <4>2 DEF RedisIn
        <4> QED
          BY <1>1, <2>2, <3>2, <4>3, FS_EmptySet
      <3> QED
        BY <3>1, <3>2
    <2>4. (now \div Minute)' = c
      BY <1>1, <2>2
    <2> QED
      BY <2>1, <2>3, <2>4 DEF LimiterInv, BucketInv
  <1>5. LifeInv'
    <2>1. ASSUME NEW q \in Procs
          PROVE  Recent(q)' = {e \in passed : e.by = {life[q]} /\ e.at + Minute > now'}
      <3>1. Recent(q) = {e \in passed : e.by = {life[q]} /\ e.at + Minute > now}
        BY DEF LimiterInv, LifeInv
      <3>2. Recent(q)' = {e \in windows[q] : e.at + Minute > now'}
        BY DEF Recent
      <3>3. windows[q] \subseteq passed
        BY DEF LimiterInv, LimiterTypes
      <3>4. \A e \in passed : e.at + Minute > now' => e.at + Minute > now
        BY <1>1, <1>2, RateLimitConstants
      <3> QED
        BY <3>1, <3>2, <3>3, <3>4 DEF Recent
    <2> QED
      BY <2>1 DEF LimiterInv, LifeInv
  <1>6. LifeBound'
    BY DEF LimiterInv, LifeBound, Lives, LifeIn
  <1> QED
    BY <1>3, <1>4, <1>5, <1>6 DEF LimiterInv

-----------------------------------------------------------------------------
(* Both limiters together.                                                 *)

\* A window is spread over two calendar minutes of Redis and the lives, each of
\* which is bounded.
LEMMA WindowBounded == LimiterInv => WindowBound
  <1> SUFFICES ASSUME LimiterInv, NEW t \in Times
               PROVE  Cardinality(PassedIn(WindowOf(t)))
                        <= MaxPerMin * (2 + Cardinality(Procs) + restarts)
    BY DEF WindowBound
  <1>1. t \in Nat /\ restarts \in Nat /\ MaxPerMin \in Nat
    BY RateLimitConstants DEF Times, LimiterInv, LimiterTypes
  <1>2. PICK c \in Nat : c = t \div Minute
    BY <1>1, MinutesGrow
  <1> DEFINE All == PassedIn(WindowOf(t))
             ByRedis == {d \in All : d.by = {}}
             ByLives == {d \in All : d.by # {}}
  <1>3. /\ IsFiniteSet(All) /\ IsFiniteSet(ByRedis) /\ IsFiniteSet(ByLives)
        /\ Cardinality(ByRedis) \in Nat /\ Cardinality(ByLives) \in Nat
    <2>1. All \in SUBSET passed /\ ByRedis \in SUBSET passed /\ ByLives \in SUBSET passed
      BY DEF PassedIn
    <2> QED
      BY <2>1, PassedSubsets DEF LimiterInv
  <1>4. \A d \in All : /\ d \in passed /\ d.at \in Nat /\ d.at \in WindowOf(t)
                       /\ d.at <= t /\ d.at + Minute > t
    BY <1>1, RateLimitConstants DEF PassedIn, WindowOf, Times
  <1>5. Cardinality(ByRedis) <= MaxPerMin * 2
    <2> DEFINE A == {c, c - 1}
               src == [d \in ByRedis |-> d.at \div Minute]
    <2>1. IsFiniteSet(A) /\ Cardinality(A) <= 2 /\ Cardinality(A) \in Nat
      <3>1. IsFiniteSet({c}) /\ Cardinality({c}) = 1
        BY FS_Singleton
      <3>2. A \subseteq {c} \union {c - 1}
        OBVIOUS
      <3> HIDE DEF A
      <3>3. /\ IsFiniteSet(A) /\ Cardinality(A) \in Nat
            /\ Cardinality(A) <= Cardinality({c}) + 1
        BY <3>1, <3>2, OneMore
      <3> QED
        BY <3>1, <3>3
    <2>2. ASSUME NEW d \in ByRedis
          PROVE  d.at \div Minute \in A
      BY <1>1, <1>2, <1>4, TwoMinutes
    <2>3. src \in [ByRedis -> A]
      BY <2>2
    <2>4. ASSUME NEW a \in A
          PROVE  Cardinality({d \in ByRedis : src[d] = a}) <= MaxPerMin
      <3>1. {d \in ByRedis : src[d] = a} \subseteq RedisIn(a)
        BY <1>4 DEF RedisIn
      <3>2. CASE a \in Nat
        <4>1. RedisIn(a) \in SUBSET passed
          BY DEF RedisIn
        <4>2. IsFiniteSet(RedisIn(a)) /\ Cardinality(RedisIn(a)) \in Nat
          BY <4>1, PassedSubsets DEF LimiterInv
        <4>3. Cardinality(RedisIn(a)) <= MaxPerMin
          BY <3>2 DEF LimiterInv, BucketInv
        <4>4. /\ IsFiniteSet({d \in ByRedis : src[d] = a})
              /\ Cardinality({d \in ByRedis : src[d] = a}) <= Cardinality(RedisIn(a))
          BY <3>1, <4>2, FS_Subset
        <4>5. Cardinality({d \in ByRedis : src[d] = a}) \in Nat
          BY <4>4, FS_CardinalityType
        <4> QED
          BY <1>1, <4>2, <4>3, <4>4, <4>5
      <3>3. CASE a \notin Nat
        <4>1. \A d \in ByRedis : d.at \div Minute \in Nat
          BY <1>1, <1>4, MinutesGrow
        <4>2. {d \in ByRedis : src[d] = a} = {}
          BY <3>3, <4>1
        <4>3. Cardinality({d \in ByRedis : src[d] = a}) = 0
          BY <4>2, FS_EmptySet
        <4> QED
          BY <1>1, <4>3
      <3> QED
        BY <3>2, <3>3
    <2> HIDE DEF A, src, ByRedis
    <2>5. Cardinality(ByRedis) <= MaxPerMin * Cardinality(A)
      BY <1>1, <1>3, <2>1, <2>3, <2>4, SpreadBound
    <2>6. MaxPerMin * Cardinality(A) <= MaxPerMin * 2
      BY <1>1, <2>1
    <2> QED
      BY <1>1, <1>3, <2>1, <2>5, <2>6
  <1>6. IsFiniteSet(Lives) /\ Cardinality(Lives) \in Nat
        /\ Cardinality(Procs) \in Nat /\ Cardinality(Lives) <= Cardinality(Procs) + restarts
    <2>1. IsFiniteSet(1 .. restarts) /\ Cardinality(1 .. restarts) = restarts
      BY <1>1, FS_Interval
    <2>2. IsFiniteSet(Procs) /\ Cardinality(Procs) \in Nat
      BY RateLimitConstants, FS_CardinalityType
    <2>3. /\ IsFiniteSet(Lives)
          /\ Cardinality(Lives) = Cardinality(Procs) + Cardinality(1 .. restarts)
                                    - Cardinality(Procs \cap (1 .. restarts))
      BY <2>1, <2>2, FS_Union DEF Lives
    <2>4. Cardinality(Procs \cap (1 .. restarts)) \in Nat
      <3>1. IsFiniteSet(Procs \cap (1 .. restarts))
        BY <2>2, FS_Intersection
      <3> QED
        BY <3>1, FS_CardinalityType
    <2>5. Cardinality(Lives) \in Nat
      BY <2>3, FS_CardinalityType
    <2> QED
      BY <1>1, <2>1, <2>2, <2>3, <2>4, <2>5
  <1>7. Cardinality(ByLives) <= MaxPerMin * Cardinality(Lives)
    <2> DEFINE src == [d \in ByLives |-> CHOOSE i \in Lives : d.by = {i}]
    <2>1. ASSUME NEW d \in ByLives
          PROVE  src[d] \in Lives /\ d.by = {src[d]}
      BY <1>4 DEF LimiterInv, LimiterTypes
    <2>2. src \in [ByLives -> Lives]
      BY <2>1
    <2>3. ASSUME NEW i \in Lives
          PROVE  Cardinality({d \in ByLives : src[d] = i}) <= MaxPerMin
      <3>1. {d \in ByLives : src[d] = i} \subseteq LifeIn(i, t)
        BY <1>4, <2>1 DEF LifeIn
      <3>2. LifeIn(i, t) \in SUBSET passed
        BY DEF LifeIn
      <3>3. IsFiniteSet(LifeIn(i, t)) /\ Cardinality(LifeIn(i, t)) \in Nat
        BY <3>2, PassedSubsets DEF LimiterInv
      <3>4. Cardinality(LifeIn(i, t)) <= MaxPerMin
        BY DEF LimiterInv, LifeBound
      <3>5. /\ IsFiniteSet({d \in ByLives : src[d] = i})
            /\ Cardinality({d \in ByLives : src[d] = i}) <= Cardinality(LifeIn(i, t))
        BY <3>1, <3>3, FS_Subset
      <3>6. Cardinality({d \in ByLives : src[d] = i}) \in Nat
        BY <3>5, FS_CardinalityType
      <3> QED
        BY <1>1, <3>3, <3>4, <3>5, <3>6
    <2> HIDE DEF src, ByLives
    <2> QED
      BY <1>1, <1>3, <1>6, <2>2, <2>3, SpreadBound
  <1>8. Cardinality(All) <= Cardinality(ByRedis) + Cardinality(ByLives) /\ Cardinality(All) \in Nat
    <2>1. All = ByRedis \union ByLives
      OBVIOUS
    <2> HIDE DEF All, ByRedis, ByLives
    <2>2. Cardinality(ByRedis \cap ByLives) \in Nat
      <3>1. IsFiniteSet(ByRedis \cap ByLives)
        BY <1>3, FS_Intersection
      <3> QED
        BY <3>1, FS_CardinalityType
    <2>3. Cardinality(ByRedis \union ByLives)
            = Cardinality(ByRedis) + Cardinality(ByLives) - Cardinality(ByRedis \cap ByLives)
      BY <1>3, FS_Union
    <2> QED
      BY <1>3, <2>1, <2>2, <2>3, FS_CardinalityType
  <1>9. MaxPerMin * Cardinality(Lives) <= MaxPerMin * (Cardinality(Procs) + restarts)
    BY <1>1, <1>6
  <1>10. MaxPerMin * 2 + MaxPerMin * (Cardinality(Procs) + restarts)
           = MaxPerMin * (2 + Cardinality(Procs) + restarts)
    BY <1>1, <1>6
  <1> HIDE DEF All, ByRedis, ByLives
  <1>11. Cardinality(All) <= MaxPerMin * 2 + MaxPerMin * (Cardinality(Procs) + restarts)
    BY <1>1, <1>3, <1>5, <1>6, <1>7, <1>8, <1>9
  <1> QED
    BY <1>10, <1>11 DEF All

\* Any 60 seconds see at most two allowances of the shared counter and one for each
\* process and each restart, however Redis fails (_is_rate_allowed, is_allowed).
THEOREM RateBounded == LimiterSpec => []WindowBound
  <1>1. LimiterInv /\ [LimiterNext]_limiterVars => LimiterInv'
    <2> SUFFICES ASSUME LimiterInv, [LimiterNext]_limiterVars
                 PROVE  LimiterInv'
      OBVIOUS
    <2>1. CASE UNCHANGED limiterVars
      BY <2>1 DEF limiterVars, LimiterInv, LimiterTypes, BucketInv, LifeInv, LifeBound, Lives,
                  RedisIn, LifeIn, Recent
    <2>2. CASE NextInstant
      BY <2>2, NextInstantStep
    <2>3. ASSUME NEW p \in Procs, AskRedis(p) \/ AskLocal(p) \/ Restart(p)
          PROVE  LimiterInv'
      BY <2>3, AskRedisStep, AskLocalStep, RestartStep
    <2> QED
      BY <2>1, <2>2, <2>3 DEF LimiterNext
  <1> QED
    BY LimiterStart, <1>1, WindowBounded, PTL DEF LimiterSpec

=============================================================================
