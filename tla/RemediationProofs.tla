------------------------- MODULE RemediationProofs -------------------------
(***************************************************************************)
(* Proofs about RemediationBacklog, for any number of issues, generations, *)
(* workers and detectors and any lease, grace period and retention: types, *)
(* a row in processing can be found again, an outcome that waits for the   *)
(* commit belongs to the claim of its row, and no commit undoes a          *)
(* resolution.                                                             *)
(***************************************************************************)
EXTENDS RemediationBacklog, TLAPS

-----------------------------------------------------------------------------
(* The inductive invariant.                                                *)

\* A row in processing carries claim and lease; a resolved row carries no claim.
RowInv(r) ==
  /\ r.status = "processing" => r.token # NONE /\ r.lease # NONE
  /\ r.status = "resolved" => r.token = NONE

\* Committed rows and the rows that wait for a commit.
RowsInv ==
  /\ \A k \in Keys : RowInv(rows[k])
  /\ \A w \in Workers, k \in Keys : RowInv(work[w].buf[k])

\* A job that has not begun has nothing in hand, and an item is executed once.
HandInv ==
  \A w \in Workers :
    /\ ~work[w].busy => work[w].held = {} /\ work[w].wrote = {}
    /\ work[w].held \intersect work[w].wrote = {}

\* What a worker may have done to a row it has locked.
Uncommitted(w, k) ==
  /\ FreeFor(w, k)
  /\ work[w].buf[k].token # rows[k].token => rows[k].token = w
  /\ rows[k].status = "resolved" => work[w].buf[k].status = "resolved"

WroteInv == \A w \in Workers : \A k \in work[w].wrote : Uncommitted(w, k)

IInv == TypeOK /\ RowsInv /\ HandInv /\ WroteInv

-----------------------------------------------------------------------------
(* Rows.                                                                   *)

\* The values that the actions write belong to their columns.
LEMMA Values ==
  /\ LeaseTime \in Leases /\ NONE \in Leases /\ LeaseTime # NONE
  /\ 0 \in Delays /\ 0 \in Counts
  /\ 0 \in SinceResolved /\ NONE \in SinceResolved
  /\ 0 \in SinceUpdate
  BY RemediationAssumption DEF Leases, Delays, Counts, SinceResolved, SinceUpdate

\* A lease that is not past or absent has a unit less after a time step.
LEMMA LeaseAges ==
  ASSUME NEW l \in Leases, l # NONE, l # -1
  PROVE  l - 1 \in Leases /\ l - 1 # NONE
  <1>1. l \in -1 .. LeaseTime /\ LeaseTime \in Nat
    BY RemediationAssumption DEF Leases
  <1>2. l - 1 \in -1 .. LeaseTime /\ l - 1 \in Int
    BY <1>1
  <1> QED
    BY <1>2, RemediationAssumption DEF Leases

\* So have the other times, counted up to where they saturate.
LEMMA TimesAge ==
  /\ \A n \in Delays : n # 0 => n - 1 \in Delays
  /\ \A a \in SinceResolved : a # NONE => Smaller(a + 1, Grace + 1) \in SinceResolved
  /\ \A b \in SinceUpdate : Smaller(b + 1, Retention + 1) \in SinceUpdate
  /\ \A v \in Counts : Smaller(v + 1, MaxVer) \in Counts
  <1>1. /\ \A n \in Delays : n # 0 => n - 1 \in Delays
        /\ \A b \in SinceUpdate : Smaller(b + 1, Retention + 1) \in SinceUpdate
        /\ \A v \in Counts : Smaller(v + 1, MaxVer) \in Counts
    BY RemediationAssumption DEF Delays, SinceUpdate, Counts, Smaller
  <1>2. ASSUME NEW a \in SinceResolved, a # NONE
        PROVE  Smaller(a + 1, Grace + 1) \in SinceResolved
    <2>1. a \in 0 .. Grace + 1 /\ Grace \in Nat
      BY <1>2, RemediationAssumption DEF SinceResolved
    <2>2. Smaller(a + 1, Grace + 1) \in 0 .. Grace + 1
      BY <2>1 DEF Smaller
    <2> QED
      BY <2>2 DEF SinceResolved
  <1> QED
    BY <1>1, <1>2

\* The columns of a row have their types.
LEMMA RowFields ==
  ASSUME NEW r \in Row
  PROVE  /\ r.status \in Statuses /\ r.strategy \in Strategies
         /\ r.token \in Workers \union {NONE} /\ r.lease \in Leases
         /\ r.next \in Delays /\ r.ver \in Counts
         /\ r.resolvedAge \in SinceResolved /\ r.age \in SinceUpdate
  BY DEF Row

\* A key without a row.
LEMMA NoRowFacts == NoRow \in Row /\ RowInv(NoRow) /\ NoRow.status = "absent" /\ NoRow.token = NONE
  BY Values DEF NoRow, Row, RowInv, Statuses, Strategies

\* transition() gives up the claim, so its result is in order unless it is
\* processing, which nobody transitions to.
LEMMA TransitionedFacts ==
  ASSUME NEW r \in Row, NEW status \in Statuses \ {"processing"}, NEW delay \in Delays
  PROVE  /\ Transitioned(r, status, delay) \in Row
         /\ Transitioned(r, status, delay).status = status
         /\ Transitioned(r, status, delay).token = NONE
         /\ RowInv(Transitioned(r, status, delay))
  <1>1. PICK a \in SinceResolved :
          a = IF status = "resolved" THEN 0 ELSE r.resolvedAge
    BY RowFields, Values
  <1>2. Transitioned(r, status, delay) =
          [r EXCEPT !.status = status, !.next = delay, !.token = NONE, !.lease = NONE,
                    !.age = 0, !.resolvedAge = a]
    BY <1>1 DEF Transitioned
  <1>3. Transitioned(r, status, delay) \in Row
    BY <1>1, <1>2, Values DEF Row
  <1>4. /\ Transitioned(r, status, delay).status = status
        /\ Transitioned(r, status, delay).token = NONE
    BY <1>2 DEF Row
  <1> QED
    BY <1>3, <1>4 DEF RowInv

\* A claim comes with a lease.
LEMMA ClaimedFacts ==
  ASSUME NEW r \in Row, NEW w \in Workers
  PROVE  /\ Claimed(w, r) \in Row
         /\ RowInv(Claimed(w, r))
  <1>1. Claimed(w, r) \in Row
    BY Values DEF Claimed, Row, Statuses
  <1>2. /\ Claimed(w, r).status = "processing"
        /\ Claimed(w, r).token = w
        /\ Claimed(w, r).lease = LeaseTime
    BY DEF Claimed, Row
  <1>3. w # NONE
    BY RemediationAssumption
  <1> QED
    BY <1>1, <1>2, <1>3, Values DEF RowInv

\* The upsert leaves claim and lease alone and ends in pending or ignored.
LEMMA UpsertedFacts ==
  ASSUME NEW r \in Row, NEW s \in Strategies
  PROVE  /\ Upserted(r, s) \in Row
         /\ RowInv(Upserted(r, s))
  <1>1. PICK st \in Statuses \ {"processing", "resolved"} :
          st = IF s = "coverage_boundary" THEN "ignored" ELSE "pending"
    BY DEF Statuses, ACTIVE_STATUSES
  <1>2. PICK a \in SinceResolved :
          a = IF s = "coverage_boundary" THEN 0 ELSE NONE
    BY Values
  <1>3. Upserted(r, s) = [r EXCEPT !.strategy = s, !.status = st, !.resolvedAge = a]
    BY <1>1, <1>2 DEF Upserted
  <1>4. Upserted(r, s) \in Row
    BY <1>1, <1>2, <1>3 DEF Row
  <1>5. Upserted(r, s).status = st
    BY <1>3 DEF Row
  <1> QED
    BY <1>4, <1>5 DEF RowInv

\* A write of the timestamps or of the status alone keeps claim and lease.
LEMMA TouchedFacts ==
  ASSUME NEW r \in Row, NEW n \in Delays,
         NEW status \in Statuses \ {"processing", "resolved"}
  PROVE  /\ [r EXCEPT !.age = 0] \in Row
         /\ RowInv(r) => RowInv([r EXCEPT !.age = 0])
         /\ [r EXCEPT !.status = status, !.next = n, !.age = 0] \in Row
         /\ RowInv([r EXCEPT !.status = status, !.next = n, !.age = 0])
         /\ [r EXCEPT !.status = status, !.age = 0] \in Row
         /\ RowInv([r EXCEPT !.status = status, !.age = 0])
  <1>1. /\ [r EXCEPT !.age = 0] \in Row
        /\ [r EXCEPT !.status = status, !.next = n, !.age = 0] \in Row
        /\ [r EXCEPT !.status = status, !.age = 0] \in Row
    BY Values DEF Row
  <1>2. /\ [r EXCEPT !.age = 0].status = r.status
        /\ [r EXCEPT !.age = 0].token = r.token
        /\ [r EXCEPT !.age = 0].lease = r.lease
        /\ [r EXCEPT !.status = status, !.next = n, !.age = 0].status = status
        /\ [r EXCEPT !.status = status, !.age = 0].status = status
    BY DEF Row
  <1> QED
    BY <1>1, <1>2 DEF RowInv

\* Time changes no status and no claim, and a lease ends without vanishing.
LEMMA AgedFacts ==
  ASSUME NEW r \in Row
  PROVE  /\ Aged(r) \in Row
         /\ Aged(r).status = r.status
         /\ Aged(r).token = r.token
         /\ RowInv(r) => RowInv(Aged(r))
  <1>1. CASE r.status = "absent"
    BY <1>1 DEF Aged
  <1>2. CASE r.status # "absent"
    <2>1. PICK l \in Leases :
            /\ l = IF r.lease = NONE \/ r.lease = -1 THEN r.lease ELSE r.lease - 1
            /\ r.lease # NONE => l # NONE
      BY RowFields, LeaseAges
    <2>2. PICK n \in Delays : n = IF r.next = 0 THEN 0 ELSE r.next - 1
      BY RowFields, TimesAge
    <2>3. PICK a \in SinceResolved :
            a = IF r.resolvedAge = NONE THEN r.resolvedAge
                ELSE Smaller(r.resolvedAge + 1, Grace + 1)
      BY RowFields, TimesAge
    <2>4. PICK b \in SinceUpdate : b = Smaller(r.age + 1, Retention + 1)
      BY RowFields, TimesAge
    <2>5. Aged(r) = [r EXCEPT !.lease = l, !.next = n, !.resolvedAge = a, !.age = b]
      BY <1>2, <2>1, <2>2, <2>3, <2>4 DEF Aged
    <2>6. Aged(r) \in Row
      BY <2>5 DEF Row
    <2>7. Aged(r).status = r.status /\ Aged(r).token = r.token /\ Aged(r).lease = l
      BY <2>5 DEF Row
    <2> QED
      BY <2>1, <2>6, <2>7 DEF RowInv
  <1> QED
    BY <1>1, <1>2

\* What the executor makes of the row of an item: a row whose claim is still the
\* worker's gets the outcome, any other at most the count.
LEMMA ExecutedFacts ==
  ASSUME NEW r \in Row, NEW w \in Workers, NEW c \in Row, RowInv(r),
         c.status = r.status, c.token = r.token, c.lease = r.lease,
         NEW status \in Statuses \ {"processing"}, NEW delay \in Delays,
         NEW s, s = IfClaimed(w, c, Transitioned(c, status, delay))
  PROVE  /\ s \in Row
         /\ RowInv(s)
         /\ s.token # r.token => r.token = w
         /\ r.status = "resolved" => s.status = "resolved"
  <1>1. CASE c.token = w
    BY <1>1, TransitionedFacts, RemediationAssumption DEF IfClaimed, RowInv
  <1>2. CASE c.token # w
    BY <1>2 DEF IfClaimed, RowInv
  <1> QED
    BY <1>1, <1>2

-----------------------------------------------------------------------------
(* Jobs.                                                                   *)

\* The state of a job has its types.
LEMMA JobFields ==
  ASSUME NEW j \in Job
  PROVE  /\ j.busy \in BOOLEAN /\ j.held \subseteq Keys /\ j.wrote \subseteq Keys
         /\ j.seen \in [Keys -> Loaded] /\ j.buf \in [Keys -> Row]
  BY DEF Job

\* Nothing is loaded, or an item as it was claimed.
LEMMA LoadedFacts ==
  /\ NotLoaded \in Loaded
  /\ \A r \in Row : [ver |-> r.ver, strategy |-> r.strategy] \in Loaded
  BY Values, RowFields DEF NotLoaded, Loaded, Strategies

\* A job that has not begun.
LEMMA IdleFacts ==
  /\ IdleJob \in Job
  /\ IdleJob.held = {} /\ IdleJob.wrote = {} /\ ~IdleJob.busy
  /\ \A k \in Keys : IdleJob.buf[k] = NoRow
  BY LoadedFacts, NoRowFacts DEF IdleJob, Job

\* Actions other than those of a worker write only rows that nobody has locked.
LEMMA RowsWritten ==
  ASSUME IInv, UNCHANGED work, det' \in [Detectors -> Detector], events' \in 0 .. MaxEvents,
         rows' \in [Keys -> Row],
         \A k \in Keys : RowInv(rows[k])' /\ (rows'[k] = rows[k] \/ Free(k))
  PROVE  IInv'
  <1>1. TypeOK' /\ HandInv'
    BY DEF IInv, TypeOK, HandInv
  <1>2. RowsInv'
    BY DEF IInv, RowsInv, RowInv
  <1>3. ASSUME NEW w \in Workers, NEW k \in work[w].wrote
        PROVE  Uncommitted(w, k)'
    <2>1. k \in Keys /\ ~Free(k) /\ Uncommitted(w, k)
      BY <1>3, JobFields DEF IInv, TypeOK, Free, WroteInv
    <2>2. rows'[k] = rows[k]
      BY <2>1
    <2> QED
      BY <2>1, <2>2 DEF Uncommitted, FreeFor
  <1> QED
    BY <1>1, <1>2, <1>3 DEF IInv, WroteInv

\* The jobs after Settle(w, k, s), as a state function.
Settled(w, k, s) ==
  [work EXCEPT
    ![w].held = @ \ {k}, ![w].seen[k] = NotLoaded,
    ![w].wrote = IF s = rows[k] THEN @ ELSE @ \union {k},
    ![w].buf[k] = IF s = rows[k] THEN NoRow ELSE s]

\* The same field by field.
AfterSettle(w, k, s) ==
  /\ work' \in [Workers -> Job]
  /\ \A v \in Workers : v # w => work'[v] = work[v]
  /\ work'[w].busy = work[w].busy
  /\ work'[w].held = work[w].held \ {k}
  /\ work'[w].wrote = IF s = rows[k] THEN work[w].wrote ELSE work[w].wrote \union {k}
  /\ \A l \in Keys : l # k => work'[w].buf[l] = work[w].buf[l]
  /\ work'[w].buf[k] = IF s = rows[k] THEN NoRow ELSE s

\* The job after one item is settled.
LEMMA SettleFacts ==
  ASSUME TypeOK, NEW w \in Workers, NEW k \in Keys, NEW s \in Row, work' = Settled(w, k, s)
  PROVE  AfterSettle(w, k, s)
  <1>1. work[w] \in Job /\ work \in [Workers -> Job]
    BY DEF TypeOK
  <1>2. PICK b \in Row : b = IF s = rows[k] THEN NoRow ELSE s
    BY NoRowFacts
  <1>3. PICK W \in SUBSET Keys : W = IF s = rows[k] THEN work[w].wrote ELSE work[w].wrote \union {k}
    BY <1>1, JobFields
  <1>4. PICK j : j = [work[w] EXCEPT !.held = work[w].held \ {k}, !.seen[k] = NotLoaded,
                                     !.wrote = W, !.buf[k] = b]
    OBVIOUS
  <1>5. work' = [work EXCEPT ![w] = j]
    BY <1>1, <1>2, <1>3, <1>4, Zenon DEF Settled
  <1>6. /\ j.busy = work[w].busy /\ j.held = work[w].held \ {k} /\ j.wrote = W
        /\ j.buf = [work[w].buf EXCEPT ![k] = b]
        /\ j.seen = [work[w].seen EXCEPT ![k] = NotLoaded]
    BY <1>1, <1>4 DEF Job
  <1>7. /\ [work[w].buf EXCEPT ![k] = b] \in [Keys -> Row]
        /\ [work[w].seen EXCEPT ![k] = NotLoaded] \in [Keys -> Loaded]
        /\ work[w].held \ {k} \in SUBSET Keys
    BY <1>1, <1>2, JobFields, LoadedFacts
  <1>8. j = [busy |-> j.busy, held |-> j.held, seen |-> j.seen, wrote |-> j.wrote, buf |-> j.buf]
    BY <1>1, <1>4 DEF Job
  <1>9. j \in Job
    BY <1>1, <1>6, <1>7, <1>8, JobFields DEF Job
  <1>10. work' \in [Workers -> Job] /\ work'[w] = j
         /\ \A v \in Workers : v # w => work'[v] = work[v]
    BY <1>1, <1>5, <1>9
  <1>11. work[w].buf \in [Keys -> Row]
    BY <1>1, JobFields
  <1>12. /\ j.buf[k] = b
         /\ \A l \in Keys : l # k => j.buf[l] = work[w].buf[l]
    BY <1>6, <1>11
  <1> QED
    BY <1>2, <1>3, <1>6, <1>10, <1>12 DEF AfterSettle

\* The outcome of an item is one that ExecutedFacts describes, and its worker
\* alone has the row.
LEMMA SettleStep ==
  ASSUME IInv, NEW w \in Workers, NEW k \in work[w].held, FreeFor(w, k),
         NEW s \in Row, work' = Settled(w, k, s), RowInv(s),
         s.token # rows[k].token => rows[k].token = w,
         rows[k].status = "resolved" => s.status = "resolved",
         UNCHANGED <<rows, det, events>>
  PROVE  IInv'
  <1>1. k \in Keys /\ work[w] \in Job
    BY JobFields DEF IInv, TypeOK
  <1>2. /\ work' \in [Workers -> Job]
        /\ \A v \in Workers : v # w => work'[v] = work[v]
        /\ work'[w].busy = work[w].busy
        /\ work'[w].held = work[w].held \ {k}
        /\ work'[w].wrote = IF s = rows[k] THEN work[w].wrote ELSE work[w].wrote \union {k}
        /\ \A l \in Keys : l # k => work'[w].buf[l] = work[w].buf[l]
        /\ work'[w].buf[k] = IF s = rows[k] THEN NoRow ELSE s
    <2>1. AfterSettle(w, k, s)
      BY <1>1, SettleFacts DEF IInv
    <2> QED
      BY <2>1, Zenon DEF AfterSettle
  <1>3. work[w].busy /\ k \notin work[w].wrote
    BY DEF IInv, HandInv
  <1>4. TypeOK'
    BY <1>2 DEF IInv, TypeOK
  <1>5. ASSUME NEW v \in Workers
        PROVE  /\ ~work'[v].busy => work'[v].held = {} /\ work'[v].wrote = {}
               /\ work'[v].held \intersect work'[v].wrote = {}
    <2>1. CASE v = w
      <3>1. work[w].held \intersect work[w].wrote = {}
        BY DEF IInv, HandInv
      <3>2. work'[w].held = work[w].held \ {k} /\ work'[w].busy
            /\ work'[w].wrote \subseteq work[w].wrote \union {k}
        BY <1>2, <1>3
      <3> QED
        BY <2>1, <3>1, <3>2
    <2>2. CASE v # w
      <3>1. work'[v] = work[v]
        BY <1>2, <2>2
      <3> QED
        BY <3>1 DEF IInv, HandInv
    <2> QED
      BY <2>1, <2>2
  <1>6. RowsInv'
    <2>1. ASSUME NEW v \in Workers, NEW l \in Keys
          PROVE  RowInv(work'[v].buf[l])
      BY <1>2, NoRowFacts DEF IInv, RowsInv
    <2> QED
      BY <2>1 DEF IInv, RowsInv, RowInv
  <1>7. ASSUME NEW v \in Workers, NEW l \in work'[v].wrote
        PROVE  Uncommitted(v, l)'
    <2>1. CASE v = w /\ l = k
      BY <1>2, <1>3, <2>1 DEF Uncommitted, FreeFor
    <2>2. CASE v = w /\ l # k
      <3>1. l \in work[w].wrote /\ Uncommitted(w, l) /\ l \in Keys
        BY <1>1, <1>2, <1>7, <2>2, JobFields DEF IInv, WroteInv
      <3> QED
        BY <1>2, <2>2, <3>1 DEF Uncommitted, FreeFor
    <2>3. CASE v # w
      <3>1. work[v] \in Job /\ work'[v] = work[v] /\ l \in work[v].wrote /\ Uncommitted(v, l)
        BY <1>2, <1>7, <2>3 DEF IInv, WroteInv, TypeOK
      <3>2. l # k
        BY <2>3, <3>1 DEF FreeFor
      <3> QED
        BY <1>2, <2>3, <3>1, <3>2 DEF Uncommitted, FreeFor
    <2> QED
      BY <2>1, <2>2, <2>3
  <1> QED
    BY <1>4, <1>5, <1>6, <1>7 DEF IInv, WroteInv, HandInv

\* The executor's three outcomes.
LEMMA ExecuteStep ==
  ASSUME IInv, NEW w \in Workers, NEW k \in work[w].held, NEW delay \in Delays
  PROVE  /\ ExecuteUnsupported(w, k) => IInv'
         /\ \A status \in Statuses : ExecuteFails(w, k, status, delay) => IInv'
         /\ \A resolved \in BOOLEAN : ExecuteVerified(w, k, resolved, delay) => IInv'
  <1>1. k \in Keys /\ work[w] \in Job
    BY JobFields DEF IInv, TypeOK
  <1>2. rows[k] \in Row /\ RowInv(rows[k])
    BY <1>1 DEF IInv, TypeOK, RowsInv
  <1>3. ASSUME ExecuteUnsupported(w, k)
        PROVE  IInv'
    <2>1. PICK s : s = IfClaimed(w, rows[k], Transitioned(rows[k], "manual_review", 0))
      OBVIOUS
    <2>2. "manual_review" \in Statuses \ {"processing"} /\ 0 \in Delays
      BY Values DEF Statuses
    <2>3. /\ s \in Row /\ RowInv(s)
          /\ s.token # rows[k].token => rows[k].token = w
          /\ rows[k].status = "resolved" => s.status = "resolved"
      BY <1>2, <2>1, <2>2, ExecutedFacts
    <2>4. FreeFor(w, k) /\ work' = Settled(w, k, s) /\ UNCHANGED <<rows, det, events>>
      BY <1>3, <2>1 DEF ExecuteUnsupported, Settle, Settled
    <2> QED
      BY <2>3, <2>4, SettleStep
  <1>4. ASSUME NEW status \in Statuses, ExecuteFails(w, k, status, delay)
        PROVE  IInv'
    <2>1. PICK s : s = IfClaimed(w, rows[k], Transitioned(rows[k], status, delay))
      OBVIOUS
    <2>2. status \in Statuses \ {"processing"}
      BY <1>4 DEF ExecuteFails
    <2>3. /\ s \in Row /\ RowInv(s)
          /\ s.token # rows[k].token => rows[k].token = w
          /\ rows[k].status = "resolved" => s.status = "resolved"
      BY <1>2, <2>1, <2>2, ExecutedFacts
    <2>4. FreeFor(w, k) /\ work' = Settled(w, k, s) /\ UNCHANGED <<rows, det, events>>
      BY <1>4, <2>1 DEF ExecuteFails, Settle, Settled
    <2> QED
      BY <2>3, <2>4, SettleStep
  <1>5. ASSUME NEW resolved \in BOOLEAN, ExecuteVerified(w, k, resolved, delay)
        PROVE  IInv'
    <2>1. PICK n : n = Smaller(work[w].seen[k].ver + 1, MaxVer)
      OBVIOUS
    <2>2. PICK c : c = [rows[k] EXCEPT !.ver = n, !.age = 0]
      OBVIOUS
    <2>3. PICK status : status = IF resolved THEN "resolved"
                                 ELSE IF n = MaxVer THEN "manual_review" ELSE "retry_wait"
      OBVIOUS
    <2>4. PICK s : s = IfClaimed(w, c, Transitioned(c, status, delay))
      OBVIOUS
    <2>5. n \in Counts
      <3>1. work[w].seen[k] \in Loaded
        BY <1>1, JobFields
      <3>2. work[w].seen[k].ver \in Counts
        BY <3>1 DEF Loaded
      <3> QED
        BY <2>1, <3>2, TimesAge
    <2>6. c \in Row
      BY <1>2, <2>2, <2>5, Values DEF Row
    <2>7. c.status = rows[k].status /\ c.token = rows[k].token /\ c.lease = rows[k].lease
      BY <1>2, <2>2 DEF Row
    <2>8. status \in Statuses \ {"processing"}
      BY <2>3 DEF Statuses, ACTIVE_STATUSES
    <2>9. /\ s \in Row /\ RowInv(s)
          /\ s.token # rows[k].token => rows[k].token = w
          /\ rows[k].status = "resolved" => s.status = "resolved"
      BY <1>2, <2>4, <2>6, <2>7, <2>8, ExecutedFacts
    <2>10. FreeFor(w, k) /\ work' = Settled(w, k, s) /\ UNCHANGED <<rows, det, events>>
      BY <1>5, <2>1, <2>2, <2>3, <2>4, Zenon DEF ExecuteVerified, Settle, Settled
    <2> QED
      BY <2>9, <2>10, SettleStep
  <1> QED
    BY <1>3, <1>4, <1>5

\* A claim takes rows that nobody has locked, and a job begins.
LEMMA ClaimStep ==
  ASSUME IInv, NEW w \in Workers, ClaimDue(w)
  PROVE  IInv'
  <1>1. work \in [Workers -> Job] /\ work[w] \in Job /\ rows \in [Keys -> Row]
    BY DEF IInv, TypeOK
  <1>2. PICK S \in SUBSET {k \in Keys : Due(rows[k]) /\ Free(k)} :
          /\ rows' = [k \in Keys |-> IF k \in S THEN Claimed(w, rows[k]) ELSE rows[k]]
          /\ work' = [work EXCEPT ![w].busy = TRUE, ![w].held = S,
                        ![w].seen = [k \in Keys |->
                          IF k \in S THEN [ver |-> rows[k].ver, strategy |-> rows[k].strategy]
                          ELSE NotLoaded]]
    BY Zenon DEF ClaimDue
  <1>3. S \subseteq Keys /\ \A k \in S : Free(k)
    BY <1>2
  <1>4. PICK seen : seen = [k \in Keys |->
                      IF k \in S THEN [ver |-> rows[k].ver, strategy |-> rows[k].strategy]
                      ELSE NotLoaded]
    OBVIOUS
  <1>5. seen \in [Keys -> Loaded]
    BY <1>1, <1>4, LoadedFacts
  <1>6. PICK j : j = [work[w] EXCEPT !.busy = TRUE, !.held = S, !.seen = seen]
    OBVIOUS
  <1>7. work' = [work EXCEPT ![w] = j]
    BY <1>2, <1>4, <1>6, Zenon
  <1>8. j \in Job
    BY <1>1, <1>3, <1>5, <1>6 DEF Job
  <1>9. j.busy /\ j.held = S /\ j.wrote = work[w].wrote /\ j.buf = work[w].buf
    BY <1>1, <1>6 DEF Job
  <1>10. /\ work' \in [Workers -> Job] /\ work'[w] = j
         /\ \A v \in Workers : v # w => work'[v] = work[v]
    BY <1>1, <1>7, <1>8
  <1>11. work[w].wrote = {}
    BY DEF IInv, HandInv, ClaimDue
  <1>12. \A k \in Keys : rows'[k] \in Row /\ RowInv(rows'[k])
    BY <1>1, <1>2, ClaimedFacts DEF IInv, RowsInv
  <1>13. TypeOK'
    BY <1>2, <1>10, <1>12 DEF IInv, TypeOK, ClaimDue
  <1>14. HandInv'
    BY <1>9, <1>10, <1>11 DEF IInv, HandInv
  <1>15. RowsInv'
    <2>1. ASSUME NEW v \in Workers, NEW l \in Keys
          PROVE  RowInv(work'[v].buf[l])
      BY <1>9, <1>10 DEF IInv, RowsInv
    <2> QED
      BY <1>12, <2>1 DEF RowsInv, RowInv
  <1>16. ASSUME NEW v \in Workers, NEW l \in work'[v].wrote
         PROVE  Uncommitted(v, l)'
    <2>1. v # w /\ work'[v] = work[v] /\ work[v] \in Job
      BY <1>9, <1>10, <1>11, <1>16, <1>1
    <2>2. l \in Keys /\ Uncommitted(v, l) /\ ~Free(l)
      BY <1>16, <2>1, JobFields DEF IInv, WroteInv, Free
    <2>3. rows'[l] = rows[l]
      BY <1>2, <1>3, <2>2
    <2>4. \A u \in Workers : work'[u].wrote = work[u].wrote
      BY <1>9, <1>10
    <2> QED
      BY <2>1, <2>2, <2>3, <2>4 DEF Uncommitted, FreeFor
  <1> QED
    BY <1>13, <1>14, <1>15, <1>16 DEF IInv, WroteInv

\* The commit of one worker leaves the locked rows of the others alone.
LEMMA CommitStep ==
  ASSUME IInv, NEW w \in Workers, CommitJob(w)
  PROVE  IInv'
  <1>1. work \in [Workers -> Job] /\ work[w] \in Job /\ rows \in [Keys -> Row]
    BY DEF IInv, TypeOK
  <1>2. /\ work' \in [Workers -> Job] /\ work'[w] = IdleJob
        /\ \A v \in Workers : v # w => work'[v] = work[v]
    BY <1>1, IdleFacts DEF CommitJob
  <1>3. /\ rows' \in [Keys -> Row]
        /\ \A k \in Keys : RowInv(rows'[k])
        /\ \A k \in Keys : k \notin work[w].wrote => rows'[k] = rows[k]
    BY <1>1, JobFields DEF CommitJob, IInv, RowsInv
  <1>4. TypeOK'
    BY <1>2, <1>3 DEF IInv, TypeOK, CommitJob
  <1>5. HandInv'
    BY <1>2, IdleFacts DEF IInv, HandInv
  <1>6. RowsInv'
    <2>1. ASSUME NEW v \in Workers, NEW l \in Keys
          PROVE  RowInv(work'[v].buf[l])
      BY <1>2, IdleFacts, NoRowFacts DEF IInv, RowsInv
    <2> QED
      BY <1>3, <2>1 DEF RowsInv, RowInv
  <1>7. ASSUME NEW v \in Workers, NEW l \in work'[v].wrote
        PROVE  Uncommitted(v, l)'
    <2>1. v # w /\ work'[v] = work[v] /\ work[v] \in Job
      BY <1>1, <1>2, <1>7, IdleFacts
    <2>2. l \in Keys /\ Uncommitted(v, l)
      BY <1>7, <2>1, JobFields DEF IInv, WroteInv
    <2>3. l \notin work[w].wrote
      BY <2>1, <2>2 DEF Uncommitted, FreeFor
    <2>4. rows'[l] = rows[l]
      BY <1>3, <2>2, <2>3
    <2>5. \A u \in Workers : work'[u].wrote \subseteq work[u].wrote
      BY <1>2, IdleFacts
    <2> QED
      BY <2>1, <2>2, <2>4, <2>5 DEF Uncommitted, FreeFor
  <1> QED
    BY <1>4, <1>5, <1>6, <1>7 DEF IInv, WroteInv

\* A job that fails forgets what it wrote.
LEMMA AbortStep ==
  ASSUME IInv, NEW w \in Workers, AbortJob(w)
  PROVE  IInv'
  <1>1. work \in [Workers -> Job] /\ work[w] \in Job
    BY DEF IInv, TypeOK
  <1>2. /\ work' \in [Workers -> Job] /\ work'[w] = IdleJob
        /\ \A v \in Workers : v # w => work'[v] = work[v]
        /\ UNCHANGED <<rows, det>>
    BY <1>1, IdleFacts DEF AbortJob
  <1>3. events' \in 0 .. MaxEvents
    BY RemediationAssumption DEF AbortJob, Event, IInv, TypeOK
  <1>4. TypeOK'
    BY <1>2, <1>3 DEF IInv, TypeOK
  <1>5. HandInv'
    BY <1>2, IdleFacts DEF IInv, HandInv
  <1>6. RowsInv'
    <2>1. ASSUME NEW v \in Workers, NEW l \in Keys
          PROVE  RowInv(work'[v].buf[l])
      BY <1>2, IdleFacts, NoRowFacts DEF IInv, RowsInv
    <2> QED
      BY <1>2, <2>1 DEF IInv, RowsInv, RowInv
  <1>7. ASSUME NEW v \in Workers, NEW l \in work'[v].wrote
        PROVE  Uncommitted(v, l)'
    <2>1. v # w /\ work'[v] = work[v]
      BY <1>2, <1>7, IdleFacts
    <2>2. Uncommitted(v, l)
      BY <1>7, <2>1 DEF IInv, WroteInv
    <2>3. \A u \in Workers : work'[u].wrote \subseteq work[u].wrote
      BY <1>2, IdleFacts
    <2> QED
      BY <1>2, <2>1, <2>2, <2>3 DEF Uncommitted, FreeFor
  <1> QED
    BY <1>4, <1>5, <1>6, <1>7 DEF IInv, WroteInv

-----------------------------------------------------------------------------
(* Detection, operators, bridge, retention and time.                       *)

\* An event is one more within the bound.
LEMMA EventType ==
  ASSUME TypeOK, Event
  PROVE  events' \in 0 .. MaxEvents
  BY RemediationAssumption DEF TypeOK, Event

\* The first half of register() writes no row.
LEMMA RegisterReadStep ==
  ASSUME IInv, NEW d \in Detectors, NEW i \in Issues, NEW s \in Strategies,
         RegisterRead(d, i, s)
  PROVE  IInv'
  <1>1. PICK pc \in {"touch", "upsert"}, g \in 0 .. Generations :
          det' = [det EXCEPT ![d] = [pc |-> pc, key |-> <<i, g>>, strategy |-> s]]
    BY DEF RegisterRead
  <1>2. <<i, g>> \in Keys
    BY DEF Keys
  <1>3. [pc |-> pc, key |-> <<i, g>>, strategy |-> s] \in Detector
    BY <1>2 DEF Detector
  <1>4. det' \in [Detectors -> Detector]
    BY <1>1, <1>3 DEF IInv, TypeOK
  <1>5. UNCHANGED <<rows, work, events>>
    BY DEF RegisterRead
  <1> QED
    BY <1>4, <1>5, RowsWritten DEF IInv, TypeOK, RowsInv, RowInv

\* The second half writes a row that is not locked.
LEMMA RegisterWriteStep ==
  ASSUME IInv, NEW d \in Detectors, RegisterWrite(d)
  PROVE  IInv'
  <1>1. det \in [Detectors -> Detector] /\ rows \in [Keys -> Row]
    BY DEF IInv, TypeOK
  <1>2. IdleDetector \in Detector
    BY DEF IdleDetector, Detector, Strategies
  <1>3. det' \in [Detectors -> Detector] /\ UNCHANGED <<work, events>>
    BY <1>1, <1>2 DEF RegisterWrite
  <1>4. PICK k : k = det[d].key
    OBVIOUS
  <1>5. Free(k) /\ det[d].strategy \in Strategies
    BY <1>1, <1>4 DEF RegisterWrite, Detector
  <1>6. CASE rows' = rows
    BY <1>3, <1>6, RowsWritten DEF IInv, TypeOK, RowsInv, RowInv
  <1>7. ASSUME NEW r, k \in Keys, rows' = [rows EXCEPT ![k] = r], r \in Row, RowInv(r)
        PROVE  IInv'
    <2>1. rows' \in [Keys -> Row] /\ \A l \in Keys : rows'[l] = IF l = k THEN r ELSE rows[l]
      BY <1>1, <1>7
    <2>2. \A l \in Keys : RowInv(rows'[l])
      BY <1>7, <2>1 DEF IInv, RowsInv
    <2>3. \A l \in Keys : RowInv(rows[l])'
      BY <2>2 DEF RowInv
    <2> QED
      BY <1>3, <1>5, <2>1, <2>3, RowsWritten DEF IInv, TypeOK
  <1>8. CASE k \notin Keys
    <2>1. rows' = rows
      <3>1. \A r : [rows EXCEPT ![k] = r] = rows
        BY <1>1, <1>8
      <3>2. [rows EXCEPT ![k].age = 0] = rows
        BY <1>1, <1>8
      <3> QED
        BY <1>4, <3>1, <3>2 DEF RegisterWrite
    <2> QED
      BY <1>6, <2>1
  <1>9. CASE k \in Keys
    <2>1. rows[k] \in Row /\ RowInv(rows[k])
      BY <1>1, <1>9 DEF IInv, RowsInv
    <2>2. CASE rows' = [rows EXCEPT ![k] = Upserted(rows[k], det[d].strategy)]
      BY <1>5, <1>7, <1>9, <2>1, <2>2, UpsertedFacts
    <2>3. CASE rows' = [rows EXCEPT ![k].age = 0]
      <3>1. PICK r : r = [rows[k] EXCEPT !.age = 0]
        OBVIOUS
      <3>2. rows' = [rows EXCEPT ![k] = r]
        BY <2>3, <3>1, Zenon
      <3>3. "pending" \in Statuses \ {"processing", "resolved"} /\ 0 \in Delays
        BY Values DEF Statuses, ACTIVE_STATUSES
      <3>4. r \in Row /\ RowInv(r)
        BY <2>1, <3>1, <3>3, TouchedFacts
      <3> QED
        BY <1>7, <1>9, <3>2, <3>4
    <2> QED
      BY <1>4, <1>6, <2>2, <2>3 DEF RegisterWrite
  <1> QED
    BY <1>8, <1>9

\* An operator writes one row.
LEMMA WriteStep ==
  ASSUME IInv, NEW k \in Keys, NEW r \in Row, RowInv(r), Write(k, r)
  PROVE  IInv'
  <1>1. /\ rows \in [Keys -> Row] /\ Free(k) /\ rows' = [rows EXCEPT ![k] = r]
        /\ UNCHANGED <<work, det>> /\ events' \in 0 .. MaxEvents
    BY EventType DEF IInv, TypeOK, Write
  <1>2. rows' \in [Keys -> Row] /\ \A l \in Keys : rows'[l] = IF l = k THEN r ELSE rows[l]
    BY <1>1
  <1>3. \A l \in Keys : RowInv(rows'[l])
    BY <1>2 DEF IInv, RowsInv
  <1>4. \A l \in Keys : RowInv(rows[l])'
    BY <1>3 DEF RowInv
  <1> QED
    BY <1>1, <1>2, <1>4, RowsWritten DEF IInv, TypeOK

\* Requeue, ignore and patch.
LEMMA OperatorStep ==
  ASSUME IInv, NEW k \in Keys
  PROVE  /\ Requeue(k) => IInv'
         /\ Ignore(k) => IInv'
         /\ \A status \in Statuses : Patch(k, status) => IInv'
  <1>1. rows[k] \in Row
    BY DEF IInv, TypeOK
  <1>2. /\ {"pending", "ignored", "manual_review"} \subseteq Statuses \ {"processing", "resolved"}
        /\ 0 \in Delays
    BY Values DEF Statuses, ACTIVE_STATUSES
  <1>3. Requeue(k) => IInv'
    BY <1>1, <1>2, TransitionedFacts, WriteStep DEF Requeue
  <1>4. Ignore(k) => IInv'
    BY <1>1, <1>2, TransitionedFacts, WriteStep DEF Ignore
  <1>5. ASSUME NEW status \in Statuses, Patch(k, status)
        PROVE  IInv'
    <2>1. PICK r : r = [rows[k] EXCEPT !.status = status, !.age = 0]
      OBVIOUS
    <2>2. status \in Statuses \ {"processing", "resolved"} /\ Write(k, r)
      BY <1>5, <2>1 DEF Patch
    <2>3. r \in Row /\ RowInv(r)
      BY <1>1, <1>2, <2>1, <2>2, TouchedFacts
    <2> QED
      BY <2>2, <2>3, WriteStep
  <1> QED
    BY <1>3, <1>4, <1>5

\* bulk_requeue() keeps claim and lease, and ends in pending.
LEMMA BulkStep ==
  ASSUME IInv, NEW S \in SUBSET Keys, BulkRequeue(S)
  PROVE  IInv'
  <1>1. /\ rows \in [Keys -> Row] /\ UNCHANGED <<work, det>> /\ events' \in 0 .. MaxEvents
        /\ \A k \in S : Free(k)
    BY EventType DEF IInv, TypeOK, BulkRequeue
  <1>2. "pending" \in Statuses \ {"processing", "resolved"} /\ 0 \in Delays
    BY Values DEF Statuses, ACTIVE_STATUSES
  <1>3. rows' = [k \in Keys |->
          IF k \in S THEN [rows[k] EXCEPT !.status = "pending", !.next = 0, !.age = 0]
          ELSE rows[k]]
    BY Zenon DEF BulkRequeue
  <1>4. ASSUME NEW k \in Keys
        PROVE  rows'[k] \in Row /\ RowInv(rows'[k]) /\ (rows'[k] = rows[k] \/ Free(k))
    <2>1. CASE k \notin S
      BY <1>1, <1>3, <2>1 DEF IInv, RowsInv
    <2>2. CASE k \in S
      <3>1. PICK r : r = [rows[k] EXCEPT !.status = "pending", !.next = 0, !.age = 0]
        OBVIOUS
      <3>2. rows'[k] = r
        BY <1>3, <2>2, <3>1
      <3>3. r \in Row /\ RowInv(r)
        BY <1>1, <1>2, <3>1, TouchedFacts
      <3> QED
        BY <1>1, <2>2, <3>2, <3>3
    <2> QED
      BY <2>1, <2>2
  <1>5. rows' \in [Keys -> Row]
    BY <1>3, <1>4
  <1>6. \A k \in Keys : RowInv(rows[k])'
    BY <1>4 DEF RowInv
  <1> QED
    BY <1>1, <1>4, <1>5, <1>6, RowsWritten DEF IInv, TypeOK

\* A poll of the bridge registers and resolves rows that are not locked.
LEMMA BridgeStep ==
  ASSUME IInv, NEW R \in SUBSET BridgeIssues, NEW s \in Strategies, NEW complete \in BOOLEAN,
         BridgePoll(R, s, complete)
  PROVE  IInv'
  <1> DEFINE fresh(i) == {g \in 1 .. Generations : ~Present(<<i, g>>)}
             generation(i) == CHOOSE g \in fresh(i) : \A h \in fresh(i) : g <= h
             touches == {Base(i) : i \in {j \in R : ResolvedInGrace(j)}}
             upserts == {<<i, generation(i)>> : i \in {j \in R : Returned(j)}}
                        \union {Base(i) : i \in {j \in R : rows[Base(j)].status # "resolved"}}
             registered(k) == IF k \in upserts THEN Upserted(rows[k], s)
                              ELSE IF k \in touches THEN [rows[k] EXCEPT !.age = 0]
                              ELSE rows[k]
             gone(k) == /\ complete /\ k[1] \in BridgeIssues
                        /\ registered(k).status \in ACTIVE_STATUSES
                        /\ k \notin {Base(i) : i \in R}
  <1>1. /\ \A k \in Keys : k \in upserts \union touches \/ gone(k) => Free(k)
        /\ rows' = [k \in Keys |-> IF gone(k) THEN Transitioned(registered(k), "resolved", 0)
                                   ELSE registered(k)]
    BY Zenon DEF BridgePoll
  <1>2. /\ rows \in [Keys -> Row] /\ UNCHANGED <<work, det>> /\ events' \in 0 .. MaxEvents
    BY EventType DEF IInv, TypeOK, BridgePoll
  <1>3. /\ "pending" \in Statuses \ {"processing", "resolved"} /\ 0 \in Delays
        /\ "resolved" \in Statuses \ {"processing"}
    BY Values DEF Statuses, ACTIVE_STATUSES
  <1>4. ASSUME NEW k \in Keys
        PROVE  registered(k) \in Row /\ RowInv(registered(k))
    <2>1. rows[k] \in Row /\ RowInv(rows[k])
      BY <1>2 DEF IInv, RowsInv
    <2> HIDE DEF upserts, touches
    <2> QED
      BY <1>3, <2>1, UpsertedFacts, TouchedFacts
  <1>5. ASSUME NEW k \in Keys
        PROVE  registered(k) = rows[k] \/ k \in upserts \union touches
    BY Zenon
  <1> HIDE DEF registered, gone, upserts, touches
  <1>6. ASSUME NEW k \in Keys
        PROVE  rows'[k] \in Row /\ RowInv(rows'[k]) /\ (rows'[k] = rows[k] \/ Free(k))
    <2>1. rows'[k] = IF gone(k) THEN Transitioned(registered(k), "resolved", 0) ELSE registered(k)
      BY <1>1
    <2>2. Transitioned(registered(k), "resolved", 0) \in Row
          /\ RowInv(Transitioned(registered(k), "resolved", 0))
      BY <1>3, <1>4, TransitionedFacts
    <2> QED
      BY <1>1, <1>4, <1>5, <2>1, <2>2
  <1>7. rows' \in [Keys -> Row]
    BY <1>1, <1>6
  <1>8. \A k \in Keys : RowInv(rows[k])'
    BY <1>6 DEF RowInv
  <1> QED
    BY <1>2, <1>6, <1>7, <1>8, RowsWritten DEF IInv, TypeOK

\* Retention deletes rows that no job has.
LEMMA CleanupStep ==
  ASSUME IInv, CleanupTerminal
  PROVE  IInv'
  <1>1. PICK old \in SUBSET Keys :
          /\ \A k \in old, w \in Workers : k \notin work[w].held \union work[w].wrote
          /\ rows' = [k \in Keys |-> IF k \in old THEN NoRow ELSE rows[k]]
          /\ UNCHANGED <<work, det, events>>
    BY DEF CleanupTerminal
  <1>2. rows \in [Keys -> Row] /\ rows' \in [Keys -> Row]
    BY <1>1, NoRowFacts DEF IInv, TypeOK
  <1>3. \A k \in Keys : RowInv(rows'[k]) /\ (rows'[k] = rows[k] \/ Free(k))
    BY <1>1, NoRowFacts DEF IInv, RowsInv, Free
  <1>4. \A k \in Keys : RowInv(rows[k])'
    BY <1>3 DEF RowInv
  <1> QED
    BY <1>1, <1>2, <1>3, <1>4, RowsWritten DEF IInv, TypeOK

\* Time passes for committed rows and for those that wait alike.
LEMMA TickStep ==
  ASSUME IInv, Tick
  PROVE  IInv'
  <1>1. work \in [Workers -> Job] /\ rows \in [Keys -> Row] /\ UNCHANGED <<det, events>>
    BY DEF IInv, TypeOK, Tick
  <1>2. /\ rows' \in [Keys -> Row]
        /\ \A k \in Keys : /\ RowInv(rows'[k]) /\ rows'[k].status = rows[k].status
                            /\ rows'[k].token = rows[k].token
    BY <1>1, AgedFacts DEF Tick, IInv, RowsInv
  <1>3. ASSUME NEW w \in Workers
        PROVE  /\ work'[w] \in Job
               /\ work'[w].busy = work[w].busy /\ work'[w].held = work[w].held
               /\ work'[w].wrote = work[w].wrote
               /\ \A k \in Keys : /\ RowInv(work'[w].buf[k])
                                   /\ work'[w].buf[k].status = work[w].buf[k].status
                                   /\ work'[w].buf[k].token = work[w].buf[k].token
    <2>1. PICK b : b = [k \in Keys |-> Aged(work[w].buf[k])]
      OBVIOUS
    <2>2. work[w] \in Job /\ work[w].buf \in [Keys -> Row]
      BY <1>1, JobFields
    <2>3. /\ b \in [Keys -> Row]
          /\ \A k \in Keys : /\ RowInv(b[k]) /\ b[k].status = work[w].buf[k].status
                              /\ b[k].token = work[w].buf[k].token
      BY <2>1, <2>2, AgedFacts DEF IInv, RowsInv
    <2>4. PICK j : j = [work[w] EXCEPT !.buf = b]
      OBVIOUS
    <2>5. work'[w] = j
      BY <2>1, <2>4, Zenon DEF Tick
    <2>6. j \in Job
      BY <2>2, <2>3, <2>4 DEF Job
    <2>7. j.busy = work[w].busy /\ j.held = work[w].held /\ j.wrote = work[w].wrote /\ j.buf = b
      BY <2>2, <2>4 DEF Job
    <2> QED
      BY <2>3, <2>5, <2>6, <2>7
  <1>4. work' \in [Workers -> Job]
    <2>1. work' = [w \in Workers |-> work'[w]]
      BY DEF Tick
    <2> QED
      BY <1>3, <2>1
  <1>5. TypeOK'
    BY <1>1, <1>2, <1>4 DEF IInv, TypeOK
  <1>6. HandInv'
    BY <1>3 DEF IInv, HandInv
  <1>7. RowsInv'
    BY <1>2, <1>3 DEF RowsInv, RowInv
  <1>8. ASSUME NEW w \in Workers, NEW k \in work'[w].wrote
        PROVE  Uncommitted(w, k)'
    <2>1. k \in Keys /\ Uncommitted(w, k)
      BY <1>1, <1>3, <1>8, JobFields DEF IInv, WroteInv
    <2> QED
      BY <1>2, <1>3, <2>1 DEF Uncommitted, FreeFor
  <1> QED
    BY <1>5, <1>6, <1>7, <1>8 DEF IInv, WroteInv

-----------------------------------------------------------------------------
\* The invariant holds initially.
LEMMA InitInv == Init => IInv
  <1> SUFFICES ASSUME Init PROVE IInv
    OBVIOUS
  <1>1. IdleDetector \in Detector
    BY DEF IdleDetector, Detector, Strategies
  <1>2. TypeOK
    BY <1>1, NoRowFacts, IdleFacts, RemediationAssumption DEF Init, TypeOK
  <1>3. \A w \in Workers : work[w] = IdleJob
    BY DEF Init
  <1>4. RowsInv
    BY <1>3, NoRowFacts, IdleFacts DEF Init, RowsInv
  <1>5. HandInv /\ WroteInv
    BY <1>3, IdleFacts DEF HandInv, WroteInv
  <1> QED
    BY <1>2, <1>4, <1>5 DEF IInv

\* Every step preserves it.
LEMMA NextInv == IInv /\ [Next]_vars => IInv'
  <1> SUFFICES ASSUME IInv, [Next]_vars PROVE IInv'
    OBVIOUS
  <1>1. CASE \E d \in Detectors, i \in Issues, s \in Strategies : RegisterRead(d, i, s)
    BY <1>1, RegisterReadStep
  <1>2. CASE \E d \in Detectors : RegisterWrite(d)
    BY <1>2, RegisterWriteStep
  <1>3. ASSUME NEW w \in Workers, WorkerStep(w)
        PROVE  IInv'
    <2>1. CASE \E k \in work[w].held : ExecuteUnsupported(w, k)
      BY <2>1, ExecuteStep, Values
    <2>2. CASE \E k \in work[w].held, delay \in Delays, status \in Statuses :
                 ExecuteFails(w, k, status, delay)
      BY <2>2, ExecuteStep
    <2>3. CASE \E k \in work[w].held, delay \in Delays, resolved \in BOOLEAN :
                 ExecuteVerified(w, k, resolved, delay)
      BY <2>3, ExecuteStep
    <2> QED
      BY <1>3, <2>1, <2>2, <2>3, ClaimStep, CommitStep DEF WorkerStep
  <1>4. CASE \E w \in Workers : AbortJob(w)
    BY <1>4, AbortStep
  <1>5. CASE \E k \in Keys : Requeue(k) \/ Ignore(k)
    BY <1>5, OperatorStep
  <1>6. CASE \E S \in SUBSET {k \in Keys : rows[k].status \in Requeueable} : BulkRequeue(S)
    BY <1>6, BulkStep
  <1>7. CASE \E k \in Keys, status \in Statuses : Patch(k, status)
    BY <1>7, OperatorStep
  <1>8. CASE \E R \in SUBSET BridgeIssues, s \in Strategies, complete \in BOOLEAN :
               BridgePoll(R, s, complete)
    BY <1>8, BridgeStep
  <1>9. CASE CleanupTerminal
    BY <1>9, CleanupStep
  <1>10. CASE Tick
    BY <1>10, TickStep
  <1>11. CASE UNCHANGED vars
    BY <1>11 DEF vars, IInv, TypeOK, RowsInv, RowInv, HandInv, WroteInv, Uncommitted, FreeFor
  <1> QED
    BY <1>1, <1>2, <1>3, <1>4, <1>5, <1>6, <1>7, <1>8, <1>9, <1>10, <1>11 DEF Next

\* The invariant of the backlog.
LEMMA Invariant == Spec => []IInv
  BY InitInv, NextInv, PTL DEF Spec

\* Rows, jobs and detections keep their types.
THEOREM TypeCorrect == Spec => []TypeOK
  <1>1. IInv => TypeOK
    BY DEF IInv
  <1> QED
    BY <1>1, Invariant, PTL

\* A row in processing always has the lease through which claim() finds it again.
THEOREM ProcessingLeased == Spec => []ProcessingIsLeased
  <1>1. IInv => ProcessingIsLeased
    BY DEF IInv, RowsInv, RowInv, ProcessingIsLeased
  <1> QED
    BY <1>1, Invariant, PTL

\* Outcomes that wait for the commit belong to the claims their rows carry.
THEOREM OutcomeCurrent == Spec => []OutcomeIsCurrentClaims
  <1>1. IInv => OutcomeIsCurrentClaims
    BY DEF IInv, WroteInv, Uncommitted, OutcomeIsCurrentClaims
  <1> QED
    BY <1>1, Invariant, PTL

\* No commit of a worker undoes a resolution.
THEOREM ResolutionKept == Spec => ResolvedIsNotOverwritten
  <1>1. ASSUME IInv, NEW w \in Workers, NEW k \in Keys, CommitJob(w), rows[k].status = "resolved"
        PROVE  rows'[k].status = "resolved"
    <2>1. rows'[k] = IF k \in work[w].wrote THEN work[w].buf[k] ELSE rows[k]
      BY <1>1 DEF CommitJob
    <2> QED
      BY <1>1, <2>1 DEF IInv, WroteInv, Uncommitted
  <1>2. IInv => [\A w \in Workers, k \in Keys :
                   CommitJob(w) /\ rows[k].status = "resolved" => rows'[k].status = "resolved"]_vars
    BY <1>1
  <1> QED
    BY <1>2, Invariant, PTL DEF ResolvedIsNotOverwritten
=============================================================================
