------------------------------ MODULE TaxLots ------------------------------
(***************************************************************************)
(* The tax lots of one tenant and one security: compute_all_tax_lots of    *)
(* services/tax_lot_service.py, which deletes every lot and rebuilds them  *)
(* from the stored transactions after each completed sync and on request   *)
(* of the API, and the integrity check of services/data_health.py that     *)
(* judges the result.  Rebuilds run concurrently, each in one database     *)
(* transaction (read committed), while syncs add and change transactions   *)
(* and accounts are deleted with theirs.                                   *)
(***************************************************************************)
EXTENDS Fractions, SequencesExt

CONSTANTS
    Rebuilders,    \* syncs and requests that may rebuild at the same time
    Accounts,
    Transactions,  \* what the provider may deliver: a set of records
    LookbackDays,  \* WASH_SALE_LOOKBACK_DAYS
    Generations,   \* tags that tell the lots of two rebuilds apart
    MaxInitial,    \* bound: transactions stored before the first rebuild
    MaxStored,     \* bound: versions stored in all
    MaxChanges,    \* bound: versions that stop being the one stored
    None

VARIABLES
    accounts,  \* the accounts that have not been deleted
    stored,    \* the transactions of the tenant, each in its present version
    seen,      \* history: every version that has been stored
    table,     \* the committed rows of tax_lots
    job,       \* each rebuild: its open database transaction
    basis      \* history: the transactions the committed lots were built from,
               \* the basis their sales used, the loss disallowed, and whether
               \* no account has been deleted since

vars == <<accounts, stored, seen, table, job, basis>>

(***************************************************************************)
(* A transaction in one version: a sync changes the row in place, all but  *)
(* its account.  `row' is its row.   `id' is the place of the version in    *)
(* the order of the rebuild (occurred_at, then the row's id), `date' its   *)
(* occurred_at in whole days; `qty' its absolute quantity; `amount' its    *)
(* absolute amount.  A transfer leg is outbound when its amount is         *)
(* negative, and `ref' is its provider reference, if it has one.  `ratio'  *)
(* is what quantity_event_ratio finds in a quantity event.                 *)
(***************************************************************************)
Kinds == {"purchase", "sale", "transfer", "quantity_event"}

ASSUME TransactionShape ==
    /\ Transactions # {} /\ None \notin Nat
    /\ \A t \in Transactions :
           /\ {"id", "row", "date", "kind", "acct", "qty", "amount", "outbound", "ref",
               "ratio"} = DOMAIN t
           /\ t.id \in Nat /\ t.date \in Nat /\ t.kind \in Kinds
           /\ t.acct \in Accounts
           /\ IsFraction(t.qty) /\ AtMost(Zero, t.qty)
           /\ IsFraction(t.amount) /\ AtMost(Zero, t.amount)
           /\ t.outbound \in BOOLEAN
           /\ t.ratio = None \/ (IsFraction(t.ratio) /\ Less(Zero, t.ratio))
    /\ \A t, u \in Transactions : /\ t.id = u.id => t = u
                                  /\ t.id < u.id => t.date <= u.date
                                  /\ t.row = u.row => t.acct = u.acct

ASSUME EnoughGenerations == Cardinality(Generations) > 3 * Cardinality(Rebuilders)

\* The row of a version.
Row(n) == (CHOOSE t \in Transactions : t.id = n).row

(***************************************************************************)
(* pair_security_transfer_legs: the legs that agree in day, quantity and   *)
(* reference are paired by rank, outbound with inbound; a pair within one  *)
(* account is dropped and its legs stay alone.                             *)
(***************************************************************************)
Leg(t) == t.kind = "transfer" /\ t.ref # None /\ t.qty # Zero /\ t.amount # Zero

Alike(T, t) == {u \in T : /\ Leg(u) /\ u.ref = t.ref
                          /\ u.date = t.date /\ u.qty = t.qty}

Rank(T, t) == Cardinality({u \in Alike(T, t) : u.outbound = t.outbound /\ u.id <= t.id})

PartnersOf(T, t) == {u \in Alike(T, t) : /\ Leg(t)
                                          /\ u.outbound # t.outbound
                                          /\ Rank(T, u) = Rank(T, t)
                                          /\ u.acct # t.acct}

(***************************************************************************)
(* Lots.                                                                   *)
(***************************************************************************)
Opened(id, acct, qty, cost, acquired) ==
    [id |-> id, acct |-> acct, qty |-> qty, rem |-> qty, cost |-> cost,
     unit |-> Over(cost, qty), acquired |-> acquired, purchase |-> None,
     transfer |-> None, sale |-> None, closed |-> None, pl |-> None,
     wash |-> FALSE]

IsOpen(l) == l.closed = None

OpenLots(V, a) == {l \in V : l.acct = a /\ IsOpen(l)}

\* Fault: newest first.
Lifo(S) == {s \in SetToSeqs(S) :
                \A i, j \in DOMAIN s : i < j => s[i].acquired >= s[j].acquired}

\* find_open_lots orders by acquired_at alone: lots of the same instant come in any
\* order.
Fifo(S) == {s \in SetToSeqs(S) :
                \A i, j \in DOMAIN s : i < j => s[i].acquired <= s[j].acquired}

\* The units left in the lots of S.
Remaining(S) == Total([l \in S |-> l.rem])

\* What a loop over lots takes from the i-th, when it needs `need' in all and can
\* take cap[i] from each.
Before(cap, i) == Total([j \in 1..(i - 1) |-> cap[j]])

Taken(cap, need) ==
    [i \in DOMAIN cap |-> Lesser(cap[i], Greater(Zero, Minus(need, Before(cap, i))))]

Caps(s) == [i \in DOMAIN s |-> s[i].rem]

Costs(s) == [i \in DOMAIN s |-> s[i].cost]

\* The lots of V, those of s replaced one by one by those of r.
Replaced(V, s, r) == (V \ ToSet(s)) \cup ToSet(r)

(***************************************************************************)
(* The effect of one transaction on the lots V: the set of possible        *)
(* outcomes, which differ in the order of lots of one instant only.  The   *)
(* links of a lot hold the version a row had; the database holds the row.  *)
(***************************************************************************)
Outcome(lots, used, deferred) == [lots |-> lots, used |-> used, deferred |-> deferred]

Unaffected(V) == {Outcome(V, Zero, Zero)}

\* create_tax_lots_for_purchase
Purchased(V, t, g) ==
    {Outcome(V \cup {[Opened(<<g, t.id, 0>>, t.acct, t.qty, t.amount, t.date)
                         EXCEPT !.purchase = t.id]}, Zero, Zero)}

\* Fault: a lot sold out is left open.
SoldFromLeftOpen(l, q, t) == IF q = Zero THEN l ELSE [l EXCEPT !.rem = Minus(@, q)]

\* match_sale_to_lots on one lot, of which q units are sold.  The profit of a
\* portion is recorded on the lot only when the portion closes it.
SoldFrom(l, q, t) ==
    IF q = Zero THEN l
    ELSE IF q = l.rem
         THEN [l EXCEPT !.rem = Zero, !.closed = t.date, !.sale = t.id,
                        !.pl = Times(q, Minus(Over(t.amount, t.qty), l.unit))]
         ELSE [l EXCEPT !.rem = Minus(@, q)]

\* detect_and_adjust_wash_sales, after the lots of the sale have been written.
LossOf(V, t) ==
    Total([l \in {m \in V : m.sale # None /\ Row(m.sale) = t.row} |-> Greater(Zero, Neg(l.pl))])

Replacements(V, t) ==
    {l \in OpenLots(V, t.acct) : l.acquired \in (t.date - LookbackDays)..(t.date + LookbackDays)}

WashAdjusted(V, r, loss) ==
    LET cost == [i \in DOMAIN r |-> Plus(r[i].cost, Taken(Costs(r), loss)[i])]
    IN Replaced(V, r, [i \in DOMAIN r |->
           IF AtMost(loss, Before(Costs(r), i)) THEN r[i]
           ELSE [r[i] EXCEPT !.cost = cost[i], !.unit = Over(cost[i], r[i].qty), !.wash = TRUE]])

BasisOf(s, q) == Total([i \in DOMAIN s |-> Times(q[i], s[i].unit)])

Matched(V, t, s) ==
    LET q == Taken(Caps(s), t.qty)
    IN Outcome(Replaced(V, s, [i \in DOMAIN s |-> SoldFrom(s[i], q[i], t)]), BasisOf(s, q), Zero)

\* The loss that the replacement lots can take up.
Disallowed(r, loss) == Lesser(loss, Total(Costs(r)))

Washed(o, r, loss) ==
    Outcome(WashAdjusted(o.lots, r, loss), o.used, Disallowed(r, loss))

Sold(V, t) ==
    UNION {{Washed(o, r, LossOf(o.lots, t)) : r \in Fifo(Replacements(o.lots, t))} :
           o \in {Matched(V, t, s) : s \in Fifo(OpenLots(V, t.acct))}}

\* Fault: what is there is moved although it is not enough.
TransferNeverLacks(V, t) == FALSE

\* transfer_lots_to_destination: all of the quantity or nothing.
TransferLacks(V, t) == Less(Remaining(OpenLots(V, t.acct)), t.qty)

\* What is left of a lot, and the lot that arrives.
SentFrom(l, q, t) ==
    IF q = Zero THEN l
    ELSE [l EXCEPT !.rem = Minus(@, q), !.closed = IF q = l.rem THEN t.date ELSE @]

Arrived(l, q, dest, id) ==
    [Opened(id, dest.acct, q, Times(q, l.unit), l.acquired)
        EXCEPT !.unit = l.unit, !.transfer = dest.id]

Moved(V, t, dest, g, s) ==
    LET q == Taken(Caps(s), t.qty)
    IN Outcome(Replaced(V, s, [i \in DOMAIN s |-> SentFrom(s[i], q[i], t)])
                   \cup {Arrived(s[i], q[i], dest, <<g, dest.id, i>>) :
                            i \in {k \in DOMAIN s : q[k] # Zero}},
               Zero, Zero)

Transferred(V, t, dest, g) == {Moved(V, t, dest, g, s) : s \in Fifo(OpenLots(V, t.acct))}

\* Fault: the units are scaled and the basis of a unit is not.
RescaledUnitsOnly(l, ratio) == [l EXCEPT !.qty = Times(@, ratio), !.rem = Times(@, ratio)]

\* apply_quantity_event_to_lots
Rescaled(l, ratio) == [l EXCEPT !.qty = Times(@, ratio), !.rem = Times(@, ratio),
                                !.unit = Over(@, ratio)]

QuantityChanged(V, t) ==
    LET open == OpenLots(V, t.acct)
    IN {Outcome((V \ open) \cup {Rescaled(l, t.ratio) : l \in open}, Zero, Zero)}

\* process_transaction.  T is the set the pairs were formed from.
Outcomes(V, T, t, g) ==
    CASE t.kind = "purchase" -> Purchased(V, t, g)
      [] t.kind = "sale" -> IF t.qty = Zero THEN Unaffected(V) ELSE Sold(V, t)
      [] t.kind = "quantity_event" ->
             IF t.ratio = None THEN Unaffected(V) ELSE QuantityChanged(V, t)
      [] t.kind = "transfer" ->
             IF \/ ~t.outbound \/ PartnersOf(T, t) = {} \/ TransferLacks(V, t)
                \/ \E d \in PartnersOf(T, t), l \in V :
                       l.transfer # None /\ Row(l.transfer) = d.row
             THEN Unaffected(V)
             ELSE UNION {Transferred(V, t, d, g) : d \in PartnersOf(T, t)}

(***************************************************************************)
(* A rebuild.  `snap' are the rows its DELETE saw, `gone' those it deleted *)
(* and `mine' the rows it inserted or changed, all of it uncommitted.      *)
(***************************************************************************)
Ids(S) == {l.id : l \in S}

Idle == [pc |-> "idle", gen |-> None, snap |-> {}, gone |-> {}, mine |-> {},
         read |-> {}, todo |-> {}, used |-> Zero, deferred |-> Zero]

View(w) == {l \in table : l.id \notin job[w].gone \cup Ids(job[w].mine)} \cup job[w].mine

Locks(v) == job[v].gone \cup (Ids(job[v].mine) \cap Ids(table))

Others(w) == Rebuilders \ {w}

TagsInUse == {l.id[1] : l \in table} \cup {job[w].gen : w \in Rebuilders}
                 \cup UNION {{i[1] : i \in job[w].snap} : w \in Rebuilders}

OneVersionEach(S) == \A t, u \in S : t.row = u.row => t = u

Init == /\ accounts = Accounts
        /\ stored \in {S \in SUBSET Transactions :
                           /\ IsFiniteSet(S) /\ Cardinality(S) <= MaxInitial
                           /\ OneVersionEach(S)}
        /\ seen = stored
        /\ table = {}
        /\ job = [w \in Rebuilders |-> Idle]
        /\ basis = [read |-> {}, used |-> Zero, deferred |-> Zero, whole |-> TRUE]

\* A sync stores a transaction.
Store(t) == /\ t.acct \in accounts
            /\ \A u \in seen : u.row # t.row
            /\ Cardinality(seen) < MaxStored
            /\ stored' = stored \cup {t}
            /\ seen' = seen \cup {t}
            /\ UNCHANGED <<accounts, table, job, basis>>

WithinChanges == Cardinality(seen' \ stored') <= MaxChanges

\* A sync updates it in place; a version does not come back.  An update to a type or
\* security that the SELECT leaves out is one to an event that changes nothing.
Change(t, u) == /\ t \in stored
                /\ u.row = t.row /\ u \notin seen
                /\ Cardinality(seen) < MaxStored
                /\ stored' = (stored \ {t}) \cup {u}
                /\ seen' = seen \cup {u}
                /\ WithinChanges
                /\ UNCHANGED <<accounts, table, job, basis>>

\* A connection, or an account, is deleted with its transactions and lots, once no
\* rebuild has a row of it locked or refers to it by a row that is uncommitted.
DeleteAccount(a) ==
    /\ a \in accounts
    /\ \A w \in Rebuilders : /\ \A l \in job[w].mine : l.acct # a
                             /\ \A l \in table : l.acct = a => l.id \notin Locks(w)
    /\ accounts' = accounts \ {a}
    /\ stored' = {t \in stored : t.acct # a}
    /\ table' = {l \in table : l.acct # a}
    /\ basis' = [basis EXCEPT !.whole = FALSE]
    /\ UNCHANGED <<seen, job>>
    /\ WithinChanges

\* delete_for_tenant, in two steps: the statement sees the rows committed when it
\* starts, and then waits for whoever has locked one of them.
BeginDelete(w) ==
    /\ job[w].pc = "idle"
    /\ Generations \ TagsInUse # {}
    /\ job' = [job EXCEPT ![w] = [Idle EXCEPT
                  !.pc = "deleting", !.snap = Ids(table),
                  !.gen = CHOOSE g \in Generations : g \notin TagsInUse]]
    /\ UNCHANGED <<accounts, stored, seen, table, basis>>

DeleteWaitsFor(w) == {v \in Others(w) : Locks(v) \cap job[w].snap # {}}

FinishDelete(w) ==
    /\ job[w].pc = "deleting"
    /\ DeleteWaitsFor(w) = {}
    /\ job' = [job EXCEPT ![w].pc = "reading", ![w].gone = @ \cup (job[w].snap \cap Ids(table))]
    /\ UNCHANGED <<accounts, stored, seen, table, basis>>

\* The SELECT of all transactions, which also fixes the transfer pairs.
Selected(T) == T

ReadTransactions(w) ==
    /\ job[w].pc = "reading"
    /\ job' = [job EXCEPT ![w].pc = "matching", ![w].read = Selected(stored),
                          ![w].todo = Selected(stored)]
    /\ UNCHANGED <<accounts, stored, seen, table, basis>>

\* Fault: no unique constraint.
SameKeyNever(l, t) == FALSE

\* uq_tax_lots_purchase: one committed lot per account, purchase and day, and an
\* insert waits for the end of a transaction that inserts or deletes the same key.
\* Only the lot of a purchase has a key without a null.
SameKey(l, t) == /\ t.kind = "purchase" /\ l.purchase # None
                 /\ l.acct = t.acct /\ Row(l.purchase) = t.row /\ l.acquired = t.date

InsertWaitsFor(w, t) ==
    {v \in Others(w) : \/ \E l \in job[v].mine : SameKey(l, t)
                       \/ \E l \in table : l.id \in job[v].gone /\ SameKey(l, t)}

\* An UPDATE waits for whoever has locked the row.
UpdateWaitsFor(w, lots) == {v \in Others(w) : Ids(lots \ View(w)) \cap Locks(v) # {}}

NextTransaction(w) == CHOOSE t \in job[w].todo : \A u \in job[w].todo : t.id <= u.id

StepOutcomes(w) == Outcomes(View(w), job[w].read, NextTransaction(w), job[w].gen)

\* The foreign key of a lot.
HasAccount(lots) == \A l \in lots : l.acct \in accounts

ProcessTransaction(w) ==
    /\ job[w].pc = "matching"
    /\ job[w].todo # {}
    /\ InsertWaitsFor(w, NextTransaction(w)) = {}
    /\ ~\E l \in View(w) : SameKey(l, NextTransaction(w))
    /\ \E o \in StepOutcomes(w) :
           /\ UpdateWaitsFor(w, o.lots) = {}
           /\ HasAccount(o.lots)
           /\ job' = [job EXCEPT ![w].todo = @ \ {NextTransaction(w)},
                                 ![w].mine = o.lots \ table,
                                 ![w].used = Plus(@, o.used),
                                 ![w].deferred = Plus(@, o.deferred)]
    /\ UNCHANGED <<accounts, stored, seen, table, basis>>

\* Fault: the session of a refused insert is not rolled back.
UniqueViolationNoRollback(w) == job[w].pc = "matching" /\ UNCHANGED vars

\* The exception of a refused insert: the session is rolled back and the sync or
\* the request goes on without its lots.
UniqueViolation(w) ==
    /\ job[w].pc = "matching"
    /\ job[w].todo # {}
    /\ InsertWaitsFor(w, NextTransaction(w)) = {}
    /\ \E l \in View(w) : SameKey(l, NextTransaction(w))
    /\ job' = [job EXCEPT ![w] = Idle]
    /\ UNCHANGED <<accounts, stored, seen, table, basis>>

\* So does a lot in an account that has been deleted since the SELECT.
ForeignKeyViolation(w) ==
    /\ job[w].pc = "matching"
    /\ job[w].todo # {}
    /\ InsertWaitsFor(w, NextTransaction(w)) = {}
    /\ \E o \in StepOutcomes(w) : ~HasAccount(o.lots)
    /\ job' = [job EXCEPT ![w] = Idle]
    /\ UNCHANGED <<accounts, stored, seen, table, basis>>

\* Two rebuilds that wait for each other: the database makes one of them fail.
WaitsFor(w) ==
    CASE job[w].pc = "deleting" -> DeleteWaitsFor(w)
      [] job[w].pc = "matching" /\ job[w].todo # {} ->
             InsertWaitsFor(w, NextTransaction(w))
                 \cup UNION {UpdateWaitsFor(w, o.lots) : o \in StepOutcomes(w)}
      [] OTHER -> {}

DeadlockVictim(w) ==
    /\ job[w].pc # "idle"
    /\ \E v \in WaitsFor(w) : w \in WaitsFor(v)
    /\ job' = [job EXCEPT ![w] = Idle]
    /\ UNCHANGED <<accounts, stored, seen, table, basis>>

Commit(w) ==
    /\ job[w].pc = "matching"
    /\ job[w].todo = {}
    /\ table' = View(w)
    /\ basis' = [read |-> job[w].read, used |-> job[w].used,
                 deferred |-> job[w].deferred, whole |-> TRUE]
    /\ job' = [job EXCEPT ![w] = Idle]
    /\ UNCHANGED <<accounts, stored, seen>>

Step(w) == \/ BeginDelete(w) \/ FinishDelete(w) \/ ReadTransactions(w)
           \/ ProcessTransaction(w) \/ UniqueViolation(w) \/ ForeignKeyViolation(w)
           \/ DeadlockVictim(w) \/ Commit(w)

Next == \/ \E t \in Transactions : Store(t)
        \/ \E t, u \in Transactions : Change(t, u)
        \/ \E a \in Accounts : DeleteAccount(a)
        \/ \E w \in Rebuilders : Step(w)

Spec == Init /\ [][Next]_vars

\* Syncs go on, and a rebuild proceeds.  Strong fairness, because a statement that
\* waits for a lock gets it when the holder ends, before anyone who comes later.
FairSpec == Spec /\ \A w \in Rebuilders : SF_vars(Step(w))

(***************************************************************************)
(* The integrity check of the data-health service, but for its comparison  *)
(* of a lot's cost with its cost per unit, which is about rounding: both   *)
(* are kept to eight decimals.  T are the transactions that are stored.    *)
(***************************************************************************)
Linked(id, acct, kind, T) ==
    id = None \/ \E t \in T : t.row = Row(id) /\ t.acct = acct /\ t.kind = kind

Broken(l, T) ==
    \/ AtMost(l.qty, Zero)
    \/ Less(l.rem, Zero)
    \/ Less(l.qty, l.rem)
    \/ (l.rem = Zero) # (l.closed # None)
    \/ ~Linked(l.purchase, l.acct, "purchase", T)
    \/ ~Linked(l.sale, l.acct, "sale", T)
    \/ l.transfer # None /\ ~\E t \in T : t.row = Row(l.transfer) /\ t.kind = "transfer"
    \/ Less(l.cost, Zero)
    \/ Less(l.unit, Zero)

(***************************************************************************)
(* Properties.                                                             *)
(***************************************************************************)
Latest(S) == CHOOSE t \in S : \A u \in S : u.id <= t.id

\* What t makes of the holdings h; T is the set the pairs are formed from.
Counted(T, t, h) ==
    CASE t.kind = "purchase" -> [h EXCEPT ![t.acct] = Plus(@, t.qty)]
      [] t.kind = "sale" -> [h EXCEPT ![t.acct] = Minus(@, Lesser(@, t.qty))]
      [] t.kind = "quantity_event" ->
             IF t.ratio = None THEN h ELSE [h EXCEPT ![t.acct] = Times(@, t.ratio)]
      [] t.kind = "transfer" ->
             IF ~t.outbound \/ PartnersOf(T, t) = {} \/ Less(h[t.acct], t.qty) THEN h
             ELSE [a \in Accounts |->
                      IF a = t.acct THEN Minus(h[a], t.qty)
                      ELSE IF \E d \in PartnersOf(T, t) : d.acct = a THEN Plus(h[a], t.qty)
                      ELSE h[a]]

\* The holdings after the transactions of S, one after the other.
Held(T, S) == MapThenFoldSet(LAMBDA t, h : Counted(T, t, h), [a \in Accounts |-> Zero],
                             LAMBDA t : t, Latest, S)

\* The position of each account, from the transactions alone: what a holder of the
\* account would count.
Position(T) == Held(T, T)

\* The units left in the lots of an account are its position: sales, transfers
\* and quantity events neither lose nor invent units, however they are spread
\* over lots, as long as rebuilds do not overlap.
UnitsConserved ==
    \A a \in accounts :
        Remaining({l \in table : l.acct = a}) = Position(basis.read)[a]

Units(T) == Total([t \in T |-> t.qty])

PurchasesIn(T, a) == {t \in T : t.kind = "purchase" /\ t.acct = a}

\* First in, first out: in an account that only buys and sells, the lots acquired
\* up to any day hold what was bought until then less everything that was sold.
FifoExact ==
    \A a \in accounts :
        (\A t \in basis.read : t.kind \in {"transfer", "quantity_event"} => t.acct # a) =>
            \A d \in {l.acquired : l \in table} :
                LET bought == PurchasesIn(basis.read, a)
                    sold == Minus(Units(bought), Position(basis.read)[a])
                IN Remaining({l \in table : l.acct = a /\ l.acquired <= d})
                       = Greater(Zero, Minus(Units({t \in bought : t.date <= d}), sold))

\* What was paid for units is either used by a sale or still the basis of an open
\* lot; beyond it there is at most the disallowed loss of wash sales.  An account
\* that is deleted takes its part along.
BasisConserved == basis.whole =>
    LET paid == Total([t \in {u \in basis.read : u.kind = "purchase" /\ u.qty # Zero}
                         |-> t.amount])
        open == Total([l \in {k \in table : IsOpen(k)} |-> Times(l.rem, l.unit)])
        added == Minus(Plus(open, basis.used), paid)
    IN AtMost(Zero, added) /\ AtMost(added, basis.deferred)

One == Whole(1)

\* The data-health check finds no lot of a rebuild broken, whatever rebuilds and
\* syncs overlap, but for the lot of a purchase that was delivered without a
\* quantity, one that was made from a transaction that has gone or changed its kind
\* since, and one of a tenant with a quantity event that shrinks lots: what is left
\* of a lot may then be less than the eight decimals that are kept.
NoBrokenLot ==
    \A l \in table : Broken(l, stored) =>
        \/ \E t \in seen : t.id = l.purchase /\ t.qty = Zero
        \/ \E t \in seen : /\ t.id \in {l.purchase, l.sale, l.transfer}
                           /\ ~\E u \in stored : u.row = t.row /\ u.kind = t.kind
        \/ \E t \in seen : t.kind = "quantity_event" /\ t.ratio # None /\ Less(t.ratio, One)

\* The purchases that are stored and have kept their kind and day in every version.
Steady == {t \in stored : /\ t.kind = "purchase"
                          /\ \A u \in seen : u.row = t.row => u.kind = t.kind /\ u.date = t.date}

Rows(T) == {t.row : t \in T}

\* The committed lots of steady purchases are made by one rebuild, and if the last
\* one that committed has read any of these purchases, it has read those of the lots
\* and no others.  A rebuild that has read none is excepted: the unique constraint,
\* which makes one of two rebuilds fail, cannot see it.  Nor does the constraint see
\* a second lot of a purchase that has been given another day.
OneGeneration ==
    LET lots == {l \in table : l.purchase # None /\ Row(l.purchase) \in Rows(Steady)}
        read == Rows(basis.read) \cap Rows(Steady)
    IN /\ \A l, m \in lots : l.id[1] = m.id[1]
       /\ read # {} => read = {Row(l.purchase) : l \in lots}

\* A transaction that stays stored is in the lots in the end, although the failure
\* of a rebuild is swallowed.
StoredIsBooked ==
    \A t \in Transactions : t \in stored ~> t \in basis.read \/ t \notin stored
=============================================================================
