--------------------------- MODULE TaxLotsProofs ---------------------------
(***************************************************************************)
(* What the tax lots of overlapping rebuilds are, for any number of        *)
(* rebuilds, accounts and transactions.                                    *)
(*                                                                         *)
(* Rebuilds do not mix the lots of purchases (OneRebuild).  The argument   *)
(* needs of a lot only its key: `id' is <<rebuild, transaction, place>>,   *)
(* with place 0 for the lot of a purchase.                                 *)
(*                                                                         *)
(* The lots pass the integrity check of the data-health service            *)
(* (LotsPassTheCheck).  The argument needs the arithmetic of fractions and *)
(* of their sums, which come first, and then that each operation on lots   *)
(* leaves a sound lot sound.                                               *)
(*                                                                         *)
(* Rebuilds that do not overlap lose no units, sell the oldest lots first, *)
(* and lose no basis (UnitsKept, FirstInFirstOut, BasisKept): each of the  *)
(* operations keeps the ledger of the transactions processed so far.       *)
(***************************************************************************)
EXTENDS TaxLots, TLAPS, WellFoundedInduction, FiniteSetTheorems, FunctionTheorems

\* A lot has the purchase its key tells, and its account and day.
PurchaseOf(i) == IF i[3] = 0 THEN i[2] ELSE None
Bears(i, acct, acquired) ==
    i[3] = 0 => \E t \in Transactions : /\ t.id = i[2] /\ t.kind = "purchase"
                                       /\ t.acct = acct /\ t.date = acquired
IsLot(l) == /\ {"id", "purchase", "acct", "acquired"} \subseteq DOMAIN l
            /\ l.purchase = PurchaseOf(l.id)
            /\ l.id[3] = 0 => l.id[2] \in Nat
            /\ Bears(l.id, l.acct, l.acquired)
AreLots(V) == \A l \in V : IsLot(l)

\* The keys that a transaction adds to those of V under tag g.
Added(V, W, t, g) ==
    /\ AreLots(W)
    /\ Ids(V) \subseteq Ids(W)
    /\ \A i \in Ids(W) \ Ids(V) :
           /\ i[1] = g
           /\ i[3] = 0 => t.kind = "purchase" /\ i[2] = t.id
    /\ t.kind = "purchase" => <<g, t.id, 0>> \in Ids(W)

-----------------------------------------------------------------------------
(* The effect of a transaction on the keys.                                *)

\* An order of lots is an order of lots of the set.
LEMMA FifoOf ==
    ASSUME NEW S, NEW s \in Fifo(S)
    PROVE  \A i \in DOMAIN s : s[i] \in S
BY DEF Fifo, SetToSeqs

\* Lots that are written again keep their keys.
LEMMA ReplacedKeys ==
    ASSUME NEW V, AreLots(V), NEW s, NEW r, DOMAIN r = DOMAIN s,
           \A i \in DOMAIN s : s[i] \in V /\ IsLot(r[i]) /\ r[i].id = s[i].id
    PROVE  AreLots(Replaced(V, s, r)) /\ Ids(Replaced(V, s, r)) = Ids(V)
<1> DEFINE W == Replaced(V, s, r)
<1>1. \A l \in W : l \in V \/ \E i \in DOMAIN s : l = r[i]
  BY DEF Replaced, ToSet
<1>2. \A i \in DOMAIN s : r[i] \in W
  BY DEF Replaced, ToSet
<1>3. \A l \in V : l \in W \/ \E i \in DOMAIN s : l = s[i]
  BY DEF Replaced, ToSet
<1> HIDE DEF W
<1>4. AreLots(W) BY <1>1 DEF AreLots
<1>5. Ids(W) \subseteq Ids(V)
  <2> SUFFICES ASSUME NEW l \in W PROVE \E m \in V : m.id = l.id BY DEF Ids
  <2> QED BY <1>1
<1>6. Ids(V) \subseteq Ids(W)
  <2> SUFFICES ASSUME NEW l \in V PROVE \E m \in W : m.id = l.id BY DEF Ids
  <2> QED BY <1>2, <1>3
<1> QED BY <1>4, <1>5, <1>6 DEF W

\* A lot of which units are sold or sent, or whose basis is adjusted.
LEMMA WrittenLot ==
    ASSUME NEW l, IsLot(l), NEW q
    PROVE  /\ \A t : /\ IsLot(SoldFrom(l, q, t)) /\ SoldFrom(l, q, t).id = l.id
                     /\ IsLot(SentFrom(l, q, t)) /\ SentFrom(l, q, t).id = l.id
           /\ IsLot(Rescaled(l, q)) /\ Rescaled(l, q).id = l.id
BY DEF IsLot, SoldFrom, SentFrom, Rescaled

\* A lot that takes up a disallowed loss.
LEMMA WashedLot ==
    ASSUME NEW l, IsLot(l), NEW c, NEW u
    PROVE  /\ IsLot([l EXCEPT !.cost = c, !.unit = u, !.wash = TRUE])
           /\ [l EXCEPT !.cost = c, !.unit = u, !.wash = TRUE].id = l.id
BY DEF IsLot

\* Lots that keep their keys are no addition, unless the transaction buys.
LEMMA NothingAdded ==
    ASSUME NEW V, NEW W, NEW t, NEW g, AreLots(W), Ids(W) = Ids(V), t.kind # "purchase"
    PROVE  Added(V, W, t, g)
BY DEF Added

\* create_tax_lots_for_purchase adds one key.
LEMMA PurchasedAdds ==
    ASSUME NEW V, AreLots(V), NEW t \in Transactions, t.id \in Nat, t.kind = "purchase",
           NEW g, NEW o \in Purchased(V, t, g)
    PROVE  Added(V, o.lots, t, g)
<1> DEFINE l == [Opened(<<g, t.id, 0>>, t.acct, t.qty, t.amount, t.date) EXCEPT !.purchase = t.id]
<1> DEFINE W == V \cup {l}
<1>0. o = Outcome(W, Zero, Zero) BY Zenon DEF Purchased
<1> HIDE DEF W
<1>1. o.lots = V \cup {l} BY <1>0 DEF Outcome, W
<1>2. /\ l.id = <<g, t.id, 0>> /\ l.purchase = t.id /\ l.acct = t.acct /\ l.acquired = t.date
      /\ {"id", "purchase", "acct", "acquired"} \subseteq DOMAIN l
  BY Zenon DEF Opened
<1> HIDE DEF l
<1>3. IsLot(l)
  <2>1. Bears(l.id, l.acct, l.acquired) BY <1>2 DEF Bears
  <2> QED BY <1>2, <2>1 DEF IsLot, PurchaseOf
<1>4. AreLots(o.lots) BY <1>1, <1>3 DEF AreLots
<1>5. Ids(o.lots) = Ids(V) \cup {<<g, t.id, 0>>} BY <1>1, <1>2 DEF Ids
<1>6. \A i \in Ids(o.lots) \ Ids(V) : i[1] = g /\ i[2] = t.id BY <1>5
<1> QED BY <1>4, <1>5, <1>6 DEF Added

\* A sale is the matching of an order of the open lots, then the wash-sale rule.
SaleOf(V, t, o) ==
    \E s \in Fifo(OpenLots(V, t.acct)) :
        o \in {Washed(Matched(V, t, s), r, LossOf(Matched(V, t, s).lots, t)) :
                   r \in Fifo(Replacements(Matched(V, t, s).lots, t))}

\* So it is.
LEMMA SaleIs ==
    ASSUME NEW V, NEW t, NEW o \in Sold(V, t)
    PROVE  SaleOf(V, t, o)
BY Zenon DEF Sold, SaleOf

\* match_sale_to_lots and the wash-sale rule add none.
LEMMA SoldAdds ==
    ASSUME NEW V, AreLots(V), NEW t, t.kind # "purchase", NEW g, NEW o \in Sold(V, t)
    PROVE  Added(V, o.lots, t, g)
<1>0. SaleOf(V, t, o) BY SaleIs
<1>1. PICK s \in Fifo(OpenLots(V, t.acct)) :
        o \in {Washed(Matched(V, t, s), r, LossOf(Matched(V, t, s).lots, t)) :
                   r \in Fifo(Replacements(Matched(V, t, s).lots, t))}
  BY <1>0, Zenon DEF SaleOf
<1> DEFINE m == Matched(V, t, s)
           loss == LossOf(m.lots, t)
           q == Taken(Caps(s), t.qty)
           sold == [i \in DOMAIN s |-> SoldFrom(s[i], q[i], t)]
<1>2. PICK r \in Fifo(Replacements(m.lots, t)) : o = Washed(m, r, loss) BY <1>1, Zenon
<1>3. m.lots = Replaced(V, s, sold) BY Zenon DEF Matched, Outcome
<1>4. \A i \in DOMAIN s : s[i] \in V BY FifoOf DEF OpenLots
<1>5. DOMAIN sold = DOMAIN s /\ \A i \in DOMAIN s : IsLot(sold[i]) /\ sold[i].id = s[i].id
  <2> HIDE DEF q
  <2>1. ASSUME NEW i \in DOMAIN s PROVE IsLot(sold[i]) /\ sold[i].id = s[i].id
    <3>1. IsLot(s[i]) BY <1>4 DEF AreLots
    <3>2. sold[i] = SoldFrom(s[i], q[i], t) OBVIOUS
    <3> HIDE DEF sold
    <3> QED BY <3>1, <3>2, WrittenLot
  <2> QED BY <2>1
<1> HIDE DEF sold
<1>6. AreLots(m.lots) /\ Ids(m.lots) = Ids(V) BY <1>3, <1>4, <1>5, ReplacedKeys
<1> HIDE DEF m, loss
<1> DEFINE cost == [i \in DOMAIN r |-> Plus(r[i].cost, Taken(Costs(r), loss)[i])]
           wash == [i \in DOMAIN r |->
                      IF AtMost(loss, Before(Costs(r), i)) THEN r[i]
                      ELSE [r[i] EXCEPT !.cost = cost[i], !.unit = Over(cost[i], r[i].qty),
                                        !.wash = TRUE]]
<1>7. o.lots = Replaced(m.lots, r, wash) BY <1>2, Zenon DEF Washed, Outcome, WashAdjusted
<1>8. \A i \in DOMAIN r : r[i] \in m.lots BY FifoOf DEF Replacements, OpenLots
<1>9. DOMAIN wash = DOMAIN r /\ \A i \in DOMAIN r : IsLot(wash[i]) /\ wash[i].id = r[i].id
  <2> HIDE DEF cost
  <2>1. ASSUME NEW i \in DOMAIN r PROVE IsLot(wash[i]) /\ wash[i].id = r[i].id
    <3>1. IsLot(r[i]) BY <1>6, <1>8 DEF AreLots
    <3> DEFINE c == cost[i]
               u == Over(cost[i], r[i].qty)
    <3>2. wash[i] = r[i] \/ wash[i] = [r[i] EXCEPT !.cost = c, !.unit = u, !.wash = TRUE]
      BY Zenon
    <3> HIDE DEF wash, c, u
    <3> DEFINE k == r[i]
    <3>3. IsLot(k) BY <3>1
    <3>4. wash[i] = k \/ wash[i] = [k EXCEPT !.cost = c, !.unit = u, !.wash = TRUE] BY <3>2
    <3> HIDE DEF k
    <3>5. IsLot(wash[i]) /\ wash[i].id = k.id
      <4>1. CASE wash[i] = k BY <3>3, <4>1
      <4>2. CASE wash[i] = [k EXCEPT !.cost = c, !.unit = u, !.wash = TRUE]
        <5>1. /\ IsLot([k EXCEPT !.cost = c, !.unit = u, !.wash = TRUE])
              /\ [k EXCEPT !.cost = c, !.unit = u, !.wash = TRUE].id = k.id
          BY <3>3, WashedLot, Zenon
        <5> QED BY <4>2, <5>1
      <4> QED BY <3>4, <4>1, <4>2
    <3> QED BY <3>5 DEF k
  <2>2. DOMAIN wash = DOMAIN r OBVIOUS
  <2> HIDE DEF wash
  <2> QED BY <2>1, <2>2
<1> HIDE DEF wash
<1>10. AreLots(o.lots) /\ Ids(o.lots) = Ids(m.lots) BY <1>6, <1>7, <1>8, <1>9, ReplacedKeys
<1> QED BY <1>6, <1>10, NothingAdded

\* transfer_lots_to_destination adds keys of its own, none of a purchase.
LEMMA TransferredAdds ==
    ASSUME NEW V, AreLots(V), NEW t, t.kind # "purchase", NEW d, NEW g,
           NEW o \in Transferred(V, t, d, g)
    PROVE  Added(V, o.lots, t, g)
<1>1. PICK s \in Fifo(OpenLots(V, t.acct)) : o = Moved(V, t, d, g, s) BY Zenon DEF Transferred
<1> DEFINE q == Taken(Caps(s), t.qty)
           sent == [i \in DOMAIN s |-> SentFrom(s[i], q[i], t)]
           places == {k \in DOMAIN s : q[k] # Zero}
           new == {Arrived(s[i], q[i], d, <<g, d.id, i>>) : i \in places}
<1>2. o.lots = Replaced(V, s, sent) \cup new BY <1>1, Zenon DEF Moved, Outcome
<1>3. \A i \in DOMAIN s : s[i] \in V BY FifoOf DEF OpenLots
<1>4. DOMAIN sent = DOMAIN s /\ \A i \in DOMAIN s : IsLot(sent[i]) /\ sent[i].id = s[i].id
  <2> HIDE DEF q
  <2>1. ASSUME NEW i \in DOMAIN s PROVE IsLot(sent[i]) /\ sent[i].id = s[i].id
    <3>1. IsLot(s[i]) BY <1>3 DEF AreLots
    <3>2. sent[i] = SentFrom(s[i], q[i], t) OBVIOUS
    <3> HIDE DEF sent
    <3> QED BY <3>1, <3>2, WrittenLot
  <2> QED BY <2>1
<1>5. \A i \in places : i \in Nat /\ i # 0
  <2>1. DOMAIN s = 1 .. Cardinality(OpenLots(V, t.acct)) BY DEF Fifo, SetToSeqs
  <2> QED BY <2>1
<1>6. \A l \in new : \E i \in places :
          /\ l.id = <<g, d.id, i>> /\ l.purchase = None
          /\ {"id", "purchase", "acct", "acquired"} \subseteq DOMAIN l
  <2> HIDE DEF q, places
  <2> QED BY Zenon DEF Arrived, Opened
<1> HIDE DEF sent, places, new
<1>7. AreLots(Replaced(V, s, sent)) /\ Ids(Replaced(V, s, sent)) = Ids(V)
  BY <1>3, <1>4, ReplacedKeys
<1>8. ASSUME NEW l \in new PROVE IsLot(l) /\ l.id[1] = g /\ l.id[3] # 0
  <2>1. PICK i \in places :
          /\ l.id = <<g, d.id, i>> /\ l.purchase = None
          /\ {"id", "purchase", "acct", "acquired"} \subseteq DOMAIN l
    BY <1>6
  <2>2. i # 0 BY <1>5
  <2>3. l.id[1] = g /\ l.id[3] # 0 BY <2>1, <2>2
  <2> QED BY <2>1, <2>3 DEF IsLot, PurchaseOf, Bears
<1>9. AreLots(o.lots) BY <1>2, <1>7, <1>8 DEF AreLots
<1>10. Ids(o.lots) = Ids(V) \cup Ids(new) BY <1>2, <1>7 DEF Ids
<1>11. \A i \in Ids(new) : i[1] = g /\ i[3] # 0 BY <1>8 DEF Ids
<1> QED BY <1>9, <1>10, <1>11 DEF Added

\* apply_quantity_event_to_lots adds none.
LEMMA QuantityAdds ==
    ASSUME NEW V, AreLots(V), NEW t, t.kind # "purchase", NEW g, NEW o \in QuantityChanged(V, t)
    PROVE  Added(V, o.lots, t, g)
<1> DEFINE open == OpenLots(V, t.acct)
           new == {Rescaled(l, t.ratio) : l \in open}
<1> DEFINE W == (V \ open) \cup new
<1>0. o = Outcome(W, Zero, Zero) BY Zenon DEF QuantityChanged
<1> HIDE DEF W
<1>1. o.lots = (V \ open) \cup new BY <1>0 DEF Outcome, W
<1>2. open \subseteq V BY DEF OpenLots
<1>3. \A l \in open : IsLot(Rescaled(l, t.ratio)) /\ Rescaled(l, t.ratio).id = l.id
  <2> HIDE DEF open
  <2> SUFFICES ASSUME NEW l \in open
               PROVE  IsLot(Rescaled(l, t.ratio)) /\ Rescaled(l, t.ratio).id = l.id
    OBVIOUS
  <2>1. IsLot(l) BY <1>2 DEF AreLots
  <2> QED BY <2>1, WrittenLot
<1> HIDE DEF open
<1>4. \A l \in new : \E m \in open : IsLot(l) /\ l.id = m.id BY <1>3
<1>5. \A m \in open : \E l \in new : l.id = m.id BY <1>3
<1> HIDE DEF new
<1>6. AreLots(o.lots) BY <1>1, <1>4 DEF AreLots
<1>7. Ids(o.lots) \subseteq Ids(V)
  <2> SUFFICES ASSUME NEW l \in o.lots PROVE \E m \in V : m.id = l.id BY DEF Ids
  <2> QED BY <1>1, <1>2, <1>4
<1>8. Ids(V) \subseteq Ids(o.lots)
  <2> SUFFICES ASSUME NEW l \in V PROVE \E m \in o.lots : m.id = l.id BY DEF Ids
  <2> QED BY <1>1, <1>5
<1> QED BY <1>6, <1>7, <1>8, NothingAdded

\* process_transaction: the keys it adds are its own, and the one of a
\* purchase is that of the transaction.
LEMMA OutcomeAdds ==
    ASSUME NEW V, AreLots(V), NEW T, NEW t \in Transactions, NEW g, NEW o \in Outcomes(V, T, t, g)
    PROVE  Added(V, o.lots, t, g)
<1>1. t.id \in Nat /\ t.kind \in Kinds BY Zenon, TransactionShape
<1>2. t.kind # "purchase" => \A x \in Unaffected(V) : Added(V, x.lots, t, g)
  <2>1. \A x \in Unaffected(V) : x.lots = V BY DEF Unaffected, Outcome
  <2> QED BY <2>1, NothingAdded
<1>3. CASE t.kind = "purchase"
  <2>1. o \in Purchased(V, t, g) BY <1>3 DEF Outcomes
  <2> QED BY <1>1, <1>3, <2>1, PurchasedAdds
<1>4. CASE t.kind = "sale"
  <2>1. o \in Unaffected(V) \/ o \in Sold(V, t) BY <1>4 DEF Outcomes
  <2> QED BY <1>2, <1>4, <2>1, SoldAdds
<1>5. CASE t.kind = "quantity_event"
  <2>1. o \in Unaffected(V) \/ o \in QuantityChanged(V, t) BY <1>5 DEF Outcomes
  <2> QED BY <1>2, <1>5, <2>1, QuantityAdds
<1>6. CASE t.kind = "transfer"
  <2>1. o \in Unaffected(V) \/ \E d \in PartnersOf(T, t) : o \in Transferred(V, t, d, g)
    BY <1>6 DEF Outcomes
  <2> QED BY <1>2, <1>6, <2>1, TransferredAdds
<1> QED BY <1>1, <1>3, <1>4, <1>5, <1>6 DEF Kinds

-----------------------------------------------------------------------------
(* The keys in the state, and the inductive invariant.                     *)

Keys == Ids(table)
Pc(w) == job[w].pc
Gen(w) == job[w].gen
Snap(w) == job[w].snap
Gone(w) == job[w].gone
Mine(w) == Ids(job[w].mine)
Read(w) == job[w].read
Todo(w) == job[w].todo
Own(w) == {i \in Mine(w) : i[1] = Gen(w)}

\* Of keys, and of transactions, only the purchases of the rows S count.
Buys(I, S) == {i \in I : i[3] = 0 /\ Row(i[2]) \in S}
Purchases(I, S) == {Row(i[2]) : i \in Buys(I, S)}
Bought(R, S) == {t.row : t \in {u \in R : u.kind = "purchase" /\ u.row \in S}}
AllOrNone(I, J) == I \subseteq J \/ I \cap J = {}
Comparable(A, B) == A \subseteq B \/ B \subseteq A

Fields == DOMAIN Idle

\* The shape of the state; `job' has no type, for a lot holds whatever the
\* transactions hold.
Shape == /\ DOMAIN job = Rebuilders
         /\ AreLots(table)
         /\ \A w \in Rebuilders : DOMAIN job[w] = Fields /\ AreLots(job[w].mine)

\* The lots of purchases are of versions that have been stored.
Sure(I) == \A i \in I : i[3] = 0 => \E t \in seen : t.id = i[2] /\ t.kind = "purchase"

\* The rows S have kept their kind and day, and are not removed.
Agree(S) == \A t, u \in seen : t.row = u.row /\ t.row \in S => t.kind = u.kind /\ t.date = u.date
Stay(S) == \A t \in seen : t.row \in S => \E u \in stored : u.row = t.row

Versions(S) == /\ stored \subseteq seen /\ seen \subseteq Transactions
               /\ basis.read \subseteq seen
               /\ Agree(S) /\ Stay(S)

Known == Sure(Keys) /\ \A w \in Rebuilders : Sure(Mine(w))

\* What a rebuild has at each stage, and that it reads what is stored.
Stages ==
    \A w \in Rebuilders :
        /\ Pc(w) = "idle" => Snap(w) = {}
        /\ Pc(w) \in {"idle", "deleting"} => Gone(w) = {}
        /\ Pc(w) # "matching" => Mine(w) = {} /\ Read(w) = {} /\ Todo(w) = {}
        /\ Gone(w) \subseteq Snap(w)
        /\ Todo(w) \subseteq Read(w) /\ Read(w) \subseteq seen

\* The tag of a rebuild is in nobody else's keys.
Fresh ==
    \A w \in Rebuilders : Pc(w) # "idle" =>
        /\ \A i \in Keys : i[1] # Gen(w)
        /\ \A v \in Rebuilders : \A i \in Snap(v) : i[1] # Gen(w)
        /\ \A v \in Others(w) : Pc(v) # "idle" => Gen(v) # Gen(w)

\* A rebuild has inserted its rows and updated rows that nobody deletes: the
\* row locks.
Locked ==
    \A w \in Rebuilders :
        /\ \A i \in Mine(w) : i[1] = Gen(w) \/ i \in Keys \ Gone(w)
        /\ \A v \in Others(w) : Gone(v) \cap Mine(w) = {}

\* A rebuild has a row for the purchases it has processed.
Booked(S) == \A w \in Rebuilders : Purchases(Own(w), S) = Bought(Read(w) \ Todo(w), S)

\* No purchase is in two places: the unique constraint.
Apart(S) ==
    \A w \in Rebuilders :
        /\ Purchases(Keys \ Gone(w), S) \cap Purchases(Own(w), S) = {}
        /\ \A v \in Others(w) : Purchases(Own(v), S) \cap Purchases(Own(w), S) = {}

\* A DELETE has all the purchases of the table or none of them.
Complete(S) ==
    \A w \in Rebuilders :
        /\ AllOrNone(Buys(Keys, S), Gone(w))
        /\ Pc(w) = "deleting" => AllOrNone(Buys(Keys, S), Snap(w))

\* Purchases of S are never removed: of two rebuilds one has read what the other
\* has.
Nested(S) ==
    \A w \in Rebuilders :
        /\ Comparable(Purchases(Keys, S), Bought(Read(w), S))
        /\ \A v \in Rebuilders : Comparable(Bought(Read(v), S), Bought(Read(w), S))

\* The purchases of the table are of one rebuild, and those it has read.
Single(S) ==
    /\ \A i, j \in Buys(Keys, S) : i[1] = j[1]
    /\ Bought(basis.read, S) # {} => Bought(basis.read, S) = Purchases(Keys, S)

IInv(S) == /\ Shape /\ Versions(S) /\ Known /\ Stages /\ Fresh /\ Locked /\ Booked(S)
           /\ Apart(S) /\ Complete(S) /\ Nested(S) /\ Single(S)

\* The rows that have kept their kind and day in every version and have not been
\* removed: those not stored yet, and those of the steady purchases among them.
SteadyRows == {n \in Rows(Transactions) : Agree({n}) /\ Stay({n})}

\* The inductive invariant.
Inv == \E S : S = SteadyRows /\ IInv(S)

-----------------------------------------------------------------------------
(* Versions and rows.                                                      *)

\* A version has the row it has.
LEMMA RowOf ==
    ASSUME NEW t \in Transactions
    PROVE  Row(t.id) = t.row
<1> DEFINE u == CHOOSE v \in Transactions : v.id = t.id
<1>1. u \in Transactions /\ u.id = t.id OBVIOUS
<1> HIDE DEF u
<1>2. u = t BY <1>1, TransactionShape
<1> QED BY <1>2 DEF Row, u

\* A lot of a steady purchase has the key of every version of it.
LEMMA KeyOf ==
    ASSUME NEW S, Agree(S), seen \subseteq Transactions, NEW I, Sure(I),
           NEW l, IsLot(l), l.id \in I, l.id[3] = 0,
           NEW t \in seen, t.kind = "purchase", t.row \in S, Row(l.id[2]) = t.row
    PROVE  SameKey(l, t)
<1>1. PICK u \in seen : u.id = l.id[2] /\ u.kind = "purchase" BY DEF Sure
<1>2. PICK v \in Transactions : v.id = l.id[2] /\ l.acct = v.acct /\ l.acquired = v.date
  BY DEF IsLot, Bears
<1>3. u = v BY <1>1, <1>2, TransactionShape
<1>4. u.row = t.row BY <1>1, RowOf
<1>5. u.date = t.date BY <1>4 DEF Agree
<1>6. u.acct = t.acct BY <1>4, TransactionShape
<1>7. l.purchase = l.id[2] /\ l.id[2] \in Nat BY DEF IsLot, PurchaseOf
<1>8. l.purchase # None BY <1>7, TransactionShape
<1> QED BY <1>2, <1>3, <1>5, <1>6, <1>7, <1>8 DEF SameKey

\* The purchases of S that are in the table or have been read are stored.
LEMMA StillStored ==
    ASSUME NEW S, Versions(S), Known, Stages
    PROVE  /\ Purchases(Keys, S) \subseteq Bought(stored, S)
           /\ \A w \in Rebuilders : Bought(Read(w), S) \subseteq Bought(stored, S)
<1>1. ASSUME NEW t \in seen, t.kind = "purchase", t.row \in S
      PROVE  t.row \in Bought(stored, S)
  <2>1. PICK u \in stored : u.row = t.row BY <1>1 DEF Versions, Stay
  <2>2. u.kind = t.kind BY <1>1, <2>1 DEF Versions, Agree
  <2> QED BY <1>1, <2>1, <2>2 DEF Bought
<1>2. ASSUME NEW i \in Buys(Keys, S) PROVE Row(i[2]) \in Bought(stored, S)
  <2>1. i[3] = 0 /\ i \in Keys /\ Row(i[2]) \in S BY DEF Buys
  <2>2. PICK t \in seen : t.id = i[2] /\ t.kind = "purchase" BY <2>1 DEF Known, Sure
  <2>3. Row(i[2]) = t.row BY <2>2, RowOf DEF Versions
  <2> QED BY <1>1, <2>1, <2>2, <2>3
<1>3. ASSUME NEW w \in Rebuilders PROVE Bought(Read(w), S) \subseteq Bought(stored, S)
  <2>1. Read(w) \subseteq seen BY DEF Stages
  <2> QED BY <1>1, <2>1 DEF Bought
<1> QED BY <1>2, <1>3 DEF Purchases

-----------------------------------------------------------------------------
(* The actions, as they change the keys.                                   *)

Kept(v) == /\ Pc(v)' = Pc(v) /\ Gen(v)' = Gen(v) /\ Snap(v)' = Snap(v)
           /\ Gone(v)' = Gone(v) /\ Mine(v)' = Mine(v)
           /\ Read(v)' = Read(v) /\ Todo(v)' = Todo(v)

\* The rows a rebuild sees.
LEMMA ViewKeys ==
    ASSUME Shape, NEW w \in Rebuilders
    PROVE  AreLots(View(w)) /\ Ids(View(w)) = (Keys \ Gone(w)) \cup Mine(w)
<1>1. AreLots(View(w)) BY DEF View, Shape, AreLots
<1>2. Ids(View(w)) = (Keys \ Gone(w)) \cup Mine(w)
  BY DEF View, Ids, Keys, Gone, Mine
<1> QED BY <1>1, <1>2

\* A step of a rebuild leaves the others alone.
LEMMA JobStep ==
    ASSUME Shape, NEW w \in Rebuilders, NEW x, job' = [job EXCEPT ![w] = x],
           DOMAIN x = Fields, AreLots(x.mine), AreLots(table')
    PROVE  /\ Shape' /\ \A v \in Others(w) : Kept(v)
           /\ job'[w] = x
<1>1. DOMAIN job' = Rebuilders /\ job'[w] = x /\ \A v \in Others(w) : job'[v] = job[v]
  BY DEF Shape, Others
<1>2. \A v \in Others(w) : Kept(v)
  BY <1>1 DEF Kept, Pc, Gen, Snap, Gone, Mine, Read, Todo
<1>3. ASSUME NEW v \in Rebuilders PROVE DOMAIN job'[v] = Fields /\ AreLots(job'[v].mine)
  <2>1. CASE v = w BY <1>1, <2>1
  <2>2. CASE v # w BY <1>1, <2>2 DEF Shape, Others
  <2> QED BY <2>1, <2>2
<1>4. Shape' BY <1>1, <1>3 DEF Shape
<1> QED BY <1>1, <1>2, <1>4

\* The fields of an idle rebuild.
LEMMA IdleFields ==
    /\ Fields = {"pc", "gen", "snap", "gone", "mine", "read", "todo", "used", "deferred"}
    /\ Idle.pc = "idle" /\ Idle.snap = {} /\ Idle.gone = {} /\ Idle.mine = {}
    /\ Idle.read = {} /\ Idle.todo = {}
BY DEF Fields, Idle

\* No lots have no keys.
LEMMA NoLots == AreLots({}) /\ Ids({}) = {}
BY DEF AreLots, Ids

\* A rebuild that ends is idle.
LEMMA EndStep ==
    ASSUME Shape, NEW w \in Rebuilders, job' = [job EXCEPT ![w] = Idle], AreLots(table')
    PROVE  /\ Shape' /\ \A v \in Others(w) : Kept(v)
           /\ Pc(w)' = "idle" /\ Snap(w)' = {} /\ Gone(w)' = {} /\ Mine(w)' = {}
           /\ Read(w)' = {} /\ Todo(w)' = {}
<1>1. /\ Shape' /\ \A v \in Others(w) : Kept(v)
      /\ job'[w] = Idle
  BY IdleFields, NoLots, JobStep DEF Fields
<1>2. Pc(w)' = "idle" /\ Snap(w)' = {} /\ Gone(w)' = {} /\ Mine(w)' = {}
      /\ Read(w)' = {} /\ Todo(w)' = {}
  BY <1>1, IdleFields, NoLots DEF Pc, Snap, Gone, Mine, Read, Todo
<1> QED BY <1>1, <1>2

\* The DELETE sees the rows of the table, under a tag that is new.
LEMMA BeginStep ==
    ASSUME Shape, NEW w \in Rebuilders, BeginDelete(w)
    PROVE  /\ Shape' /\ \A v \in Others(w) : Kept(v)
           /\ Pc(w)' = "deleting" /\ Snap(w)' = Keys /\ Gone(w)' = {}
           /\ Mine(w)' = {} /\ Read(w)' = {} /\ Todo(w)' = {}
           /\ \A i \in Keys : i[1] # Gen(w)'
           /\ \A v \in Rebuilders : Gen(v) # Gen(w)' /\ \A i \in Snap(v) : i[1] # Gen(w)'
           /\ Keys' = Keys
<1> DEFINE g == CHOOSE h \in Generations : h \notin TagsInUse
           x == [Idle EXCEPT !.pc = "deleting", !.snap = Ids(table), !.gen = g]
<1>1. g \notin TagsInUse
  <2>1. \E h \in Generations : h \notin TagsInUse BY DEF BeginDelete
  <2> QED BY <2>1, Zenon
<1>2. job' = [job EXCEPT ![w] = x] /\ table' = table BY Zenon DEF BeginDelete
<1> HIDE DEF g
<1>3. DOMAIN x = Fields /\ x.mine = {} /\ x.pc = "deleting" /\ x.snap = Ids(table)
      /\ x.gone = {} /\ x.read = {} /\ x.todo = {} /\ x.gen = g
  BY IdleFields DEF Fields
<1> HIDE DEF x
<1>4. AreLots(table') BY <1>2 DEF Shape
<1>5. /\ Shape' /\ \A v \in Others(w) : Kept(v)
      /\ job'[w] = x
  BY <1>2, <1>3, <1>4, NoLots, JobStep
<1>6. /\ Pc(w)' = "deleting" /\ Snap(w)' = Keys /\ Gone(w)' = {}
      /\ Mine(w)' = {} /\ Read(w)' = {} /\ Todo(w)' = {} /\ Gen(w)' = g
  BY <1>3, <1>5, NoLots DEF Pc, Snap, Gone, Mine, Read, Todo, Gen, Keys
<1>7. \A i \in Keys : i[1] # g BY <1>1 DEF TagsInUse, Keys, Ids
<1>8. \A v \in Rebuilders : Gen(v) # g BY <1>1 DEF TagsInUse, Gen
<1>9. \A v \in Rebuilders : \A i \in Snap(v) : i[1] # g BY <1>1 DEF TagsInUse, Snap
<1>10. Keys' = Keys BY <1>2 DEF Keys
<1> QED BY <1>5, <1>6, <1>7, <1>8, <1>9, <1>10

\* It deletes those that are still there, and nobody has changed one of them.
LEMMA FinishStep ==
    ASSUME Shape, NEW w \in Rebuilders, FinishDelete(w), Gone(w) = {}
    PROVE  /\ Shape' /\ \A v \in Others(w) : Kept(v)
           /\ Pc(w) = "deleting" /\ Pc(w)' = "reading" /\ Gen(w)' = Gen(w)
           /\ Snap(w)' = Snap(w) /\ Gone(w)' = Snap(w) \cap Keys
           /\ Mine(w)' = Mine(w) /\ Read(w)' = Read(w) /\ Todo(w)' = Todo(w)
           /\ \A v \in Others(w) : Mine(v) \cap Keys \cap Snap(w) = {}
           /\ Keys' = Keys
<1> DEFINE d == job[w].gone \cup (job[w].snap \cap Ids(table))
           x == [job[w] EXCEPT !.pc = "reading", !.gone = d]
<1>1. job' = [job EXCEPT ![w] = x] /\ table' = table BY DEF FinishDelete
<1> HIDE DEF d
<1>2. /\ DOMAIN x = DOMAIN job[w] /\ x.mine = job[w].mine /\ x.pc = "reading"
      /\ x.gone = d /\ x.gen = job[w].gen /\ x.snap = job[w].snap
      /\ x.read = job[w].read /\ x.todo = job[w].todo
  BY IdleFields DEF Shape
<1> HIDE DEF x
<1>3. DOMAIN x = Fields /\ AreLots(x.mine) /\ AreLots(table') BY <1>1, <1>2 DEF Shape
<1>4. /\ Shape' /\ \A v \in Others(w) : Kept(v)
      /\ job'[w] = x
  BY <1>1, <1>3, JobStep
<1>5. /\ Pc(w) = "deleting" /\ Pc(w)' = "reading" /\ Gen(w)' = Gen(w)
      /\ Snap(w)' = Snap(w) /\ Gone(w)' = d
      /\ Mine(w)' = Mine(w) /\ Read(w)' = Read(w) /\ Todo(w)' = Todo(w)
  BY <1>2, <1>4 DEF Pc, Snap, Gone, Mine, Read, Todo, Gen, FinishDelete
<1>6. d = Snap(w) \cap Keys BY DEF d, Snap, Gone, Keys
<1>7. \A v \in Others(w) : Mine(v) \cap Keys \cap Snap(w) = {}
  BY DEF FinishDelete, DeleteWaitsFor, Locks, Mine, Keys, Snap
<1>8. Keys' = Keys BY <1>1 DEF Keys
<1> QED BY <1>4, <1>5, <1>6, <1>7, <1>8

\* The SELECT of the transactions.
LEMMA ReadStep ==
    ASSUME Shape, NEW w \in Rebuilders, ReadTransactions(w)
    PROVE  /\ Shape' /\ \A v \in Others(w) : Kept(v)
           /\ Pc(w) = "reading" /\ Pc(w)' = "matching" /\ Gen(w)' = Gen(w)
           /\ Snap(w)' = Snap(w) /\ Gone(w)' = Gone(w) /\ Mine(w)' = Mine(w)
           /\ Read(w)' = stored /\ Todo(w)' = stored
           /\ Keys' = Keys
<1> DEFINE x == [job[w] EXCEPT !.pc = "matching", !.read = stored, !.todo = stored]
<1>1. job' = [job EXCEPT ![w] = x] /\ table' = table BY DEF ReadTransactions, Selected
<1>2. /\ DOMAIN x = DOMAIN job[w] /\ x.mine = job[w].mine /\ x.pc = "matching"
      /\ x.gone = job[w].gone /\ x.gen = job[w].gen /\ x.snap = job[w].snap
      /\ x.read = stored /\ x.todo = stored
  BY IdleFields DEF Shape
<1> HIDE DEF x
<1>3. DOMAIN x = Fields /\ AreLots(x.mine) /\ AreLots(table') BY <1>1, <1>2 DEF Shape
<1>4. /\ Shape' /\ \A v \in Others(w) : Kept(v)
      /\ job'[w] = x
  BY <1>1, <1>3, JobStep
<1>5. /\ Pc(w) = "reading" /\ Pc(w)' = "matching" /\ Gen(w)' = Gen(w)
      /\ Snap(w)' = Snap(w) /\ Gone(w)' = Gone(w) /\ Mine(w)' = Mine(w)
      /\ Read(w)' = stored /\ Todo(w)' = stored
  BY <1>2, <1>4 DEF Pc, Snap, Gone, Mine, Read, Todo, Gen, ReadTransactions
<1>6. Keys' = Keys BY <1>1 DEF Keys
<1> QED BY <1>4, <1>5, <1>6

\* The first transaction that is left comes before the others.
LEMMA NextIsFirst ==
    ASSUME NEW w \in Rebuilders, Todo(w) \subseteq Transactions, Todo(w) # {}
    PROVE  /\ NextTransaction(w) \in Todo(w)
           /\ \A u \in Todo(w) : u # NextTransaction(w) => NextTransaction(w).id < u.id
<1> DEFINE ids == {t.id : t \in Todo(w)}
<1>1. ids \subseteq Nat /\ ids # {} BY TransactionShape
<1>2. PICK n \in ids : \A m \in ids : n <= m
  <2> HIDE DEF ids
  <2>1. PICK n \in ids : \A m \in ids : ~(<<m, n>> \in OpToRel(<, Nat))
    BY <1>1, NatLessThanWellFounded, WFMin, Zenon
  <2>2. \A m \in ids : ~(m < n) BY <1>1, <2>1, Zenon DEF OpToRel
  <2> QED BY <1>1, <2>2
<1>3. \E t \in Todo(w) : \A u \in Todo(w) : t.id <= u.id BY <1>2
<1> DEFINE t == NextTransaction(w)
<1>4. t \in Todo(w) /\ \A u \in Todo(w) : t.id <= u.id
  BY <1>3, Zenon DEF NextTransaction, Todo
<1> HIDE DEF t
<1>5. ASSUME NEW u \in Todo(w), u # t PROVE t.id < u.id
  <2>1. t.id \in Nat /\ u.id \in Nat /\ t.id # u.id
    BY <1>4, <1>5, TransactionShape
  <2> QED BY <1>4, <2>1
<1> QED BY <1>4, <1>5 DEF t

\* A transaction is a purchase of S.
Counts(t, S) == t.kind = "purchase" /\ t.row \in S

\* A transaction is processed: what the rows of the rebuild become.
LEMMA ProcessStep ==
    ASSUME NEW S, Shape, Versions(S), Known, NEW w \in Rebuilders, ProcessTransaction(w),
           Todo(w) \subseteq seen, \A i \in Keys : i[1] # Gen(w)
    PROVE  \E t \in Todo(w) :
           /\ Shape' /\ \A v \in Others(w) : Kept(v)
           /\ Pc(w) = "matching" /\ Pc(w)' = "matching" /\ Gen(w)' = Gen(w)
           /\ Snap(w)' = Snap(w) /\ Gone(w)' = Gone(w)
           /\ Read(w)' = Read(w) /\ Todo(w)' = Todo(w) \ {t}
           /\ Keys' = Keys
           /\ \A i \in Mine(w)' : i \in Own(w)' \/ i \in (Keys \ Gone(w)) \cup Mine(w)
           /\ \A v \in Others(w) : Gone(v) \cap (Mine(w)' \ Own(w)') \subseteq Mine(w)
           /\ Own(w) \subseteq Own(w)'
           /\ Sure(Mine(w)')
           /\ \A i \in Buys(Own(w)', S) \ Own(w) : Counts(t, S) /\ Row(i[2]) = t.row
           /\ Counts(t, S) =>
                  /\ \E i \in Buys(Own(w)', S) : Row(i[2]) = t.row
                  /\ t.row \notin Purchases((Keys \ Gone(w)) \cup Mine(w), S)
                  /\ \A v \in Others(w) : t.row \notin Purchases(Mine(v), S)
<1> DEFINE t == NextTransaction(w)
           g == job[w].gen
           V == View(w)
<1>1. t \in Todo(w)
  BY NextIsFirst DEF ProcessTransaction, Todo, Versions
<1>2. PICK o \in StepOutcomes(w) :
        /\ UpdateWaitsFor(w, o.lots) = {}
        /\ HasAccount(o.lots)
        /\ job' = [job EXCEPT ![w].todo = @ \ {NextTransaction(w)},
                              ![w].mine = o.lots \ table,
                              ![w].used = Plus(@, o.used),
                              ![w].deferred = Plus(@, o.deferred)]
  BY Zenon DEF ProcessTransaction
<1>0. t \in seen /\ t \in Transactions /\ Row(t.id) = t.row BY <1>1, RowOf DEF Versions
<1> DEFINE u == Plus(job[w].used, o.used)
           f == Plus(job[w].deferred, o.deferred)
           M == o.lots \ table
           D == job[w].todo \ {t}
           x == [job[w] EXCEPT !.todo = D, !.mine = M, !.used = u, !.deferred = f]
<1>3. job' = [job EXCEPT ![w] = x] BY <1>2
<1>4. table' = table /\ Pc(w) = "matching" BY DEF ProcessTransaction, Pc
<1>5. AreLots(V) /\ Ids(V) = (Keys \ Gone(w)) \cup Mine(w) BY ViewKeys
<1>6. Added(V, o.lots, t, g)
  BY <1>0, <1>5, OutcomeAdds DEF StepOutcomes
<1> HIDE DEF t, V
<1>7. AreLots(M) BY <1>6 DEF Added, AreLots
<1> HIDE DEF u, f, M, D
<1>8. /\ DOMAIN x = DOMAIN job[w] /\ x.mine = M /\ x.pc = job[w].pc
      /\ x.gone = job[w].gone /\ x.gen = job[w].gen /\ x.snap = job[w].snap
      /\ x.read = job[w].read /\ x.todo = D
  BY IdleFields DEF Shape
<1> HIDE DEF x
<1>9. DOMAIN x = Fields /\ AreLots(x.mine) /\ AreLots(table')
  BY <1>4, <1>7, <1>8 DEF Shape
<1>10. /\ Shape' /\ \A v \in Others(w) : Kept(v)
       /\ job'[w] = x
  BY <1>3, <1>9, JobStep
<1>11. /\ Pc(w)' = "matching" /\ Gen(w)' = Gen(w)
       /\ Snap(w)' = Snap(w) /\ Gone(w)' = Gone(w)
       /\ Read(w)' = Read(w) /\ Todo(w)' = Todo(w) \ {t} /\ Mine(w)' = Ids(M)
  BY <1>4, <1>8, <1>10 DEF Pc, Snap, Gone, Mine, Read, Todo, Gen, D
<1>12. Keys' = Keys BY <1>4 DEF Keys
<1>13. \A i \in Ids(M) : i \in Ids(V) \/ i[1] = g
  <2>1. Ids(M) \subseteq Ids(o.lots) BY DEF Ids, M
  <2> QED BY <1>6, <2>1 DEF Added
<1>14. g = Gen(w) BY DEF Gen
<1>15. \A i \in Ids(o.lots) \ Keys : i \in Ids(M)
  BY DEF Ids, M, Keys
<1> HIDE DEF g
<1>16. \A i \in Mine(w)' : i \in Own(w)' \/ i \in (Keys \ Gone(w)) \cup Mine(w)
  BY <1>5, <1>11, <1>13, <1>14 DEF Own
<1>17. Own(w) \subseteq Own(w)'
  <2>1. \A i \in Own(w) : i \in Ids(o.lots) BY <1>5, <1>6 DEF Added, Own
  <2> QED BY <1>11, <1>15, <2>1 DEF Own
<1>18. \A i \in Buys(Own(w)', S) \ Own(w) : Counts(t, S) /\ Row(i[2]) = t.row
  <2> SUFFICES ASSUME NEW i \in Buys(Own(w)', S), i \notin Own(w)
               PROVE  Counts(t, S) /\ Row(i[2]) = t.row
    OBVIOUS
  <2>1. i \in Ids(M) /\ i[1] = Gen(w) /\ i[3] = 0 /\ Row(i[2]) \in S
    BY <1>11 DEF Own, Buys
  <2>2. i \in Ids(o.lots) BY <2>1 DEF Ids, M
  <2>3. i \notin Ids(V) BY <1>5, <2>1 DEF Own
  <2>4. t.kind = "purchase" /\ i[2] = t.id BY <1>6, <2>1, <2>2, <2>3 DEF Added
  <2> QED BY <1>0, <2>1, <2>4 DEF Counts
<1>21. Sure(Mine(w)')
  <2> SUFFICES ASSUME NEW i \in Ids(M), i[3] = 0
               PROVE  \E n \in seen : n.id = i[2] /\ n.kind = "purchase"
    BY <1>11 DEF Sure
  <2>1. i \in Ids(o.lots) BY DEF Ids, M
  <2>2. CASE i \in Ids(V)
    <3>1. i \in Keys \/ i \in Mine(w) BY <1>5, <2>2
    <3> QED BY <3>1 DEF Known, Sure
  <2>3. CASE i \notin Ids(V)
    <3>1. t.kind = "purchase" /\ i[2] = t.id BY <1>6, <2>1, <2>3 DEF Added
    <3> QED BY <1>0, <3>1
  <2> QED BY <2>2, <2>3
<1>19. \A v \in Others(w) : Gone(v) \cap (Mine(w)' \ Own(w)') \subseteq Mine(w)
  <2> SUFFICES ASSUME NEW v \in Others(w), NEW i \in Gone(v), i \in Mine(w)',
                      i \notin Mine(w)
               PROVE  FALSE
    BY DEF Own
  <2>1. PICK l \in M : i = l.id BY <1>11 DEF Ids
  <2>2. l \in o.lots \ V
    <3>1. l \in o.lots /\ l \notin table BY DEF M
    <3>2. l \notin job[w].mine BY <2>1 DEF Mine, Ids
    <3> QED BY <3>1, <3>2 DEF V, View
  <2>3. i \in Ids(o.lots \ V) BY <2>1, <2>2 DEF Ids
  <2> QED BY <1>2, <2>3 DEF UpdateWaitsFor, Locks, Gone, V
<1>20. ASSUME Counts(t, S)
       PROVE  /\ \E i \in Buys(Own(w)', S) : Row(i[2]) = t.row
              /\ t.row \notin Purchases((Keys \ Gone(w)) \cup Mine(w), S)
              /\ \A v \in Others(w) : t.row \notin Purchases(Mine(v), S)
  <2>0. t.kind = "purchase" /\ t.row \in S BY <1>20 DEF Counts
  <2>1. \E i \in Buys(Own(w)', S) : Row(i[2]) = t.row
    <3> DEFINE i == <<g, t.id, 0>>
    <3>1. i[1] = g /\ i[2] = t.id /\ i[3] = 0 OBVIOUS
    <3>2. i \in Ids(o.lots) BY <1>6, <2>0 DEF Added
    <3> HIDE DEF i
    <3>3. i \in Ids(M) BY <1>14, <1>15, <3>1, <3>2
    <3>4. i \in Buys(Own(w)', S) BY <1>0, <1>11, <1>14, <2>0, <3>1, <3>3 DEF Own, Buys
    <3> QED BY <1>0, <3>1, <3>4
  <2>2. t.row \notin Purchases(Ids(V), S)
    <3> SUFFICES ASSUME NEW l \in V, l.id[3] = 0, Row(l.id[2]) = t.row PROVE FALSE
      BY DEF Purchases, Buys, Ids
    <3>1. IsLot(l) BY <1>5 DEF AreLots
    <3>2. l.id \in Keys \cup Mine(w) BY <1>5 DEF Ids
    <3>3. Sure(Keys \cup Mine(w)) BY DEF Known, Sure
    <3>4. SameKey(l, t) BY <1>0, <2>0, <3>1, <3>2, <3>3, KeyOf DEF Versions
    <3> QED BY <3>4 DEF ProcessTransaction, t, V
  <2>3. ASSUME NEW v \in Others(w) PROVE t.row \notin Purchases(Mine(v), S)
    <3> SUFFICES ASSUME NEW l \in job[v].mine, l.id[3] = 0, Row(l.id[2]) = t.row PROVE FALSE
      BY DEF Purchases, Buys, Mine, Ids
    <3>1. IsLot(l) BY DEF Shape, AreLots, Others
    <3>2. l.id \in Mine(v) /\ Sure(Mine(v)) BY DEF Mine, Ids, Known, Others
    <3>3. SameKey(l, t) BY <1>0, <2>0, <3>1, <3>2, KeyOf DEF Versions
    <3>4. InsertWaitsFor(w, t) = {} BY DEF ProcessTransaction, t
    <3> QED BY <3>3, <3>4 DEF InsertWaitsFor
  <2> QED BY <1>5, <2>1, <2>2, <2>3
<1> QED BY <1>1, <1>4, <1>10, <1>11, <1>12, <1>16, <1>17, <1>18, <1>19, <1>20, <1>21

\* A commit: the purchases of the table become those the rebuild has read, under
\* its tag, or, if it has read none, stay or go as they are.
LEMMA CommitStep ==
    ASSUME NEW S, IInv(S), NEW w \in Rebuilders, Commit(w)
    PROVE  /\ Shape' /\ \A v \in Others(w) : Kept(v)
           /\ Pc(w)' = "idle" /\ Snap(w)' = {} /\ Gone(w)' = {} /\ Mine(w)' = {}
           /\ Read(w)' = {} /\ Todo(w)' = {}
           /\ Pc(w) = "matching" /\ basis'.read = Read(w)
           /\ Keys' = (Keys \ Gone(w)) \cup Mine(w)
           /\ \A i \in Keys' : i \in Own(w) \/ i \in Keys \ Gone(w)
           /\ \/ /\ Bought(Read(w), S) # {}
                 /\ Buys(Keys', S) = Buys(Own(w), S)
                 /\ Purchases(Keys', S) = Bought(Read(w), S)
              \/ /\ Bought(Read(w), S) = {}
                 /\ Buys(Keys', S) = Buys(Keys, S) \/ Buys(Keys', S) = {}
<1>1. table' = View(w) /\ job' = [job EXCEPT ![w] = Idle]
      /\ Pc(w) = "matching" /\ Todo(w) = {} BY DEF Commit, Pc, Todo
<1>2. basis'.read = Read(w) BY DEF Commit, Read
<1>3. AreLots(View(w)) /\ Ids(View(w)) = (Keys \ Gone(w)) \cup Mine(w) BY ViewKeys DEF IInv
<1>4. AreLots(table') BY <1>1, <1>3
<1>5. /\ Shape' /\ \A v \in Others(w) : Kept(v)
      /\ Pc(w)' = "idle" /\ Snap(w)' = {} /\ Gone(w)' = {} /\ Mine(w)' = {}
      /\ Read(w)' = {} /\ Todo(w)' = {}
  BY <1>1, <1>4, EndStep DEF IInv
<1>6. Keys' = (Keys \ Gone(w)) \cup Mine(w) BY <1>1, <1>3 DEF Keys
<1>7. \A i \in Keys' : i \in Own(w) \/ i \in Keys \ Gone(w)
  BY <1>6 DEF IInv, Locked, Own
<1>8. Purchases(Own(w), S) = Bought(Read(w), S)
  <2>1. Read(w) \ Todo(w) = Read(w) BY <1>1
  <2> QED BY <2>1 DEF IInv, Booked
<1>9. Own(w) \subseteq Keys' BY <1>6 DEF Own
<1>10. CASE Bought(Read(w), S) # {}
  <2>1. Buys(Keys \ Gone(w), S) = {}
    <3> SUFFICES ASSUME NEW k \in Buys(Keys \ Gone(w), S) PROVE FALSE
      OBVIOUS
    <3>1. Buys(Keys, S) \cap Gone(w) = {}
      BY DEF IInv, Complete, AllOrNone, Buys
    <3>2. Purchases(Keys \ Gone(w), S) = Purchases(Keys, S) BY <3>1 DEF Purchases, Buys
    <3>3. Purchases(Keys, S) # {} BY <3>2 DEF Purchases
    <3>4. Purchases(Keys, S) \cap Bought(Read(w), S) = {} BY <1>8, <3>2 DEF IInv, Apart
    <3>5. Comparable(Purchases(Keys, S), Bought(Read(w), S)) BY DEF IInv, Nested
    <3> QED BY <1>10, <3>3, <3>4, <3>5 DEF Comparable
  <2>2. Buys(Keys', S) = Buys(Own(w), S) BY <1>7, <1>9, <2>1 DEF Buys
  <2>3. Purchases(Keys', S) = Bought(Read(w), S) BY <1>8, <2>2 DEF Purchases
  <2> QED BY <1>1, <1>2, <1>5, <1>6, <1>7, <1>10, <2>2, <2>3
<1>11. CASE Bought(Read(w), S) = {}
  <2>1. Buys(Own(w), S) = {} BY <1>8, <1>11 DEF Purchases
  <2>2. Buys(Keys', S) = Buys(Keys \ Gone(w), S) BY <1>6, <1>7, <2>1 DEF Buys
  <2>3. AllOrNone(Buys(Keys, S), Gone(w)) BY DEF IInv, Complete
  <2>4. Buys(Keys \ Gone(w), S) = Buys(Keys, S) \/ Buys(Keys \ Gone(w), S) = {}
    BY <2>3 DEF AllOrNone, Buys
  <2> QED BY <1>1, <1>2, <1>5, <1>6, <1>7, <1>11, <2>2, <2>4
<1> QED BY <1>10, <1>11

-----------------------------------------------------------------------------
(* The invariant is inductive.                                             *)

\* The rows a rebuild has inserted stay when its job does.
LEMMA KeptOwn ==
    ASSUME NEW w, \A v \in Others(w) : Kept(v)
    PROVE  \A v \in Others(w) : Own(v)' = Own(v)
BY DEF Kept, Own

\* The steady rows are such.
LEMMA SteadyAgree == Agree(SteadyRows) /\ Stay(SteadyRows)
<1>1. ASSUME NEW t \in seen, t.row \in SteadyRows
      PROVE  /\ \A u \in seen : t.row = u.row => t.kind = u.kind /\ t.date = u.date
             /\ \E u \in stored : u.row = t.row
  <2>1. Agree({t.row}) /\ Stay({t.row}) BY <1>1 DEF SteadyRows
  <2> QED BY <2>1 DEF Agree, Stay
<1> QED BY <1>1 DEF Agree, Stay

\* There is no lot and no rebuild at first.
LEMMA Initially == Init => Inv
<1> SUFFICES ASSUME NEW S, S = SteadyRows, Init PROVE IInv(S) BY DEF Inv
<1>1. /\ table = {} /\ basis.read = {} /\ stored \subseteq Transactions /\ seen = stored
      /\ DOMAIN job = Rebuilders /\ \A w \in Rebuilders : job[w] = Idle
  BY DEF Init
<1>2. Keys = {} BY <1>1, NoLots DEF Keys
<1>3. \A w \in Rebuilders :
        /\ Pc(w) = "idle" /\ Snap(w) = {} /\ Gone(w) = {} /\ Mine(w) = {}
        /\ Read(w) = {} /\ Todo(w) = {}
  BY <1>1, IdleFields, NoLots DEF Pc, Snap, Gone, Mine, Read, Todo
<1>4. Shape BY <1>1, NoLots, IdleFields DEF Shape, Fields
<1>5. Bought({}, S) = {} BY DEF Bought
<1>6. Versions(S) BY <1>1, SteadyAgree DEF Versions
<1>7. Known /\ Stages BY <1>1, <1>2, <1>3 DEF Known, Sure, Stages
<1>8. Fresh /\ Locked BY <1>2, <1>3 DEF Fresh, Locked
<1>9. Booked(S) /\ Apart(S) BY <1>2, <1>3, <1>5 DEF Booked, Apart, Own, Purchases, Buys
<1>10. Complete(S) /\ Nested(S)
  BY <1>2, <1>3 DEF Complete, Nested, AllOrNone, Comparable, Purchases, Buys
<1>11. Single(S) BY <1>1, <1>2, <1>5 DEF Single, Buys
<1> QED BY <1>4, <1>6, <1>7, <1>8, <1>9, <1>10, <1>11 DEF IInv

\* Fewer rows count.
LEMMA Fewer ==
    ASSUME NEW S, NEW R \in SUBSET S
    PROVE  /\ \A I : /\ Buys(I, R) = {i \in Buys(I, S) : Row(i[2]) \in R}
                     /\ Purchases(I, R) = Purchases(I, S) \cap R
           /\ \A T : Bought(T, R) = Bought(T, S) \cap R
BY DEF Buys, Purchases, Bought

\* A sync, or the deletion of an account, leaves the rebuilds alone: what holds of
\* the rows S holds of those of them that stay as they are.
LEMMA OthersKeep ==
    ASSUME NEW S, IInv(S), NEW R \in SUBSET S, job' = job, basis'.read = basis.read,
           AreLots(table'), Keys' \subseteq Keys, Buys(Keys, R) \subseteq Keys',
           \A w \in Rebuilders : Mine(w) \cap Keys \subseteq Keys',
           seen \subseteq seen', stored' \subseteq seen', seen' \subseteq Transactions,
           Agree(R)', Stay(R)'
    PROVE  IInv(R)'
<1>1. \A w : Kept(w) /\ Own(w)' = Own(w)
  BY DEF Kept, Own, Pc, Gen, Snap, Gone, Mine, Read, Todo
<1>2. /\ \A I : Purchases(I, R) = Purchases(I, S) \cap R
      /\ \A T : Bought(T, R) = Bought(T, S) \cap R
  BY Fewer
<1>3. Buys(Keys', R) = Buys(Keys, R) BY DEF Buys
<1>4. Purchases(Keys', R) = Purchases(Keys, R) BY <1>3 DEF Purchases
<1>5. Shape' BY DEF IInv, Shape
<1>6. Versions(R)' BY DEF IInv, Versions
<1>7. Known'
  <2>1. \A I : Sure(I) => Sure(I)' BY DEF Sure
  <2>2. Sure(Keys) => Sure(Keys') BY DEF Sure
  <2> QED BY <1>1, <2>1, <2>2 DEF IInv, Known, Kept, Sure
<1>8. Stages' BY <1>1 DEF IInv, Stages, Kept
<1>9. Fresh' BY <1>1 DEF IInv, Fresh, Kept
<1>10. Locked' BY <1>1 DEF IInv, Locked, Kept
<1>11. Booked(R)'
  <2>1. \A w \in Rebuilders : Purchases(Own(w), R) = Bought(Read(w) \ Todo(w), R)
    BY <1>2 DEF IInv, Booked
  <2> QED BY <1>1, <2>1 DEF Booked, Kept
<1>12. Apart(R)'
  <2>1. \A w \in Rebuilders : Purchases(Keys' \ Gone(w), R) \subseteq Purchases(Keys \ Gone(w), S)
    BY <1>2 DEF Purchases, Buys
  <2>2. \A w \in Rebuilders : Purchases(Keys' \ Gone(w), R) \cap Purchases(Own(w), R) = {}
    BY <1>2, <2>1 DEF IInv, Apart
  <2>3. \A w \in Rebuilders : \A v \in Others(w) : Purchases(Own(v), R) \cap Purchases(Own(w), R) = {}
    BY <1>2 DEF IInv, Apart
  <2> QED BY <1>1, <2>2, <2>3 DEF Apart, Kept
<1>13. Complete(R)'
  <2>1. Buys(Keys', R) \subseteq Buys(Keys, S) BY DEF Buys
  <2>2. \A X : AllOrNone(Buys(Keys, S), X) => AllOrNone(Buys(Keys', R), X)
    BY <2>1 DEF AllOrNone
  <2> QED BY <1>1, <2>2 DEF IInv, Complete, Kept
<1>14. Nested(R)'
  <2>1. \A A, B : Comparable(A, B) => Comparable(A \cap R, B \cap R) BY DEF Comparable
  <2>2. \A w \in Rebuilders : Comparable(Purchases(Keys', R), Bought(Read(w), R))
    BY <1>2, <1>4, <2>1 DEF IInv, Nested
  <2>3. \A w, v \in Rebuilders : Comparable(Bought(Read(v), R), Bought(Read(w), R))
    BY <1>2, <2>1 DEF IInv, Nested
  <2> QED BY <1>1, <2>2, <2>3 DEF Nested, Kept
<1>15. Single(R)'
  <2>1. \A i, j \in Buys(Keys', R) : i[1] = j[1] BY DEF IInv, Single, Buys
  <2>2. Bought(basis.read, R) # {} => Bought(basis.read, R) = Purchases(Keys', R)
    BY <1>2, <1>4 DEF IInv, Single
  <2> QED BY <2>1, <2>2 DEF Single
<1> QED BY <1>5, <1>6, <1>7, <1>8, <1>9, <1>10, <1>11, <1>12, <1>13, <1>14, <1>15 DEF IInv

\* Syncs and deletions make no row steady.
LEMMA NoMoreSteady ==
    ASSUME seen \subseteq seen',
           \A t \in seen, u \in stored' : u.row = t.row => \E v \in stored : v.row = t.row
    PROVE  SteadyRows' \subseteq SteadyRows
<1> SUFFICES ASSUME NEW n \in Rows(Transactions), Agree({n})', Stay({n})'
             PROVE  Agree({n}) /\ Stay({n})
  BY DEF SteadyRows
<1>1. Agree({n}) BY DEF Agree
<1>2. Stay({n}) BY DEF Stay
<1> QED BY <1>1, <1>2

\* A sync leaves the lots alone.
LEMMA SyncKeeps ==
    ASSUME Inv, UNCHANGED <<table, job, basis>>, seen \subseteq seen', stored' \subseteq seen',
           seen' \subseteq Transactions,
           \A t \in seen, u \in stored' : u.row = t.row => \E v \in stored : v.row = t.row
    PROVE  Inv'
<1> PICK S : S = SteadyRows /\ IInv(S) BY DEF Inv
<1> PICK R : R = SteadyRows' OBVIOUS
<1>1. R \subseteq S BY NoMoreSteady
<1>2. Keys' = Keys BY DEF Keys
<1>3. Agree(R)' /\ Stay(R)'
  <2>1. (Agree(SteadyRows) /\ Stay(SteadyRows))' BY SteadyAgree, PTL
  <2> QED BY <2>1 DEF Agree, Stay
<1>4. AreLots(table') BY DEF IInv, Shape
<1>5. IInv(R)' BY <1>1, <1>2, <1>3, <1>4, OthersKeep DEF Buys
<1> QED BY <1>5 DEF Inv

\* A transaction that is stored is the first version of its row.
LEMMA StoreKeeps ==
    ASSUME Inv, NEW t \in Transactions, Store(t)
    PROVE  Inv'
<1>1. stored \subseteq seen /\ seen \subseteq Transactions BY DEF Inv, IInv, Versions
<1>2. /\ stored' = stored \cup {t} /\ seen' = seen \cup {t}
      /\ UNCHANGED <<table, job, basis>> /\ \A u \in seen : u.row # t.row
  BY DEF Store
<1> QED BY <1>1, <1>2, SyncKeeps

\* A row is stored before it is changed and after it.
LEMMA ChangeKeeps ==
    ASSUME Inv, NEW t \in Transactions, NEW u \in Transactions, Change(t, u)
    PROVE  Inv'
<1>1. stored \subseteq seen /\ seen \subseteq Transactions BY DEF Inv, IInv, Versions
<1>2. /\ stored' = (stored \ {t}) \cup {u} /\ seen' = seen \cup {u}
      /\ UNCHANGED <<table, job, basis>> /\ t \in stored /\ u.row = t.row
  BY DEF Change
<1> QED BY <1>1, <1>2, SyncKeeps

\* The lots that a deletion takes are not those of a steady purchase any more, and no
\* rebuild has written to them.
LEMMA DeleteKeeps ==
    ASSUME Inv, NEW a \in Accounts, DeleteAccount(a)
    PROVE  Inv'
<1> PICK S : S = SteadyRows /\ IInv(S) BY DEF Inv
<1> PICK R : R = SteadyRows' OBVIOUS
<1>1. /\ stored' = {t \in stored : t.acct # a} /\ table' = {l \in table : l.acct # a}
      /\ seen' = seen /\ job' = job /\ basis'.read = basis.read
  <2>1. basis' = [basis EXCEPT !.whole = FALSE] BY DEF DeleteAccount
  <2> QED BY <2>1 DEF DeleteAccount
<1>2. stored \subseteq seen /\ seen \subseteq Transactions BY DEF IInv, Versions
<1>3. R \subseteq S BY <1>1, <1>2, NoMoreSteady
<1>4. Agree(R)' /\ Stay(R)'
  <2>1. (Agree(SteadyRows) /\ Stay(SteadyRows))' BY SteadyAgree, PTL
  <2> QED BY <2>1 DEF Agree, Stay
<1>5. AreLots(table') /\ Keys' \subseteq Keys
  BY <1>1 DEF IInv, Shape, AreLots, Keys, Ids
<1>6. Buys(Keys, R) \subseteq Keys'
  <2> SUFFICES ASSUME NEW l \in table, l.id[3] = 0, Row(l.id[2]) \in R PROVE l.acct # a
    BY <1>1 DEF Buys, Keys, Ids
  <2>1. IsLot(l) BY DEF IInv, Shape, AreLots
  <2>2. PICK v \in Transactions : v.id = l.id[2] /\ v.acct = l.acct
    BY <2>1 DEF IsLot, Bears
  <2>3. PICK t \in seen : t.id = l.id[2]
    <3>1. l.id \in Keys BY DEF Keys, Ids
    <3> QED BY <3>1 DEF IInv, Known, Sure
  <2>4. t = v /\ t.row \in R BY <1>2, <2>2, <2>3, RowOf, TransactionShape
  <2>5. PICK u \in stored' : u.row = t.row BY <1>1, <1>4, <2>4 DEF Stay
  <2>6. u.acct = t.acct BY <1>1, <1>2, <2>5, TransactionShape
  <2> QED BY <1>1, <2>2, <2>4, <2>5, <2>6
<1>7. ASSUME NEW w \in Rebuilders, NEW i \in Mine(w) \cap Keys PROVE i \in Keys'
  <2>1. PICK l \in table : l.id = i BY DEF Keys, Ids
  <2>2. i \in Locks(w) BY DEF Locks, Mine, Keys
  <2>3. l.acct # a BY <2>1, <2>2 DEF DeleteAccount
  <2> QED BY <1>1, <2>1, <2>3 DEF Keys, Ids
<1>8. stored' \subseteq seen' BY <1>1, <1>2
<1>9. IInv(R)' BY <1>1, <1>2, <1>3, <1>4, <1>5, <1>6, <1>7, <1>8, OthersKeep
<1> QED BY <1>9 DEF Inv

\* The DELETE starts: its tag is new, and it sees the whole table.
LEMMA BeginKeeps ==
    ASSUME NEW S, IInv(S), NEW w \in Rebuilders, BeginDelete(w)
    PROVE  IInv(S)'
<1>1. /\ Shape' /\ \A v \in Others(w) : Kept(v)
      /\ Pc(w)' = "deleting" /\ Snap(w)' = Keys /\ Gone(w)' = {}
      /\ Mine(w)' = {} /\ Read(w)' = {} /\ Todo(w)' = {}
      /\ \A i \in Keys : i[1] # Gen(w)'
      /\ \A v \in Rebuilders : Gen(v) # Gen(w)' /\ \A i \in Snap(v) : i[1] # Gen(w)'
      /\ Keys' = Keys
  BY BeginStep DEF IInv
<1>2. stored' = stored /\ seen' = seen /\ basis' = basis BY DEF BeginDelete
<1>3. \A v \in Rebuilders : v = w \/ v \in Others(w) BY DEF Others
<1>4. /\ Own(w)' = {} /\ \A v \in Others(w) : Own(v)' = Own(v)
  BY <1>1, KeptOwn DEF Own
<1>5. Bought({}, S) = {} /\ Purchases({}, S) = {} BY DEF Bought, Purchases, Buys
<1>6. Stages' BY <1>1, <1>2, <1>3 DEF IInv, Stages, Kept
<1>20. Versions(S)' BY <1>2 DEF IInv, Versions, Agree, Stay
<1>21. Known' BY <1>1, <1>2, <1>3 DEF IInv, Known, Sure, Kept
<1>7. Fresh'
  <2>1. \A i \in Snap(w)' : i[1] # Gen(w)' BY <1>1
  <2>2. ASSUME NEW v \in Others(w), Pc(v) # "idle"
        PROVE  \A i \in Snap(w)' : i[1] # Gen(v)
    BY <1>1, <2>2 DEF IInv, Fresh, Others
  <2>3. \A v \in Others(w) : Gen(v)' # Gen(w)' /\ \A i \in Snap(v)' : i[1] # Gen(w)'
    BY <1>1 DEF Kept, Others
  <2>4. ASSUME NEW v \in Others(w), Pc(v) # "idle", NEW u \in Others(w)
        PROVE  /\ \A i \in Snap(u)' : i[1] # Gen(v)
               /\ u # v /\ Pc(u) # "idle" => Gen(u) # Gen(v)
    BY <1>1, <2>4 DEF IInv, Fresh, Kept, Others
  <2>5. ASSUME NEW v \in Others(w), Pc(v) # "idle" PROVE \A i \in Keys' : i[1] # Gen(v)
    BY <1>1, <2>5 DEF IInv, Fresh, Others
  <2> QED BY <1>1, <1>3, <2>1, <2>2, <2>3, <2>4, <2>5 DEF Fresh, Kept, Others
<1>8. Locked' BY <1>1, <1>3 DEF IInv, Locked, Kept, Others
<1>9. Booked(S)' BY <1>1, <1>3, <1>4, <1>5 DEF IInv, Booked, Kept, Others
<1>10. Apart(S)' BY <1>1, <1>3, <1>4, <1>5 DEF IInv, Apart, Kept, Others
<1>11. Complete(S)' BY <1>1, <1>3 DEF IInv, Complete, AllOrNone, Kept, Others, Buys
<1>12. Nested(S)' BY <1>1, <1>3, <1>5 DEF IInv, Nested, Comparable, Kept, Others
<1>13. Single(S)' BY <1>1, <1>2 DEF IInv, Single
<1> QED BY <1>1, <1>6, <1>7, <1>8, <1>9, <1>10, <1>11, <1>12, <1>13,
           <1>20, <1>21 DEF IInv

\* The DELETE ends: what it saw is all there still, or nothing of it.
LEMMA FinishKeeps ==
    ASSUME NEW S, IInv(S), NEW w \in Rebuilders, FinishDelete(w)
    PROVE  IInv(S)'
<1>0. Pc(w) = "deleting" /\ Gone(w) = {} BY DEF FinishDelete, Pc, IInv, Stages
<1>1. /\ Shape' /\ \A v \in Others(w) : Kept(v)
      /\ Pc(w) = "deleting" /\ Pc(w)' = "reading" /\ Gen(w)' = Gen(w)
      /\ Snap(w)' = Snap(w) /\ Gone(w)' = Snap(w) \cap Keys
      /\ Mine(w)' = Mine(w) /\ Read(w)' = Read(w) /\ Todo(w)' = Todo(w)
      /\ \A v \in Others(w) : Mine(v) \cap Keys \cap Snap(w) = {}
      /\ Keys' = Keys
  BY <1>0, FinishStep DEF IInv
<1>2. stored' = stored /\ seen' = seen /\ basis' = basis BY DEF FinishDelete
<1>3. \A v \in Rebuilders : v = w \/ v \in Others(w) BY DEF Others
<1>4. Mine(w) = {} /\ Own(w)' = {} /\ \A v \in Others(w) : Own(v)' = Own(v)
  BY <1>1, KeptOwn DEF Own, IInv, Stages
<1>5. Bought({}, S) = {} /\ Purchases({}, S) = {} BY DEF Bought, Purchases, Buys
<1>6. Stages' BY <1>1, <1>2, <1>3 DEF IInv, Stages, Kept
<1>20. Versions(S)' BY <1>2 DEF IInv, Versions, Agree, Stay
<1>21. Known' BY <1>1, <1>2, <1>3 DEF IInv, Known, Sure, Kept
<1>7. Fresh'
  <2>1. \A v \in Rebuilders : /\ Gen(v)' = Gen(v) /\ Snap(v)' = Snap(v)
                              /\ (Pc(v)' # "idle") = (Pc(v) # "idle")
    BY <1>1, <1>3 DEF Kept
  <2> QED BY <1>1, <2>1 DEF IInv, Fresh, Others
<1>8. Locked'
  <2>1. \A v \in Others(w) : Gone(w)' \cap Mine(v)' = {} BY <1>1 DEF Kept
  <2>2. \A v \in Others(w) : \A i \in Mine(v)' : i[1] = Gen(v)' \/ i \in Keys' \ Gone(v)'
    BY <1>1 DEF IInv, Locked, Kept, Others
  <2>3. \A v, u \in Others(w) : u # v => Gone(u)' \cap Mine(v)' = {}
    BY <1>1 DEF IInv, Locked, Kept, Others
  <2> QED BY <1>1, <1>3, <1>4, <2>1, <2>2, <2>3 DEF Locked, Others
<1>9. Booked(S)' BY <1>1, <1>3, <1>4, <1>5 DEF IInv, Booked, Stages, Kept, Others
<1>10. Apart(S)' BY <1>1, <1>3, <1>4, <1>5 DEF IInv, Apart, Kept, Others
<1>11. Complete(S)'
  <2>1. AllOrNone(Buys(Keys, S), Snap(w)) BY <1>1 DEF IInv, Complete
  <2>2. AllOrNone(Buys(Keys, S), Gone(w)') BY <1>1, <2>1 DEF AllOrNone, Buys
  <2> QED BY <1>1, <1>3, <2>2 DEF IInv, Complete, Kept, Others
<1>12. Nested(S)' BY <1>1, <1>3 DEF IInv, Nested, Kept, Others
<1>13. Single(S)' BY <1>1, <1>2 DEF IInv, Single
<1> QED BY <1>1, <1>6, <1>7, <1>8, <1>9, <1>10, <1>11, <1>12, <1>13,
           <1>20, <1>21 DEF IInv

\* The SELECT: whatever others have read or committed is among what is stored.
LEMMA ReadKeeps ==
    ASSUME NEW S, IInv(S), NEW w \in Rebuilders, ReadTransactions(w)
    PROVE  IInv(S)'
<1>1. /\ Shape' /\ \A v \in Others(w) : Kept(v)
      /\ Pc(w) = "reading" /\ Pc(w)' = "matching" /\ Gen(w)' = Gen(w)
      /\ Snap(w)' = Snap(w) /\ Gone(w)' = Gone(w) /\ Mine(w)' = Mine(w)
      /\ Read(w)' = stored /\ Todo(w)' = stored
      /\ Keys' = Keys
  BY ReadStep DEF IInv
<1>2. stored' = stored /\ seen' = seen /\ basis' = basis BY DEF ReadTransactions
<1>3. \A v \in Rebuilders : v = w \/ v \in Others(w) BY DEF Others
<1>4. Mine(w) = {} /\ Own(w)' = {} /\ \A v \in Others(w) : Own(v)' = Own(v)
  BY <1>1, KeptOwn DEF Own, IInv, Stages
<1>5. Bought({}, S) = {} /\ Purchases({}, S) = {} BY DEF Bought, Purchases, Buys
<1>6. Stages' BY <1>1, <1>2, <1>3 DEF IInv, Versions, Stages, Kept
<1>20. Versions(S)' BY <1>2 DEF IInv, Versions, Agree, Stay
<1>21. Known' BY <1>1, <1>2, <1>3 DEF IInv, Known, Sure, Kept
<1>7. Fresh'
  <2>1. \A v \in Rebuilders : /\ Gen(v)' = Gen(v) /\ Snap(v)' = Snap(v)
                              /\ (Pc(v)' # "idle") = (Pc(v) # "idle")
    BY <1>1, <1>3 DEF Kept
  <2> QED BY <1>1, <2>1 DEF IInv, Fresh, Others
<1>8. Locked'
  <2>1. \A v \in Rebuilders : Gen(v)' = Gen(v) /\ Gone(v)' = Gone(v) /\ Mine(v)' = Mine(v)
    BY <1>1, <1>3 DEF Kept
  <2> QED BY <1>1, <2>1 DEF IInv, Locked, Others
<1>9. Booked(S)'
  <2>1. Read(w)' \ Todo(w)' = {} BY <1>1
  <2> QED BY <1>1, <1>3, <1>4, <1>5, <2>1 DEF IInv, Booked, Kept, Others
<1>10. Apart(S)' BY <1>1, <1>3, <1>4, <1>5 DEF IInv, Apart, Kept, Others
<1>11. Complete(S)' BY <1>1, <1>3 DEF IInv, Complete, Kept, Others
<1>12. Nested(S)'
  <2>1. /\ Purchases(Keys, S) \subseteq Bought(stored, S)
        /\ \A v \in Rebuilders : Bought(Read(v), S) \subseteq Bought(stored, S)
    BY StillStored DEF IInv
  <2> QED BY <1>1, <1>3, <2>1 DEF IInv, Nested, Comparable, Kept, Others
<1>13. Single(S)' BY <1>1, <1>2 DEF IInv, Single
<1> QED BY <1>1, <1>6, <1>7, <1>8, <1>9, <1>10, <1>11, <1>12, <1>13,
           <1>20, <1>21 DEF IInv

\* A transaction is processed: the unique constraint keeps a purchase apart from
\* what others insert, and the row locks keep updates off what others delete.
LEMMA ProcessKeeps ==
    ASSUME NEW S, IInv(S), NEW w \in Rebuilders, ProcessTransaction(w)
    PROVE  IInv(S)'
<1>0. Todo(w) \subseteq seen /\ \A i \in Keys : i[1] # Gen(w)
  <2>1. Pc(w) = "matching" BY DEF ProcessTransaction, Pc
  <2> QED BY <2>1 DEF IInv, Stages, Fresh
<1>1. PICK t \in Todo(w) :
      /\ Shape' /\ \A v \in Others(w) : Kept(v)
      /\ Pc(w) = "matching" /\ Pc(w)' = "matching" /\ Gen(w)' = Gen(w)
      /\ Snap(w)' = Snap(w) /\ Gone(w)' = Gone(w)
      /\ Read(w)' = Read(w) /\ Todo(w)' = Todo(w) \ {t}
      /\ Keys' = Keys
      /\ \A i \in Mine(w)' : i \in Own(w)' \/ i \in (Keys \ Gone(w)) \cup Mine(w)
      /\ \A v \in Others(w) : Gone(v) \cap (Mine(w)' \ Own(w)') \subseteq Mine(w)
      /\ Own(w) \subseteq Own(w)'
      /\ Sure(Mine(w)')
      /\ \A i \in Buys(Own(w)', S) \ Own(w) : Counts(t, S) /\ Row(i[2]) = t.row
      /\ Counts(t, S) =>
             /\ \E i \in Buys(Own(w)', S) : Row(i[2]) = t.row
             /\ t.row \notin Purchases((Keys \ Gone(w)) \cup Mine(w), S)
             /\ \A v \in Others(w) : t.row \notin Purchases(Mine(v), S)
  BY <1>0, ProcessStep DEF IInv
<1>2. stored' = stored /\ seen' = seen /\ basis' = basis BY DEF ProcessTransaction
<1>3. \A v \in Rebuilders : v = w \/ v \in Others(w) BY DEF Others
<1>4. \A v \in Others(w) : Own(v)' = Own(v) BY <1>1, KeptOwn
<1>5. Stages' BY <1>1, <1>2, <1>3 DEF IInv, Stages, Kept
<1>20. Versions(S)' BY <1>2 DEF IInv, Versions, Agree, Stay
<1>21. Known' BY <1>1, <1>2, <1>3 DEF IInv, Known, Sure, Kept
<1>6. \A v \in Rebuilders : /\ Pc(v)' = Pc(v) /\ Gen(v)' = Gen(v) /\ Snap(v)' = Snap(v)
                            /\ Gone(v)' = Gone(v) /\ Read(v)' = Read(v)
  BY <1>1, <1>3 DEF Kept
<1>7. Fresh' BY <1>1, <1>6 DEF IInv, Fresh, Others
<1>8. Locked'
  <2>1. \A i \in Mine(w)' : i[1] = Gen(w) \/ i \in Keys \ Gone(w)
    BY <1>1 DEF IInv, Locked, Own
  <2>2. ASSUME NEW v \in Others(w) PROVE Gone(v) \cap Mine(w)' = {}
    <3> SUFFICES ASSUME NEW i \in Gone(v), i \in Mine(w)' PROVE FALSE OBVIOUS
    <3>1. CASE i \in Own(w)'
      <4>1. i[1] = Gen(w) BY <1>1, <3>1 DEF Own
      <4>2. i \in Snap(v) BY DEF IInv, Stages, Others
      <4> QED BY <1>1, <4>1, <4>2 DEF IInv, Fresh, Others
    <3>2. CASE i \notin Own(w)'
      <4>1. i \in Mine(w) BY <1>1, <3>2
      <4> QED BY <4>1 DEF IInv, Locked
    <3> QED BY <3>1, <3>2
  <2>3. ASSUME NEW v \in Others(w)
        PROVE  /\ \A i \in Mine(v)' : i[1] = Gen(v)' \/ i \in Keys' \ Gone(v)'
               /\ \A u \in Others(v) : Gone(u)' \cap Mine(v)' = {}
    <3>1. Mine(v)' = Mine(v) BY <1>1 DEF Kept
    <3> QED BY <1>1, <1>6, <3>1 DEF IInv, Locked, Others
  <2> QED BY <1>1, <1>3, <1>6, <2>1, <2>2, <2>3 DEF Locked, Others
<1>9. Booked(S)'
  <2>1. Purchases(Own(w)', S) = Bought(Read(w) \ (Todo(w) \ {t}), S)
    <3>1. Purchases(Own(w), S) = Bought(Read(w) \ Todo(w), S) BY DEF IInv, Booked
    <3>2. t \in Read(w) BY DEF IInv, Stages
    <3>3. Bought(Read(w) \ (Todo(w) \ {t}), S)
            = Bought(Read(w) \ Todo(w), S) \cup (IF Counts(t, S) THEN {t.row} ELSE {})
      BY <3>2 DEF Bought, Counts
    <3>4. Purchases(Own(w)', S)
            = Purchases(Own(w), S) \cup (IF Counts(t, S) THEN {t.row} ELSE {})
      <4>1. Purchases(Own(w), S) \subseteq Purchases(Own(w)', S) BY <1>1 DEF Purchases, Buys
      <4>2. ASSUME Counts(t, S) PROVE t.row \in Purchases(Own(w)', S)
        BY <1>1, <4>2 DEF Purchases
      <4>3. \A i \in Buys(Own(w)', S) :
              Row(i[2]) \in Purchases(Own(w), S) \/ (Counts(t, S) /\ Row(i[2]) = t.row)
        BY <1>1 DEF Purchases, Buys
      <4>4. \A n \in Purchases(Own(w)', S) :
              n \in Purchases(Own(w), S) \/ (Counts(t, S) /\ n = t.row)
        BY <4>3 DEF Purchases
      <4> QED BY <4>1, <4>2, <4>4
    <3> QED BY <3>1, <3>3, <3>4
  <2>2. \A v \in Others(w) : Purchases(Own(v)', S) = Bought(Read(v)' \ Todo(v)', S)
    BY <1>1, <1>4 DEF IInv, Booked, Kept, Others
  <2> QED BY <1>1, <1>3, <2>1, <2>2 DEF Booked
<1>10. \A n \in Purchases(Own(w)', S) : n \in Purchases(Own(w), S) \/ (Counts(t, S) /\ n = t.row)
  <2>1. \A i \in Buys(Own(w)', S) :
              Row(i[2]) \in Purchases(Own(w), S) \/ (Counts(t, S) /\ Row(i[2]) = t.row)
    BY <1>1 DEF Purchases, Buys
  <2> QED BY <2>1 DEF Purchases
<1>11. Apart(S)'
  <2>1. Purchases(Keys \ Gone(w), S) \cap Purchases(Own(w)', S) = {}
    <3>1. Purchases(Keys \ Gone(w), S) \cap Purchases(Own(w), S) = {} BY DEF IInv, Apart
    <3>2. Purchases(Keys \ Gone(w), S) \subseteq Purchases((Keys \ Gone(w)) \cup Mine(w), S)
      BY DEF Purchases, Buys
    <3> QED BY <1>1, <1>10, <3>1, <3>2
  <2>2. ASSUME NEW v \in Others(w) PROVE Purchases(Own(v), S) \cap Purchases(Own(w)', S) = {}
    <3>1. Purchases(Own(v), S) \cap Purchases(Own(w), S) = {} BY DEF IInv, Apart
    <3>2. Purchases(Own(v), S) \subseteq Purchases(Mine(v), S) BY DEF Purchases, Buys, Own
    <3> QED BY <1>1, <1>10, <3>1, <3>2
  <2>3. ASSUME NEW v \in Others(w)
        PROVE  /\ Purchases(Keys' \ Gone(v)', S) \cap Purchases(Own(v)', S) = {}
               /\ \A u \in Others(v) : u # w => Purchases(Own(u)', S) \cap Purchases(Own(v)', S) = {}
    BY <1>1, <1>4, <1>6 DEF IInv, Apart, Others
  <2> QED BY <1>1, <1>3, <1>4, <2>1, <2>2, <2>3 DEF Apart, Others
<1>12. Complete(S)' BY <1>1, <1>6 DEF IInv, Complete
<1>13. Nested(S)' BY <1>1, <1>6 DEF IInv, Nested
<1>14. Single(S)' BY <1>1, <1>2 DEF IInv, Single
<1> QED BY <1>1, <1>5, <1>7, <1>8, <1>9, <1>11, <1>12, <1>13, <1>14,
           <1>20, <1>21 DEF IInv

\* A rebuild that fails leaves the table as it was.
LEMMA AbortKeeps ==
    ASSUME NEW S, IInv(S), NEW w \in Rebuilders, job' = [job EXCEPT ![w] = Idle],
           UNCHANGED <<stored, seen, table, basis>>
    PROVE  IInv(S)'
<1>1. /\ Shape' /\ \A v \in Others(w) : Kept(v)
      /\ Pc(w)' = "idle" /\ Snap(w)' = {} /\ Gone(w)' = {} /\ Mine(w)' = {}
      /\ Read(w)' = {} /\ Todo(w)' = {}
  <2>1. AreLots(table') BY DEF IInv, Shape
  <2> QED BY <2>1, EndStep DEF IInv
<1>2. stored' = stored /\ seen' = seen /\ basis' = basis /\ Keys' = Keys BY DEF Keys
<1>3. \A v \in Rebuilders : v = w \/ v \in Others(w) BY DEF Others
<1>4. /\ Own(w)' = {} /\ \A v \in Others(w) : Own(v)' = Own(v)
  BY <1>1, KeptOwn DEF Own
<1>5. Bought({}, S) = {} /\ Purchases({}, S) = {} BY DEF Bought, Purchases, Buys
<1>6. Stages' BY <1>1, <1>2, <1>3 DEF IInv, Stages, Kept
<1>20. Versions(S)' BY <1>2 DEF IInv, Versions, Agree, Stay
<1>21. Known' BY <1>1, <1>2, <1>3 DEF IInv, Known, Sure, Kept
<1>7. Fresh' BY <1>1, <1>2, <1>3 DEF IInv, Fresh, Kept, Others
<1>8. Locked' BY <1>1, <1>2, <1>3 DEF IInv, Locked, Kept, Others
<1>9. Booked(S)' BY <1>1, <1>3, <1>4, <1>5 DEF IInv, Booked, Kept, Others
<1>10. Apart(S)' BY <1>1, <1>2, <1>3, <1>4, <1>5 DEF IInv, Apart, Kept, Others
<1>11. Complete(S)' BY <1>1, <1>2, <1>3 DEF IInv, Complete, AllOrNone, Kept, Others
<1>12. Nested(S)' BY <1>1, <1>2, <1>3, <1>5 DEF IInv, Nested, Comparable, Kept, Others
<1>13. Single(S)' BY <1>2 DEF IInv, Single
<1> QED BY <1>1, <1>6, <1>7, <1>8, <1>9, <1>10, <1>11, <1>12, <1>13,
           <1>20, <1>21 DEF IInv

\* A commit replaces the purchases of the table as a whole or not at all.
LEMMA CommitKeeps ==
    ASSUME NEW S, IInv(S), NEW w \in Rebuilders, Commit(w)
    PROVE  IInv(S)'
<1>1. /\ Shape' /\ \A v \in Others(w) : Kept(v)
      /\ Pc(w)' = "idle" /\ Snap(w)' = {} /\ Gone(w)' = {} /\ Mine(w)' = {}
      /\ Read(w)' = {} /\ Todo(w)' = {}
      /\ Pc(w) = "matching" /\ basis'.read = Read(w)
      /\ Keys' = (Keys \ Gone(w)) \cup Mine(w)
      /\ \A i \in Keys' : i \in Own(w) \/ i \in Keys \ Gone(w)
      /\ \/ /\ Bought(Read(w), S) # {}
            /\ Buys(Keys', S) = Buys(Own(w), S)
            /\ Purchases(Keys', S) = Bought(Read(w), S)
         \/ /\ Bought(Read(w), S) = {}
            /\ Buys(Keys', S) = Buys(Keys, S) \/ Buys(Keys', S) = {}
  BY CommitStep
<1>2. stored' = stored /\ seen' = seen BY DEF Commit
<1>22. Read(w) \subseteq seen BY DEF IInv, Stages
<1>3. \A v \in Rebuilders : v = w \/ v \in Others(w) BY DEF Others
<1>4. /\ Own(w)' = {} /\ \A v \in Others(w) : Own(v)' = Own(v)
  BY <1>1, KeptOwn DEF Own
<1>5. Bought({}, S) = {} /\ Purchases({}, S) = {} BY DEF Bought, Purchases, Buys
<1>6. \/ Purchases(Keys', S) = Bought(Read(w), S)
      \/ Purchases(Keys', S) = Purchases(Keys, S)
      \/ Purchases(Keys', S) = {}
  BY <1>1 DEF Purchases
<1>7. Stages' BY <1>1, <1>2, <1>3 DEF IInv, Stages, Kept
<1>20. Versions(S)' BY <1>1, <1>2, <1>22 DEF IInv, Versions, Agree, Stay
<1>21. Known'
  <2>1. \A i \in Keys' : i \in Keys \/ i \in Mine(w) BY <1>1
  <2> QED BY <1>1, <1>2, <1>3, <2>1 DEF IInv, Known, Sure, Kept
<1>8. \A i \in Own(w) : i[1] = Gen(w) BY DEF Own
<1>9. \A v \in Others(w) : Pc(v) # "idle" => Gen(v) # Gen(w)
  BY <1>1 DEF IInv, Fresh, Others
<1>10. Fresh'
  <2>1. ASSUME NEW v \in Others(w), Pc(v) # "idle" PROVE \A i \in Keys' : i[1] # Gen(v)
    BY <1>1, <1>8, <1>9, <2>1 DEF IInv, Fresh, Others
  <2>2. ASSUME NEW v \in Others(w), Pc(v) # "idle"
        PROVE  /\ \A u \in Rebuilders : \A i \in Snap(u)' : i[1] # Gen(v)
               /\ \A u \in Others(v) : Pc(u)' # "idle" => Gen(u)' # Gen(v)
    BY <1>1, <1>3, <2>2 DEF IInv, Fresh, Kept, Others
  <2> QED BY <1>1, <1>3, <2>1, <2>2 DEF Fresh, Kept
<1>11. Locked'
  <2>1. ASSUME NEW v \in Others(w), NEW i \in Mine(v), i[1] # Gen(v)
        PROVE  i \in Keys' \ Gone(v)
    <3>1. i \in Keys \ Gone(v) BY <2>1 DEF IInv, Locked, Others
    <3>2. i \notin Gone(w) BY DEF IInv, Locked, Others
    <3> QED BY <1>1, <3>1, <3>2
  <2> QED BY <1>1, <1>3, <2>1 DEF IInv, Locked, Kept, Others
<1>12. Booked(S)' BY <1>1, <1>3, <1>4, <1>5 DEF IInv, Booked, Kept, Others
<1>13. Apart(S)'
  <2>1. ASSUME NEW v \in Others(w)
        PROVE  Purchases(Keys' \ Gone(v), S) \cap Purchases(Own(v), S) = {}
    <3>1. Purchases(Keys' \ Gone(v), S) \subseteq Purchases(Keys \ Gone(v), S) \cup Purchases(Own(w), S)
      BY <1>1 DEF Purchases, Buys
    <3> QED BY <3>1 DEF IInv, Apart, Others
  <2> QED BY <1>1, <1>3, <1>4, <1>5, <2>1 DEF IInv, Apart, Kept, Others
<1>14. Complete(S)'
  <2>1. ASSUME NEW v \in Others(w)
        PROVE  /\ Buys(Own(w), S) \cap Snap(v) = {}
               /\ Buys(Own(w), S) \cap Gone(v) = {}
    <3>1. \A i \in Snap(v) : i[1] # Gen(w) BY <1>1 DEF IInv, Fresh, Others
    <3>2. Gone(v) \subseteq Snap(v) BY DEF IInv, Stages, Others
    <3> QED BY <1>8, <3>1, <3>2 DEF Buys
  <2>2. ASSUME NEW v \in Others(w)
        PROVE  /\ AllOrNone(Buys(Keys', S), Gone(v))
               /\ Pc(v) = "deleting" => AllOrNone(Buys(Keys', S), Snap(v))
    BY <1>1, <2>1 DEF IInv, Complete, AllOrNone, Others
  <2> QED BY <1>1, <1>3, <2>2 DEF Complete, AllOrNone, Kept
<1>15. Nested(S)'
  <2>1. ASSUME NEW v \in Others(w) PROVE Comparable(Purchases(Keys', S), Bought(Read(v), S))
    <3>2. Comparable(Bought(Read(w), S), Bought(Read(v), S)) BY DEF IInv, Nested, Others
    <3>3. Comparable(Purchases(Keys, S), Bought(Read(v), S)) BY DEF IInv, Nested, Others
    <3> QED BY <1>6, <3>2, <3>3 DEF Comparable
  <2>2. \A v \in Others(w) : Read(v)' = Read(v) BY <1>1 DEF Kept
  <2>3. \A v \in Rebuilders : Comparable(Purchases(Keys', S), Bought(Read(v)', S))
    <3>1. Comparable(Purchases(Keys', S), Bought(Read(w)', S)) BY <1>1, <1>5 DEF Comparable
    <3> QED BY <1>3, <2>1, <2>2, <3>1
  <2>4. \A u, v \in Rebuilders : Comparable(Bought(Read(u)', S), Bought(Read(v)', S))
    <3>1. \A X : Comparable(Bought(Read(w)', S), X) /\ Comparable(X, Bought(Read(w)', S))
      BY <1>1, <1>5 DEF Comparable
    <3>2. \A u, v \in Others(w) : Comparable(Bought(Read(u)', S), Bought(Read(v)', S))
      BY <2>2 DEF IInv, Nested, Others
    <3> QED BY <1>3, <3>1, <3>2
  <2> QED BY <2>3, <2>4 DEF Nested
<1>16. Single(S)'
  <2>1. \A i, j \in Buys(Keys', S) : i[1] = j[1]
    BY <1>1, <1>8 DEF IInv, Single, Buys
  <2> QED BY <1>1, <2>1 DEF Single
<1> QED BY <1>1, <1>7, <1>10, <1>11, <1>12, <1>13, <1>14, <1>15, <1>16,
           <1>20, <1>21 DEF IInv

\* A rebuild changes no transaction, and so leaves the steady rows as they are.
LEMMA RebuildKeeps ==
    ASSUME Inv, NEW w \in Rebuilders, Step(w)
    PROVE  Inv'
<1> PICK S : S = SteadyRows /\ IInv(S) BY DEF Inv
<1>10. stored' = stored /\ seen' = seen
  BY Zenon DEF Step, BeginDelete, FinishDelete, ReadTransactions, ProcessTransaction,
               UniqueViolation, ForeignKeyViolation, DeadlockVictim, Commit
<1>11. SteadyRows' = SteadyRows BY <1>10 DEF SteadyRows, Agree, Stay
<1> SUFFICES IInv(S)' BY <1>11 DEF Inv
<1>1. ASSUME job' = [job EXCEPT ![w] = Idle], UNCHANGED <<accounts, stored, seen, table, basis>>
      PROVE  IInv(S)'
  BY <1>1, AbortKeeps
<1>2. CASE BeginDelete(w) BY <1>2, BeginKeeps
<1>3. CASE FinishDelete(w) BY <1>3, FinishKeeps
<1>4. CASE ReadTransactions(w) BY <1>4, ReadKeeps
<1>5. CASE ProcessTransaction(w) BY <1>5, ProcessKeeps
<1>6. CASE UniqueViolation(w)
  <2>1. job' = [job EXCEPT ![w] = Idle] /\ UNCHANGED <<accounts, stored, seen, table, basis>>
    BY <1>6, Zenon DEF UniqueViolation
  <2> QED BY <1>1, <2>1
<1>7. CASE ForeignKeyViolation(w)
  <2>1. job' = [job EXCEPT ![w] = Idle] /\ UNCHANGED <<accounts, stored, seen, table, basis>>
    BY <1>7, Zenon DEF ForeignKeyViolation
  <2> QED BY <1>1, <2>1
<1>8. CASE DeadlockVictim(w)
  <2>1. job' = [job EXCEPT ![w] = Idle] /\ UNCHANGED <<accounts, stored, seen, table, basis>>
    BY <1>8, Zenon DEF DeadlockVictim
  <2> QED BY <1>1, <2>1
<1>9. CASE Commit(w) BY <1>9, CommitKeeps
<1> QED BY <1>2, <1>3, <1>4, <1>5, <1>6, <1>7, <1>8, <1>9, Zenon DEF Step

\* Every step, and Inv holds always.
THEOREM Invariant == Spec => []Inv
<1>1. Init => Inv BY Initially
<1>2. Inv /\ [Next]_vars => Inv'
  <2> SUFFICES ASSUME Inv, [Next]_vars PROVE Inv' OBVIOUS
  <2>1. ASSUME NEW t \in Transactions, Store(t) PROVE Inv' BY <2>1, StoreKeeps
  <2>2. ASSUME NEW t \in Transactions, NEW u \in Transactions, Change(t, u) PROVE Inv'
    BY <2>2, ChangeKeeps
  <2>3. ASSUME NEW a \in Accounts, DeleteAccount(a) PROVE Inv' BY <2>3, DeleteKeeps
  <2>4. ASSUME NEW w \in Rebuilders, Step(w) PROVE Inv' BY <2>4, RebuildKeeps
  <2>5. CASE UNCHANGED vars
    <3>1. stored' = stored /\ seen' = seen /\ UNCHANGED <<table, job, basis>>
      BY <2>5 DEF vars
    <3>2. stored \subseteq seen /\ seen \subseteq Transactions BY DEF Inv, IInv, Versions
    <3> QED BY <3>1, <3>2, SyncKeeps
  <2> QED BY <2>1, <2>2, <2>3, <2>4, <2>5 DEF Next
<1> QED BY <1>1, <1>2, PTL DEF Spec

\* compute_all_tax_lots deletes and rebuilds without a lock of its own, and still
\* the committed lots of the purchases that have kept their day are those of one
\* rebuild and of such purchases that it has read, however many rebuilds overlap,
\* fail or wait for each other while transactions are added, changed and deleted.
THEOREM OneRebuild == Spec => []OneGeneration
<1>1. Inv => OneGeneration
  <2> SUFFICES ASSUME Inv PROVE OneGeneration OBVIOUS
  <2> PICK S : S = SteadyRows /\ IInv(S) BY DEF Inv
  <2> DEFINE rows == Rows(Steady)
             lots == {l \in table : l.purchase # None /\ Row(l.purchase) \in rows}
             read == Rows(basis.read) \cap rows
  <2>1. stored \subseteq seen /\ seen \subseteq Transactions BY DEF IInv, Versions
  <2>2. rows \subseteq S
    <3> SUFFICES ASSUME NEW t \in Steady PROVE t.row \in SteadyRows BY DEF Rows
    <3>1. t \in stored /\ \A u \in seen : u.row = t.row => u.kind = t.kind /\ u.date = t.date
      BY DEF Steady
    <3>2. Agree({t.row}) /\ Stay({t.row}) BY <3>1 DEF Agree, Stay
    <3>3. t.row \in Rows(Transactions) BY <2>1, <3>1 DEF Rows
    <3> QED BY <3>2, <3>3 DEF SteadyRows
  <2>3. \A l \in table : IsLot(l) /\ l.id \in Keys BY DEF IInv, Shape, AreLots, Keys, Ids
  <2>4. ASSUME NEW l \in lots PROVE l.id \in Buys(Keys, rows) /\ Row(l.id[2]) = Row(l.purchase)
    BY <2>3, <2>4 DEF IsLot, PurchaseOf, Buys
  <2>5. ASSUME NEW i \in Buys(Keys, rows) PROVE \E l \in lots : Row(l.purchase) = Row(i[2])
    <3>1. PICK l \in table : l.id = i BY DEF Buys, Keys, Ids
    <3>2. l.id[3] = 0 /\ Row(i[2]) \in rows BY <3>1 DEF Buys
    <3>3. l.purchase = i[2] /\ i[2] \in Nat BY <2>3, <3>1, <3>2 DEF IsLot, PurchaseOf
    <3>4. None \notin Nat BY TransactionShape
    <3> QED BY <3>1, <3>2, <3>3, <3>4
  <2>6. Purchases(Keys, rows) = {Row(l.purchase) : l \in lots}
    BY <2>4, <2>5 DEF Purchases
  <2>7. read = Bought(basis.read, rows)
    <3> SUFFICES ASSUME NEW t \in basis.read, t.row \in rows PROVE t.kind = "purchase"
      BY DEF Rows, Bought
    <3>1. PICK u \in Steady : u.row = t.row BY DEF Rows
    <3>2. u.kind = "purchase" /\ \A v \in seen : v.row = u.row => v.kind = u.kind
      BY DEF Steady
    <3> QED BY <3>1, <3>2 DEF IInv, Versions
  <2>8. \A l, m \in lots : l.id[1] = m.id[1]
    <3>1. Buys(Keys, rows) \subseteq Buys(Keys, S) BY <2>2 DEF Buys
    <3> QED BY <2>4, <3>1 DEF IInv, Single
  <2>9. read # {} => read = {Row(l.purchase) : l \in lots}
    <3>1. /\ Purchases(Keys, rows) = Purchases(Keys, S) \cap rows
          /\ Bought(basis.read, rows) = Bought(basis.read, S) \cap rows
      BY <2>2, Fewer
    <3> QED BY <2>6, <2>7, <3>1 DEF IInv, Single
  <2> QED BY <2>8, <2>9 DEF OneGeneration
<1> QED BY <1>1, Invariant, PTL

-----------------------------------------------------------------------------
(* Fractions.                                                              *)

\* A set of numbers has a least one.
LEMMA LeastNumber ==
    ASSUME NEW T \in SUBSET Nat, T # {}
    PROVE  \E n \in T : \A m \in T : n <= m
<1>1. PICK n \in T : \A m \in T : ~(<<m, n>> \in OpToRel(<, Nat))
  BY NatLessThanWellFounded, WFMin, Zenon
<1>2. \A m \in T : ~(m < n) BY <1>1, Zenon DEF OpToRel
<1>3. \A m \in T : n <= m BY <1>2
<1> QED BY <1>3

\* Division with rest.
LEMMA Quotient ==
    ASSUME NEW a \in Int, NEW d \in Nat \ {0}
    PROVE  /\ a \div d \in Int /\ a % d \in Int
           /\ a = (a \div d) * d + (a % d)
           /\ 0 <= a % d /\ a % d < d
  OBVIOUS

\* A multiple leaves no rest.
LEMMA Multiple ==
    ASSUME NEW a \in Int, NEW d \in Nat \ {0}, NEW m \in Int, a = m * d
    PROVE  a % d = 0 /\ a \div d = m
<1> DEFINE q == a \div d
           r == a % d
<1>1. /\ q \in Int /\ r \in Int
      /\ a = q * d + r
      /\ 0 <= r /\ r < d
  BY Quotient
<1> HIDE DEF q, r
<1>2. r = (m - q) * d BY <1>1
<1>3. ASSUME m - q >= 1 PROVE FALSE
  <2>1. (m - q) * d >= d BY <1>1, <1>3
  <2> QED BY <1>1, <1>2, <2>1
<1>4. ASSUME m - q <= -1 PROVE FALSE
  <2>1. (q - m) * d >= d BY <1>1, <1>4
  <2>2. (m - q) * d = -((q - m) * d) BY <1>1
  <2> QED BY <1>1, <1>2, <2>1, <2>2
<1>5. m = q BY <1>1, <1>3, <1>4
<1>6. r = 0 BY <1>1, <1>2, <1>5
<1> QED BY <1>5, <1>6 DEF q, r

\* No rest: a multiple.
LEMMA Divides ==
    ASSUME NEW a \in Int, NEW d \in Nat \ {0}
    PROVE  a % d = 0 => a = (a \div d) * d /\ a \div d \in Int
BY Quotient

\* The least denominator exists.
LEMMA LowestIs ==
    ASSUME NEW n \in Int, NEW d \in Nat \ {0}
    PROVE  /\ Lowest(n, d) \in 1 .. d
           /\ (n * Lowest(n, d)) % d = 0
           /\ \A j \in 1 .. Lowest(n, d) - 1 : (n * j) % d # 0
<1> DEFINE T == {k \in 1 .. d : (n * k) % d = 0}
<1>1. d \in T BY Multiple
<1>2. T \in SUBSET Nat /\ T # {}
  <2>1. \A k \in T : k \in Nat OBVIOUS
  <2> QED BY <1>1, <2>1, Zenon
<1>3. PICK k \in T : \A m \in T : k <= m BY <1>2, LeastNumber
<1>4. \A j \in 1 .. k - 1 : (n * j) % d # 0
  <2> SUFFICES ASSUME NEW j \in 1 .. k - 1, (n * j) % d = 0 PROVE FALSE OBVIOUS
  <2>1. j \in T BY <1>3
  <2> QED BY <1>3, <2>1
<1>5. k \in 1 .. d /\ (n * k) % d = 0 BY <1>3
<1> QED BY <1>4, <1>5, Zenon DEF Lowest

\* A common positive factor cancels.
LEMMA Cancel ==
    ASSUME NEW x \in Int, NEW y \in Int, NEW d \in Nat \ {0}, x * d = y * d
    PROVE  x = y
OBVIOUS

\* A fraction has the value it was made of.
LEMMA FracIs ==
    ASSUME NEW n \in Int, NEW d \in Nat \ {0}
    PROVE  IsFraction(Frac(n, d)) /\ Frac(n, d).num * d = n * Frac(n, d).den
<1> DEFINE k == Lowest(n, d)
           m == (n * k) \div d
<1>1. /\ k \in 1 .. d /\ (n * k) % d = 0
      /\ \A j \in 1 .. k - 1 : (n * j) % d # 0
  BY LowestIs
<1>2. Frac(n, d) = [num |-> m, den |-> k] BY Zenon DEF Frac
<1> HIDE DEF k
<1>3. k \in Nat \ {0} /\ n * k \in Int BY <1>1
<1>4. m \in Int /\ n * k = m * d BY <1>1, <1>3, Divides
<1> HIDE DEF m
<1>5. \A j \in 1 .. k - 1 : (m * j) % k # 0
  <2> SUFFICES ASSUME NEW j \in 1 .. k - 1, (m * j) % k = 0 PROVE FALSE OBVIOUS
  <2>1. PICK e \in Int : m * j = e * k
    <3>1. m * j \in Int BY <1>4
    <3> QED BY <1>3, <3>1, Divides
  <2>2. (n * j) * k = (e * d) * k
    <3>1. (n * j) * k = (n * k) * j BY <1>3
    <3>2. (n * k) * j = (m * j) * d BY <1>4
    <3>3. (m * j) * d = (e * d) * k BY <1>3, <2>1
    <3> QED BY <3>1, <3>2, <3>3
  <2>3. n * j = e * d BY <1>3, <2>2, Cancel
  <2>4. (n * j) % d = 0 BY <2>3, Multiple
  <2> QED BY <1>1, <2>4
<1>6. Frac(n, d).num = m /\ Frac(n, d).den = k /\ Frac(n, d) \in [num : Int, den : Nat \ {0}]
  BY <1>2, <1>3, <1>4
<1> HIDE DEF Frac
<1>7. IsFraction(Frac(n, d)) BY <1>5, <1>6 DEF IsFraction
<1> QED BY <1>4, <1>6, <1>7

\* Equal values are equal records.
LEMMA SameFraction ==
    ASSUME NEW x, NEW y, IsFraction(x), IsFraction(y), x.num * y.den = y.num * x.den
    PROVE  x = y
<1>1. /\ x.num \in Int /\ x.den \in Nat \ {0} /\ x = [num |-> x.num, den |-> x.den]
      /\ y.num \in Int /\ y.den \in Nat \ {0} /\ y = [num |-> y.num, den |-> y.den]
  BY DEF IsFraction
<1>2. ASSUME x.den < y.den PROVE FALSE
  <2>1. x.den \in 1 .. y.den - 1 BY <1>1, <1>2
  <2>2. (y.num * x.den) % y.den = 0
    <3>1. y.num * x.den \in Int BY <1>1
    <3> QED BY <1>1, <3>1, Multiple
  <2> QED BY <2>1, <2>2 DEF IsFraction
<1>3. ASSUME y.den < x.den PROVE FALSE
  <2>1. y.den \in 1 .. x.den - 1 BY <1>1, <1>3
  <2>2. (x.num * y.den) % x.den = 0
    <3>1. x.num * y.den \in Int BY <1>1
    <3> QED BY <1>1, <3>1, Multiple
  <2> QED BY <2>1, <2>2 DEF IsFraction
<1>4. x.den = y.den BY <1>1, <1>2, <1>3
<1>5. x.num = y.num BY <1>1, <1>4, Cancel
<1> QED BY <1>1, <1>4, <1>5

\* The parts of a fraction.
LEMMA Parts ==
    ASSUME NEW x, IsFraction(x)
    PROVE  x.num \in Int /\ x.den \in Nat \ {0} /\ x = [num |-> x.num, den |-> x.den]
BY DEF IsFraction

\* A product of positive numbers is positive.
LEMMA Positive ==
    ASSUME NEW d \in Nat \ {0}, NEW e \in Nat \ {0}
    PROVE  d * e \in Nat \ {0}
OBVIOUS

\* Equal ratios are equal fractions, and no others.
LEMMA FracEq ==
    ASSUME NEW n \in Int, NEW m \in Int, NEW d \in Nat \ {0}, NEW e \in Nat \ {0}
    PROVE  Frac(n, d) = Frac(m, e) <=> n * e = m * d
<1> DEFINE x == Frac(n, d)
           y == Frac(m, e)
<1>1. /\ IsFraction(x) /\ x.num * d = n * x.den
      /\ IsFraction(y) /\ y.num * e = m * y.den
  BY FracIs
<1>2. x.num \in Int /\ x.den \in Nat \ {0} /\ y.num \in Int /\ y.den \in Nat \ {0}
  BY <1>1, Parts
<1> HIDE DEF x, y
<1>3. d * e \in Nat \ {0} /\ x.den * y.den \in Nat \ {0} BY <1>2, Positive
<1>4. (x.num * y.den) * (d * e) = (n * e) * (x.den * y.den)
  <2>1. (x.num * y.den) * (d * e) = (x.num * d) * (y.den * e) BY <1>2
  <2>2. (n * x.den) * (y.den * e) = (n * e) * (x.den * y.den) BY <1>2
  <2> QED BY <1>1, <2>1, <2>2
<1>5. (y.num * x.den) * (d * e) = (m * d) * (x.den * y.den)
  <2>1. (y.num * x.den) * (d * e) = (y.num * e) * (x.den * d) BY <1>2
  <2>2. (m * y.den) * (x.den * d) = (m * d) * (x.den * y.den) BY <1>2
  <2> QED BY <1>1, <2>1, <2>2
<1>6. x.num * y.den \in Int /\ y.num * x.den \in Int /\ n * e \in Int /\ m * d \in Int BY <1>2
<1>7. ASSUME n * e = m * d PROVE x = y
  <2>1. (x.num * y.den) * (d * e) = (y.num * x.den) * (d * e) BY <1>4, <1>5, <1>7
  <2>2. x.num * y.den = y.num * x.den BY <1>3, <1>6, <2>1, Cancel
  <2> QED BY <1>1, <2>2, SameFraction
<1>8. ASSUME x = y PROVE n * e = m * d
  <2>1. (n * e) * (x.den * y.den) = (m * d) * (x.den * y.den) BY <1>4, <1>5, <1>8
  <2> QED BY <1>3, <1>6, <2>1, Cancel
<1> QED BY <1>7, <1>8 DEF x, y

\* A fraction is made of its own parts.
LEMMA FracOf ==
    ASSUME NEW x, IsFraction(x)
    PROVE  x = Frac(x.num, x.den)
<1>1. x.num \in Int /\ x.den \in Nat \ {0} BY Parts
<1>2. /\ IsFraction(Frac(x.num, x.den))
      /\ Frac(x.num, x.den).num * x.den = x.num * Frac(x.num, x.den).den
  BY <1>1, FracIs
<1> QED BY <1>2, SameFraction

\* Fractions with one denominator.
LEMMA Scale ==
    ASSUME NEW n \in Int, NEW d \in Nat \ {0}, NEW e \in Nat \ {0}
    PROVE  Frac(n, d) = Frac(n * e, d * e)
<1>1. d * e \in Nat \ {0} /\ n * e \in Int BY Positive
<1>2. n * (d * e) = (n * e) * d OBVIOUS
<1> QED BY <1>1, <1>2, FracEq

\* Sums over one denominator.
LEMMA PlusFrac ==
    ASSUME NEW n \in Int, NEW m \in Int, NEW d \in Nat \ {0}
    PROVE  Plus(Frac(n, d), Frac(m, d)) = Frac(n + m, d)
<1> DEFINE x == Frac(n, d)
           y == Frac(m, d)
<1>1. /\ IsFraction(x) /\ x.num * d = n * x.den
      /\ IsFraction(y) /\ y.num * d = m * y.den
  BY FracIs
<1>2. x.num \in Int /\ x.den \in Nat \ {0} /\ y.num \in Int /\ y.den \in Nat \ {0}
  BY <1>1, Parts
<1> HIDE DEF x, y
<1>3. Plus(x, y) = Frac(x.num * y.den + y.num * x.den, x.den * y.den) BY DEF Plus
<1>4. x.den * y.den \in Nat \ {0} /\ x.num * y.den + y.num * x.den \in Int
  BY <1>2, Positive
<1>5. (x.num * y.den + y.num * x.den) * d = (n + m) * (x.den * y.den)
  <2>1. (x.num * y.den + y.num * x.den) * d = (x.num * d) * y.den + (y.num * d) * x.den
    BY <1>2
  <2>2. (n * x.den) * y.den + (m * y.den) * x.den = (n + m) * (x.den * y.den)
    BY <1>2
  <2> QED BY <1>1, <2>1, <2>2
<1>6. Frac(x.num * y.den + y.num * x.den, x.den * y.den) = Frac(n + m, d)
  BY <1>4, <1>5, FracEq
<1> QED BY <1>3, <1>6 DEF x, y

\* The negative of a fraction.
LEMMA NegFrac ==
    ASSUME NEW n \in Int, NEW d \in Nat \ {0}
    PROVE  Neg(Frac(n, d)) = Frac(-n, d)
<1> DEFINE x == Frac(n, d)
           y == Frac(-n, d)
<1>1. /\ IsFraction(x) /\ x.num * d = n * x.den
      /\ IsFraction(y) /\ y.num * d = (-n) * y.den
  BY FracIs
<1>2. /\ x.num \in Int /\ x.den \in Nat \ {0} /\ y.num \in Int /\ y.den \in Nat \ {0}
      /\ x = [num |-> x.num, den |-> x.den]
  BY <1>1, Parts
<1> HIDE DEF x, y
<1>3. Neg(x) = [num |-> -x.num, den |-> x.den] BY <1>2 DEF Neg
<1>4. IsFraction(Neg(x))
  <2>1. \A k \in 1 .. x.den - 1 : (x.num * k) % x.den # 0 BY <1>1 DEF IsFraction
  <2>2. \A k \in 1 .. x.den - 1 : ((-x.num) * k) % x.den # 0
    <3> SUFFICES ASSUME NEW k \in 1 .. x.den - 1, ((-x.num) * k) % x.den = 0 PROVE FALSE
      OBVIOUS
    <3>1. (-x.num) * k \in Int /\ x.num * k \in Int BY <1>2
    <3>2. PICK m \in Int : (-x.num) * k = m * x.den BY <1>2, <3>1, Divides
    <3>3. x.num * k = (-m) * x.den
      <4>1. x.num * k = -((-x.num) * k) BY <1>2
      <4>2. -(m * x.den) = (-m) * x.den BY <1>2
      <4> QED BY <3>2, <4>1, <4>2
    <3>4. (x.num * k) % x.den = 0 BY <1>2, <3>1, <3>3, Multiple
    <3> QED BY <2>1, <3>4
  <2>3. -x.num \in Int BY <1>2
  <2> QED BY <1>2, <1>3, <2>2, <2>3 DEF IsFraction
<1>5. Neg(x).num = -x.num /\ Neg(x).den = x.den BY <1>3
<1>6. Neg(x) = Frac(-x.num, x.den) BY <1>4, <1>5, FracOf
<1>7. (-x.num) * d = (-n) * x.den
  <2>1. (-x.num) * d = -(x.num * d) /\ (-n) * x.den = -(n * x.den) BY <1>2
  <2> QED BY <1>1, <2>1
<1>8. -x.num \in Int /\ -n \in Int BY <1>2
<1>9. Frac(-x.num, x.den) = Frac(-n, d) BY <1>2, <1>7, <1>8, FracEq
<1> QED BY <1>6, <1>9 DEF x

\* Differences over one denominator.
LEMMA MinusFrac ==
    ASSUME NEW n \in Int, NEW m \in Int, NEW d \in Nat \ {0}
    PROVE  Minus(Frac(n, d), Frac(m, d)) = Frac(n - m, d)
<1>1. -m \in Int /\ n + (-m) = n - m OBVIOUS
<1>2. Plus(Frac(n, d), Frac(-m, d)) = Frac(n + (-m), d) BY <1>1, PlusFrac
<1> QED BY <1>1, <1>2, NegFrac DEF Minus

\* Products.
LEMMA TimesFrac ==
    ASSUME NEW n \in Int, NEW m \in Int, NEW d \in Nat \ {0}, NEW e \in Nat \ {0}
    PROVE  Times(Frac(n, d), Frac(m, e)) = Frac(n * m, d * e)
<1> DEFINE x == Frac(n, d)
           y == Frac(m, e)
<1>1. /\ IsFraction(x) /\ x.num * d = n * x.den
      /\ IsFraction(y) /\ y.num * e = m * y.den
  BY FracIs
<1>2. x.num \in Int /\ x.den \in Nat \ {0} /\ y.num \in Int /\ y.den \in Nat \ {0}
  BY <1>1, Parts
<1> HIDE DEF x, y
<1>3. Times(x, y) = Frac(x.num * y.num, x.den * y.den) BY DEF Times
<1>4. /\ x.den * y.den \in Nat \ {0} /\ x.num * y.num \in Int
      /\ d * e \in Nat \ {0} /\ n * m \in Int
  BY <1>2, Positive
<1>5. (x.num * y.num) * (d * e) = (n * m) * (x.den * y.den)
  <2>1. (x.num * y.num) * (d * e) = (x.num * d) * (y.num * e) BY <1>2
  <2>2. (n * x.den) * (m * y.den) = (n * m) * (x.den * y.den) BY <1>2
  <2> QED BY <1>1, <2>1, <2>2
<1>6. Frac(x.num * y.num, x.den * y.den) = Frac(n * m, d * e) BY <1>4, <1>5, FracEq
<1> QED BY <1>3, <1>6 DEF x, y

\* Equal ratios have equal signs.
LEMMA SignOf ==
    ASSUME NEW a \in Int, NEW n \in Int, NEW d \in Nat \ {0}, NEW k \in Nat \ {0}, a * d = n * k
    PROVE  /\ a > 0 <=> n > 0
           /\ a = 0 <=> n = 0
<1>1. ASSUME a > 0, n <= 0 PROVE FALSE
  <2>1. a * d > 0 /\ n * k <= 0 BY <1>1
  <2> QED BY <2>1
<1>2. ASSUME a < 0, n >= 0 PROVE FALSE
  <2>1. a * d < 0 /\ n * k >= 0 BY <1>2
  <2> QED BY <2>1
<1>3. ASSUME a = 0 PROVE n = 0
  <2>1. n * k = 0 * k BY <1>3
  <2> QED BY <2>1, Cancel
<1>4. ASSUME n = 0 PROVE a = 0
  <2>1. a * d = 0 * d BY <1>4
  <2> QED BY <2>1, Cancel
<1> QED BY <1>1, <1>2, <1>3, <1>4

\* The order over one denominator.
LEMMA LessFrac ==
    ASSUME NEW n \in Int, NEW m \in Int, NEW d \in Nat \ {0}
    PROVE  Less(Frac(n, d), Frac(m, d)) <=> n < m
<1> DEFINE x == Frac(n, d)
           y == Frac(m, d)
<1>1. /\ IsFraction(x) /\ x.num * d = n * x.den
      /\ IsFraction(y) /\ y.num * d = m * y.den
  BY FracIs
<1>2. x.num \in Int /\ x.den \in Nat \ {0} /\ y.num \in Int /\ y.den \in Nat \ {0}
  BY <1>1, Parts
<1> HIDE DEF x, y
<1>3. (y.num * x.den - x.num * y.den) * d = (m - n) * (x.den * y.den)
  <2>1. (y.num * x.den - x.num * y.den) * d = (y.num * d) * x.den - (x.num * d) * y.den
    BY <1>2
  <2>2. (m * y.den) * x.den - (n * x.den) * y.den = (m - n) * (x.den * y.den)
    BY <1>2
  <2> QED BY <1>1, <2>1, <2>2
<1>4. x.den * y.den \in Nat \ {0} /\ y.num * x.den - x.num * y.den \in Int /\ m - n \in Int
  BY <1>2, Positive
<1>5. y.num * x.den - x.num * y.den > 0 <=> m - n > 0 BY <1>3, <1>4, SignOf
<1>6. y.num * x.den \in Int /\ x.num * y.den \in Int BY <1>2
<1>7. x.num * y.den < y.num * x.den <=> n < m BY <1>5, <1>6
<1> QED BY <1>7 DEF Less, x, y

NonNeg(x) == IsFraction(x) /\ AtMost(Zero, x)
Pos(x) == IsFraction(x) /\ Less(Zero, x)

\* Zero is a fraction, whatever the denominator.
LEMMA ZeroFrac ==
    /\ IsFraction(Zero)
    /\ \A d \in Nat \ {0} : Frac(0, d) = Zero
<1>1. IsFraction(Zero) BY FracIs DEF Zero
<1>2. ASSUME NEW d \in Nat \ {0} PROVE Frac(0, d) = Zero
  <2>1. 0 * 1 = 0 * d OBVIOUS
  <2> QED BY <2>1, FracEq DEF Zero
<1> QED BY <1>1, <1>2

\* The sign of a fraction.
LEMMA SignFrac ==
    ASSUME NEW n \in Int, NEW d \in Nat \ {0}
    PROVE  /\ NonNeg(Frac(n, d)) <=> n >= 0
           /\ Pos(Frac(n, d)) <=> n > 0
           /\ Frac(n, d) = Zero <=> n = 0
<1>1. IsFraction(Frac(n, d)) BY FracIs
<1>2. Zero = Frac(0, d) BY ZeroFrac
<1>3. Less(Zero, Frac(n, d)) <=> 0 < n BY <1>2, LessFrac
<1>4. Less(Frac(n, d), Zero) <=> n < 0 BY <1>2, LessFrac
<1>5. Frac(n, d) = Frac(0, d) <=> n * d = 0 * d BY FracEq
<1>6. n * d = 0 * d <=> n = 0 BY Cancel
<1> QED BY <1>1, <1>2, <1>3, <1>4, <1>5, <1>6 DEF NonNeg, Pos, AtMost

\* Any two or three fractions have a denominator in common.
LEMMA CommonTwo ==
    ASSUME NEW x, NEW y, IsFraction(x), IsFraction(y)
    PROVE  \E d \in Nat \ {0}, n, m \in Int : x = Frac(n, d) /\ y = Frac(m, d)
<1>1. x.num \in Int /\ x.den \in Nat \ {0} /\ y.num \in Int /\ y.den \in Nat \ {0} BY Parts
<1>2. x = Frac(x.num, x.den) /\ y = Frac(y.num, y.den) BY FracOf
<1>3. Frac(x.num, x.den) = Frac(x.num * y.den, x.den * y.den) BY <1>1, Scale
<1>4. Frac(y.num, y.den) = Frac(y.num * x.den, y.den * x.den) BY <1>1, Scale
<1>5. y.den * x.den = x.den * y.den BY <1>1
<1>6. x.den * y.den \in Nat \ {0} /\ x.num * y.den \in Int /\ y.num * x.den \in Int
  BY <1>1, Positive
<1> DEFINE d == x.den * y.den
           n == x.num * y.den
           m == y.num * x.den
<1>7. x = Frac(n, d) /\ y = Frac(m, d) BY <1>2, <1>3, <1>4, <1>5, Zenon
<1>8. d \in Nat \ {0} /\ n \in Int /\ m \in Int BY <1>6
<1> HIDE DEF d, n, m
<1> QED BY <1>7, <1>8, Zenon

\* x has denominator d, not in lowest terms.
HasDen(x, d) == \E n \in Int : x = Frac(n, d)

\* The same for three.
LEMMA CommonThree ==
    ASSUME NEW x, NEW y, NEW z, IsFraction(x), IsFraction(y), IsFraction(z)
    PROVE  \E d \in Nat \ {0} : HasDen(x, d) /\ HasDen(y, d) /\ HasDen(z, d)
<1>1. PICK e \in Nat \ {0}, a \in Int, b \in Int : x = Frac(a, e) /\ y = Frac(b, e)
  BY CommonTwo
<1>2. z.num \in Int /\ z.den \in Nat \ {0} BY Parts
<1>3. z = Frac(z.num, z.den) BY FracOf
<1>4. Frac(a, e) = Frac(a * z.den, e * z.den) /\ Frac(b, e) = Frac(b * z.den, e * z.den)
  BY <1>2, Scale
<1>5. Frac(z.num, z.den) = Frac(z.num * e, z.den * e) BY <1>2, Scale
<1>6. z.den * e = e * z.den BY <1>2
<1> DEFINE d == e * z.den
           n == a * z.den
           m == b * z.den
           k == z.num * e
<1>7. x = Frac(n, d) /\ y = Frac(m, d) /\ z = Frac(k, d)
  BY <1>1, <1>3, <1>4, <1>5, <1>6, Zenon
<1>8. d \in Nat \ {0} /\ n \in Int /\ m \in Int /\ k \in Int BY <1>2, Positive
<1> HIDE DEF d, n, m, k
<1>9. HasDen(x, d) /\ HasDen(y, d) /\ HasDen(z, d) BY <1>7, <1>8, Zenon DEF HasDen
<1> QED BY <1>8, <1>9, Zenon

\* Sums and differences.
LEMMA PlusType ==
    ASSUME NEW x, NEW y, IsFraction(x), IsFraction(y)
    PROVE  /\ IsFraction(Plus(x, y)) /\ IsFraction(Minus(x, y)) /\ IsFraction(Neg(x))
           /\ NonNeg(x) /\ NonNeg(y) => NonNeg(Plus(x, y))
           /\ AtMost(y, x) => NonNeg(Minus(x, y))
           /\ Minus(x, y) = Zero <=> x = y
           /\ NonNeg(y) => AtMost(Minus(x, y), x)
<1>1. PICK d \in Nat \ {0}, n \in Int, m \in Int : x = Frac(n, d) /\ y = Frac(m, d)
  BY CommonTwo
<1>2. n + m \in Int /\ n - m \in Int /\ -n \in Int OBVIOUS
<1>3. Plus(x, y) = Frac(n + m, d) /\ Minus(x, y) = Frac(n - m, d) /\ Neg(x) = Frac(-n, d)
  BY <1>1, PlusFrac, MinusFrac, NegFrac
<1>4. IsFraction(Plus(x, y)) /\ IsFraction(Minus(x, y)) /\ IsFraction(Neg(x))
  BY <1>2, <1>3, FracIs
<1>5. /\ NonNeg(x) <=> n >= 0
      /\ NonNeg(y) <=> m >= 0
      /\ NonNeg(Plus(x, y)) <=> n + m >= 0
      /\ NonNeg(Minus(x, y)) <=> n - m >= 0
      /\ Minus(x, y) = Zero <=> n - m = 0
  BY <1>1, <1>2, <1>3, SignFrac
<1>6. /\ AtMost(y, x) <=> ~(n < m)
      /\ AtMost(Minus(x, y), x) <=> ~(n < n - m)
  BY <1>1, <1>2, <1>3, LessFrac DEF AtMost
<1>7. x = y <=> n = m
  <2>1. n * d = m * d <=> n = m BY Cancel
  <2> QED BY <1>1, <2>1, FracEq
<1> QED BY <1>4, <1>5, <1>6, <1>7

\* The order of fractions.
LEMMA OrderType ==
    ASSUME NEW x, NEW y, IsFraction(x), IsFraction(y)
    PROVE  /\ IsFraction(Lesser(x, y)) /\ IsFraction(Greater(x, y))
           /\ NonNeg(x) /\ NonNeg(y) => NonNeg(Lesser(x, y))
           /\ NonNeg(x) => NonNeg(Greater(x, y))
           /\ AtMost(Lesser(x, y), x)
           /\ AtMost(x, x)
           /\ NonNeg(x) <=> x = Zero \/ Pos(x)
           /\ AtMost(x, y) /\ AtMost(y, x) => x = y
           /\ NonNeg(x) => ~Less(x, Zero)
           /\ Pos(x) => ~AtMost(x, Zero)
<1>1. PICK d \in Nat \ {0}, n \in Int, m \in Int : x = Frac(n, d) /\ y = Frac(m, d)
  BY CommonTwo
<1>2. Zero = Frac(0, d) BY ZeroFrac
<1>3. /\ Less(x, y) <=> n < m
      /\ Less(y, x) <=> m < n
      /\ Less(x, x) <=> n < n
      /\ Less(x, Zero) <=> n < 0
      /\ Less(Zero, x) <=> 0 < n
      /\ Less(Zero, y) <=> 0 < m
  BY <1>1, <1>2, LessFrac
<1>4. /\ NonNeg(x) <=> n >= 0 
      /\ NonNeg(y) <=> m >= 0
      /\ Pos(x) <=> n > 0
      /\ x = Zero <=> n = 0
  BY <1>1, SignFrac
<1>5. x = y <=> n = m
  <2>1. n * d = m * d <=> n = m BY Cancel
  <2> QED BY <1>1, <2>1, FracEq
<1> QED BY <1>3, <1>4, <1>5 DEF Lesser, Greater, AtMost

\* Products.
LEMMA TimesType ==
    ASSUME NEW x, NEW y, IsFraction(x), IsFraction(y)
    PROVE  /\ IsFraction(Times(x, y))
           /\ Times(x, y) = Times(y, x)
           /\ NonNeg(x) /\ NonNeg(y) => NonNeg(Times(x, y))
           /\ Pos(x) /\ Pos(y) => Pos(Times(x, y))
           /\ Pos(y) => (Times(x, y) = Zero <=> x = Zero)
<1>1. x.num \in Int /\ x.den \in Nat \ {0} /\ y.num \in Int /\ y.den \in Nat \ {0} BY Parts
<1>2. x = Frac(x.num, x.den) /\ y = Frac(y.num, y.den) BY FracOf
<1>3. x.num * y.num \in Int /\ x.den * y.den \in Nat \ {0} BY <1>1, Positive
<1>4. Times(x, y) = Frac(x.num * y.num, x.den * y.den) BY DEF Times
<1>5. Times(x, y) = Times(y, x)
  <2>1. x.num * y.num = y.num * x.num /\ x.den * y.den = y.den * x.den BY <1>1
  <2> QED BY <2>1 DEF Times
<1>6. IsFraction(Times(x, y)) BY <1>3, <1>4, FracIs
<1>7. /\ NonNeg(x) <=> x.num >= 0
      /\ Pos(x) <=> x.num > 0
      /\ x = Zero <=> x.num = 0
      /\ NonNeg(y) <=> y.num >= 0
      /\ Pos(y) <=> y.num > 0
  BY <1>1, <1>2, SignFrac
<1>8. /\ NonNeg(Times(x, y)) <=> x.num * y.num >= 0
      /\ Pos(Times(x, y)) <=> x.num * y.num > 0
      /\ Times(x, y) = Zero <=> x.num * y.num = 0
  BY <1>3, <1>4, SignFrac
<1>9. /\ x.num >= 0 /\ y.num >= 0 => x.num * y.num >= 0
      /\ x.num > 0 /\ y.num > 0 => x.num * y.num > 0
  BY <1>1
<1>10. y.num > 0 => (x.num * y.num = 0 <=> x.num = 0) BY <1>1
<1> QED BY <1>5, <1>6, <1>7, <1>8, <1>9, <1>10

\* A positive factor keeps the order.
LEMMA TimesOrder ==
    ASSUME NEW x, NEW y, IsFraction(x), IsFraction(y), NEW r, Pos(r), AtMost(x, y)
    PROVE  AtMost(Times(x, r), Times(y, r))
<1>1. PICK d \in Nat \ {0}, n \in Int, m \in Int : x = Frac(n, d) /\ y = Frac(m, d)
  BY CommonTwo
<1>2. IsFraction(r) BY DEF Pos
<1>3. r.num \in Int /\ r.den \in Nat \ {0} /\ r = Frac(r.num, r.den)
  BY <1>2, Parts, FracOf
<1>4. r.num > 0 BY <1>3, SignFrac
<1>5. n <= m
  <2>1. ~(m < n) BY <1>1, LessFrac DEF AtMost
  <2> QED BY <2>1
<1>6. Times(x, r) = Frac(n * r.num, d * r.den) /\ Times(y, r) = Frac(m * r.num, d * r.den)
  <2>1. /\ Times(Frac(n, d), Frac(r.num, r.den)) = Frac(n * r.num, d * r.den)
        /\ Times(Frac(m, d), Frac(r.num, r.den)) = Frac(m * r.num, d * r.den)
    BY <1>3, TimesFrac
  <2> QED BY <1>1, <1>3, <2>1, Zenon
<1>7. d * r.den \in Nat \ {0} /\ n * r.num \in Int /\ m * r.num \in Int BY <1>3, Positive
<1>8. ~(m * r.num < n * r.num) BY <1>3, <1>4, <1>5
<1> QED BY <1>6, <1>7, <1>8, LessFrac DEF AtMost

\* Quotients.
LEMMA OverIs ==
    ASSUME NEW x, NEW y, IsFraction(x), Pos(y)
    PROVE  /\ IsFraction(Over(x, y))
           /\ NonNeg(x) => NonNeg(Over(x, y))
           /\ \A z : IsFraction(z) => Times(Over(x, y), Times(z, y)) = Times(x, z)
           /\ Times(Over(x, y), y) = x
<1>1. IsFraction(y) /\ y # Zero
  <2>1. IsFraction(y) BY DEF Pos
  <2>2. y.num \in Int /\ y.den \in Nat \ {0} /\ y = Frac(y.num, y.den) BY <2>1, Parts, FracOf
  <2>3. y.num > 0 /\ (y = Zero <=> y.num = 0) BY <2>2, SignFrac
  <2>4. y # Zero BY <2>2, <2>3
  <2> QED BY <2>1, <2>4
<1>2. /\ x.num \in Int /\ x.den \in Nat \ {0} /\ x = Frac(x.num, x.den)
      /\ y.num \in Int /\ y.den \in Nat \ {0} /\ y = Frac(y.num, y.den)
  BY <1>1, Parts, FracOf
<1>3. y.num \in Nat \ {0}
  <2>1. y.num > 0 BY <1>2, SignFrac
  <2> QED BY <1>2, <2>1
<1>4. Over(x, y) = Frac(x.num * y.den, x.den * y.num) BY <1>1 DEF Over
<1>5. x.num * y.den \in Int /\ x.den * y.num \in Nat \ {0} BY <1>2, <1>3, Positive
<1>6. IsFraction(Over(x, y)) BY <1>4, <1>5, FracIs
<1>7. NonNeg(x) => NonNeg(Over(x, y))
  <2>1. NonNeg(x) <=> x.num >= 0 BY <1>2, SignFrac
  <2>2. NonNeg(Over(x, y)) <=> x.num * y.den >= 0 BY <1>4, <1>5, SignFrac
  <2>3. x.num >= 0 => x.num * y.den >= 0 BY <1>2
  <2> QED BY <2>1, <2>2, <2>3
<1>8. ASSUME NEW z, IsFraction(z)
      PROVE  Times(Over(x, y), Times(z, y)) = Times(x, z)
  <2>1. z.num \in Int /\ z.den \in Nat \ {0} /\ z = Frac(z.num, z.den) BY <1>8, Parts, FracOf
  <2>2. Times(z, y) = Frac(z.num * y.num, z.den * y.den) BY DEF Times
  <2>3. z.num * y.num \in Int /\ z.den * y.den \in Nat \ {0} BY <1>2, <2>1, Positive
  <2>4. Times(Over(x, y), Times(z, y))
          = Frac((x.num * y.den) * (z.num * y.num), (x.den * y.num) * (z.den * y.den))
    BY <1>4, <1>5, <2>2, <2>3, TimesFrac
  <2>5. /\ (x.num * y.den) * (z.num * y.num) = (x.num * z.num) * (y.den * y.num)
        /\ (x.den * y.num) * (z.den * y.den) = (x.den * z.den) * (y.den * y.num)
    BY <1>2, <2>1
  <2>6. /\ y.den * y.num \in Nat \ {0} /\ x.num * z.num \in Int /\ x.den * z.den \in Nat \ {0}
    BY <1>2, <1>3, <2>1, Positive
  <2>7. Frac((x.num * z.num) * (y.den * y.num), (x.den * z.den) * (y.den * y.num))
          = Frac(x.num * z.num, x.den * z.den)
    BY <2>6, Scale
  <2> QED BY <2>4, <2>5, <2>7 DEF Times
<1>9. Times(Over(x, y), y) = x
  <2>1. Times(Over(x, y), y) = Frac((x.num * y.den) * y.num, (x.den * y.num) * y.den)
    <3>1. Times(Frac(x.num * y.den, x.den * y.num), Frac(y.num, y.den))
            = Frac((x.num * y.den) * y.num, (x.den * y.num) * y.den)
      BY <1>2, <1>5, TimesFrac
    <3> QED BY <1>2, <1>4, <3>1, Zenon
  <2>2. /\ (x.num * y.den) * y.num = x.num * (y.den * y.num)
        /\ (x.den * y.num) * y.den = x.den * (y.den * y.num)
    BY <1>2
  <2>3. y.den * y.num \in Nat \ {0} BY <1>2, <1>3, Positive
  <2>4. Frac(x.num * (y.den * y.num), x.den * (y.den * y.num)) = Frac(x.num, x.den)
    BY <1>2, <2>3, Scale
  <2> QED BY <1>2, <2>1, <2>2, <2>4
<1> QED BY <1>6, <1>7, <1>8, <1>9

-----------------------------------------------------------------------------
(* Sums of fractions.                                                      *)

\* A set of finite sets has one of which no smaller one is a member.
LEMMA LeastSet ==
    ASSUME NEW D, IsFiniteSet(D), NEW B \in SUBSET (SUBSET D), B # {}
    PROVE  \E S \in B : IsFiniteSet(S) /\ \A T \in SUBSET S : T # S => T \notin B
<1> DEFINE N == {Cardinality(S) : S \in B}
<1>1. ASSUME NEW S \in B PROVE IsFiniteSet(S) /\ Cardinality(S) \in Nat
  <2>1. IsFiniteSet(S) BY FS_Subset
  <2> QED BY <2>1, FS_CardinalityType
<1>2. N \in SUBSET Nat /\ N # {} BY <1>1
<1>3. PICK n \in N : \A m \in N : n <= m BY <1>2, LeastNumber
<1>4. PICK S \in B : n = Cardinality(S) BY <1>3
<1>5. IsFiniteSet(S) /\ Cardinality(S) \in Nat BY <1>1
<1>6. ASSUME NEW T \in SUBSET S, T # S, T \in B PROVE FALSE
  <2>1. Cardinality(T) <= Cardinality(S) /\ (Cardinality(S) = Cardinality(T) => S = T)
    BY <1>5, FS_Subset
  <2>2. Cardinality(T) \in N BY <1>6
  <2>3. Cardinality(T) \in Nat BY <1>1, <1>6
  <2> HIDE DEF N
  <2>4. n <= Cardinality(T) BY <1>3, <2>2
  <2> QED BY <1>4, <1>5, <1>6, <2>1, <2>3, <2>4
<1> QED BY <1>5, <1>6

\* The partial sums behind Total(f).
Pick(S) == CHOOSE x \in S : TRUE
SumStep(g, f, S) == IF S = {} THEN Zero ELSE Plus(f[Pick(S)], g[S \ {Pick(S)}])
IsSum(g, f) == g = [S \in SUBSET DOMAIN f |-> SumStep(g, f, S)]
\* g has the partial sums of f.
Sums(g, f) == \A S \in SUBSET DOMAIN f : g[S] = SumStep(g, f, S)
Upto(D, k) == {S \in SUBSET D : Cardinality(S) <= k}

\* Total is the last entry of a recursive function on sets.
LEMMA SumUnfolds ==
    ASSUME NEW f
    PROVE  Total(f) = (CHOOSE g : IsSum(g, f))[DOMAIN f]
BY Zenon DEF Total, FoldFunction, FoldFunctionOnSet, MapThenFoldSet, IsSum, SumStep, Pick

\* A set that is not empty has an element to start from.
LEMMA PickIn ==
    ASSUME NEW S, S # {}
    PROVE  Pick(S) \in S
BY DEF Pick

\* Without it the set is smaller.
LEMMA SmallerSet ==
    ASSUME NEW S, IsFiniteSet(S), S # {}
    PROVE  /\ Cardinality(S \ {Pick(S)}) = Cardinality(S) - 1
           /\ Cardinality(S) \in Nat /\ Cardinality(S) > 0
           /\ IsFiniteSet(S \ {Pick(S)})
<1>1. Pick(S) \in S BY PickIn
<1>2. Cardinality(S) \in Nat BY FS_CardinalityType
<1>3. Cardinality(S) # 0 BY FS_EmptySet
<1>4. IsFiniteSet(S \ {Pick(S)}) /\ Cardinality(S \ {Pick(S)}) = Cardinality(S) - 1
  BY <1>1, FS_RemoveElement
<1> QED BY <1>2, <1>3, <1>4

\* The partial sums of sets of up to k elements exist.
LEMMA PartialSums ==
    ASSUME NEW f, IsFiniteSet(DOMAIN f), NEW k \in Nat
    PROVE  \E g : g = [S \in Upto(DOMAIN f, k) |-> SumStep(g, f, S)]
<1> DEFINE D == DOMAIN f
           Bad == {n \in Nat : ~\E g : g = [S \in Upto(D, n) |-> SumStep(g, f, S)]}
<1> SUFFICES ASSUME Bad # {} PROVE FALSE OBVIOUS
<1>1. PICK n \in Bad : \A m \in Bad : n <= m
  <2>1. Bad \in SUBSET Nat OBVIOUS
  <2> HIDE DEF Bad
  <2> QED BY <2>1, LeastNumber
<1>2. \A S \in SUBSET D : IsFiniteSet(S) /\ Cardinality(S) \in Nat
  BY FS_Subset, FS_CardinalityType
<1>3. CASE n = 0
  <2>1. \A S \in Upto(D, 0) : S = {}
    <3> SUFFICES ASSUME NEW S \in Upto(D, 0) PROVE S = {} OBVIOUS
    <3>1. Cardinality(S) = 0 /\ IsFiniteSet(S) BY <1>2 DEF Upto
    <3> QED BY <3>1, FS_EmptySet
  <2> DEFINE g == [S \in Upto(D, 0) |-> Zero]
  <2>2. \A S \in Upto(D, 0) : SumStep(g, f, S) = Zero BY <2>1 DEF SumStep
  <2> HIDE DEF Bad
  <2>3. g = [S \in Upto(D, 0) |-> SumStep(g, f, S)] BY <2>2
  <2> HIDE DEF g
  <2>4. \E h : h = [S \in Upto(D, 0) |-> SumStep(h, f, S)] BY <2>3, Zenon
  <2> QED BY <1>1, <1>3, <2>4 DEF Bad
<1>4. CASE n # 0
  <2>1. n - 1 \in Nat /\ n - 1 \notin Bad
    <3>1. n \in Nat BY <1>1
    <3> HIDE DEF Bad
    <3> QED BY <1>1, <1>4, <3>1
  <2>2. PICK g : g = [S \in Upto(D, n - 1) |-> SumStep(g, f, S)] BY <2>1
  <2> DEFINE h == [S \in Upto(D, n) |-> SumStep(g, f, S)]
  <2>3. ASSUME NEW S \in Upto(D, n) PROVE SumStep(g, f, S) = SumStep(h, f, S)
    <3>1. CASE S = {} BY <3>1 DEF SumStep
    <3>2. CASE S # {}
      <4> DEFINE T == S \ {Pick(S)}
      <4>1. S \in SUBSET D /\ IsFiniteSet(S) /\ Cardinality(S) <= n BY <1>2 DEF Upto
      <4>2. T \in SUBSET D /\ Cardinality(T) = Cardinality(S) - 1 /\ Cardinality(S) \in Nat
        BY <3>2, <4>1, SmallerSet
      <4> HIDE DEF T
      <4>3. n \in Nat BY <1>1
      <4> HIDE DEF Bad
      <4>4. Cardinality(T) <= n - 1 /\ Cardinality(T) <= n BY <4>1, <4>2, <4>3
      <4>5. T \in Upto(D, n - 1) /\ T \in Upto(D, n) BY <4>2, <4>4 DEF Upto
      <4>6. g[T] = SumStep(g, f, T) BY <2>2, <4>5
      <4>7. h[T] = SumStep(g, f, T) BY <4>5
      <4> HIDE DEF h
      <4>8. g[T] = h[T] BY <4>6, <4>7
      <4> QED BY <3>2, <4>8 DEF SumStep, T
    <3> QED BY <3>1, <3>2
  <2>4. h = [S \in Upto(D, n) |-> SumStep(h, f, S)] BY <2>3
  <2> HIDE DEF h
  <2>5. \E e : e = [S \in Upto(D, n) |-> SumStep(e, f, S)] BY <2>4, Zenon
  <2> QED BY <1>1, <2>5
<1> QED BY <1>3, <1>4

\* Total(f) is the last of the partial sums.
LEMMA SumIs ==
    ASSUME NEW f, IsFiniteSet(DOMAIN f)
    PROVE  \E g : Total(f) = g[DOMAIN f] /\ Sums(g, f)
<1> DEFINE g == CHOOSE g : IsSum(g, f)
<1>1. Cardinality(DOMAIN f) \in Nat BY FS_CardinalityType
<1>2. Upto(DOMAIN f, Cardinality(DOMAIN f)) = SUBSET DOMAIN f
  <2>1. \A S \in SUBSET DOMAIN f : Cardinality(S) <= Cardinality(DOMAIN f) BY FS_Subset
  <2> QED BY <2>1 DEF Upto
<1>3. \E h : IsSum(h, f)
  <2>1. PICK h : h = [S \in Upto(DOMAIN f, Cardinality(DOMAIN f)) |-> SumStep(h, f, S)]
    BY <1>1, PartialSums
  <2>2. h = [S \in SUBSET DOMAIN f |-> SumStep(h, f, S)] BY <1>2, <2>1, Zenon
  <2>3. IsSum(h, f) BY <2>2, Zenon DEF IsSum
  <2> QED BY <2>3, Zenon
<1>4. IsSum(g, f) BY <1>3, Zenon
<1>5. Total(f) = g[DOMAIN f] BY SumUnfolds
<1> HIDE DEF g
<1>6. Sums(g, f) BY <1>4 DEF IsSum, Sums
<1> QED BY <1>5, <1>6

\* The sum of nothing.
LEMMA EmptySum ==
    ASSUME NEW f, DOMAIN f = {}
    PROVE  Total(f) = Zero
<1>1. IsFiniteSet(DOMAIN f) BY FS_EmptySet
<1>2. PICK g : Total(f) = g[DOMAIN f] /\ Sums(g, f)
  BY <1>1, SumIs
<1>3. g[DOMAIN f] = SumStep(g, f, DOMAIN f) BY <1>2 DEF Sums
<1> QED BY <1>2, <1>3 DEF SumStep

\* Addition is associative and commutative.
LEMMA PlusSwap ==
    ASSUME NEW x, NEW y, NEW z, IsFraction(x), IsFraction(y), IsFraction(z)
    PROVE  /\ Plus(x, Plus(y, z)) = Plus(y, Plus(x, z))
           /\ Plus(Plus(x, y), z) = Plus(x, Plus(y, z))
           /\ Plus(x, y) = Plus(y, x)
<1>0. PICK d \in Nat \ {0} : HasDen(x, d) /\ HasDen(y, d) /\ HasDen(z, d)
  BY CommonThree
<1>1. PICK n \in Int, m \in Int, k \in Int : x = Frac(n, d) /\ y = Frac(m, d) /\ z = Frac(k, d)
  BY <1>0, Zenon DEF HasDen
<1>2. m + k \in Int /\ n + k \in Int /\ n + m \in Int OBVIOUS
<1>3. /\ Plus(y, z) = Frac(m + k, d) /\ Plus(x, z) = Frac(n + k, d)
      /\ Plus(x, y) = Frac(n + m, d) /\ Plus(y, x) = Frac(m + n, d)
  BY <1>1, PlusFrac
<1>4. /\ Plus(x, Plus(y, z)) = Frac(n + (m + k), d)
      /\ Plus(y, Plus(x, z)) = Frac(m + (n + k), d)
      /\ Plus(Plus(x, y), z) = Frac((n + m) + k, d)
  BY <1>1, <1>2, <1>3, PlusFrac
<1>5. n + (m + k) = m + (n + k) /\ (n + m) + k = n + (m + k) /\ m + n = n + m OBVIOUS
<1> QED BY <1>3, <1>4, <1>5

\* A function all of whose values are fractions, and its partial sums.
Fractional(f) == IsFiniteSet(DOMAIN f) /\ \A x \in DOMAIN f : IsFraction(f[x])

\* Partial sums of fractions are fractions, and not negative if those are not.
LEMMA PartialFraction ==
    ASSUME NEW f, Fractional(f), NEW g, Sums(g, f)
    PROVE  /\ \A S \in SUBSET DOMAIN f : IsFraction(g[S])
           /\ (\A x \in DOMAIN f : NonNeg(f[x])) => \A S \in SUBSET DOMAIN f : NonNeg(g[S])
<1> DEFINE D == DOMAIN f
           Good(S) == IsFraction(g[S]) /\ ((\A x \in D : NonNeg(f[x])) => NonNeg(g[S]))
           Bad == {S \in SUBSET D : ~Good(S)}
<1> SUFFICES ASSUME Bad # {} PROVE FALSE OBVIOUS
<1>1. IsFiniteSet(D) BY DEF Fractional
<1>2. PICK S \in Bad : \A T \in SUBSET S : T # S => T \notin Bad
  <2>1. Bad \in SUBSET (SUBSET D) OBVIOUS
  <2> HIDE DEF Bad, D
  <2> QED BY <1>1, <2>1, LeastSet
<1>3. S \in SUBSET D /\ ~Good(S) /\ g[S] = SumStep(g, f, S) BY DEF Sums
<1>4. CASE S = {}
  <2>1. g[S] = Zero BY <1>3, <1>4 DEF SumStep
  <2>2. NonNeg(Zero) BY ZeroFrac, OrderType
  <2> QED BY <1>3, <2>1, <2>2, ZeroFrac
<1>5. CASE S # {}
  <2> DEFINE x == Pick(S)
             T == S \ {x}
  <2>1. x \in S BY <1>5, PickIn
  <2>2. T \in SUBSET D /\ T # S BY <1>3, <2>1
  <2>3. Good(T) BY <1>2, <2>2
  <2>4. g[S] = Plus(f[x], g[T]) BY <1>3, <1>5 DEF SumStep
  <2>5. x \in D /\ IsFraction(f[x]) BY <1>3, <2>1 DEF Fractional
  <2> HIDE DEF x, T, D
  <2>6. IsFraction(g[S]) BY <2>3, <2>4, <2>5, PlusType
  <2>7. (\A y \in D : NonNeg(f[y])) => NonNeg(g[S])
    <3> SUFFICES ASSUME \A y \in D : NonNeg(f[y]) PROVE NonNeg(g[S]) OBVIOUS
    <3>1. NonNeg(f[x]) /\ NonNeg(g[T]) BY <2>3, <2>5
    <3> QED BY <2>3, <2>4, <2>5, <3>1, PlusType
  <2> QED BY <1>3, <2>6, <2>7
<1> QED BY <1>4, <1>5

\* The sum of fractions is one.
LEMMA SumType ==
    ASSUME NEW f, Fractional(f)
    PROVE  /\ IsFraction(Total(f))
           /\ (\A x \in DOMAIN f : NonNeg(f[x])) => NonNeg(Total(f))
<1>1. IsFiniteSet(DOMAIN f) BY DEF Fractional
<1>2. PICK g : Total(f) = g[DOMAIN f] /\ Sums(g, f)
  BY <1>1, SumIs
<1> QED BY <1>2, PartialFraction

\* Any element may be added last.
SumsAnyway(g, f) ==
    \A S \in SUBSET DOMAIN f : \A x \in S : g[S] = Plus(f[x], g[S \ {x}])

\* Addition in any order.
LEMMA AnyLast ==
    ASSUME NEW f, Fractional(f), NEW g, Sums(g, f)
    PROVE  SumsAnyway(g, f)
<1> DEFINE D == DOMAIN f
           Good(U) == \A y \in U : g[U] = Plus(f[y], g[U \ {y}])
           Bad == {U \in SUBSET D : ~Good(U)}
<1> SUFFICES ASSUME Bad # {} PROVE FALSE BY DEF SumsAnyway
<1>1. IsFiniteSet(D) BY DEF Fractional
<1>2. PICK U \in Bad : \A T \in SUBSET U : T # U => T \notin Bad
  <2>1. Bad \in SUBSET (SUBSET D) OBVIOUS
  <2> HIDE DEF Bad, D
  <2> QED BY <1>1, <2>1, LeastSet
<1>3. PICK y \in U : g[U] # Plus(f[y], g[U \ {y}]) OBVIOUS
<1>4. U \in SUBSET D /\ U # {} /\ g[U] = SumStep(g, f, U) BY <1>3 DEF Sums
<1> DEFINE c == Pick(U)
           A == U \ {c}
           B == U \ {y}
           R == U \ {c, y}
<1>5. c \in U /\ g[U] = Plus(f[c], g[A]) BY <1>4, PickIn DEF SumStep
<1>6. c # y BY <1>3, <1>5
<1>7. /\ A \in SUBSET U /\ A # U /\ A \in SUBSET D /\ y \in A /\ A \ {y} = R
      /\ B \in SUBSET U /\ B # U /\ B \in SUBSET D /\ c \in B /\ B \ {c} = R
      /\ R \in SUBSET D
  BY <1>4, <1>5, <1>6
<1>8. Good(A) /\ Good(B) BY <1>2, <1>7
<1>9. g[A] = Plus(f[y], g[R]) /\ g[B] = Plus(f[c], g[R]) BY <1>7, <1>8
<1>10. IsFraction(f[c]) /\ IsFraction(f[y]) BY <1>4, <1>5 DEF Fractional
<1>11. IsFraction(g[R]) BY <1>7, PartialFraction
<1> HIDE DEF c, A, R, Bad, Good, D
<1>12. g[U] = Plus(f[y], g[B]) BY <1>5, <1>9, <1>10, <1>11, PlusSwap
<1> QED BY <1>3, <1>12

\* Partial sums do not depend on what is left out.
LEMMA PartialSame ==
    ASSUME NEW f, NEW h, IsFiniteSet(DOMAIN f), DOMAIN h \subseteq DOMAIN f,
           \A x \in DOMAIN h : h[x] = f[x],
           NEW g, Sums(g, f),
           NEW e, Sums(e, h)
    PROVE  \A S \in SUBSET DOMAIN h : e[S] = g[S]
<1> DEFINE D == DOMAIN h
           Bad == {S \in SUBSET D : e[S] # g[S]}
<1> SUFFICES ASSUME Bad # {} PROVE FALSE OBVIOUS
<1>1. IsFiniteSet(D) BY FS_Subset
<1>2. PICK S \in Bad : \A T \in SUBSET S : T # S => T \notin Bad
  <2>1. Bad \in SUBSET (SUBSET D) OBVIOUS
  <2> HIDE DEF Bad, D
  <2> QED BY <1>1, <2>1, LeastSet
<1>3. S \in SUBSET D /\ e[S] = SumStep(e, h, S) /\ g[S] = SumStep(g, f, S) BY DEF Sums
<1>4. CASE S = {} BY <1>2, <1>3, <1>4 DEF SumStep
<1>5. CASE S # {}
  <2> DEFINE x == Pick(S)
             T == S \ {x}
  <2>1. x \in S BY <1>5, PickIn
  <2>2. T \in SUBSET D /\ T # S BY <1>3, <2>1
  <2>3. e[T] = g[T] BY <1>2, <2>2
  <2>4. h[x] = f[x] BY <1>3, <2>1
  <2>5. e[S] = Plus(h[x], e[T]) /\ g[S] = Plus(f[x], g[T]) BY <1>3, <1>5 DEF SumStep
  <2> QED BY <1>2, <2>3, <2>4, <2>5
<1> QED BY <1>4, <1>5

\* One value and the rest.
LEMMA SumSplits ==
    ASSUME NEW f, Fractional(f), NEW x \in DOMAIN f
    PROVE  /\ Total(f) = Plus(f[x], Total([y \in DOMAIN f \ {x} |-> f[y]]))
           /\ Fractional([y \in DOMAIN f \ {x} |-> f[y]])
<1> DEFINE h == [y \in DOMAIN f \ {x} |-> f[y]]
<1>1. IsFiniteSet(DOMAIN f) BY DEF Fractional
<1>2. DOMAIN h = DOMAIN f \ {x} /\ \A y \in DOMAIN h : h[y] = f[y] OBVIOUS
<1> HIDE DEF h
<1>3. IsFiniteSet(DOMAIN h) BY <1>1, <1>2, FS_Subset
<1>4. PICK g : Total(f) = g[DOMAIN f] /\ Sums(g, f)
  BY <1>1, SumIs
<1>5. PICK e : Total(h) = e[DOMAIN h] /\ Sums(e, h)
  BY <1>3, SumIs
<1>6. \A S \in SUBSET DOMAIN h : e[S] = g[S] BY <1>1, <1>2, <1>4, <1>5, PartialSame
<1>7. g[DOMAIN f] = Plus(f[x], g[DOMAIN f \ {x}])
  <2>1. DOMAIN f \in SUBSET DOMAIN f OBVIOUS
  <2>2. SumsAnyway(g, f) BY <1>4, AnyLast
  <2> QED BY <2>1, <2>2 DEF SumsAnyway
<1>8. Total(h) = g[DOMAIN f \ {x}] BY <1>2, <1>5, <1>6
<1>9. Fractional(h) BY <1>2, <1>3 DEF Fractional
<1> QED BY <1>4, <1>7, <1>8, <1>9 DEF h

-----------------------------------------------------------------------------
(* Sound lots.                                                             *)

\* The order is transitive.
LEMMA OrderTrans ==
    ASSUME NEW x, NEW y, NEW z, IsFraction(x), IsFraction(y), IsFraction(z),
           AtMost(x, y), AtMost(y, z)
    PROVE  AtMost(x, z)
<1>1. PICK d \in Nat \ {0} : HasDen(x, d) /\ HasDen(y, d) /\ HasDen(z, d)
  BY CommonThree
<1>2. PICK n \in Int, m \in Int, k \in Int : x = Frac(n, d) /\ y = Frac(m, d) /\ z = Frac(k, d)
  BY <1>1, Zenon DEF HasDen
<1>3. ~(m < n) /\ ~(k < m) BY <1>2, LessFrac DEF AtMost
<1>4. ~(k < n) BY <1>3
<1> QED BY <1>2, <1>4, LessFrac DEF AtMost

\* A quotient by a fraction that is not negative.
LEMMA OverType ==
    ASSUME NEW x, NEW y, IsFraction(x), NonNeg(y)
    PROVE  IsFraction(Over(x, y)) /\ (NonNeg(x) => NonNeg(Over(x, y)))
<1>1. IsFraction(y) BY DEF NonNeg
<1>2. CASE y = Zero
  <2>1. NonNeg(Zero) /\ IsFraction(Zero) BY ZeroFrac, OrderType
  <2> QED BY <1>2, <2>1 DEF Over
<1>3. CASE y # Zero
  <2>1. Pos(y) BY <1>1, <1>3, OrderType
  <2> QED BY <2>1, OverIs
<1> QED BY <1>2, <1>3

-----------------------------------------------------------------------------
LotFields == {"id", "acct", "qty", "rem", "cost", "unit", "acquired", "purchase",
              "transfer", "sale", "closed", "pl", "wash"}

\* The lot of a purchase that was delivered without a quantity.
WithoutUnits(l) == \E t \in Transactions : t.id = l.purchase /\ t.qty = Zero

\* A lot the integrity check accepts, but for the exception.
Units0(l) == l.qty = Zero /\ l.rem = Zero
UnitsOf(l) == /\ Pos(l.qty) /\ NonNeg(l.rem) /\ AtMost(l.rem, l.qty)
              /\ l.rem = Zero <=> l.closed # None
              /\ l.cost = Times(l.unit, l.qty)

\* The transactions of T that a lot refers to.
LinkedIn(id, acct, kind, T) ==
    id = None \/ \E t \in T : t.id = id /\ t.acct = acct /\ t.kind = kind

SoundLot(l, T) ==
    /\ DOMAIN l = LotFields /\ l = [f \in LotFields |-> l[f]]
    /\ NonNeg(l.cost) /\ NonNeg(l.unit)
    /\ l.sale # None => IsFraction(l.pl)
    /\ LinkedIn(l.purchase, l.acct, "purchase", T)
    /\ LinkedIn(l.sale, l.acct, "sale", T)
    /\ l.transfer # None => \E t \in T : t.id = l.transfer /\ t.kind = "transfer"
    /\ WithoutUnits(l) => Units0(l)
    /\ ~WithoutUnits(l) => UnitsOf(l)

SoundLots(V, T) == IsFiniteSet(V) /\ \A l \in V : SoundLot(l, T)

\* What is assumed of a transaction.
LEMMA ShapeOf ==
    ASSUME NEW t \in Transactions
    PROVE  /\ t.id \in Nat /\ t.date \in Nat /\ t.id # None /\ t.date # None /\ t.kind \in Kinds
           /\ NonNeg(t.qty) /\ NonNeg(t.amount)
           /\ t.ratio # None => Pos(t.ratio)
           /\ \A u \in Transactions : t.id = u.id => t = u
<1>1. /\ None \notin Nat
      /\ t.id \in Nat /\ t.date \in Nat /\ t.kind \in Kinds
      /\ IsFraction(t.qty) /\ AtMost(Zero, t.qty)
      /\ IsFraction(t.amount) /\ AtMost(Zero, t.amount)
      /\ t.ratio = None \/ (IsFraction(t.ratio) /\ Less(Zero, t.ratio))
      /\ \A u \in Transactions : t.id = u.id => t = u
  BY TransactionShape, Zenon
<1>2. t.id # None /\ t.date # None BY <1>1
<1>3. NonNeg(t.qty) /\ NonNeg(t.amount) BY <1>1 DEF NonNeg
<1>4. t.ratio # None => Pos(t.ratio) BY <1>1 DEF Pos
<1> QED BY <1>1, <1>2, <1>3, <1>4

\* The fractions of a sound lot.
LEMMA LotParts ==
    ASSUME NEW T, NEW l, SoundLot(l, T)
    PROVE  /\ NonNeg(l.qty) /\ NonNeg(l.rem) /\ NonNeg(l.cost) /\ NonNeg(l.unit)
           /\ IsFraction(l.qty) /\ IsFraction(l.rem) /\ IsFraction(l.cost) /\ IsFraction(l.unit)
<1>1. NonNeg(Zero) BY ZeroFrac, OrderType
<1>2. NonNeg(l.qty) /\ NonNeg(l.rem)
  <2>1. CASE WithoutUnits(l) BY <1>1, <2>1 DEF SoundLot, Units0
  <2>2. CASE ~WithoutUnits(l)
    <3>1. Pos(l.qty) /\ NonNeg(l.rem) BY <2>2 DEF SoundLot, UnitsOf
    <3>2. IsFraction(l.qty) BY <3>1 DEF Pos
    <3>3. NonNeg(l.qty) BY <3>1, <3>2, OrderType
    <3> QED BY <3>1, <3>3
  <2> QED BY <2>1, <2>2
<1>3. NonNeg(l.cost) /\ NonNeg(l.unit) BY DEF SoundLot
<1> QED BY <1>2, <1>3 DEF NonNeg

\* Some units fewer, in an open lot that has them.
LEMMA FewerUnits ==
    ASSUME NEW T, NEW l, SoundLot(l, T), IsOpen(l), NEW q, NonNeg(q), AtMost(q, l.rem), q # Zero
    PROVE  /\ ~WithoutUnits(l)
           /\ NonNeg(Minus(l.rem, q)) /\ AtMost(Minus(l.rem, q), l.qty)
           /\ Minus(l.rem, q) = Zero <=> q = l.rem
<1>1. IsFraction(q) /\ IsFraction(l.rem) /\ IsFraction(l.qty) BY LotParts DEF NonNeg
<1>2. l.rem # Zero
  <2> SUFFICES ASSUME l.rem = Zero PROVE FALSE OBVIOUS
  <2>1. AtMost(q, Zero) /\ AtMost(Zero, q) BY DEF NonNeg
  <2>2. q = Zero BY <1>1, <2>1, ZeroFrac, OrderType
  <2> QED BY <2>2
<1>3. ~WithoutUnits(l) BY <1>2 DEF SoundLot, Units0
<1>4. /\ NonNeg(Minus(l.rem, q)) /\ IsFraction(Minus(l.rem, q))
      /\ AtMost(Minus(l.rem, q), l.rem)
      /\ Minus(l.rem, q) = Zero <=> l.rem = q
  BY <1>1, PlusType
<1>5. AtMost(l.rem, l.qty) BY <1>3 DEF SoundLot, UnitsOf
<1>6. AtMost(Minus(l.rem, q), l.qty) BY <1>1, <1>4, <1>5, OrderTrans
<1> QED BY <1>3, <1>4, <1>6

\* A lot with fewer units left, closed when there are none.
LEMMA LeftSound ==
    ASSUME NEW T, NEW l, SoundLot(l, T), IsOpen(l), NEW q, NonNeg(q), AtMost(q, l.rem), q # Zero,
           NEW m, DOMAIN m = LotFields, m = [f \in LotFields |-> m[f]],
           m.acct = l.acct, m.qty = l.qty, m.cost = l.cost, m.unit = l.unit,
           m.purchase = l.purchase, m.transfer = l.transfer,
           m.rem = Minus(l.rem, q),
           q = l.rem => m.closed # None,
           q # l.rem => m.closed = l.closed,
           m.sale # None => IsFraction(m.pl),
           LinkedIn(m.sale, m.acct, "sale", T)
    PROVE  SoundLot(m, T)
<1>1. /\ ~WithoutUnits(l)
      /\ NonNeg(m.rem) /\ AtMost(m.rem, m.qty)
      /\ m.rem = Zero <=> q = l.rem
  BY FewerUnits
<1>2. ~WithoutUnits(m) BY <1>1 DEF WithoutUnits
<1>3. l.closed = None BY DEF IsOpen
<1>4. m.rem = Zero <=> m.closed # None BY <1>1, <1>3
<1>5. Pos(m.qty) /\ m.cost = Times(m.unit, m.qty) BY <1>1 DEF SoundLot, UnitsOf
<1>6. UnitsOf(m) BY <1>1, <1>4, <1>5 DEF UnitsOf
<1> QED BY <1>2, <1>6 DEF SoundLot

\* match_sale_to_lots on one lot.
LEMMA SoldSound ==
    ASSUME NEW T \in SUBSET Transactions, NEW t \in T, t.kind = "sale",
           NEW l, SoundLot(l, T), IsOpen(l), l.acct = t.acct,
           NEW q, NonNeg(q), AtMost(q, l.rem)
    PROVE  SoundLot(SoldFrom(l, q, t), T)
<1> DEFINE m == SoldFrom(l, q, t)
           p == Times(q, Minus(Over(t.amount, t.qty), l.unit))
<1>1. CASE q = Zero BY <1>1 DEF SoldFrom
<1>2. CASE q # Zero /\ q = l.rem
  <2>1. m = [l EXCEPT !.rem = Zero, !.closed = t.date, !.sale = t.id, !.pl = p]
    BY <1>2, Zenon DEF SoldFrom
  <2>2. DOMAIN l = LotFields /\ l = [f \in LotFields |-> l[f]] BY DEF SoundLot
  <2>3. IsFraction(p)
    <3>1. IsFraction(t.amount) /\ NonNeg(t.qty) BY ShapeOf DEF NonNeg
    <3>2. IsFraction(l.unit) /\ IsFraction(q) BY LotParts DEF NonNeg
    <3>3. IsFraction(Over(t.amount, t.qty)) BY <3>1, OverType
    <3>4. IsFraction(Minus(Over(t.amount, t.qty), l.unit)) BY <3>2, <3>3, PlusType
    <3> QED BY <3>2, <3>4, TimesType
  <2> HIDE DEF p, m
  <2>4. /\ DOMAIN m = LotFields /\ m = [f \in LotFields |-> m[f]]
        /\ m.acct = l.acct /\ m.qty = l.qty /\ m.cost = l.cost /\ m.unit = l.unit
        /\ m.purchase = l.purchase /\ m.transfer = l.transfer
        /\ m.rem = Zero /\ m.closed = t.date /\ m.sale = t.id /\ m.pl = p
    BY <2>1, <2>2 DEF LotFields
  <2>5. LinkedIn(m.sale, m.acct, "sale", T) BY <2>4 DEF LinkedIn
  <2>6. m.rem = Minus(l.rem, q)
    <3>1. IsFraction(l.rem) BY LotParts
    <3> QED BY <1>2, <2>4, <3>1, PlusType
  <2>7. t.date # None BY ShapeOf
  <2>8. SoundLot(m, T) BY <1>2, <2>3, <2>4, <2>5, <2>6, <2>7, LeftSound
  <2> QED BY <2>8 DEF m
<1>3. CASE q # Zero /\ q # l.rem
  <2> DEFINE r == Minus(l.rem, q)
  <2>1. m = [l EXCEPT !.rem = r] BY <1>3 DEF SoldFrom
  <2>2. DOMAIN l = LotFields /\ l = [f \in LotFields |-> l[f]] BY DEF SoundLot
  <2> HIDE DEF r, m
  <2>3. /\ DOMAIN m = LotFields /\ m = [f \in LotFields |-> m[f]]
        /\ m.acct = l.acct /\ m.qty = l.qty /\ m.cost = l.cost /\ m.unit = l.unit
        /\ m.purchase = l.purchase /\ m.transfer = l.transfer
        /\ m.rem = r /\ m.closed = l.closed /\ m.sale = l.sale /\ m.pl = l.pl
    BY <2>1, <2>2 DEF LotFields
  <2>4. LinkedIn(m.sale, m.acct, "sale", T) /\ (m.sale # None => IsFraction(m.pl))
    BY <2>3 DEF SoundLot
  <2>5. SoundLot(m, T) BY <1>3, <2>3, <2>4, LeftSound DEF r
  <2> QED BY <2>5 DEF m
<1> QED BY <1>1, <1>2, <1>3

\* transfer_lots_to_destination on one lot.
LEMMA SentSound ==
    ASSUME NEW T \in SUBSET Transactions, NEW t \in T,
           NEW l, SoundLot(l, T), IsOpen(l),
           NEW q, NonNeg(q), AtMost(q, l.rem)
    PROVE  SoundLot(SentFrom(l, q, t), T)
<1> DEFINE m == SentFrom(l, q, t)
           r == Minus(l.rem, q)
           c == IF q = l.rem THEN t.date ELSE l.closed
<1>1. CASE q = Zero BY <1>1 DEF SentFrom
<1>2. CASE q # Zero
  <2>1. m = [l EXCEPT !.rem = r, !.closed = c] BY <1>2, Zenon DEF SentFrom
  <2>2. DOMAIN l = LotFields /\ l = [f \in LotFields |-> l[f]] BY DEF SoundLot
  <2>3. (q = l.rem => c # None) /\ (q # l.rem => c = l.closed) BY ShapeOf
  <2> HIDE DEF r, c, m
  <2>4. /\ DOMAIN m = LotFields /\ m = [f \in LotFields |-> m[f]]
        /\ m.acct = l.acct /\ m.qty = l.qty /\ m.cost = l.cost /\ m.unit = l.unit
        /\ m.purchase = l.purchase /\ m.transfer = l.transfer
        /\ m.rem = r /\ m.closed = c /\ m.sale = l.sale /\ m.pl = l.pl
    BY <2>1, <2>2 DEF LotFields
  <2>5. LinkedIn(m.sale, m.acct, "sale", T) /\ (m.sale # None => IsFraction(m.pl))
    BY <2>4 DEF SoundLot
  <2>6. SoundLot(m, T) BY <1>2, <2>3, <2>4, <2>5, LeftSound DEF r
  <2> QED BY <2>6 DEF m
<1> QED BY <1>1, <1>2

\* create_tax_lots_for_purchase.
LEMMA PurchaseSound ==
    ASSUME NEW T \in SUBSET Transactions, NEW t \in T, t.kind = "purchase", NEW id
    PROVE  SoundLot([Opened(id, t.acct, t.qty, t.amount, t.date) EXCEPT !.purchase = t.id], T)
<1> DEFINE u == Over(t.amount, t.qty)
           m == [Opened(id, t.acct, t.qty, t.amount, t.date) EXCEPT !.purchase = t.id]
<1>1. /\ t \in Transactions /\ t.id # None /\ NonNeg(t.qty) /\ NonNeg(t.amount)
      /\ \A v \in Transactions : t.id = v.id => t = v
  BY ShapeOf
<1>2. IsFraction(t.qty) /\ IsFraction(t.amount) BY <1>1 DEF NonNeg
<1>3. NonNeg(u) BY <1>1, <1>2, OverType
<1> DEFINE o == Opened(id, t.acct, t.qty, t.amount, t.date)
<1>4. /\ o = [id |-> id, acct |-> t.acct, qty |-> t.qty, rem |-> t.qty, cost |-> t.amount,
              unit |-> u, acquired |-> t.date, purchase |-> None,
              transfer |-> None, sale |-> None, closed |-> None, pl |-> None, wash |-> FALSE]
      /\ m = [o EXCEPT !.purchase = t.id]
  BY Zenon DEF Opened
<1> HIDE DEF u, m, o
<1>5. /\ DOMAIN m = LotFields /\ m = [f \in LotFields |-> m[f]]
      /\ m.acct = t.acct /\ m.qty = t.qty /\ m.rem = t.qty /\ m.cost = t.amount /\ m.unit = u
      /\ m.purchase = t.id /\ m.transfer = None /\ m.sale = None /\ m.closed = None
  BY <1>4 DEF LotFields
<1>6. LinkedIn(m.purchase, m.acct, "purchase", T) /\ LinkedIn(m.sale, m.acct, "sale", T)
  BY <1>5 DEF LinkedIn
<1>7. WithoutUnits(m) <=> t.qty = Zero BY <1>1, <1>5 DEF WithoutUnits
<1>8. WithoutUnits(m) => Units0(m) BY <1>5, <1>7 DEF Units0
<1>9. ~WithoutUnits(m) => UnitsOf(m)
  <2> SUFFICES ASSUME t.qty # Zero PROVE UnitsOf(m) BY <1>7
  <2>1. Pos(t.qty) /\ AtMost(t.qty, t.qty) BY <1>1, <1>2, OrderType
  <2>2. Times(u, t.qty) = t.amount BY <1>2, <2>1, OverIs DEF u
  <2> QED BY <1>1, <1>5, <2>1, <2>2 DEF UnitsOf
<1>10. SoundLot(m, T) BY <1>1, <1>3, <1>5, <1>6, <1>8, <1>9 DEF SoundLot
<1> QED BY <1>10 DEF m

\* The lot that arrives.
LEMMA ArrivedSound ==
    ASSUME NEW T \in SUBSET Transactions, NEW d \in T, d.kind = "transfer",
           NEW l, SoundLot(l, T), NEW q, NonNeg(q), q # Zero, NEW id
    PROVE  SoundLot(Arrived(l, q, d, id), T)
<1> DEFINE c == Times(q, l.unit)
           m == Arrived(l, q, d, id)
<1>1. IsFraction(q) /\ IsFraction(l.unit) /\ NonNeg(l.unit) BY LotParts DEF NonNeg
<1>2. NonNeg(c) /\ c = Times(l.unit, q) BY <1>1, TimesType
<1>3. Pos(q) /\ AtMost(q, q) BY <1>1, OrderType
<1> DEFINE o == Opened(id, d.acct, q, c, l.acquired)
           u == Over(c, q)
<1>4. /\ o = [id |-> id, acct |-> d.acct, qty |-> q, rem |-> q, cost |-> c,
              unit |-> u, acquired |-> l.acquired, purchase |-> None,
              transfer |-> None, sale |-> None, closed |-> None, pl |-> None, wash |-> FALSE]
      /\ m = [o EXCEPT !.unit = l.unit, !.transfer = d.id]
  BY Zenon DEF Opened, Arrived
<1> HIDE DEF c, m, o, u
<1>5. /\ DOMAIN m = LotFields /\ m = [f \in LotFields |-> m[f]]
      /\ m.qty = q /\ m.rem = q /\ m.cost = c /\ m.unit = l.unit
      /\ m.purchase = None /\ m.transfer = d.id /\ m.sale = None /\ m.closed = None
  BY <1>4 DEF LotFields
<1>6. LinkedIn(m.purchase, m.acct, "purchase", T) /\ LinkedIn(m.sale, m.acct, "sale", T)
  BY <1>5 DEF LinkedIn
<1>7. ~WithoutUnits(m)
  <2>1. \A t \in Transactions : t.id # None BY ShapeOf
  <2> QED BY <1>5, <2>1 DEF WithoutUnits
<1>8. UnitsOf(m) BY <1>2, <1>3, <1>5 DEF UnitsOf
<1>9. SoundLot(m, T) BY <1>1, <1>2, <1>5, <1>6, <1>7, <1>8 DEF SoundLot
<1> QED BY <1>9 DEF m

\* apply_quantity_event_to_lots on one lot.
LEMMA RescaledSound ==
    ASSUME NEW T, NEW l, SoundLot(l, T), NEW r, Pos(r)
    PROVE  SoundLot(Rescaled(l, r), T)
<1> DEFINE m == Rescaled(l, r)
           a == Times(l.qty, r)
           b == Times(l.rem, r)
           u == Over(l.unit, r)
<1>1. m = [l EXCEPT !.qty = a, !.rem = b, !.unit = u] BY Zenon DEF Rescaled
<1>2. DOMAIN l = LotFields /\ l = [f \in LotFields |-> l[f]] BY DEF SoundLot
<1>3. /\ IsFraction(l.qty) /\ IsFraction(l.rem) /\ IsFraction(l.unit) /\ IsFraction(r)
      /\ NonNeg(l.rem) /\ NonNeg(l.unit) /\ NonNeg(r)
  <2>1. IsFraction(r) BY DEF Pos
  <2>2. NonNeg(r) BY <2>1, OrderType
  <2> QED BY <2>1, <2>2, LotParts
<1>4. NonNeg(u) /\ \A z : IsFraction(z) => Times(u, Times(z, r)) = Times(l.unit, z)
  BY <1>3, OverIs
<1> HIDE DEF m, u
<1>5. Times(u, a) = Times(l.unit, l.qty) BY <1>3, <1>4
<1>6. NonNeg(b) /\ (a = Zero <=> l.qty = Zero) /\ (b = Zero <=> l.rem = Zero)
      /\ (Pos(l.qty) => Pos(a))
  BY <1>3, TimesType
<1>7. AtMost(l.rem, l.qty) => AtMost(b, a) BY <1>3, TimesOrder
<1> HIDE DEF a, b
<1>8. /\ DOMAIN m = LotFields /\ m = [f \in LotFields |-> m[f]]
      /\ m.acct = l.acct /\ m.qty = a /\ m.rem = b /\ m.cost = l.cost /\ m.unit = u
      /\ m.purchase = l.purchase /\ m.transfer = l.transfer /\ m.sale = l.sale
      /\ m.closed = l.closed /\ m.pl = l.pl
  BY <1>1, <1>2 DEF LotFields
<1>9. WithoutUnits(m) <=> WithoutUnits(l) BY <1>8 DEF WithoutUnits
<1>10. WithoutUnits(m) => Units0(m) BY <1>6, <1>8, <1>9 DEF SoundLot, Units0
<1>11. ~WithoutUnits(m) => UnitsOf(m)
  BY <1>5, <1>6, <1>7, <1>8, <1>9 DEF SoundLot, UnitsOf
<1>12. SoundLot(m, T) BY <1>4, <1>8, <1>10, <1>11 DEF SoundLot
<1> QED BY <1>12 DEF m

\* A lot that takes up a disallowed loss.
LEMMA WashSound ==
    ASSUME NEW T, NEW l, SoundLot(l, T), NEW c, NonNeg(c)
    PROVE  SoundLot([l EXCEPT !.cost = c, !.unit = Over(c, l.qty), !.wash = TRUE], T)
<1> DEFINE u == Over(c, l.qty)
           m == [l EXCEPT !.cost = c, !.unit = u, !.wash = TRUE]
<1>1. DOMAIN l = LotFields /\ l = [f \in LotFields |-> l[f]] BY DEF SoundLot
<1>2. IsFraction(c) /\ NonNeg(l.qty) BY LotParts DEF NonNeg
<1>3. NonNeg(u) BY <1>2, OverType
<1>4. Pos(l.qty) => Times(u, l.qty) = c BY <1>2, OverIs
<1> HIDE DEF u
<1>5. /\ DOMAIN m = LotFields /\ m = [f \in LotFields |-> m[f]]
      /\ m.acct = l.acct /\ m.qty = l.qty /\ m.rem = l.rem /\ m.cost = c /\ m.unit = u
      /\ m.purchase = l.purchase /\ m.transfer = l.transfer /\ m.sale = l.sale
      /\ m.closed = l.closed /\ m.pl = l.pl
  BY <1>1 DEF LotFields
<1> HIDE DEF m
<1>6. WithoutUnits(m) <=> WithoutUnits(l) BY <1>5 DEF WithoutUnits
<1>7. WithoutUnits(m) => Units0(m) BY <1>5, <1>6 DEF SoundLot, Units0
<1>8. ~WithoutUnits(m) => UnitsOf(m) BY <1>4, <1>5, <1>6 DEF SoundLot, UnitsOf
<1>9. SoundLot(m, T) BY <1>3, <1>5, <1>7, <1>8 DEF SoundLot
<1> QED BY <1>9 DEF m, u

-----------------------------------------------------------------------------
\* A loop takes from a lot no more than it has.
LEMMA TakenBounds ==
    ASSUME NEW n \in Nat, NEW cap, DOMAIN cap = 1 .. n, \A j \in 1 .. n : NonNeg(cap[j]),
           NEW need, IsFraction(need), NEW i \in 1 .. n
    PROVE  /\ IsFraction(Before(cap, i)) /\ NonNeg(Before(cap, i))
           /\ NonNeg(Taken(cap, need)[i]) /\ AtMost(Taken(cap, need)[i], cap[i])
<1> DEFINE f == [j \in 1 .. (i - 1) |-> cap[j]]
           b == Before(cap, i)
           w == Greater(Zero, Minus(need, b))
<1>1. DOMAIN f = 1 .. (i - 1) /\ \A j \in DOMAIN f : NonNeg(f[j])
  <2>1. \A j \in 1 .. (i - 1) : j \in 1 .. n OBVIOUS
  <2>2. \A j \in 1 .. (i - 1) : NonNeg(cap[j]) BY <2>1
  <2>3. DOMAIN f = 1 .. (i - 1) BY Zenon
  <2>4. \A j \in 1 .. (i - 1) : f[j] = cap[j] BY Zenon
  <2> HIDE DEF f
  <2> QED BY <2>2, <2>3, <2>4
<1>2. IsFiniteSet(1 .. (i - 1)) BY FS_Interval
<1>3. b = Total(f) BY DEF Before
<1> HIDE DEF f, b
<1>4. Fractional(f) BY <1>1, <1>2 DEF Fractional, NonNeg
<1>5. IsFraction(b) /\ NonNeg(b)
  <2>1. \A x \in DOMAIN f : NonNeg(f[x]) BY <1>1
  <2>2. IsFraction(Total(f)) /\ NonNeg(Total(f)) BY <1>4, <2>1, SumType, Zenon
  <2> QED BY <1>3, <2>2, Zenon
<1>6. IsFraction(Minus(need, b)) BY <1>5, PlusType
<1>7. IsFraction(Zero) /\ NonNeg(Zero) BY ZeroFrac, OrderType
<1>8. NonNeg(w) /\ IsFraction(w) BY <1>6, <1>7, OrderType
<1> HIDE DEF w
<1>9. NonNeg(cap[i]) /\ IsFraction(cap[i]) BY DEF NonNeg
<1>10. NonNeg(Lesser(cap[i], w)) /\ AtMost(Lesser(cap[i], w), cap[i]) BY <1>8, <1>9, OrderType
<1>11. Taken(cap, need)[i] = Lesser(cap[i], w) BY DEF Taken, w, b
<1> QED BY <1>5, <1>10, <1>11 DEF b

\* The range of a function with a finite domain is finite.
LEMMA FiniteRange ==
    ASSUME NEW r, IsFiniteSet(DOMAIN r), r = [i \in DOMAIN r |-> r[i]]
    PROVE  IsFiniteSet({r[i] : i \in DOMAIN r})
<1> DEFINE R == {r[i] : i \in DOMAIN r}
<1>1. r \in [DOMAIN r -> R] OBVIOUS
<1>2. \A y \in R : \E i \in DOMAIN r : r[i] = y OBVIOUS
<1> HIDE DEF R
<1>3. r \in Surjection(DOMAIN r, R) BY <1>1, <1>2 DEF Surjection
<1>4. IsFiniteSet(R) BY <1>3, FS_Surjection
<1> QED BY <1>4 DEF R

\* The order of a finite set of lots.
LEMMA FifoSeq ==
    ASSUME NEW S, IsFiniteSet(S), NEW s \in Fifo(S)
    PROVE  \E n \in Nat : DOMAIN s = 1 .. n /\ \A i \in 1 .. n : s[i] \in S
<1>1. Cardinality(S) \in Nat BY FS_CardinalityType
<1>2. DOMAIN s = 1 .. Cardinality(S) BY DEF Fifo, SetToSeqs
<1>3. \A i \in DOMAIN s : s[i] \in S BY FifoOf
<1> QED BY <1>1, <1>2, <1>3

\* Lots that are written again.
LEMMA ReplacedSound ==
    ASSUME NEW T, NEW V, SoundLots(V, T), NEW s, NEW n \in Nat, NEW r,
           r = [i \in 1 .. n |-> r[i]], DOMAIN r = 1 .. n,
           \A i \in 1 .. n : SoundLot(r[i], T)
    PROVE  SoundLots(Replaced(V, s, r), T)
<1> DEFINE R == {r[i] : i \in DOMAIN r}
<1>1. IsFiniteSet(DOMAIN r) BY FS_Interval
<1>2. IsFiniteSet(R) BY <1>1, FiniteRange
<1>3. Replaced(V, s, r) = (V \ ToSet(s)) \cup R BY DEF Replaced, ToSet
<1>4. \A l \in R : SoundLot(l, T) OBVIOUS
<1> HIDE DEF R
<1>5. IsFiniteSet(V) /\ \A l \in V : SoundLot(l, T) BY DEF SoundLots
<1>6. IsFiniteSet(V \ ToSet(s)) BY <1>5, FS_Subset
<1>7. IsFiniteSet((V \ ToSet(s)) \cup R) BY <1>2, <1>6, FS_Union
<1> QED BY <1>3, <1>4, <1>5, <1>7 DEF SoundLots

-----------------------------------------------------------------------------
\* What a loop over the open lots of an account takes from each.
LEMMA TakenFrom ==
    ASSUME NEW T, NEW V, SoundLots(V, T), NEW a, NEW need, IsFraction(need),
           NEW s \in Fifo(OpenLots(V, a)), NEW n \in Nat, DOMAIN s = 1 .. n, NEW i \in 1 .. n
    PROVE  /\ s[i] \in V /\ s[i].acct = a /\ IsOpen(s[i]) /\ SoundLot(s[i], T)
           /\ NonNeg(Taken(Caps(s), need)[i]) /\ AtMost(Taken(Caps(s), need)[i], s[i].rem)
<1> DEFINE cap == Caps(s)
<1>1. \A j \in 1 .. n : s[j] \in V /\ s[j].acct = a /\ IsOpen(s[j]) BY FifoOf DEF OpenLots
<1>2. \A j \in 1 .. n : SoundLot(s[j], T) BY <1>1 DEF SoundLots
<1>3. \A j \in 1 .. n : NonNeg(s[j].rem) BY <1>2, LotParts
<1>4. DOMAIN cap = 1 .. n /\ \A j \in 1 .. n : cap[j] = s[j].rem BY Zenon DEF Caps
<1> HIDE DEF cap
<1>5. \A j \in 1 .. n : NonNeg(cap[j]) BY <1>3, <1>4
<1>6. NonNeg(Taken(cap, need)[i]) /\ AtMost(Taken(cap, need)[i], cap[i])
  BY <1>4, <1>5, TakenBounds
<1> QED BY <1>1, <1>2, <1>4, <1>6 DEF cap

\* match_sale_to_lots.
LEMMA MatchedSound ==
    ASSUME NEW T \in SUBSET Transactions, NEW V, SoundLots(V, T),
           NEW t \in T, t.kind = "sale", NEW s \in Fifo(OpenLots(V, t.acct))
    PROVE  SoundLots(Matched(V, t, s).lots, T)
<1> DEFINE q == Taken(Caps(s), t.qty)
           sold == [i \in DOMAIN s |-> SoldFrom(s[i], q[i], t)]
<1>1. IsFiniteSet(OpenLots(V, t.acct))
  <2>1. OpenLots(V, t.acct) \subseteq V BY DEF OpenLots
  <2> QED BY <2>1, FS_Subset DEF SoundLots
<1>2. PICK n \in Nat : DOMAIN s = 1 .. n BY <1>1, FifoSeq
<1>3. IsFraction(t.qty) BY ShapeOf DEF NonNeg
<1>4. \A i \in 1 .. n : SoundLot(SoldFrom(s[i], q[i], t), T)
  <2> SUFFICES ASSUME NEW i \in 1 .. n PROVE SoundLot(SoldFrom(s[i], q[i], t), T) OBVIOUS
  <2>1. /\ s[i].acct = t.acct /\ IsOpen(s[i]) /\ SoundLot(s[i], T)
        /\ NonNeg(q[i]) /\ AtMost(q[i], s[i].rem)
    BY <1>2, <1>3, TakenFrom
  <2> HIDE DEF q
  <2> QED BY <2>1, SoldSound
<1>5. Matched(V, t, s).lots = Replaced(V, s, sold) BY Zenon DEF Matched, Outcome
<1> HIDE DEF q
<1>6. DOMAIN sold = 1 .. n /\ sold = [i \in 1 .. n |-> sold[i]]
      /\ \A i \in 1 .. n : SoundLot(sold[i], T)
  BY <1>2, <1>4
<1> HIDE DEF sold
<1>7. SoundLots(Replaced(V, s, sold), T) BY <1>6, ReplacedSound
<1> QED BY <1>5, <1>7

\* The loss of a sale is not negative.
LEMMA LossIs ==
    ASSUME NEW T, NEW W, SoundLots(W, T), NEW t
    PROVE  NonNeg(LossOf(W, t)) /\ IsFraction(LossOf(W, t))
<1> DEFINE S == {m \in W : m.sale # None /\ Row(m.sale) = t.row}
           f == [l \in S |-> Greater(Zero, Neg(l.pl))]
<1>1. IsFiniteSet(S)
  <2>1. S \subseteq W OBVIOUS
  <2> QED BY <2>1, FS_Subset DEF SoundLots
<1>2. \A l \in S : NonNeg(Greater(Zero, Neg(l.pl))) /\ IsFraction(Greater(Zero, Neg(l.pl)))
  <2> SUFFICES ASSUME NEW l \in S
               PROVE  /\ NonNeg(Greater(Zero, Neg(l.pl)))
                      /\ IsFraction(Greater(Zero, Neg(l.pl)))
    OBVIOUS
  <2>1. IsFraction(l.pl) BY DEF SoundLots, SoundLot
  <2>2. IsFraction(Neg(l.pl)) BY <2>1, PlusType
  <2>3. IsFraction(Zero) /\ NonNeg(Zero) BY ZeroFrac, OrderType
  <2> QED BY <2>2, <2>3, OrderType
<1>3. LossOf(W, t) = Total(f) BY Zenon DEF LossOf
<1> HIDE DEF S
<1>4. DOMAIN f = S /\ \A l \in S : NonNeg(f[l]) /\ IsFraction(f[l]) BY <1>2
<1> HIDE DEF f
<1>5. Fractional(f) /\ \A x \in DOMAIN f : NonNeg(f[x]) BY <1>1, <1>4 DEF Fractional
<1>6. NonNeg(Total(f)) /\ IsFraction(Total(f)) BY <1>5, SumType
<1> QED BY <1>3, <1>6, Zenon

\* detect_and_adjust_wash_sales.
LEMMA WashedSound ==
    ASSUME NEW T, NEW W, SoundLots(W, T), NEW t, NEW loss, IsFraction(loss),
           NEW r \in Fifo(Replacements(W, t))
    PROVE  SoundLots(WashAdjusted(W, r, loss), T)
<1> DEFINE cap == Costs(r)
           cost == [i \in DOMAIN r |-> Plus(r[i].cost, Taken(Costs(r), loss)[i])]
           wash == [i \in DOMAIN r |->
                      IF AtMost(loss, Before(Costs(r), i)) THEN r[i]
                      ELSE [r[i] EXCEPT !.cost = cost[i], !.unit = Over(cost[i], r[i].qty),
                                        !.wash = TRUE]]
<1>1. IsFiniteSet(Replacements(W, t))
  <2>1. Replacements(W, t) \subseteq W BY DEF Replacements, OpenLots
  <2> QED BY <2>1, FS_Subset DEF SoundLots
<1>2. PICK n \in Nat : DOMAIN r = 1 .. n BY <1>1, FifoSeq
<1>3. \A j \in 1 .. n : r[j] \in W BY <1>2, FifoOf DEF Replacements, OpenLots
<1>4. \A j \in 1 .. n : SoundLot(r[j], T) BY <1>3 DEF SoundLots
<1>5. \A j \in 1 .. n : NonNeg(r[j].cost) BY <1>4, LotParts
<1>6. DOMAIN cap = 1 .. n /\ \A j \in 1 .. n : cap[j] = r[j].cost BY <1>2, Zenon DEF Costs
<1>7. \A i \in 1 .. n : NonNeg(cost[i])
  <2> SUFFICES ASSUME NEW i \in 1 .. n PROVE NonNeg(cost[i]) OBVIOUS
  <2> DEFINE k == Taken(cap, loss)[i]
  <2>1. cost[i] = Plus(r[i].cost, k) BY <1>2, Zenon
  <2> HIDE DEF cap
  <2>2. \A j \in 1 .. n : NonNeg(cap[j]) BY <1>5, <1>6
  <2>3. NonNeg(k) BY <1>6, <2>2, TakenBounds
  <2> HIDE DEF k, cost
  <2>4. NonNeg(r[i].cost) BY <1>5
  <2>5. IsFraction(k) /\ IsFraction(r[i].cost) BY <2>3, <2>4 DEF NonNeg
  <2>6. NonNeg(Plus(r[i].cost, k)) BY <2>3, <2>4, <2>5, PlusType
  <2> QED BY <2>1, <2>6
<1>8. WashAdjusted(W, r, loss) = Replaced(W, r, wash) BY Zenon DEF WashAdjusted
<1> HIDE DEF cap, cost
<1>9. ASSUME NEW i \in 1 .. n PROVE SoundLot(wash[i], T)
  <2> DEFINE k == r[i]
             c == cost[i]
  <2>1. wash[i] = k \/ wash[i] = [k EXCEPT !.cost = c, !.unit = Over(c, k.qty), !.wash = TRUE]
    BY <1>2, Zenon
  <2>2. SoundLot(k, T) /\ NonNeg(c) BY <1>4, <1>7
  <2> HIDE DEF k, c, wash
  <2>3. SoundLot([k EXCEPT !.cost = c, !.unit = Over(c, k.qty), !.wash = TRUE], T)
    BY <2>2, WashSound, Zenon
  <2>4. CASE wash[i] = k BY <2>2, <2>4, Zenon
  <2>5. CASE wash[i] = [k EXCEPT !.cost = c, !.unit = Over(c, k.qty), !.wash = TRUE]
    BY <2>3, <2>5, Zenon
  <2> QED BY <2>1, <2>4, <2>5, Zenon
<1>10. DOMAIN wash = 1 .. n /\ wash = [i \in 1 .. n |-> wash[i]]
  <2>1. DOMAIN wash = DOMAIN r BY Zenon
  <2>2. wash = [i \in DOMAIN wash |-> wash[i]] BY Zenon
  <2> HIDE DEF wash
  <2> QED BY <1>2, <2>1, <2>2, Zenon
<1> HIDE DEF wash
<1>11. SoundLots(Replaced(W, r, wash), T) BY <1>9, <1>10, ReplacedSound
<1> QED BY <1>8, <1>11, Zenon

\* A sale.
LEMMA SoldOutSound ==
    ASSUME NEW T \in SUBSET Transactions, NEW V, SoundLots(V, T),
           NEW t \in T, t.kind = "sale", NEW o \in Sold(V, t)
    PROVE  SoundLots(o.lots, T)
<1>0. SaleOf(V, t, o) BY SaleIs
<1>1. PICK s \in Fifo(OpenLots(V, t.acct)) :
        o \in {Washed(Matched(V, t, s), r, LossOf(Matched(V, t, s).lots, t)) :
                   r \in Fifo(Replacements(Matched(V, t, s).lots, t))}
  BY <1>0, Zenon DEF SaleOf
<1> DEFINE m == Matched(V, t, s)
           loss == LossOf(m.lots, t)
<1>2. PICK r \in Fifo(Replacements(m.lots, t)) : o = Washed(m, r, loss) BY <1>1, Zenon
<1>3. SoundLots(m.lots, T) BY MatchedSound
<1>4. o.lots = WashAdjusted(m.lots, r, loss) BY <1>2, Zenon DEF Washed, Outcome
<1>6. IsFraction(loss) BY <1>3, LossIs
<1> HIDE DEF m, loss
<1>7. SoundLots(WashAdjusted(m.lots, r, loss), T) BY <1>3, <1>6, WashedSound
<1> QED BY <1>4, <1>7

\* A transfer.
LEMMA TransferredSound ==
    ASSUME NEW T \in SUBSET Transactions, NEW V, SoundLots(V, T),
           NEW t \in T, NEW d \in T, d.kind = "transfer", NEW g,
           NEW o \in Transferred(V, t, d, g)
    PROVE  SoundLots(o.lots, T)
<1>1. PICK s \in Fifo(OpenLots(V, t.acct)) : o = Moved(V, t, d, g, s) BY Zenon DEF Transferred
<1> DEFINE q == Taken(Caps(s), t.qty)
           sent == [i \in DOMAIN s |-> SentFrom(s[i], q[i], t)]
           places == {k \in DOMAIN s : q[k] # Zero}
           come == [i \in places |-> Arrived(s[i], q[i], d, <<g, d.id, i>>)]
           new == {come[i] : i \in DOMAIN come}
<1>2. o.lots = Replaced(V, s, sent)
                   \cup {Arrived(s[i], q[i], d, <<g, d.id, i>>) : i \in places}
  BY <1>1, Zenon DEF Moved, Outcome
<1>3. IsFiniteSet(OpenLots(V, t.acct))
  <2>1. OpenLots(V, t.acct) \subseteq V BY DEF OpenLots
  <2> QED BY <2>1, FS_Subset DEF SoundLots
<1>4. PICK n \in Nat : DOMAIN s = 1 .. n BY <1>3, FifoSeq
<1>5. IsFraction(t.qty) BY ShapeOf DEF NonNeg
<1>6. \A i \in 1 .. n : /\ IsOpen(s[i]) /\ SoundLot(s[i], T)
                        /\ NonNeg(q[i]) /\ AtMost(q[i], s[i].rem)
  BY <1>4, <1>5, TakenFrom
<1> HIDE DEF q
<1>7. \A i \in 1 .. n : SoundLot(SentFrom(s[i], q[i], t), T)
  <2> SUFFICES ASSUME NEW i \in 1 .. n PROVE SoundLot(SentFrom(s[i], q[i], t), T) OBVIOUS
  <2>1. /\ IsOpen(s[i]) /\ SoundLot(s[i], T) /\ NonNeg(q[i]) /\ AtMost(q[i], s[i].rem) BY <1>6
  <2> QED BY <2>1, SentSound
<1>8. DOMAIN sent = 1 .. n /\ sent = [i \in 1 .. n |-> sent[i]]
      /\ \A i \in 1 .. n : SoundLot(sent[i], T)
  BY <1>4, <1>7
<1> HIDE DEF sent
<1>9. SoundLots(Replaced(V, s, sent), T) BY <1>8, ReplacedSound
<1>10. ASSUME NEW i \in places PROVE SoundLot(come[i], T)
  <2>1. i \in 1 .. n /\ q[i] # Zero BY <1>4
  <2>2. SoundLot(s[i], T) /\ NonNeg(q[i]) BY <1>6, <2>1
  <2>3. come[i] = Arrived(s[i], q[i], d, <<g, d.id, i>>) BY Zenon
  <2> HIDE DEF come, places
  <2>4. SoundLot(Arrived(s[i], q[i], d, <<g, d.id, i>>), T)
    BY <2>1, <2>2, ArrivedSound
  <2> QED BY <2>3, <2>4
<1>11. IsFiniteSet(places)
  <2>1. places \subseteq 1 .. n BY <1>4
  <2>2. IsFiniteSet(1 .. n) BY FS_Interval
  <2> QED BY <2>1, <2>2, FS_Subset
<1>12. new = {Arrived(s[i], q[i], d, <<g, d.id, i>>) : i \in places} BY Zenon
<1>13. DOMAIN come = places /\ come = [i \in DOMAIN come |-> come[i]] BY Zenon
<1> HIDE DEF come, places
<1>14. IsFiniteSet(new) BY <1>11, <1>13, FiniteRange
<1>15. \A l \in new : SoundLot(l, T) BY <1>10, <1>13
<1> HIDE DEF new
<1>16. IsFiniteSet(Replaced(V, s, sent) \cup new) BY <1>9, <1>14, FS_Union DEF SoundLots
<1>17. SoundLots(Replaced(V, s, sent) \cup new, T) BY <1>9, <1>15, <1>16 DEF SoundLots
<1> QED BY <1>2, <1>12, <1>17

\* A quantity event.
LEMMA QuantitySound ==
    ASSUME NEW T, NEW V, SoundLots(V, T), NEW t, Pos(t.ratio), NEW o \in QuantityChanged(V, t)
    PROVE  SoundLots(o.lots, T)
<1> DEFINE open == OpenLots(V, t.acct)
           again == [l \in open |-> Rescaled(l, t.ratio)]
           new == {again[l] : l \in DOMAIN again}
           W == (V \ open) \cup {Rescaled(l, t.ratio) : l \in open}
<1>0. o = Outcome(W, Zero, Zero) BY Zenon DEF QuantityChanged
<1> HIDE DEF W
<1>1. o.lots = (V \ open) \cup {Rescaled(l, t.ratio) : l \in open} BY <1>0 DEF Outcome, W
<1>2. open \subseteq V BY DEF OpenLots
<1>3. IsFiniteSet(open) /\ IsFiniteSet(V \ open) BY <1>2, FS_Subset DEF SoundLots
<1> HIDE DEF open
<1>4. DOMAIN again = open /\ again = [l \in DOMAIN again |-> again[l]] BY Zenon
<1>5. ASSUME NEW l \in open PROVE SoundLot(again[l], T)
  <2>1. SoundLot(l, T) BY <1>2 DEF SoundLots
  <2>2. SoundLot(Rescaled(l, t.ratio), T) BY <2>1, RescaledSound
  <2> QED BY <2>2
<1>6. new = {Rescaled(l, t.ratio) : l \in open} BY Zenon
<1> HIDE DEF again
<1>7. IsFiniteSet(new) BY <1>3, <1>4, FiniteRange
<1>8. \A l \in new : SoundLot(l, T) BY <1>4, <1>5
<1> HIDE DEF new
<1>9. IsFiniteSet((V \ open) \cup new) BY <1>3, <1>7, FS_Union
<1> QED BY <1>1, <1>6, <1>8, <1>9 DEF SoundLots

\* process_transaction keeps sound lots sound.
LEMMA OutcomeSound ==
    ASSUME NEW T \in SUBSET Transactions, NEW V, SoundLots(V, T), NEW R \in SUBSET T,
           NEW t \in T, NEW g, NEW o \in Outcomes(V, R, t, g)
    PROVE  SoundLots(o.lots, T)
<1>1. t \in Transactions /\ t.kind \in Kinds BY ShapeOf
<1>2. \A x \in Unaffected(V) : x.lots = V BY DEF Unaffected, Outcome
<1>3. CASE t.kind = "purchase"
  <2> DEFINE l == [Opened(<<g, t.id, 0>>, t.acct, t.qty, t.amount, t.date)
                      EXCEPT !.purchase = t.id]
             W == V \cup {l}
  <2>1. o \in Purchased(V, t, g) BY <1>3 DEF Outcomes
  <2>2. o = Outcome(W, Zero, Zero) BY <2>1, Zenon DEF Purchased
  <2>3. SoundLot(l, T) BY <1>3, PurchaseSound
  <2> HIDE DEF l
  <2>4. IsFiniteSet({l}) BY FS_Singleton
  <2>5. IsFiniteSet(W) BY <2>4, FS_Union DEF SoundLots
  <2>6. SoundLots(W, T) BY <2>3, <2>5 DEF SoundLots
  <2> HIDE DEF W
  <2>7. o.lots = W BY <2>2 DEF Outcome
  <2> QED BY <2>6, <2>7
<1>4. CASE t.kind = "sale"
  <2>1. o \in Unaffected(V) \/ o \in Sold(V, t) BY <1>4 DEF Outcomes
  <2> QED BY <1>2, <1>4, <2>1, SoldOutSound
<1>5. CASE t.kind = "quantity_event"
  <2>1. o \in Unaffected(V) \/ (t.ratio # None /\ o \in QuantityChanged(V, t))
    BY <1>5 DEF Outcomes
  <2>2. t.ratio # None => Pos(t.ratio) BY <1>1, ShapeOf
  <2> QED BY <1>2, <2>1, <2>2, QuantitySound
<1>6. CASE t.kind = "transfer"
  <2>1. o \in Unaffected(V) \/ \E d \in PartnersOf(R, t) : o \in Transferred(V, t, d, g)
    BY <1>6, Zenon DEF Outcomes
  <2>2. CASE o \in Unaffected(V) BY <1>2, <2>2
  <2>3. CASE \E d \in PartnersOf(R, t) : o \in Transferred(V, t, d, g)
    <3>1. PICK d \in PartnersOf(R, t) : o \in Transferred(V, t, d, g) BY <2>3
    <3>2. d \in T /\ d.kind = "transfer" BY DEF PartnersOf, Alike, Leg
    <3> QED BY <3>1, <3>2, TransferredSound
  <2> QED BY <2>1, <2>2, <2>3
<1> QED BY <1>1, <1>3, <1>4, <1>5, <1>6 DEF Kinds

-----------------------------------------------------------------------------
(* The lots in the state.                                                  *)

\* The committed lots are sound, and so are those of a rebuild under way.
Sound == /\ SoundLots(table, seen)
         /\ \A w \in Rebuilders : SoundLots(job[w].mine, seen)

\* No lots are sound.
LEMMA NoneSound == ASSUME NEW T PROVE SoundLots({}, T)
BY FS_EmptySet DEF SoundLots

\* A lot stays sound when a transaction is seen.
LEMMA MoreStored ==
    ASSUME NEW T, NEW U, T \subseteq U, NEW V, SoundLots(V, T)
    PROVE  SoundLots(V, U)
<1>1. ASSUME NEW l \in V PROVE SoundLot(l, U)
  <2>1. SoundLot(l, T) BY DEF SoundLots
  <2>2. LinkedIn(l.purchase, l.acct, "purchase", U) /\ LinkedIn(l.sale, l.acct, "sale", U)
    BY <2>1 DEF SoundLot, LinkedIn
  <2>3. l.transfer # None => \E t \in U : t.id = l.transfer /\ t.kind = "transfer"
    BY <2>1 DEF SoundLot
  <2> QED BY <2>1, <2>2, <2>3 DEF SoundLot
<1> QED BY <1>1 DEF SoundLots

\* A rebuild sees sound lots.
LEMMA SoundView ==
    ASSUME Sound, NEW w \in Rebuilders
    PROVE  SoundLots(View(w), seen)
<1> DEFINE K == {l \in table : l.id \notin job[w].gone \cup Ids(job[w].mine)}
           M == job[w].mine
<1>1. View(w) = K \cup M BY DEF View
<1>2. K \subseteq table OBVIOUS
<1>3. SoundLots(table, seen) /\ SoundLots(M, seen) BY DEF Sound
<1> HIDE DEF K, M
<1>4. IsFiniteSet(K) BY <1>2, <1>3, FS_Subset DEF SoundLots
<1>5. IsFiniteSet(K \cup M) BY <1>3, <1>4, FS_Union DEF SoundLots
<1>6. SoundLots(K \cup M, seen) BY <1>2, <1>3, <1>5 DEF SoundLots
<1> QED BY <1>1, <1>6

\* A step of a rebuild leaves the lots of the others alone.
LEMMA JobSound ==
    ASSUME Shape, Sound, NEW w \in Rebuilders, NEW x, job' = [job EXCEPT ![w] = x],
           SoundLots(x.mine, seen), SoundLots(table', seen), seen' = seen
    PROVE  Sound'
<1>1. job'[w] = x /\ \A v \in Rebuilders : v # w => job'[v] = job[v] BY DEF Shape
<1>2. \A v \in Rebuilders : SoundLots(job'[v].mine, seen)
  <2> SUFFICES ASSUME NEW v \in Rebuilders PROVE SoundLots(job'[v].mine, seen) OBVIOUS
  <2>1. CASE v = w BY <1>1, <2>1
  <2>2. CASE v # w BY <1>1, <2>2 DEF Sound
  <2> QED BY <2>1, <2>2
<1> QED BY <1>2 DEF Sound

\* A step that leaves the table alone.
LEMMA TableKept ==
    ASSUME Shape, Sound, NEW w \in Rebuilders, NEW x, job' = [job EXCEPT ![w] = x],
           SoundLots(x.mine, seen), UNCHANGED <<seen, table>>
    PROVE  Sound'
<1>1. SoundLots(table', seen) BY DEF Sound
<1> QED BY <1>1, JobSound

\* A transaction is processed on sound lots.
LEMMA ProcessSound ==
    ASSUME Inv, Sound, NEW w \in Rebuilders, ProcessTransaction(w)
    PROVE  Sound'
<1> DEFINE t == NextTransaction(w)
           g == job[w].gen
           V == View(w)
           R == job[w].read
<1>1. /\ seen \in SUBSET Transactions /\ R \in SUBSET seen
      /\ Todo(w) \subseteq R /\ Todo(w) \subseteq Transactions
  BY DEF Inv, IInv, Versions, Stages, Read
<1>2. t \in seen
  <2>1. Todo(w) # {} BY DEF ProcessTransaction, Todo
  <2>2. t \in Todo(w) BY <1>1, <2>1, NextIsFirst
  <2> QED BY <1>1, <2>2
<1>3. PICK o \in StepOutcomes(w) :
        /\ UpdateWaitsFor(w, o.lots) = {}
        /\ HasAccount(o.lots)
        /\ job' = [job EXCEPT ![w].todo = @ \ {NextTransaction(w)},
                              ![w].mine = o.lots \ table,
                              ![w].used = Plus(@, o.used),
                              ![w].deferred = Plus(@, o.deferred)]
  BY Zenon DEF ProcessTransaction
<1> DEFINE u == Plus(job[w].used, o.used)
           f == Plus(job[w].deferred, o.deferred)
           M == o.lots \ table
           D == job[w].todo \ {t}
           x == [job[w] EXCEPT !.todo = D, !.mine = M, !.used = u, !.deferred = f]
<1>4. job' = [job EXCEPT ![w] = x] BY <1>3
<1>5. UNCHANGED <<seen, table>> BY DEF ProcessTransaction
<1>6. SoundLots(V, seen) BY SoundView
<1>7. o \in Outcomes(V, R, t, g) BY DEF StepOutcomes
<1> HIDE DEF t, g, V, R
<1>8. SoundLots(o.lots, seen) BY <1>1, <1>2, <1>6, <1>7, OutcomeSound
<1>9. SoundLots(M, seen)
  <2>1. IsFiniteSet(M) BY <1>8, FS_Subset DEF SoundLots
  <2> QED BY <1>8, <2>1 DEF SoundLots
<1> HIDE DEF u, f, M, D
<1>10. x.mine = M BY IdleFields DEF Inv, IInv, Shape
<1> HIDE DEF x
<1>11. Shape BY DEF Inv, IInv
<1> QED BY <1>4, <1>5, <1>9, <1>10, <1>11, TableKept

\* Every step keeps the lots sound.
LEMMA SoundStep ==
    ASSUME Inv, Sound, [Next]_vars
    PROVE  Sound'
<1>0. Shape BY DEF Inv, IInv
<1>1. ASSUME table' \subseteq table, job' = job, seen \subseteq seen' PROVE Sound'
  <2>1. SoundLots(table, seen') BY <1>1, MoreStored DEF Sound
  <2>2. IsFiniteSet(table') BY <1>1, FS_Subset DEF Sound, SoundLots
  <2>3. SoundLots(table', seen') BY <1>1, <2>1, <2>2 DEF SoundLots
  <2>4. \A w \in Rebuilders : SoundLots(job[w].mine, seen') BY <1>1, MoreStored DEF Sound
  <2> QED BY <1>1, <2>3, <2>4 DEF Sound
<1>4. ASSUME NEW t \in Transactions, Store(t) PROVE Sound' BY <1>1, <1>4 DEF Store
<1>5. ASSUME NEW t \in Transactions, NEW u \in Transactions, Change(t, u) PROVE Sound'
  BY <1>1, <1>5 DEF Change
<1>6. ASSUME NEW a \in Accounts, DeleteAccount(a) PROVE Sound' BY <1>1, <1>6 DEF DeleteAccount
<1>2. ASSUME NEW w \in Rebuilders, Step(w) PROVE Sound'
  <2>1. SoundLots(Idle.mine, seen) BY IdleFields, NoneSound
  <2>2. SoundLots(job[w].mine, seen) BY DEF Sound
  <2>3. ASSUME job' = [job EXCEPT ![w] = Idle], UNCHANGED <<seen, table, basis>> PROVE Sound'
    BY <1>0, <2>1, <2>3, TableKept
  <2>4. CASE BeginDelete(w)
    <3> DEFINE g == CHOOSE h \in Generations : h \notin TagsInUse
               x == [Idle EXCEPT !.pc = "deleting", !.snap = Ids(table), !.gen = g]
    <3>1. job' = [job EXCEPT ![w] = x] /\ UNCHANGED <<seen, table>>
      BY <2>4, Zenon DEF BeginDelete
    <3> HIDE DEF g
    <3>2. x.mine = {} BY IdleFields DEF Fields
    <3> HIDE DEF x
    <3> QED BY <1>0, <3>1, <3>2, NoneSound, TableKept
  <2>5. CASE FinishDelete(w)
    <3> DEFINE d == job[w].gone \cup (job[w].snap \cap Ids(table))
               x == [job[w] EXCEPT !.pc = "reading", !.gone = d]
    <3>1. job' = [job EXCEPT ![w] = x] /\ UNCHANGED <<seen, table>>
      BY <2>5 DEF FinishDelete
    <3> HIDE DEF d
    <3>2. x.mine = job[w].mine BY <1>0, IdleFields DEF Shape
    <3> HIDE DEF x
    <3> QED BY <1>0, <2>2, <3>1, <3>2, TableKept
  <2>6. CASE ReadTransactions(w)
    <3> DEFINE x == [job[w] EXCEPT !.pc = "matching", !.read = stored, !.todo = stored]
    <3>1. job' = [job EXCEPT ![w] = x] /\ UNCHANGED <<seen, table>>
      BY <2>6 DEF ReadTransactions, Selected
    <3>2. x.mine = job[w].mine BY <1>0, IdleFields DEF Shape
    <3> HIDE DEF x
    <3> QED BY <1>0, <2>2, <3>1, <3>2, TableKept
  <2>7. CASE ProcessTransaction(w) BY <2>7, ProcessSound
  <2>8. CASE UniqueViolation(w)
    <3>1. job' = [job EXCEPT ![w] = Idle] /\ UNCHANGED <<seen, table, basis>>
      BY <2>8, Zenon DEF UniqueViolation
    <3> QED BY <2>3, <3>1
  <2>9. CASE DeadlockVictim(w)
    <3>1. job' = [job EXCEPT ![w] = Idle] /\ UNCHANGED <<seen, table, basis>>
      BY <2>9, Zenon DEF DeadlockVictim
    <3> QED BY <2>3, <3>1
  <2>11. CASE ForeignKeyViolation(w)
    <3>1. job' = [job EXCEPT ![w] = Idle] /\ UNCHANGED <<seen, table, basis>>
      BY <2>11, Zenon DEF ForeignKeyViolation
    <3> QED BY <2>3, <3>1
  <2>10. CASE Commit(w)
    <3>1. job' = [job EXCEPT ![w] = Idle] /\ table' = View(w) /\ seen' = seen
      BY <2>10, Zenon DEF Commit
    <3>2. SoundLots(table', seen) BY <3>1, SoundView
    <3> QED BY <1>0, <2>1, <3>1, <3>2, JobSound
  <2> QED BY <1>2, <2>4, <2>5, <2>6, <2>7, <2>8, <2>9, <2>10, <2>11, Zenon DEF Step
<1>3. CASE UNCHANGED vars BY <1>3 DEF vars, Sound
<1> QED BY <1>2, <1>3, <1>4, <1>5, <1>6 DEF Next

\* A transaction that has gone from T, or has changed its kind since l was made.
Outdated(l, W, T) ==
    \E t \in W : /\ t.id \in {l.purchase, l.sale, l.transfer}
                 /\ ~\E u \in T : u.row = t.row /\ u.kind = t.kind

\* A lot that is sound for all the versions there have been is not broken, unless its
\* purchase came without a quantity or one of its transactions has gone.
LEMMA SoundIsWhole ==
    ASSUME NEW W \in SUBSET Transactions, NEW T \in SUBSET W, NEW l, SoundLot(l, W),
           Broken(l, T), ~Outdated(l, W, T)
    PROVE  \E t \in W : t.id = l.purchase /\ t.qty = Zero
<1>1. CASE WithoutUnits(l)
  <2>1. PICK t \in Transactions : t.id = l.purchase /\ t.qty = Zero BY <1>1 DEF WithoutUnits
  <2>2. t.id # None /\ \A u \in Transactions : t.id = u.id => t = u BY ShapeOf
  <2>3. PICK u \in W : u.id = l.purchase BY <2>1, <2>2 DEF SoundLot, LinkedIn
  <2>4. u = t BY <2>1, <2>2, <2>3
  <2> QED BY <2>1, <2>4
<1>2. CASE ~WithoutUnits(l)
  <2>1. UnitsOf(l) BY <1>2 DEF SoundLot
  <2>2. /\ IsFraction(l.qty) /\ IsFraction(l.rem) /\ IsFraction(l.cost) /\ IsFraction(l.unit)
        /\ NonNeg(l.rem) /\ NonNeg(l.cost) /\ NonNeg(l.unit)
    BY LotParts
  <2>3. ~AtMost(l.qty, Zero) BY <2>1, <2>2, OrderType DEF UnitsOf
  <2>4. ~Less(l.rem, Zero) /\ ~Less(l.cost, Zero) /\ ~Less(l.unit, Zero)
    BY <2>2, OrderType
  <2>5. ~Less(l.qty, l.rem) BY <2>1 DEF UnitsOf, AtMost
  <2>6. (l.rem = Zero) = (l.closed # None) BY <2>1 DEF UnitsOf
  <2>7. ASSUME NEW t \in W, t.id \in {l.purchase, l.sale, l.transfer}
        PROVE  \E u \in T : u.row = Row(t.id) /\ u.acct = t.acct /\ u.kind = t.kind
    <3>1. PICK u \in T : u.row = t.row /\ u.kind = t.kind BY <2>7 DEF Outdated
    <3>2. u.acct = t.acct BY <3>1, TransactionShape
    <3> QED BY <3>1, <3>2, RowOf
  <2>8. Linked(l.purchase, l.acct, "purchase", T)
    BY <2>7 DEF SoundLot, LinkedIn, Linked
  <2>9. Linked(l.sale, l.acct, "sale", T) BY <2>7 DEF SoundLot, LinkedIn, Linked
  <2>10. l.transfer # None => \E t \in T : t.row = Row(l.transfer) /\ t.kind = "transfer"
    BY <2>7 DEF SoundLot
  <2>11. ~Broken(l, T) BY <2>3, <2>4, <2>5, <2>6, <2>8, <2>9, <2>10, Zenon DEF Broken
  <2> QED BY <2>11
<1> QED BY <1>1, <1>2

\* The lots are always sound.
LEMMA AlwaysSound == Spec => []Sound
<1>1. Init => Sound
  <2> SUFFICES ASSUME Init PROVE Sound OBVIOUS
  <2>1. table = {} /\ \A w \in Rebuilders : job[w] = Idle BY DEF Init
  <2>2. \A w \in Rebuilders : job[w].mine = {} BY <2>1, IdleFields
  <2> QED BY <2>1, <2>2, NoneSound DEF Sound
<1>2. Inv /\ Sound /\ [Next]_vars => Sound' BY SoundStep
<1> QED BY <1>1, <1>2, Invariant, PTL DEF Spec

\* The lots that rebuilds commit pass the integrity check of the data-health
\* service: no lot has negative units, more units than it was opened with, a
\* closing date with units left or a negative basis, and each refers to transactions
\* that are stored, in its account and of the right type; only the lot of a purchase
\* that was delivered without a quantity does not, and one whose transaction has been
\* removed or has changed its type since the rebuild read it.
THEOREM LotsPassTheCheck == Spec => []NoBrokenLot
<1>1. Inv /\ Sound => NoBrokenLot
  <2> SUFFICES ASSUME Inv, Sound, NEW l \in table, Broken(l, stored), ~Outdated(l, seen, stored)
               PROVE  \E t \in seen : t.id = l.purchase /\ t.qty = Zero
    BY DEF NoBrokenLot, Outdated
  <2>1. seen \in SUBSET Transactions /\ stored \in SUBSET seen BY DEF Inv, IInv, Versions
  <2>2. SoundLot(l, seen) BY DEF Sound, SoundLots
  <2> QED BY <2>1, <2>2, SoundIsWhole
<1> QED BY <1>1, Invariant, AlwaysSound, PTL

-----------------------------------------------------------------------------
(* Sums of fractions, over sets.                                           *)

\* Zero adds nothing.
LEMMA PlusZero ==
    ASSUME NEW x, IsFraction(x)
    PROVE  Plus(Zero, x) = x /\ Plus(x, Zero) = x /\ Minus(x, Zero) = x /\ Minus(x, x) = Zero
<1>1. x.num \in Int /\ x.den \in Nat \ {0} /\ x = Frac(x.num, x.den) BY Parts, FracOf
<1>2. PICK n \in Int, d \in Nat \ {0} : x = Frac(n, d) BY <1>1
<1>3. Zero = Frac(0, d) BY ZeroFrac
<1>4. /\ Plus(Zero, x) = Frac(0 + n, d) /\ Plus(x, Zero) = Frac(n + 0, d)
      /\ Minus(x, Zero) = Frac(n - 0, d) /\ Minus(x, x) = Frac(n - n, d)
  BY <1>2, <1>3, PlusFrac, MinusFrac
<1>5. 0 + n = n /\ n + 0 = n /\ n - 0 = n /\ n - n = 0 OBVIOUS
<1> QED BY <1>2, <1>3, <1>4, <1>5

\* Sums of two sums.
LEMMA PlusPairs ==
    ASSUME NEW x, NEW y, NEW z, NEW w,
           IsFraction(x), IsFraction(y), IsFraction(z), IsFraction(w)
    PROVE  Plus(Plus(x, y), Plus(z, w)) = Plus(Plus(x, z), Plus(y, w))
<1>1. IsFraction(Plus(z, w)) /\ IsFraction(Plus(y, w)) BY PlusType
<1>2. Plus(Plus(x, y), Plus(z, w)) = Plus(x, Plus(y, Plus(z, w))) BY <1>1, PlusSwap
<1>3. Plus(y, Plus(z, w)) = Plus(z, Plus(y, w)) BY PlusSwap
<1>4. Plus(Plus(x, z), Plus(y, w)) = Plus(x, Plus(z, Plus(y, w))) BY <1>1, PlusSwap
<1> QED BY <1>2, <1>3, <1>4

\* A product distributes over a sum.
LEMMA TimesPlus ==
    ASSUME NEW x, NEW y, NEW c, IsFraction(x), IsFraction(y), IsFraction(c)
    PROVE  Times(Plus(x, y), c) = Plus(Times(x, c), Times(y, c))
<1>1. PICK d \in Nat \ {0}, n \in Int, m \in Int : x = Frac(n, d) /\ y = Frac(m, d)
  BY CommonTwo
<1>2. c.num \in Int /\ c.den \in Nat \ {0} /\ c = Frac(c.num, c.den) BY Parts, FracOf
<1>3. PICK k \in Int, e \in Nat \ {0} : c = Frac(k, e) BY <1>2
<1>4. /\ n + m \in Int /\ n * k \in Int /\ m * k \in Int /\ d * e \in Nat \ {0}
      /\ (n + m) * k = n * k + m * k
  BY Positive
<1>5. Plus(x, y) = Frac(n + m, d) BY <1>1, PlusFrac
<1>6. Times(Plus(x, y), c) = Frac((n + m) * k, d * e) BY <1>3, <1>4, <1>5, TimesFrac
<1>7. Times(x, c) = Frac(n * k, d * e) /\ Times(y, c) = Frac(m * k, d * e)
  BY <1>1, <1>3, TimesFrac
<1>8. Plus(Frac(n * k, d * e), Frac(m * k, d * e)) = Frac(n * k + m * k, d * e)
  BY <1>4, PlusFrac
<1> QED BY <1>4, <1>6, <1>7, <1>8

\* Nothing times a factor.
LEMMA TimesZero ==
    ASSUME NEW c, IsFraction(c)
    PROVE  Times(Zero, c) = Zero /\ Times(c, Zero) = Zero
<1>1. c.num \in Int /\ c.den \in Nat \ {0} /\ c = Frac(c.num, c.den) BY Parts, FracOf
<1>2. PICK k \in Int, e \in Nat \ {0} : c = Frac(k, e) BY <1>1
<1>3. 0 * k = 0 /\ k * 0 = 0 /\ 1 * e = e /\ e * 1 = e OBVIOUS
<1>4. Times(Frac(0, 1), Frac(k, e)) = Frac(0 * k, 1 * e) BY TimesFrac
<1>5. Times(Frac(k, e), Frac(0, 1)) = Frac(k * 0, e * 1) BY TimesFrac
<1>6. Zero = Frac(0, 1) /\ Zero = Frac(0, e) BY ZeroFrac DEF Zero
<1> QED BY <1>2, <1>3, <1>4, <1>5, <1>6

\* The sum of f over S.
Part(f, S) == Total([x \in S |-> f[x]])

\* What f is on S decides the sum over S.
LEMMA PartSame ==
    ASSUME NEW f, NEW h, NEW S, \A x \in S : f[x] = h[x]
    PROVE  Part(f, S) = Part(h, S)
<1>1. [x \in S |-> f[x]] = [x \in S |-> h[x]] OBVIOUS
<1> QED BY <1>1, Zenon DEF Part

\* A sum that is built up.
LEMMA PartGrows ==
    ASSUME NEW f, Fractional(f), NEW S \in SUBSET DOMAIN f
    PROVE  /\ IsFiniteSet(S) /\ IsFraction(Part(f, S))
           /\ S = {} => Part(f, S) = Zero
           /\ \A x \in S : Part(f, S) = Plus(f[x], Part(f, S \ {x}))
           /\ (\A x \in S : NonNeg(f[x])) => NonNeg(Part(f, S))
<1> DEFINE h == [x \in S |-> f[x]]
<1>1. IsFiniteSet(S) BY FS_Subset DEF Fractional
<1>2. DOMAIN h = S /\ \A x \in S : h[x] = f[x] OBVIOUS
<1>3. Part(f, S) = Total(h) BY DEF Part
<1> HIDE DEF h
<1>4. Fractional(h) BY <1>1, <1>2 DEF Fractional
<1>5. IsFraction(Total(h)) /\ ((\A x \in S : NonNeg(f[x])) => NonNeg(Total(h)))
  BY <1>2, <1>4, SumType
<1>6. S = {} => Total(h) = Zero BY <1>2, EmptySum
<1>7. ASSUME NEW x \in S PROVE Total(h) = Plus(f[x], Part(f, S \ {x}))
  <2> DEFINE k == [y \in DOMAIN h \ {x} |-> h[y]]
  <2>1. Total(h) = Plus(h[x], Total(k)) BY <1>2, <1>4, SumSplits
  <2>2. k = [y \in S \ {x} |-> f[y]] BY <1>2
  <2> HIDE DEF k
  <2>3. Part(f, S \ {x}) = Total(k) BY <2>2, Zenon DEF Part
  <2> QED BY <1>2, <2>1, <2>3
<1> QED BY <1>1, <1>3, <1>5, <1>6, <1>7

\* The sum over two sets that are apart.
LEMMA PartUnion ==
    ASSUME NEW f, Fractional(f), NEW U \in SUBSET DOMAIN f, NEW W \in SUBSET DOMAIN f,
           U \cap W = {}
    PROVE  Part(f, U \cup W) = Plus(Part(f, U), Part(f, W))
<1> DEFINE Good(S) == Part(f, S \cup W) = Plus(Part(f, S), Part(f, W))
           Bad == {S \in SUBSET U : ~Good(S)}
<1> SUFFICES ASSUME Bad # {} PROVE FALSE OBVIOUS
<1>1. IsFiniteSet(U) BY PartGrows
<1>2. PICK S \in Bad : \A T \in SUBSET S : T # S => T \notin Bad
  <2>1. Bad \in SUBSET (SUBSET U) OBVIOUS
  <2> HIDE DEF Bad
  <2> QED BY <1>1, <2>1, LeastSet
<1>3. S \in SUBSET U /\ ~Good(S) OBVIOUS
<1>4. S \in SUBSET DOMAIN f /\ S \cup W \in SUBSET DOMAIN f BY <1>3
<1>5. IsFraction(Part(f, W)) BY PartGrows
<1>6. CASE S = {}
  <2>1. Part(f, S) = Zero BY <1>4, <1>6, PartGrows
  <2>2. S \cup W = W BY <1>6
  <2>3. Plus(Zero, Part(f, W)) = Part(f, W) BY <1>5, PlusZero
  <2> QED BY <1>3, <2>1, <2>2, <2>3
<1>7. CASE S # {}
  <2>1. PICK x \in S : TRUE BY <1>7
  <2> DEFINE T == S \ {x}
  <2>2. T \in SUBSET U /\ T # S /\ T \in SUBSET S /\ T \in SUBSET DOMAIN f BY <1>3, <1>4
  <2>3. Good(T) BY <1>2, <2>2
  <2>4. Part(f, S) = Plus(f[x], Part(f, T)) BY <1>4, PartGrows
  <2>5. (S \cup W) \ {x} = T \cup W BY <1>3
  <2>6. x \in S \cup W OBVIOUS
  <2>7. Part(f, S \cup W) = Plus(f[x], Part(f, T \cup W))
    BY <1>4, <2>5, <2>6, PartGrows
  <2>8. IsFraction(f[x]) BY <1>4 DEF Fractional
  <2>9. IsFraction(Part(f, T)) BY <2>2, PartGrows
  <2> HIDE DEF T
  <2>10. Plus(Plus(f[x], Part(f, T)), Part(f, W)) = Plus(f[x], Plus(Part(f, T), Part(f, W)))
    BY <1>5, <2>8, <2>9, PlusSwap
  <2> QED BY <1>3, <2>3, <2>4, <2>7, <2>10
<1> QED BY <1>6, <1>7

\* The sum of zeros.
LEMMA PartZero ==
    ASSUME NEW f, Fractional(f), NEW U \in SUBSET DOMAIN f, \A x \in U : f[x] = Zero
    PROVE  Part(f, U) = Zero
<1> DEFINE Bad == {S \in SUBSET U : Part(f, S) # Zero}
<1> SUFFICES ASSUME Bad # {} PROVE FALSE OBVIOUS
<1>1. IsFiniteSet(U) BY PartGrows
<1>2. PICK S \in Bad : \A T \in SUBSET S : T # S => T \notin Bad
  <2>1. Bad \in SUBSET (SUBSET U) OBVIOUS
  <2> HIDE DEF Bad
  <2> QED BY <1>1, <2>1, LeastSet
<1>3. S \in SUBSET U /\ S \in SUBSET DOMAIN f /\ Part(f, S) # Zero OBVIOUS
<1>4. S # {} BY <1>3, PartGrows
<1>5. PICK x \in S : TRUE BY <1>4
<1>6. Part(f, S \ {x}) = Zero BY <1>2, <1>3
<1>7. Part(f, S) = Plus(f[x], Part(f, S \ {x})) BY <1>3, PartGrows
<1>8. f[x] = Zero BY <1>3
<1>9. Plus(Zero, Zero) = Zero BY ZeroFrac, PlusZero
<1> QED BY <1>3, <1>6, <1>7, <1>8, <1>9

\* The sum over those of U that are in E.
LEMMA PartFilter ==
    ASSUME NEW f, Fractional(f), NEW h, DOMAIN h = DOMAIN f, NEW E, NEW U \in SUBSET DOMAIN f,
           \A x \in DOMAIN f : h[x] = IF x \in E THEN f[x] ELSE Zero
    PROVE  Fractional(h) /\ Part(h, U) = Part(f, U \cap E)
<1>1. Fractional(h) BY ZeroFrac DEF Fractional
<1>2. U \cap E \in SUBSET DOMAIN h /\ U \ E \in SUBSET DOMAIN h
      /\ (U \cap E) \cap (U \ E) = {} /\ (U \cap E) \cup (U \ E) = U
  OBVIOUS
<1>3. Part(h, U) = Plus(Part(h, U \cap E), Part(h, U \ E)) BY <1>1, <1>2, PartUnion
<1>4. Part(h, U \ E) = Zero
  <2>1. \A x \in U \ E : h[x] = Zero OBVIOUS
  <2> QED BY <1>1, <1>2, <2>1, PartZero
<1>5. Part(h, U \cap E) = Part(f, U \cap E)
  <2>1. \A x \in U \cap E : h[x] = f[x] OBVIOUS
  <2> QED BY <2>1, PartSame
<1>6. IsFraction(Part(h, U \cap E)) BY <1>1, <1>2, PartGrows
<1> QED BY <1>1, <1>3, <1>4, <1>5, <1>6, PlusZero

\* The sum over a set that is numbered without repetition.
LEMMA PartImage ==
    ASSUME NEW f, Fractional(f), NEW r, NEW h, Fractional(h), DOMAIN h = DOMAIN r,
           \A i \in DOMAIN r : r[i] \in DOMAIN f /\ h[i] = f[r[i]],
           \A i, j \in DOMAIN r : r[i] = r[j] => i = j,
           NEW U \in SUBSET DOMAIN r
    PROVE  Part(f, {r[i] : i \in U}) = Part(h, U)
<1> DEFINE Im(S) == {r[i] : i \in S}
           Bad == {S \in SUBSET U : Part(f, Im(S)) # Part(h, S)}
<1> SUFFICES ASSUME Bad # {} PROVE FALSE OBVIOUS
<1>1. IsFiniteSet(U) BY PartGrows
<1>2. PICK S \in Bad : \A T \in SUBSET S : T # S => T \notin Bad
  <2>1. Bad \in SUBSET (SUBSET U) OBVIOUS
  <2> HIDE DEF Bad
  <2> QED BY <1>1, <2>1, LeastSet
<1>3. S \in SUBSET DOMAIN h /\ Part(f, Im(S)) # Part(h, S) OBVIOUS
<1>4. Im(S) \in SUBSET DOMAIN f BY <1>3
<1>5. CASE S = {}
  <2>1. Im(S) = {} BY <1>5
  <2>2. Part(f, Im(S)) = Zero BY <1>4, <2>1, PartGrows
  <2>3. Part(h, S) = Zero BY <1>3, <1>5, PartGrows
  <2> QED BY <1>3, <2>2, <2>3
<1>6. CASE S # {}
  <2>1. PICK x \in S : TRUE BY <1>6
  <2> DEFINE T == S \ {x}
  <2>2. Part(f, Im(T)) = Part(h, T) BY <1>2
  <2>3. Part(h, S) = Plus(h[x], Part(h, T)) BY <1>3, PartGrows
  <2>4. r[x] \in Im(S) /\ Im(S) \ {r[x]} = Im(T) BY <1>3
  <2>5. Part(f, Im(S)) = Plus(f[r[x]], Part(f, Im(T))) BY <1>4, <2>4, PartGrows
  <2>6. h[x] = f[r[x]] BY <1>3
  <2> QED BY <1>3, <2>2, <2>3, <2>5, <2>6
<1> QED BY <1>5, <1>6

\* The sum of sums.
LEMMA PartPlus ==
    ASSUME NEW f, Fractional(f), NEW g, Fractional(g), NEW h, DOMAIN f = DOMAIN h,
           DOMAIN g = DOMAIN h, \A x \in DOMAIN h : h[x] = Plus(f[x], g[x]),
           NEW U \in SUBSET DOMAIN h
    PROVE  Fractional(h) /\ Part(h, U) = Plus(Part(f, U), Part(g, U))
<1>0. Fractional(h) BY PlusType DEF Fractional
<1> DEFINE Bad == {S \in SUBSET U : Part(h, S) # Plus(Part(f, S), Part(g, S))}
<1> SUFFICES ASSUME Bad # {} PROVE FALSE BY <1>0
<1>1. IsFiniteSet(U) BY PartGrows
<1>2. PICK S \in Bad : \A T \in SUBSET S : T # S => T \notin Bad
  <2>1. Bad \in SUBSET (SUBSET U) OBVIOUS
  <2> HIDE DEF Bad
  <2> QED BY <1>1, <2>1, LeastSet
<1>3. S \in SUBSET DOMAIN h /\ Part(h, S) # Plus(Part(f, S), Part(g, S)) OBVIOUS
<1>4. CASE S = {}
  <2>1. Part(h, S) = Zero /\ Part(f, S) = Zero /\ Part(g, S) = Zero
    BY <1>0, <1>3, <1>4, PartGrows
  <2>2. Plus(Zero, Zero) = Zero BY ZeroFrac, PlusZero
  <2> QED BY <1>3, <2>1, <2>2
<1>5. CASE S # {}
  <2>1. PICK x \in S : TRUE BY <1>5
  <2> DEFINE T == S \ {x}
  <2>2. Part(h, T) = Plus(Part(f, T), Part(g, T)) BY <1>2
  <2>3. /\ Part(h, S) = Plus(h[x], Part(h, T))
        /\ Part(f, S) = Plus(f[x], Part(f, T))
        /\ Part(g, S) = Plus(g[x], Part(g, T))
    BY <1>0, <1>3, PartGrows
  <2>4. h[x] = Plus(f[x], g[x]) /\ IsFraction(f[x]) /\ IsFraction(g[x])
    BY <1>3 DEF Fractional
  <2>5. T \in SUBSET DOMAIN f /\ T \in SUBSET DOMAIN g BY <1>3
  <2>6. IsFraction(Part(f, T)) /\ IsFraction(Part(g, T)) BY <2>5, PartGrows
  <2> HIDE DEF T
  <2>7. Plus(Plus(f[x], g[x]), Plus(Part(f, T), Part(g, T)))
          = Plus(Plus(f[x], Part(f, T)), Plus(g[x], Part(g, T)))
    BY <2>4, <2>6, PlusPairs
  <2> QED BY <1>3, <2>2, <2>3, <2>4, <2>7
<1> QED BY <1>4, <1>5

\* A factor of all.
LEMMA PartTimes ==
    ASSUME NEW f, Fractional(f), NEW h, DOMAIN f = DOMAIN h, NEW c, IsFraction(c),
           \A x \in DOMAIN h : h[x] = Times(f[x], c),
           NEW U \in SUBSET DOMAIN h
    PROVE  Fractional(h) /\ Part(h, U) = Times(Part(f, U), c)
<1>0. Fractional(h) BY TimesType DEF Fractional
<1> DEFINE Bad == {S \in SUBSET U : Part(h, S) # Times(Part(f, S), c)}
<1> SUFFICES ASSUME Bad # {} PROVE FALSE BY <1>0
<1>1. IsFiniteSet(U) BY PartGrows
<1>2. PICK S \in Bad : \A T \in SUBSET S : T # S => T \notin Bad
  <2>1. Bad \in SUBSET (SUBSET U) OBVIOUS
  <2> HIDE DEF Bad
  <2> QED BY <1>1, <2>1, LeastSet
<1>3. S \in SUBSET DOMAIN h /\ Part(h, S) # Times(Part(f, S), c) OBVIOUS
<1>4. CASE S = {}
  <2>1. Part(h, S) = Zero /\ Part(f, S) = Zero BY <1>0, <1>3, <1>4, PartGrows
  <2>2. Times(Zero, c) = Zero BY TimesZero
  <2> QED BY <1>3, <2>1, <2>2
<1>5. CASE S # {}
  <2>1. PICK x \in S : TRUE BY <1>5
  <2> DEFINE T == S \ {x}
  <2>2. Part(h, T) = Times(Part(f, T), c) BY <1>2
  <2>3. /\ Part(h, S) = Plus(h[x], Part(h, T))
        /\ Part(f, S) = Plus(f[x], Part(f, T))
    BY <1>0, <1>3, PartGrows
  <2>4. h[x] = Times(f[x], c) /\ IsFraction(f[x]) BY <1>3 DEF Fractional
  <2>5. T \in SUBSET DOMAIN f BY <1>3
  <2>6. IsFraction(Part(f, T)) BY <2>5, PartGrows
  <2> HIDE DEF T
  <2>7. Times(Plus(f[x], Part(f, T)), c) = Plus(Times(f[x], c), Times(Part(f, T), c))
    BY <2>4, <2>6, TimesPlus
  <2> QED BY <1>3, <2>2, <2>3, <2>4, <2>7
<1> QED BY <1>4, <1>5

-----------------------------------------------------------------------------
(* What a loop over lots takes.                                            *)

\* One lot more in a loop.
LEMMA LesserStep ==
    ASSUME NEW b, NEW c, NEW need, IsFraction(b), NonNeg(c), IsFraction(need)
    PROVE  Plus(Lesser(c, Greater(Zero, Minus(need, b))), Lesser(b, need))
             = Lesser(Plus(c, b), need)
<1>1. IsFraction(c) BY DEF NonNeg
<1>2. PICK d \in Nat \ {0} : HasDen(b, d) /\ HasDen(c, d) /\ HasDen(need, d)
  BY <1>1, CommonThree
<1>3. PICK n \in Int, m \in Int, k \in Int :
        b = Frac(n, d) /\ c = Frac(m, d) /\ need = Frac(k, d)
  BY <1>2, Zenon DEF HasDen
<1>4. m >= 0 BY <1>3, SignFrac
<1>5. Zero = Frac(0, d) BY ZeroFrac
<1> DEFINE g == IF 0 < k - n THEN k - n ELSE 0
           e == IF m < g THEN m ELSE g
           h == IF n < k THEN n ELSE k
<1>6. k - n \in Int /\ m + n \in Int /\ g \in Int OBVIOUS
<1>7. Minus(need, b) = Frac(k - n, d) /\ Plus(c, b) = Frac(m + n, d)
  BY <1>3, MinusFrac, PlusFrac
<1>8. Greater(Zero, Minus(need, b)) = Frac(g, d)
  <2>1. Less(Frac(0, d), Frac(k - n, d)) <=> 0 < k - n BY <1>6, LessFrac
  <2> QED BY <1>5, <1>7, <2>1 DEF Greater
<1> HIDE DEF g
<1>9. Lesser(c, Frac(g, d)) = Frac(e, d)
  <2>1. Less(Frac(m, d), Frac(g, d)) <=> m < g BY <1>6, LessFrac
  <2> QED BY <1>3, <2>1 DEF Lesser
<1>10. Lesser(b, need) = Frac(h, d)
  <2>1. Less(Frac(n, d), Frac(k, d)) <=> n < k BY LessFrac
  <2> QED BY <1>3, <2>1 DEF Lesser
<1>11. Lesser(Plus(c, b), need) = Frac(IF m + n < k THEN m + n ELSE k, d)
  <2>1. Less(Frac(m + n, d), Frac(k, d)) <=> m + n < k BY <1>6, LessFrac
  <2> QED BY <1>3, <1>7, <2>1 DEF Lesser
<1>12. e \in Int /\ h \in Int BY <1>6
<1>13. e + h = IF m + n < k THEN m + n ELSE k BY <1>4 DEF g
<1> HIDE DEF e, h
<1>14. Plus(Frac(e, d), Frac(h, d)) = Frac(e + h, d) BY <1>12, PlusFrac
<1> QED BY <1>8, <1>9, <1>10, <1>11, <1>13, <1>14

\* What a loop takes from the first k: all they have, or all it needs.
LEMMA TakenTotal ==
    ASSUME NEW n \in Nat, NEW cap, DOMAIN cap = 1 .. n, \A j \in 1 .. n : NonNeg(cap[j]),
           NEW need, NonNeg(need), NEW k \in 0 .. n
    PROVE  /\ Fractional(cap) /\ Fractional(Taken(cap, need)) /\ DOMAIN Taken(cap, need) = 1 .. n
           /\ Part(Taken(cap, need), 1 .. k) = Lesser(Part(cap, 1 .. k), need)
<1> DEFINE q == Taken(cap, need)
           Good(m) == Part(q, 1 .. m) = Lesser(Part(cap, 1 .. m), need)
           Bad == {m \in 0 .. n : ~Good(m)}
<1>1. IsFraction(need) /\ IsFiniteSet(1 .. n) BY FS_Interval DEF NonNeg
<1>2. Fractional(cap) BY <1>1 DEF Fractional, NonNeg
<1>3. DOMAIN q = 1 .. n BY DEF Taken
<1>4. \A i \in 1 .. n : NonNeg(q[i])
  BY <1>1, TakenBounds
<1>5. \A i \in 1 .. n : q[i] = Lesser(cap[i], Greater(Zero, Minus(need, Part(cap, 1 .. (i - 1)))))
  BY DEF Taken, Before, Part
<1> HIDE DEF q
<1>6. Fractional(q) BY <1>1, <1>3, <1>4 DEF Fractional, NonNeg
<1> SUFFICES ASSUME Bad # {} PROVE FALSE BY <1>2, <1>3, <1>6 DEF q
<1>7. PICK m \in Bad : \A i \in Bad : m <= i
  <2>1. Bad \in SUBSET Nat OBVIOUS
  <2> HIDE DEF Bad
  <2> QED BY <2>1, LeastNumber
<1>8. m \in 0 .. n /\ ~Good(m) OBVIOUS
<1>9. CASE m = 0
  <2>1. 1 .. 0 = {} OBVIOUS
  <2>2. Part(q, {}) = Zero /\ Part(cap, {}) = Zero BY <1>2, <1>6, PartGrows
  <2>3. Lesser(Zero, need) = Zero
    <3>1. need = Zero \/ Less(Zero, need) BY <1>1, OrderType DEF Pos
    <3> QED BY <3>1 DEF Lesser
  <2> QED BY <1>8, <1>9, <2>1, <2>2, <2>3
<1>10. CASE m # 0
  <2>1. m - 1 \in 0 .. n /\ m \in 1 .. n BY <1>8, <1>10
  <2>2. Good(m - 1)
    <3>1. m - 1 \notin Bad
      <4> HIDE DEF Bad
      <4> QED BY <1>7, <1>8, <2>1
    <3> QED BY <2>1, <3>1
  <2>3. /\ 1 .. m \in SUBSET (1 .. n) /\ m \in 1 .. m /\ (1 .. m) \ {m} = 1 .. (m - 1)
        /\ 1 .. (m - 1) \in SUBSET (1 .. n)
    BY <2>1
  <2>4. /\ Part(q, 1 .. m) = Plus(q[m], Part(q, 1 .. (m - 1)))
        /\ Part(cap, 1 .. m) = Plus(cap[m], Part(cap, 1 .. (m - 1)))
    BY <1>2, <1>3, <1>6, <2>3, PartGrows
  <2> DEFINE b == Part(cap, 1 .. (m - 1))
             c == cap[m]
  <2>5. IsFraction(b) BY <1>2, <2>3, PartGrows
  <2>6. NonNeg(c) BY <2>1
  <2>7. q[m] = Lesser(c, Greater(Zero, Minus(need, b))) BY <1>5, <2>1
  <2>8. Part(q, 1 .. (m - 1)) = Lesser(b, need) BY <2>2
  <2> HIDE DEF b, c
  <2>9. Plus(q[m], Lesser(b, need)) = Lesser(Plus(c, b), need)
    BY <1>1, <2>5, <2>6, <2>7, LesserStep
  <2>10. Part(cap, 1 .. m) = Plus(c, b) BY <2>4 DEF b, c
  <2> QED BY <1>8, <2>4, <2>8, <2>9, <2>10
<1> QED BY <1>9, <1>10

\* The order of lots is one of each.
LEMMA FifoAll ==
    ASSUME NEW S, IsFiniteSet(S), NEW s \in Fifo(S)
    PROVE  \E n \in Nat : /\ DOMAIN s = 1 .. n
                          /\ \A i, j \in 1 .. n : s[i] = s[j] => i = j
                          /\ {s[i] : i \in 1 .. n} = S /\ ToSet(s) = S
                          /\ \A i, j \in 1 .. n : i < j => s[i].acquired <= s[j].acquired
<1> DEFINE n == Cardinality(S)
           D == 1 .. n
           R == {s[i] : i \in D}
<1>1. n \in Nat BY FS_CardinalityType
<1>2. s \in [D -> S] /\ \A i, j \in D : i # j => s[i] # s[j] BY DEF Fifo, SetToSeqs
<1>3. \A i, j \in D : i < j => s[i].acquired <= s[j].acquired BY <1>2 DEF Fifo
<1> HIDE DEF n
<1>4. IsFiniteSet(D) /\ Cardinality(D) = n BY <1>1, FS_Interval
<1> HIDE DEF D
<1>5. s \in Injection(D, S) BY <1>2 DEF Injection, IsInjective
<1>6. Cardinality(D) = Cardinality(S) BY <1>4 DEF n
<1>7. s \in Surjection(D, S) BY <1>5, <1>6, FS_Injection
<1>8. R = S BY <1>2, <1>7 DEF Surjection
<1>9. ToSet(s) = S BY <1>2, <1>8 DEF ToSet
<1> QED BY <1>1, <1>2, <1>3, <1>8, <1>9 DEF D

-----------------------------------------------------------------------------
(* Lots that are written again.                                            *)

\* No two lots have one key, and every lot has a day.
Keyed(V) == /\ \A l, m \in V : l.id = m.id => l = m
            /\ \A l \in V : l.acquired \in Nat

\* r are the lots s, written again.
Rewritten(s, r, n) ==
    /\ DOMAIN s = 1 .. n /\ DOMAIN r = 1 .. n
    /\ \A i, j \in 1 .. n : s[i] = s[j] => i = j
    /\ \A i \in 1 .. n : /\ r[i].id = s[i].id /\ r[i].acct = s[i].acct
                         /\ r[i].acquired = s[i].acquired

\* Lots that are written again stay apart.
LEMMA ReplacedKeyed ==
    ASSUME NEW V, Keyed(V), NEW n \in Nat, NEW s, NEW r, Rewritten(s, r, n),
           \A i \in 1 .. n : s[i] \in V
    PROVE  /\ Keyed(Replaced(V, s, r))
           /\ \A i, j \in 1 .. n : r[i] = r[j] => i = j
           /\ \A i \in 1 .. n : r[i] \notin V \ {s[j] : j \in 1 .. n}
           /\ Replaced(V, s, r) = (V \ {s[j] : j \in 1 .. n}) \cup {r[j] : j \in 1 .. n}
<1> DEFINE K == V \ {s[j] : j \in 1 .. n}
           R == {r[j] : j \in 1 .. n}
<1>1. DOMAIN s = 1 .. n /\ DOMAIN r = 1 .. n BY DEF Rewritten
<1>2. Replaced(V, s, r) = K \cup R BY <1>1 DEF Replaced, ToSet
<1>3. \A i, j \in 1 .. n : s[i].id = s[j].id => i = j BY DEF Keyed, Rewritten
<1>4. \A i, j \in 1 .. n : r[i].id = r[j].id => i = j BY <1>3 DEF Rewritten
<1>5. \A i \in 1 .. n : \A l \in K : l.id # r[i].id
  <2> SUFFICES ASSUME NEW i \in 1 .. n, NEW l \in K, l.id = r[i].id PROVE FALSE OBVIOUS
  <2>1. l.id = s[i].id /\ l \in V /\ s[i] \in V BY DEF Rewritten
  <2>2. l = s[i] BY <2>1 DEF Keyed
  <2> QED BY <2>2
<1>6. \A i \in 1 .. n : r[i].acquired \in Nat BY DEF Keyed, Rewritten
<1>7. \A l \in K : l \in V OBVIOUS
<1>8. \A m \in R : \E i \in 1 .. n : m = r[i] OBVIOUS
<1>9. \A i \in 1 .. n : r[i] \in R OBVIOUS
<1> HIDE DEF K, R
<1>10. \A l, m \in K \cup R : l.id = m.id => l = m
  <2> SUFFICES ASSUME NEW l \in K \cup R, NEW m \in K \cup R, l.id = m.id PROVE l = m
    OBVIOUS
  <2>1. CASE l \in K /\ m \in K BY <1>7, <2>1 DEF Keyed
  <2>2. CASE l \in K /\ m \in R BY <1>5, <1>8, <2>2
  <2>3. CASE l \in R /\ m \in K BY <1>5, <1>8, <2>3
  <2>4. CASE l \in R /\ m \in R BY <1>4, <1>8, <2>4
  <2> QED BY <2>1, <2>2, <2>3, <2>4
<1>11. \A l \in K \cup R : l.acquired \in Nat BY <1>6, <1>7, <1>8 DEF Keyed
<1>12. Keyed(K \cup R) BY <1>10, <1>11 DEF Keyed
<1>13. \A i \in 1 .. n : r[i] \notin K BY <1>5
<1> QED BY <1>2, <1>4, <1>12, <1>13 DEF K, R

\* What lots weigh in all, when some are written again.
LEMMA ReplacedTotal ==
    ASSUME NEW V, Keyed(V), NEW n \in Nat, NEW s, NEW r, Rewritten(s, r, n),
           \A i \in 1 .. n : s[i] \in V,
           NEW val, Fractional(val), V \cup Replaced(V, s, r) \subseteq DOMAIN val,
           NEW hs, Fractional(hs), DOMAIN hs = 1 .. n, \A i \in 1 .. n : hs[i] = val[s[i]],
           NEW hr, Fractional(hr), DOMAIN hr = 1 .. n, \A i \in 1 .. n : hr[i] = val[r[i]]
    PROVE  Plus(Part(val, Replaced(V, s, r)), Part(hs, 1 .. n))
             = Plus(Part(val, V), Part(hr, 1 .. n))
<1> DEFINE S == {s[j] : j \in 1 .. n}
           R == {r[j] : j \in 1 .. n}
           K == V \ S
           W == Replaced(V, s, r)
<1>1. /\ DOMAIN s = 1 .. n /\ DOMAIN r = 1 .. n
      /\ \A i, j \in 1 .. n : s[i] = s[j] => i = j
  BY DEF Rewritten
<1>2. /\ \A i, j \in 1 .. n : r[i] = r[j] => i = j
      /\ \A i \in 1 .. n : r[i] \notin K
      /\ W = K \cup R
  BY ReplacedKeyed
<1>3. S \subseteq V /\ V = K \cup S /\ K \cap S = {} OBVIOUS
<1>4. K \cap R = {} BY <1>2
<1>5. \A i \in 1 .. n : r[i] \in W /\ r[i] \in DOMAIN val /\ s[i] \in DOMAIN val BY <1>2
<1>6. 1 .. n \in SUBSET (1 .. n) OBVIOUS
<1>7. Part(val, S) = Part(hs, 1 .. n)
  <2>1. /\ DOMAIN hs = DOMAIN s /\ 1 .. n \in SUBSET DOMAIN s
        /\ \A i \in DOMAIN s : s[i] \in DOMAIN val /\ hs[i] = val[s[i]]
        /\ \A i, j \in DOMAIN s : s[i] = s[j] => i = j
    BY <1>1, <1>5
  <2> QED BY <2>1, PartImage
<1>8. Part(val, R) = Part(hr, 1 .. n)
  <2>1. /\ DOMAIN hr = DOMAIN r /\ 1 .. n \in SUBSET DOMAIN r
        /\ \A i \in DOMAIN r : r[i] \in DOMAIN val /\ hr[i] = val[r[i]]
        /\ \A i, j \in DOMAIN r : r[i] = r[j] => i = j
    BY <1>1, <1>2, <1>5
  <2> QED BY <2>1, PartImage
<1>9. K \in SUBSET DOMAIN val /\ S \in SUBSET DOMAIN val /\ R \in SUBSET DOMAIN val BY <1>2
<1> HIDE DEF K, S, R, W
<1>10. Part(val, V) = Plus(Part(val, K), Part(val, S)) BY <1>3, <1>9, PartUnion
<1>11. Part(val, W) = Plus(Part(val, K), Part(val, R)) BY <1>2, <1>4, <1>9, PartUnion
<1> DEFINE k == Part(val, K)
           x == Part(val, S)
           y == Part(val, R)
<1>12. IsFraction(k) /\ IsFraction(x) /\ IsFraction(y) BY <1>9, PartGrows
<1> HIDE DEF k, x, y
<1>13. Plus(Plus(k, y), x) = Plus(Plus(k, x), y)
  <2>1. Plus(Plus(k, y), x) = Plus(k, Plus(y, x)) /\ Plus(Plus(k, x), y) = Plus(k, Plus(x, y))
    BY <1>12, PlusSwap
  <2>2. Plus(x, y) = Plus(y, x) BY <1>12, PlusSwap
  <2> QED BY <2>1, <2>2
<1>14. Part(val, W) = Plus(k, y) /\ Part(val, V) = Plus(k, x) BY <1>10, <1>11 DEF k, x, y
<1>15. Part(hs, 1 .. n) = x /\ Part(hr, 1 .. n) = y BY <1>7, <1>8 DEF x, y
<1> QED BY <1>13, <1>14, <1>15 DEF W

\* The same on both sides.
LEMMA PlusCancels ==
    ASSUME NEW x, NEW y, NEW z, IsFraction(x), IsFraction(y), IsFraction(z),
           Plus(x, z) = Plus(y, z)
    PROVE  x = y
<1>1. PICK d \in Nat \ {0} : HasDen(x, d) /\ HasDen(y, d) /\ HasDen(z, d) BY CommonThree
<1>2. PICK n \in Int, m \in Int, k \in Int : x = Frac(n, d) /\ y = Frac(m, d) /\ z = Frac(k, d)
  BY <1>1, Zenon DEF HasDen
<1>3. n + k \in Int /\ m + k \in Int OBVIOUS
<1>4. Frac(n + k, d) = Frac(m + k, d) BY <1>2, PlusFrac
<1>5. (n + k) * d = (m + k) * d BY <1>3, <1>4, FracEq
<1>6. n + k = m + k BY <1>3, <1>5, Cancel
<1>7. n = m BY <1>6
<1> QED BY <1>2, <1>7

\* Lots written again that weigh the same.
LEMMA ReplacedEven ==
    ASSUME NEW V, Keyed(V), NEW n \in Nat, NEW s, NEW r, Rewritten(s, r, n),
           \A i \in 1 .. n : s[i] \in V,
           NEW val, Fractional(val), V \cup Replaced(V, s, r) \subseteq DOMAIN val,
           \A i \in 1 .. n : val[r[i]] = val[s[i]]
    PROVE  Part(val, Replaced(V, s, r)) = Part(val, V)
<1> DEFINE h == [i \in 1 .. n |-> val[s[i]]]
           W == Replaced(V, s, r)
<1>1. DOMAIN h = 1 .. n /\ \A i \in 1 .. n : h[i] = val[s[i]] /\ h[i] = val[r[i]] OBVIOUS
<1>2. IsFiniteSet(1 .. n) BY FS_Interval
<1>3. \A i \in 1 .. n : s[i] \in DOMAIN val OBVIOUS
<1> HIDE DEF h
<1>4. Fractional(h) BY <1>1, <1>2, <1>3 DEF Fractional
<1>5. Plus(Part(val, W), Part(h, 1 .. n)) = Plus(Part(val, V), Part(h, 1 .. n))
  BY <1>1, <1>4, ReplacedTotal
<1>6. IsFraction(Part(val, W)) /\ IsFraction(Part(val, V)) BY PartGrows
<1>7. IsFraction(Part(h, 1 .. n)) BY <1>1, <1>4, PartGrows
<1> HIDE DEF W
<1> QED BY <1>5, <1>6, <1>7, PlusCancels DEF W

-----------------------------------------------------------------------------
(* The units of an account in a set of lots.                               *)

\* Subtraction undoes addition.
LEMMA MinusPlus ==
    ASSUME NEW x, NEW y, IsFraction(x), IsFraction(y)
    PROVE  Plus(Minus(x, y), y) = x /\ Minus(Plus(x, y), y) = x
<1>1. PICK d \in Nat \ {0}, n \in Int, m \in Int : x = Frac(n, d) /\ y = Frac(m, d)
  BY CommonTwo
<1>2. n - m \in Int /\ n + m \in Int /\ (n - m) + m = n /\ (n + m) - m = n OBVIOUS
<1>3. Minus(x, y) = Frac(n - m, d) /\ Plus(x, y) = Frac(n + m, d)
  BY <1>1, MinusFrac, PlusFrac
<1>4. Plus(Frac(n - m, d), Frac(m, d)) = Frac((n - m) + m, d) BY <1>2, PlusFrac
<1>5. Minus(Frac(n + m, d), Frac(m, d)) = Frac((n + m) - m, d) BY <1>2, MinusFrac
<1> QED BY <1>1, <1>2, <1>3, <1>4, <1>5

\* The days up to some day, or all of them.
Early(D) == D \subseteq Nat /\ \A x \in D : \A y \in Nat : y <= x => y \in D

\* What a lot holds in account a, if it was acquired on a day of D.
Weight(B, a, D) == [l \in B |-> IF l.acct = a /\ l.acquired \in D THEN l.rem ELSE Zero]
UnitsIn(V, a, D) == Part(Weight(V, a, D), V)

\* It may be weighed in a larger set.
LEMMA WeightIn ==
    ASSUME NEW B, NEW V, V \subseteq B, NEW a, NEW D
    PROVE  Part(Weight(B, a, D), V) = UnitsIn(V, a, D)
<1>1. \A l \in V : Weight(B, a, D)[l] = Weight(V, a, D)[l] BY DEF Weight
<1>2. Part(Weight(B, a, D), V) = Part(Weight(V, a, D), V) BY <1>1, PartSame
<1> QED BY <1>2 DEF UnitsIn

\* What it is.
WeightIs(B, a, D, val) ==
    /\ DOMAIN val = B
    /\ \A l \in B : val[l] = IF l.acct = a /\ l.acquired \in D THEN l.rem ELSE Zero

\* So it is.
LEMMA WeightOf == ASSUME NEW B, NEW a, NEW D PROVE WeightIs(B, a, D, Weight(B, a, D))
BY DEF WeightIs, Weight

\* Lots that are finite and hold fractions can be weighed.
Weighable(B) == IsFiniteSet(B) /\ \A l \in B : IsFraction(l.rem)

\* So it is.
LEMMA WeightType ==
    ASSUME NEW B, Weighable(B), NEW a, NEW D
    PROVE  Fractional(Weight(B, a, D)) /\ IsFraction(UnitsIn(B, a, D))
<1>1. Fractional(Weight(B, a, D)) BY ZeroFrac DEF Weight, Weighable, Fractional
<1>2. DOMAIN Weight(B, a, D) = B BY DEF Weight
<1> QED BY <1>1, <1>2, PartGrows DEF UnitsIn

\* The first n places.
LEMMA PlacesFinite == ASSUME NEW n \in Nat PROVE IsFiniteSet(1 .. n)
BY FS_Interval

\* Lots that are written again can be weighed with the others.
LEMMA ReplacedWeighable ==
    ASSUME NEW V, Weighable(V), NEW n \in Nat, NEW s, NEW r, DOMAIN r = 1 .. n,
           r = [i \in 1 .. n |-> r[i]], \A i \in 1 .. n : IsFraction(r[i].rem)
    PROVE  Weighable(V \cup Replaced(V, s, r))
<1> DEFINE R == {r[i] : i \in DOMAIN r}
<1>0. IsFiniteSet(1 .. n) BY PlacesFinite, Zenon
<1>1. IsFiniteSet(DOMAIN r) BY <1>0
<1>2. IsFiniteSet(R) BY <1>1, FiniteRange
<1>a. ToSet(r) = R BY DEF ToSet
<1>b. Replaced(V, s, r) = (V \ ToSet(s)) \cup R BY <1>a DEF Replaced
<1>3. V \cup Replaced(V, s, r) = V \cup R BY <1>b
<1>4. \A l \in R : IsFraction(l.rem) OBVIOUS
<1> HIDE DEF R
<1>5. IsFiniteSet(V \cup R) BY <1>2, FS_Union DEF Weighable
<1> QED BY <1>3, <1>4, <1>5 DEF Weighable

\* The lots of early days come first.
LEMMA EarlyFirst ==
    ASSUME NEW D, Early(D), NEW n \in Nat, NEW s,
           \A i \in 1 .. n : s[i].acquired \in Nat,
           \A i, j \in 1 .. n : i < j => s[i].acquired <= s[j].acquired
    PROVE  \E k \in 0 .. n : \A i \in 1 .. n : s[i].acquired \in D <=> i <= k
<1> DEFINE Late == {i \in 1 .. n : s[i].acquired \notin D}
<1>1. CASE Late = {}
  <2>1. n \in 0 .. n /\ \A i \in 1 .. n : s[i].acquired \in D <=> i <= n BY <1>1
  <2> QED BY <2>1
<1>2. CASE Late # {}
  <2>1. Late \in SUBSET Nat OBVIOUS
  <2>2. PICK m \in Late : \A i \in Late : m <= i
    <3> HIDE DEF Late
    <3> QED BY <1>2, <2>1, LeastNumber
  <2>3. m \in 1 .. n /\ s[m].acquired \notin D OBVIOUS
  <2>4. \A i \in 1 .. n : i < m => s[i].acquired \in D
    <3> SUFFICES ASSUME NEW i \in 1 .. n, i < m, i \in Late PROVE FALSE OBVIOUS
    <3> HIDE DEF Late
    <3>1. m <= i BY <2>2
    <3> QED BY <2>3, <3>1
  <2>5. ASSUME NEW i \in 1 .. n, m <= i, s[i].acquired \in D PROVE FALSE
    <3>1. s[m].acquired <= s[i].acquired BY <2>3, <2>5
    <3>2. s[m].acquired \in Nat BY <2>3
    <3> QED BY <2>3, <2>5, <3>1, <3>2 DEF Early
  <2> HIDE DEF Late
  <2>6. m - 1 \in 0 .. n /\ \A i \in 1 .. n : s[i].acquired \in D <=> i <= m - 1
    BY <2>3, <2>4, <2>5
  <2> QED BY <2>6
<1> QED BY <1>1, <1>2

\* Closed lots have nothing left.
LEMMA ClosedEmpty ==
    ASSUME NEW T, NEW l, SoundLot(l, T), ~IsOpen(l)
    PROVE  l.rem = Zero
BY DEF SoundLot, Units0, UnitsOf, IsOpen

\* Written again, lots have what the loop leaves them.
Lessened(s, r, n, need) ==
    /\ Rewritten(s, r, n) /\ r = [i \in 1 .. n |-> r[i]]
    /\ \A i \in 1 .. n : r[i].rem = Minus(s[i].rem, Taken(Caps(s), need)[i])

\* A loop over the open lots of an account, in the order of their days.
Walked(V, acct, s, n) ==
    /\ DOMAIN s = 1 .. n
    /\ \A i, j \in 1 .. n : s[i] = s[j] => i = j
    /\ {s[i] : i \in 1 .. n} = OpenLots(V, acct)
    /\ \A i, j \in 1 .. n : i < j => s[i].acquired <= s[j].acquired

\* An order of the open lots is such a loop.
LEMMA FifoWalked ==
    ASSUME NEW V, IsFiniteSet(V), NEW acct, NEW s \in Fifo(OpenLots(V, acct))
    PROVE  \E n \in Nat : Walked(V, acct, s, n)
<1>1. OpenLots(V, acct) \subseteq V BY DEF OpenLots
<1>2. IsFiniteSet(OpenLots(V, acct)) BY <1>1, FS_Subset
<1> QED BY <1>2, FifoAll DEF Walked

\* The units of an account are in the lots of its loop.
LEMMA WalkedUnits ==
    ASSUME NEW T, NEW V, SoundLots(V, T), NEW a, NEW D, NEW s, NEW n \in Nat,
           Walked(V, a, s, n),
           NEW hs, DOMAIN hs = 1 .. n,
           \A i \in 1 .. n : hs[i] = IF s[i].acquired \in D THEN s[i].rem ELSE Zero
    PROVE  Fractional(hs) /\ UnitsIn(V, a, D) = Part(hs, 1 .. n)
<1> DEFINE val == Weight(V, a, D)
           S == {s[i] : i \in 1 .. n}
<1>1. IsFiniteSet(V) /\ \A l \in V : SoundLot(l, T) BY DEF SoundLots
<1>2. \A l \in V : IsFraction(l.rem) BY <1>1, LotParts
<1>3. Weighable(V) BY <1>1, <1>2 DEF Weighable
<1>4. /\ Fractional(val) /\ DOMAIN val = V
      /\ \A l \in V : val[l] = IF l.acct = a /\ l.acquired \in D THEN l.rem ELSE Zero
  <2>1. Fractional(val) BY <1>3, WeightType
  <2>2. DOMAIN val = V /\ \A l \in V : val[l] = IF l.acct = a /\ l.acquired \in D
                                                 THEN l.rem ELSE Zero
    BY Zenon DEF Weight
  <2> QED BY <2>1, <2>2
<1>5. S = OpenLots(V, a) BY DEF Walked
<1>6. \A i \in 1 .. n : s[i] \in V /\ s[i].acct = a
  <2>1. \A i \in 1 .. n : s[i] \in S OBVIOUS
  <2> HIDE DEF S
  <2> QED BY <1>5, <2>1 DEF OpenLots
<1>7. \A l \in V \ S : val[l] = Zero
  <2> SUFFICES ASSUME NEW l \in V, l \notin S PROVE val[l] = Zero OBVIOUS
  <2> HIDE DEF S, val
  <2>1. CASE l.acct = a
    <3>1. ~IsOpen(l) BY <1>5, <2>1 DEF OpenLots
    <3>2. l.rem = Zero BY <1>1, <3>1, ClosedEmpty
    <3> QED BY <1>4, <3>2
  <2>2. CASE l.acct # a BY <1>4, <2>2
  <2> QED BY <2>1, <2>2
<1>8. S \in SUBSET V BY <1>5 DEF OpenLots
<1>9. UnitsIn(V, a, D) = Part(val, V) BY DEF UnitsIn
<1>10. \A i \in 1 .. n : hs[i] = val[s[i]]
  <2> HIDE DEF val
  <2> QED BY <1>4, <1>6
<1> HIDE DEF val
<1>11. Fractional(hs)
  <2>1. IsFiniteSet(1 .. n) BY PlacesFinite, Zenon
  <2>2. \A i \in 1 .. n : IsFraction(hs[i]) BY <1>4, <1>6, <1>10 DEF Fractional
  <2> QED BY <2>1, <2>2 DEF Fractional
<1>12. Part(val, S) = Part(hs, 1 .. n)
  <2>1. DOMAIN hs = DOMAIN s /\ 1 .. n \in SUBSET DOMAIN s BY DEF Walked
  <2>2. \A i \in DOMAIN s : s[i] \in DOMAIN val /\ hs[i] = val[s[i]]
    BY <1>4, <1>6, <1>10, <2>1
  <2>3. \A i, j \in DOMAIN s : s[i] = s[j] => i = j BY DEF Walked
  <2> QED BY <1>4, <1>11, <2>1, <2>2, <2>3, PartImage
<1> HIDE DEF S
<1>13. Part(val, V) = Plus(Part(val, S), Part(val, V \ S))
  <2>1. S \cap (V \ S) = {} /\ S \cup (V \ S) = V /\ V \ S \in SUBSET V BY <1>8
  <2>2. Part(val, S \cup (V \ S)) = Plus(Part(val, S), Part(val, V \ S))
    BY <1>4, <1>8, <2>1, PartUnion
  <2> QED BY <2>1, <2>2
<1>14. Part(val, V \ S) = Zero
  <2>1. V \ S \in SUBSET DOMAIN val BY <1>4
  <2> QED BY <1>4, <1>7, <2>1, PartZero
<1>15. IsFraction(Part(hs, 1 .. n)) BY <1>11, PartGrows
<1> QED BY <1>9, <1>11, <1>12, <1>13, <1>14, <1>15, PlusZero

\* Two sets of lots may be weighed as parts of a third.
LEMMA WeightBoth ==
    ASSUME NEW B, Weighable(B), NEW V, NEW W, V \subseteq B, W \subseteq B, NEW a, NEW D
    PROVE  \E val : /\ Fractional(val) /\ WeightIs(B, a, D, val)
                    /\ Part(val, V) = UnitsIn(V, a, D) /\ Part(val, W) = UnitsIn(W, a, D)
<1>1. Fractional(Weight(B, a, D)) BY WeightType
<1>2. Part(Weight(B, a, D), V) = UnitsIn(V, a, D) BY WeightIn
<1>3. Part(Weight(B, a, D), W) = UnitsIn(W, a, D) BY WeightIn
<1>4. WeightIs(B, a, D, Weight(B, a, D)) BY WeightOf
<1> QED BY <1>1, <1>2, <1>3, <1>4, Zenon

\* The sum of the first k.
FirstOf(h, f, n, k) ==
    /\ DOMAIN h = 1 .. n /\ DOMAIN f = 1 .. n
    /\ \A i \in 1 .. n : h[i] = IF i \in 1 .. k THEN f[i] ELSE Zero

\* The sum over the first k.
LEMMA PartFirst ==
    ASSUME NEW n \in Nat, NEW k \in 0 .. n, NEW f, Fractional(f), NEW h, FirstOf(h, f, n, k)
    PROVE  Fractional(h) /\ Part(h, 1 .. n) = Part(f, 1 .. k)
<1> DEFINE E == 1 .. k
           U == 1 .. n
<1>1. U \cap E = E OBVIOUS
<1>2. DOMAIN h = DOMAIN f /\ DOMAIN f = U
      /\ \A x \in DOMAIN f : h[x] = IF x \in E THEN f[x] ELSE Zero
  BY DEF FirstOf
<1> HIDE DEF E, U
<1>3. U \in SUBSET DOMAIN f BY <1>2
<1>4. Fractional(h) /\ Part(h, U) = Part(f, U \cap E) BY <1>2, <1>3, PartFilter
<1> QED BY <1>1, <1>4 DEF E, U

\* A loop takes the units it needs out of its account, those of early days first.
LEMMA TakenUnits ==
    ASSUME NEW T, NEW V, SoundLots(V, T), Keyed(V), NEW need, NonNeg(need), NEW acct,
           NEW s, NEW n \in Nat, Walked(V, acct, s, n),
           NEW r, Lessened(s, r, n, need), NEW D, Early(D)
    PROVE  /\ UnitsIn(Replaced(V, s, r), acct, D)
                = Minus(UnitsIn(V, acct, D), Lesser(UnitsIn(V, acct, D), need))
           /\ \A a : a # acct => UnitsIn(Replaced(V, s, r), a, D) = UnitsIn(V, a, D)
<1> DEFINE cap == Caps(s)
           q == Taken(cap, need)
           W == Replaced(V, s, r)
           B == V \cup W
<1>1. /\ IsFiniteSet(V) /\ (\A l \in V : SoundLot(l, T))
      /\ Rewritten(s, r, n) /\ r = [i \in 1 .. n |-> r[i]] /\ DOMAIN r = 1 .. n
      /\ DOMAIN s = 1 .. n
  BY DEF SoundLots, Lessened, Rewritten
<1>2. \A l \in V : IsFraction(l.rem) /\ NonNeg(l.rem) BY <1>1, LotParts
<1>3. \A i \in 1 .. n : s[i] \in V /\ s[i].acct = acct
  <2>1. \A i \in 1 .. n : s[i] \in {s[j] : j \in 1 .. n} OBVIOUS
  <2> QED BY <2>1 DEF Walked, OpenLots
<1>4. DOMAIN cap = 1 .. n /\ \A j \in 1 .. n : cap[j] = s[j].rem BY <1>1, Zenon DEF Caps
<1>5. \A j \in 1 .. n : NonNeg(cap[j])
  <2> HIDE DEF cap
  <2> QED BY <1>2, <1>3, <1>4
<1>6. \A i \in 1 .. n : r[i].rem = Minus(cap[i], q[i]) /\ r[i].acct = s[i].acct
                        /\ r[i].acquired = s[i].acquired
  BY <1>4 DEF Lessened, Rewritten
<1> HIDE DEF cap
<1>7. Fractional(cap) /\ Fractional(q) /\ DOMAIN q = 1 .. n
  <2>1. n \in 0 .. n OBVIOUS
  <2> QED BY <1>4, <1>5, <2>1, TakenTotal
<1>8. \A k \in 0 .. n : Part(q, 1 .. k) = Lesser(Part(cap, 1 .. k), need)
  BY <1>4, <1>5, TakenTotal
<1> HIDE DEF q
<1>9. \A i \in 1 .. n : IsFraction(r[i].rem)
  <2> SUFFICES ASSUME NEW i \in 1 .. n PROVE IsFraction(r[i].rem) OBVIOUS
  <2>1. IsFraction(cap[i]) /\ IsFraction(q[i]) BY <1>4, <1>7 DEF Fractional
  <2>2. IsFraction(Minus(cap[i], q[i])) BY <2>1, PlusType
  <2> QED BY <1>6, <2>2
<1>10. Weighable(V) BY <1>1, <1>2 DEF Weighable
<1>11. Weighable(B) BY <1>1, <1>9, <1>10, ReplacedWeighable
<1>12. \A i \in 1 .. n : r[i] \in W
  BY <1>1 DEF Replaced, ToSet
<1> HIDE DEF W
<1>13. V \in SUBSET B /\ W \in SUBSET B OBVIOUS
<1>14. \A i \in 1 .. n : r[i] \in B /\ s[i] \in B BY <1>3, <1>12
<1>15. ASSUME NEW a
       PROVE  \E val : /\ Fractional(val) /\ WeightIs(B, a, D, val)
                       /\ Part(val, V) = UnitsIn(V, a, D) /\ Part(val, W) = UnitsIn(W, a, D)
  <2> HIDE DEF B
  <2>1. V \subseteq B /\ W \subseteq B BY <1>13
  <2> QED BY <1>11, <2>1, WeightBoth
<1>16. ASSUME NEW a, a # acct PROVE UnitsIn(W, a, D) = UnitsIn(V, a, D)
  <2>a. PICK val : /\ Fractional(val) /\ WeightIs(B, a, D, val)
                   /\ Part(val, V) = UnitsIn(V, a, D) /\ Part(val, W) = UnitsIn(W, a, D)
    BY <1>15
  <2>1. /\ Fractional(val) /\ DOMAIN val = B
        /\ Part(val, V) = UnitsIn(V, a, D) /\ Part(val, W) = UnitsIn(W, a, D)
        /\ \A l \in B : val[l] = IF l.acct = a /\ l.acquired \in D THEN l.rem ELSE Zero
    BY <2>a DEF WeightIs
  <2>2. \A i \in 1 .. n : r[i].acct # a /\ s[i].acct # a BY <1>3, <1>6, <1>16
  <2> HIDE DEF B
  <2>3. \A i \in 1 .. n : val[r[i]] = val[s[i]] BY <1>14, <2>1, <2>2
  <2>4. V \cup Replaced(V, s, r) \subseteq DOMAIN val BY <2>1 DEF B, W
  <2>5. \A i \in 1 .. n : s[i] \in V BY <1>3
  <2>6. Part(val, Replaced(V, s, r)) = Part(val, V)
    BY <1>1, <2>1, <2>3, <2>4, <2>5, ReplacedEven
  <2> QED BY <2>1, <2>6 DEF W
<1>17. UnitsIn(W, acct, D) = Minus(UnitsIn(V, acct, D), Lesser(UnitsIn(V, acct, D), need))
  <2>a. PICK val : /\ Fractional(val) /\ WeightIs(B, acct, D, val)
                   /\ Part(val, V) = UnitsIn(V, acct, D) /\ Part(val, W) = UnitsIn(W, acct, D)
    BY <1>15
  <2> DEFINE hs == [i \in 1 .. n |-> IF s[i].acquired \in D THEN cap[i] ELSE Zero]
             hr == [i \in 1 .. n |-> IF s[i].acquired \in D THEN r[i].rem ELSE Zero]
             qd == [i \in 1 .. n |-> IF s[i].acquired \in D THEN q[i] ELSE Zero]
  <2>1. /\ Fractional(val) /\ DOMAIN val = B
        /\ Part(val, V) = UnitsIn(V, acct, D) /\ Part(val, W) = UnitsIn(W, acct, D)
        /\ \A l \in B : val[l] = IF l.acct = acct /\ l.acquired \in D THEN l.rem ELSE Zero
    BY <2>a DEF WeightIs
  <2>2. PICK k \in 0 .. n : \A i \in 1 .. n : s[i].acquired \in D <=> i <= k
    <3>1. \A i \in 1 .. n : s[i].acquired \in Nat BY <1>3 DEF Keyed
    <3>2. \A i, j \in 1 .. n : i < j => s[i].acquired <= s[j].acquired BY DEF Walked
    <3> QED BY <3>1, <3>2, EarlyFirst
  <2>3. DOMAIN hs = 1 .. n /\ DOMAIN hr = 1 .. n /\ DOMAIN qd = 1 .. n OBVIOUS
  <2>4. \A i \in 1 .. n : /\ hs[i] = IF i \in 1 .. k THEN cap[i] ELSE Zero
                          /\ qd[i] = IF i \in 1 .. k THEN q[i] ELSE Zero
                          /\ hr[i] = IF i \in 1 .. k THEN r[i].rem ELSE Zero
                          /\ hs[i] = IF s[i].acquired \in D THEN s[i].rem ELSE Zero
    BY <1>4, <2>2
  <2>5. \A i \in 1 .. n : /\ hs[i] = IF s[i].acquired \in D THEN s[i].rem ELSE Zero
                          /\ hr[i] = IF s[i].acquired \in D THEN r[i].rem ELSE Zero
    BY <1>4
  <2> HIDE DEF hs, hr, qd
  <2>6. (1 .. n) \cap (1 .. k) = 1 .. k BY <2>2
  <2>7. Fractional(hs) /\ Part(hs, 1 .. n) = Part(cap, 1 .. k)
    <3>1. FirstOf(hs, cap, n, k) BY <1>4, <2>3, <2>4 DEF FirstOf
    <3> QED BY <1>7, <3>1, PartFirst
  <2>8. Fractional(qd) /\ Part(qd, 1 .. n) = Part(q, 1 .. k)
    <3>1. FirstOf(qd, q, n, k) BY <1>7, <2>3, <2>4 DEF FirstOf
    <3> QED BY <1>7, <3>1, PartFirst
  <2>9. UnitsIn(V, acct, D) = Part(hs, 1 .. n) BY <2>3, <2>5, WalkedUnits
  <2>10. \A i \in 1 .. n : s[i] \in V /\ hs[i] = val[s[i]] /\ hr[i] = val[r[i]]
    <3> SUFFICES ASSUME NEW i \in 1 .. n PROVE hs[i] = val[s[i]] /\ hr[i] = val[r[i]]
      BY <1>3
    <3>1. s[i] \in B /\ r[i] \in B BY <1>14
    <3> HIDE DEF B
    <3>2. val[s[i]] = IF s[i].acct = acct /\ s[i].acquired \in D THEN s[i].rem ELSE Zero
      BY <2>1, <3>1
    <3>3. val[r[i]] = IF r[i].acct = acct /\ r[i].acquired \in D THEN r[i].rem ELSE Zero
      BY <2>1, <3>1
    <3>4. s[i].acct = acct /\ r[i].acct = acct /\ r[i].acquired = s[i].acquired
      BY <1>3, <1>6
    <3> QED BY <2>5, <3>2, <3>3, <3>4
  <2>11. Fractional(hr)
    <3>1. \A i \in 1 .. n : IsFraction(hr[i]) BY <1>9, <2>5, ZeroFrac
    <3>2. IsFiniteSet(1 .. n) BY PlacesFinite, Zenon
    <3> QED BY <2>3, <3>1, <3>2 DEF Fractional
  <2>12. \A i \in DOMAIN hs : hs[i] = Plus(hr[i], qd[i])
    <3> SUFFICES ASSUME NEW i \in 1 .. n PROVE hs[i] = Plus(hr[i], qd[i]) BY <2>3
    <3>1. CASE i \in 1 .. k
      <4>1. IsFraction(cap[i]) /\ IsFraction(q[i]) BY <1>4, <1>7 DEF Fractional
      <4>2. cap[i] = Plus(Minus(cap[i], q[i]), q[i]) BY <4>1, MinusPlus
      <4> QED BY <1>6, <2>4, <3>1, <4>2
    <3>2. CASE i \notin 1 .. k
      <4>1. hs[i] = Zero /\ hr[i] = Zero /\ qd[i] = Zero BY <2>4, <3>2
      <4>2. Plus(Zero, Zero) = Zero BY ZeroFrac, PlusZero
      <4> QED BY <4>1, <4>2
    <3> QED BY <3>1, <3>2
  <2> DEFINE u == Part(hs, 1 .. n)
             v == Part(hr, 1 .. n)
             w == Part(val, W)
  <2>13. u = Plus(v, Lesser(u, need))
    <3>1. Part(hs, 1 .. n) = Plus(Part(hr, 1 .. n), Part(qd, 1 .. n))
      BY <2>3, <2>8, <2>11, <2>12, PartPlus
    <3>2. Part(qd, 1 .. n) = Lesser(u, need) BY <1>8, <2>2, <2>7, <2>8
    <3> QED BY <3>1, <3>2
  <2>14. Plus(w, u) = Plus(u, v)
    <3>1. V \cup Replaced(V, s, r) \subseteq DOMAIN val BY <2>1 DEF B, W
    <3>2. Plus(Part(val, Replaced(V, s, r)), Part(hs, 1 .. n))
             = Plus(Part(val, V), Part(hr, 1 .. n))
      BY <1>1, <2>1, <2>3, <2>7, <2>10, <2>11, <3>1, ReplacedTotal
    <3> QED BY <2>1, <2>9, <3>2 DEF W
  <2>15. IsFraction(u) /\ IsFraction(v) /\ IsFraction(w)
    <3>1. W \in SUBSET DOMAIN val BY <1>13, <2>1
    <3> QED BY <2>1, <2>3, <2>7, <2>11, <3>1, PartGrows
  <2>16. IsFraction(Lesser(u, need)) BY <2>15, OrderType DEF NonNeg
  <2> HIDE DEF u, v, w
  <2>17. v = w
    <3>1. Plus(u, v) = Plus(v, u) BY <2>15, PlusSwap
    <3> QED BY <2>14, <2>15, <3>1, PlusCancels
  <2>18. Minus(Plus(v, Lesser(u, need)), Lesser(u, need)) = v BY <2>15, <2>16, MinusPlus
  <2>19. w = Minus(u, Lesser(u, need)) BY <2>13, <2>17, <2>18
  <2> QED BY <2>1, <2>9, <2>19 DEF u, w
<1> QED BY <1>16, <1>17 DEF W

\* The holdings behind Held(T, S), set by set.
NoHoldings == [a \in Accounts |-> Zero]
HoldStep(g, T, S) == IF S = {} THEN NoHoldings ELSE Counted(T, Latest(S), g[S \ {Latest(S)}])
IsHold(g, T, S) == g = [U \in SUBSET S |-> HoldStep(g, T, U)]
\* g has the holdings after each set of transactions.
Holds(g, T, S) == \A U \in SUBSET S : g[U] = HoldStep(g, T, U)

\* The fold, as the function it is chosen from.
LEMMA HeldUnfolds ==
    ASSUME NEW T, NEW S
    PROVE  Held(T, S) = (CHOOSE g : IsHold(g, T, S))[S]
BY Zenon DEF Held, MapThenFoldSet, IsHold, HoldStep, NoHoldings

\* A finite set of transactions has a latest.
LEMMA LatestIn ==
    ASSUME NEW S \in SUBSET Transactions, IsFiniteSet(S), S # {}
    PROVE  Latest(S) \in S /\ \A u \in S : u.id <= Latest(S).id
<1> DEFINE Good(U) == U = {} \/ \E t \in U : \A u \in U : u.id <= t.id
           Bad == {U \in SUBSET S : ~Good(U)}
<1>1. \A t \in S : t.id \in Nat BY ShapeOf
<1>2. CASE Bad # {}
  <2>1. PICK U \in Bad : \A W \in SUBSET U : W # U => W \notin Bad
    <3>1. Bad \in SUBSET (SUBSET S) OBVIOUS
    <3> HIDE DEF Bad
    <3> QED BY <1>2, <3>1, LeastSet
  <2>2. U \in SUBSET S /\ ~Good(U) OBVIOUS
  <2>3. PICK x \in U : TRUE BY <2>2
  <2> DEFINE W == U \ {x}
  <2>4. W \in SUBSET U /\ W # U /\ W \in SUBSET S BY <2>2, <2>3
  <2>5. Good(W) BY <2>1, <2>4
  <2>6. CASE W = {}
    <3>1. U = {x} BY <2>3, <2>6
    <3> QED BY <1>1, <2>2, <3>1
  <2>7. CASE W # {}
    <3>1. PICK t \in W : \A u \in W : u.id <= t.id BY <2>5, <2>7
    <3>2. t.id \in Nat /\ x.id \in Nat /\ \A u \in W : u.id \in Nat BY <1>1, <2>2, <2>3, <2>4, <3>1
    <3>3. \A u \in U : u \in W \/ u = x OBVIOUS
    <3>4. CASE x.id <= t.id
      <4>1. \A u \in U : u.id <= t.id BY <3>1, <3>3, <3>4
      <4> QED BY <2>2, <2>4, <3>1, <4>1
    <3>5. CASE ~(x.id <= t.id)
      <4> HIDE DEF W
      <4>1. \A u \in W : u.id <= x.id BY <3>1, <3>2, <3>5
      <4>2. \A u \in U : u.id <= x.id BY <3>2, <3>3, <4>1
      <4> QED BY <2>2, <2>3, <4>2
    <3> QED BY <3>4, <3>5
  <2> QED BY <2>6, <2>7
<1>3. CASE Bad = {}
  <2>1. Good(S) BY <1>3
  <2>2. \E t \in S : \A u \in S : u.id <= t.id BY <2>1
  <2> QED BY <2>2, Zenon DEF Latest
<1> QED BY <1>2, <1>3

\* Without it the set is smaller.
LEMMA EarlierSet ==
    ASSUME NEW S \in SUBSET Transactions, IsFiniteSet(S), S # {}
    PROVE  /\ Cardinality(S \ {Latest(S)}) = Cardinality(S) - 1
           /\ Cardinality(S) \in Nat /\ Cardinality(S) > 0
           /\ IsFiniteSet(S \ {Latest(S)})
<1>1. Latest(S) \in S BY LatestIn
<1>2. Cardinality(S) \in Nat BY FS_CardinalityType
<1>3. Cardinality(S) # 0 BY FS_EmptySet
<1>4. IsFiniteSet(S \ {Latest(S)}) /\ Cardinality(S \ {Latest(S)}) = Cardinality(S) - 1
  BY <1>1, FS_RemoveElement
<1> QED BY <1>2, <1>3, <1>4

\* The holdings after sets of up to k transactions exist.
LEMMA PartialHoldings ==
    ASSUME NEW T, NEW D \in SUBSET Transactions, IsFiniteSet(D), NEW k \in Nat
    PROVE  \E g : g = [S \in Upto(D, k) |-> HoldStep(g, T, S)]
<1> DEFINE Bad == {n \in Nat : ~\E g : g = [S \in Upto(D, n) |-> HoldStep(g, T, S)]}
<1> SUFFICES ASSUME Bad # {} PROVE FALSE OBVIOUS
<1>1. PICK n \in Bad : \A m \in Bad : n <= m
  <2>1. Bad \in SUBSET Nat OBVIOUS
  <2> HIDE DEF Bad
  <2> QED BY <2>1, LeastNumber
<1>2. \A S \in SUBSET D : IsFiniteSet(S) /\ Cardinality(S) \in Nat
  BY FS_Subset, FS_CardinalityType
<1>3. CASE n = 0
  <2>1. \A S \in Upto(D, 0) : S = {}
    <3> SUFFICES ASSUME NEW S \in Upto(D, 0) PROVE S = {} OBVIOUS
    <3>1. Cardinality(S) = 0 /\ IsFiniteSet(S) BY <1>2 DEF Upto
    <3> QED BY <3>1, FS_EmptySet
  <2> DEFINE g == [S \in Upto(D, 0) |-> NoHoldings]
  <2>2. \A S \in Upto(D, 0) : HoldStep(g, T, S) = NoHoldings BY <2>1 DEF HoldStep
  <2> HIDE DEF Bad
  <2>3. g = [S \in Upto(D, 0) |-> HoldStep(g, T, S)] BY <2>2
  <2> HIDE DEF g
  <2>4. \E h : h = [S \in Upto(D, 0) |-> HoldStep(h, T, S)] BY <2>3, Zenon
  <2> QED BY <1>1, <1>3, <2>4 DEF Bad
<1>4. CASE n # 0
  <2>1. n - 1 \in Nat /\ n - 1 \notin Bad
    <3>1. n \in Nat BY <1>1
    <3> HIDE DEF Bad
    <3> QED BY <1>1, <1>4, <3>1
  <2>2. PICK g : g = [S \in Upto(D, n - 1) |-> HoldStep(g, T, S)] BY <2>1
  <2> DEFINE h == [S \in Upto(D, n) |-> HoldStep(g, T, S)]
  <2>3. ASSUME NEW S \in Upto(D, n) PROVE HoldStep(g, T, S) = HoldStep(h, T, S)
    <3>1. CASE S = {} BY <3>1 DEF HoldStep
    <3>2. CASE S # {}
      <4> DEFINE U == S \ {Latest(S)}
      <4>1. S \in SUBSET D /\ IsFiniteSet(S) /\ Cardinality(S) <= n BY <1>2 DEF Upto
      <4>2. U \in SUBSET D /\ Cardinality(U) = Cardinality(S) - 1 /\ Cardinality(S) \in Nat
        BY <3>2, <4>1, EarlierSet
      <4> HIDE DEF U
      <4>3. n \in Nat BY <1>1
      <4> HIDE DEF Bad
      <4>4. Cardinality(U) <= n - 1 /\ Cardinality(U) <= n BY <4>1, <4>2, <4>3
      <4>5. U \in Upto(D, n - 1) /\ U \in Upto(D, n) BY <4>2, <4>4 DEF Upto
      <4>6. g[U] = HoldStep(g, T, U) BY <2>2, <4>5
      <4>7. h[U] = HoldStep(g, T, U) BY <4>5
      <4> HIDE DEF h
      <4>8. g[U] = h[U] BY <4>6, <4>7
      <4> QED BY <3>2, <4>8 DEF HoldStep, U
    <3> QED BY <3>1, <3>2
  <2>4. h = [S \in Upto(D, n) |-> HoldStep(h, T, S)] BY <2>3
  <2> HIDE DEF h
  <2>5. \E e : e = [S \in Upto(D, n) |-> HoldStep(e, T, S)] BY <2>4, Zenon
  <2> QED BY <1>1, <2>5
<1> QED BY <1>3, <1>4

\* Held(T, S) is the last of them.
LEMMA HeldIs ==
    ASSUME NEW T, NEW S \in SUBSET Transactions, IsFiniteSet(S)
    PROVE  \E g : Held(T, S) = g[S] /\ Holds(g, T, S)
<1> DEFINE g == CHOOSE g : IsHold(g, T, S)
<1>1. Cardinality(S) \in Nat BY FS_CardinalityType
<1>2. Upto(S, Cardinality(S)) = SUBSET S
  <2>1. \A U \in SUBSET S : Cardinality(U) <= Cardinality(S) BY FS_Subset
  <2> QED BY <2>1 DEF Upto
<1>3. \E h : IsHold(h, T, S)
  <2>1. PICK h : h = [U \in Upto(S, Cardinality(S)) |-> HoldStep(h, T, U)]
    BY <1>1, PartialHoldings
  <2>2. h = [U \in SUBSET S |-> HoldStep(h, T, U)] BY <1>2, <2>1, Zenon
  <2>3. IsHold(h, T, S) BY <2>2, Zenon DEF IsHold
  <2> QED BY <2>3, Zenon
<1>4. IsHold(g, T, S) BY <1>3, Zenon
<1>5. Held(T, S) = g[S] BY HeldUnfolds
<1> HIDE DEF g
<1>6. Holds(g, T, S) BY <1>4 DEF IsHold, Holds
<1> QED BY <1>5, <1>6

\* Holdings depend on the transactions so far only.
LEMMA HoldingsSame ==
    ASSUME NEW T, NEW S \in SUBSET Transactions, IsFiniteSet(S), NEW D \in SUBSET S,
           NEW g, Holds(g, T, S), NEW e, Holds(e, T, D)
    PROVE  e[D] = g[D]
<1> DEFINE Bad == {U \in SUBSET D : e[U] # g[U]}
<1> SUFFICES ASSUME Bad # {} PROVE FALSE
  <2>1. D \in SUBSET D OBVIOUS
  <2> QED BY <2>1
<1>1. IsFiniteSet(D) BY FS_Subset
<1>2. PICK U \in Bad : \A W \in SUBSET U : W # U => W \notin Bad
  <2>1. Bad \in SUBSET (SUBSET D) OBVIOUS
  <2> HIDE DEF Bad
  <2> QED BY <1>1, <2>1, LeastSet
<1>3. U \in SUBSET D /\ e[U] = HoldStep(e, T, U) /\ g[U] = HoldStep(g, T, U) BY DEF Holds
<1>4. CASE U = {} BY <1>2, <1>3, <1>4 DEF HoldStep
<1>5. CASE U # {}
  <2> DEFINE x == Latest(U)
             W == U \ {x}
  <2>a. IsFiniteSet(U) /\ U \in SUBSET Transactions BY <1>1, <1>3, FS_Subset
  <2>1. x \in U BY <1>5, <2>a, LatestIn
  <2>2. W \in SUBSET D /\ W # U /\ W \in SUBSET U BY <1>3, <2>1
  <2>3. e[W] = g[W] BY <1>2, <2>2
  <2>4. e[U] = Counted(T, x, e[W]) /\ g[U] = Counted(T, x, g[W]) BY <1>3, <1>5 DEF HoldStep
  <2> QED BY <1>2, <2>3, <2>4
<1> QED BY <1>4, <1>5

\* Nothing is held before the first transaction.
LEMMA HeldNone == ASSUME NEW T PROVE Held(T, {}) = NoHoldings
<1>1. IsFiniteSet({}) /\ {} \in SUBSET Transactions BY FS_EmptySet
<1>2. PICK g : Held(T, {}) = g[{}] /\ Holds(g, T, {}) BY <1>1, HeldIs
<1>3. g[{}] = HoldStep(g, T, {}) BY <1>2 DEF Holds
<1> QED BY <1>2, <1>3 DEF HoldStep

\* The latest transaction is counted last.
LEMMA HeldStep ==
    ASSUME NEW T, NEW P \in SUBSET Transactions, IsFiniteSet(P), NEW t \in Transactions,
           \A u \in P : u.id < t.id
    PROVE  Held(T, P \cup {t}) = Counted(T, t, Held(T, P))
<1> DEFINE S == P \cup {t}
<1>1. S \in SUBSET Transactions /\ IsFiniteSet(S) /\ S # {} /\ P \in SUBSET S
  BY FS_AddElement
<1>2. Latest(S) = t
  <2>1. Latest(S) \in S /\ \A u \in S : u.id <= Latest(S).id BY <1>1, LatestIn
  <2>2. t.id <= Latest(S).id BY <2>1
  <2>3. t.id \in Nat /\ Latest(S).id \in Nat BY <1>1, <2>1, ShapeOf
  <2>4. Latest(S) \notin P BY <2>2, <2>3
  <2> QED BY <2>1, <2>4
<1>3. S \ {t} = P
  <2>1. t \notin P
    <3>1. t.id \in Nat BY ShapeOf
    <3> QED BY <3>1
  <2> QED BY <2>1
<1>4. S # {} /\ S \in SUBSET S BY <1>1
<1> HIDE DEF S
<1>5. PICK g : Held(T, S) = g[S] /\ Holds(g, T, S) BY <1>1, HeldIs
<1>6. PICK e : Held(T, P) = e[P] /\ Holds(e, T, P) BY HeldIs
<1>7. e[P] = g[P] BY <1>1, <1>5, <1>6, HoldingsSame
<1>8. g[S] = Counted(T, t, g[P]) BY <1>2, <1>3, <1>4, <1>5 DEF Holds, HoldStep
<1> QED BY <1>5, <1>6, <1>7, <1>8 DEF S

\* The legs that t is ranked among.
Ranked(T, t) == {u \in Alike(T, t) : u.outbound = t.outbound /\ u.id <= t.id}

\* A later leg has a higher rank.
LEMMA LowerRank ==
    ASSUME NEW T \in SUBSET Transactions, IsFiniteSet(T), NEW x \in T, NEW y \in T,
           Leg(y), Alike(T, x) = Alike(T, y), x.outbound = y.outbound, x.id < y.id
    PROVE  Rank(T, x) # Rank(T, y)
<1>1. x.id \in Nat /\ y.id \in Nat /\ \A u \in T : u.id \in Nat BY ShapeOf
<1>2. Ranked(T, x) \subseteq Ranked(T, y)
  <2> SUFFICES ASSUME NEW u \in Ranked(T, x) PROVE u \in Ranked(T, y) OBVIOUS
  <2>1. u \in Alike(T, x) /\ u.outbound = x.outbound /\ u.id <= x.id BY DEF Ranked
  <2>2. u \in T BY <2>1 DEF Alike
  <2>3. u.id <= y.id BY <1>1, <2>1, <2>2
  <2> QED BY <2>1, <2>3 DEF Ranked
<1>3. y \in Ranked(T, y)
  <2>1. y \in Alike(T, y) BY DEF Alike
  <2> QED BY <1>1, <2>1 DEF Ranked
<1>4. y \notin Ranked(T, x) BY <1>1 DEF Ranked
<1>5. IsFiniteSet(Ranked(T, y))
  <2>1. Ranked(T, y) \subseteq T BY DEF Ranked, Alike
  <2> QED BY <2>1, FS_Subset
<1>6. Cardinality(Ranked(T, x)) # Cardinality(Ranked(T, y)) BY <1>2, <1>3, <1>4, <1>5, FS_Subset
<1> QED BY <1>6 DEF Rank, Ranked

\* No two legs have one rank.
LEMMA RankIsOne ==
    ASSUME NEW T \in SUBSET Transactions, IsFiniteSet(T), NEW x \in T, NEW y \in T,
           Leg(x), Leg(y), Alike(T, x) = Alike(T, y), x.outbound = y.outbound,
           Rank(T, x) = Rank(T, y)
    PROVE  x = y
<1>1. x.id \in Nat /\ y.id \in Nat /\ (x.id = y.id => x = y) BY ShapeOf
<1>2. ~(x.id < y.id) BY LowerRank
<1>3. ~(y.id < x.id) BY LowerRank
<1> QED BY <1>1, <1>2, <1>3

\* Legs are paired one by one.
LEMMA PartnerIsOne ==
    ASSUME NEW T \in SUBSET Transactions, IsFiniteSet(T), NEW u \in T, NEW t \in T,
           u.outbound, t.outbound, NEW d \in PartnersOf(T, u), NEW e \in PartnersOf(T, t)
    PROVE  d = e <=> u = t
<1>1. /\ Leg(u) /\ Leg(t) /\ Leg(d) /\ Leg(e) /\ d \in T /\ e \in T
      /\ d.ref = u.ref /\ d.date = u.date /\ d.qty = u.qty
      /\ e.ref = t.ref /\ e.date = t.date /\ e.qty = t.qty
      /\ Rank(T, d) = Rank(T, u) /\ Rank(T, e) = Rank(T, t)
      /\ d.outbound # u.outbound /\ e.outbound # t.outbound
  BY DEF PartnersOf, Alike
<1>2. d.outbound \in BOOLEAN /\ e.outbound \in BOOLEAN /\ u.outbound \in BOOLEAN
      /\ t.outbound \in BOOLEAN
  <2>1. \A x \in Transactions : x.outbound \in BOOLEAN BY TransactionShape, Zenon
  <2>2. d \in Transactions /\ e \in Transactions /\ u \in Transactions /\ t \in Transactions
    BY <1>1
  <2> QED BY <2>1, <2>2, Zenon
<1>3. u.outbound = TRUE /\ t.outbound = TRUE /\ d.outbound = FALSE /\ e.outbound = FALSE
  BY <1>1, <1>2
<1>4. ASSUME d = e PROVE u = t
  <2>1. Alike(T, u) = Alike(T, t) BY <1>1, <1>4 DEF Alike
  <2>2. Rank(T, u) = Rank(T, t) BY <1>1, <1>4
  <2> QED BY <1>1, <1>3, <2>1, <2>2, RankIsOne
<1>5. ASSUME u = t PROVE d = e
  <2>1. Alike(T, d) = Alike(T, e) BY <1>1, <1>5 DEF Alike
  <2>2. Rank(T, d) = Rank(T, e) BY <1>1, <1>5
  <2> QED BY <1>1, <1>3, <2>1, <2>2, RankIsOne
<1> QED BY <1>4, <1>5

\* The units left in the lots of an account.
LEMMA RemainingIs ==
    ASSUME NEW V, Weighable(V), NEW a, NEW D
    PROVE  Remaining({l \in V : l.acct = a /\ l.acquired \in D}) = UnitsIn(V, a, D)
<1> DEFINE S == {l \in V : l.acct = a /\ l.acquired \in D}
           f == [l \in V |-> l.rem]
           h == Weight(V, a, D)
<1>1. S \in SUBSET V /\ V \cap S = S OBVIOUS
<1>2. DOMAIN f = V /\ \A l \in V : f[l] = l.rem BY Zenon
<1>3. DOMAIN h = V /\ \A l \in V : h[l] = IF l \in S THEN l.rem ELSE Zero
  <2>1. WeightIs(V, a, D, h) BY WeightOf
  <2> HIDE DEF h
  <2> QED BY <2>1 DEF WeightIs
<1>4. [l \in S |-> f[l]] = [l \in S |-> l.rem] BY <1>1
<1>5. UnitsIn(V, a, D) = Part(h, V) BY DEF UnitsIn
<1>6. Remaining(S) = Part(f, S) BY <1>4 DEF Remaining, Part
<1> HIDE DEF f, h, S
<1>7. Fractional(f) BY <1>2 DEF Fractional, Weighable
<1>8. \A l \in DOMAIN f : h[l] = IF l \in S THEN f[l] ELSE Zero BY <1>2, <1>3
<1>9. Part(h, V) = Part(f, V \cap S) BY <1>2, <1>3, <1>7, <1>8, PartFilter
<1> QED BY <1>1, <1>5, <1>6, <1>9 DEF S

\* Sound lots can be weighed.
LEMMA SoundWeighable ==
    ASSUME NEW T, NEW V, SoundLots(V, T)
    PROVE  Weighable(V) /\ \A a, D : IsFraction(UnitsIn(V, a, D)) /\ NonNeg(UnitsIn(V, a, D))
<1>1. IsFiniteSet(V) /\ \A l \in V : SoundLot(l, T) BY DEF SoundLots
<1>2. \A l \in V : IsFraction(l.rem) /\ NonNeg(l.rem) BY <1>1, LotParts
<1>3. Weighable(V) BY <1>1, <1>2 DEF Weighable
<1>4. ASSUME NEW a, NEW D PROVE IsFraction(UnitsIn(V, a, D)) /\ NonNeg(UnitsIn(V, a, D))
  <2> DEFINE h == Weight(V, a, D)
  <2>1. UnitsIn(V, a, D) = Part(h, V) BY DEF UnitsIn
  <2>2. Fractional(h) BY <1>3, WeightType
  <2>3. WeightIs(V, a, D, h) BY WeightOf
  <2> HIDE DEF h
  <2>4. NonNeg(Zero) BY ZeroFrac, OrderType
  <2>5. DOMAIN h = V /\ \A l \in V : NonNeg(h[l]) BY <1>2, <2>3, <2>4 DEF WeightIs
  <2>6. V \in SUBSET DOMAIN h BY <2>5
  <2> QED BY <2>1, <2>2, <2>5, <2>6, PartGrows
<1> QED BY <1>3, <1>4

\* One lot more.
LEMMA OneMoreUnits ==
    ASSUME NEW V, NEW l, Weighable(V \cup {l}), l \notin V, NEW a, NEW D
    PROVE  UnitsIn(V \cup {l}, a, D)
             = IF l.acct = a /\ l.acquired \in D THEN Plus(l.rem, UnitsIn(V, a, D))
               ELSE UnitsIn(V, a, D)
<1> DEFINE B == V \cup {l}
<1>1. V \subseteq B /\ B \subseteq B /\ l \in B /\ B \ {l} = V OBVIOUS
<1> HIDE DEF B
<1>2. Weighable(B) BY DEF B
<1>3. PICK val : /\ Fractional(val) /\ WeightIs(B, a, D, val)
                 /\ Part(val, V) = UnitsIn(V, a, D) /\ Part(val, B) = UnitsIn(B, a, D)
  BY <1>1, <1>2, WeightBoth
<1>4. DOMAIN val = B /\ val[l] = IF l.acct = a /\ l.acquired \in D THEN l.rem ELSE Zero
  BY <1>1, <1>3 DEF WeightIs
<1>5. B \in SUBSET DOMAIN val /\ V \in SUBSET DOMAIN val BY <1>1, <1>4
<1>6. Part(val, B) = Plus(val[l], Part(val, V)) BY <1>1, <1>3, <1>5, PartGrows
<1>7. IsFraction(Part(val, V)) BY <1>3, <1>5, PartGrows
<1>8. Plus(Zero, Part(val, V)) = Part(val, V) BY <1>7, PlusZero
<1> QED BY <1>3, <1>4, <1>6, <1>8 DEF B

\* What a lot keeps when it is written again.
SameMarks(m, l) == /\ m.id = l.id /\ m.acct = l.acct /\ m.acquired = l.acquired
                   /\ m.transfer = l.transfer /\ m.purchase = l.purchase

\* What a sale leaves of a lot.
LEMMA SoldFields ==
    ASSUME NEW T, NEW l, SoundLot(l, T), NEW q, IsFraction(q), NEW t
    PROVE  /\ SameMarks(SoldFrom(l, q, t), l) /\ SoldFrom(l, q, t).rem = Minus(l.rem, q)
           /\ SoldFrom(l, q, t).unit = l.unit
<1> DEFINE r == Minus(l.rem, q)
           p == Times(q, Minus(Over(t.amount, t.qty), l.unit))
           x == t.date
           y == t.id
           m == [l EXCEPT !.rem = Zero, !.closed = x, !.sale = y, !.pl = p]
           k == [l EXCEPT !.rem = r]
<1>1. DOMAIN l = LotFields /\ l = [f \in LotFields |-> l[f]] BY DEF SoundLot
<1>2. IsFraction(l.rem) BY LotParts
<1>3. Minus(l.rem, Zero) = l.rem /\ Minus(l.rem, l.rem) = Zero BY <1>2, PlusZero
<1>4. CASE q = Zero
  <2>1. SoldFrom(l, q, t) = l BY <1>4 DEF SoldFrom
  <2> QED BY <1>3, <1>4, <2>1 DEF SameMarks
<1>5. CASE q # Zero /\ q = l.rem
  <2>1. SoldFrom(l, q, t) = m BY <1>5, Zenon DEF SoldFrom
  <2> HIDE DEF p, x, y
  <2>2. SameMarks(m, l) /\ m.rem = Zero /\ m.unit = l.unit BY <1>1 DEF SameMarks, LotFields
  <2> QED BY <1>3, <1>5, <2>1, <2>2
<1>6. CASE q # Zero /\ q # l.rem
  <2>1. SoldFrom(l, q, t) = k BY <1>6, Zenon DEF SoldFrom
  <2> HIDE DEF r
  <2>2. SameMarks(k, l) /\ k.rem = r /\ k.unit = l.unit BY <1>1 DEF SameMarks, LotFields
  <2> QED BY <2>1, <2>2 DEF r
<1> QED BY <1>4, <1>5, <1>6

\* What a transfer leaves of a lot.
LEMMA SentFields ==
    ASSUME NEW T, NEW l, SoundLot(l, T), NEW q, IsFraction(q), NEW t
    PROVE  /\ SameMarks(SentFrom(l, q, t), l) /\ SentFrom(l, q, t).rem = Minus(l.rem, q)
           /\ SentFrom(l, q, t).unit = l.unit
<1> DEFINE r == Minus(l.rem, q)
           c == IF q = l.rem THEN t.date ELSE l.closed
           k == [l EXCEPT !.rem = r, !.closed = c]
<1>1. DOMAIN l = LotFields /\ l = [f \in LotFields |-> l[f]] BY DEF SoundLot
<1>2. IsFraction(l.rem) BY LotParts
<1>3. Minus(l.rem, Zero) = l.rem BY <1>2, PlusZero
<1>4. CASE q = Zero
  <2>1. SentFrom(l, q, t) = l BY <1>4 DEF SentFrom
  <2> QED BY <1>3, <1>4, <2>1 DEF SameMarks
<1>5. CASE q # Zero
  <2>1. SentFrom(l, q, t) = k BY <1>5, Zenon DEF SentFrom
  <2> HIDE DEF r, c
  <2>2. SameMarks(k, l) /\ k.rem = r /\ k.unit = l.unit BY <1>1 DEF SameMarks, LotFields
  <2> QED BY <2>1, <2>2 DEF r
<1> QED BY <1>4, <1>5

-----------------------------------------------------------------------------
(* What each operation does to the units.                                  *)

\* r are the lots s, written again under their marks.
Again(s, r, n) ==
    /\ DOMAIN s = 1 .. n /\ DOMAIN r = 1 .. n /\ r = [i \in 1 .. n |-> r[i]]
    /\ \A i, j \in 1 .. n : s[i] = s[j] => i = j
    /\ \A i \in 1 .. n : SameMarks(r[i], s[i])

MarkedBy(V, W) == \A l \in W : \E m \in V : SameMarks(l, m)

\* Marks are passed on.
LEMMA MarkedTwice ==
    ASSUME NEW U, NEW V, NEW W, MarkedBy(U, V), MarkedBy(V, W)
    PROVE  MarkedBy(U, W)
BY DEF MarkedBy, SameMarks

\* Lots written again under their marks stay apart.
LEMMA AgainKeyed ==
    ASSUME NEW V, Keyed(V), NEW n \in Nat, NEW s, NEW r, Again(s, r, n),
           \A i \in 1 .. n : s[i] \in V
    PROVE  Rewritten(s, r, n) /\ Keyed(Replaced(V, s, r)) /\ MarkedBy(V, Replaced(V, s, r))
<1>1. Rewritten(s, r, n) BY DEF Rewritten, Again, SameMarks
<1>2. /\ Keyed(Replaced(V, s, r))
      /\ Replaced(V, s, r) = (V \ {s[j] : j \in 1 .. n}) \cup {r[j] : j \in 1 .. n}
  BY <1>1, ReplacedKeyed
<1>3. ASSUME NEW l \in Replaced(V, s, r) PROVE \E m \in V : SameMarks(l, m)
  <2>1. CASE l \in V BY <2>1 DEF SameMarks
  <2>2. CASE l \notin V
    <3>1. l \in {r[j] : j \in 1 .. n} BY <1>2, <2>2
    <3>2. PICK j \in 1 .. n : l = r[j] BY <3>1
    <3> QED BY <3>2 DEF Again
  <2> QED BY <2>1, <2>2
<1> QED BY <1>1, <1>2, <1>3 DEF MarkedBy

\* Lots that are written again with their units.
LEMMA EvenUnits ==
    ASSUME NEW T, NEW V, SoundLots(V, T), Keyed(V), NEW n \in Nat, NEW s, NEW r, Again(s, r, n),
           \A i \in 1 .. n : s[i] \in V, \A i \in 1 .. n : r[i].rem = s[i].rem, NEW a, NEW D
    PROVE  UnitsIn(Replaced(V, s, r), a, D) = UnitsIn(V, a, D)
<1> DEFINE W == Replaced(V, s, r)
           B == V \cup W
<1>1. Rewritten(s, r, n) BY AgainKeyed
<1>2. DOMAIN r = 1 .. n /\ r = [i \in 1 .. n |-> r[i]] BY DEF Again
<1>3. Weighable(V) BY SoundWeighable
<1>4. \A i \in 1 .. n : IsFraction(r[i].rem) BY <1>3 DEF Weighable
<1>5. Weighable(B) BY <1>2, <1>3, <1>4, ReplacedWeighable
<1>6. \A i \in 1 .. n : r[i] \in W BY <1>2 DEF Replaced, ToSet
<1>7. V \subseteq B /\ W \subseteq B /\ \A i \in 1 .. n : s[i] \in B /\ r[i] \in B BY <1>6
<1> HIDE DEF B
<1>8. PICK val : /\ Fractional(val) /\ WeightIs(B, a, D, val)
                 /\ Part(val, V) = UnitsIn(V, a, D) /\ Part(val, W) = UnitsIn(W, a, D)
  <2> HIDE DEF W
  <2> QED BY <1>5, <1>7, WeightBoth
<1>9. \A i \in 1 .. n : val[r[i]] = val[s[i]]
  BY <1>1, <1>7, <1>8 DEF WeightIs, Rewritten
<1>10. V \cup Replaced(V, s, r) \subseteq DOMAIN val BY <1>8 DEF WeightIs, B
<1>11. Part(val, Replaced(V, s, r)) = Part(val, V)
  BY <1>1, <1>8, <1>9, <1>10, ReplacedEven
<1> QED BY <1>8, <1>11

\* `need' units are taken out of an account, those of early days first.
TakesUnits(V, W, acct, need) ==
    /\ Keyed(W) /\ MarkedBy(V, W)
    /\ \A D : Early(D) =>
           /\ UnitsIn(W, acct, D) = Minus(UnitsIn(V, acct, D), Lesser(UnitsIn(V, acct, D), need))
           /\ \A a : a # acct => UnitsIn(W, a, D) = UnitsIn(V, a, D)

\* A loop that writes again what it takes from.
LEMMA LoopTakes ==
    ASSUME NEW T, NEW V, SoundLots(V, T), Keyed(V), NEW need, NonNeg(need), NEW acct,
           NEW s, NEW n \in Nat, Walked(V, acct, s, n), NEW r, Again(s, r, n),
           \A i \in 1 .. n : r[i].rem = Minus(s[i].rem, Taken(Caps(s), need)[i])
    PROVE  TakesUnits(V, Replaced(V, s, r), acct, need)
<1>1. \A i \in 1 .. n : s[i] \in V
  <2>1. \A i \in 1 .. n : s[i] \in {s[j] : j \in 1 .. n} OBVIOUS
  <2> QED BY <2>1 DEF Walked, OpenLots
<1>2. Rewritten(s, r, n) /\ Keyed(Replaced(V, s, r)) /\ MarkedBy(V, Replaced(V, s, r))
  BY <1>1, AgainKeyed
<1>3. Lessened(s, r, n, need) BY <1>2 DEF Lessened, Again
<1>4. ASSUME NEW D, Early(D)
      PROVE  /\ UnitsIn(Replaced(V, s, r), acct, D)
                   = Minus(UnitsIn(V, acct, D), Lesser(UnitsIn(V, acct, D), need))
             /\ \A a : a # acct => UnitsIn(Replaced(V, s, r), a, D) = UnitsIn(V, a, D)
  BY <1>3, <1>4, TakenUnits
<1> QED BY <1>2, <1>4 DEF TakesUnits

\* What a loop takes are fractions, and the lots it meets are sound.
LEMMA WalkedLots ==
    ASSUME NEW T, NEW V, SoundLots(V, T), NEW acct, NEW s, NEW n \in Nat,
           Walked(V, acct, s, n), NEW need, NonNeg(need)
    PROVE  /\ \A i \in 1 .. n : /\ s[i] \in V /\ SoundLot(s[i], T) /\ s[i].acct = acct
                                /\ IsOpen(s[i])
                                /\ IsFraction(Taken(Caps(s), need)[i])
           /\ DOMAIN Taken(Caps(s), need) = 1 .. n
           /\ DOMAIN s = 1 .. n /\ (\A i, j \in 1 .. n : s[i] = s[j] => i = j)
<1>1. \A i \in 1 .. n : s[i] \in V /\ s[i].acct = acct /\ IsOpen(s[i])
  <2>1. \A i \in 1 .. n : s[i] \in {s[j] : j \in 1 .. n} OBVIOUS
  <2> QED BY <2>1 DEF Walked, OpenLots
<1>2. DOMAIN s = 1 .. n /\ (\A i, j \in 1 .. n : s[i] = s[j] => i = j) BY DEF Walked
<1>3. \A i \in 1 .. n : SoundLot(s[i], T) BY <1>1 DEF SoundLots
<1>4. \A i \in 1 .. n : NonNeg(s[i].rem) BY <1>3, LotParts
<1> DEFINE cap == Caps(s)
<1>5. DOMAIN cap = 1 .. n /\ \A j \in 1 .. n : cap[j] = s[j].rem BY <1>2, Zenon DEF Caps
<1> HIDE DEF cap
<1>6. \A j \in 1 .. n : NonNeg(cap[j]) BY <1>4, <1>5
<1>7. Fractional(Taken(cap, need)) /\ DOMAIN Taken(cap, need) = 1 .. n
  <2>1. n \in 0 .. n OBVIOUS
  <2> QED BY <1>5, <1>6, <2>1, TakenTotal
<1>8. \A i \in 1 .. n : IsFraction(Taken(cap, need)[i]) BY <1>7 DEF Fractional
<1> QED BY <1>1, <1>2, <1>3, <1>7, <1>8 DEF cap

\* match_sale_to_lots.
LEMMA MatchedUnits ==
    ASSUME NEW T, NEW V, SoundLots(V, T), Keyed(V), NEW t \in Transactions,
           NEW s \in Fifo(OpenLots(V, t.acct))
    PROVE  TakesUnits(V, Matched(V, t, s).lots, t.acct, t.qty)
<1>1. PICK n \in Nat : Walked(V, t.acct, s, n) BY FifoWalked DEF SoundLots
<1>2. NonNeg(t.qty) BY ShapeOf
<1> DEFINE q == Taken(Caps(s), t.qty)
           r == [i \in DOMAIN s |-> SoldFrom(s[i], q[i], t)]
<1>3. /\ DOMAIN s = 1 .. n /\ (\A i, j \in 1 .. n : s[i] = s[j] => i = j)
      /\ \A i \in 1 .. n : SoundLot(s[i], T) /\ IsFraction(q[i])
  BY <1>1, <1>2, WalkedLots
<1>4. Matched(V, t, s).lots = Replaced(V, s, r) BY Zenon DEF Matched, Outcome
<1>5. DOMAIN r = 1 .. n /\ \A i \in 1 .. n : r[i] = SoldFrom(s[i], q[i], t) BY <1>3, Zenon
<1>6. r = [i \in 1 .. n |-> r[i]]
  <2>1. r = [i \in DOMAIN r |-> r[i]] BY Zenon
  <2> HIDE DEF r
  <2> QED BY <1>5, <2>1
<1> HIDE DEF r
<1>7. \A i \in 1 .. n : SameMarks(r[i], s[i]) /\ r[i].rem = Minus(s[i].rem, q[i])
  <2> HIDE DEF q
  <2> QED BY <1>3, <1>5, SoldFields
<1>8. Again(s, r, n) BY <1>3, <1>5, <1>6, <1>7 DEF Again
<1>9. \A i \in 1 .. n : r[i].rem = Minus(s[i].rem, Taken(Caps(s), t.qty)[i]) BY <1>7
<1>10. TakesUnits(V, Replaced(V, s, r), t.acct, t.qty) BY <1>1, <1>2, <1>8, <1>9, LoopTakes
<1> QED BY <1>4, <1>10

\* detect_and_adjust_wash_sales leaves the units alone.
LEMMA WashedUnits ==
    ASSUME NEW T, NEW V, SoundLots(V, T), Keyed(V), NEW t, NEW loss,
           NEW r \in Fifo(Replacements(V, t))
    PROVE  /\ Keyed(WashAdjusted(V, r, loss)) /\ MarkedBy(V, WashAdjusted(V, r, loss))
           /\ \A a, D : UnitsIn(WashAdjusted(V, r, loss), a, D) = UnitsIn(V, a, D)
<1> DEFINE cost == [i \in DOMAIN r |-> Plus(r[i].cost, Taken(Costs(r), loss)[i])]
           wash == [i \in DOMAIN r |->
                      IF AtMost(loss, Before(Costs(r), i)) THEN r[i]
                      ELSE [r[i] EXCEPT !.cost = cost[i], !.unit = Over(cost[i], r[i].qty),
                                        !.wash = TRUE]]
<1>1. Replacements(V, t) \subseteq V BY DEF Replacements, OpenLots
<1>2. IsFiniteSet(Replacements(V, t)) BY <1>1, FS_Subset DEF SoundLots
<1>3. PICK n \in Nat : /\ DOMAIN r = 1 .. n
                       /\ \A i, j \in 1 .. n : r[i] = r[j] => i = j
                       /\ {r[i] : i \in 1 .. n} = Replacements(V, t)
  BY <1>2, FifoAll
<1>4. \A i \in 1 .. n : r[i] \in V BY <1>1, <1>3
<1>5. \A i \in 1 .. n : SoundLot(r[i], T) BY <1>4 DEF SoundLots
<1>6. WashAdjusted(V, r, loss) = Replaced(V, r, wash) BY Zenon DEF WashAdjusted
<1> HIDE DEF cost
<1>7. ASSUME NEW i \in 1 .. n PROVE SameMarks(wash[i], r[i]) /\ wash[i].rem = r[i].rem
  <2> DEFINE k == r[i]
             c == cost[i]
             u == Over(c, k.qty)
             m == [k EXCEPT !.cost = c, !.unit = u, !.wash = TRUE]
  <2>1. wash[i] = k \/ wash[i] = m BY <1>3, Zenon
  <2>2. DOMAIN k = LotFields /\ k = [f \in LotFields |-> k[f]] BY <1>5 DEF SoundLot
  <2> HIDE DEF k, c, u, wash
  <2>3. SameMarks(m, k) /\ m.rem = k.rem BY <2>2 DEF SameMarks, LotFields
  <2>4. SameMarks(k, k) BY DEF SameMarks
  <2> HIDE DEF m
  <2>5. SameMarks(wash[i], k) /\ wash[i].rem = k.rem BY <2>1, <2>3, <2>4
  <2> QED BY <2>5 DEF k
<1>8. DOMAIN wash = 1 .. n /\ wash = [i \in 1 .. n |-> wash[i]]
  <2>1. DOMAIN wash = DOMAIN r BY Zenon
  <2>2. wash = [i \in DOMAIN wash |-> wash[i]] BY Zenon
  <2> HIDE DEF wash
  <2> QED BY <1>3, <2>1, <2>2, Zenon
<1> HIDE DEF wash
<1>9. Again(r, wash, n) BY <1>3, <1>7, <1>8 DEF Again
<1>10. Keyed(Replaced(V, r, wash)) /\ MarkedBy(V, Replaced(V, r, wash))
  BY <1>4, <1>9, AgainKeyed
<1>11. \A i \in 1 .. n : wash[i].rem = r[i].rem BY <1>7
<1>12. ASSUME NEW a, NEW D PROVE UnitsIn(Replaced(V, r, wash), a, D) = UnitsIn(V, a, D)
  BY <1>4, <1>9, <1>11, EvenUnits
<1> QED BY <1>6, <1>10, <1>12

\* A sale.
LEMMA SoldUnits ==
    ASSUME NEW T \in SUBSET Transactions, NEW V, SoundLots(V, T), Keyed(V),
           NEW t \in T, t.kind = "sale", NEW o \in Sold(V, t)
    PROVE  TakesUnits(V, o.lots, t.acct, t.qty)
<1>0. SaleOf(V, t, o) BY SaleIs
<1>1. PICK s \in Fifo(OpenLots(V, t.acct)) :
        o \in {Washed(Matched(V, t, s), r, LossOf(Matched(V, t, s).lots, t)) :
                   r \in Fifo(Replacements(Matched(V, t, s).lots, t))}
  BY <1>0, Zenon DEF SaleOf
<1> DEFINE m == Matched(V, t, s)
           loss == LossOf(m.lots, t)
<1>2. PICK r \in Fifo(Replacements(m.lots, t)) : o = Washed(m, r, loss) BY <1>1, Zenon
<1>3. SoundLots(m.lots, T) BY MatchedSound
<1>4. o.lots = WashAdjusted(m.lots, r, loss) BY <1>2, Zenon DEF Washed, Outcome
<1>5. TakesUnits(V, m.lots, t.acct, t.qty) BY MatchedUnits
<1> HIDE DEF m, loss
<1>6. Keyed(m.lots) /\ MarkedBy(V, m.lots) BY <1>5 DEF TakesUnits
<1>7. /\ Keyed(o.lots) /\ MarkedBy(m.lots, o.lots)
      /\ \A a, D : UnitsIn(o.lots, a, D) = UnitsIn(m.lots, a, D)
  BY <1>3, <1>4, <1>6, WashedUnits
<1>8. MarkedBy(V, o.lots) BY <1>6, <1>7, MarkedTwice
<1> QED BY <1>5, <1>7, <1>8 DEF TakesUnits

\* Lots in two sets that are apart.
LEMMA DisjointUnits ==
    ASSUME NEW V, NEW N, Weighable(V \cup N), V \cap N = {}, NEW a, NEW D
    PROVE  UnitsIn(V \cup N, a, D) = Plus(UnitsIn(V, a, D), UnitsIn(N, a, D))
<1> DEFINE B == V \cup N
           val == Weight(B, a, D)
<1>1. V \subseteq B /\ N \subseteq B OBVIOUS
<1>2. B = V \cup N OBVIOUS
<1> HIDE DEF B
<1>3. Weighable(B) BY <1>2
<1>4. Fractional(val) BY <1>3, WeightType
<1>5. Part(val, V) = UnitsIn(V, a, D) /\ Part(val, N) = UnitsIn(N, a, D) BY <1>1, WeightIn
<1>6. DOMAIN val = B
  <2>1. WeightIs(B, a, D, val) BY WeightOf
  <2> QED BY <2>1 DEF WeightIs
<1>7. UnitsIn(B, a, D) = Part(val, B) BY DEF UnitsIn
<1> HIDE DEF val
<1>8. V \in SUBSET DOMAIN val /\ N \in SUBSET DOMAIN val BY <1>1, <1>6
<1>9. Part(val, V \cup N) = Plus(Part(val, V), Part(val, N)) BY <1>4, <1>8, PartUnion
<1> QED BY <1>2, <1>5, <1>7, <1>9

\* Lots of other accounts, and empty lots, hold none of its units.
LEMMA ZeroUnits ==
    ASSUME NEW N, Weighable(N), NEW a, \A l \in N : l.acct # a \/ l.rem = Zero, NEW D
    PROVE  UnitsIn(N, a, D) = Zero
<1> DEFINE val == Weight(N, a, D)
<1>1. Fractional(val) /\ WeightIs(N, a, D, val) BY WeightType, WeightOf
<1>2. UnitsIn(N, a, D) = Part(val, N) BY DEF UnitsIn
<1> HIDE DEF val
<1>3. N \in SUBSET DOMAIN val /\ \A l \in N : val[l] = Zero BY <1>1 DEF WeightIs
<1>4. Part(val, N) = Zero BY <1>1, <1>3, PartZero
<1> QED BY <1>2, <1>4

\* Fewer lots can be weighed.
LEMMA FewerWeighable ==
    ASSUME NEW B, Weighable(B), NEW V, V \subseteq B
    PROVE  Weighable(V)
<1>1. IsFiniteSet(V) BY FS_Subset DEF Weighable
<1> QED BY <1>1 DEF Weighable

\* Lots that are numbered.
LEMMA NumberedUnits ==
    ASSUME NEW r, NEW P, IsFiniteSet(P), DOMAIN r = P,
           \A i, j \in P : r[i] = r[j] => i = j,
           Weighable({r[i] : i \in P}),
           NEW a, NEW D, NEW h, DOMAIN h = P,
           \A i \in P : h[i] = IF r[i].acct = a /\ r[i].acquired \in D THEN r[i].rem ELSE Zero
    PROVE  Fractional(h) /\ UnitsIn({r[i] : i \in P}, a, D) = Part(h, P)
<1> DEFINE N == {r[i] : i \in P}
           val == Weight(N, a, D)
<1>1. \A i \in P : r[i] \in N OBVIOUS
<1> HIDE DEF N
<1>2. Weighable(N) BY DEF N
<1>3. Fractional(val) /\ WeightIs(N, a, D, val) BY <1>2, WeightType, WeightOf
<1>4. UnitsIn(N, a, D) = Part(val, N) BY DEF UnitsIn
<1> HIDE DEF val
<1>5. \A i \in DOMAIN r : r[i] \in DOMAIN val /\ h[i] = val[r[i]] BY <1>1, <1>3 DEF WeightIs
<1>6. Fractional(h) BY <1>3, <1>5 DEF Fractional
<1>7. \A i, j \in DOMAIN r : r[i] = r[j] => i = j OBVIOUS
<1>8. P \in SUBSET DOMAIN r /\ DOMAIN h = DOMAIN r OBVIOUS
<1>9. Part(val, {r[i] : i \in P}) = Part(h, P) BY <1>3, <1>5, <1>6, <1>7, <1>8, PartImage
<1> QED BY <1>4, <1>6, <1>9 DEF N

\* All days are early enough.
LEMMA AllEarly == Early(Nat)
BY DEF Early

\* The open lots of an account hold all of its units, and a loop takes of them what
\* it needs.
LEMMA TakenAll ==
    ASSUME NEW T, NEW V, SoundLots(V, T), Keyed(V), NEW acct, NEW s, NEW n \in Nat,
           Walked(V, acct, s, n), NEW need, NonNeg(need)
    PROVE  /\ Remaining(OpenLots(V, acct)) = UnitsIn(V, acct, Nat)
           /\ Part(Taken(Caps(s), need), 1 .. n) = Lesser(UnitsIn(V, acct, Nat), need)
<1> DEFINE cap == Caps(s)
           O == OpenLots(V, acct)
           f == [l \in O |-> l.rem]
<1>1. \A i \in 1 .. n : s[i] \in V /\ SoundLot(s[i], T) BY WalkedLots
<1>2. \A i \in 1 .. n : NonNeg(s[i].rem) BY <1>1, LotParts
<1>3. \A i \in 1 .. n : s[i].acquired \in Nat BY <1>1 DEF Keyed
<1>4. DOMAIN s = 1 .. n /\ (\A i, j \in 1 .. n : s[i] = s[j] => i = j)
      /\ {s[i] : i \in 1 .. n} = O
  BY DEF Walked
<1>5. DOMAIN cap = 1 .. n /\ \A j \in 1 .. n : cap[j] = s[j].rem BY <1>4, Zenon DEF Caps
<1> HIDE DEF cap, O
<1>6. \A j \in 1 .. n : NonNeg(cap[j]) BY <1>2, <1>5
<1>7. \A i \in 1 .. n : cap[i] = IF s[i].acquired \in Nat THEN s[i].rem ELSE Zero
  BY <1>3, <1>5
<1>8. Fractional(cap) /\ UnitsIn(V, acct, Nat) = Part(cap, 1 .. n) BY <1>5, <1>7, WalkedUnits
<1>9. Part(Taken(cap, need), 1 .. n) = Lesser(Part(cap, 1 .. n), need)
  <2>1. n \in 0 .. n OBVIOUS
  <2> QED BY <1>5, <1>6, <2>1, TakenTotal
<1>10. Remaining(O) = Part(cap, 1 .. n)
  <2>1. DOMAIN f = O /\ \A l \in O : f[l] = l.rem BY Zenon
  <2>2. [l \in O |-> f[l]] = [l \in O |-> l.rem] BY <2>1, Zenon
  <2>3. Remaining(O) = Part(f, O) BY <2>2 DEF Remaining, Part
  <2> HIDE DEF f
  <2>4. O \subseteq V BY DEF O, OpenLots
  <2>5. Weighable(V) BY SoundWeighable
  <2>6. Fractional(f)
    <3>1. Weighable(O) BY <2>4, <2>5, FewerWeighable
    <3> QED BY <2>1, <3>1 DEF Fractional, Weighable
  <2>7. \A i \in DOMAIN s : s[i] \in DOMAIN f /\ cap[i] = f[s[i]]
    <3> SUFFICES ASSUME NEW i \in 1 .. n PROVE s[i] \in O /\ cap[i] = f[s[i]]
      BY <1>4, <2>1
    <3>1. s[i] \in O BY <1>4
    <3> QED BY <1>5, <2>1, <3>1
  <2>8. DOMAIN cap = DOMAIN s /\ 1 .. n \in SUBSET DOMAIN s BY <1>4, <1>5
  <2>9. \A i, j \in DOMAIN s : s[i] = s[j] => i = j BY <1>4
  <2>10. Part(f, {s[i] : i \in 1 .. n}) = Part(cap, 1 .. n)
    BY <1>8, <2>6, <2>7, <2>8, <2>9, PartImage
  <2> QED BY <1>4, <2>3, <2>10
<1> QED BY <1>8, <1>9, <1>10 DEF cap, O

\* Lots under other keys.
LEMMA JoinKeyed ==
    ASSUME NEW V, NEW N, Keyed(V), Keyed(N), \A l \in V, m \in N : l.id # m.id
    PROVE  Keyed(V \cup N) /\ V \cap N = {}
BY DEF Keyed

\* A lot that arrives.
LEMMA ArrivedFields ==
    ASSUME NEW l, NEW q, NEW d, NEW id
    PROVE  /\ Arrived(l, q, d, id).id = id /\ Arrived(l, q, d, id).acct = d.acct
           /\ Arrived(l, q, d, id).rem = q /\ Arrived(l, q, d, id).acquired = l.acquired
           /\ Arrived(l, q, d, id).transfer = d.id /\ Arrived(l, q, d, id).purchase = None
           /\ Arrived(l, q, d, id).unit = l.unit /\ Arrived(l, q, d, id).closed = None
BY DEF Arrived, Opened

\* It is under a key of its transfer.
Delivered(l, g, d) ==
    /\ \E i \in Nat \ {0} : l.id = <<g, d.id, i>>
    /\ l.transfer = d.id /\ l.purchase = None

\* A transfer moves its units to the account of the other leg.
MovesUnits(V, W, t, d, g) ==
    /\ Keyed(W)
    /\ \A l \in W : Delivered(l, g, d) \/ \E m \in V : SameMarks(l, m)
    /\ UnitsIn(W, t.acct, Nat) = Minus(UnitsIn(V, t.acct, Nat), t.qty)
    /\ UnitsIn(W, d.acct, Nat) = Plus(UnitsIn(V, d.acct, Nat), t.qty)
    /\ \A D : Early(D) =>
           \A a : a # t.acct /\ a # d.acct => UnitsIn(W, a, D) = UnitsIn(V, a, D)

\* The lots that arrive, and what they hold.
Comes(N, s, q, d, g, n) ==
    N = {Arrived(s[i], q[i], d, <<g, d.id, i>>) : i \in {k \in 1 .. n : q[k] # Zero}}

Arrivals(N, q, d, g, n) ==
    /\ Weighable(N) /\ Keyed(N) /\ \A l \in N : Delivered(l, g, d)
    /\ UnitsIn(N, d.acct, Nat) = Part(q, 1 .. n)
    /\ \A a, D : a # d.acct => UnitsIn(N, a, D) = Zero

\* The lots that arrive hold what was taken.
LEMMA NewUnits ==
    ASSUME NEW n \in Nat, NEW s, \A i \in 1 .. n : s[i].acquired \in Nat,
           NEW q, Fractional(q), DOMAIN q = 1 .. n, NEW d, NEW g, NEW N, Comes(N, s, q, d, g, n)
    PROVE  Arrivals(N, q, d, g, n)
<1> DEFINE P == {k \in 1 .. n : q[k] # Zero}
           come == [i \in P |-> Arrived(s[i], q[i], d, <<g, d.id, i>>)]
           h == [i \in P |-> q[i]]
<1>1. DOMAIN come = P /\ come = [i \in P |-> come[i]]
      /\ \A i \in P : come[i] = Arrived(s[i], q[i], d, <<g, d.id, i>>)
  BY Zenon
<1>2. N = {come[i] : i \in P} BY <1>1 DEF Comes
<1>3. P \subseteq 1 .. n /\ \A i \in 1 .. n : i \notin P => q[i] = Zero OBVIOUS
<1>4. DOMAIN h = P /\ \A i \in P : h[i] = q[i] BY Zenon
<1> HIDE DEF come, P, h
<1>5. \A i \in P : /\ come[i].id = <<g, d.id, i>> /\ come[i].acct = d.acct
                   /\ come[i].rem = q[i] /\ come[i].acquired = s[i].acquired
                   /\ come[i].transfer = d.id /\ come[i].purchase = None
  <2> SUFFICES ASSUME NEW i \in P
               PROVE  /\ come[i].id = <<g, d.id, i>> /\ come[i].acct = d.acct
                      /\ come[i].rem = q[i] /\ come[i].acquired = s[i].acquired
                      /\ come[i].transfer = d.id /\ come[i].purchase = None
    OBVIOUS
  <2> DEFINE l == s[i]
             x == q[i]
             y == <<g, d.id, i>>
  <2>1. come[i] = Arrived(l, x, d, y) BY <1>1
  <2> HIDE DEF l, x, y
  <2>2. /\ come[i].id = y /\ come[i].acct = d.acct
        /\ come[i].rem = x /\ come[i].acquired = l.acquired
        /\ come[i].transfer = d.id /\ come[i].purchase = None
    BY <2>1, ArrivedFields
  <2> QED BY <2>2 DEF l, x, y
<1>6. IsFiniteSet(P)
  <2>1. IsFiniteSet(1 .. n) BY PlacesFinite, Zenon
  <2> QED BY <1>3, <2>1, FS_Subset
<1>7. \A i \in P : IsFraction(q[i]) /\ come[i].acquired \in Nat /\ i \in Nat \ {0}
  BY <1>3, <1>5 DEF Fractional
<1>8. IsFiniteSet(N)
  <2>1. N = {come[i] : i \in DOMAIN come} BY <1>1, <1>2
  <2>2. come = [i \in DOMAIN come |-> come[i]] BY <1>1
  <2>3. IsFiniteSet(DOMAIN come) BY <1>1, <1>6
  <2>4. IsFiniteSet({come[i] : i \in DOMAIN come}) BY <2>2, <2>3, FiniteRange
  <2> QED BY <2>1, <2>4
<1>9. \A i, j \in P : come[i].id = come[j].id => i = j BY <1>5
<1>10. Keyed(N) BY <1>2, <1>7, <1>9 DEF Keyed
<1>11. \A i \in P : Delivered(come[i], g, d) BY <1>5, <1>7 DEF Delivered
<1>12. \A l \in N : Delivered(l, g, d) BY <1>2, <1>11
<1>13. Weighable(N)
  <2>1. \A i \in P : IsFraction(come[i].rem) BY <1>5, <1>7
  <2>2. \A l \in N : IsFraction(l.rem) BY <1>2, <2>1
  <2> QED BY <1>8, <2>2 DEF Weighable
<1>14. \A l \in N : l.acct = d.acct BY <1>2, <1>5
<1>15. ASSUME NEW a, NEW D, a # d.acct PROVE UnitsIn(N, a, D) = Zero
  BY <1>13, <1>14, <1>15, ZeroUnits
<1>16. UnitsIn(N, d.acct, Nat) = Part(h, P)
  <2>1. \A i \in P : h[i] = IF come[i].acct = d.acct /\ come[i].acquired \in Nat
                            THEN come[i].rem ELSE Zero
    BY <1>4, <1>5, <1>7
  <2>2. \A i, j \in P : come[i] = come[j] => i = j BY <1>9
  <2>3. Weighable({come[i] : i \in P}) BY <1>2, <1>13
  <2> DEFINE x == d.acct
             D == Nat
  <2>a. \A i \in P : h[i] = IF come[i].acct = x /\ come[i].acquired \in D
                            THEN come[i].rem ELSE Zero
    BY <2>1
  <2> HIDE DEF x, D
  <2>4. UnitsIn({come[i] : i \in P}, x, D) = Part(h, P)
    BY <1>1, <1>4, <1>6, <2>a, <2>2, <2>3, NumberedUnits
  <2> QED BY <1>2, <2>4 DEF x, D
<1>17. Part(h, P) = Part(q, P) BY <1>4, PartSame
<1>18. Part(q, 1 .. n) = Part(q, P)
  <2> DEFINE R == (1 .. n) \ P
  <2>1. P \cap R = {} /\ P \cup R = 1 .. n /\ R \subseteq 1 .. n BY <1>3
  <2>2. \A i \in R : q[i] = Zero BY <1>3
  <2> HIDE DEF R
  <2>3. P \in SUBSET DOMAIN q /\ R \in SUBSET DOMAIN q BY <1>3, <2>1
  <2>4. Part(q, P \cup R) = Plus(Part(q, P), Part(q, R)) BY <2>1, <2>3, PartUnion
  <2>5. Part(q, R) = Zero BY <2>2, <2>3, PartZero
  <2>6. IsFraction(Part(q, P)) BY <2>3, PartGrows
  <2> QED BY <2>1, <2>4, <2>5, <2>6, PlusZero
<1> QED BY <1>10, <1>12, <1>13, <1>15, <1>16, <1>17, <1>18 DEF Arrivals

\* A transfer.
LEMMA MovedUnits ==
    ASSUME NEW T \in SUBSET Transactions, NEW V, SoundLots(V, T), Keyed(V),
           NEW t \in T, NEW d \in T, d.acct # t.acct, ~TransferLacks(V, t), NEW g,
           \A l \in V, i \in Nat \ {0} : l.id # <<g, d.id, i>>,
           NEW o \in Transferred(V, t, d, g)
    PROVE  MovesUnits(V, o.lots, t, d, g)
<1>1. PICK s \in Fifo(OpenLots(V, t.acct)) : o = Moved(V, t, d, g, s) BY Zenon DEF Transferred
<1>2. PICK n \in Nat : Walked(V, t.acct, s, n) BY FifoWalked DEF SoundLots
<1>3. NonNeg(t.qty) BY ShapeOf
<1> DEFINE q == Taken(Caps(s), t.qty)
           r == [i \in DOMAIN s |-> SentFrom(s[i], q[i], t)]
           M == Replaced(V, s, r)
           N == {Arrived(s[i], q[i], d, <<g, d.id, i>>) : i \in {k \in 1 .. n : q[k] # Zero}}
           u == UnitsIn(V, t.acct, Nat)
<1>4. /\ DOMAIN s = 1 .. n /\ (\A i, j \in 1 .. n : s[i] = s[j] => i = j)
      /\ \A i \in 1 .. n : SoundLot(s[i], T) /\ IsFraction(q[i]) /\ s[i] \in V
      /\ DOMAIN q = 1 .. n
  BY <1>2, <1>3, WalkedLots
<1>5. o.lots = M \cup N
  <2>1. o.lots = M \cup {Arrived(s[i], q[i], d, <<g, d.id, i>>) :
                            i \in {k \in DOMAIN s : q[k] # Zero}}
    BY <1>1, Zenon DEF Moved, Outcome
  <2> HIDE DEF M, q
  <2> QED BY <1>4, <2>1
<1>6. DOMAIN r = 1 .. n /\ \A i \in 1 .. n : r[i] = SentFrom(s[i], q[i], t) BY <1>4, Zenon
<1>7. r = [i \in 1 .. n |-> r[i]]
  <2>1. r = [i \in DOMAIN r |-> r[i]] BY Zenon
  <2> HIDE DEF r
  <2> QED BY <1>6, <2>1
<1> HIDE DEF r, N
<1>8. \A i \in 1 .. n : SameMarks(r[i], s[i]) /\ r[i].rem = Minus(s[i].rem, q[i])
  <2> HIDE DEF q
  <2> QED BY <1>4, <1>6, SentFields
<1>9. Again(s, r, n) BY <1>4, <1>6, <1>7, <1>8 DEF Again
<1>10. \A i \in 1 .. n : r[i].rem = Minus(s[i].rem, Taken(Caps(s), t.qty)[i]) BY <1>8
<1>11. TakesUnits(V, M, t.acct, t.qty) BY <1>2, <1>3, <1>9, <1>10, LoopTakes
<1>12. Weighable(M)
  <2>1. Weighable(V) BY SoundWeighable
  <2>2. \A i \in 1 .. n : IsFraction(r[i].rem)
    <3> SUFFICES ASSUME NEW i \in 1 .. n PROVE IsFraction(r[i].rem) OBVIOUS
    <3>1. IsFraction(s[i].rem) BY <1>4, <2>1 DEF Weighable
    <3>2. IsFraction(q[i]) BY <1>4
    <3> HIDE DEF q
    <3>3. IsFraction(Minus(s[i].rem, q[i])) BY <3>1, <3>2, PlusType
    <3> QED BY <1>8, <3>3
  <2>3. Weighable(V \cup M) BY <1>6, <1>7, <2>1, <2>2, ReplacedWeighable
  <2> HIDE DEF M
  <2>4. M \subseteq V \cup M OBVIOUS
  <2> QED BY <2>3, <2>4, FewerWeighable
<1>13. Remaining(OpenLots(V, t.acct)) = u /\ Part(q, 1 .. n) = Lesser(u, t.qty)
  BY <1>2, <1>3, TakenAll
<1>14. Lesser(u, t.qty) = t.qty
  <2>1. ~Less(u, t.qty) BY <1>13 DEF TransferLacks
  <2> HIDE DEF u
  <2> QED BY <2>1 DEF Lesser
<1>15. Fractional(q)
  <2>1. IsFiniteSet(1 .. n) BY PlacesFinite, Zenon
  <2> HIDE DEF q
  <2> QED BY <1>4, <2>1 DEF Fractional
<1>16. \A i \in 1 .. n : s[i].acquired \in Nat BY <1>4 DEF Keyed
<1>17. /\ Weighable(N) /\ Keyed(N) /\ \A l \in N : Delivered(l, g, d)
       /\ UnitsIn(N, d.acct, Nat) = Part(q, 1 .. n)
       /\ \A a, D : a # d.acct => UnitsIn(N, a, D) = Zero
  <2>1. Comes(N, s, q, d, g, n) BY DEF Comes, N
  <2> HIDE DEF q
  <2>2. Arrivals(N, q, d, g, n) BY <1>4, <1>15, <1>16, <2>1, NewUnits
  <2> QED BY <2>2 DEF Arrivals
<1> HIDE DEF M, q, u
<1>18. Keyed(M) /\ MarkedBy(V, M) BY <1>11 DEF TakesUnits
<1>19. \A l \in M, m \in N : l.id # m.id
  <2> SUFFICES ASSUME NEW l \in M, NEW m \in N, l.id = m.id PROVE FALSE OBVIOUS
  <2>1. PICK k \in V : l.id = k.id BY <1>18 DEF MarkedBy, SameMarks
  <2>2. PICK i \in Nat \ {0} : m.id = <<g, d.id, i>> BY <1>17 DEF Delivered
  <2> QED BY <2>1, <2>2
<1>20. Keyed(M \cup N) /\ M \cap N = {} BY <1>17, <1>18, <1>19, JoinKeyed
<1>21. Weighable(M \cup N)
  <2>1. IsFiniteSet(M \cup N) BY <1>12, <1>17, FS_Union DEF Weighable
  <2> QED BY <1>12, <1>17, <2>1 DEF Weighable
<1>22. \A a, D : UnitsIn(M \cup N, a, D) = Plus(UnitsIn(M, a, D), UnitsIn(N, a, D))
  BY <1>20, <1>21, DisjointUnits
<1>23. \A a, D : IsFraction(UnitsIn(M, a, D)) BY <1>12, WeightType DEF UnitsIn
<1>24. \A a, D : a # d.acct => UnitsIn(M \cup N, a, D) = UnitsIn(M, a, D)
  <2> SUFFICES ASSUME NEW a, NEW D, a # d.acct PROVE UnitsIn(M \cup N, a, D) = UnitsIn(M, a, D)
    OBVIOUS
  <2>1. UnitsIn(N, a, D) = Zero BY <1>17
  <2>2. UnitsIn(M \cup N, a, D) = Plus(UnitsIn(M, a, D), UnitsIn(N, a, D)) BY <1>22
  <2>3. IsFraction(UnitsIn(M, a, D)) BY <1>23
  <2> QED BY <2>1, <2>2, <2>3, PlusZero
<1>25. UnitsIn(M, t.acct, Nat) = Minus(u, t.qty) BY <1>11, <1>14, AllEarly DEF TakesUnits, u
<1>26. UnitsIn(M, d.acct, Nat) = UnitsIn(V, d.acct, Nat) BY <1>11, AllEarly DEF TakesUnits
<1>27. UnitsIn(M \cup N, d.acct, Nat) = Plus(UnitsIn(V, d.acct, Nat), t.qty)
  <2>1. UnitsIn(N, d.acct, Nat) = t.qty BY <1>13, <1>14, <1>17, Zenon
  <2>2. UnitsIn(M \cup N, d.acct, Nat) = Plus(UnitsIn(M, d.acct, Nat), UnitsIn(N, d.acct, Nat))
    BY <1>22
  <2> QED BY <1>26, <2>1, <2>2, Zenon
<1>28. ASSUME NEW D, Early(D), NEW a, a # t.acct, a # d.acct
       PROVE  UnitsIn(M \cup N, a, D) = UnitsIn(V, a, D)
  <2>1. UnitsIn(M, a, D) = UnitsIn(V, a, D) BY <1>11, <1>28 DEF TakesUnits
  <2> QED BY <1>24, <1>28, <2>1
<1>29. \A l \in M \cup N : Delivered(l, g, d) \/ \E m \in V : SameMarks(l, m)
  BY <1>17, <1>18 DEF MarkedBy
<1>30. UnitsIn(M \cup N, t.acct, Nat) = Minus(u, t.qty) BY <1>24, <1>25
<1> QED BY <1>5, <1>20, <1>27, <1>28, <1>29, <1>30 DEF MovesUnits, u

\* A lot that is scaled.
LEMMA RescaledFields ==
    ASSUME NEW T, NEW l, SoundLot(l, T), NEW ratio
    PROVE  /\ SameMarks(Rescaled(l, ratio), l) /\ Rescaled(l, ratio).rem = Times(l.rem, ratio)
           /\ Rescaled(l, ratio).unit = Over(l.unit, ratio)
           /\ Rescaled(l, ratio).closed = l.closed
<1> DEFINE x == Times(l.qty, ratio)
           y == Times(l.rem, ratio)
           z == Over(l.unit, ratio)
           m == [l EXCEPT !.qty = x, !.rem = y, !.unit = z]
<1>1. DOMAIN l = LotFields /\ l = [f \in LotFields |-> l[f]] BY DEF SoundLot
<1>2. Rescaled(l, ratio) = m BY Zenon DEF Rescaled
<1> HIDE DEF x, y, z
<1>3. SameMarks(m, l) /\ m.rem = y /\ m.unit = z /\ m.closed = l.closed
  BY <1>1 DEF SameMarks, LotFields
<1> QED BY <1>2, <1>3 DEF y, z

\* The units of an account are multiplied.
ScalesUnits(V, W, acct, ratio) ==
    /\ Keyed(W) /\ MarkedBy(V, W)
    /\ \A D : /\ UnitsIn(W, acct, D) = Times(UnitsIn(V, acct, D), ratio)
              /\ \A a : a # acct => UnitsIn(W, a, D) = UnitsIn(V, a, D)

\* Lots that are scaled, one for one.
LEMMA ScaledLots ==
    ASSUME NEW T, NEW V, SoundLots(V, T), Keyed(V), NEW ratio, IsFraction(ratio),
           NEW acct, \A l \in V : l.acct = acct,
           NEW N, N = {Rescaled(l, ratio) : l \in V}
    PROVE  /\ Weighable(N) /\ Keyed(N) /\ MarkedBy(V, N)
           /\ \A D : UnitsIn(N, acct, D) = Times(UnitsIn(V, acct, D), ratio)
<1> DEFINE r == [l \in V |-> Rescaled(l, ratio)]
<1>1. DOMAIN r = V /\ r = [l \in DOMAIN r |-> r[l]] /\ \A l \in V : r[l] = Rescaled(l, ratio)
  BY Zenon
<1>2. N = {r[l] : l \in V} BY <1>1
<1> HIDE DEF r
<1>3. Weighable(V) BY SoundWeighable
<1>4. \A l \in V : SameMarks(r[l], l) /\ r[l].rem = Times(l.rem, ratio)
  <2>1. \A l \in V : SoundLot(l, T) BY DEF SoundLots
  <2> QED BY <1>1, <2>1, RescaledFields
<1>5. IsFiniteSet(N)
  <2>1. IsFiniteSet(DOMAIN r) /\ r = [l \in DOMAIN r |-> r[l]] BY <1>1, <1>3 DEF Weighable
  <2>2. IsFiniteSet({r[l] : l \in DOMAIN r}) BY <2>1, FiniteRange
  <2> QED BY <1>1, <1>2, <2>2
<1>6. \A l \in V : IsFraction(r[l].rem)
  <2> SUFFICES ASSUME NEW l \in V PROVE IsFraction(r[l].rem) OBVIOUS
  <2>1. IsFraction(l.rem) BY <1>3 DEF Weighable
  <2>2. IsFraction(Times(l.rem, ratio)) BY <2>1, TimesType
  <2> QED BY <1>4, <2>2
<1>7. Weighable(N)
  <2>1. \A l \in N : IsFraction(l.rem) BY <1>2, <1>6
  <2> QED BY <1>5, <2>1 DEF Weighable
<1>8. MarkedBy(V, N)
  <2> SUFFICES ASSUME NEW m \in N PROVE \E l \in V : SameMarks(m, l) BY DEF MarkedBy
  <2>1. PICK l \in V : m = r[l] BY <1>2
  <2> QED BY <1>4, <2>1
<1>9. \A l, m \in V : r[l].id = r[m].id => l = m BY <1>4 DEF SameMarks, Keyed
<1>10. Keyed(N)
  <2>1. \A l \in V : r[l].acquired \in Nat BY <1>4 DEF SameMarks, Keyed
  <2> QED BY <1>2, <1>9, <2>1 DEF Keyed
<1>11. ASSUME NEW D PROVE UnitsIn(N, acct, D) = Times(UnitsIn(V, acct, D), ratio)
  <2> DEFINE val == Weight(V, acct, D)
             h == [l \in V |-> Times(val[l], ratio)]
  <2>1. Fractional(val) /\ WeightIs(V, acct, D, val) /\ UnitsIn(V, acct, D) = Part(val, V)
    BY <1>3, WeightType, WeightOf DEF UnitsIn
  <2> HIDE DEF val
  <2>2. DOMAIN val = V /\ \A l \in V : val[l] = IF l.acct = acct /\ l.acquired \in D
                                                THEN l.rem ELSE Zero
    BY <2>1 DEF WeightIs
  <2>3. DOMAIN h = V /\ \A l \in V : h[l] = Times(val[l], ratio) BY Zenon
  <2> HIDE DEF h
  <2>4. Fractional(h) /\ Part(h, V) = Times(Part(val, V), ratio)
    <3>1. DOMAIN val = DOMAIN h /\ \A l \in DOMAIN h : h[l] = Times(val[l], ratio)
      BY <2>2, <2>3
    <3>2. V \in SUBSET DOMAIN h BY <2>3
    <3> QED BY <2>1, <3>1, <3>2, PartTimes
  <2>5. \A l \in V : h[l] = IF r[l].acct = acct /\ r[l].acquired \in D THEN r[l].rem ELSE Zero
    <3> SUFFICES ASSUME NEW l \in V
                 PROVE  h[l] = IF r[l].acct = acct /\ r[l].acquired \in D THEN r[l].rem ELSE Zero
      OBVIOUS
    <3>1. r[l].acct = acct /\ l.acct = acct /\ r[l].acquired = l.acquired
          /\ r[l].rem = Times(l.rem, ratio)
      BY <1>4 DEF SameMarks
    <3>2. Times(Zero, ratio) = Zero BY TimesZero
    <3>3. h[l] = Times(val[l], ratio) BY <2>3
    <3>4. CASE l.acquired \in D BY <2>2, <3>1, <3>3, <3>4
    <3>5. CASE l.acquired \notin D BY <2>2, <3>1, <3>2, <3>3, <3>5
    <3> QED BY <3>4, <3>5
  <2>6. IsFiniteSet(V) BY <1>3 DEF Weighable
  <2>7. \A l, m \in V : r[l] = r[m] => l = m BY <1>9
  <2>8. Weighable({r[l] : l \in V}) BY <1>2, <1>7
  <2>9. UnitsIn({r[l] : l \in V}, acct, D) = Part(h, V)
    BY <1>1, <2>3, <2>5, <2>6, <2>7, <2>8, NumberedUnits
  <2> QED BY <1>2, <2>1, <2>4, <2>9
<1> QED BY <1>7, <1>8, <1>10, <1>11

\* A quantity event.
LEMMA QuantityUnits ==
    ASSUME NEW T, NEW V, SoundLots(V, T), Keyed(V), NEW t, IsFraction(t.ratio),
           NEW o \in QuantityChanged(V, t)
    PROVE  ScalesUnits(V, o.lots, t.acct, t.ratio)
<1> DEFINE open == OpenLots(V, t.acct)
           K == V \ open
           N == {Rescaled(l, t.ratio) : l \in open}
           W == K \cup N
<1>0. o = Outcome(W, Zero, Zero) BY Zenon DEF QuantityChanged
<1> HIDE DEF W
<1>1. o.lots = W BY <1>0 DEF Outcome
<1>2. /\ open \subseteq V /\ (\A l \in open : l.acct = t.acct)
      /\ \A l \in V : l \notin open => l.acct # t.acct \/ ~IsOpen(l)
  BY DEF OpenLots
<1> HIDE DEF open
<1>3. V = K \cup open /\ K \cap open = {} /\ K \subseteq V BY <1>2
<1>4. Weighable(V) /\ (\A l \in V : SoundLot(l, T)) BY SoundWeighable DEF SoundLots
<1>5. SoundLots(open, T)
  <2>1. IsFiniteSet(open) BY <1>2, FS_Subset DEF SoundLots
  <2> QED BY <1>2, <1>4, <2>1 DEF SoundLots
<1>6. Keyed(open) /\ Keyed(K) BY <1>2, <1>3 DEF Keyed
<1>7. /\ Weighable(N) /\ Keyed(N) /\ MarkedBy(open, N)
      /\ \A D : UnitsIn(N, t.acct, D) = Times(UnitsIn(open, t.acct, D), t.ratio)
  BY <1>2, <1>5, <1>6, ScaledLots
<1> HIDE DEF N
<1>8. Weighable(K) BY <1>3, <1>4, FewerWeighable
<1>9. \A l \in K, m \in N : l.id # m.id
  <2> SUFFICES ASSUME NEW l \in K, NEW m \in N, l.id = m.id PROVE FALSE OBVIOUS
  <2>1. PICK k \in open : m.id = k.id BY <1>7 DEF MarkedBy, SameMarks
  <2>2. l \in V /\ k \in V BY <1>2
  <2>3. l = k BY <2>1, <2>2 DEF Keyed
  <2> QED BY <2>3
<1>10. \A l \in K : l.acct # t.acct \/ l.rem = Zero
  <2> SUFFICES ASSUME NEW l \in K, l.acct = t.acct PROVE l.rem = Zero OBVIOUS
  <2>1. ~IsOpen(l) /\ SoundLot(l, T) BY <1>2, <1>4
  <2> QED BY <2>1, ClosedEmpty
<1>11. MarkedBy(V, W)
  <2> SUFFICES ASSUME NEW l \in W PROVE \E m \in V : SameMarks(l, m) BY DEF MarkedBy
  <2>1. CASE l \in K BY <1>3, <2>1 DEF SameMarks
  <2>2. CASE l \in N
    <3>1. PICK m \in open : SameMarks(l, m) BY <1>7, <2>2 DEF MarkedBy
    <3> QED BY <1>2, <3>1
  <2> QED BY <2>1, <2>2 DEF W
<1> HIDE DEF K
<1>12. Keyed(W) /\ K \cap N = {} BY <1>6, <1>7, <1>9, JoinKeyed DEF W
<1>13. Weighable(K \cup N)
  <2>1. IsFiniteSet(K \cup N) BY <1>7, <1>8, FS_Union DEF Weighable
  <2> QED BY <1>7, <1>8, <2>1 DEF Weighable
<1>14. Weighable(K \cup open) BY <1>3, <1>4
<1>15. \A a, D : /\ UnitsIn(W, a, D) = Plus(UnitsIn(K, a, D), UnitsIn(N, a, D))
                 /\ UnitsIn(V, a, D) = Plus(UnitsIn(K, a, D), UnitsIn(open, a, D))
  <2> SUFFICES ASSUME NEW a, NEW D
               PROVE  /\ UnitsIn(W, a, D) = Plus(UnitsIn(K, a, D), UnitsIn(N, a, D))
                      /\ UnitsIn(V, a, D) = Plus(UnitsIn(K, a, D), UnitsIn(open, a, D))
    OBVIOUS
  <2>1. UnitsIn(K \cup N, a, D) = Plus(UnitsIn(K, a, D), UnitsIn(N, a, D))
    BY <1>12, <1>13, DisjointUnits
  <2>2. UnitsIn(K \cup open, a, D) = Plus(UnitsIn(K, a, D), UnitsIn(open, a, D))
    BY <1>3, <1>14, DisjointUnits
  <2> QED BY <1>3, <2>1, <2>2 DEF W
<1>16. \A D : UnitsIn(W, t.acct, D) = Times(UnitsIn(V, t.acct, D), t.ratio)
  <2> SUFFICES ASSUME NEW D PROVE UnitsIn(W, t.acct, D) = Times(UnitsIn(V, t.acct, D), t.ratio)
    OBVIOUS
  <2>1. UnitsIn(K, t.acct, D) = Zero BY <1>8, <1>10, ZeroUnits
  <2>2. IsFraction(UnitsIn(N, t.acct, D)) /\ IsFraction(UnitsIn(open, t.acct, D))
    BY <1>5, <1>7, WeightType, SoundWeighable
  <2>3. UnitsIn(W, t.acct, D) = UnitsIn(N, t.acct, D)
        /\ UnitsIn(V, t.acct, D) = UnitsIn(open, t.acct, D)
    BY <1>15, <2>1, <2>2, PlusZero
  <2> QED BY <1>7, <2>3
<1>17. \A a, D : a # t.acct => UnitsIn(W, a, D) = UnitsIn(V, a, D)
  <2> SUFFICES ASSUME NEW a, NEW D, a # t.acct PROVE UnitsIn(W, a, D) = UnitsIn(V, a, D)
    OBVIOUS
  <2>1. \A l \in N : l.acct # a BY <1>2, <1>7 DEF MarkedBy, SameMarks
  <2>2. \A l \in open : l.acct # a BY <1>2
  <2>3. Weighable(open) BY <1>2, <1>4, FewerWeighable
  <2>4. UnitsIn(N, a, D) = Zero BY <1>7, <2>1, ZeroUnits
  <2>5. UnitsIn(open, a, D) = Zero BY <2>2, <2>3, ZeroUnits
  <2> QED BY <1>15, <2>4, <2>5
<1> QED BY <1>1, <1>11, <1>12, <1>16, <1>17 DEF ScalesUnits

\* A purchase adds its units, in a lot of its day.
AddsUnits(V, W, t, g) ==
    /\ Keyed(W)
    /\ \A l \in W : \/ l.id = <<g, t.id, 0>> /\ l.transfer = None /\ l.acquired = t.date
                    \/ \E m \in V : SameMarks(l, m)
    /\ \A D : /\ UnitsIn(W, t.acct, D) = IF t.date \in D THEN Plus(UnitsIn(V, t.acct, D), t.qty)
                                         ELSE UnitsIn(V, t.acct, D)
              /\ \A a : a # t.acct => UnitsIn(W, a, D) = UnitsIn(V, a, D)

\* A purchase adds its units.
LEMMA PurchasedUnits ==
    ASSUME NEW T, NEW V, SoundLots(V, T), Keyed(V), NEW t \in Transactions, NEW g,
           \A l \in V : l.id # <<g, t.id, 0>>, NEW o \in Purchased(V, t, g)
    PROVE  AddsUnits(V, o.lots, t, g)
<1> DEFINE l == [Opened(<<g, t.id, 0>>, t.acct, t.qty, t.amount, t.date) EXCEPT !.purchase = t.id]
           W == V \cup {l}
<1>1. o = Outcome(W, Zero, Zero) BY Zenon DEF Purchased
<1>2. /\ l.id = <<g, t.id, 0>> /\ l.acct = t.acct /\ l.rem = t.qty /\ l.acquired = t.date
      /\ l.transfer = None
  BY DEF Opened
<1> HIDE DEF l, W
<1>3. o.lots = W BY <1>1 DEF Outcome
<1>4. t.date \in Nat /\ IsFraction(t.qty) BY ShapeOf DEF NonNeg
<1>5. Weighable(V) BY SoundWeighable
<1>6. l \notin V BY <1>2
<1>7. Weighable(V \cup {l})
  <2>1. IsFiniteSet(V \cup {l}) BY <1>5, FS_AddElement DEF Weighable
  <2> QED BY <1>2, <1>4, <1>5, <2>1 DEF Weighable
<1>8. Keyed(W) BY <1>2, <1>4 DEF Keyed, W
<1>9. \A k \in W : \/ k.id = <<g, t.id, 0>> /\ k.transfer = None /\ k.acquired = t.date
                   \/ \E m \in V : SameMarks(k, m)
  BY <1>2 DEF W, SameMarks
<1>10. \A a, D : UnitsIn(W, a, D) = IF l.acct = a /\ l.acquired \in D
                                    THEN Plus(l.rem, UnitsIn(V, a, D)) ELSE UnitsIn(V, a, D)
  BY <1>6, <1>7, OneMoreUnits DEF W
<1>11. \A D : Plus(t.qty, UnitsIn(V, t.acct, D)) = Plus(UnitsIn(V, t.acct, D), t.qty)
  <2>1. \A D : IsFraction(UnitsIn(V, t.acct, D)) BY SoundWeighable
  <2> QED BY <1>4, <2>1, PlusSwap
<1> QED BY <1>2, <1>3, <1>8, <1>9, <1>10, <1>11 DEF AddsUnits

-----------------------------------------------------------------------------
(* The books: what a holder counts.                                        *)

\* Where a lot of the rebuild comes from: a purchase that was processed, or the other
\* leg of a transfer that was.
Origin(l, g, T, P) ==
    \/ \E u \in P : l.id = <<g, u.id, 0>> /\ l.transfer = None
    \/ \E u \in P, d \in T, i \in Nat \ {0} :
           u.outbound /\ d \in PartnersOf(T, u) /\ l.id = <<g, d.id, i>> /\ l.transfer = d.id

\* The lots of the transactions P, under tag g: the units of each account are what a
\* holder has counted.
Books(V, g, T, P) ==
    /\ Keyed(V)
    /\ \A l \in V : Origin(l, g, T, P)
    /\ Held(T, P) = [a \in Accounts |-> UnitsIn(V, a, Nat)]

\* The units of the open lots.
LEMMA OpenUnits ==
    ASSUME NEW T, NEW V, SoundLots(V, T), Keyed(V), NEW acct
    PROVE  Remaining(OpenLots(V, acct)) = UnitsIn(V, acct, Nat)
<1> DEFINE O == OpenLots(V, acct)
           f == [l \in V |-> l.rem]
           h == Weight(V, acct, Nat)
<1>1. /\ O \subseteq V /\ (\A l \in O : l.acct = acct)
      /\ \A l \in V : l \notin O => l.acct # acct \/ ~IsOpen(l)
  BY DEF OpenLots
<1> HIDE DEF O
<1>2. Weighable(V) /\ (\A l \in V : SoundLot(l, T)) BY SoundWeighable DEF SoundLots
<1>3. DOMAIN f = V /\ \A l \in V : f[l] = l.rem BY Zenon
<1>4. WeightIs(V, acct, Nat, h) BY WeightOf
<1>5. UnitsIn(V, acct, Nat) = Part(h, V) BY DEF UnitsIn
<1>6. [l \in O |-> f[l]] = [l \in O |-> l.rem] BY <1>1
<1>7. Remaining(O) = Part(f, O) BY <1>6 DEF Remaining, Part
<1> HIDE DEF f, h
<1>8. Fractional(f) BY <1>2, <1>3 DEF Fractional, Weighable
<1>9. \A l \in V : h[l] = IF l \in O THEN f[l] ELSE Zero
  <2> SUFFICES ASSUME NEW l \in V PROVE h[l] = IF l \in O THEN f[l] ELSE Zero OBVIOUS
  <2>1. h[l] = IF l.acct = acct THEN f[l] ELSE Zero BY <1>3, <1>4 DEF WeightIs, Keyed
  <2>2. CASE l \in O BY <1>1, <2>1, <2>2
  <2>3. CASE l \notin O /\ l.acct # acct BY <2>1, <2>3
  <2>4. CASE l \notin O /\ l.acct = acct
    <3>1. ~IsOpen(l) /\ SoundLot(l, T) BY <1>1, <1>2, <2>4
    <3>2. l.rem = Zero BY <3>1, ClosedEmpty
    <3> QED BY <1>3, <2>1, <2>4, <3>2
  <2> QED BY <2>2, <2>3, <2>4
<1>10. DOMAIN h = DOMAIN f /\ (\A l \in DOMAIN f : h[l] = IF l \in O THEN f[l] ELSE Zero)
       /\ V \in SUBSET DOMAIN f
  BY <1>3, <1>4, <1>9 DEF WeightIs
<1>11. Part(h, V) = Part(f, V \cap O) BY <1>8, <1>10, PartFilter
<1>12. V \cap O = O BY <1>1
<1> QED BY <1>5, <1>7, <1>11, <1>12 DEF O

\* Another leg of t does not deliver yet.
LEMMA NotDelivered ==
    ASSUME NEW T \in SUBSET Transactions, IsFiniteSet(T), OneVersionEach(T),
           NEW P \in SUBSET T, NEW t \in T,
           t \notin P, t.outbound, NEW g, NEW l, Origin(l, g, T, P), NEW d \in PartnersOf(T, t)
    PROVE  /\ l.transfer # None => Row(l.transfer) # d.row
           /\ \A i \in Nat \ {0} : l.id # <<g, d.id, i>>
<1>1. d \in T BY DEF PartnersOf, Alike
<1>2. d.id \in Nat /\ d.id # None /\ \A u \in Transactions : u.id = d.id => u = d
  BY <1>1, ShapeOf
<1>3. CASE \E u \in P : l.id = <<g, u.id, 0>> /\ l.transfer = None BY <1>2, <1>3
<1>4. CASE ~\E u \in P : l.id = <<g, u.id, 0>> /\ l.transfer = None
  <2>1. PICK u \in P, e \in T, i \in Nat \ {0} :
          u.outbound /\ e \in PartnersOf(T, u) /\ l.id = <<g, e.id, i>> /\ l.transfer = e.id
    BY <1>4 DEF Origin
  <2>2. u # t /\ u \in T BY <2>1
  <2>3. e # d BY <2>1, <2>2, PartnerIsOne
  <2>4. e \in T BY <2>1 DEF PartnersOf, Alike
  <2>5. e.id # d.id BY <1>2, <2>3, <2>4
  <2>6. Row(e.id) # d.row BY <1>1, <2>3, <2>4, RowOf DEF OneVersionEach
  <2> QED BY <2>1, <2>5, <2>6
<1> QED BY <1>3, <1>4

\* The lot of t is not there yet.
LEMMA NotBought ==
    ASSUME NEW T \in SUBSET Transactions, NEW P \in SUBSET T, NEW t \in T, t \notin P,
           NEW g, NEW l, Origin(l, g, T, P)
    PROVE  l.id # <<g, t.id, 0>>
<1>1. \A u \in P : u.id # t.id BY ShapeOf
<1> QED BY <1>1 DEF Origin

\* What a transaction does to the units.
TransferStays(V, T, t) ==
    ~t.outbound \/ PartnersOf(T, t) = {} \/ Less(UnitsIn(V, t.acct, Nat), t.qty)

Effect(V, W, T, t, g) ==
    \/ t.kind = "purchase" /\ AddsUnits(V, W, t, g)
    \/ t.kind = "sale" /\ TakesUnits(V, W, t.acct, t.qty)
    \/ t.kind = "quantity_event" /\ t.ratio = None /\ W = V
    \/ t.kind = "quantity_event" /\ t.ratio # None /\ ScalesUnits(V, W, t.acct, t.ratio)
    \/ t.kind = "transfer" /\ TransferStays(V, T, t) /\ W = V
    \/ t.kind = "transfer" /\ ~TransferStays(V, T, t)
          /\ \E d \in PartnersOf(T, t) : MovesUnits(V, W, t, d, g)

\* Taking nothing.
LEMMA NothingTaken ==
    ASSUME NEW T, NEW V, SoundLots(V, T), Keyed(V), NEW acct
    PROVE  TakesUnits(V, V, acct, Zero)
<1>1. ASSUME NEW D
      PROVE  UnitsIn(V, acct, D) = Minus(UnitsIn(V, acct, D), Lesser(UnitsIn(V, acct, D), Zero))
  <2> DEFINE u == UnitsIn(V, acct, D)
  <2>1. IsFraction(u) /\ NonNeg(u) BY SoundWeighable
  <2> HIDE DEF u
  <2>2. Lesser(u, Zero) = Zero BY <2>1 DEF Lesser, NonNeg, AtMost
  <2>3. Minus(u, Zero) = u BY <2>1, PlusZero
  <2> QED BY <2>2, <2>3 DEF u
<1>2. MarkedBy(V, V) BY DEF MarkedBy, SameMarks
<1> QED BY <1>1, <1>2 DEF TakesUnits

\* process_transaction does to the lots of each account what a holder counts.
LEMMA OutcomeEffect ==
    ASSUME NEW U \in SUBSET Transactions, NEW V, SoundLots(V, U),
           NEW T \in SUBSET U, IsFiniteSet(T), OneVersionEach(T),
           NEW P \in SUBSET T, NEW t \in T, t \notin P,
           NEW g, Books(V, g, T, P), NEW o \in Outcomes(V, T, t, g)
    PROVE  Effect(V, o.lots, T, t, g)
<1>1. t \in Transactions /\ t \in U /\ t.kind \in Kinds /\ T \in SUBSET Transactions BY ShapeOf
<1>2. \A x \in Unaffected(V) : x.lots = V BY DEF Unaffected, Outcome
<1>3. Keyed(V) /\ \A l \in V : Origin(l, g, T, P) BY DEF Books
<1>4. CASE t.kind = "purchase"
  <2>1. o \in Purchased(V, t, g) BY <1>4 DEF Outcomes
  <2>2. \A l \in V : l.id # <<g, t.id, 0>> BY <1>1, <1>3, NotBought
  <2>3. AddsUnits(V, o.lots, t, g) BY <1>1, <1>3, <2>1, <2>2, PurchasedUnits
  <2> QED BY <1>4, <2>3 DEF Effect
<1>5. CASE t.kind = "sale"
  <2>1. CASE t.qty = Zero
    <3>1. o \in Unaffected(V) BY <1>5, <2>1 DEF Outcomes
    <3>2. TakesUnits(V, V, t.acct, Zero) BY <1>3, NothingTaken
    <3> QED BY <1>2, <1>5, <2>1, <3>1, <3>2 DEF Effect
  <2>2. CASE t.qty # Zero
    <3>1. o \in Sold(V, t) BY <1>5, <2>2 DEF Outcomes
    <3>2. TakesUnits(V, o.lots, t.acct, t.qty) BY <1>1, <1>3, <1>5, <3>1, SoldUnits
    <3> QED BY <1>5, <3>2 DEF Effect
  <2> QED BY <2>1, <2>2
<1>6. CASE t.kind = "quantity_event"
  <2>1. CASE t.ratio = None
    <3>1. o \in Unaffected(V) BY <1>6, <2>1 DEF Outcomes
    <3> QED BY <1>2, <1>6, <2>1, <3>1 DEF Effect
  <2>2. CASE t.ratio # None
    <3>1. o \in QuantityChanged(V, t) BY <1>6, <2>2 DEF Outcomes
    <3>2. IsFraction(t.ratio) BY <1>1, <2>2, ShapeOf DEF Pos
    <3>3. ScalesUnits(V, o.lots, t.acct, t.ratio) BY <1>3, <3>1, <3>2, QuantityUnits
    <3> QED BY <1>6, <2>2, <3>3 DEF Effect
  <2> QED BY <2>1, <2>2
<1>7. CASE t.kind = "transfer"
  <2>1. TransferLacks(V, t) <=> Less(UnitsIn(V, t.acct, Nat), t.qty)
    BY <1>3, OpenUnits DEF TransferLacks
  <2>2. CASE TransferStays(V, T, t)
    <3>1. o \in Unaffected(V) BY <1>7, <2>1, <2>2 DEF Outcomes, TransferStays
    <3> QED BY <1>2, <1>7, <2>2, <3>1 DEF Effect
  <2>3. CASE ~TransferStays(V, T, t)
    <3>1. t.outbound /\ ~TransferLacks(V, t) BY <2>1, <2>3 DEF TransferStays
    <3>2. \A d \in PartnersOf(T, t), l \in V :
             /\ l.transfer # None => Row(l.transfer) # d.row
             /\ \A i \in Nat \ {0} : l.id # <<g, d.id, i>>
      BY <1>1, <1>3, <3>1, NotDelivered
    <3>3. \E d \in PartnersOf(T, t) : o \in Transferred(V, t, d, g)
      BY <1>7, <2>1, <2>3, <3>2 DEF Outcomes, TransferStays
    <3>4. PICK d \in PartnersOf(T, t) : o \in Transferred(V, t, d, g) BY <3>3
    <3>5. d \in U /\ d.acct # t.acct BY DEF PartnersOf, Alike
    <3>6. \A l \in V, i \in Nat \ {0} : l.id # <<g, d.id, i>> BY <3>2
    <3>7. MovesUnits(V, o.lots, t, d, g) BY <1>1, <1>3, <3>1, <3>4, <3>5, <3>6, MovedUnits
    <3> QED BY <1>7, <2>3, <3>7 DEF Effect
  <2> QED BY <2>2, <2>3
<1> QED BY <1>1, <1>4, <1>5, <1>6, <1>7 DEF Kinds

\* The lots after a transaction come from it or from one before.
LEMMA OriginKept ==
    ASSUME NEW T, NEW P \in SUBSET T, NEW t \in T, NEW g, NEW V, NEW W,
           \A l \in V : Origin(l, g, T, P), Effect(V, W, T, t, g), NEW l \in W
    PROVE  Origin(l, g, T, P \cup {t})
<1>1. \A m \in V : SameMarks(l, m) => Origin(l, g, T, P \cup {t})
  <2> SUFFICES ASSUME NEW m \in V, SameMarks(l, m) PROVE Origin(l, g, T, P \cup {t}) OBVIOUS
  <2>1. l.id = m.id /\ l.transfer = m.transfer BY DEF SameMarks
  <2>2. Origin(m, g, T, P) OBVIOUS
  <2>3. CASE \E u \in P : m.id = <<g, u.id, 0>> /\ m.transfer = None
    BY <2>1, <2>3 DEF Origin
  <2>4. CASE \E u \in P, d \in T, i \in Nat \ {0} :
               u.outbound /\ d \in PartnersOf(T, u) /\ m.id = <<g, d.id, i>> /\ m.transfer = d.id
    BY <2>1, <2>4 DEF Origin
  <2> QED BY <2>2, <2>3, <2>4 DEF Origin
<1>2. CASE \E m \in V : SameMarks(l, m) BY <1>1, <1>2
<1>3. CASE ~\E m \in V : SameMarks(l, m)
  <2>1. ~(l \in V) BY <1>3 DEF SameMarks
  <2>2. ~MarkedBy(V, W) BY <1>3 DEF MarkedBy
  <2>3. W # V BY <2>1
  <2>4. \/ t.kind = "purchase" /\ AddsUnits(V, W, t, g)
        \/ t.kind = "transfer" /\ ~TransferStays(V, T, t)
             /\ \E d \in PartnersOf(T, t) : MovesUnits(V, W, t, d, g)
    BY <2>2, <2>3 DEF Effect, TakesUnits, ScalesUnits
  <2>5. CASE AddsUnits(V, W, t, g)
    <3>1. l.id = <<g, t.id, 0>> /\ l.transfer = None BY <1>3, <2>5 DEF AddsUnits
    <3> QED BY <3>1 DEF Origin
  <2>6. CASE ~TransferStays(V, T, t) /\ \E d \in PartnersOf(T, t) : MovesUnits(V, W, t, d, g)
    <3>1. PICK d \in PartnersOf(T, t) : MovesUnits(V, W, t, d, g) BY <2>6
    <3>2. Delivered(l, g, d) BY <1>3, <3>1 DEF MovesUnits
    <3>3. PICK i \in Nat \ {0} : l.id = <<g, d.id, i>> BY <3>2 DEF Delivered
    <3>4. l.transfer = d.id BY <3>2 DEF Delivered
    <3>5. t.outbound BY <2>6 DEF TransferStays
    <3>6. d \in T BY DEF PartnersOf, Alike
    <3> QED BY <3>3, <3>4, <3>5, <3>6 DEF Origin
  <2> QED BY <2>4, <2>5, <2>6
<1> QED BY <1>2, <1>3

\* The units that are left in each account.
UnitsOfAll(V) == [a \in Accounts |-> UnitsIn(V, a, Nat)]

\* One account of the holdings that a transaction changes.
LEMMA OneChanged ==
    ASSUME NEW V, NEW W, NEW acct \in Accounts,
           \A a \in Accounts : a # acct => UnitsIn(W, a, Nat) = UnitsIn(V, a, Nat)
    PROVE  [UnitsOfAll(V) EXCEPT ![acct] = UnitsIn(W, acct, Nat)] = UnitsOfAll(W)
BY DEF UnitsOfAll

\* A transaction changes the units as a holder counts it.
LEMMA CountedUnits ==
    ASSUME NEW T \in SUBSET Transactions, IsFiniteSet(T), NEW t \in T, NEW g, NEW V, NEW W,
           Effect(V, W, T, t, g)
    PROVE  Counted(T, t, UnitsOfAll(V)) = UnitsOfAll(W)
<1> DEFINE h == UnitsOfAll(V)
           c == t.acct
<1>1. t \in Transactions /\ t.kind \in Kinds /\ c \in Accounts
  BY TransactionShape
<1>2. Early(Nat) BY AllEarly
<1>3. h[c] = UnitsIn(V, c, Nat) BY <1>1 DEF UnitsOfAll
<1>4. CASE t.kind = "purchase"
  <2>1. AddsUnits(V, W, t, g) BY <1>4 DEF Effect
  <2>2. t.date \in Nat BY <1>1, ShapeOf
  <2>3. UnitsIn(W, c, Nat) = Plus(h[c], t.qty)
        /\ \A a : a # c => UnitsIn(W, a, Nat) = UnitsIn(V, a, Nat)
    BY <1>3, <2>1, <2>2 DEF AddsUnits
  <2>4. [h EXCEPT ![c] = UnitsIn(W, c, Nat)] = UnitsOfAll(W) BY <1>1, <2>3, OneChanged
  <2>5. Counted(T, t, h) = [h EXCEPT ![c] = Plus(h[c], t.qty)] BY <1>4 DEF Counted
  <2> QED BY <2>3, <2>4, <2>5
<1>5. CASE t.kind = "sale"
  <2>1. TakesUnits(V, W, c, t.qty) BY <1>5 DEF Effect
  <2>3. UnitsIn(W, c, Nat) = Minus(h[c], Lesser(h[c], t.qty))
        /\ \A a : a # c => UnitsIn(W, a, Nat) = UnitsIn(V, a, Nat)
    BY <1>2, <1>3, <2>1 DEF TakesUnits
  <2>4. [h EXCEPT ![c] = UnitsIn(W, c, Nat)] = UnitsOfAll(W) BY <1>1, <2>3, OneChanged
  <2>5. Counted(T, t, h) = [h EXCEPT ![c] = Minus(h[c], Lesser(h[c], t.qty))] BY <1>5 DEF Counted
  <2> QED BY <2>3, <2>4, <2>5
<1>6. CASE t.kind = "quantity_event" /\ t.ratio = None
  <2>1. W = V BY <1>6 DEF Effect
  <2>2. Counted(T, t, h) = h BY <1>6 DEF Counted
  <2> QED BY <2>1, <2>2
<1>7. CASE t.kind = "quantity_event" /\ t.ratio # None
  <2>1. ScalesUnits(V, W, c, t.ratio) BY <1>7 DEF Effect
  <2>3. UnitsIn(W, c, Nat) = Times(h[c], t.ratio)
        /\ \A a : a # c => UnitsIn(W, a, Nat) = UnitsIn(V, a, Nat)
    BY <1>3, <2>1 DEF ScalesUnits
  <2>4. [h EXCEPT ![c] = UnitsIn(W, c, Nat)] = UnitsOfAll(W) BY <1>1, <2>3, OneChanged
  <2>5. Counted(T, t, h) = [h EXCEPT ![c] = Times(h[c], t.ratio)] BY <1>7 DEF Counted
  <2> QED BY <2>3, <2>4, <2>5
<1>8. CASE t.kind = "transfer" /\ TransferStays(V, T, t)
  <2>1. W = V BY <1>8 DEF Effect
  <2>2. ~t.outbound \/ PartnersOf(T, t) = {} \/ Less(h[c], t.qty)
    BY <1>3, <1>8 DEF TransferStays
  <2>3. Counted(T, t, h) = h BY <1>8, <2>2 DEF Counted
  <2> QED BY <2>1, <2>3
<1>9. CASE t.kind = "transfer" /\ ~TransferStays(V, T, t)
  <2>1. PICK d \in PartnersOf(T, t) : MovesUnits(V, W, t, d, g) BY <1>9 DEF Effect
  <2>2. t.outbound /\ PartnersOf(T, t) # {} /\ ~Less(h[c], t.qty)
    BY <1>3, <1>9 DEF TransferStays
  <2>3. \A e \in PartnersOf(T, t) : e = d BY <2>2, PartnerIsOne
  <2>4. d \in T /\ d.acct # c BY DEF PartnersOf, Alike
  <2>5. d.acct \in Accounts BY <2>4, TransactionShape
  <2>6. Counted(T, t, h) = [a \in Accounts |->
            IF a = c THEN Minus(h[a], t.qty)
            ELSE IF \E e \in PartnersOf(T, t) : e.acct = a THEN Plus(h[a], t.qty) ELSE h[a]]
    BY <1>9, <2>2 DEF Counted
  <2>7. /\ UnitsIn(W, c, Nat) = Minus(UnitsIn(V, c, Nat), t.qty)
        /\ UnitsIn(W, d.acct, Nat) = Plus(UnitsIn(V, d.acct, Nat), t.qty)
        /\ \A a : a # c /\ a # d.acct => UnitsIn(W, a, Nat) = UnitsIn(V, a, Nat)
    BY <1>2, <2>1 DEF MovesUnits
  <2>8. ASSUME NEW a \in Accounts
        PROVE  (IF a = c THEN Minus(h[a], t.qty)
                ELSE IF \E e \in PartnersOf(T, t) : e.acct = a THEN Plus(h[a], t.qty) ELSE h[a])
               = UnitsIn(W, a, Nat)
    <3>1. h[a] = UnitsIn(V, a, Nat) BY DEF UnitsOfAll
    <3>2. (\E e \in PartnersOf(T, t) : e.acct = a) <=> d.acct = a BY <2>3
    <3> QED BY <2>4, <2>7, <3>1, <3>2
  <2> QED BY <2>6, <2>8 DEF UnitsOfAll
<1> QED BY <1>1, <1>4, <1>5, <1>6, <1>7, <1>8, <1>9 DEF Kinds

\* The books are kept.
LEMMA BooksKept ==
    ASSUME NEW T \in SUBSET Transactions, IsFiniteSet(T), NEW P \in SUBSET T, NEW t \in T,
           \A u \in P : u.id < t.id, NEW g, NEW V, NEW W, Books(V, g, T, P),
           Effect(V, W, T, t, g)
    PROVE  Books(W, g, T, P \cup {t})
<1>1. Keyed(W)
  BY DEF Effect, AddsUnits, TakesUnits, ScalesUnits, MovesUnits, Books
<1>2. \A l \in W : Origin(l, g, T, P \cup {t}) BY OriginKept DEF Books
<1>3. IsFiniteSet(P) BY FS_Subset
<1>4. Held(T, P \cup {t}) = Counted(T, t, Held(T, P)) BY <1>3, HeldStep
<1>5. Held(T, P) = UnitsOfAll(V) BY DEF Books, UnitsOfAll
<1>6. Held(T, P \cup {t}) = UnitsOfAll(W) BY <1>4, <1>5, CountedUnits
<1> QED BY <1>1, <1>2, <1>6 DEF Books, UnitsOfAll

-----------------------------------------------------------------------------
(* The order in which lots are sold.                                       *)

\* A larger denominator.
LEMMA LargerDen ==
    ASSUME NEW x, NEW d \in Nat \ {0}, HasDen(x, d), NEW e \in Nat \ {0}
    PROVE  HasDen(x, d * e)
<1>1. PICK n \in Int : x = Frac(n, d) BY DEF HasDen
<1>2. x = Frac(n * e, d * e) BY <1>1, Scale
<1>3. n * e \in Int OBVIOUS
<1> QED BY <1>2, <1>3, Zenon DEF HasDen

\* Four fractions with one denominator.
LEMMA CommonFour ==
    ASSUME NEW x, NEW y, NEW z, NEW w,
           IsFraction(x), IsFraction(y), IsFraction(z), IsFraction(w)
    PROVE  \E d \in Nat \ {0} : HasDen(x, d) /\ HasDen(y, d) /\ HasDen(z, d) /\ HasDen(w, d)
<1>1. PICK d \in Nat \ {0} : HasDen(x, d) /\ HasDen(y, d) /\ HasDen(z, d) BY CommonThree
<1>2. w.num \in Int /\ w.den \in Nat \ {0} /\ w = Frac(w.num, w.den) BY Parts, FracOf
<1>3. HasDen(w, w.den) BY <1>2, Zenon DEF HasDen
<1>4. HasDen(w, w.den * d) BY <1>2, <1>3, LargerDen
<1>5. w.den * d = d * w.den BY <1>2
<1>6. HasDen(x, d * w.den) /\ HasDen(y, d * w.den) /\ HasDen(z, d * w.den)
  BY <1>1, <1>2, LargerDen
<1>7. d * w.den \in Nat \ {0} BY <1>2, Positive
<1> QED BY <1>4, <1>5, <1>6, <1>7, Zenon

\* What is left of b after `sold' has been taken, if there was as much.
Left(b, sold) == Greater(Zero, Minus(b, sold))

\* Numbers over one denominator.
LEMMA OrderFrac ==
    ASSUME NEW n \in Int, NEW m \in Int, NEW d \in Nat \ {0}
    PROVE  /\ Lesser(Frac(n, d), Frac(m, d)) = Frac(IF n < m THEN n ELSE m, d)
           /\ Left(Frac(n, d), Frac(m, d)) = Frac(IF 0 < n - m THEN n - m ELSE 0, d)
           /\ AtMost(Frac(n, d), Frac(m, d)) <=> n <= m
<1>1. Less(Frac(n, d), Frac(m, d)) <=> n < m BY LessFrac
<1>2. Less(Frac(m, d), Frac(n, d)) <=> m < n BY LessFrac
<1>3. Zero = Frac(0, d) BY ZeroFrac
<1>4. Minus(Frac(n, d), Frac(m, d)) = Frac(n - m, d) BY MinusFrac
<1>5. n - m \in Int OBVIOUS
<1>6. Less(Frac(0, d), Frac(n - m, d)) <=> 0 < n - m BY <1>5, LessFrac
<1>7. Lesser(Frac(n, d), Frac(m, d)) = Frac(IF n < m THEN n ELSE m, d)
  BY <1>1 DEF Lesser
<1>8. Left(Frac(n, d), Frac(m, d)) = Frac(IF 0 < n - m THEN n - m ELSE 0, d)
  BY <1>3, <1>4, <1>6 DEF Left, Greater
<1>9. AtMost(Frac(n, d), Frac(m, d)) <=> n <= m
  <2>1. (n <= m) <=> ~(m < n) OBVIOUS
  <2> QED BY <1>2, <2>1 DEF AtMost
<1> QED BY <1>7, <1>8, <1>9

\* Taking from what is left of all, and of the first of them.
LEMMA LeftTaken ==
    ASSUME NEW all, NEW b, NEW u, NEW q, IsFraction(all), IsFraction(b), NonNeg(u), NonNeg(q),
           AtMost(b, all)
    PROVE  Minus(Left(b, Minus(all, u)), Lesser(Left(b, Minus(all, u)), q))
             = Left(b, Minus(all, Minus(u, Lesser(u, q))))
<1>1. IsFraction(u) /\ IsFraction(q) BY DEF NonNeg
<1>2. PICK d \in Nat \ {0} : HasDen(all, d) /\ HasDen(b, d) /\ HasDen(u, d) /\ HasDen(q, d)
  BY <1>1, CommonFour
<1>3. PICK m \in Int, k \in Int, j \in Int, i \in Int :
        all = Frac(m, d) /\ b = Frac(k, d) /\ u = Frac(j, d) /\ q = Frac(i, d)
  BY <1>2, Zenon DEF HasDen
<1>4. j >= 0 /\ i >= 0 BY <1>3, SignFrac
<1>5. k <= m BY <1>3, OrderFrac
<1> DEFINE e == IF 0 < k - (m - j) THEN k - (m - j) ELSE 0
           f == IF e < i THEN e ELSE i
           g == IF j < i THEN j ELSE i
           h == IF 0 < k - (m - (j - g)) THEN k - (m - (j - g)) ELSE 0
<1>6. m - j \in Int /\ e \in Int /\ f \in Int /\ g \in Int /\ j - g \in Int
      /\ m - (j - g) \in Int
  OBVIOUS
<1>7. e - f = h BY <1>4, <1>5
<1>8. Minus(all, u) = Frac(m - j, d) BY <1>3, MinusFrac
<1>9. Left(b, Minus(all, u)) = Frac(e, d) BY <1>3, <1>6, <1>8, OrderFrac
<1>10. Lesser(u, q) = Frac(g, d) BY <1>3, OrderFrac
<1> HIDE DEF e, g
<1>11. Lesser(Frac(e, d), q) = Frac(f, d) BY <1>3, <1>6, OrderFrac
<1> HIDE DEF f
<1>12. Minus(Frac(e, d), Frac(f, d)) = Frac(e - f, d) BY <1>6, MinusFrac
<1>13. Minus(u, Frac(g, d)) = Frac(j - g, d) BY <1>3, <1>6, MinusFrac
<1>14. Minus(all, Frac(j - g, d)) = Frac(m - (j - g), d) BY <1>3, <1>6, MinusFrac
<1>15. Left(b, Frac(m - (j - g), d)) = Frac(h, d) BY <1>3, <1>6, OrderFrac
<1> HIDE DEF h
<1> QED BY <1>7, <1>8, <1>9, <1>10, <1>11, <1>12, <1>13, <1>14, <1>15

\* What is left of all.
LEMMA LeftAll ==
    ASSUME NEW all, NEW u, IsFraction(all), NonNeg(u)
    PROVE  Left(all, Minus(all, u)) = u
<1>1. IsFraction(u) BY DEF NonNeg
<1>2. PICK d \in Nat \ {0}, m \in Int, j \in Int : all = Frac(m, d) /\ u = Frac(j, d)
  BY <1>1, CommonTwo
<1>3. j >= 0 BY <1>2, SignFrac
<1>4. m - j \in Int /\ m - (m - j) = j OBVIOUS
<1>5. Minus(all, u) = Frac(m - j, d) BY <1>2, MinusFrac
<1>6. Left(Frac(m, d), Frac(m - j, d)) = Frac(IF 0 < j THEN j ELSE 0, d)
  BY <1>4, OrderFrac
<1>7. (IF 0 < j THEN j ELSE 0) = j BY <1>3
<1> QED BY <1>2, <1>5, <1>6, <1>7

\* What was sold, after a purchase.
LEMMA LeftAdded ==
    ASSUME NEW all, NEW u, NEW q, IsFraction(all), IsFraction(u), IsFraction(q)
    PROVE  Minus(Plus(all, q), Plus(u, q)) = Minus(all, u)
<1>1. PICK d \in Nat \ {0} : HasDen(all, d) /\ HasDen(u, d) /\ HasDen(q, d) BY CommonThree
<1>2. PICK m \in Int, j \in Int, i \in Int : all = Frac(m, d) /\ u = Frac(j, d) /\ q = Frac(i, d)
  BY <1>1, Zenon DEF HasDen
<1>3. m + i \in Int /\ j + i \in Int /\ (m + i) - (j + i) = m - j OBVIOUS
<1>4. Plus(all, q) = Frac(m + i, d) /\ Plus(u, q) = Frac(j + i, d) BY <1>2, PlusFrac
<1>5. Minus(Frac(m + i, d), Frac(j + i, d)) = Frac((m + i) - (j + i), d) BY <1>3, MinusFrac
<1>6. Minus(all, u) = Frac(m - j, d) BY <1>2, MinusFrac
<1> QED BY <1>3, <1>4, <1>5, <1>6

\* A sum is not less than its first part.
LEMMA PlusMore ==
    ASSUME NEW x, NEW y, IsFraction(x), NonNeg(y)
    PROVE  AtMost(x, Plus(x, y))
<1>1. IsFraction(y) BY DEF NonNeg
<1>2. PICK d \in Nat \ {0}, m \in Int, j \in Int : x = Frac(m, d) /\ y = Frac(j, d)
  BY <1>1, CommonTwo
<1>3. j >= 0 BY <1>2, SignFrac
<1>4. Plus(x, y) = Frac(m + j, d) BY <1>2, PlusFrac
<1>5. m + j \in Int /\ m <= m + j BY <1>3
<1> QED BY <1>2, <1>4, <1>5, OrderFrac

\* The units of purchases add up.
LEMMA UnitsAdd ==
    ASSUME NEW X \in SUBSET Transactions, IsFiniteSet(X)
    PROVE  /\ NonNeg(Units(X)) /\ IsFraction(Units(X))
           /\ X = {} => Units(X) = Zero
           /\ \A t \in X : Units(X) = Plus(Units(X \ {t}), t.qty)
           /\ \A Y \in SUBSET X : AtMost(Units(Y), Units(X))
<1> DEFINE f == [t \in X |-> t.qty]
<1>1. DOMAIN f = X /\ (\A t \in X : f[t] = t.qty) OBVIOUS
<1>2. \A t \in X : NonNeg(t.qty) BY ShapeOf
<1>3. \A Y \in SUBSET X : Units(Y) = Part(f, Y)
  <2> SUFFICES ASSUME NEW Y \in SUBSET X PROVE Units(Y) = Part(f, Y) OBVIOUS
  <2>1. [t \in Y |-> t.qty] = [t \in Y |-> f[t]] BY <1>1
  <2> QED BY <2>1 DEF Units, Part
<1> HIDE DEF f
<1>4. Fractional(f) BY <1>1, <1>2 DEF Fractional, NonNeg
<1>5. \A Y \in SUBSET X : /\ IsFraction(Part(f, Y)) /\ NonNeg(Part(f, Y))
                          /\ Y = {} => Part(f, Y) = Zero
                          /\ \A t \in Y : Part(f, Y) = Plus(f[t], Part(f, Y \ {t}))
  <2> SUFFICES ASSUME NEW Y \in SUBSET X
               PROVE  /\ IsFraction(Part(f, Y)) /\ NonNeg(Part(f, Y))
                      /\ Y = {} => Part(f, Y) = Zero
                      /\ \A t \in Y : Part(f, Y) = Plus(f[t], Part(f, Y \ {t}))
    OBVIOUS
  <2>1. \A t \in Y : NonNeg(f[t]) BY <1>1, <1>2
  <2>2. Y \in SUBSET DOMAIN f BY <1>1
  <2> QED BY <1>4, <2>1, <2>2, PartGrows
<1>6. X \in SUBSET X OBVIOUS
<1>7. NonNeg(Units(X)) /\ IsFraction(Units(X)) /\ (X = {} => Units(X) = Zero)
  BY <1>3, <1>5, <1>6
<1>8. ASSUME NEW t \in X PROVE Units(X) = Plus(Units(X \ {t}), t.qty)
  <2>1. X \ {t} \in SUBSET X OBVIOUS
  <2>2. Units(X) = Plus(t.qty, Units(X \ {t})) BY <1>1, <1>3, <1>5, <1>6, <2>1
  <2>3. IsFraction(t.qty) /\ IsFraction(Units(X \ {t})) BY <1>2, <1>3, <1>5, <2>1 DEF NonNeg
  <2> QED BY <2>2, <2>3, PlusSwap
<1>9. ASSUME NEW Y \in SUBSET X PROVE AtMost(Units(Y), Units(X))
  <2>1. X \ Y \in SUBSET X /\ Y \cup (X \ Y) = X /\ Y \cap (X \ Y) = {} OBVIOUS
  <2>2. Part(f, Y \cup (X \ Y)) = Plus(Part(f, Y), Part(f, X \ Y))
    BY <1>1, <1>4, <2>1, PartUnion
  <2>3. IsFraction(Part(f, Y)) /\ NonNeg(Part(f, X \ Y)) BY <1>5, <2>1
  <2>4. AtMost(Part(f, Y), Plus(Part(f, Y), Part(f, X \ Y))) BY <2>3, PlusMore
  <2> QED BY <1>3, <1>6, <2>1, <2>2, <2>4
<1> QED BY <1>7, <1>8, <1>9

\* What was bought until a day.
BoughtBy(P, a, d) == {t \in PurchasesIn(P, a) : t.date <= d}

\* An account that only buys and sells.
Plain(T, a) == \A t \in T : t.kind \in {"transfer", "quantity_event"} => t.acct # a

\* What lots of the early days hold: what was bought until then, less all that was sold.
Spread(V, T, P) ==
    \A a \in Accounts : Plain(T, a) =>
        \A d \in Nat : UnitsIn(V, a, 0 .. d)
            = Left(Units(BoughtBy(P, a, d)), Minus(Units(PurchasesIn(P, a)), UnitsIn(V, a, Nat)))

\* The days up to d come first.
LEMMA EarlyTo == ASSUME NEW d \in Nat PROVE Early(0 .. d)
BY DEF Early

\* Another transaction is no purchase of the account.
LEMMA NoPurchase ==
    ASSUME NEW P, NEW t, NEW a, t.kind # "purchase" \/ t.acct # a, NEW d
    PROVE  /\ PurchasesIn(P \cup {t}, a) = PurchasesIn(P, a)
           /\ BoughtBy(P \cup {t}, a, d) = BoughtBy(P, a, d)
<1>1. PurchasesIn(P \cup {t}, a) = PurchasesIn(P, a) BY DEF PurchasesIn
<1> QED BY <1>1 DEF BoughtBy

\* The other legs of a transfer are transfers.
LEMMA PartnerKind ==
    ASSUME NEW T, NEW t, NEW d \in PartnersOf(T, t)
    PROVE  d \in T /\ d.kind = "transfer"
BY DEF PartnersOf, Alike, Leg

\* Transactions of other accounts, and those that are not there, change nothing in a
\* plain account.
LEMMA EffectElsewhere ==
    ASSUME NEW T, NEW t \in T, NEW g, NEW V, NEW W, Effect(V, W, T, t, g),
           NEW a, Plain(T, a), t.kind \notin {"purchase", "sale"} \/ t.acct # a, NEW D, Early(D)
    PROVE  UnitsIn(W, a, D) = UnitsIn(V, a, D)
<1>1. CASE t.kind = "purchase" /\ AddsUnits(V, W, t, g) BY <1>1 DEF AddsUnits
<1>2. CASE t.kind = "sale" /\ TakesUnits(V, W, t.acct, t.qty) BY <1>2 DEF TakesUnits
<1>3. CASE W = V BY <1>3
<1>4. CASE t.kind = "quantity_event" /\ ScalesUnits(V, W, t.acct, t.ratio)
  <2>1. t.acct # a BY <1>4 DEF Plain
  <2> QED BY <1>4, <2>1 DEF ScalesUnits
<1>5. CASE t.kind = "transfer" /\ \E d \in PartnersOf(T, t) : MovesUnits(V, W, t, d, g)
  <2>1. PICK d \in PartnersOf(T, t) : MovesUnits(V, W, t, d, g) BY <1>5
  <2>2. d \in T /\ d.kind = "transfer" BY PartnerKind
  <2>3. d.acct # a /\ t.acct # a BY <1>5, <2>2 DEF Plain
  <2> QED BY <2>1, <2>3 DEF MovesUnits
<1> QED BY <1>1, <1>2, <1>3, <1>4, <1>5 DEF Effect

\* First in, first out is kept.
LEMMA SpreadKept ==
    ASSUME NEW U, NEW T \in SUBSET Transactions, IsFiniteSet(T), NEW P \in SUBSET T, NEW t \in T,
           \A u \in P : u.id < t.id, NEW g, NEW V, SoundLots(V, U), NEW W,
           Spread(V, T, P), Effect(V, W, T, t, g)
    PROVE  Spread(W, T, P \cup {t})
<1> SUFFICES ASSUME NEW a \in Accounts, Plain(T, a), NEW d \in Nat
             PROVE  UnitsIn(W, a, 0 .. d)
                        = Left(Units(BoughtBy(P \cup {t}, a, d)),
                               Minus(Units(PurchasesIn(P \cup {t}, a)), UnitsIn(W, a, Nat)))
  BY DEF Spread
<1> DEFINE all == Units(PurchasesIn(P, a))
           b == Units(BoughtBy(P, a, d))
           u == UnitsIn(V, a, Nat)
           e == UnitsIn(V, a, 0 .. d)
<1>1. e = Left(b, Minus(all, u)) BY DEF Spread
<1>2. IsFiniteSet(P) /\ P \in SUBSET Transactions BY FS_Subset
<1>3. PurchasesIn(P, a) \in SUBSET P /\ BoughtBy(P, a, d) \in SUBSET PurchasesIn(P, a)
  BY DEF PurchasesIn, BoughtBy
<1>4. IsFiniteSet(PurchasesIn(P, a)) /\ IsFiniteSet(BoughtBy(P, a, d)) BY <1>2, <1>3, FS_Subset
<1>5. IsFraction(all) /\ IsFraction(b) /\ AtMost(b, all)
  BY <1>2, <1>3, <1>4, UnitsAdd
<1>6. IsFraction(u) /\ NonNeg(u) BY SoundWeighable
<1>7. t \in Transactions /\ t \notin P /\ NonNeg(t.qty) /\ IsFraction(t.qty)
  BY ShapeOf DEF NonNeg
<1>8. Early(Nat) /\ Early(0 .. d) BY AllEarly, EarlyTo
<1>9. CASE t.kind \notin {"purchase", "sale"} \/ t.acct # a
  <2>1. UnitsIn(W, a, Nat) = u /\ UnitsIn(W, a, 0 .. d) = e BY <1>8, <1>9, EffectElsewhere
  <2>2. t.kind # "purchase" \/ t.acct # a BY <1>9
  <2>3. PurchasesIn(P \cup {t}, a) = PurchasesIn(P, a)
        /\ BoughtBy(P \cup {t}, a, d) = BoughtBy(P, a, d)
    BY <2>2, NoPurchase
  <2> QED BY <1>1, <2>1, <2>3
<1>10. CASE t.kind = "sale" /\ t.acct = a
  <2>1. TakesUnits(V, W, a, t.qty) BY <1>10 DEF Effect
  <2>2. UnitsIn(W, a, Nat) = Minus(u, Lesser(u, t.qty))
        /\ UnitsIn(W, a, 0 .. d) = Minus(e, Lesser(e, t.qty))
    BY <1>8, <2>1 DEF TakesUnits
  <2>3. PurchasesIn(P \cup {t}, a) = PurchasesIn(P, a)
        /\ BoughtBy(P \cup {t}, a, d) = BoughtBy(P, a, d)
    BY <1>10, NoPurchase
  <2> HIDE DEF all, b, u, e
  <2>4. Minus(e, Lesser(e, t.qty)) = Left(b, Minus(all, Minus(u, Lesser(u, t.qty))))
    BY <1>1, <1>5, <1>6, <1>7, LeftTaken
  <2> QED BY <2>2, <2>3, <2>4 DEF all, b
<1>11. CASE t.kind = "purchase" /\ t.acct = a
  <2> DEFINE all2 == Units(PurchasesIn(P \cup {t}, a))
             b2 == Units(BoughtBy(P \cup {t}, a, d))
             X == PurchasesIn(P \cup {t}, a)
  <2>1. AddsUnits(V, W, t, g) BY <1>11 DEF Effect
  <2>2. t.date \in Nat BY <1>7, ShapeOf
  <2>3. /\ UnitsIn(W, a, Nat) = Plus(u, t.qty)
        /\ t.date \in 0 .. d => UnitsIn(W, a, 0 .. d) = Plus(e, t.qty)
        /\ t.date \notin 0 .. d => UnitsIn(W, a, 0 .. d) = e
    BY <1>11, <2>1, <2>2 DEF AddsUnits
  <2>4. X \ {t} = PurchasesIn(P, a) /\ t \in X /\ X \in SUBSET Transactions
        /\ X = PurchasesIn(P, a) \cup {t}
    BY <1>2, <1>7, <1>11 DEF PurchasesIn
  <2>5. IsFiniteSet(X)
    <3>1. IsFiniteSet(PurchasesIn(P, a) \cup {t}) BY <1>4, FS_AddElement, Zenon
    <3> QED BY <2>4, <3>1
  <2>6. all2 = Plus(all, t.qty) BY <2>4, <2>5, UnitsAdd
  <2>7. Minus(all2, UnitsIn(W, a, Nat)) = Minus(all, u)
    <3> HIDE DEF all, u, all2
    <3> QED BY <1>5, <1>6, <1>7, <2>3, <2>6, LeftAdded
  <2>8. CASE t.date <= d
    <3>1. \A v \in P : v.date <= t.date BY <1>2, <1>7, TransactionShape
    <3>2. \A v \in P : v.date \in Nat BY <1>2, ShapeOf
    <3>3. \A v \in P : v.date <= d BY <2>2, <2>8, <3>1, <3>2
    <3>4. BoughtBy(P, a, d) = PurchasesIn(P, a) /\ BoughtBy(P \cup {t}, a, d) = X
      BY <2>8, <3>3 DEF BoughtBy, PurchasesIn
    <3>5. NonNeg(Plus(u, t.qty)) /\ IsFraction(Plus(u, t.qty)) BY <1>6, <1>7, PlusType
    <3>6. IsFraction(all2) BY <1>5, <1>7, <2>6, PlusType
    <3>7. e = u
      <4> HIDE DEF e, u
      <4>1. e = Left(all, Minus(all, u)) BY <1>1, <3>4
      <4> HIDE DEF all
      <4> QED BY <1>5, <1>6, <4>1, LeftAll
    <3>8. UnitsIn(W, a, 0 .. d) = Plus(u, t.qty) BY <2>2, <2>3, <2>8, <3>7
    <3>9. Left(all2, Minus(all2, Plus(u, t.qty))) = Plus(u, t.qty)
      <4> HIDE DEF all2, u
      <4> QED BY <3>5, <3>6, LeftAll
    <3> QED BY <2>3, <3>4, <3>8, <3>9
  <2>9. CASE ~(t.date <= d)
    <3>1. t.date \notin 0 .. d BY <2>9
    <3>2. BoughtBy(P \cup {t}, a, d) = BoughtBy(P, a, d) BY <2>9 DEF BoughtBy, PurchasesIn
    <3> QED BY <1>1, <2>3, <2>7, <3>1, <3>2
  <2> QED BY <2>8, <2>9
<1> QED BY <1>9, <1>10, <1>11

-----------------------------------------------------------------------------
(* The basis of lots.                                                      *)

\* Multiplication is associative.
LEMMA TimesSwap ==
    ASSUME NEW x, NEW y, NEW z, IsFraction(x), IsFraction(y), IsFraction(z)
    PROVE  Times(x, Times(z, y)) = Times(Times(x, y), z)
<1>1. PICK a \in Int, d \in Nat \ {0} : x = Frac(a, d) BY Parts, FracOf
<1>2. PICK b \in Int, e \in Nat \ {0} : y = Frac(b, e) BY Parts, FracOf
<1>3. PICK c \in Int, f \in Nat \ {0} : z = Frac(c, f) BY Parts, FracOf
<1>4. f * e \in Nat \ {0} /\ d * e \in Nat \ {0} BY Positive
<1>5. c * b \in Int /\ a * b \in Int OBVIOUS
<1>6. Times(z, y) = Frac(c * b, f * e) /\ Times(x, y) = Frac(a * b, d * e)
  BY <1>1, <1>2, <1>3, TimesFrac
<1>7. Times(x, Frac(c * b, f * e)) = Frac(a * (c * b), d * (f * e))
  BY <1>1, <1>4, <1>5, TimesFrac
<1>8. Times(Frac(a * b, d * e), z) = Frac((a * b) * c, (d * e) * f)
  BY <1>3, <1>4, <1>5, TimesFrac
<1>9. a * (c * b) = (a * b) * c OBVIOUS
<1>10. d * (f * e) = (d * e) * f OBVIOUS
<1> QED BY <1>6, <1>7, <1>8, <1>9, <1>10

\* Sums of parts that are in order are in order.
LEMMA PlusOrder ==
    ASSUME NEW x, NEW y, NEW z, NEW w,
           IsFraction(x), IsFraction(y), IsFraction(z), IsFraction(w), AtMost(x, z), AtMost(y, w)
    PROVE  AtMost(Plus(x, y), Plus(z, w))
<1>1. PICK d \in Nat \ {0} : HasDen(x, d) /\ HasDen(y, d) /\ HasDen(z, d) /\ HasDen(w, d)
  BY CommonFour
<1>2. PICK n \in Int, m \in Int, k \in Int, j \in Int :
        x = Frac(n, d) /\ y = Frac(m, d) /\ z = Frac(k, d) /\ w = Frac(j, d)
  BY <1>1, Zenon DEF HasDen
<1>3. n <= k /\ m <= j BY <1>2, OrderFrac
<1>4. Plus(x, y) = Frac(n + m, d) /\ Plus(z, w) = Frac(k + j, d) BY <1>2, PlusFrac
<1>5. n + m \in Int /\ k + j \in Int /\ n + m <= k + j BY <1>3
<1> QED BY <1>4, <1>5, OrderFrac

\* The lesser of two, either way.
LEMMA LesserSwap ==
    ASSUME NEW x, NEW y, IsFraction(x), IsFraction(y)
    PROVE  Lesser(x, y) = Lesser(y, x)
<1>1. PICK d \in Nat \ {0}, n \in Int, m \in Int : x = Frac(n, d) /\ y = Frac(m, d) BY CommonTwo
<1>2. (IF n < m THEN n ELSE m) = (IF m < n THEN m ELSE n) OBVIOUS
<1> QED BY <1>1, <1>2, OrderFrac

\* A part of something is not more than it.
LEMMA PartOfOne ==
    ASSUME NEW q, NonNeg(q), NEW rem, NonNeg(rem), NEW qty, Pos(qty), AtMost(rem, qty)
    PROVE  AtMost(Times(q, Over(rem, qty)), q)
<1> DEFINE z == Over(rem, qty)
           k == Over(q, qty)
<1>1. IsFraction(q) /\ IsFraction(rem) /\ IsFraction(qty) BY DEF NonNeg, Pos
<1>2. IsFraction(z) /\ Times(z, qty) = rem BY <1>1, OverIs
<1>3. /\ IsFraction(k) /\ NonNeg(k) /\ Times(k, qty) = q
      /\ \A y : IsFraction(y) => Times(k, Times(y, qty)) = Times(q, y)
  BY <1>1, OverIs
<1> HIDE DEF z, k
<1>4. Times(k, rem) = Times(q, z) BY <1>2, <1>3
<1>5. Times(k, rem) = Times(rem, k) /\ Times(k, qty) = Times(qty, k) BY <1>1, <1>3, TimesType
<1>6. CASE Pos(k)
  <2>1. AtMost(Times(rem, k), Times(qty, k)) BY <1>1, <1>6, TimesOrder
  <2> QED BY <1>3, <1>4, <1>5, <2>1 DEF z
<1>7. CASE ~Pos(k)
  <2>1. k = Zero BY <1>3, <1>7, OrderType
  <2>2. q = Zero /\ Times(k, rem) = Zero BY <1>1, <1>3, <2>1, TimesZero
  <2>3. AtMost(Zero, Zero) BY ZeroFrac, OrderType
  <2> QED BY <1>4, <2>2, <2>3 DEF z
<1> QED BY <1>6, <1>7

\* What a lot with more cost is worth more, for the units that are left.
LEMMA WashWorth ==
    ASSUME NEW T, NEW l, SoundLot(l, T), NEW q, NonNeg(q), NEW u, u = Over(Plus(l.cost, q), l.qty)
    PROVE  /\ IsFraction(u)
           /\ NonNeg(Minus(Times(l.rem, u), Times(l.rem, l.unit)))
           /\ AtMost(Minus(Times(l.rem, u), Times(l.rem, l.unit)), q)
<1>1. /\ NonNeg(l.qty) /\ NonNeg(l.rem) /\ IsFraction(l.qty) /\ IsFraction(l.rem)
      /\ IsFraction(l.cost) /\ IsFraction(l.unit) /\ IsFraction(q)
  BY LotParts DEF NonNeg
<1> DEFINE c == Plus(l.cost, q)
           rem == l.rem
           qty == l.qty
           unit == l.unit
           cost == l.cost
<1>2. IsFraction(c) BY <1>1, PlusType
<1>3. u = Over(c, qty) OBVIOUS
<1>4. IsFraction(u) BY <1>1, <1>2, OverType
<1>5. Units0(l) \/ UnitsOf(l) BY DEF SoundLot
<1>6. CASE Units0(l)
  <2>1. rem = Zero BY <1>6 DEF Units0
  <2>2. Times(rem, u) = Zero /\ Times(rem, unit) = Zero BY <1>1, <1>4, <2>1, TimesZero
  <2>3. Minus(Zero, Zero) = Zero /\ NonNeg(Zero) BY ZeroFrac, PlusZero, OrderType
  <2>4. AtMost(Zero, q) BY DEF NonNeg
  <2> QED BY <1>4, <2>2, <2>3, <2>4
<1>7. CASE UnitsOf(l)
  <2> DEFINE z == Over(rem, qty)
  <2>1. Pos(qty) /\ AtMost(rem, qty) /\ cost = Times(unit, qty) BY <1>7 DEF UnitsOf
  <2>2. IsFraction(z) /\ NonNeg(z) /\ Times(z, qty) = rem BY <1>1, <2>1, OverIs
  <2>3. AtMost(Times(q, z), q) BY <1>1, <2>1, PartOfOne
  <2> HIDE DEF z
  <2>4. Times(u, Times(z, qty)) = Times(c, z) BY <1>2, <1>3, <2>1, <2>2, OverIs
  <2>5. Times(unit, Times(z, qty)) = Times(Times(unit, qty), z) BY <1>1, <2>2, TimesSwap
  <2>6. Times(c, z) = Plus(Times(cost, z), Times(q, z)) BY <1>1, <2>2, TimesPlus
  <2>7. Times(rem, u) = Times(u, rem) /\ Times(rem, unit) = Times(unit, rem)
    BY <1>1, <1>4, TimesType
  <2>8. IsFraction(Times(cost, z)) /\ IsFraction(Times(q, z)) /\ NonNeg(Times(q, z))
    BY <1>1, <2>2, TimesType
  <2>9. Plus(Times(cost, z), Times(q, z)) = Plus(Times(q, z), Times(cost, z))
    BY <2>8, PlusSwap
  <2>10. Times(rem, u) = Plus(Times(q, z), Times(cost, z)) /\ Times(rem, unit) = Times(cost, z)
    BY <2>1, <2>2, <2>4, <2>5, <2>6, <2>7, <2>9
  <2>11. Minus(Plus(Times(q, z), Times(cost, z)), Times(cost, z)) = Times(q, z)
    BY <2>8, MinusPlus
  <2> QED BY <1>4, <2>3, <2>8, <2>10, <2>11
<1> QED BY <1>5, <1>6, <1>7

\* Sums of smaller parts are smaller.
LEMMA PartOrder ==
    ASSUME NEW f, Fractional(f), NEW h, Fractional(h), DOMAIN h = DOMAIN f,
           \A x \in DOMAIN f : AtMost(f[x], h[x]), NEW U \in SUBSET DOMAIN f
    PROVE  AtMost(Part(f, U), Part(h, U))
<1> DEFINE p == [x \in DOMAIN f |-> Minus(h[x], f[x])]
<1>1. DOMAIN p = DOMAIN f /\ \A x \in DOMAIN f : p[x] = Minus(h[x], f[x]) BY Zenon
<1> HIDE DEF p
<1>2. \A x \in DOMAIN f : IsFraction(f[x]) /\ IsFraction(h[x]) BY DEF Fractional
<1>3. \A x \in DOMAIN f : IsFraction(p[x]) /\ NonNeg(p[x])
  BY <1>1, <1>2, PlusType
<1>4. Fractional(p) BY <1>1, <1>3 DEF Fractional
<1>5. \A x \in DOMAIN h : h[x] = Plus(f[x], p[x])
  <2> SUFFICES ASSUME NEW x \in DOMAIN f PROVE h[x] = Plus(f[x], p[x]) OBVIOUS
  <2>1. Plus(Minus(h[x], f[x]), f[x]) = h[x] BY <1>2, MinusPlus
  <2>2. Plus(p[x], f[x]) = Plus(f[x], p[x]) BY <1>2, <1>3, PlusSwap
  <2> QED BY <1>1, <2>1, <2>2
<1>6. Part(h, U) = Plus(Part(f, U), Part(p, U)) BY <1>1, <1>4, <1>5, PartPlus
<1>7. IsFraction(Part(f, U)) /\ NonNeg(Part(p, U))
  <2>1. \A x \in U : NonNeg(p[x]) BY <1>3
  <2>2. U \in SUBSET DOMAIN p BY <1>1
  <2> QED BY <1>4, <2>1, <2>2, PartGrows
<1> QED BY <1>6, <1>7, PlusMore

\* The basis of the units that are left in lots.
Worth(B) == [l \in B |-> Times(l.rem, l.unit)]
BasisIn(V) == Part(Worth(V), V)

Priced(B) == IsFiniteSet(B) /\ \A l \in B : IsFraction(l.rem) /\ IsFraction(l.unit)

\* The basis of each lot, and of a set of lots.
LEMMA WorthIs ==
    ASSUME NEW B, Priced(B)
    PROVE  /\ Fractional(Worth(B)) /\ DOMAIN Worth(B) = B
           /\ \A l \in B : Worth(B)[l] = Times(l.rem, l.unit)
           /\ \A V \in SUBSET B : Part(Worth(B), V) = BasisIn(V) /\ IsFraction(BasisIn(V))
<1> DEFINE val == Worth(B)
<1>1. DOMAIN val = B /\ \A l \in B : val[l] = Times(l.rem, l.unit) BY Zenon DEF Worth
<1>2. \A l \in B : IsFraction(Times(l.rem, l.unit)) BY TimesType DEF Priced
<1> HIDE DEF val
<1>3. Fractional(val) BY <1>1, <1>2 DEF Fractional, Priced
<1>4. ASSUME NEW V \in SUBSET B PROVE Part(val, V) = BasisIn(V) /\ IsFraction(BasisIn(V))
  <2> DEFINE w == Worth(V)
  <2>1. DOMAIN w = V /\ \A l \in V : w[l] = Times(l.rem, l.unit) BY Zenon DEF Worth
  <2>2. BasisIn(V) = Part(w, V) BY DEF BasisIn
  <2> HIDE DEF w
  <2>3. \A l \in V : val[l] = w[l] BY <1>1, <2>1
  <2>4. Part(val, V) = Part(w, V) BY <2>3, PartSame
  <2>5. V \in SUBSET DOMAIN val BY <1>1
  <2>6. IsFraction(Part(val, V)) BY <1>3, <2>5, PartGrows
  <2> QED BY <2>2, <2>4, <2>6
<1> QED BY <1>1, <1>3, <1>4 DEF val

\* Sound lots have a price.
LEMMA SoundPriced ==
    ASSUME NEW T, NEW V, SoundLots(V, T)
    PROVE  Priced(V) /\ IsFraction(BasisIn(V))
<1>1. \A l \in V : IsFraction(l.rem) /\ IsFraction(l.unit) BY LotParts DEF SoundLots
<1>2. Priced(V) BY <1>1 DEF Priced, SoundLots
<1>3. V \in SUBSET V OBVIOUS
<1> QED BY <1>2, <1>3, WorthIs

\* Closed lots have no basis left.
LEMMA OpenBasis ==
    ASSUME NEW T, NEW V, SoundLots(V, T)
    PROVE  Total([l \in {k \in V : IsOpen(k)} |-> Times(l.rem, l.unit)]) = BasisIn(V)
<1> DEFINE O == {k \in V : IsOpen(k)}
           val == Worth(V)
<1>1. Priced(V) BY SoundPriced
<1>2. /\ Fractional(val) /\ DOMAIN val = V
      /\ \A l \in V : val[l] = Times(l.rem, l.unit)
      /\ Part(val, V) = BasisIn(V)
  BY <1>1, WorthIs
<1> HIDE DEF val
<1>3. \A l \in V : l \notin O => val[l] = Zero
  <2> SUFFICES ASSUME NEW l \in V, l \notin O PROVE val[l] = Zero OBVIOUS
  <2>1. SoundLot(l, T) /\ ~IsOpen(l) BY DEF SoundLots
  <2>2. l.rem = Zero BY <2>1, ClosedEmpty
  <2>3. IsFraction(l.unit) BY <2>1, LotParts
  <2>4. Times(Zero, l.unit) = Zero BY <2>3, TimesZero
  <2> QED BY <1>2, <2>2, <2>4
<1>4. O \in SUBSET V OBVIOUS
<1> HIDE DEF O
<1>5. [l \in O |-> val[l]] = [l \in O |-> Times(l.rem, l.unit)] BY <1>2, <1>4
<1>6. Part(val, O) = Total([l \in O |-> Times(l.rem, l.unit)]) BY <1>5 DEF Part
<1> DEFINE C == V \ O
<1>7. O \cap C = {} /\ O \cup C = V /\ C \in SUBSET V BY <1>4
<1> HIDE DEF C
<1>8. O \in SUBSET DOMAIN val /\ C \in SUBSET DOMAIN val BY <1>2, <1>4, <1>7
<1>9. Part(val, O \cup C) = Plus(Part(val, O), Part(val, C)) BY <1>2, <1>7, <1>8, PartUnion
<1>10. Part(val, C) = Zero
  <2>1. \A l \in C : val[l] = Zero BY <1>3, <1>7
  <2> QED BY <1>2, <1>8, <2>1, PartZero
<1>11. IsFraction(Part(val, O)) BY <1>2, <1>8, PartGrows
<1>12. Part(val, V) = Part(val, O) BY <1>7, <1>9, <1>10, <1>11, PlusZero
<1> QED BY <1>2, <1>6, <1>12 DEF O

\* The basis, when some lots are written again.
LEMMA ReplacedBasis ==
    ASSUME NEW V, Keyed(V), Priced(V), NEW n \in Nat, NEW s, NEW r, Again(s, r, n),
           \A i \in 1 .. n : s[i] \in V, \A i \in 1 .. n : IsFraction(r[i].rem) /\ IsFraction(r[i].unit),
           NEW hs, DOMAIN hs = 1 .. n, \A i \in 1 .. n : hs[i] = Times(s[i].rem, s[i].unit),
           NEW hr, DOMAIN hr = 1 .. n, \A i \in 1 .. n : hr[i] = Times(r[i].rem, r[i].unit)
    PROVE  /\ Fractional(hs) /\ Fractional(hr) /\ Priced(Replaced(V, s, r))
           /\ Plus(BasisIn(Replaced(V, s, r)), Part(hs, 1 .. n)) = Plus(BasisIn(V), Part(hr, 1 .. n))
<1> DEFINE W == Replaced(V, s, r)
           B == V \cup W
           val == Worth(B)
<1>1. Rewritten(s, r, n) BY AgainKeyed
<1>2. W = (V \ {s[j] : j \in 1 .. n}) \cup {r[j] : j \in 1 .. n}
  BY <1>1, ReplacedKeyed
<1>3. \A l \in W : l \in V \/ \E i \in 1 .. n : l = r[i] BY <1>2
<1>4. \A i \in 1 .. n : r[i] \in W BY <1>2
<1>5. IsFiniteSet({r[j] : j \in 1 .. n})
  <2>1. DOMAIN r = 1 .. n /\ r = [i \in 1 .. n |-> r[i]] BY DEF Again
  <2>2. IsFiniteSet(1 .. n) BY PlacesFinite, Zenon
  <2>3. IsFiniteSet({r[i] : i \in DOMAIN r}) BY <2>1, <2>2, FiniteRange
  <2> QED BY <2>1, <2>3
<1>6. IsFiniteSet(V \cup {r[j] : j \in 1 .. n}) BY <1>5, FS_Union DEF Priced
<1>7. B = V \cup {r[j] : j \in 1 .. n} BY <1>2
<1> HIDE DEF W
<1>8. \A l \in B : IsFraction(l.rem) /\ IsFraction(l.unit) BY <1>3 DEF Priced
<1>9. Priced(B) BY <1>6, <1>7, <1>8 DEF Priced
<1>10. V \in SUBSET B /\ W \in SUBSET B OBVIOUS
<1> HIDE DEF B
<1>11. /\ Fractional(val) /\ DOMAIN val = B /\ \A l \in B : val[l] = Times(l.rem, l.unit)
       /\ Part(val, V) = BasisIn(V) /\ Part(val, W) = BasisIn(W)
  BY <1>9, <1>10, WorthIs
<1> HIDE DEF val
<1>12. \A i \in 1 .. n : /\ s[i] \in B /\ r[i] \in B
                         /\ hs[i] = val[s[i]] /\ hr[i] = val[r[i]]
  BY <1>4, <1>10, <1>11
<1>13. IsFiniteSet(1 .. n) BY PlacesFinite, Zenon
<1>14. Fractional(hs) /\ Fractional(hr)
  BY <1>11, <1>12, <1>13 DEF Fractional
<1>15. V \cup Replaced(V, s, r) \subseteq DOMAIN val BY <1>10, <1>11 DEF W
<1>16. Plus(Part(val, Replaced(V, s, r)), Part(hs, 1 .. n)) = Plus(Part(val, V), Part(hr, 1 .. n))
  BY <1>1, <1>11, <1>12, <1>14, <1>15, ReplacedTotal
<1>17. Priced(W)
  <2>1. IsFiniteSet(W) BY <1>9, <1>10, FS_Subset DEF Priced
  <2> QED BY <1>9, <1>10, <2>1 DEF Priced
<1> QED BY <1>11, <1>14, <1>16, <1>17 DEF W

\* A loop that takes q[i] units of the i-th lot takes their basis.
LEMMA LoopBasis ==
    ASSUME NEW V, Keyed(V), Priced(V), NEW n \in Nat, NEW s, NEW r, Again(s, r, n),
           \A i \in 1 .. n : s[i] \in V, NEW q, \A i \in 1 .. n : IsFraction(q[i]),
           \A i \in 1 .. n : r[i].rem = Minus(s[i].rem, q[i]) /\ r[i].unit = s[i].unit
    PROVE  /\ Priced(Replaced(V, s, r)) /\ IsFraction(BasisOf(s, q))
           /\ Plus(BasisIn(Replaced(V, s, r)), BasisOf(s, q)) = BasisIn(V)
<1> DEFINE hs == [i \in 1 .. n |-> Times(s[i].rem, s[i].unit)]
           hr == [i \in 1 .. n |-> Times(r[i].rem, r[i].unit)]
           p == [i \in 1 .. n |-> Times(q[i], s[i].unit)]
           W == Replaced(V, s, r)
<1>1. \A i \in 1 .. n : IsFraction(s[i].rem) /\ IsFraction(s[i].unit) BY DEF Priced
<1>2. \A i \in 1 .. n : IsFraction(r[i].rem) /\ IsFraction(r[i].unit)
  <2> SUFFICES ASSUME NEW i \in 1 .. n PROVE IsFraction(r[i].rem) /\ IsFraction(r[i].unit) OBVIOUS
  <2>1. IsFraction(s[i].rem) /\ IsFraction(s[i].unit) /\ IsFraction(q[i]) BY <1>1
  <2>2. IsFraction(Minus(s[i].rem, q[i])) BY <2>1, PlusType
  <2> QED BY <2>1, <2>2
<1>3. DOMAIN hs = 1 .. n /\ \A i \in 1 .. n : hs[i] = Times(s[i].rem, s[i].unit) BY Zenon
<1>4. DOMAIN hr = 1 .. n /\ \A i \in 1 .. n : hr[i] = Times(r[i].rem, r[i].unit) BY Zenon
<1>5. DOMAIN p = 1 .. n /\ \A i \in 1 .. n : p[i] = Times(q[i], s[i].unit) BY Zenon
<1>6. BasisOf(s, q) = Part(p, 1 .. n)
  <2>1. DOMAIN s = 1 .. n BY DEF Again
  <2>2. [i \in DOMAIN s |-> Times(q[i], s[i].unit)] = [i \in 1 .. n |-> p[i]] BY <1>5, <2>1
  <2> QED BY <2>2 DEF BasisOf, Part
<1> HIDE DEF hs, hr, p
<1>7. /\ Fractional(hs) /\ Fractional(hr) /\ Priced(W)
      /\ Plus(BasisIn(W), Part(hs, 1 .. n)) = Plus(BasisIn(V), Part(hr, 1 .. n))
  BY <1>2, <1>3, <1>4, ReplacedBasis
<1>8. \A i \in 1 .. n : hs[i] = Plus(hr[i], p[i])
  <2> SUFFICES ASSUME NEW i \in 1 .. n PROVE hs[i] = Plus(hr[i], p[i]) OBVIOUS
  <2> DEFINE x == s[i].rem
             y == q[i]
             u == s[i].unit
  <2>1. IsFraction(x) /\ IsFraction(y) /\ IsFraction(u) /\ IsFraction(Minus(x, y))
    BY <1>1, PlusType
  <2>2. hs[i] = Times(x, u) /\ hr[i] = Times(Minus(x, y), u) /\ p[i] = Times(y, u)
    BY <1>3, <1>4, <1>5
  <2> HIDE DEF x, y, u
  <2>3. Plus(Minus(x, y), y) = x BY <2>1, MinusPlus
  <2>4. Times(Plus(Minus(x, y), y), u) = Plus(Times(Minus(x, y), u), Times(y, u))
    BY <2>1, TimesPlus
  <2> QED BY <2>2, <2>3, <2>4
<1>9. Fractional(p)
  <2>1. \A i \in 1 .. n : IsFraction(p[i]) BY <1>1, <1>5, TimesType
  <2>2. IsFiniteSet(1 .. n) BY PlacesFinite, Zenon
  <2> QED BY <1>5, <2>1, <2>2 DEF Fractional
<1>10. Part(hs, 1 .. n) = Plus(Part(hr, 1 .. n), Part(p, 1 .. n))
  <2>1. DOMAIN hr = DOMAIN hs /\ DOMAIN p = DOMAIN hs /\ 1 .. n \in SUBSET DOMAIN hs
        /\ \A i \in DOMAIN hs : hs[i] = Plus(hr[i], p[i])
    BY <1>3, <1>4, <1>5, <1>8
  <2> QED BY <1>7, <1>9, <2>1, PartPlus
<1> DEFINE a == BasisIn(W)
           b == BasisIn(V)
           y == Part(hr, 1 .. n)
           z == Part(p, 1 .. n)
<1>11. IsFraction(a) /\ IsFraction(b)
  <2>1. W \in SUBSET W /\ V \in SUBSET V OBVIOUS
  <2> HIDE DEF W
  <2> QED BY <1>7, <2>1, WorthIs
<1>12. IsFraction(y) /\ IsFraction(z)
  <2>1. 1 .. n \in SUBSET DOMAIN hr /\ 1 .. n \in SUBSET DOMAIN p BY <1>4, <1>5
  <2> QED BY <1>7, <1>9, <2>1, PartGrows
<1>13. Plus(a, Plus(y, z)) = Plus(b, y) BY <1>7, <1>10
<1>14. Priced(W) BY <1>7
<1> HIDE DEF a, b, y, z, W
<1>15. Plus(Plus(a, z), y) = Plus(a, Plus(z, y)) /\ Plus(z, y) = Plus(y, z)
  BY <1>11, <1>12, PlusSwap
<1>16. IsFraction(Plus(a, z)) BY <1>11, <1>12, PlusType
<1>17. Plus(a, z) = b BY <1>11, <1>12, <1>13, <1>15, <1>16, PlusCancels
<1> QED BY <1>6, <1>12, <1>14, <1>17 DEF a, b, z, W

\* What match_sale_to_lots takes is used by the sale.
LEMMA MatchedBasis ==
    ASSUME NEW T, NEW V, SoundLots(V, T), Keyed(V), NEW t \in Transactions,
           NEW s \in Fifo(OpenLots(V, t.acct))
    PROVE  /\ IsFraction(Matched(V, t, s).used)
           /\ Plus(BasisIn(Matched(V, t, s).lots), Matched(V, t, s).used) = BasisIn(V)
<1>1. PICK n \in Nat : Walked(V, t.acct, s, n) BY FifoWalked DEF SoundLots
<1>2. NonNeg(t.qty) BY ShapeOf
<1> DEFINE q == Taken(Caps(s), t.qty)
           r == [i \in DOMAIN s |-> SoldFrom(s[i], q[i], t)]
<1>3. /\ DOMAIN s = 1 .. n /\ (\A i, j \in 1 .. n : s[i] = s[j] => i = j)
      /\ \A i \in 1 .. n : SoundLot(s[i], T) /\ IsFraction(q[i]) /\ s[i] \in V
  BY <1>1, <1>2, WalkedLots
<1>4. Matched(V, t, s).lots = Replaced(V, s, r) /\ Matched(V, t, s).used = BasisOf(s, q)
  BY Zenon DEF Matched, Outcome
<1>5. DOMAIN r = 1 .. n /\ \A i \in 1 .. n : r[i] = SoldFrom(s[i], q[i], t) BY <1>3, Zenon
<1>6. r = [i \in 1 .. n |-> r[i]]
  <2>1. r = [i \in DOMAIN r |-> r[i]] BY Zenon
  <2> HIDE DEF r
  <2> QED BY <1>5, <2>1
<1> HIDE DEF r, q
<1>7. \A i \in 1 .. n : /\ SameMarks(r[i], s[i]) /\ r[i].rem = Minus(s[i].rem, q[i])
                        /\ r[i].unit = s[i].unit
  BY <1>3, <1>5, SoldFields
<1>8. Again(s, r, n) BY <1>3, <1>5, <1>6, <1>7 DEF Again
<1>9. Priced(V) BY SoundPriced
<1>10. IsFraction(BasisOf(s, q)) /\ Plus(BasisIn(Replaced(V, s, r)), BasisOf(s, q)) = BasisIn(V)
  BY <1>3, <1>7, <1>8, <1>9, LoopBasis
<1> QED BY <1>4, <1>10

\* A loop that adds p[i] to the worth of the i-th lot.
LEMMA LoopAdds ==
    ASSUME NEW V, Keyed(V), Priced(V), NEW n \in Nat, NEW s, NEW r, Again(s, r, n),
           \A i \in 1 .. n : s[i] \in V, \A i \in 1 .. n : IsFraction(r[i].rem) /\ IsFraction(r[i].unit),
           NEW p, DOMAIN p = 1 .. n,
           \A i \in 1 .. n : p[i] = Minus(Times(r[i].rem, r[i].unit), Times(s[i].rem, s[i].unit))
    PROVE  /\ Fractional(p) /\ BasisIn(Replaced(V, s, r)) = Plus(BasisIn(V), Part(p, 1 .. n))
<1> DEFINE hs == [i \in 1 .. n |-> Times(s[i].rem, s[i].unit)]
           hr == [i \in 1 .. n |-> Times(r[i].rem, r[i].unit)]
           W == Replaced(V, s, r)
<1>1. \A i \in 1 .. n : IsFraction(s[i].rem) /\ IsFraction(s[i].unit) BY DEF Priced
<1>3. DOMAIN hs = 1 .. n /\ \A i \in 1 .. n : hs[i] = Times(s[i].rem, s[i].unit) BY Zenon
<1>4. DOMAIN hr = 1 .. n /\ \A i \in 1 .. n : hr[i] = Times(r[i].rem, r[i].unit) BY Zenon
<1> HIDE DEF hs, hr
<1>5. /\ Fractional(hs) /\ Fractional(hr) /\ Priced(W)
      /\ Plus(BasisIn(W), Part(hs, 1 .. n)) = Plus(BasisIn(V), Part(hr, 1 .. n))
  BY <1>3, <1>4, ReplacedBasis
<1>6. \A i \in 1 .. n : /\ IsFraction(hs[i]) /\ IsFraction(hr[i]) /\ p[i] = Minus(hr[i], hs[i])
                        /\ IsFraction(p[i])
  <2> SUFFICES ASSUME NEW i \in 1 .. n
               PROVE  /\ IsFraction(hs[i]) /\ IsFraction(hr[i]) /\ p[i] = Minus(hr[i], hs[i])
                      /\ IsFraction(p[i])
    OBVIOUS
  <2>1. IsFraction(hs[i]) /\ IsFraction(hr[i]) BY <1>3, <1>4, <1>5 DEF Fractional
  <2>2. p[i] = Minus(hr[i], hs[i]) BY <1>3, <1>4
  <2> QED BY <2>1, <2>2, PlusType
<1>7. \A i \in 1 .. n : hr[i] = Plus(hs[i], p[i])
  <2> SUFFICES ASSUME NEW i \in 1 .. n PROVE hr[i] = Plus(hs[i], p[i]) OBVIOUS
  <2>1. Plus(Minus(hr[i], hs[i]), hs[i]) = hr[i] BY <1>6, MinusPlus
  <2>2. Plus(p[i], hs[i]) = Plus(hs[i], p[i]) BY <1>6, PlusSwap
  <2> QED BY <1>6, <2>1, <2>2
<1>8. Fractional(p)
  <2>1. IsFiniteSet(1 .. n) BY PlacesFinite, Zenon
  <2> QED BY <1>6, <2>1 DEF Fractional
<1>9. Part(hr, 1 .. n) = Plus(Part(hs, 1 .. n), Part(p, 1 .. n))
  <2>1. DOMAIN hs = DOMAIN hr /\ DOMAIN p = DOMAIN hr /\ 1 .. n \in SUBSET DOMAIN hr
        /\ \A i \in DOMAIN hr : hr[i] = Plus(hs[i], p[i])
    BY <1>3, <1>4, <1>7
  <2>2. Fractional(hs) BY <1>5
  <2> DEFINE U == 1 .. n
  <2>3. U \in SUBSET DOMAIN hr BY <2>1
  <2> HIDE DEF U
  <2>4. Part(hr, U) = Plus(Part(hs, U), Part(p, U)) BY <1>8, <2>1, <2>2, <2>3, PartPlus
  <2> QED BY <2>4 DEF U
<1> DEFINE a == BasisIn(W)
           b == BasisIn(V)
           y == Part(hs, 1 .. n)
           z == Part(p, 1 .. n)
<1>10. IsFraction(a) /\ IsFraction(b)
  <2>1. W \in SUBSET W /\ V \in SUBSET V OBVIOUS
  <2> HIDE DEF W
  <2> QED BY <1>5, <2>1, WorthIs
<1>11. IsFraction(y) /\ IsFraction(z)
  <2>1. 1 .. n \in SUBSET DOMAIN hs /\ 1 .. n \in SUBSET DOMAIN p BY <1>3
  <2> QED BY <1>5, <1>8, <2>1, PartGrows
<1>12. Plus(a, y) = Plus(b, Plus(y, z)) BY <1>5, <1>9
<1> HIDE DEF a, b, y, z, W
<1>13. Plus(Plus(b, z), y) = Plus(b, Plus(z, y)) /\ Plus(z, y) = Plus(y, z)
  BY <1>10, <1>11, PlusSwap
<1>14. IsFraction(Plus(b, z)) BY <1>10, <1>11, PlusType
<1>15. a = Plus(b, z) BY <1>10, <1>11, <1>12, <1>13, <1>14, PlusCancels
<1> QED BY <1>8, <1>15 DEF a, b, z, W

\* detect_and_adjust_wash_sales adds no more basis than the loss it disallows.
LEMMA WashedBasis ==
    ASSUME NEW T, NEW V, SoundLots(V, T), Keyed(V), NEW t, NEW loss, NonNeg(loss),
           NEW r \in Fifo(Replacements(V, t))
    PROVE  /\ NonNeg(Disallowed(r, loss))
           /\ \E x : /\ NonNeg(x) /\ AtMost(x, Disallowed(r, loss))
                     /\ BasisIn(WashAdjusted(V, r, loss)) = Plus(BasisIn(V), x)
<1> DEFINE cap == Costs(r)
           q == Taken(cap, loss)
           cost == [i \in DOMAIN r |-> Plus(r[i].cost, Taken(Costs(r), loss)[i])]
           wash == [i \in DOMAIN r |->
                      IF AtMost(loss, Before(Costs(r), i)) THEN r[i]
                      ELSE [r[i] EXCEPT !.cost = cost[i], !.unit = Over(cost[i], r[i].qty),
                                        !.wash = TRUE]]
<1>0. IsFraction(loss) BY DEF NonNeg
<1>1. Replacements(V, t) \subseteq V BY DEF Replacements, OpenLots
<1>2. IsFiniteSet(Replacements(V, t)) BY <1>1, FS_Subset DEF SoundLots
<1>3. PICK n \in Nat : /\ DOMAIN r = 1 .. n
                       /\ \A i, j \in 1 .. n : r[i] = r[j] => i = j
                       /\ {r[i] : i \in 1 .. n} = Replacements(V, t)
  BY <1>2, FifoAll
<1>4. \A i \in 1 .. n : r[i] \in V BY <1>1, <1>3
<1>5. \A i \in 1 .. n : SoundLot(r[i], T) BY <1>4 DEF SoundLots
<1>6. WashAdjusted(V, r, loss) = Replaced(V, r, wash) BY Zenon DEF WashAdjusted
<1>7. DOMAIN cap = 1 .. n /\ (\A j \in 1 .. n : cap[j] = r[j].cost) /\ cap = [j \in DOMAIN r |-> r[j].cost]
  BY <1>3, Zenon DEF Costs
<1>8. \A i \in 1 .. n : cost[i] = Plus(r[i].cost, q[i]) BY <1>3, Zenon
<1>9. Disallowed(r, loss) = Lesser(loss, Total(cap)) BY DEF Disallowed
<1> HIDE DEF cap
<1>10. \A j \in 1 .. n : NonNeg(cap[j]) BY <1>5, <1>7, LotParts
<1>11. \A i \in 1 .. n : NonNeg(q[i]) BY <1>0, <1>7, <1>10, TakenBounds
<1>12. /\ Fractional(cap) /\ Fractional(q) /\ DOMAIN q = 1 .. n
       /\ Part(q, 1 .. n) = Lesser(Part(cap, 1 .. n), loss)
  <2>1. n \in 0 .. n OBVIOUS
  <2> QED BY <1>7, <1>10, <2>1, TakenTotal
<1> HIDE DEF q, cost
<1>13. ASSUME NEW i \in 1 .. n
       PROVE  /\ SameMarks(wash[i], r[i]) /\ wash[i].rem = r[i].rem /\ IsFraction(wash[i].unit)
              /\ NonNeg(Minus(Times(wash[i].rem, wash[i].unit), Times(r[i].rem, r[i].unit)))
              /\ AtMost(Minus(Times(wash[i].rem, wash[i].unit), Times(r[i].rem, r[i].unit)), q[i])
  <2> DEFINE k == r[i]
             c == cost[i]
             u == Over(c, k.qty)
             m == [k EXCEPT !.cost = c, !.unit = u, !.wash = TRUE]
             x == q[i]
  <2>1. wash[i] = k \/ wash[i] = m BY <1>3, Zenon
  <2>2. DOMAIN k = LotFields /\ k = [f \in LotFields |-> k[f]] BY <1>5 DEF SoundLot
  <2>3. c = Plus(k.cost, x) /\ SoundLot(k, T) /\ NonNeg(x) BY <1>5, <1>8, <1>11
  <2>4. u = Over(Plus(k.cost, x), k.qty) BY <2>3
  <2> HIDE DEF k, c, u, x, wash
  <2>5. SameMarks(m, k) /\ m.rem = k.rem /\ m.unit = u BY <2>2 DEF SameMarks, LotFields
  <2> HIDE DEF m
  <2>6. /\ IsFraction(u) /\ NonNeg(Minus(Times(k.rem, u), Times(k.rem, k.unit)))
        /\ AtMost(Minus(Times(k.rem, u), Times(k.rem, k.unit)), x)
    BY <2>3, <2>4, WashWorth
  <2>7. CASE wash[i] = m BY <2>5, <2>6, <2>7 DEF k, x
  <2>8. CASE wash[i] = k
    <3>1. IsFraction(k.rem) /\ IsFraction(k.unit) BY <2>3, LotParts
    <3>2. IsFraction(Times(k.rem, k.unit)) BY <3>1, TimesType
    <3>3. Minus(Times(k.rem, k.unit), Times(k.rem, k.unit)) = Zero BY <3>2, PlusZero
    <3>4. NonNeg(Zero) /\ AtMost(Zero, x) BY <2>3, ZeroFrac, OrderType DEF NonNeg
    <3>5. SameMarks(k, k) BY DEF SameMarks
    <3> QED BY <2>8, <3>1, <3>3, <3>4, <3>5 DEF k, x
  <2> QED BY <2>1, <2>7, <2>8
<1>14. DOMAIN wash = 1 .. n /\ wash = [i \in 1 .. n |-> wash[i]]
  <2>1. DOMAIN wash = DOMAIN r BY Zenon
  <2>2. wash = [i \in DOMAIN wash |-> wash[i]] BY Zenon
  <2> HIDE DEF wash
  <2> QED BY <1>3, <2>1, <2>2, Zenon
<1> DEFINE p == [i \in 1 .. n |-> Minus(Times(wash[i].rem, wash[i].unit), Times(r[i].rem, r[i].unit))]
<1>15. DOMAIN p = 1 .. n
       /\ \A i \in 1 .. n : p[i] = Minus(Times(wash[i].rem, wash[i].unit), Times(r[i].rem, r[i].unit))
  BY Zenon
<1> HIDE DEF wash, p
<1>16. Again(r, wash, n) BY <1>3, <1>13, <1>14 DEF Again
<1>17. Priced(V) /\ IsFraction(BasisIn(V)) BY SoundPriced
<1>18. \A i \in 1 .. n : IsFraction(wash[i].rem) /\ IsFraction(wash[i].unit)
  BY <1>5, <1>13, LotParts
<1>19. Fractional(p) /\ BasisIn(Replaced(V, r, wash)) = Plus(BasisIn(V), Part(p, 1 .. n))
  BY <1>4, <1>15, <1>16, <1>17, <1>18, LoopAdds
<1>20. \A i \in 1 .. n : NonNeg(p[i]) /\ AtMost(p[i], q[i]) BY <1>13, <1>15
<1>21. 1 .. n \in SUBSET DOMAIN p /\ 1 .. n \in SUBSET DOMAIN cap /\ 1 .. n \in SUBSET DOMAIN q
  BY <1>7, <1>12, <1>15
<1>22. NonNeg(Part(p, 1 .. n)) BY <1>19, <1>20, <1>21, PartGrows
<1>23. AtMost(Part(p, 1 .. n), Part(q, 1 .. n))
  <2>1. DOMAIN q = DOMAIN p /\ \A i \in DOMAIN p : AtMost(p[i], q[i]) BY <1>12, <1>15, <1>20
  <2> QED BY <1>12, <1>19, <1>21, <2>1, PartOrder
<1>24. NonNeg(Part(q, 1 .. n)) BY <1>11, <1>12, <1>21, PartGrows
<1>25. Part(q, 1 .. n) = Disallowed(r, loss)
  <2>1. cap = [i \in 1 .. n |-> cap[i]] BY <1>3, <1>7
  <2>2. Total(cap) = Part(cap, 1 .. n) BY <2>1 DEF Part
  <2>3. IsFraction(Part(cap, 1 .. n)) BY <1>12, <1>21, PartGrows
  <2>4. Lesser(Part(cap, 1 .. n), loss) = Lesser(loss, Part(cap, 1 .. n))
    BY <1>0, <2>3, LesserSwap
  <2> QED BY <1>9, <1>12, <2>2, <2>4
<1> QED BY <1>6, <1>19, <1>22, <1>23, <1>24, <1>25

-----------------------------------------------------------------------------
(* What each operation does to the basis.                                  *)

\* A transaction that adds `paid' to the basis, uses some of it for a sale and at most
\* defers a disallowed loss to it.
KeepsBasis(V, o, paid) ==
    /\ IsFraction(o.used) /\ NonNeg(o.deferred)
    /\ \E x : /\ NonNeg(x) /\ AtMost(x, o.deferred)
              /\ Plus(BasisIn(o.lots), o.used) = Plus(Plus(BasisIn(V), paid), x)

\* Lots whose basis has grown by what was paid, without a sale.
LEMMA PaidBasis ==
    ASSUME NEW V, NEW o, NEW W, NEW paid, IsFraction(BasisIn(V)), IsFraction(paid),
           o = Outcome(W, Zero, Zero), BasisIn(W) = Plus(BasisIn(V), paid)
    PROVE  KeepsBasis(V, o, paid)
<1>1. o.lots = W /\ o.used = Zero /\ o.deferred = Zero BY DEF Outcome
<1>2. NonNeg(Zero) /\ IsFraction(Zero) /\ AtMost(Zero, Zero) BY ZeroFrac, OrderType
<1> DEFINE b == Plus(BasisIn(V), paid)
<1>3. IsFraction(b) BY PlusType
<1> HIDE DEF b
<1>4. Plus(b, Zero) = b BY <1>3, PlusZero
<1> QED BY <1>1, <1>2, <1>4 DEF KeepsBasis, b

\* The same lots.
LEMMA SameBasis ==
    ASSUME NEW V, NEW o, IsFraction(BasisIn(V)), NEW W, o = Outcome(W, Zero, Zero),
           BasisIn(W) = BasisIn(V)
    PROVE  KeepsBasis(V, o, Zero)
<1>1. BasisIn(W) = Plus(BasisIn(V), Zero) BY PlusZero
<1>2. IsFraction(Zero) BY ZeroFrac
<1> QED BY <1>1, <1>2, PaidBasis, Zenon

\* A sale.
LEMMA SoldBasis ==
    ASSUME NEW T \in SUBSET Transactions, NEW V, SoundLots(V, T), Keyed(V),
           NEW t \in T, t.kind = "sale", NEW o \in Sold(V, t)
    PROVE  KeepsBasis(V, o, Zero)
<1>0. SaleOf(V, t, o) BY SaleIs
<1>1. PICK s \in Fifo(OpenLots(V, t.acct)) :
        o \in {Washed(Matched(V, t, s), r, LossOf(Matched(V, t, s).lots, t)) :
                   r \in Fifo(Replacements(Matched(V, t, s).lots, t))}
  BY <1>0, Zenon DEF SaleOf
<1> DEFINE m == Matched(V, t, s)
           loss == LossOf(m.lots, t)
<1>2. PICK r \in Fifo(Replacements(m.lots, t)) : o = Washed(m, r, loss) BY <1>1, Zenon
<1>3. SoundLots(m.lots, T) BY MatchedSound
<1>4. TakesUnits(V, m.lots, t.acct, t.qty) BY MatchedUnits
<1>5. IsFraction(m.used) /\ Plus(BasisIn(m.lots), m.used) = BasisIn(V) BY MatchedBasis
<1>6. NonNeg(loss)
  <2>1. t.id # None BY ShapeOf
  <2> QED BY <1>3, <2>1, LossIs
<1>7. /\ o.lots = WashAdjusted(m.lots, r, loss) /\ o.used = m.used
      /\ o.deferred = Disallowed(r, loss)
  <2> HIDE DEF m, loss
  <2> QED BY <1>2, Zenon DEF Washed, Outcome
<1> HIDE DEF m, loss
<1>8. Keyed(m.lots) BY <1>4 DEF TakesUnits
<1>9. PICK x : /\ NonNeg(x) /\ AtMost(x, o.deferred) /\ NonNeg(o.deferred)
               /\ BasisIn(o.lots) = Plus(BasisIn(m.lots), x)
  BY <1>3, <1>6, <1>7, <1>8, WashedBasis
<1> DEFINE b == BasisIn(m.lots)
           u == m.used
           c == BasisIn(V)
<1>10. IsFraction(b) /\ IsFraction(u) /\ IsFraction(x) /\ IsFraction(c)
  BY <1>3, <1>5, <1>9, SoundPriced DEF NonNeg
<1>11. Plus(b, u) = c BY <1>5
<1>12. BasisIn(o.lots) = Plus(b, x) /\ o.used = u BY <1>7, <1>9
<1>13. Plus(BasisIn(o.lots), o.used) = Plus(Plus(b, x), u) BY <1>12
<1> HIDE DEF b, u, c
<1>14. Plus(Plus(b, x), u) = Plus(Plus(b, u), x)
  <2>1. /\ Plus(Plus(b, x), u) = Plus(b, Plus(x, u)) /\ Plus(x, u) = Plus(u, x)
    BY <1>10, PlusSwap
  <2>2. Plus(Plus(b, u), x) = Plus(b, Plus(u, x)) BY <1>10, PlusSwap
  <2> QED BY <2>1, <2>2
<1>15. Plus(c, Zero) = c BY <1>10, PlusZero
<1>16. Plus(BasisIn(o.lots), o.used) = Plus(Plus(c, Zero), x) BY <1>11, <1>13, <1>14, <1>15
<1> QED BY <1>9, <1>10, <1>12, <1>16 DEF KeepsBasis, c

\* Two sets of lots that are apart.
LEMMA DisjointBasis ==
    ASSUME NEW V, NEW N, Priced(V), Priced(N), V \cap N = {}
    PROVE  Priced(V \cup N) /\ BasisIn(V \cup N) = Plus(BasisIn(V), BasisIn(N))
<1> DEFINE B == V \cup N
           val == Worth(B)
<1>1. V \in SUBSET B /\ N \in SUBSET B /\ B \in SUBSET B OBVIOUS
<1>2. Priced(B)
  <2>1. IsFiniteSet(V \cup N) BY FS_Union DEF Priced
  <2> QED BY <2>1 DEF Priced
<1>3. B = V \cup N OBVIOUS
<1> HIDE DEF B
<1>4. /\ Fractional(val) /\ DOMAIN val = B /\ Part(val, V) = BasisIn(V)
      /\ Part(val, N) = BasisIn(N) /\ Part(val, B) = BasisIn(B)
  BY <1>1, <1>2, WorthIs
<1> HIDE DEF val
<1>5. V \in SUBSET DOMAIN val /\ N \in SUBSET DOMAIN val BY <1>1, <1>4
<1>6. Part(val, V \cup N) = Plus(Part(val, V), Part(val, N)) BY <1>4, <1>5, PartUnion
<1> QED BY <1>2, <1>3, <1>4, <1>6

\* Lots that are numbered.
Numbered(r, P, N) ==
    /\ DOMAIN r = P /\ r = [i \in P |-> r[i]] /\ N = {r[i] : i \in P}
    /\ \A i, j \in P : r[i] = r[j] => i = j

WorthOf(r, P, h) ==
    /\ DOMAIN h = P
    /\ \A i \in P : /\ IsFraction(r[i].rem) /\ IsFraction(r[i].unit)
                    /\ h[i] = Times(r[i].rem, r[i].unit)

\* The basis of lots that are numbered.
LEMMA NumberedBasis ==
    ASSUME NEW r, NEW P, IsFiniteSet(P), NEW N, Numbered(r, P, N), NEW h, WorthOf(r, P, h)
    PROVE  Priced(N) /\ Fractional(h) /\ BasisIn(N) = Part(h, P)
<1> DEFINE val == Worth(N)
<1>w. DOMAIN h = P /\ \A i \in P : /\ IsFraction(r[i].rem) /\ IsFraction(r[i].unit)
                                   /\ h[i] = Times(r[i].rem, r[i].unit)
  BY DEF WorthOf
<1>0. /\ DOMAIN r = P /\ r = [i \in P |-> r[i]] /\ N = {r[i] : i \in P}
      /\ \A i, j \in P : r[i] = r[j] => i = j
  BY DEF Numbered
<1>1. \A i \in P : r[i] \in N BY <1>0
<1>2. IsFiniteSet(N)
  <2>1. IsFiniteSet({r[i] : i \in DOMAIN r}) BY <1>0, FiniteRange
  <2> QED BY <1>0, <2>1
<1>3. Priced(N) BY <1>0, <1>2, <1>w DEF Priced
<1>4. N \in SUBSET N OBVIOUS
<1>5. /\ Fractional(val) /\ DOMAIN val = N /\ \A l \in N : val[l] = Times(l.rem, l.unit)
      /\ Part(val, N) = BasisIn(N)
  BY <1>3, <1>4, WorthIs
<1> HIDE DEF val
<1>6. \A i \in DOMAIN r : r[i] \in DOMAIN val /\ h[i] = val[r[i]] BY <1>0, <1>1, <1>5, <1>w
<1>7. Fractional(h) BY <1>0, <1>5, <1>6, <1>w DEF Fractional
<1>8. \A i, j \in DOMAIN r : r[i] = r[j] => i = j BY <1>0
<1>9. P \in SUBSET DOMAIN r /\ DOMAIN h = DOMAIN r BY <1>0, <1>w
<1>10. Part(val, {r[i] : i \in P}) = Part(h, P) BY <1>5, <1>6, <1>7, <1>8, <1>9, PartImage
<1> QED BY <1>0, <1>3, <1>5, <1>7, <1>10

\* The lots that arrive have the basis of what was sent.
LEMMA NewBasis ==
    ASSUME NEW n \in Nat, NEW s, DOMAIN s = 1 .. n, \A i \in 1 .. n : IsFraction(s[i].unit),
           NEW q, Fractional(q), DOMAIN q = 1 .. n, NEW d, NEW g, NEW N, Comes(N, s, q, d, g, n)
    PROVE  Priced(N) /\ BasisIn(N) = BasisOf(s, q) /\ \A l \in N : \E i \in Nat \ {0} : l.id = <<g, d.id, i>>
<1> DEFINE P == {k \in 1 .. n : q[k] # Zero}
           come == [i \in P |-> Arrived(s[i], q[i], d, <<g, d.id, i>>)]
           p == [i \in 1 .. n |-> Times(q[i], s[i].unit)]
           h == [i \in P |-> p[i]]
<1>1. DOMAIN come = P /\ come = [i \in P |-> come[i]]
      /\ \A i \in P : come[i] = Arrived(s[i], q[i], d, <<g, d.id, i>>)
  BY Zenon
<1>2. N = {come[i] : i \in P} BY <1>1 DEF Comes
<1>3. P \subseteq 1 .. n /\ \A i \in 1 .. n : i \notin P => q[i] = Zero OBVIOUS
<1>4. DOMAIN p = 1 .. n /\ \A i \in 1 .. n : p[i] = Times(q[i], s[i].unit) BY Zenon
<1> HIDE DEF p
<1>5. DOMAIN h = P /\ \A i \in P : h[i] = p[i] BY Zenon
<1> HIDE DEF come, P, h
<1>6. \A i \in P : come[i].id = <<g, d.id, i>> /\ come[i].rem = q[i] /\ come[i].unit = s[i].unit
  <2> SUFFICES ASSUME NEW i \in P
               PROVE  come[i].id = <<g, d.id, i>> /\ come[i].rem = q[i] /\ come[i].unit = s[i].unit
    OBVIOUS
  <2> DEFINE l == s[i]
             x == q[i]
             y == <<g, d.id, i>>
  <2>1. come[i] = Arrived(l, x, d, y) BY <1>1
  <2> HIDE DEF l, x, y
  <2>2. come[i].id = y /\ come[i].rem = x /\ come[i].unit = l.unit BY <2>1, ArrivedFields
  <2> QED BY <2>2 DEF l, x, y
<1>7. IsFiniteSet(1 .. n) BY PlacesFinite, Zenon
<1>8. IsFiniteSet(P) BY <1>3, <1>7, FS_Subset
<1>9. \A i \in 1 .. n : IsFraction(q[i]) BY DEF Fractional
<1>10. \A i \in P : IsFraction(come[i].rem) /\ IsFraction(come[i].unit) BY <1>3, <1>6, <1>9
<1>11. \A i, j \in P : come[i] = come[j] => i = j
  <2>1. \A i, j \in P : come[i].id = come[j].id => i = j BY <1>6
  <2> QED BY <2>1
<1>12. \A i \in P : h[i] = Times(come[i].rem, come[i].unit) BY <1>3, <1>4, <1>5, <1>6
<1>a. Numbered(come, P, N) BY <1>1, <1>2, <1>11 DEF Numbered
<1>13. Priced(N) /\ Fractional(h) /\ BasisIn(N) = Part(h, P)
  <2>1. WorthOf(come, P, h) BY <1>5, <1>10, <1>12 DEF WorthOf
  <2> QED BY <1>8, <1>a, <2>1, NumberedBasis
<1>14. Fractional(p)
  <2>1. \A i \in 1 .. n : IsFraction(p[i]) BY <1>4, <1>9, TimesType
  <2> QED BY <1>4, <1>7, <2>1 DEF Fractional
<1>15. Part(h, P) = Part(p, P) BY <1>5, PartSame
<1>16. Part(p, 1 .. n) = Part(p, P)
  <2> DEFINE R == (1 .. n) \ P
  <2>1. P \cap R = {} /\ P \cup R = 1 .. n /\ R \subseteq 1 .. n BY <1>3
  <2>2. \A i \in R : q[i] = Zero BY <1>3
  <2> HIDE DEF R
  <2>3. P \in SUBSET DOMAIN p /\ R \in SUBSET DOMAIN p BY <1>3, <1>4, <2>1
  <2>4. Part(p, P \cup R) = Plus(Part(p, P), Part(p, R)) BY <1>14, <2>1, <2>3, PartUnion
  <2>5. Part(p, R) = Zero
    <3>1. \A i \in R : p[i] = Zero
      <4> SUFFICES ASSUME NEW i \in R PROVE p[i] = Zero OBVIOUS
      <4>1. i \in 1 .. n /\ q[i] = Zero BY <2>1, <2>2
      <4>2. IsFraction(s[i].unit) /\ p[i] = Times(q[i], s[i].unit) BY <1>4, <4>1
      <4> QED BY <4>1, <4>2, TimesZero
    <3> QED BY <1>14, <2>3, <3>1, PartZero
  <2>6. IsFraction(Part(p, P)) BY <1>14, <2>3, PartGrows
  <2> QED BY <2>1, <2>4, <2>5, <2>6, PlusZero
<1>17. BasisOf(s, q) = Part(p, 1 .. n)
  <2>1. [i \in DOMAIN s |-> Times(q[i], s[i].unit)] = [i \in 1 .. n |-> p[i]] BY <1>4
  <2> QED BY <2>1 DEF BasisOf, Part
<1>18. \A l \in N : \E i \in Nat \ {0} : l.id = <<g, d.id, i>> BY <1>2, <1>3, <1>6
<1> QED BY <1>2, <1>13, <1>15, <1>16, <1>17, <1>18

\* A transfer takes the basis along.
LEMMA MovedBasis ==
    ASSUME NEW T \in SUBSET Transactions, NEW V, SoundLots(V, T), Keyed(V),
           NEW t \in T, NEW d \in T, NEW g,
           \A l \in V, i \in Nat \ {0} : l.id # <<g, d.id, i>>,
           NEW o \in Transferred(V, t, d, g)
    PROVE  KeepsBasis(V, o, Zero)
<1>1. PICK s \in Fifo(OpenLots(V, t.acct)) : o = Moved(V, t, d, g, s) BY Zenon DEF Transferred
<1>2. PICK n \in Nat : Walked(V, t.acct, s, n) BY FifoWalked DEF SoundLots
<1>3. NonNeg(t.qty) BY ShapeOf
<1> DEFINE q == Taken(Caps(s), t.qty)
           r == [i \in DOMAIN s |-> SentFrom(s[i], q[i], t)]
           M == Replaced(V, s, r)
           N == {Arrived(s[i], q[i], d, <<g, d.id, i>>) : i \in {k \in 1 .. n : q[k] # Zero}}
<1>4. /\ DOMAIN s = 1 .. n /\ (\A i, j \in 1 .. n : s[i] = s[j] => i = j)
      /\ \A i \in 1 .. n : SoundLot(s[i], T) /\ IsFraction(q[i]) /\ s[i] \in V
      /\ DOMAIN q = 1 .. n
  BY <1>2, <1>3, WalkedLots
<1>5. o = Outcome(M \cup N, Zero, Zero)
  <2>1. o = Outcome(M \cup {Arrived(s[i], q[i], d, <<g, d.id, i>>) :
                               i \in {k \in DOMAIN s : q[k] # Zero}}, Zero, Zero)
    BY <1>1, Zenon DEF Moved
  <2> HIDE DEF M, q
  <2> QED BY <1>4, <2>1
<1>6. DOMAIN r = 1 .. n /\ \A i \in 1 .. n : r[i] = SentFrom(s[i], q[i], t) BY <1>4, Zenon
<1>7. r = [i \in 1 .. n |-> r[i]]
  <2>1. r = [i \in DOMAIN r |-> r[i]] BY Zenon
  <2> HIDE DEF r
  <2> QED BY <1>6, <2>1
<1> HIDE DEF r, q
<1>8. \A i \in 1 .. n : /\ SameMarks(r[i], s[i]) /\ r[i].rem = Minus(s[i].rem, q[i])
                        /\ r[i].unit = s[i].unit
  BY <1>4, <1>6, SentFields
<1>9. Again(s, r, n) BY <1>4, <1>6, <1>7, <1>8 DEF Again
<1>10. Priced(V) /\ IsFraction(BasisIn(V)) BY SoundPriced
<1>11. /\ Priced(M) /\ IsFraction(BasisOf(s, q))
       /\ Plus(BasisIn(M), BasisOf(s, q)) = BasisIn(V)
  BY <1>4, <1>8, <1>9, <1>10, LoopBasis
<1>12. Fractional(q)
  <2>1. IsFiniteSet(1 .. n) BY PlacesFinite, Zenon
  <2> QED BY <1>4, <2>1 DEF Fractional
<1>13. \A i \in 1 .. n : IsFraction(s[i].unit) BY <1>4, LotParts
<1>14. Comes(N, s, q, d, g, n) BY DEF Comes
<1> HIDE DEF N
<1>15. /\ Priced(N) /\ BasisIn(N) = BasisOf(s, q)
       /\ \A l \in N : \E i \in Nat \ {0} : l.id = <<g, d.id, i>>
  BY <1>4, <1>12, <1>13, <1>14, NewBasis
<1>16. MarkedBy(V, M) BY <1>4, <1>9, AgainKeyed
<1> HIDE DEF M
<1>17. M \cap N = {}
  <2> SUFFICES ASSUME NEW l \in M, l \in N PROVE FALSE OBVIOUS
  <2>1. PICK k \in V : l.id = k.id BY <1>16 DEF MarkedBy, SameMarks
  <2>2. PICK i \in Nat \ {0} : l.id = <<g, d.id, i>> BY <1>15
  <2> QED BY <2>1, <2>2
<1>18. BasisIn(M \cup N) = BasisIn(V) BY <1>11, <1>15, <1>17, DisjointBasis
<1> DEFINE W == M \cup N
<1>19. o = Outcome(W, Zero, Zero) /\ BasisIn(W) = BasisIn(V) BY <1>5, <1>18
<1> HIDE DEF W
<1> QED BY <1>10, <1>19, SameBasis

\* A lot that is scaled is worth the same.
LEMMA ScaledWorth ==
    ASSUME NEW T, NEW l, SoundLot(l, T), NEW ratio, Pos(ratio)
    PROVE  /\ IsFraction(Rescaled(l, ratio).rem) /\ IsFraction(Rescaled(l, ratio).unit)
           /\ Times(Rescaled(l, ratio).rem, Rescaled(l, ratio).unit) = Times(l.rem, l.unit)
<1> DEFINE rem == l.rem
           unit == l.unit
<1>1. IsFraction(rem) /\ IsFraction(unit) /\ IsFraction(ratio) BY LotParts DEF Pos
<1>2. Rescaled(l, ratio).rem = Times(rem, ratio) /\ Rescaled(l, ratio).unit = Over(unit, ratio)
  BY RescaledFields
<1> HIDE DEF rem, unit
<1>3. IsFraction(Over(unit, ratio)) /\ Times(Over(unit, ratio), Times(rem, ratio)) = Times(unit, rem)
  BY <1>1, OverIs
<1>4. IsFraction(Times(rem, ratio)) BY <1>1, TimesType
<1>5. Times(Times(rem, ratio), Over(unit, ratio)) = Times(Over(unit, ratio), Times(rem, ratio))
      /\ Times(unit, rem) = Times(rem, unit)
  BY <1>1, <1>3, <1>4, TimesType
<1> QED BY <1>2, <1>3, <1>4, <1>5 DEF rem, unit

\* A quantity event leaves the basis alone.
LEMMA QuantityBasis ==
    ASSUME NEW T, NEW V, SoundLots(V, T), Keyed(V), NEW t, Pos(t.ratio),
           NEW o \in QuantityChanged(V, t)
    PROVE  KeepsBasis(V, o, Zero)
<1> DEFINE open == OpenLots(V, t.acct)
           K == V \ open
           r == [l \in open |-> Rescaled(l, t.ratio)]
           W == K \cup {Rescaled(l, t.ratio) : l \in open}
<1>1. o = Outcome(W, Zero, Zero) BY Zenon DEF QuantityChanged
<1>2. open \subseteq V BY DEF OpenLots
<1>3. DOMAIN r = open /\ r = [l \in open |-> r[l]] /\ \A l \in open : r[l] = Rescaled(l, t.ratio)
  BY Zenon
<1> HIDE DEF open, r
<1>4. W = K \cup {r[l] : l \in open} BY <1>3
<1> DEFINE N == {r[l] : l \in open}
<1>5. Priced(V) /\ IsFraction(BasisIn(V)) /\ \A l \in V : SoundLot(l, T)
  BY SoundPriced DEF SoundLots
<1>6. IsFiniteSet(open) BY <1>2, <1>5, FS_Subset DEF Priced
<1>7. \A l \in open : /\ SameMarks(r[l], l) /\ IsFraction(r[l].rem) /\ IsFraction(r[l].unit)
                      /\ Times(r[l].rem, r[l].unit) = Times(l.rem, l.unit)
  BY <1>2, <1>3, <1>5, ScaledWorth, RescaledFields
<1>8. \A l, m \in open : r[l].id = r[m].id => l = m BY <1>2, <1>7 DEF SameMarks, Keyed
<1> DEFINE h == Worth(open)
<1>9. Priced(open) BY <1>2, <1>5, <1>6 DEF Priced
<1>10. open \in SUBSET open OBVIOUS
<1>11. DOMAIN h = open /\ (\A l \in open : h[l] = Times(l.rem, l.unit)) /\ Part(h, open) = BasisIn(open)
  BY <1>9, <1>10, WorthIs
<1> HIDE DEF h
<1>12. Priced(N) /\ BasisIn(N) = Part(h, open)
  <2>1. \A l \in open : h[l] = Times(r[l].rem, r[l].unit) BY <1>7, <1>11
  <2>2. \A l, m \in open : r[l] = r[m] => l = m BY <1>8
  <2>3. Numbered(r, open, N) BY <1>3, <2>2 DEF Numbered
  <2>4. WorthOf(r, open, h) BY <1>7, <1>11, <2>1 DEF WorthOf
  <2> HIDE DEF N
  <2> QED BY <1>6, <2>3, <2>4, NumberedBasis
<1>13. Priced(K)
  <2>1. IsFiniteSet(K) BY <1>5, FS_Subset DEF Priced
  <2> QED BY <1>5, <2>1 DEF Priced
<1>14. K \cap N = {}
  <2> SUFFICES ASSUME NEW l \in K, NEW k \in open, l = r[k] PROVE FALSE OBVIOUS
  <2>1. l.id = k.id /\ l \in V /\ k \in V BY <1>2, <1>7 DEF SameMarks
  <2> QED BY <2>1 DEF Keyed
<1>15. K \cap open = {} /\ K \cup open = V BY <1>2
<1> HIDE DEF K, N
<1>16. BasisIn(K \cup N) = Plus(BasisIn(K), BasisIn(N)) BY <1>12, <1>13, <1>14, DisjointBasis
<1>17. BasisIn(K \cup open) = Plus(BasisIn(K), BasisIn(open)) BY <1>9, <1>13, <1>15, DisjointBasis
<1>18. BasisIn(W) = BasisIn(V) BY <1>4, <1>11, <1>12, <1>15, <1>16, <1>17 DEF N
<1> HIDE DEF W
<1> QED BY <1>1, <1>5, <1>18, SameBasis

\* What is paid for a transaction.
Buying(t) == t.kind = "purchase" /\ t.qty # Zero
PaidOf(t) == IF Buying(t) THEN t.amount ELSE Zero
Paid(P) == Total([t \in {u \in P : u.kind = "purchase" /\ u.qty # Zero} |-> t.amount])

\* What was paid, one transaction after the other.
LEMMA PaidGrows ==
    ASSUME NEW P \in SUBSET Transactions, IsFiniteSet(P)
    PROVE  /\ IsFraction(Paid(P))
           /\ P = {} => Paid(P) = Zero
           /\ \A t \in P : Paid(P) = Plus(Paid(P \ {t}), PaidOf(t))
<1> DEFINE f == [t \in P |-> PaidOf(t)]
           a == [t \in P |-> t.amount]
           B == {t \in P : Buying(t)}
<1>1. DOMAIN f = P /\ \A t \in P : f[t] = PaidOf(t) BY Zenon
<1>2. DOMAIN a = P /\ \A t \in P : a[t] = t.amount BY Zenon
<1>3. \A t \in P : f[t] = IF t \in B THEN a[t] ELSE Zero BY <1>1, <1>2 DEF PaidOf
<1>4. \A t \in P : IsFraction(t.amount) BY ShapeOf DEF NonNeg
<1>5. \A Q \in SUBSET P : Paid(Q) = Part(a, Q \cap B)
  <2> SUFFICES ASSUME NEW Q \in SUBSET P PROVE Paid(Q) = Part(a, Q \cap B) OBVIOUS
  <2> DEFINE S == {u \in Q : u.kind = "purchase" /\ u.qty # Zero}
  <2>1. S = Q \cap B /\ S \subseteq P BY DEF Buying
  <2>2. Paid(Q) = Total([t \in S |-> t.amount]) BY DEF Paid
  <2> HIDE DEF S, a
  <2>3. [t \in S |-> t.amount] = [t \in S |-> a[t]] BY <1>2, <2>1
  <2> QED BY <2>1, <2>2, <2>3 DEF Part
<1> HIDE DEF f, a, B
<1>6. Fractional(a) BY <1>2, <1>4 DEF Fractional
<1>7. \A Q \in SUBSET P : Fractional(f) /\ Part(f, Q) = Part(a, Q \cap B)
  <2> SUFFICES ASSUME NEW Q \in SUBSET P PROVE Fractional(f) /\ Part(f, Q) = Part(a, Q \cap B)
    OBVIOUS
  <2>1. DOMAIN f = DOMAIN a /\ (\A t \in DOMAIN a : f[t] = IF t \in B THEN a[t] ELSE Zero)
        /\ Q \in SUBSET DOMAIN a
    BY <1>1, <1>2, <1>3
  <2> QED BY <1>6, <2>1, PartFilter
<1>8. \A Q \in SUBSET P : Paid(Q) = Part(f, Q) BY <1>5, <1>7
<1>9. P \in SUBSET P OBVIOUS
<1>10. Fractional(f) BY <1>7, <1>9
<1>11. P \in SUBSET DOMAIN f BY <1>1
<1>12. /\ IsFraction(Part(f, P)) /\ (P = {} => Part(f, P) = Zero)
       /\ \A t \in P : Part(f, P) = Plus(f[t], Part(f, P \ {t}))
  BY <1>10, <1>11, PartGrows
<1>13. ASSUME NEW t \in P PROVE Paid(P) = Plus(Paid(P \ {t}), PaidOf(t))
  <2>1. P \ {t} \in SUBSET P /\ P \ {t} \in SUBSET DOMAIN f BY <1>1
  <2>2. IsFraction(Part(f, P \ {t})) /\ IsFraction(f[t])
    BY <1>1, <1>10, <2>1, PartGrows DEF Fractional
  <2>3. Plus(f[t], Part(f, P \ {t})) = Plus(Part(f, P \ {t}), f[t]) BY <2>2, PlusSwap
  <2> QED BY <1>1, <1>8, <1>9, <1>12, <2>1, <2>3
<1> QED BY <1>8, <1>9, <1>12, <1>13

\* One lot more.
LEMMA OneMoreBasis ==
    ASSUME NEW V, Priced(V), NEW l, l \notin V, IsFraction(l.rem), IsFraction(l.unit)
    PROVE  BasisIn(V \cup {l}) = Plus(BasisIn(V), Times(l.rem, l.unit))
<1> DEFINE B == V \cup {l}
           val == Worth(B)
<1>1. V \in SUBSET B /\ B \in SUBSET B /\ l \in B /\ B \ {l} = V OBVIOUS
<1>2. Priced(B)
  <2>1. IsFiniteSet(V \cup {l}) BY FS_AddElement DEF Priced
  <2> QED BY <2>1 DEF Priced
<1> HIDE DEF B
<1>3. /\ Fractional(val) /\ DOMAIN val = B /\ val[l] = Times(l.rem, l.unit)
      /\ Part(val, V) = BasisIn(V) /\ Part(val, B) = BasisIn(B)
      /\ IsFraction(BasisIn(V)) /\ IsFraction(BasisIn(B))
  BY <1>1, <1>2, WorthIs
<1> HIDE DEF val
<1>4. B \in SUBSET DOMAIN val BY <1>3
<1>5. Part(val, B) = Plus(val[l], Part(val, V)) BY <1>1, <1>3, <1>4, PartGrows
<1>6. IsFraction(Times(l.rem, l.unit)) BY TimesType
<1>7. Plus(Times(l.rem, l.unit), BasisIn(V)) = Plus(BasisIn(V), Times(l.rem, l.unit))
  BY <1>3, <1>6, PlusSwap
<1> QED BY <1>3, <1>5, <1>7 DEF B

\* A purchase adds what was paid.
LEMMA PurchasedBasis ==
    ASSUME NEW T, NEW V, SoundLots(V, T), NEW t \in Transactions, t.kind = "purchase", NEW g,
           \A l \in V : l.id # <<g, t.id, 0>>, NEW o \in Purchased(V, t, g)
    PROVE  KeepsBasis(V, o, PaidOf(t))
<1> DEFINE l == [Opened(<<g, t.id, 0>>, t.acct, t.qty, t.amount, t.date) EXCEPT !.purchase = t.id]
           W == V \cup {l}
<1>1. o = Outcome(W, Zero, Zero) BY Zenon DEF Purchased
<1>2. l.id = <<g, t.id, 0>> /\ l.rem = t.qty /\ l.unit = Over(t.amount, t.qty)
  BY DEF Opened
<1> HIDE DEF l
<1>3. NonNeg(t.qty) /\ IsFraction(t.qty) /\ IsFraction(t.amount) BY ShapeOf DEF NonNeg
<1>4. IsFraction(Over(t.amount, t.qty)) BY <1>3, OverType
<1>5. Times(t.qty, Over(t.amount, t.qty)) = PaidOf(t) /\ IsFraction(PaidOf(t))
  <2>1. CASE t.qty = Zero
    <3>1. Times(Zero, Over(t.amount, t.qty)) = Zero BY <1>4, TimesZero
    <3> QED BY <2>1, <3>1, ZeroFrac DEF PaidOf, Buying
  <2>2. CASE t.qty # Zero
    <3>1. Pos(t.qty) BY <1>3, <2>2, OrderType
    <3>2. Times(Over(t.amount, t.qty), t.qty) = t.amount BY <1>3, <3>1, OverIs
    <3>3. Times(t.qty, Over(t.amount, t.qty)) = Times(Over(t.amount, t.qty), t.qty)
      BY <1>3, <1>4, TimesType
    <3> QED BY <1>3, <2>2, <3>2, <3>3 DEF PaidOf, Buying
  <2> QED BY <2>1, <2>2
<1>6. l \notin V /\ Priced(V) /\ IsFraction(BasisIn(V)) BY <1>2, SoundPriced
<1>7. BasisIn(V \cup {l}) = Plus(BasisIn(V), PaidOf(t))
  BY <1>2, <1>3, <1>4, <1>5, <1>6, OneMoreBasis
<1>8. BasisIn(W) = Plus(BasisIn(V), PaidOf(t)) BY <1>7
<1> HIDE DEF W
<1> QED BY <1>1, <1>5, <1>6, <1>8, PaidBasis

\* Any transaction.
LEMMA OutcomeBasis ==
    ASSUME NEW U \in SUBSET Transactions, NEW V, SoundLots(V, U),
           NEW T \in SUBSET U, IsFiniteSet(T), OneVersionEach(T),
           NEW P \in SUBSET T, NEW t \in T, t \notin P,
           NEW g, Books(V, g, T, P), NEW o \in Outcomes(V, T, t, g)
    PROVE  KeepsBasis(V, o, PaidOf(t))
<1>1. t \in Transactions /\ t \in U /\ t.kind \in Kinds /\ T \in SUBSET Transactions BY ShapeOf
<1>2. IsFraction(BasisIn(V)) BY SoundPriced
<1>3. Keyed(V) /\ \A l \in V : Origin(l, g, T, P) BY DEF Books
<1>4. ASSUME o \in Unaffected(V) PROVE KeepsBasis(V, o, Zero)
  <2>1. o = Outcome(V, Zero, Zero) BY <1>4 DEF Unaffected
  <2> QED BY <1>2, <2>1, SameBasis
<1>5. t.kind # "purchase" => PaidOf(t) = Zero BY DEF PaidOf, Buying
<1>6. CASE t.kind = "purchase"
  <2>1. o \in Purchased(V, t, g) BY <1>6 DEF Outcomes
  <2>2. \A l \in V : l.id # <<g, t.id, 0>> BY <1>1, <1>3, NotBought
  <2> QED BY <1>1, <1>6, <2>1, <2>2, PurchasedBasis
<1>7. CASE t.kind = "sale"
  <2>1. CASE t.qty = Zero
    <3>1. o \in Unaffected(V) BY <1>7, <2>1 DEF Outcomes
    <3> QED BY <1>4, <1>5, <1>7, <3>1
  <2>2. CASE t.qty # Zero
    <3>1. o \in Sold(V, t) BY <1>7, <2>2 DEF Outcomes
    <3>2. KeepsBasis(V, o, Zero) BY <1>1, <1>3, <1>7, <3>1, SoldBasis
    <3> QED BY <1>5, <1>7, <3>2
  <2> QED BY <2>1, <2>2
<1>8. CASE t.kind = "quantity_event"
  <2>1. CASE t.ratio = None
    <3>1. o \in Unaffected(V) BY <1>8, <2>1 DEF Outcomes
    <3> QED BY <1>4, <1>5, <1>8, <3>1
  <2>2. CASE t.ratio # None
    <3>1. o \in QuantityChanged(V, t) BY <1>8, <2>2 DEF Outcomes
    <3>2. Pos(t.ratio) BY <1>1, <2>2, ShapeOf
    <3>3. KeepsBasis(V, o, Zero) BY <1>3, <3>1, <3>2, QuantityBasis
    <3> QED BY <1>5, <1>8, <3>3
  <2> QED BY <2>1, <2>2
<1>9. CASE t.kind = "transfer"
  <2>1. o \in Unaffected(V) \/ (t.outbound /\ \E d \in PartnersOf(T, t) : o \in Transferred(V, t, d, g))
    BY <1>9 DEF Outcomes
  <2>2. CASE o \in Unaffected(V) BY <1>4, <1>5, <1>9, <2>2
  <2>3. CASE t.outbound /\ \E d \in PartnersOf(T, t) : o \in Transferred(V, t, d, g)
    <3>1. PICK d \in PartnersOf(T, t) : o \in Transferred(V, t, d, g) BY <2>3
    <3>2. \A l \in V : \A i \in Nat \ {0} : l.id # <<g, d.id, i>>
      BY <1>1, <1>3, <2>3, NotDelivered
    <3>3. d \in U BY DEF PartnersOf, Alike
    <3>4. \A l \in V, i \in Nat \ {0} : l.id # <<g, d.id, i>> BY <3>2
    <3>5. KeepsBasis(V, o, Zero) BY <1>1, <1>3, <3>1, <3>3, <3>4, MovedBasis
    <3> QED BY <1>5, <1>9, <3>5
  <2> QED BY <2>1, <2>2, <2>3
<1> QED BY <1>1, <1>6, <1>7, <1>8, <1>9 DEF Kinds

-----------------------------------------------------------------------------
(* The balance of a rebuild.                                               *)

\* What was paid for P is used or still the basis of a lot, but for disallowed losses.
Balanced(V, P, used, deferred) ==
    /\ IsFraction(used) /\ IsFraction(deferred)
    /\ \E x : /\ NonNeg(x) /\ AtMost(x, deferred)
              /\ Plus(BasisIn(V), used) = Plus(Paid(P), x)

\* The balance is kept.
LEMMA BalanceKept ==
    ASSUME NEW P \in SUBSET Transactions, IsFiniteSet(P), NEW t \in Transactions, t \notin P,
           NEW V, NEW used, NEW deferred, Balanced(V, P, used, deferred), IsFraction(BasisIn(V)),
           NEW o, KeepsBasis(V, o, PaidOf(t)), IsFraction(BasisIn(o.lots))
    PROVE  Balanced(o.lots, P \cup {t}, Plus(used, o.used), Plus(deferred, o.deferred))
<1> DEFINE b == BasisIn(V)
           c == BasisIn(o.lots)
           e == o.used
           d == o.deferred
           p == PaidOf(t)
           q == Paid(P)
<1>1. PICK x : /\ NonNeg(x) /\ AtMost(x, deferred) /\ Plus(b, used) = Plus(q, x)
  BY DEF Balanced
<1>2. PICK y : /\ NonNeg(y) /\ AtMost(y, d) /\ Plus(c, e) = Plus(Plus(b, p), y)
  BY DEF KeepsBasis
<1>3. IsFraction(used) /\ IsFraction(deferred) /\ IsFraction(e) /\ IsFraction(d)
  BY DEF Balanced, KeepsBasis, NonNeg
<1>4. IsFraction(x) /\ IsFraction(y) BY <1>1, <1>2 DEF NonNeg
<1>5. IsFraction(q) BY PaidGrows
<1>6. IsFraction(p) BY ShapeOf, ZeroFrac DEF PaidOf, NonNeg
<1>7. Paid(P \cup {t}) = Plus(q, p)
  <2> DEFINE S == P \cup {t}
  <2>1. S \in SUBSET Transactions /\ t \in S /\ S \ {t} = P OBVIOUS
  <2>2. IsFiniteSet(S) BY FS_AddElement
  <2> HIDE DEF S
  <2>3. Paid(S) = Plus(Paid(S \ {t}), PaidOf(t)) BY <2>1, <2>2, PaidGrows
  <2> QED BY <2>1, <2>3 DEF S
<1>8. IsFraction(b) /\ IsFraction(c) OBVIOUS
<1> HIDE DEF b, c, e, d, p, q
\* (c + e) + used = ((b + p) + y) + used = (b + used) + (p + y) = (q + x) + (p + y)
<1>9. Plus(c, Plus(used, e)) = Plus(Plus(c, e), used)
  <2>1. Plus(used, e) = Plus(e, used) /\ Plus(Plus(c, e), used) = Plus(c, Plus(e, used))
    BY <1>3, <1>8, PlusSwap
  <2> QED BY <2>1
<1>10. Plus(Plus(Plus(b, p), y), used) = Plus(Plus(b, used), Plus(p, y))
  <2>1. IsFraction(Plus(b, p)) BY <1>6, <1>8, PlusType
  <2>2. Plus(Plus(Plus(b, p), y), used) = Plus(Plus(b, p), Plus(y, used))
        /\ Plus(y, used) = Plus(used, y)
    BY <1>3, <1>4, <2>1, PlusSwap
  <2>3. Plus(Plus(b, p), Plus(used, y)) = Plus(Plus(b, used), Plus(p, y))
    BY <1>3, <1>4, <1>6, <1>8, PlusPairs
  <2> QED BY <2>2, <2>3
<1>11. Plus(Plus(q, x), Plus(p, y)) = Plus(Plus(q, p), Plus(x, y))
  BY <1>4, <1>5, <1>6, PlusPairs
<1>12. Plus(c, Plus(used, e)) = Plus(Plus(q, p), Plus(x, y))
  BY <1>1, <1>2, <1>9, <1>10, <1>11
<1>13. NonNeg(Plus(x, y)) BY <1>1, <1>2, <1>4, PlusType
<1>14. AtMost(Plus(x, y), Plus(deferred, d)) BY <1>1, <1>2, <1>3, <1>4, PlusOrder
<1>15. IsFraction(Plus(used, e)) /\ IsFraction(Plus(deferred, d)) BY <1>3, PlusType
<1> QED BY <1>7, <1>12, <1>13, <1>14, <1>15 DEF Balanced, c, d, e, p, q

\* Nothing paid, nothing used.
LEMMA BalancedNone ==
    Balanced({}, {}, Zero, Zero)
<1>1. Priced({}) /\ {} \in SUBSET {} BY FS_EmptySet DEF Priced
<1> DEFINE E == {}
           val == Worth(E)
<1>2. Fractional(val) /\ DOMAIN val = E /\ Part(val, E) = BasisIn(E) BY <1>1, WorthIs
<1> HIDE DEF val
<1>3. Part(val, E) = Zero BY <1>2, PartGrows
<1>4. Paid({}) = Zero BY PaidGrows, FS_EmptySet
<1>5. IsFraction(Zero) /\ NonNeg(Zero) /\ AtMost(Zero, Zero) BY ZeroFrac, OrderType
<1>6. Plus(Zero, Zero) = Plus(Zero, Zero) OBVIOUS
<1> QED BY <1>2, <1>3, <1>4, <1>5 DEF Balanced

\* The books after each transaction of a rebuild: units, order and basis.
Ledger(V, g, T, P, used, deferred) ==
    /\ Books(V, g, T, P) /\ Spread(V, T, P) /\ Balanced(V, P, used, deferred)

\* process_transaction keeps the books.
LEMMA LedgerKept ==
    ASSUME NEW U \in SUBSET Transactions, NEW V, SoundLots(V, U),
           NEW T \in SUBSET U, IsFiniteSet(T), OneVersionEach(T),
           NEW P \in SUBSET T, NEW t \in T,
           \A u \in P : u.id < t.id, NEW g, NEW used, NEW deferred,
           Ledger(V, g, T, P, used, deferred), NEW o \in Outcomes(V, T, t, g), SoundLots(o.lots, U)
    PROVE  Ledger(o.lots, g, T, P \cup {t}, Plus(used, o.used), Plus(deferred, o.deferred))
<1>1. T \in SUBSET Transactions /\ P \in SUBSET Transactions /\ t \in Transactions OBVIOUS
<1>2. t \notin P /\ IsFiniteSet(P)
  <2>1. t.id \in Nat BY <1>1, ShapeOf
  <2>2. t \notin P BY <2>1
  <2> QED BY <2>2, FS_Subset
<1>3. Books(V, g, T, P) /\ Spread(V, T, P) /\ Balanced(V, P, used, deferred) BY DEF Ledger
<1>4. Effect(V, o.lots, T, t, g) BY <1>2, <1>3, OutcomeEffect
<1> DEFINE W == o.lots
<1> HIDE DEF W
<1>5. Effect(V, W, T, t, g) BY <1>4 DEF W
<1>6. Books(W, g, T, P \cup {t}) BY <1>1, <1>3, <1>5, BooksKept
<1>7. Spread(W, T, P \cup {t}) BY <1>1, <1>3, <1>5, SpreadKept
<1>8. KeepsBasis(V, o, PaidOf(t)) BY <1>2, <1>3, OutcomeBasis
<1>9. IsFraction(BasisIn(V)) /\ IsFraction(BasisIn(o.lots)) BY SoundPriced
<1>10. Balanced(o.lots, P \cup {t}, Plus(used, o.used), Plus(deferred, o.deferred))
  BY <1>1, <1>2, <1>3, <1>8, <1>9, BalanceKept
<1> QED BY <1>6, <1>7, <1>10 DEF Ledger, W

\* The books of no transactions.
LEMMA LedgerNone ==
    ASSUME NEW g, NEW T
    PROVE  Ledger({}, g, T, {}, Zero, Zero)
<1> DEFINE E == {}
<1> HIDE DEF E
<1>1. E = {} BY DEF E
<1>2. Weighable(E) BY <1>1, FS_EmptySet DEF Weighable
<1>3. \A a, D : UnitsIn(E, a, D) = Zero
  <2> SUFFICES ASSUME NEW a, NEW D PROVE UnitsIn(E, a, D) = Zero OBVIOUS
  <2>1. \A l \in E : l.acct # a \/ l.rem = Zero BY <1>1
  <2> QED BY <1>2, <2>1, ZeroUnits
<1>4. Books(E, g, T, E)
  <2>1. Keyed(E) BY <1>1 DEF Keyed
  <2>2. Held(T, E) = [a \in Accounts |-> UnitsIn(E, a, Nat)]
    BY <1>1, <1>3, HeldNone DEF NoHoldings
  <2> QED BY <1>1, <2>1, <2>2 DEF Books
<1>5. Spread(E, T, E)
  <2> SUFFICES ASSUME NEW a \in Accounts, NEW d \in Nat
               PROVE  UnitsIn(E, a, 0 .. d) = Left(Units(BoughtBy(E, a, d)),
                          Minus(Units(PurchasesIn(E, a)), UnitsIn(E, a, Nat)))
    BY DEF Spread
  <2>1. PurchasesIn(E, a) = E /\ BoughtBy(E, a, d) = E BY <1>1 DEF PurchasesIn, BoughtBy
  <2>2. Units(E) = Zero
    <3>1. E \in SUBSET Transactions /\ IsFiniteSet(E) BY <1>1, FS_EmptySet
    <3> QED BY <1>1, <3>1, UnitsAdd
  <2>3. Left(Zero, Minus(Zero, Zero)) = Zero
    <3>1. IsFraction(Zero) /\ NonNeg(Zero) BY ZeroFrac, OrderType
    <3> QED BY <3>1, LeftAll
  <2> QED BY <1>3, <2>1, <2>2, <2>3
<1> QED BY <1>1, <1>4, <1>5, BalancedNone DEF Ledger

-----------------------------------------------------------------------------
(* The books in the state.                                                 *)

\* Rebuilds do not overlap: while one is under way the others are idle.
OneAtATime == \A v, w \in Rebuilders : v = w \/ Pc(v) = "idle" \/ Pc(w) = "idle"

\* What a rebuild that nobody overlaps has at each stage: it deletes the whole table, and
\* the lots it has made are in accounts that exist and keep the books of what it has
\* processed, which is one version of each transaction.
Working(w) ==
    /\ Pc(w) = "deleting" => Keys \subseteq Snap(w)
    /\ Pc(w) \in {"reading", "matching"} => Keys \subseteq Gone(w)
    /\ HasAccount(job[w].mine)
    /\ OneVersionEach(Read(w))
    /\ Pc(w) # "matching" => job[w].used = Zero /\ job[w].deferred = Zero
    /\ Pc(w) = "matching" =>
           Ledger(job[w].mine, Gen(w), Read(w), Read(w) \ Todo(w), job[w].used, job[w].deferred)
    /\ \A t \in Todo(w), u \in Read(w) \ Todo(w) : u.id < t.id

\* L are the lots that the last rebuild committed: they are sound and keep the books of
\* the transactions they were built from, and the table has those of the accounts that
\* have not been deleted since.
Basis(L, g) ==
    /\ SoundLots(L, seen)
    /\ Ledger(L, g, basis.read, basis.read, basis.used, basis.deferred)
    /\ table = {l \in L : l.acct \in accounts}
    /\ basis.whole => table = L

Committed ==
    /\ DOMAIN basis = {"read", "used", "deferred", "whole"}
    /\ \E L, g : Basis(L, g)

Settled == /\ accounts \subseteq Accounts /\ IsFiniteSet(seen) /\ OneVersionEach(stored)
           /\ Committed
           /\ \A w \in Rebuilders : Working(w)

\* A rebuild that is idle has nothing to show.
LEMMA IdleWorks ==
    ASSUME NEW w \in Rebuilders, job[w] = Idle
    PROVE  Working(w)
<1>1. Pc(w) = "idle" /\ Todo(w) = {} /\ Read(w) = {} /\ job[w].mine = {}
  BY IdleFields DEF Pc, Todo, Read
<1>2. job[w].used = Zero /\ job[w].deferred = Zero BY DEF Idle
<1> QED BY <1>1, <1>2 DEF Working, HasAccount, OneVersionEach

\* Nothing is committed at first.
LEMMA SettledFirst ==
    ASSUME Init
    PROVE  Settled
<1>1. /\ accounts = Accounts /\ IsFiniteSet(stored) /\ OneVersionEach(stored)
      /\ seen = stored /\ table = {}
      /\ basis = [read |-> {}, used |-> Zero, deferred |-> Zero, whole |-> TRUE]
      /\ \A w \in Rebuilders : job[w] = Idle
  BY DEF Init
<1>2. Ledger({}, None, {}, {}, Zero, Zero) /\ SoundLots({}, seen) BY LedgerNone, NoneSound
<1>3. Basis({}, None) BY <1>1, <1>2 DEF Basis
<1>4. Committed BY <1>1, <1>3 DEF Committed
<1> QED BY <1>1, <1>4, IdleWorks DEF Settled

\* A step that leaves the table alone leaves the other rebuilds alone.
LEMMA OthersWork ==
    ASSUME Shape, NEW w \in Rebuilders, NEW x, job' = [job EXCEPT ![w] = x], Settled,
           UNCHANGED <<accounts, stored, seen, table, basis>>, Working(w)'
    PROVE  Settled'
<1>1. Committed' BY DEF Settled, Committed, Basis
<1>2. ASSUME NEW v \in Rebuilders, v # w PROVE Working(v)'
  <2>1. job'[v] = job[v] BY <1>2 DEF Shape
  <2>2. Working(v) BY DEF Settled
  <2> QED BY <2>1, <2>2 DEF Working, HasAccount, Pc, Snap, Keys, Gone, Gen, Read, Todo
<1> QED BY <1>1, <1>2 DEF Settled

\* A rebuild that has become idle.
LEMMA IdleAgain ==
    ASSUME NEW w \in Rebuilders, job'[w] = Idle
    PROVE  Working(w)'
<1>1. Pc(w)' = "idle" /\ Todo(w)' = {} /\ Read(w)' = {} /\ job'[w].mine = {}
  BY IdleFields DEF Pc, Todo, Read
<1>2. job'[w].used = Zero /\ job'[w].deferred = Zero BY DEF Idle
<1> QED BY <1>1, <1>2 DEF Working, HasAccount, OneVersionEach

\* The rebuild gives up.
LEMMA EndSettled ==
    ASSUME Inv, NEW w \in Rebuilders, Settled, UNCHANGED <<accounts, stored, seen, table, basis>>,
           job' = [job EXCEPT ![w] = Idle]
    PROVE  Settled'
<1>1. job'[w] = Idle BY DEF Inv, IInv, Shape
<1>4. Working(w)' BY <1>1, IdleAgain
<1>5. Shape BY DEF Inv, IInv
<1> QED BY <1>4, <1>5, OthersWork

\* The DELETE begins.
LEMMA BeginSettled ==
    ASSUME Inv, NEW w \in Rebuilders, Settled, BeginDelete(w)
    PROVE  Settled'
<1>1. /\ Pc(w)' = "deleting" /\ Snap(w)' = Keys /\ Todo(w)' = {} /\ Read(w)' = {}
      /\ Keys' = Keys
  BY BeginStep DEF Inv, IInv
<1> DEFINE g == CHOOSE h \in Generations : h \notin TagsInUse
           x == [Idle EXCEPT !.pc = "deleting", !.snap = Ids(table), !.gen = g]
<1>2. job' = [job EXCEPT ![w] = x] /\ UNCHANGED <<accounts, stored, seen, table, basis>>
  BY Zenon DEF BeginDelete
<1> HIDE DEF g
<1>3. x.used = Zero /\ x.deferred = Zero /\ x.mine = {} BY DEF Idle
<1> HIDE DEF x
<1>4. job'[w] = x BY <1>2 DEF Inv, IInv, Shape
<1>5. Working(w)' BY <1>1, <1>3, <1>4 DEF Working, HasAccount, OneVersionEach
<1>6. Shape BY DEF Inv, IInv
<1> QED BY <1>2, <1>5, <1>6, OthersWork

\* It ends: all rows are gone.
LEMMA FinishSettled ==
    ASSUME Inv, NEW w \in Rebuilders, Settled, FinishDelete(w)
    PROVE  Settled'
<1>0. Working(w) /\ Gone(w) = {}
  <2>1. Pc(w) = "deleting" BY DEF FinishDelete, Pc
  <2> QED BY <2>1 DEF Settled, Inv, IInv, Stages
<1>1. /\ Pc(w) = "deleting" /\ Pc(w)' = "reading" /\ Gone(w)' = Snap(w) \cap Keys
      /\ Read(w)' = Read(w) /\ Todo(w)' = Todo(w) /\ Keys' = Keys
  BY <1>0, FinishStep DEF Inv, IInv
<1> DEFINE d == job[w].gone \cup (job[w].snap \cap Ids(table))
           x == [job[w] EXCEPT !.pc = "reading", !.gone = d]
<1>2. job' = [job EXCEPT ![w] = x] /\ UNCHANGED <<accounts, stored, seen, table, basis>>
  BY DEF FinishDelete
<1> HIDE DEF d
<1>3. x.used = job[w].used /\ x.deferred = job[w].deferred /\ x.mine = job[w].mine
  BY IdleFields DEF Inv, IInv, Shape
<1> HIDE DEF x
<1>4. job'[w] = x BY <1>2 DEF Inv, IInv, Shape
<1>5. Keys \subseteq Gone(w)' BY <1>0, <1>1 DEF Working
<1>6. job[w].used = Zero /\ job[w].deferred = Zero BY <1>0, <1>1 DEF Working
<1>7. \A t \in Todo(w)', u \in Read(w)' \ Todo(w)' : u.id < t.id
  BY <1>0, <1>1 DEF Working
<1>10. HasAccount(job[w].mine)' /\ OneVersionEach(Read(w))'
  BY <1>0, <1>1, <1>2, <1>3, <1>4 DEF Working, HasAccount, OneVersionEach
<1>8. Working(w)' BY <1>1, <1>3, <1>4, <1>5, <1>6, <1>7, <1>10 DEF Working
<1>9. Shape BY DEF Inv, IInv
<1> QED BY <1>2, <1>8, <1>9, OthersWork

\* The transactions are read, and no lot is made yet.
LEMMA ReadSettled ==
    ASSUME Inv, NEW w \in Rebuilders, Settled, ReadTransactions(w)
    PROVE  Settled'
<1>0. Working(w) BY DEF Settled
<1>1. /\ Pc(w) = "reading" /\ Pc(w)' = "matching" /\ Gone(w)' = Gone(w)
      /\ Read(w)' = stored /\ Todo(w)' = stored /\ Keys' = Keys
  BY ReadStep DEF Inv, IInv
<1> DEFINE x == [job[w] EXCEPT !.pc = "matching", !.read = stored, !.todo = stored]
<1>2. job' = [job EXCEPT ![w] = x] /\ UNCHANGED <<accounts, stored, seen, table, basis>>
  BY DEF ReadTransactions, Selected
<1>3. x.used = job[w].used /\ x.deferred = job[w].deferred /\ x.mine = job[w].mine
  BY IdleFields DEF Inv, IInv, Shape
<1> HIDE DEF x
<1>4. job'[w] = x BY <1>2 DEF Inv, IInv, Shape
<1>5. job'[w].used = Zero /\ job'[w].deferred = Zero BY <1>0, <1>1, <1>3, <1>4 DEF Working
<1>6. job'[w].mine = {}
  <2>1. Mine(w) = {} BY <1>1 DEF Inv, IInv, Stages
  <2>2. job[w].mine = {} BY <2>1 DEF Mine, Ids
  <2> QED BY <1>3, <1>4, <2>2
<1>7. Keys' \subseteq Gone(w)' BY <1>0, <1>1 DEF Working
<1>8. Read(w)' \ Todo(w)' = {} BY <1>1
<1>9. Ledger({}, Gen(w)', Read(w)', {}, Zero, Zero) BY LedgerNone
<1>10. Ledger(job'[w].mine, Gen(w)', Read(w)', Read(w)' \ Todo(w)',
              job'[w].used, job'[w].deferred)
  BY <1>5, <1>6, <1>8, <1>9
<1>13. HasAccount(job[w].mine)' /\ OneVersionEach(Read(w))'
  BY <1>1, <1>6 DEF Settled, HasAccount, OneVersionEach
<1>11. Working(w)' BY <1>1, <1>7, <1>8, <1>10, <1>13 DEF Working
<1>12. Shape BY DEF Inv, IInv
<1> QED BY <1>2, <1>11, <1>12, OthersWork

\* A rebuild that nobody overlaps sees the lots it has made.
LEMMA WholeView ==
    ASSUME NEW w \in Rebuilders, Keys \subseteq Gone(w)
    PROVE  View(w) = job[w].mine
<1>1. \A l \in table : l.id \in job[w].gone BY DEF Gone, Keys, Ids
<1> QED BY <1>1 DEF View

\* The books tell that a lot is of their rebuild.
LEMMA TagOf ==
    ASSUME NEW V, NEW g, NEW T, NEW P, Books(V, g, T, P), NEW l \in V
    PROVE  l.id[1] = g
BY DEF Books, Origin

\* A transaction is processed, and the books are kept.
LEMMA ProcessSettled ==
    ASSUME Inv, Sound, NEW w \in Rebuilders, Settled, ProcessTransaction(w)
    PROVE  Settled'
<1> DEFINE t == NextTransaction(w)
           g == Gen(w)
           V == job[w].mine
           R == Read(w)
           P == Read(w) \ Todo(w)
<1>0. Working(w) BY DEF Settled
<1>1. /\ seen \in SUBSET Transactions /\ R \in SUBSET seen
      /\ Todo(w) \subseteq R /\ Todo(w) \subseteq Transactions
  BY DEF Inv, IInv, Versions, Stages
<1>2. /\ t \in Todo(w)
      /\ \A u \in Todo(w) : u # t => t.id < u.id
  <2>1. Todo(w) # {} BY DEF ProcessTransaction, Todo
  <2> QED BY <1>1, <2>1, NextIsFirst
<1>3. PICK o \in StepOutcomes(w) :
        /\ UpdateWaitsFor(w, o.lots) = {}
        /\ HasAccount(o.lots)
        /\ job' = [job EXCEPT ![w].todo = @ \ {NextTransaction(w)},
                              ![w].mine = o.lots \ table,
                              ![w].used = Plus(@, o.used),
                              ![w].deferred = Plus(@, o.deferred)]
  BY Zenon DEF ProcessTransaction
<1> DEFINE u1 == Plus(job[w].used, o.used)
           f1 == Plus(job[w].deferred, o.deferred)
           M == o.lots \ table
           D == job[w].todo \ {t}
           x == [job[w] EXCEPT !.todo = D, !.mine = M, !.used = u1, !.deferred = f1]
<1>4. job' = [job EXCEPT ![w] = x] BY <1>3
<1>5. UNCHANGED <<accounts, stored, seen, table, basis>> BY Zenon DEF ProcessTransaction
<1>6. Pc(w) = "matching" BY DEF ProcessTransaction, Pc
<1>7. /\ Keys \subseteq Gone(w) /\ OneVersionEach(R)
      /\ Ledger(V, g, R, P, job[w].used, job[w].deferred)
      /\ \A s \in Todo(w), u \in P : u.id < s.id
  BY <1>0, <1>6 DEF Working
<1>8. View(w) = V BY <1>7, WholeView
<1>9. o \in Outcomes(V, R, t, g) BY <1>8 DEF StepOutcomes, Gen, Read
<1>10. x.todo = D /\ x.mine = M /\ x.used = u1 /\ x.deferred = f1 /\ x.pc = job[w].pc
       /\ x.gone = job[w].gone /\ x.gen = job[w].gen /\ x.read = job[w].read
       /\ D = Todo(w) \ {t}
  BY IdleFields DEF Inv, IInv, Shape, Todo
<1>11. SoundLots(V, seen) BY DEF Sound
<1> HIDE DEF t, x, M, D, u1, f1, g, V
<1>12. job'[w] = x BY <1>4 DEF Inv, IInv, Shape
<1>13. SoundLots(o.lots, seen) BY <1>1, <1>2, <1>9, <1>11, OutcomeSound
<1>14. Ledger(o.lots, g, R, P \cup {t}, u1, f1)
  <2>1. IsFiniteSet(R) BY <1>1, FS_Subset DEF Settled
  <2>2. R \subseteq seen /\ P \subseteq R /\ t \in R BY <1>1, <1>2
  <2>3. \A u \in P : u.id < t.id BY <1>2, <1>7
  <2> HIDE DEF R, P
  <2> QED BY <1>1, <1>7, <1>9, <1>11, <1>13, <2>1, <2>2, <2>3, LedgerKept DEF u1, f1
<1>15. M = o.lots
  <2>1. Books(o.lots, g, R, P \cup {t}) BY <1>14 DEF Ledger
  <2>2. \A l \in table : l.id[1] # g BY <1>6 DEF Inv, IInv, Fresh, Keys, Ids, g
  <2>3. \A l \in o.lots : l \notin table BY <2>1, <2>2, TagOf
  <2> QED BY <2>3 DEF M
<1>16. /\ Pc(w)' = "matching" /\ Keys' \subseteq Gone(w)' /\ Gen(w)' = g /\ Read(w)' = R
       /\ Todo(w)' = Todo(w) \ {t} /\ job'[w].mine = o.lots
       /\ job'[w].used = u1 /\ job'[w].deferred = f1
  <2>1. Pc(w)' = "matching" BY <1>6, <1>10, <1>12 DEF Pc
  <2>2. Keys' \subseteq Gone(w)' BY <1>5, <1>7, <1>10, <1>12 DEF Gone, Keys
  <2>3. Gen(w)' = g /\ Read(w)' = R /\ Todo(w)' = Todo(w) \ {t}
    BY <1>10, <1>12 DEF Gen, Read, Todo, g
  <2> QED BY <1>10, <1>12, <1>15, <2>1, <2>2, <2>3
<1>17. Read(w)' \ Todo(w)' = P \cup {t} BY <1>1, <1>2, <1>16
<1>18. ASSUME NEW s \in Todo(w)', NEW u \in Read(w)' \ Todo(w)' PROVE u.id < s.id
  <2>1. s \in Todo(w) /\ s # t BY <1>16
  <2>2. CASE u = t BY <1>2, <2>1, <2>2
  <2>3. CASE u \in P BY <1>7, <2>1, <2>3
  <2> QED BY <1>17, <2>2, <2>3
<1>19. Ledger(job'[w].mine, Gen(w)', Read(w)', Read(w)' \ Todo(w)',
              job'[w].used, job'[w].deferred)
  BY <1>14, <1>16, <1>17
<1> HIDE DEF R, P
<1>22. HasAccount(job[w].mine)' /\ OneVersionEach(Read(w))'
  BY <1>3, <1>5, <1>7, <1>16 DEF HasAccount, OneVersionEach, R
<1>20. Working(w)' BY <1>16, <1>18, <1>19, <1>22 DEF Working
<1>21. Shape BY DEF Inv, IInv
<1> QED BY <1>4, <1>5, <1>20, <1>21, OthersWork

\* The rebuild commits its lots, with its books.
LEMMA CommitSettled ==
    ASSUME Inv, Sound, OneAtATime, NEW w \in Rebuilders, Settled, Commit(w)
    PROVE  Settled'
<1>0. Working(w) BY DEF Settled
<1>1. /\ table' = View(w) /\ job' = [job EXCEPT ![w] = Idle]
      /\ UNCHANGED <<accounts, stored, seen>>
      /\ basis' = [read |-> job[w].read, used |-> job[w].used, deferred |-> job[w].deferred,
                   whole |-> TRUE]
  BY DEF Commit
<1>2. Pc(w) = "matching" /\ Todo(w) = {} BY DEF Commit, Pc, Todo
<1>3. /\ Keys \subseteq Gone(w) /\ HasAccount(job[w].mine)
      /\ Ledger(job[w].mine, Gen(w), Read(w), Read(w) \ Todo(w), job[w].used, job[w].deferred)
  BY <1>0, <1>2 DEF Working
<1>4. table' = job[w].mine BY <1>1, <1>3, WholeView
<1>5. /\ basis'.read = Read(w) /\ basis'.used = job[w].used /\ basis'.deferred = job[w].deferred
      /\ DOMAIN basis' = {"read", "used", "deferred", "whole"}
  BY <1>1 DEF Read
<1>6. Read(w) \ Todo(w) = Read(w) BY <1>2
<1>7. Ledger(table', Gen(w), basis'.read, basis'.read, basis'.used, basis'.deferred)
  BY <1>3, <1>4, <1>5, <1>6
<1>8. SoundLots(table', seen') BY <1>1, <1>4 DEF Sound
<1>13. table' = {l \in table' : l.acct \in accounts'} BY <1>1, <1>3, <1>4 DEF HasAccount
<1>14. PICK L, g : L = table' /\ g = Gen(w) OBVIOUS
<1>15. Basis(L, g)' BY <1>7, <1>8, <1>13, <1>14 DEF Basis
<1>9. Committed' BY <1>5, <1>15 DEF Committed
<1>10. job'[w] = Idle BY <1>1 DEF Inv, IInv, Shape
<1>11. Working(w)' BY <1>10, IdleAgain
<1>12. ASSUME NEW v \in Rebuilders, v # w PROVE Working(v)'
  <2>1. job'[v] = job[v] BY <1>1, <1>12 DEF Inv, IInv, Shape
  <2>2. Pc(v) = "idle" BY <1>2, <1>12 DEF OneAtATime
  <2>3. Pc(v)' = "idle" /\ Todo(v)' = Todo(v) /\ Read(v)' = Read(v)
    BY <2>1, <2>2 DEF Pc, Todo, Read
  <2>4. Working(v) BY DEF Settled
  <2> QED BY <1>1, <2>1, <2>2, <2>3, <2>4 DEF Working, HasAccount, OneVersionEach
<1> QED BY <1>1, <1>9, <1>11, <1>12 DEF Settled

\* A sync leaves the books alone.
LEMMA SyncSettled ==
    ASSUME Settled, UNCHANGED <<accounts, table, job, basis>>, seen \subseteq seen',
           IsFiniteSet(seen'), OneVersionEach(stored')
    PROVE  Settled'
<1>1. Committed'
  <2>1. PICK L, g : Basis(L, g) BY DEF Settled, Committed
  <2>2. SoundLots(L, seen') BY <2>1, MoreStored DEF Basis
  <2>3. Basis(L, g)' BY <2>1, <2>2 DEF Basis
  <2> QED BY <2>3 DEF Settled, Committed
<1>2. ASSUME NEW w \in Rebuilders PROVE Working(w)'
  <2>1. Working(w) BY DEF Settled
  <2> QED BY <2>1 DEF Working, HasAccount, Pc, Snap, Keys, Gone, Gen, Read, Todo
<1> QED BY <1>1, <1>2 DEF Settled

\* The deletion of an account takes its lots, and no rebuild has made any of them.
LEMMA DeleteSettled ==
    ASSUME Settled, NEW a \in Accounts, DeleteAccount(a)
    PROVE  Settled'
<1>1. /\ accounts' = accounts \ {a} /\ stored' \subseteq stored /\ seen' = seen /\ job' = job
      /\ table' = {l \in table : l.acct # a} /\ basis' = [basis EXCEPT !.whole = FALSE]
      /\ \A w \in Rebuilders : \A l \in job[w].mine : l.acct # a
  BY DEF DeleteAccount
<1>2. DOMAIN basis = {"read", "used", "deferred", "whole"} BY DEF Settled, Committed
<1>3. /\ basis'.read = basis.read /\ basis'.used = basis.used
      /\ basis'.deferred = basis.deferred /\ basis'.whole = FALSE /\ DOMAIN basis' = DOMAIN basis
  BY <1>1, <1>2
<1>4. Committed'
  <2>1. PICK L, g : Basis(L, g) BY DEF Settled, Committed
  <2>2. table' = {l \in L : l.acct \in accounts'} BY <1>1, <2>1 DEF Basis
  <2>3. Basis(L, g)' BY <1>1, <1>3, <2>1, <2>2 DEF Basis
  <2> QED BY <1>2, <1>3, <2>3 DEF Committed
<1>5. OneVersionEach(stored') BY <1>1 DEF Settled, OneVersionEach
<1>6. Keys' \subseteq Keys BY <1>1 DEF Keys, Ids
<1>7. ASSUME NEW w \in Rebuilders PROVE Working(w)'
  <2>1. Working(w) BY DEF Settled
  <2>2. HasAccount(job[w].mine)' BY <1>1, <2>1 DEF Working, HasAccount
  <2> QED BY <1>1, <1>6, <2>1, <2>2 DEF Working, Pc, Snap, Gone, Gen, Read, Todo
<1> QED BY <1>1, <1>4, <1>5, <1>7 DEF Settled

\* Every step, while rebuilds do not overlap.
LEMMA SettledStep ==
    ASSUME OneAtATime, Inv, Sound, Settled, [Next]_vars
    PROVE  Settled'
<1>1. ASSUME NEW t \in Transactions, Store(t) PROVE Settled'
  <2>1. /\ stored' = stored \cup {t} /\ seen' = seen \cup {t} /\ \A u \in seen : u.row # t.row
        /\ UNCHANGED <<accounts, table, job, basis>>
    BY <1>1 DEF Store
  <2>2. stored \subseteq seen BY DEF Inv, IInv, Versions
  <2>3. OneVersionEach(stored') BY <2>1, <2>2 DEF Settled, OneVersionEach
  <2>4. IsFiniteSet(seen') BY <2>1, FS_AddElement DEF Settled
  <2> QED BY <2>1, <2>3, <2>4, SyncSettled
<1>4. ASSUME NEW t \in Transactions, NEW u \in Transactions, Change(t, u) PROVE Settled'
  <2>1. /\ stored' = (stored \ {t}) \cup {u} /\ seen' = seen \cup {u}
        /\ t \in stored /\ u.row = t.row
        /\ UNCHANGED <<accounts, table, job, basis>>
    BY <1>4 DEF Change
  <2>2. OneVersionEach(stored') BY <2>1 DEF Settled, OneVersionEach
  <2>3. IsFiniteSet(seen') BY <2>1, FS_AddElement DEF Settled
  <2> QED BY <2>1, <2>2, <2>3, SyncSettled
<1>5. ASSUME NEW a \in Accounts, DeleteAccount(a) PROVE Settled' BY <1>5, DeleteSettled
<1>2. ASSUME NEW w \in Rebuilders, Step(w) PROVE Settled'
  <2>1. CASE BeginDelete(w) BY <2>1, BeginSettled
  <2>2. CASE FinishDelete(w) BY <2>2, FinishSettled
  <2>3. CASE ReadTransactions(w) BY <2>3, ReadSettled
  <2>4. CASE ProcessTransaction(w) BY <2>4, ProcessSettled
  <2>5. CASE UniqueViolation(w)
    <3>1. job' = [job EXCEPT ![w] = Idle] /\ UNCHANGED <<accounts, stored, seen, table, basis>>
      BY <2>5, Zenon DEF UniqueViolation
    <3> QED BY <3>1, EndSettled
  <2>8. CASE ForeignKeyViolation(w)
    <3>1. job' = [job EXCEPT ![w] = Idle] /\ UNCHANGED <<accounts, stored, seen, table, basis>>
      BY <2>8, Zenon DEF ForeignKeyViolation
    <3> QED BY <3>1, EndSettled
  <2>6. CASE DeadlockVictim(w)
    <3>1. job' = [job EXCEPT ![w] = Idle] /\ UNCHANGED <<accounts, stored, seen, table, basis>>
      BY <2>6, Zenon DEF DeadlockVictim
    <3> QED BY <3>1, EndSettled
  <2>7. CASE Commit(w) BY <2>7, CommitSettled
  <2> QED BY <1>2, <2>1, <2>2, <2>3, <2>4, <2>5, <2>6, <2>7, <2>8, Zenon DEF Step
<1>3. CASE UNCHANGED vars
  <2>1. /\ stored' = stored /\ seen' = seen /\ UNCHANGED <<accounts, table, job, basis>>
    BY <1>3 DEF vars
  <2> QED BY <2>1, SyncSettled DEF Settled
<1> QED BY <1>1, <1>2, <1>3, <1>4, <1>5 DEF Next

\* Rebuilds that do not overlap keep the books.
LEMMA AlwaysSettled == Spec /\ []OneAtATime => [](Inv /\ Sound /\ Settled)
<1>1. Init => Settled BY SettledFirst
<1>2. OneAtATime /\ Inv /\ Sound /\ Settled /\ [Next]_vars => Settled' BY SettledStep
<1> QED BY <1>1, <1>2, Invariant, AlwaysSound, PTL DEF Spec

\* The units of the committed lots of an account that exists.
LEMMA CommittedUnits ==
    ASSUME NEW L, NEW g, Basis(L, g), NEW a \in Accounts
    PROVE  /\ Weighable(L) /\ Keyed(L)
           /\ UnitsIn(L, a, Nat) = Position(basis.read)[a]
           /\ a \in accounts => \A D : {l \in table : l.acct = a /\ l.acquired \in D}
                                        = {l \in L : l.acct = a /\ l.acquired \in D}
<1>2. Books(L, g, basis.read, basis.read) BY DEF Basis, Ledger
<1>3. Held(basis.read, basis.read) = [b \in Accounts |-> UnitsIn(L, b, Nat)]
  BY <1>2 DEF Books
<1>4. Position(basis.read)[a] = UnitsIn(L, a, Nat) BY <1>3 DEF Position
<1>5. Weighable(L) BY SoundWeighable DEF Basis
<1>6. table = {l \in L : l.acct \in accounts} BY DEF Basis
<1> QED BY <1>2, <1>4, <1>5, <1>6 DEF Books

\* Sales, transfers and quantity events neither lose nor invent units: as long as
\* rebuilds do not overlap, the units left in the committed lots of an account are
\* the position that its transactions make, however they are spread over lots.
THEOREM UnitsKept == Spec /\ []OneAtATime => []UnitsConserved
<1>1. Inv /\ Sound /\ Settled => UnitsConserved
  <2> SUFFICES ASSUME Inv, Sound, Settled, NEW a \in accounts
               PROVE  Remaining({l \in table : l.acct = a}) = Position(basis.read)[a]
    BY DEF UnitsConserved
  <2>4. a \in Accounts BY DEF Settled
  <2>0. PICK L, g : Basis(L, g) BY DEF Settled, Committed
  <2>1. /\ Weighable(L) /\ Keyed(L)
        /\ UnitsIn(L, a, Nat) = Position(basis.read)[a]
        /\ {l \in table : l.acct = a /\ l.acquired \in Nat}
              = {l \in L : l.acct = a /\ l.acquired \in Nat}
    BY <2>0, <2>4, CommittedUnits
  <2>2. {l \in table : l.acct = a} = {l \in table : l.acct = a /\ l.acquired \in Nat}
    BY <2>0, <2>1 DEF Keyed, Basis
  <2>3. Remaining({l \in L : l.acct = a /\ l.acquired \in Nat}) = UnitsIn(L, a, Nat)
    BY <2>1, RemainingIs
  <2> QED BY <2>1, <2>2, <2>3
<1> QED BY <1>1, AlwaysSettled, PTL

\* First in, first out: as long as rebuilds do not overlap, the lots acquired up to
\* any day hold what was bought until then less everything that was sold, in an
\* account without transfers and quantity events.
THEOREM FirstInFirstOut == Spec /\ []OneAtATime => []FifoExact
<1>1. Inv /\ Sound /\ Settled => FifoExact
  <2> SUFFICES ASSUME Inv, Sound, Settled, NEW a \in accounts,
                      \A t \in basis.read : t.kind \in {"transfer", "quantity_event"} => t.acct # a,
                      NEW d \in {l.acquired : l \in table}
               PROVE  Remaining({l \in table : l.acct = a /\ l.acquired <= d})
                        = Greater(Zero, Minus(Units({t \in PurchasesIn(basis.read, a) : t.date <= d}),
                              Minus(Units(PurchasesIn(basis.read, a)), Position(basis.read)[a])))
    BY DEF FifoExact
  <2>5. a \in Accounts BY DEF Settled
  <2>0. PICK L, g : Basis(L, g) BY DEF Settled, Committed
  <2>1. /\ Weighable(L) /\ Keyed(L)
        /\ UnitsIn(L, a, Nat) = Position(basis.read)[a]
        /\ {l \in table : l.acct = a /\ l.acquired \in 0 .. d}
              = {l \in L : l.acct = a /\ l.acquired \in 0 .. d}
    BY <2>0, <2>5, CommittedUnits
  <2>2. table \subseteq L /\ d \in Nat BY <2>0, <2>1 DEF Keyed, Basis
  <2>3. {l \in table : l.acct = a /\ l.acquired <= d}
          = {l \in table : l.acct = a /\ l.acquired \in 0 .. d}
    BY <2>1, <2>2 DEF Keyed
  <2>4. Remaining({l \in L : l.acct = a /\ l.acquired \in 0 .. d}) = UnitsIn(L, a, 0 .. d)
    BY <2>1, RemainingIs
  <2>6. Plain(basis.read, a) BY DEF Plain
  <2>7. UnitsIn(L, a, 0 .. d)
          = Left(Units(BoughtBy(basis.read, a, d)),
                 Minus(Units(PurchasesIn(basis.read, a)), UnitsIn(L, a, Nat)))
    BY <2>0, <2>2, <2>5, <2>6 DEF Basis, Ledger, Spread
  <2> QED BY <2>1, <2>3, <2>4, <2>7 DEF Left, BoughtBy
<1> QED BY <1>1, AlwaysSettled, PTL

\* What was paid for units is used by a sale or still the basis of an open lot, and
\* beyond it there is at most the disallowed loss of wash sales, as long as rebuilds
\* do not overlap.
THEOREM BasisKept == Spec /\ []OneAtATime => []BasisConserved
<1>1. Inv /\ Sound /\ Settled => BasisConserved
  <2> SUFFICES ASSUME Inv, Sound, Settled, basis.whole PROVE BasisConserved
    BY DEF BasisConserved
  <2> DEFINE paid == Total([t \in {u \in basis.read : u.kind = "purchase" /\ u.qty # Zero}
                               |-> t.amount])
             open == Total([l \in {k \in table : IsOpen(k)} |-> Times(l.rem, l.unit)])
             added == Minus(Plus(open, basis.used), paid)
  <2>1. paid = Paid(basis.read) BY DEF Paid
  <2>2. SoundLots(table, seen) BY DEF Sound
  <2>3. open = BasisIn(table) BY <2>2, OpenBasis
  <2>4. PICK g : Ledger(table, g, basis.read, basis.read, basis.used, basis.deferred)
    BY DEF Settled, Committed, Basis
  <2>5. PICK x : /\ NonNeg(x) /\ AtMost(x, basis.deferred)
                 /\ Plus(BasisIn(table), basis.used) = Plus(Paid(basis.read), x)
    BY <2>4 DEF Ledger, Balanced
  <2>6. basis.read \in SUBSET Transactions /\ IsFiniteSet(basis.read)
    BY FS_Subset DEF Settled, Inv, IInv, Versions
  <2>7. IsFraction(paid) BY <2>1, <2>6, PaidGrows
  <2> HIDE DEF paid, open
  <2>8. added = Minus(Plus(paid, x), paid) BY <2>1, <2>3, <2>5
  <2>9. IsFraction(x) BY <2>5 DEF NonNeg
  <2>10. Plus(paid, x) = Plus(x, paid) BY <2>7, <2>9, PlusSwap
  <2>11. Minus(Plus(x, paid), paid) = x BY <2>7, <2>9, MinusPlus
  <2>12. added = x BY <2>8, <2>10, <2>11
  <2> HIDE DEF added
  <2>13. AtMost(Zero, added) /\ AtMost(added, basis.deferred) BY <2>5, <2>12 DEF NonNeg
  <2> QED BY <2>13, Zenon DEF BasisConserved, paid, open, added
<1> QED BY <1>1, AlwaysSettled, PTL
=============================================================================
