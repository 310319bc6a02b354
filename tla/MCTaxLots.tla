----------------------------- MODULE MCTaxLots -----------------------------
\* Transactions for the runs of TaxLots: two accounts of one security.
EXTENDS TaxLots

CONSTANTS a, b, x

Item(id, date, kind, acct, qty, amount) ==
    [id |-> id, row |-> id, date |-> date, kind |-> kind, acct |-> acct, qty |-> Whole(qty),
     amount |-> Whole(amount), outbound |-> FALSE, ref |-> None, ratio |-> None]

Buy(id, date, acct, qty, amount) == Item(id, date, "purchase", acct, qty, amount)

Sell(id, date, acct, qty, amount) == Item(id, date, "sale", acct, qty, amount)

Out(id, date, acct, qty) == [Item(id, date, "transfer", acct, qty, 1) EXCEPT
                                !.outbound = TRUE, !.ref = x]

In(id, date, acct, qty) == [Out(id, date, acct, qty) EXCEPT !.outbound = FALSE]

Event(id, date, acct, ratio) == [Item(id, date, "quantity_event", acct, 0, 0) EXCEPT
                                    !.ratio = ratio]

\* Another version of a row.
Version(row, t) == [t EXCEPT !.row = row]

\* Gains and losses, lots of one day, splits both ways, a paired transfer, an
\* outbound leg whose partner is its own account or missing, a purchase and an
\* event without their numbers.
Catalogue == {
    Buy(1, 1, a, 4, 8), Buy(2, 1, a, 2, 8), Buy(3, 2, b, 2, 2),
    Sell(4, 2, a, 3, 3), Out(5, 3, a, 2), In(6, 3, a, 2), In(7, 3, b, 2),
    Event(8, 3, a, Whole(2)), Sell(9, 4, b, 1, 5), Event(10, 4, b, Frac(1, 2)),
    Buy(11, 4, a, 0, 1), Sell(12, 5, a, 4, 6), Buy(13, 5, a, 1, 3),
    Sell(14, 6, a, 2, 1), Event(15, 6, a, None)}

\* An account is deleted when no more than three transactions have been stored.
MCSpec == Init /\ [][Next /\ (accounts' # accounts => Cardinality(seen) <= 3)]_vars

\* Two purchases, of which the first is given another day.
Few == {Buy(1, 1, a, 2, 2), Buy(2, 2, a, 1, 1), Version(1, Buy(3, 3, a, 2, 2))}

\* A row has the number of the version it is stored in first.
FirstVersionFirst == \A t \in seen' : \E u \in seen' : u.id = t.row

FewSpec == /\ Init /\ [][Next /\ FirstVersionFirst]_vars
           /\ \A w \in Rebuilders : SF_vars(Step(w))
=============================================================================
