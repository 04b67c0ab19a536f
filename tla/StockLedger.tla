----------------------------- MODULE StockLedger -----------------------------
(***************************************************************************)
(* What the inventory promises its clients: every request acts at once on  *)
(* the whole stock, and the ledger moves with it.  A consumption takes the *)
(* quantity asked for, from the lots that expire first; it never takes a   *)
(* part from a lot while an earlier one still holds something.             *)
(***************************************************************************)
EXTENDS Integers, FiniteSetsExt

CONSTANTS Lots, MatIds, Quantities, Dues, NoLot

VARIABLES stock, ledger

Present == {l \in Lots : stock[l] # NoLot}
Earlier(a, b) == \/ stock[a].due < stock[b].due
                 \/ stock[a].due = stock[b].due /\ a < b

Receive(l, m, q, d) ==
    /\ l \notin Present
    /\ stock' = [stock EXCEPT ![l] = [mat |-> m, qty |-> q, due |-> d]]
    /\ ledger' = [ledger EXCEPT ![l] = q]

\* take says how much leaves each lot.
Withdraw(take) ==
    /\ stock' = [l \in Lots |-> IF l \in Present
                                THEN [stock[l] EXCEPT !.qty = @ - take[l]] ELSE NoLot]
    /\ ledger' = [l \in Lots |-> ledger[l] - take[l]]

EarliestFirst(m, take) ==
    \A a, b \in {l \in Present : stock[l].mat = m /\ stock[l].qty > 0} :
        Earlier(a, b) /\ take[b] > 0 => take[a] = stock[a].qty

Consume(m, q) ==
    LET Of(l) == IF l \in Present /\ stock[l].mat = m /\ stock[l].qty > 0
                 THEN stock[l].qty ELSE 0
    IN  \E take \in [Lots -> 0..q] :
           /\ \A l \in Lots : take[l] <= Of(l)
           /\ SumFunction(take) = q
           /\ EarliestFirst(m, take)
           /\ Withdraw(take)

\* A stock-taking: whatever the lot held, it now holds q.
Count(l, q) ==
    /\ l \in Present
    /\ stock' = [stock EXCEPT ![l].qty = q]
    /\ ledger' = [ledger EXCEPT ![l] = @ + q - stock[l].qty]

\* Any stock, with a ledger that explains it.
Init == ledger = [l \in Lots |-> IF stock[l] = NoLot THEN 0 ELSE stock[l].qty]

Next == \/ \E l \in Lots, m \in MatIds, q \in Quantities, d \in Dues : Receive(l, m, q, d)
        \/ \E m \in MatIds, q \in {x \in Quantities : x > 0} : Consume(m, q)
        \/ \E l \in Lots, q \in {x \in Quantities : x >= 0} \cup {0} : Count(l, q)

Spec == Init /\ [][Next]_<<stock, ledger>>
=============================================================================
