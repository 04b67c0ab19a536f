----------------------------- MODULE MCInventory -----------------------------
(***************************************************************************)
(* Instances of Inventory for TLC.  Most runs start from the tables that   *)
(* earlier requests left behind, so that a few concurrent requests meet    *)
(* several lots at once.                                                   *)
(***************************************************************************)
EXTENDS Inventory, TLC

CONSTANTS p1, p2, m1, m2, rice

TwoProcs == {p1, p2}
OneMat == {m1}
TwoMats == {m1, m2}
OneName == {rice}
AnyQuantities == {-1, 0, 1, 3}
NonZeroQuantities == {-1, 1, 3}

\* One material with two lots; the younger lot expires first.
Stocked(l) == CASE l = 1 -> [mat |-> m1, qty |-> 1, status |-> "active", due |-> 2]
                [] l = 2 -> [mat |-> m1, qty |-> 2, status |-> "active", due |-> 1]
                [] OTHER -> NoRow

StockedInit ==
    /\ mats = [m \in MatIds |-> IF m = m1 THEN rice ELSE NoName]
    /\ lots = [l \in Lots |-> Stocked(l)]
    /\ ledger = [l \in Lots |-> IF Stocked(l) = NoRow THEN 0 ELSE Stocked(l).qty]
    /\ AllIdle

StockedSpec == StockedInit /\ [][Next]_vars
StartSpec == (Init \/ StockedInit) /\ [][Next]_vars
StockedFairSpec == StockedSpec /\ \A p \in Procs : WF_vars(Step(p))

Sym == Permutations(Procs)
=============================================================================
