------------------------------ MODULE HomeView ------------------------------
(***************************************************************************)
(* The home page (web/src/pages/home, web/src/hooks/useDashboardStats.ts):  *)
(* three lists are loaded once and summed up in one loop over the materials.*)
(***************************************************************************)
EXTENDS InventoryView

VARIABLE home      \* the page's state: the statistics of the dashboard, or None

MountedHome == None

(* The server's list of materials with their stock, in its order *)

LotsInStock(m) == {l \in shelf : l.mat = m /\ l.qty > 0}

\* due counts the days left: 0 is expired, up to RemindDays is expiring.
Summary(m) ==
    [mat |-> m, cat |-> CatOf[m],
     quantity |-> SumFunction([l \in LotsInStock(m) |-> l.qty]),
     nearest |-> Min({l.due : l \in LotsInStock(m)})]

Summaries ==
    LET shown == {m \in Mats : Stocked(shelf, m)}
    IN [k \in 1 .. Cardinality(shown) |->
          Summary(CHOOSE m \in shown : Cardinality({n \in shown : n < m}) = k - 1)]

ServeStats(i) ==
    /\ Heard(i, "stats")
    /\ Handle(i, "ok", [rows |-> Summaries, asOf |-> Len(entries)])

(* Summing up *)

RemindDays == 3
Status(days) == IF days = 0 THEN "expired" ELSE IF days <= RemindDays THEN "expiring" ELSE "normal"

NoStats ==
    [quantity |-> 0, expiring |-> 0, expired |-> 0, normal |-> 0,
     byCat |-> [c \in {} |-> None]]

\* Mutant: a category that was met before starts again.
CountedAnew(stats, m) ==
    [stats EXCEPT !.quantity = @ + m.quantity,
                  ![Status(m.nearest)] = @ + 1,
                  !.byCat = [c \in DOMAIN @ \cup {m.cat} |->
                               IF c = m.cat THEN [quantity |-> m.quantity, count |-> 1]
                               ELSE @[c]]]
\* The body of the loop: the totals, the status and the material's category.
Counted(stats, m) ==
    [stats EXCEPT !.quantity = @ + m.quantity,
                  ![Status(m.nearest)] = @ + 1,
                  !.byCat = [c \in DOMAIN @ \cup {m.cat} |->
                               LET old == IF c \in DOMAIN @ THEN @[c]
                                          ELSE [quantity |-> 0, count |-> 0]
                               IN IF c = m.cat
                                  THEN [quantity |-> old.quantity + m.quantity,
                                        count |-> old.count + 1]
                                  ELSE old]]

\* The loop: what is summed up after k materials.
Stats(rows) ==
    LET after[k \in 0 .. Len(rows)] ==
          IF k = 0 THEN NoStats ELSE Counted(after[k - 1], rows[k])
    IN after[Len(rows)]

\* byCategory: the categories, the fullest first.
ByQuantity(byCat) ==
    LET cats == DOMAIN byCat
    IN CHOOSE bars \in [1 .. Cardinality(cats) -> cats] :
         /\ IsInjective(bars)
         /\ \A a, b \in DOMAIN bars :
              a < b => byCat[bars[a]].quantity >= byCat[bars[b]].quantity

\* The answer is dropped when the page is gone (cancelled).
StatsSettled(i) ==
    /\ Is(i, "stats") /\ calls[i].tab \in Tabs
    /\ \/ Good(i) /\ EndLoad(i, TRUE)
          /\ home' = IF Live(i)
                     THEN LET sums == Stats(calls[i].got.rows)
                          IN [totalMaterials |-> Len(calls[i].got.rows), sums |-> sums,
                              bars |-> ByQuantity(sums.byCat), asOf |-> calls[i].got.asOf]
                     ELSE home
       \/ Bad(i) /\ EndLoad(i, FALSE) /\ UNCHANGED home
=============================================================================
