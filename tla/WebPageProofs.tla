---------------------------- MODULE WebPageProofs ----------------------------
(***************************************************************************)
(* Theorems about the pages of the web front end, for every number of      *)
(* requests in flight, every stock and every start: the types of what they *)
(* hold, the forms, the table of the inventory page, the dashboard's sums, *)
(* the shopping list, one submission at a time, and that a page with       *)
(* nothing under way shows what it was asked.                              *)
(***************************************************************************)
EXTENDS WebProofs, SumProofs

USE WebCallsAssumption, InventoryViewAssumption, HistoryViewAssumption,
    SettingsViewAssumption, WebAppAssumption

(* The dashboard's loop *)

\* What the dashboard's loop has summed up after k materials.
Tallied(st, k) ==
    /\ st = [quantity |-> st.quantity, expiring |-> st.expiring, expired |-> st.expired,
             normal |-> st.normal, byCat |-> st.byCat]
    /\ st.quantity \in Int /\ st.expiring \in Nat /\ st.expired \in Nat /\ st.normal \in Nat
    /\ st.expiring + st.expired + st.normal = k
    /\ IsFiniteSet(DOMAIN st.byCat)
    /\ st.byCat \in [DOMAIN st.byCat -> [quantity : Int, count : Nat]]
    /\ SumFunction([c \in DOMAIN st.byCat |-> st.byCat[c].count]) = k
    /\ SumFunction([c \in DOMAIN st.byCat |-> st.byCat[c].quantity]) = st.quantity

\* The answer: a list of materials with their quantities.
SummedRows(rows) == Len(rows) \in Nat /\ \A k \in 1 .. Len(rows) : rows[k].quantity \in Int

LEMMA NothingTallied == Tallied(NoStats, 0)
<1> DEFINE n == [c \in {} |-> None]
<1>1. NoStats = [quantity |-> 0, expiring |-> 0, expired |-> 0, normal |-> 0, byCat |-> n]
  BY DEF NoStats
<1>2. DOMAIN n = {} /\ n \in [DOMAIN n -> [quantity : Int, count : Nat]]
  OBVIOUS
<1> HIDE DEF n
<1>3. \A f : DOMAIN f = {} => SumFunction(f) = 0
  BY SumEmpty DEF SumFunction
<1>4. IsFiniteSet({})
  BY FS_EmptySet
<1> QED BY <1>1, <1>2, <1>3, <1>4 DEF Tallied

\* Adding v to the term of c, be it new or not, adds v to the sum.
LEMMA SumAdd ==
  ASSUME NEW D, IsFiniteSet(D), NEW c, NEW f, DOMAIN f = D, \A x \in D : f[x] \in Int, NEW v \in Int,
         NEW g, DOMAIN g = D \cup {c}, \A x \in D \ {c} : g[x] = f[x],
         g[c] = (IF c \in D THEN f[c] ELSE 0) + v
  PROVE  SumFunction(g) = SumFunction(f) + v
<1>0. PICK E : E = D \cup {c}  OBVIOUS
<1>1. SumFunction(f) = SumFunctionOnSet(f, D) /\ SumFunction(g) = SumFunctionOnSet(g, E)
  BY <1>0 DEF SumFunction
<1>2. SumFunctionOnSet(f, D) \in Int
  BY SumInt
<1>3. CASE c \in D
  <2>1. E = D /\ g[c] = f[c] + v /\ f[c] \in Int
    BY <1>0, <1>3
  <2>2. SumFunctionOnSet(g, D) = SumFunctionOnSet(f, D) + g[c] - f[c]
    BY <1>3, <2>1, SumUpdate
  <2>3. SumFunctionOnSet(g, D) = SumFunctionOnSet(f, D) + v
    BY <1>2, <2>1, <2>2
  <2> QED BY <1>1, <2>1, <2>3
<1>4. CASE c \notin D
  <2>2. IsFiniteSet(E) /\ E \ {c} = D /\ c \in E
    BY <1>0, <1>4, FS_AddElement
  <2>3. g[c] = v /\ \A x \in E : g[x] \in Int
    BY <1>0, <1>4
  <2>4. SumFunctionOnSet(g, E) = g[c] + SumFunctionOnSet(g, E \ {c})
    BY <2>2, <2>3, SumRemove
  <2>5. SumFunctionOnSet(g, D) = SumFunctionOnSet(f, D)
    BY <1>4, SumEqual
  <2>6. SumFunctionOnSet(g, E \ {c}) = SumFunctionOnSet(g, D)
    BY <2>2, Zenon
  <2>7. SumFunctionOnSet(g, E) = SumFunctionOnSet(f, D) + v
    BY <1>2, <2>3, <2>4, <2>5, <2>6
  <2> QED BY <1>1, <2>7
<1> QED BY <1>3, <1>4

LEMMA CountedTallies ==
  ASSUME NEW k \in Nat, NEW st, Tallied(st, k), NEW m, m.quantity \in Int
  PROVE  Tallied(Counted(st, m), k + 1)
<1>1. PICK c, v, b, D : c = m.cat /\ v = m.quantity /\ b = st.byCat /\ D = DOMAIN b
  OBVIOUS
<1>2. PICK old : old = IF c \in D THEN b[c] ELSE [quantity |-> 0, count |-> 0]
  OBVIOUS
<1>3. PICK e : e = [x \in D \cup {c} |->
                      IF x = c THEN [quantity |-> old.quantity + v, count |-> old.count + 1]
                      ELSE IF x \in D THEN b[x] ELSE [quantity |-> 0, count |-> 0]]
  OBVIOUS
<1>4. v \in Int /\ IsFiniteSet(D) /\ b \in [D -> [quantity : Int, count : Nat]]
  BY <1>1 DEF Tallied
<1>5. old.quantity \in Int /\ old.count \in Nat
  BY <1>2, <1>4
<1>6. /\ DOMAIN e = D \cup {c} /\ IsFiniteSet(DOMAIN e)
      /\ e[c] = [quantity |-> old.quantity + v, count |-> old.count + 1]
      /\ \A x \in D \ {c} : e[x] = b[x]
  BY <1>3, <1>4, FS_AddElement
<1>7. e \in [DOMAIN e -> [quantity : Int, count : Nat]]
  BY <1>3, <1>4, <1>5, <1>6
<1>8. SumFunction([x \in DOMAIN e |-> e[x].quantity]) =
        SumFunction([x \in D |-> b[x].quantity]) + v
  <2>1. PICK f, g : f = [x \in D |-> b[x].quantity] /\ g = [x \in DOMAIN e |-> e[x].quantity]
    OBVIOUS
  <2>2. DOMAIN f = D /\ \A x \in D : f[x] = b[x].quantity /\ f[x] \in Int
    BY <1>4, <2>1
  <2>3. DOMAIN g = D \cup {c} /\ \A x \in D \cup {c} : g[x] = e[x].quantity
    BY <1>6, <2>1
  <2>4. g[c] = (IF c \in D THEN f[c] ELSE 0) + v
    BY <1>2, <1>6, <2>2, <2>3
  <2>5. \A x \in D \ {c} : g[x] = f[x]
    BY <1>6, <2>2, <2>3
  <2>6. SumFunction(g) = SumFunction(f) + v
    <3>1. v \in Int /\ IsFiniteSet(D)  BY <1>4
    <3>2. DOMAIN f = D /\ \A x \in D : f[x] \in Int  BY <2>2
    <3>3. DOMAIN g = D \cup {c}  BY <2>3
    <3> QED BY ONLY <3>1, <3>2, <3>3, <2>4, <2>5, SumAdd
  <2> QED BY <2>1, <2>6
<1>9. SumFunction([x \in DOMAIN e |-> e[x].count]) = SumFunction([x \in D |-> b[x].count]) + 1
  <2>1. PICK f, g : f = [x \in D |-> b[x].count] /\ g = [x \in DOMAIN e |-> e[x].count]
    OBVIOUS
  <2>2. DOMAIN f = D /\ \A x \in D : f[x] = b[x].count /\ f[x] \in Int
    BY <1>4, <2>1
  <2>3. DOMAIN g = D \cup {c} /\ \A x \in D \cup {c} : g[x] = e[x].count
    BY <1>6, <2>1
  <2>4. g[c] = (IF c \in D THEN f[c] ELSE 0) + 1
    BY <1>2, <1>6, <2>2, <2>3
  <2>5. \A x \in D \ {c} : g[x] = f[x]
    BY <1>6, <2>2, <2>3
  <2>6. SumFunction(g) = SumFunction(f) + 1
    <3>1. 1 \in Int /\ IsFiniteSet(D)  BY <1>4
    <3>2. DOMAIN f = D /\ \A x \in D : f[x] \in Int  BY <2>2
    <3>3. DOMAIN g = D \cup {c}  BY <2>3
    <3> QED BY ONLY <3>1, <3>2, <3>3, <2>4, <2>5, SumAdd
  <2> QED BY <2>1, <2>6
<1>10. PICK s : s = Status(m.nearest) /\ s \in {"expired", "expiring", "normal"}
  BY DEF Status
<1>11. PICK w : w = Counted(st, m)
  OBVIOUS
<1>12. PICK q, xg, xd, nm : st = [quantity |-> q, expiring |-> xg, expired |-> xd, normal |-> nm, byCat |-> b]
  BY <1>1 DEF Tallied
<1>13. /\ q \in Int /\ xg \in Nat /\ xd \in Nat /\ nm \in Nat /\ xg + xd + nm = k
       /\ SumFunction([x \in D |-> b[x].count]) = k
       /\ SumFunction([x \in D |-> b[x].quantity]) = q
  BY <1>1, <1>12 DEF Tallied
<1>14. w = [quantity |-> q + v, expiring |-> xg + (IF s = "expiring" THEN 1 ELSE 0),
            expired |-> xd + (IF s = "expired" THEN 1 ELSE 0),
            normal |-> nm + (IF s = "normal" THEN 1 ELSE 0), byCat |-> e]
  <2>1. w = [st EXCEPT !.quantity = @ + v, ![s] = @ + 1, !.byCat = e]
    <3>1. e = [x \in D \cup {c} |->
                 LET o == IF x \in D THEN b[x] ELSE [quantity |-> 0, count |-> 0]
                 IN IF x = c THEN [quantity |-> o.quantity + v, count |-> o.count + 1] ELSE o]
      BY <1>2, <1>3
    <3>2. st.byCat = b
      BY <1>1
    <3> QED BY <1>1, <1>10, <1>11, <1>12, <3>1, <3>2 DEF Counted
  <2>2. CASE s = "expired"
    <3>1. w = [st EXCEPT !.quantity = @ + v, !.expired = @ + 1, !.byCat = e]
      BY <2>1, <2>2
    <3>2. w = [quantity |-> q + v, expiring |-> xg, expired |-> xd + 1, normal |-> nm, byCat |-> e]
      BY ONLY <1>12, <3>1
    <3> QED BY ONLY <1>13, <2>2, <3>2
  <2>3. CASE s = "expiring"
    <3>1. w = [st EXCEPT !.quantity = @ + v, !.expiring = @ + 1, !.byCat = e]
      BY <2>1, <2>3
    <3>2. w = [quantity |-> q + v, expiring |-> xg + 1, expired |-> xd, normal |-> nm, byCat |-> e]
      BY ONLY <1>12, <3>1
    <3> QED BY ONLY <1>13, <2>3, <3>2
  <2>4. CASE s = "normal"
    <3>1. w = [st EXCEPT !.quantity = @ + v, !.normal = @ + 1, !.byCat = e]
      BY <2>1, <2>4
    <3>2. w = [quantity |-> q + v, expiring |-> xg, expired |-> xd, normal |-> nm + 1, byCat |-> e]
      BY ONLY <1>12, <3>1
    <3> QED BY ONLY <1>13, <2>4, <3>2
  <2> QED BY <1>10, <2>2, <2>3, <2>4
<1>15. w.byCat = e /\ w.quantity = q + v
  BY <1>14
<1>16. /\ w.expiring = xg + (IF s = "expiring" THEN 1 ELSE 0)
       /\ w.expired = xd + (IF s = "expired" THEN 1 ELSE 0)
       /\ w.normal = nm + (IF s = "normal" THEN 1 ELSE 0)
  BY <1>14
<1>17. w.expiring + w.expired + w.normal = k + 1
       /\ w.expiring \in Nat /\ w.expired \in Nat /\ w.normal \in Nat
  BY <1>10, <1>13, <1>16
<1>18. w.quantity \in Int
  BY <1>4, <1>13, <1>15
<1>19. w = [quantity |-> w.quantity, expiring |-> w.expiring, expired |-> w.expired,
            normal |-> w.normal, byCat |-> w.byCat]
  BY <1>14
<1> QED BY ONLY <1>6, <1>7, <1>8, <1>9, <1>11, <1>13, <1>15, <1>17, <1>18, <1>19 DEF Tallied

\* The recursion of the loop has a solution, since each step needs the one before.
Loop(rows, n, g) == g = [k \in 0 .. n |-> IF k = 0 THEN NoStats ELSE Counted(g[k - 1], rows[k])]

LEMMA LoopEnds ==
  ASSUME NEW rows, NEW n \in Nat
  PROVE  \E g : Loop(rows, n, g)
<1> DEFINE C == {k \in 0 .. n : ~ \E g : Loop(rows, k, g)}
<1> SUFFICES ASSUME C # {} PROVE FALSE
  OBVIOUS
<1>1. PICK m \in C : \A k \in C : m <= k
  <2>0. IsFiniteSet(0 .. n) /\ C \subseteq 0 .. n
    BY FS_Interval
  <2>1. C \subseteq Nat /\ IsFiniteSet(C)
    BY <2>0, FS_Subset
  <2> HIDE DEF C
  <2> QED BY <2>1, MinIn
<1>2. m \in 0 .. n /\ ~ \E g : Loop(rows, m, g)
  BY <1>1
<1>3. CASE m = 0
  <2>1. PICK g : g = [k \in 0 .. 0 |-> NoStats]  OBVIOUS
  <2>2. g = [k \in 0 .. 0 |-> IF k = 0 THEN NoStats ELSE Counted(g[k - 1], rows[k])]
    BY <2>1
  <2> QED BY <1>2, <1>3, <2>2 DEF Loop
<1>4. CASE m # 0
  <2>1. m - 1 \in 0 .. n /\ m - 1 \notin C
    BY <1>1, <1>2, <1>4
  <2>2. PICK g : Loop(rows, m - 1, g)
    BY <2>1
  <2>3. PICK h : h = [k \in 0 .. m |-> IF k = m THEN Counted(g[m - 1], rows[m]) ELSE g[k]]
    OBVIOUS
  <2>4. ASSUME NEW k \in 0 .. m
        PROVE  h[k] = IF k = 0 THEN NoStats ELSE Counted(h[k - 1], rows[k])
    <3>1. CASE k = 0
      <4>1. g[0] = NoStats
        BY <1>2, <1>4, <2>2 DEF Loop
      <4> QED BY <1>4, <2>3, <2>4, <3>1, <4>1
    <3>2. CASE k # 0
      <4>1. k - 1 \in 0 .. m - 1 /\ h[k - 1] = g[k - 1]
        BY <1>2, <2>3, <2>4, <3>2
      <4>2. CASE k = m
        BY <2>3, <2>4, <3>2, <4>1, <4>2
      <4>3. CASE k # m
        <5>1. k \in 0 .. m - 1 /\ h[k] = g[k]
          BY <1>2, <2>3, <2>4, <4>3
        <5>2. g[k] = Counted(g[k - 1], rows[k])
          BY <2>2, <3>2, <5>1 DEF Loop
        <5> QED BY <3>2, <4>1, <5>1, <5>2
      <4> QED BY <4>2, <4>3
    <3> QED BY <3>1, <3>2
  <2>5. h = [k \in 0 .. m |-> h[k]]
    BY <2>3
  <2>6. Loop(rows, m, h)
    BY <2>4, <2>5 DEF Loop
  <2> QED BY <1>2, <2>6
<1> QED BY <1>3, <1>4

LEMMA StatsTallied ==
  ASSUME NEW rows, SummedRows(rows)
  PROVE  Tallied(Stats(rows), Len(rows))
<1>1. PICK n \in Nat : n = Len(rows)
  BY DEF SummedRows
<1>2. PICK g : g = CHOOSE h : Loop(rows, n, h)
  OBVIOUS
<1>3. Stats(rows) = g[n]
  BY <1>1, <1>2 DEF Stats, Loop
<1>4. Loop(rows, n, g)
  BY <1>2, LoopEnds
<1>5. \A k \in 0 .. n : g[k] = IF k = 0 THEN NoStats ELSE Counted(g[k - 1], rows[k])
  BY <1>4 DEF Loop
<1> DEFINE C == {k \in 0 .. n : ~ Tallied(g[k], k)}
<1>6. C = {}
  <2> SUFFICES ASSUME C # {} PROVE FALSE
    OBVIOUS
  <2>1. PICK m \in C : \A k \in C : m <= k
    <3>1. IsFiniteSet(0 .. n)
      BY FS_Interval
    <3>2. C \subseteq 0 .. n
      OBVIOUS
    <3> HIDE DEF C
    <3>3. C \subseteq Nat /\ IsFiniteSet(C)
      <4>1. C \subseteq Nat  BY <3>2
      <4>2. IsFiniteSet(C)  BY ONLY <3>1, <3>2, FS_Subset
      <4> QED BY <4>1, <4>2
    <3> QED BY <3>3, MinIn
  <2>2. m \in 0 .. n /\ ~ Tallied(g[m], m)
    BY <2>1
  <2>3. m # 0
    BY <1>5, <2>2, NothingTallied
  <2>4. m - 1 \in 0 .. n /\ m - 1 \notin C
    BY <2>1, <2>2, <2>3
  <2>5. Tallied(g[m - 1], m - 1)
    BY <2>4
  <2>6. rows[m].quantity \in Int
    BY <1>1, <2>2, <2>3 DEF SummedRows
  <2>7. Tallied(Counted(g[m - 1], rows[m]), (m - 1) + 1)
    <3>1. m - 1 \in Nat  BY <2>4
    <3> QED BY <2>5, <2>6, <3>1, CountedTallies
  <2>8. (m - 1) + 1 = m /\ g[m] = Counted(g[m - 1], rows[m])
    BY <1>5, <2>2, <2>3
  <2> QED BY <2>2, <2>7, <2>8
<1>7. Tallied(g[n], n)
  BY <1>6
<1> QED BY <1>1, <1>3, <1>7

\* The bars exist, and are in order.
LEMMA BarsSorted ==
  ASSUME NEW k, NEW st, Tallied(st, k), NEW bars, bars = ByQuantity(st.byCat)
  PROVE  \A a, b \in 1 .. Len(bars) :
           a < b => st.byCat[bars[a]].quantity >= st.byCat[bars[b]].quantity
<1>1. PICK f, D : f = st.byCat /\ D = DOMAIN f
  OBVIOUS
<1>2. IsFiniteSet(D) /\ f \in [D -> [quantity : Int, count : Nat]]
  BY <1>1 DEF Tallied
<1>3. PICK q : q = [c \in D |-> f[c].quantity]
  OBVIOUS
<1>4. \A c \in D : q[c] = f[c].quantity /\ q[c] \in Int
  BY <1>2, <1>3
<1>5. PICK b \in [1 .. Cardinality(D) -> D] :
         IsInjective(b) /\ \A i, j \in DOMAIN b : i < j => q[b[i]] >= q[b[j]]
  BY <1>2, <1>4, SortedList
<1>6. \A i, j \in DOMAIN b : i < j => f[b[i]].quantity >= f[b[j]].quantity
  BY <1>4, <1>5
<1>7. /\ bars \in [1 .. Cardinality(D) -> D]
      /\ \A i, j \in DOMAIN bars : i < j => f[bars[i]].quantity >= f[bars[j]].quantity
  BY <1>1, <1>5, <1>6 DEF ByQuantity
<1>8. Len(bars) = Cardinality(D)
  <2>1. Cardinality(D) \in Nat  BY <1>2, FS_CardinalityType
  <2>2. bars \in Seq(D)  BY <1>7, <2>1
  <2> QED BY <1>7, <2>1, <2>2
<1>9. DOMAIN bars = 1 .. Len(bars)
  BY <1>7, <1>8
<1> QED BY <1>1, <1>7, <1>9

\* The server's answer is one the loop can sum up.
LEMMA SummariesSummed ==
  ASSUME shelf \in Shelves
  PROVE  SummedRows(Summaries)
<1>1. PICK shown : shown = {m \in Mats : Stocked(shelf, m)}
  OBVIOUS
<1>2. PICK n : n = Cardinality(shown)
  OBVIOUS
<1>3. n \in Nat
  BY <1>1, <1>2, FS_Subset, FS_CardinalityType
<1>4. ASSUME NEW m PROVE Summary(m).quantity \in Int
  <2>1. IsFiniteSet(LotsInStock(m)) /\ \A l \in LotsInStock(m) : l.qty \in Int
    <3>1. LotsInStock(m) \subseteq shelf  BY DEF LotsInStock
    <3> QED BY <3>1, FS_Subset
  <2>2. PICK f : f = [l \in LotsInStock(m) |-> l.qty]
    OBVIOUS
  <2>3. \A l \in LotsInStock(m) : f[l] \in Int
    BY <2>1, <2>2
  <2>4. SumFunctionOnSet(f, LotsInStock(m)) \in Int
    BY <2>1, <2>3, SumInt
  <2>5. SumFunction(f) = SumFunctionOnSet(f, LotsInStock(m))
    BY <2>2 DEF SumFunction
  <2> QED BY <2>2, <2>4, <2>5 DEF Summary
<1>5. PICK e : e = [k \in 1 .. n |-> CHOOSE m \in shown : Cardinality({x \in shown : x < m}) = k - 1]
  OBVIOUS
<1>6. Summaries = [k \in 1 .. n |-> Summary(e[k])]
  BY <1>1, <1>2, <1>5 DEF Summaries
<1>7. Len(Summaries) = n
  <2>1. Summaries \in Seq({Summary(e[k]) : k \in 1 .. n})
    BY <1>3, <1>6
  <2> QED BY <1>3, <1>6, <2>1
<1> QED BY <1>3, <1>4, <1>6, <1>7 DEF SummedRows

(* Types, and what is submitted for which row *)

Lots == UNION Shelves
RowIds == Mats \cup LotIds \cup {None}
Kinds == Dialogs \cup Listed
PageFns == {"load", "submit", "history", "stats", "list", "save", "delete", "test"}
Now == Len(entries)

InventoryType ==
    [filters : Filters, typed : Words \cup {NoWord},
     table : [mats : SUBSET Mats, lots : SUBSET Lots, of : Filters \cup {None}, asOf : Nat],
     selected : Mats \cup {None}, pageNo : Nat, details : BOOLEAN, dialog : Dialogs \cup {None},
     row : RowIds, fields : RowIds, submitting : SUBSET Dialogs]
HistoryType ==
    [filters : HistoryFilters, typed : Words \cup {NoWord}, word : Words \cup {NoWord},
     table : [moves : SUBSET Nat, logs : SUBSET Nat, of : HistoryFilters \cup {None}, asOf : Nat],
     selected : Nat \cup {None}]
SettingsType ==
    [section : Sections, rows : SUBSET Names, asOf : Nat, editing : Names \cup {New, None},
     fields : Names \cup {New, None}, saving : SUBSET Keys, deleting : Names \cup {None},
     testing : BOOLEAN]

\* What a request carries: the fields of a submission are those of its row.
SubmitOK(a) ==
    a.dialog \in Dialogs /\ a.of \in Filters /\ (a.dialog # "inbound" => a.fields = a.row)
SaveOK(a) ==
    /\ a.section \in Sections /\ a.key \in Keys /\ a.row \in Names \cup {New}
    /\ IF a.section = "password" THEN a.key = "form" ELSE a.fields \in Names
    /\ a.row # New => a.fields = a.row
ArgOK(fn, a) ==
    /\ fn = "load" => a.of \in Filters /\ a.after \in Dialogs \cup {None}
    /\ fn = "submit" => SubmitOK(a)
    /\ fn = "history" => a \in HistoryFilters
    /\ fn = "list" => a.section \in Listed /\ a.after \in Keys \cup {"deleted", None}
    /\ fn = "save" => SaveOK(a)
    /\ fn = "delete" => a.section \in Listed

\* What an answer holds: a list not older than the newest change is what the server
\* keeps, a change is known by its number.
Loaded(a, st, got) ==
    /\ got \in [rows : SUBSET Mats, details : SUBSET Lots, asOf : 0 .. Now]
    /\ got.asOf = Now => /\ st # "details" => got.rows = MatsOf(shelf, a.of)
                         /\ st # "rows" => got.details = LotsOf(shelf, a.of)
LoadedHistory(a, st, got) ==
    /\ got \in [rows : SUBSET (1 .. Now), details : SUBSET (1 .. Now), asOf : 0 .. Now]
    /\ got.asOf = Now => /\ st # "details" => got.rows = MovesOf(a)
                         /\ st # "rows" => got.details = LogsOf(a)
LoadedList(a, got) ==
    /\ got \in [rows : SUBSET Names, asOf : 0 .. Now]
    /\ got.asOf = Now => got.rows = items[a.section]
LoadedStats(got) ==
    /\ got.asOf \in 0 .. Now /\ SummedRows(got.rows)
    /\ got.asOf = Now => Len(got.rows) = Len(Summaries)
GotOK(fn, a, st, got) ==
    /\ fn = "load" /\ st \in {"rows", "details", "ok"} => Loaded(a, st, got)
    /\ fn = "history" /\ st \in {"rows", "details", "ok"} => LoadedHistory(a, st, got)
    /\ fn = "list" /\ st = "ok" => LoadedList(a, got)
    /\ fn = "stats" /\ st = "ok" => LoadedStats(got)
    /\ fn \in {"submit", "save", "delete"} /\ st = "ok" => got \in 0 .. Now

CallOK(c) ==
    /\ c.tab \in Tabs \cup {NoTab} /\ c.token \in Tokens /\ c.live \in BOOLEAN
    /\ c.newest \in BOOLEAN /\ c.state \in States
    /\ c.fn \in PageFns => c.tab \in {Here, NoTab}
    /\ ArgOK(c.fn, c.arg) /\ GotOK(c.fn, c.arg, c.state, c.got)
CallsOK == \A i \in CallIds : calls[i] # NoCall => CallOK(calls[i])

(* What the server keeps *)

ServerOK ==
    /\ entries \in Seq(Kinds) /\ shelf \in Shelves /\ items \in [Listed -> SUBSET Names]
    /\ mine \in 0 .. Now

\* Nothing changes, or one change more is recorded.
ServerMoves ==
    \/ UNCHANGED <<entries, shelf, items>>
    \/ entries' \in Seq(Kinds) /\ Now' = Now + 1

LEMMA NowTyped == ASSUME ServerOK PROVE Now \in Nat
  BY DEF ServerOK, Now

\* An answer of the past stays what it is.
LEMMA GotKept ==
  ASSUME ServerOK, ServerMoves, NEW fn, NEW a, NEW st, NEW got, GotOK(fn, a, st, got)
  PROVE  GotOK(fn, a, st, got)'
<1>1. CASE UNCHANGED <<entries, shelf, items>>
  <2>1. Now' = Now /\ MovesOf(a)' = MovesOf(a) /\ LogsOf(a)' = LogsOf(a)
    BY <1>1 DEF Now, MovesOf, LogsOf, Dated
  <2>2. Summaries' = Summaries
    BY <1>1 DEF Summaries, Summary, Stocked, LotsInStock
  <2> QED  BY <1>1, <2>1, <2>2 DEF GotOK, Loaded, LoadedHistory, LoadedList, LoadedStats
<1>2. CASE entries' \in Seq(Kinds) /\ Now' = Now + 1
  <2>1. Now \in Nat /\ Now' = Now + 1
    BY <1>2, NowTyped
  <2>2. Loaded(a, st, got) => Loaded(a, st, got)'
    BY <2>1 DEF Loaded
  <2>3. LoadedHistory(a, st, got) => LoadedHistory(a, st, got)'
    <3>1. 1 .. Now \subseteq 1 .. Now'
      BY <2>1
    <3> QED  BY <2>1, <3>1 DEF LoadedHistory
  <2>4. LoadedList(a, got) => LoadedList(a, got)'
    BY <2>1 DEF LoadedList
  <2>5. got \in 0 .. Now => got \in 0 .. Now'
    BY <2>1
  <2>6. LoadedStats(got) => LoadedStats(got)'
    BY <2>1 DEF LoadedStats
  <2> QED  BY <2>2, <2>3, <2>4, <2>5, <2>6 DEF GotOK
<1> QED  BY <1>1, <1>2 DEF ServerMoves

(* What a step does to the requests in flight *)

\* The request in slot i stays, or loses its readers or its place as the newest load.
Marked(i) ==
    /\ calls[i] # NoCall
    /\ calls'[i].tab \in {calls[i].tab, NoTab} /\ calls'[i].token = calls[i].token
    /\ calls'[i].fn = calls[i].fn /\ calls'[i].arg = calls[i].arg
    /\ calls'[i].state = calls[i].state /\ calls'[i].got = calls[i].got
    /\ calls'[i].live \in BOOLEAN /\ (calls'[i].live => calls[i].live)
    /\ calls'[i].newest \in BOOLEAN /\ (calls'[i].newest => calls[i].newest)
\* Nothing more happens to the slots other than k (to any slot, if k is 0).
Marks(k) == \A j \in CallIds : j # k => calls'[j] = NoCall \/ Marked(j)
\* Slot k takes a request of tab t.
Takes(k, t, fn, arg) ==
    /\ calls'[k].tab = t /\ calls'[k].token = stored
    /\ calls'[k].live \in BOOLEAN /\ calls'[k].newest \in BOOLEAN /\ calls'[k].state = "sent"
    /\ calls'[k].fn = fn /\ calls'[k].arg = arg

LEMMA MarksSame == ASSUME CallsOK, UNCHANGED calls PROVE Marks(0)
  BY DEF CallsOK, CallOK, Marks, Marked

LEMMA MarksDrop ==
  ASSUME Pool(calls), CallsOK, NEW i \in CallIds, Put(i, NoCall)
  PROVE  Marks(0) /\ calls'[i] = NoCall
  BY DEF Pool, CallsOK, CallOK, Marks, Marked, Put

LEMMA MarksSend ==
  ASSUME Pool(calls), CallsOK, NEW i \in CallIds, NEW t, NEW fn, NEW arg,
         Put(i, Request(t, fn, arg))
  PROVE  Marks(i) /\ Takes(i, t, fn, arg)
<1> DEFINE c == Request(t, fn, arg)
<1>1. /\ c.tab = t /\ c.fn = fn /\ c.token = stored /\ c.live = TRUE
      /\ c.newest = TRUE /\ c.arg = arg /\ c.state = "sent"
  BY DEF Request, Token
<1>2. calls' = [calls EXCEPT ![i] = c]
  BY DEF Put
<1> HIDE DEF c
<1>3. calls'[i] = c
  BY <1>2 DEF Pool
<1>4. Marks(i)
  BY <1>2 DEF Pool, CallsOK, CallOK, Marks, Marked
<1> QED  BY <1>1, <1>3, <1>4 DEF Takes

LEMMA MarksHandle ==
  ASSUME Pool(calls), CallsOK, NEW i \in CallIds, calls[i] # NoCall, NEW state, NEW got,
         Handle(i, state, got)
  PROVE  /\ Marks(i)
         /\ calls'[i].tab = calls[i].tab /\ calls'[i].token = calls[i].token
         /\ calls'[i].live = calls[i].live /\ calls'[i].newest = calls[i].newest
         /\ calls'[i].fn = calls[i].fn /\ calls'[i].arg = calls[i].arg
         /\ calls'[i].state = state /\ calls'[i].got = got
<1> DEFINE d == [calls[i] EXCEPT !.state = state, !.got = got]
<1>1. /\ d.tab = calls[i].tab /\ d.token = calls[i].token /\ d.live = calls[i].live
      /\ d.newest = calls[i].newest /\ d.fn = calls[i].fn /\ d.arg = calls[i].arg
      /\ d.state = state /\ d.got = got
  <2>1. IsCall(calls[i])  BY DEF Pool
  <2> QED  BY <2>1 DEF IsCall, Fields
<1>2. calls' = [calls EXCEPT ![i] = d]
  BY DEF Handle, Put
<1> HIDE DEF d
<1>3. calls'[i] = d
  BY <1>2 DEF Pool
<1>4. Marks(i)
  BY <1>2 DEF Pool, CallsOK, CallOK, Marks, Marked
<1> QED  BY <1>1, <1>3, <1>4

LEMMA MarksLoad ==
  ASSUME Pool(calls), CallsOK, NEW i \in CallIds, NEW c, calls' = WithLoad(i, c)
  PROVE  /\ Marks(i) /\ calls'[i] = c
         /\ \A j \in CallIds : j # i /\ Is(j, c.fn) => calls'[j].newest = FALSE
<1>1. ASSUME NEW j \in CallIds, j # i
      PROVE  Marked(j) \/ calls'[j] = NoCall
  <2>1. CASE Is(j, c.fn)
    <3> DEFINE d == [calls[j] EXCEPT !.newest = FALSE]
    <3>1. IsCall(calls[j]) /\ calls[j] # NoCall  BY <2>1 DEF Pool, Is
    <3>2. /\ d.tab = calls[j].tab /\ d.token = calls[j].token /\ d.live = calls[j].live
          /\ d.newest = FALSE /\ d.fn = calls[j].fn /\ d.arg = calls[j].arg
          /\ d.state = calls[j].state /\ d.got = calls[j].got
      BY <3>1 DEF IsCall, Fields
    <3>3. calls'[j] = d  BY <1>1, <2>1 DEF WithLoad
    <3> HIDE DEF d
    <3> QED  BY <3>1, <3>2, <3>3 DEF CallsOK, CallOK, Marked
  <2>2. CASE ~Is(j, c.fn)
    <3>1. calls'[j] = calls[j]  BY <1>1, <2>2 DEF WithLoad
    <3> QED  BY <3>1 DEF CallsOK, CallOK, Marked
  <2> QED  BY <2>1, <2>2
<1>2. calls'[i] = c
  BY DEF WithLoad
<1>3. ASSUME NEW j \in CallIds, j # i, Is(j, c.fn) PROVE calls'[j].newest = FALSE
  <2>1. calls'[j] = [calls[j] EXCEPT !.newest = FALSE] /\ IsCall(calls[j])
    BY <1>3 DEF WithLoad, Pool, Is
  <2> QED  BY <2>1 DEF IsCall, Fields
<1> QED
  BY <1>1, <1>2, <1>3 DEF Marks

LEMMA MarksBegin ==
  ASSUME Pool(calls), CallsOK, NEW i \in CallIds, NEW fn, NEW arg, BeginLoad(i, fn, arg)
  PROVE  /\ Marks(i) /\ Takes(i, Here, fn, arg) /\ calls[i] = NoCall
         /\ \A j \in CallIds : j # i /\ Is(j, fn) => calls'[j].newest = FALSE
<1> DEFINE c == Request(Here, fn, arg)
<1>1. /\ c.tab = Here /\ c.fn = fn /\ c.token = stored /\ c.live = TRUE
      /\ c.newest = TRUE /\ c.arg = arg /\ c.state = "sent"
  BY DEF Request, Token
<1>2. calls' = WithLoad(i, c) /\ calls[i] = NoCall
  BY DEF BeginLoad, Free
<1> HIDE DEF c
<1>3. /\ Marks(i) /\ calls'[i] = c
      /\ \A j \in CallIds : j # i /\ Is(j, fn) => calls'[j].newest = FALSE
  BY <1>1, <1>2, MarksLoad
<1> QED  BY <1>1, <1>2, <1>3 DEF Takes

\* The abandoned requests have no readers left.
LEMMA MarksRemount ==
  ASSUME Pool(calls), CallsOK, NEW load \in BOOLEAN, NEW fn, NEW arg, Remount(load, fn, arg)
  PROVE  \E k \in {0} \cup CallIds :
           /\ Marks(k) /\ (k \in CallIds => Takes(k, Here, fn, arg))
           /\ k \in CallIds <=> load
           /\ \A j \in CallIds : j # k /\ calls'[j] # NoCall /\ calls'[j].tab = Here =>
                                   calls'[j].live = FALSE /\ calls'[j].newest = FALSE
<1>1. ASSUME NEW j \in CallIds
      PROVE  /\ Abandoned[j] # NoCall =>
                  /\ calls[j] # NoCall
                  /\ Abandoned[j].tab = calls[j].tab /\ Abandoned[j].token = calls[j].token
                  /\ Abandoned[j].fn = calls[j].fn /\ Abandoned[j].arg = calls[j].arg
                  /\ Abandoned[j].state = calls[j].state /\ Abandoned[j].got = calls[j].got
                  /\ IF calls[j].tab = Here
                     THEN Abandoned[j].live = FALSE /\ Abandoned[j].newest = FALSE
                     ELSE /\ Abandoned[j].live = calls[j].live
                          /\ Abandoned[j].newest = calls[j].newest
  <2>1. CASE j \in Ours
    <3> DEFINE d == [calls[j] EXCEPT !.live = FALSE, !.newest = FALSE]
    <3>1. IsCall(calls[j]) /\ calls[j] # NoCall  BY <2>1 DEF Pool, Ours
    <3>2. /\ d.tab = calls[j].tab /\ d.token = calls[j].token /\ d.live = FALSE
          /\ d.newest = FALSE /\ d.fn = calls[j].fn /\ d.arg = calls[j].arg
          /\ d.state = calls[j].state /\ d.got = calls[j].got
      BY <3>1 DEF IsCall, Fields
    <3>3. Abandoned[j] = d  BY <2>1 DEF Abandoned
    <3>4. calls[j].tab = Here  BY <2>1 DEF Ours
    <3> HIDE DEF d
    <3> QED  BY <3>1, <3>2, <3>3, <3>4
  <2>2. CASE j \notin Ours
    BY <2>2 DEF Abandoned, Ours
  <2> QED  BY <2>1, <2>2
<1>2. ASSUME NEW j \in CallIds, calls'[j] = Abandoned[j]
      PROVE  /\ calls'[j] = NoCall \/ Marked(j)
             /\ calls'[j] # NoCall /\ calls'[j].tab = Here =>
                  calls'[j].live = FALSE /\ calls'[j].newest = FALSE
  <2>1. CASE calls[j].tab = Here
    BY <1>1, <1>2, <2>1 DEF Marked
  <2>2. CASE calls[j].tab # Here
    <3>1. calls[j] # NoCall => calls[j].live \in BOOLEAN /\ calls[j].newest \in BOOLEAN
      BY DEF CallsOK, CallOK
    <3>2. CASE calls[j] = NoCall \/ Abandoned[j] = NoCall
      BY <1>1, <1>2, <3>2
    <3>3. CASE calls[j] # NoCall /\ Abandoned[j] # NoCall
      BY ONLY <1>1, <1>2, <2>2, <3>1, <3>3, j \in CallIds DEF Marked
    <3> QED  BY <3>2, <3>3
  <2> QED  BY <2>1, <2>2
<1>3. CASE load
  <2>1. PICK i \in CallIds : calls' = [Abandoned EXCEPT ![i] = Request(Here, fn, arg)]
    BY <1>3 DEF Remount
  <2>2. \A j \in CallIds : j # i => calls'[j] = Abandoned[j]
    BY <2>1 DEF Abandoned
  <2>3. calls'[i] = Request(Here, fn, arg)
    BY <2>1 DEF Abandoned
  <2>4. Takes(i, Here, fn, arg)
    <3> DEFINE c == Request(Here, fn, arg)
    <3>1. /\ c.tab = Here /\ c.fn = fn /\ c.token = stored /\ c.live = TRUE
          /\ c.newest = TRUE /\ c.arg = arg /\ c.state = "sent" /\ calls'[i] = c
      BY <2>3 DEF Request, Token
    <3> HIDE DEF c
    <3> QED  BY <3>1 DEF Takes
  <2>5. Marks(i)
    BY <1>2, <2>2 DEF Marks
  <2>6. \A j \in CallIds : j # i /\ calls'[j] # NoCall /\ calls'[j].tab = Here =>
                             calls'[j].live = FALSE /\ calls'[j].newest = FALSE
    BY <1>2, <2>2
  <2> QED  BY <1>3, <2>4, <2>5, <2>6
<1>4. CASE ~load
  <2>1. \A j \in CallIds : calls'[j] = Abandoned[j]
    BY <1>4 DEF Remount
  <2>2. 0 \notin CallIds
    BY DEF CallIds
  <2>3. Marks(0)
    BY <1>2, <2>1 DEF Marks
  <2>4. \A j \in CallIds : calls'[j] # NoCall /\ calls'[j].tab = Here =>
                             calls'[j].live = FALSE /\ calls'[j].newest = FALSE
    BY <1>2, <2>1
  <2> QED  BY <1>4, <2>2, <2>3, <2>4
<1> QED  BY <1>3, <1>4

LEMMA MarksReload ==
  ASSUME Pool(calls), CallsOK, NEW i \in CallIds, calls[i] # NoCall, NEW fn, NEW arg,
         NEW current, Reload(i, fn, arg, current)
  PROVE  /\ Marks(i) /\ Takes(i, Here, fn, arg)
         /\ calls'[i].live = calls[i].live
         /\ calls'[i].newest => current /\ calls[i].newest
         /\ calls[i].live => \A j \in CallIds : j # i /\ Is(j, fn) => calls'[j].newest = FALSE
<1> DEFINE c == [Request(Here, fn, arg) EXCEPT !.live = calls[i].live,
                                              !.newest = calls[i].newest /\ current]
<1>1. /\ c.tab = Here /\ c.fn = fn /\ c.token = stored /\ c.live = calls[i].live
      /\ c.newest = (calls[i].newest /\ current) /\ c.arg = arg /\ c.state = "sent"
  BY DEF Request, Token
<1>2. calls' = IF calls[i].live THEN WithLoad(i, c) ELSE [calls EXCEPT ![i] = c]
  BY DEF Reload
<1>3. calls[i].live \in BOOLEAN /\ (calls[i].newest /\ current) \in BOOLEAN
  BY DEF CallsOK, CallOK
<1> HIDE DEF c
<1>4. CASE calls[i].live
  <2>1. /\ Marks(i) /\ calls'[i] = c
        /\ \A j \in CallIds : j # i /\ Is(j, fn) => calls'[j].newest = FALSE
    <3>1. calls' = WithLoad(i, c) /\ c.fn = fn
      BY <1>1, <1>2, <1>4
    <3> QED  BY <3>1, MarksLoad
  <2> QED  BY <1>1, <1>3, <2>1 DEF Takes
<1>5. CASE ~calls[i].live
  <2>1. calls'[i] = c  BY <1>2, <1>5 DEF Pool
  <2>2. Marks(i)
    BY <1>2, <1>5 DEF Pool, CallsOK, CallOK, Marks, Marked
  <2> QED  BY <1>1, <1>3, <1>5, <2>1, <2>2 DEF Takes
<1> QED  BY <1>4, <1>5

\* The requests of the old document of tab t have no reader; it may ask who it is.
LEMMA MarksOpen ==
  ASSUME Pool(calls), CallsOK, NEW t \in Tabs, NEW r, OpenTab(t, r),
         init \in [Tabs -> BOOLEAN]
  PROVE  \E k \in {0} \cup CallIds :
           /\ Marks(k) /\ (k \in CallIds => Takes(k, t, "me", stored))
           /\ k \in CallIds => init'[t] = FALSE
           /\ \A j \in CallIds : j # k /\ calls'[j] # NoCall => calls'[j].tab # t
<1>1. ASSUME NEW j \in CallIds
      PROVE  /\ Orphaned(t)[j] # NoCall =>
                  /\ calls[j] # NoCall
                  /\ Orphaned(t)[j].tab = IF calls[j].tab = t THEN NoTab ELSE calls[j].tab
                  /\ Orphaned(t)[j].token = calls[j].token
                  /\ Orphaned(t)[j].fn = calls[j].fn /\ Orphaned(t)[j].arg = calls[j].arg
                  /\ Orphaned(t)[j].state = calls[j].state /\ Orphaned(t)[j].got = calls[j].got
                  /\ Orphaned(t)[j].live = calls[j].live
                  /\ Orphaned(t)[j].newest = calls[j].newest
  <2>1. CASE calls[j] # NoCall /\ calls[j].tab = t
    <3> DEFINE d == [calls[j] EXCEPT !.tab = NoTab]
    <3>1. IsCall(calls[j]) /\ calls[j] # NoCall  BY <2>1 DEF Pool
    <3>2. /\ d.tab = NoTab /\ d.token = calls[j].token /\ d.live = calls[j].live
          /\ d.newest = calls[j].newest /\ d.fn = calls[j].fn /\ d.arg = calls[j].arg
          /\ d.state = calls[j].state /\ d.got = calls[j].got
      BY <3>1 DEF IsCall, Fields
    <3>3. Orphaned(t)[j] = d  BY <2>1 DEF Orphaned
    <3> HIDE DEF d
    <3> QED  BY <2>1, <3>1, <3>2, <3>3
  <2>2. CASE ~(calls[j] # NoCall /\ calls[j].tab = t)
    BY <2>2 DEF Orphaned
  <2> QED  BY <2>1, <2>2
<1>2. ASSUME NEW j \in CallIds, calls'[j] = Orphaned(t)[j]
      PROVE  /\ calls'[j] = NoCall \/ Marked(j)
             /\ calls'[j] # NoCall => calls'[j].tab # t
  <2>1. calls[j] # NoCall => calls[j].live \in BOOLEAN /\ calls[j].newest \in BOOLEAN
    BY DEF CallsOK, CallOK
  <2> QED  BY <1>1, <1>2, <2>1 DEF Marked
<1>3. CASE stored = NoToken
  <2>1. calls' = Orphaned(t)
    BY <1>3 DEF OpenTab, Initialize, Orphaned
  <2>2. \A j \in CallIds : calls'[j] = Orphaned(t)[j]
    BY <2>1
  <2>3. 0 \notin CallIds
    BY DEF CallIds
  <2> QED  BY <1>2, <2>2, <2>3 DEF Marks
<1>4. CASE stored # NoToken
  <2>1. PICK i \in CallIds : calls' = [Orphaned(t) EXCEPT ![i] = Request(t, "me", stored)]
    BY <1>4 DEF OpenTab, Initialize, Orphaned
  <2>2. \A j \in CallIds : j # i => calls'[j] = Orphaned(t)[j]
    BY <2>1 DEF Orphaned
  <2>3. calls'[i] = Request(t, "me", stored)
    BY <2>1 DEF Orphaned
  <2>4. Takes(i, t, "me", stored)
    <3> DEFINE c == Request(t, "me", stored)
    <3>1. /\ c.tab = t /\ c.fn = "me" /\ c.token = stored /\ c.live = TRUE
          /\ c.newest = TRUE /\ c.arg = stored /\ c.state = "sent" /\ calls'[i] = c
      BY <2>3 DEF Request, Token
    <3> HIDE DEF c
    <3> QED  BY <3>1 DEF Takes
  <2>5. init'[t] = FALSE
    BY <1>4 DEF OpenTab, Initialize
  <2> QED  BY <1>2, <2>2, <2>4, <2>5 DEF Marks
<1> QED  BY <1>3, <1>4

LEMMA CallsStay ==
  ASSUME ServerOK, CallsOK, ServerMoves, NEW k, Marks(k), k \in CallIds => CallOK(calls[k])'
  PROVE  CallsOK'
<1>1. ASSUME NEW j \in CallIds, Marked(j) PROVE CallOK(calls[j])'
  <2>1. PICK fn, a, st, got : /\ fn = calls[j].fn /\ a = calls[j].arg
                              /\ st = calls[j].state /\ got = calls[j].got
    OBVIOUS
  <2>2. calls'[j].fn = fn /\ calls'[j].arg = a /\ calls'[j].state = st /\ calls'[j].got = got
    BY <1>1, <2>1 DEF Marked
  <2>3. CallOK(calls[j])
    BY <1>1 DEF CallsOK, Marked
  <2>4. GotOK(fn, a, st, got)' /\ ArgOK(fn, a)
    BY <2>1, <2>3, GotKept DEF CallOK
  <2>5. GotOK(calls[j].fn, calls[j].arg, calls[j].state, calls[j].got)'
    BY <2>2, <2>4
  <2>6. ArgOK(calls[j].fn, calls[j].arg)'
    BY <2>2, <2>4
  <2> QED  BY <1>1, <2>1, <2>2, <2>3, <2>5, <2>6 DEF CallOK, Marked
<1> QED  BY <1>1 DEF CallsOK, Marks

LEMMA TakenOK ==
  ASSUME NEW k \in CallIds, NEW t \in Tabs, NEW fn, NEW arg, Takes(k, t, fn, arg),
         stored \in Tokens, ArgOK(fn, arg), fn \in PageFns => t = Here
  PROVE  CallOK(calls[k])'
<1>1. ArgOK(calls[k].fn, calls[k].arg)'
  BY DEF Takes
<1>2. GotOK(calls[k].fn, calls[k].arg, calls[k].state, calls[k].got)'
  BY DEF Takes, GotOK
<1> QED  BY <1>1, <1>2 DEF Takes, CallOK, States

LEMMA HandledOK ==
  ASSUME ServerOK, Pool(calls), CallsOK, ServerMoves, NEW i \in CallIds, calls[i] # NoCall,
         NEW state \in States, NEW got, Handle(i, state, got),
         NEW fn, fn = calls[i].fn, NEW a, a = calls[i].arg, GotOK(fn, a, state, got)'
  PROVE  CallsOK'
<1>1. /\ Marks(i)
      /\ calls'[i].tab = calls[i].tab /\ calls'[i].token = calls[i].token
      /\ calls'[i].live = calls[i].live /\ calls'[i].newest = calls[i].newest
      /\ calls'[i].fn = fn /\ calls'[i].arg = a
      /\ calls'[i].state = state /\ calls'[i].got = got
  BY MarksHandle
<1>2. GotOK(calls[i].fn, calls[i].arg, calls[i].state, calls[i].got)'
  BY <1>1
<1>3. ArgOK(calls[i].fn, calls[i].arg)'
  BY <1>1 DEF CallsOK, CallOK
<1>4. CallOK(calls[i])'
  BY <1>1, <1>2, <1>3 DEF CallsOK, CallOK
<1> QED  BY <1>1, <1>4, CallsStay

(* The session *)

SessionTypes ==
    /\ valid \subseteq 1 .. issued
    /\ init \in [Tabs -> BOOLEAN] /\ at \in [Tabs -> Routes]
    /\ query \in Words \cup {NoWord}
    /\ page \in Pages \cup {None} /\ loading \in BOOLEAN /\ fresh \in BOOLEAN

\* What the invariants of the requests rest on.
Base == TokenInv /\ CallsOK /\ ServerOK /\ SessionTypes

LEMMA StoredToken == ASSUME TokenInv PROVE Pool(calls) /\ stored \in Tokens
  BY DEF TokenInv, Tokens, Issued

LEMMA AuthTypes ==
  ASSUME SessionTypes, UNCHANGED <<authVars, page>>,
         loading' \in BOOLEAN, fresh' \in BOOLEAN
  PROVE  SessionTypes'
  BY DEF SessionTypes, authVars

LEMMA RedirectedTyped ==
  ASSUME SessionTypes, init' \in [Tabs -> BOOLEAN] PROVE Redirected \in [Tabs -> Routes]
  BY DEF SessionTypes, Redirected, Routes

LEMMA SessionClicksTyped ==
  ASSUME Base, SessionClicks, UNCHANGED sessionFrame
  PROVE  CallsOK' /\ SessionTypes'
<1>0. /\ Pool(calls) /\ CallsOK /\ ServerOK /\ SessionTypes /\ stored \in Tokens
      /\ ServerMoves /\ UNCHANGED page /\ 0 \notin CallIds
  BY StoredToken DEF Base, sessionFrame, dbVars, ServerMoves, CallIds
<1>1. CASE \E i \in CallIds : \E t \in Tabs :
             Poll(t, i) \/ \E right \in BOOLEAN : LoginSubmit(t, i, right)
  <2>1. PICK i \in CallIds, t \in Tabs :
           Poll(t, i) \/ \E right \in BOOLEAN : LoginSubmit(t, i, right)
    BY <1>1
  <2>2. PICK fn, arg : fn \in {"poll", "login"} /\ Put(i, Request(t, fn, arg))
    BY <2>1 DEF Poll, LoginSubmit
  <2>3. Marks(i) /\ Takes(i, t, fn, arg)
    BY <1>0, <2>2, MarksSend
  <2>4. CallOK(calls[i])'
    <3>1. ArgOK(fn, arg) /\ fn \notin PageFns  BY <2>2 DEF ArgOK, PageFns
    <3> QED  BY <1>0, <2>3, <3>1, TakenOK
  <2>5. UNCHANGED <<authVars, loading, fresh>>
    BY <2>1 DEF Poll, LoginSubmit
  <2>6. SessionTypes'
    BY <1>0, <2>5, AuthTypes DEF SessionTypes
  <2> QED  BY <1>0, <2>3, <2>4, <2>6, CallsStay
<1>2. CASE (\E t \in Tabs : Logout(t)) \/ TokensDie \/ (\E p \in Pages : Navigate(p))
           \/ (\E w \in Words : HeaderSearch(w))
  <2>1. UNCHANGED <<calls, loading, fresh, init, issued>>
    BY <1>2 DEF Logout, TokensDie, Navigate, HeaderSearch, callVars
  <2>2. valid' \subseteq valid
    BY <1>2 DEF Logout, TokensDie, Navigate, HeaderSearch
  <2>3. query' \in Words \cup {NoWord}
    BY <1>0, <1>2 DEF Logout, TokensDie, Navigate, HeaderSearch, SessionTypes
  <2>4. at' \in [Tabs -> Routes]
    <3>1. at' = at \/ \E t \in Tabs : \E r \in Routes : at' = [at EXCEPT ![t] = r]
      BY <1>2 DEF Logout, TokensDie, Navigate, HeaderSearch, Routes, Pages
    <3> QED  BY <1>0, <3>1 DEF SessionTypes
  <2>5. SessionTypes'
    BY <1>0, <2>1, <2>2, <2>3, <2>4 DEF SessionTypes
  <2>6. CallsOK'
    BY <1>0, <2>1, MarksSame, CallsStay
  <2> QED  BY <2>5, <2>6
<1> QED  BY <1>1, <1>2 DEF SessionClicks

(* The shopping list *)

Budgets == [{"clicks", "visits", "faults", "others"} -> Nat]

\* An item leaves the stored list only on the page, by another tab, or because it was
\* not there yet when the page read the list.
ListStep ==
    \A x \in storedItems \ storedItems' :
          \/ x \in TickedOff /\ TickedOff = {x}
          \/ page = "shopping" /\ x \notin shopping
          \/ bound'.others < bound.others

LEMMA Spent ==
  ASSUME bound \in Budgets, NEW what \in {"clicks", "visits", "faults", "others"}, Spend(what)
  PROVE  bound' \in Budgets /\ bound'[what] < bound[what]
  BY DEF Budgets, Spend

\* A step spends from a bound, or leaves it alone.
Spends == UNCHANGED bound \/ \E what \in {"clicks", "visits", "faults", "others"} : Spend(what)

LEMMA WorkSpends == ASSUME Work PROVE Spends
<1>1. CASE Render \/ Timer
  BY <1>1 DEF Render, Timer, Debounce, DebounceHistory, Spends
<1>2. ASSUME NEW i \in CallIds, Advance(i) PROVE Spends
  <2> USE DEF Good, Bad, Handle, HandleRows, HandleDetails
  <2>1. CASE SessionServes(i)
    BY <2>1 DEF SessionServes, ServeLogin, ServePlain, ServeRefused, Spends
  <2>2. CASE SessionSettles(i)
    BY <2>2 DEF SessionSettles, MeAnswered, MeFailed, LoginAnswered, Unauthorized, PlainSettled,
                Spends
  <2>3. CASE InventoryReads(i) \/ HistoryReads(i) \/ ServeStats(i) \/ SettingsReads(i)
    BY <2>3 DEF InventoryReads, ServeMaterials, ServeLots, HistoryReads, ServeMoves, ServeLogs,
                ServeStats, SettingsReads, ServeList, ServeTest, ServeUnrouted, Spends
  <2>4. CASE ServeSubmit(i) \/ SettingsChanges(i)
    BY <2>4 DEF ServeSubmit, SettingsChanges, ServeSave, ServeDelete, Spends
  <2>5. CASE InventorySettles(i) \/ HistorySettled(i) \/ StatsSettled(i)
    BY <2>5 DEF InventorySettles, LoadSettled, SubmitAnswered, SubmitFailed, HistorySettled,
                StatsSettled, Spends
  <2>6. CASE SettingsSettles(i)
    BY <2>6 DEF SettingsSettles, ListSettled, SaveAnswered, SaveFailed, DeleteAnswered,
                DeleteFailed, TestSettled, Spends
  <2> QED  BY <1>2, <2>1, <2>2, <2>3, <2>4, <2>5, <2>6 DEF Advance
<1> QED  BY <1>1, <1>2 DEF Work

LEMMA UsersSpend == ASSUME Users PROVE Spends
<1>1. CASE SessionClicks
  BY <1>1 DEF SessionClicks, Poll, LoginSubmit, Logout, TokensDie, Navigate, HeaderSearch, Spends
<1>2. CASE \E t \in Tabs, r \in Routes : OpenTab(t, r)
  BY <1>2 DEF OpenTab, Spends
<1>3. CASE \E r \in Routes : Reopen(r)
  BY <1>3 DEF Reopen, OpenTab, Spends
<1>4. CASE InventoryPage
  BY <1>4 DEF InventoryPage, Refresh, Submit, SetFilter, Type, TurnPage, ShowDetails, CloseDetails,
              Dismiss, OpenDialog, Spends
<1>5. CASE HistoryPage
  BY <1>5 DEF HistoryPage, RefreshHistory, FilterHistory, TypeHistory, OpenLog, CloseLog, Spends
<1>6. CASE SettingsPage
  BY <1>6 DEF SettingsPage, SaveForm, AddCategory, UpdateCategory, SaveCron, ChangePassword, Save,
              Delete, Test, ShowSection, StartEdit, EditCron, CancelEdit, Spends
<1>7. CASE ShoppingPage \/ (\E x \in Items : OtherTabSaves(x)) \/ OthersChange
  BY <1>7 DEF ShoppingPage, AddItem, ToggleItem, OtherTabSaves, OthersChange, Spends
<1> QED
  BY <1>1, <1>2, <1>3, <1>4, <1>5, <1>6, <1>7 DEF Users

\* Only the page and another tab save a list.
LEMMA WorkKeepsList == ASSUME Work PROVE UNCHANGED storedItems
<1>1. CASE Render
  BY <1>1 DEF Render, Blank, OpenList
<1>2. CASE Timer \/ \E i \in CallIds : Advance(i)
  BY <1>2 DEF Timer, Advance, viewFrame, sessionFrame
<1> QED  BY <1>1, <1>2 DEF Work

LEMMA UsersList == ASSUME Users, bound \in Budgets PROVE ListStep
<1>1. CASE UNCHANGED storedItems
  BY <1>1 DEF ListStep
<1>2. CASE \E r \in Routes : Reopen(r)
  <2>1. UNCHANGED storedItems
    BY <1>2 DEF Reopen, Blank, OpenList
  <2> QED  BY <1>1, <2>1
<1>3. CASE ShoppingPage
  BY <1>3 DEF ShoppingPage, AddItem, ToggleItem, Keep, On, ListStep, TickedOff
<1>4. CASE \E x \in Items : OtherTabSaves(x)
  BY <1>4, Spent DEF OtherTabSaves, ListStep
<1> QED
  BY <1>1, <1>2, <1>3, <1>4 DEF Users, sessionFrame, viewFrame

\* An item is not lost behind the user's back: the page saves its whole list after every
\* change, and the list it holds lacks only what was ticked off on it and what another
\* tab stored after the page was opened (useState(loadItems) and the saving effect).
THEOREM ShoppingListSurvivesCorrect == Spec => ShoppingListSurvives
<1>1. Init => bound \in Budgets
  BY WebAppAssumption DEF Init, Budgets
<1>2. bound \in Budgets /\ [Next]_vars => (bound \in Budgets)' /\ [ListStep]_vars
  <2> SUFFICES ASSUME bound \in Budgets, [Next]_vars PROVE (bound \in Budgets)' /\ [ListStep]_vars
    OBVIOUS
  <2>1. CASE UNCHANGED vars
    BY <2>1 DEF vars
  <2>2. CASE Next
    <3>1. Spends
      BY <2>2, WorkSpends, UsersSpend DEF Next
    <3>2. bound' \in Budgets
      BY <3>1, Spent DEF Spends
    <3>3. ListStep
      BY <2>2, WorkKeepsList, UsersList DEF Next, ListStep
    <3> QED  BY <3>2, <3>3
  <2> QED  BY <2>1, <2>2
<1>3. ShoppingListSurvives <=> [][ListStep]_vars
  BY DEF ShoppingListSurvives, ListStep
<1> QED  BY <1>1, <1>2, <1>3, PTL DEF Spec

(* The server's answers *)

\* What a call carries, as a fact about constants.
LEMMA CallTyped ==
  ASSUME CallsOK, NEW i \in CallIds, calls[i] # NoCall
  PROVE  CallOK(calls[i])
  BY DEF CallsOK

LEMMA MatsLots ==
  ASSUME ServerOK, NEW f
  PROVE  MatsOf(shelf, f) \subseteq Mats /\ LotsOf(shelf, f) \subseteq Lots
  BY DEF ServerOK, MatsOf, LotsOf, Lots

LEMMA MovesLogs ==
  ASSUME NEW f PROVE MovesOf(f) \subseteq 1 .. Now /\ LogsOf(f) \subseteq 1 .. Now
  BY DEF MovesOf, LogsOf, Dated, Now

LEMMA ReadsTyped ==
  ASSUME Pool(calls), CallsOK, ServerOK, NEW i \in CallIds,
         InventoryReads(i) \/ HistoryReads(i) \/ ServeStats(i) \/ SettingsReads(i),
         UNCHANGED <<entries, shelf, items>>
  PROVE  CallsOK'
<1>1. PICK fn, a, st, old : fn = calls[i].fn /\ a = calls[i].arg /\ st = calls[i].state
                            /\ old = calls[i].got
  OBVIOUS
<1>2. /\ calls[i] # NoCall /\ ServerMoves
      /\ MovesOf(a)' = MovesOf(a) /\ LogsOf(a)' = LogsOf(a) /\ Now' = Now /\ Now \in Nat
  <2>1. calls[i] # NoCall
    BY DEF InventoryReads, HistoryReads, SettingsReads, ServeMaterials, ServeLots, ServeMoves,
           ServeLogs, ServeStats, ServeList, ServeTest, ServeUnrouted, Unrouted, Heard, Is
  <2> QED  BY <2>1, NowTyped DEF ServerMoves, MovesOf, LogsOf, Dated, Now
<1>3. ArgOK(fn, a) /\ GotOK(fn, a, st, old)
  BY <1>1, <1>2, CallTyped DEF CallOK
<1>4. PICK state, got : state \in States /\ Handle(i, state, got) /\ GotOK(fn, a, state, got)'
  <2>1. CASE InventoryReads(i)
    <3>1. fn = "load"
      BY <1>1, <2>1 DEF InventoryReads, ServeMaterials, ServeLots, Heard, Is
    <3>2. /\ MatsOf(shelf, a.of)' = MatsOf(shelf, a.of) /\ LotsOf(shelf, a.of)' = LotsOf(shelf, a.of)
          /\ MatsOf(shelf, a.of) \subseteq Mats /\ LotsOf(shelf, a.of) \subseteq Lots
      BY MatsLots
    <3>3. CASE ServeMaterials(i)
      <4>1. CASE st = "sent"
        <5>1. PICK got : Handle(i, "rows", got)
                         /\ got = [rows |-> MatsOf(shelf, a.of), details |-> {}, asOf |-> Now]
          BY <1>1, <3>3, <4>1 DEF ServeMaterials, HandleRows, Now
        <5>2. Loaded(a, "rows", got)'
          BY <1>2, <3>2, <5>1 DEF Loaded
        <5> QED  BY <3>1, <5>1, <5>2 DEF GotOK, States
      <4>2. CASE st = "details"
        <5>1. PICK got : Handle(i, "ok", got) /\ got = [old EXCEPT !.rows = MatsOf(shelf, a.of)]
          BY <1>1, <3>3, <4>2 DEF ServeMaterials, HandleRows
        <5>2. Loaded(a, "details", old)
          BY <1>3, <3>1, <4>2 DEF GotOK
        <5>3. Loaded(a, "ok", got)'
          BY <1>2, <3>2, <5>1, <5>2 DEF Loaded
        <5> QED  BY <3>1, <5>1, <5>3 DEF GotOK, States
      <4> QED  BY <1>1, <3>3, <4>1, <4>2 DEF ServeMaterials, HandleRows
    <3>4. CASE ServeLots(i)
      <4>1. CASE st = "sent"
        <5>1. PICK got : Handle(i, "details", got)
                         /\ got = [rows |-> {}, details |-> LotsOf(shelf, a.of), asOf |-> Now]
          BY <1>1, <3>4, <4>1 DEF ServeLots, HandleDetails, Now
        <5>2. Loaded(a, "details", got)'
          BY <1>2, <3>2, <5>1 DEF Loaded
        <5> QED  BY <3>1, <5>1, <5>2 DEF GotOK, States
      <4>2. CASE st = "rows"
        <5>1. PICK got : Handle(i, "ok", got) /\ got = [old EXCEPT !.details = LotsOf(shelf, a.of)]
          BY <1>1, <3>4, <4>2 DEF ServeLots, HandleDetails
        <5>2. Loaded(a, "rows", old)
          BY <1>3, <3>1, <4>2 DEF GotOK
        <5>3. Loaded(a, "ok", got)'
          BY <1>2, <3>2, <5>1, <5>2 DEF Loaded
        <5> QED  BY <3>1, <5>1, <5>3 DEF GotOK, States
      <4> QED  BY <1>1, <3>4, <4>1, <4>2 DEF ServeLots, HandleDetails
    <3> QED  BY <2>1, <3>3, <3>4 DEF InventoryReads
  <2>2. CASE HistoryReads(i)
    <3>1. fn = "history"
      BY <1>1, <2>2 DEF HistoryReads, ServeMoves, ServeLogs, Heard, Is
    <3>2. MovesOf(a) \subseteq 1 .. Now /\ LogsOf(a) \subseteq 1 .. Now
      BY MovesLogs
    <3>3. CASE ServeMoves(i)
      <4>1. CASE st = "sent"
        <5>1. PICK got : Handle(i, "rows", got)
                         /\ got = [rows |-> MovesOf(a), details |-> {}, asOf |-> Now]
          BY <1>1, <3>3, <4>1 DEF ServeMoves, HandleRows, Now
        <5>2. LoadedHistory(a, "rows", got)'
          BY <1>2, <3>2, <5>1 DEF LoadedHistory
        <5> QED  BY <3>1, <5>1, <5>2 DEF GotOK, States
      <4>2. CASE st = "details"
        <5>1. PICK got : Handle(i, "ok", got) /\ got = [old EXCEPT !.rows = MovesOf(a)]
          BY <1>1, <3>3, <4>2 DEF ServeMoves, HandleRows
        <5>2. LoadedHistory(a, "details", old)
          BY <1>3, <3>1, <4>2 DEF GotOK
        <5>3. LoadedHistory(a, "ok", got)'
          BY <1>2, <3>2, <5>1, <5>2 DEF LoadedHistory
        <5> QED  BY <3>1, <5>1, <5>3 DEF GotOK, States
      <4> QED  BY <1>1, <3>3, <4>1, <4>2 DEF ServeMoves, HandleRows
    <3>4. CASE ServeLogs(i)
      <4>1. CASE st = "sent"
        <5>1. PICK got : Handle(i, "details", got)
                         /\ got = [rows |-> {}, details |-> LogsOf(a), asOf |-> Now]
          BY <1>1, <3>4, <4>1 DEF ServeLogs, HandleDetails, Now
        <5>2. LoadedHistory(a, "details", got)'
          BY <1>2, <3>2, <5>1 DEF LoadedHistory
        <5> QED  BY <3>1, <5>1, <5>2 DEF GotOK, States
      <4>2. CASE st = "rows"
        <5>1. PICK got : Handle(i, "ok", got) /\ got = [old EXCEPT !.details = LogsOf(a)]
          BY <1>1, <3>4, <4>2 DEF ServeLogs, HandleDetails
        <5>2. LoadedHistory(a, "rows", old)
          BY <1>3, <3>1, <4>2 DEF GotOK
        <5>3. LoadedHistory(a, "ok", got)'
          BY <1>2, <3>2, <5>1, <5>2 DEF LoadedHistory
        <5> QED  BY <3>1, <5>1, <5>3 DEF GotOK, States
      <4> QED  BY <1>1, <3>4, <4>1, <4>2 DEF ServeLogs, HandleDetails
    <3> QED  BY <2>2, <3>3, <3>4 DEF HistoryReads
  <2>3. CASE ServeList(i)
    <3>1. fn = "list" /\ a.section \in Listed
      BY <1>1, <1>3, <2>3 DEF ServeList, Heard, Is, ArgOK
    <3>2. PICK got : Handle(i, "ok", got) /\ got = [rows |-> items[a.section], asOf |-> Now]
      BY <1>1, <2>3 DEF ServeList, Now
    <3>3. LoadedList(a, got)'
      BY <1>2, <3>1, <3>2 DEF LoadedList, ServerOK
    <3> QED  BY <3>1, <3>2, <3>3 DEF GotOK, States
  <2>4. CASE ServeUnrouted(i)
    <3>1. Handle(i, "rejected", None)
      BY <2>4 DEF ServeUnrouted
    <3> QED  BY <3>1 DEF GotOK, States
  <2>5. CASE ServeTest(i)
    <3>1. fn = "test"
      BY <1>1, <2>5 DEF ServeTest, Heard, Is
    <3>2. \E state, got : state \in States /\ Handle(i, state, got)
      BY <2>5 DEF ServeTest, States
    <3> QED  BY <3>1, <3>2 DEF GotOK
  <2>6. CASE ServeStats(i)
    <3>1. fn = "stats"
      BY <1>1, <2>6 DEF ServeStats, Heard, Is
    <3>2. PICK got : Handle(i, "ok", got) /\ got = [rows |-> Summaries, asOf |-> Now]
      BY <2>6 DEF ServeStats, Now
    <3>3. SummedRows(got.rows) /\ got.rows = Summaries /\ got.asOf = Now
      BY <3>2, SummariesSummed DEF ServerOK
    <3>4. Summaries' = Summaries
      BY DEF Summaries, Summary, Stocked, LotsInStock
    <3>5. LoadedStats(got)'
      BY <1>2, <3>3, <3>4 DEF LoadedStats
    <3> QED  BY <3>1, <3>2, <3>5 DEF GotOK, States
  <2> QED  BY <2>1, <2>2, <2>3, <2>4, <2>5, <2>6 DEF SettingsReads
<1> QED  BY <1>1, <1>2, <1>4, HandledOK

\* A change is made, or not.
LEMMA ChangesTyped ==
  ASSUME Pool(calls), CallsOK, ServerOK, NEW i \in CallIds,
         \/ ServeSubmit(i) /\ UNCHANGED items
         \/ SettingsChanges(i) /\ UNCHANGED shelf
  PROVE  CallsOK' /\ ServerOK' /\ ServerMoves
<1>1. PICK fn, a : fn = calls[i].fn /\ a = calls[i].arg
  OBVIOUS
<1>2. /\ calls[i] # NoCall /\ Now \in Nat
      /\ fn = IF ServeSubmit(i) THEN "submit" ELSE IF ServeSave(i) THEN "save" ELSE "delete"
  BY <1>1, NowTyped DEF ServeSubmit, SettingsChanges, ServeSave, ServeDelete, Heard, Is
<1>3. ArgOK(fn, a)
  BY <1>1, <1>2, CallTyped DEF CallOK
<1>4. UNCHANGED mine
  BY DEF ServeSubmit, SettingsChanges, ServeSave, ServeDelete, Handle
<1>5. ASSUME NEW kind \in Kinds, entries' = Append(entries, kind)
      PROVE  entries' \in Seq(Kinds) /\ Now' = Now + 1 /\ Now' = Len(entries')
  BY <1>5 DEF ServerOK, Now
<1>6. CASE UNCHANGED <<entries, shelf, items>> /\ \E state, got :
             /\ state \in States /\ Handle(i, state, got)
             /\ state = "ok" => got = Now
  <2>1. PICK state, got : /\ state \in States /\ Handle(i, state, got)
                          /\ state = "ok" => got = Now
    BY <1>6
  <2>2. GotOK(fn, a, state, got)'
    <3>1. Now' = Now  BY <1>6 DEF Now
    <3> QED  BY <1>2, <2>1, <3>1 DEF GotOK
  <2>3. ServerMoves /\ ServerOK'
    <3>1. Now' = Now  BY <1>6 DEF Now
    <3> QED  BY <1>4, <1>6, <3>1 DEF ServerMoves, ServerOK
  <2> QED  BY <1>1, <1>2, <2>1, <2>2, <2>3, HandledOK
<1>7. CASE /\ \E kind \in Kinds : entries' = Append(entries, kind)
           /\ Handle(i, "ok", Len(entries'))
           /\ shelf' \in Shelves /\ items' \in [Listed -> SUBSET Names]
  <2>1. entries' \in Seq(Kinds) /\ Now' = Now + 1 /\ Now' = Len(entries')
    BY <1>5, <1>7
  <2>2. ServerMoves /\ ServerOK'
    BY <1>2, <1>4, <1>7, <2>1 DEF ServerMoves, ServerOK
  <2>3. PICK got : Handle(i, "ok", got) /\ got = Now'
    BY <1>7, <2>1
  <2>4. GotOK(fn, a, "ok", got)'
    BY <1>2, <2>1, <2>3 DEF GotOK
  <2> QED  BY <1>1, <1>2, <2>2, <2>3, <2>4, HandledOK DEF States
<1>8. CASE ServeSubmit(i) /\ UNCHANGED items
  <2>1. a.dialog \in Kinds
    BY <1>2, <1>3, <1>8 DEF ArgOK, SubmitOK, Kinds
  <2>2. items' \in [Listed -> SUBSET Names]
    BY <1>8 DEF ServerOK
  <2> QED  BY <1>1, <1>6, <1>7, <1>8, <2>1, <2>2 DEF ServeSubmit, States
<1>9. CASE ServeSave(i) /\ UNCHANGED shelf
  <2>1. SaveOK(a)
    BY <1>2, <1>3, <1>9 DEF ArgOK, ServeSubmit, ServeSave, Heard, Is
  <2>2. CASE a.section = "password"
    <3>1. PICK state, got : UNCHANGED <<entries, shelf, items>> /\ Handle(i, state, got)
                            /\ \/ state = (IF a.fields THEN "ok" ELSE "refused") /\ got = Now
                               \/ state = "rejected" /\ got = None
      BY <1>1, <1>9, <2>2 DEF ServeSave, Now
    <3>2. (IF a.fields THEN "ok" ELSE "refused") \in States /\ "rejected" \in States
      BY DEF States
    <3>3. CASE got = Now /\ state \in States
      BY <1>6, <3>1, <3>3
    <3>4. CASE got = None /\ state = "rejected"
      BY <1>6, <3>1, <3>2, <3>4
    <3> QED  BY <3>1, <3>2, <3>3, <3>4
  <2>3. CASE a.section # "password"
    <3>1. a.section \in Listed /\ a.section \in Kinds /\ a.fields \in Names
      BY <2>1, <2>3 DEF SaveOK, Sections, Kinds
    <3>2. CASE /\ items' = [items EXCEPT ![a.section] =
                       IF a.section = "cron" THEN {a.fields}
                       ELSE IF a.row = New THEN @ \cup {a.fields} ELSE @]
               /\ entries' = Append(entries, a.section)
               /\ Handle(i, "ok", Len(entries'))
      <4>1. items' \in [Listed -> SUBSET Names] /\ shelf' \in Shelves
        BY <1>9, <3>1, <3>2 DEF ServerOK
      <4> QED  BY <1>7, <3>1, <3>2, <4>1
    <3>3. CASE Handle(i, "rejected", None) /\ UNCHANGED <<items, entries>>
      BY <1>6, <1>9, <3>3 DEF States
    <3> QED  BY <1>1, <1>9, <2>3, <3>2, <3>3 DEF ServeSave
  <2> QED  BY <2>2, <2>3
<1>10. CASE ServeDelete(i) /\ UNCHANGED shelf
  <2>1. a.section \in Listed /\ a.section \in Kinds
    BY <1>2, <1>3, <1>10 DEF ArgOK, ServeSubmit, ServeSave, ServeDelete, Heard, Is, Kinds
  <2>2. CASE /\ items' = [items EXCEPT ![a.section] = @ \ {a.row}]
             /\ entries' = Append(entries, a.section)
             /\ Handle(i, "ok", Len(entries'))
    <3>1. items' \in [Listed -> SUBSET Names] /\ shelf' \in Shelves
      BY <1>10, <2>1, <2>2 DEF ServerOK
    <3> QED  BY <1>7, <2>1, <2>2, <3>1
  <2>3. CASE Handle(i, "rejected", None) /\ UNCHANGED <<items, entries>>
    BY <1>6, <1>10, <2>3 DEF States
  <2> QED  BY <1>1, <1>10, <2>2, <2>3 DEF ServeDelete
<1> QED  BY <1>8, <1>9, <1>10 DEF SettingsChanges

\* The answers to the requests of no page.
LEMMA SessionServesTyped ==
  ASSUME Base, NEW i \in CallIds, SessionServes(i), UNCHANGED sessionFrame
  PROVE  CallsOK' /\ SessionTypes'
<1>0. /\ Pool(calls) /\ CallsOK /\ ServerOK /\ SessionTypes
      /\ ServerMoves /\ UNCHANGED page
  BY StoredToken DEF Base, sessionFrame, dbVars, ServerMoves
<1>1. PICK fn, a : fn = calls[i].fn /\ a = calls[i].arg
  OBVIOUS
<1>2. calls[i] # NoCall
  BY DEF SessionServes, ServeLogin, ServePlain, ServeRefused, Heard, Is
<1>3. PICK state, got : state \in States /\ Handle(i, state, got)
                        /\ (fn \in {"login", "me", "poll"} \/ state = "refused")
  BY <1>1 DEF SessionServes, ServeLogin, ServePlain, ServeRefused, Heard, Is, States
<1>4. GotOK(fn, a, state, got)'
  BY <1>3 DEF GotOK
<1>5. SessionTypes'
  <2>1. UNCHANGED <<init, at, query, loading, fresh>>
    BY DEF SessionServes, ServeLogin, ServePlain, ServeRefused, authVars, Handle
  <2>2. valid' \subseteq 1 .. issued'
    <3>1. CASE UNCHANGED <<valid, issued>>
      BY <1>0, <3>1 DEF SessionTypes
    <3>2. CASE issued' = issued + 1 /\ valid' = valid \cup {issued'}
      <4>1. issued \in Nat  BY DEF Base, TokenInv
      <4> QED  BY <1>0, <3>2, <4>1 DEF SessionTypes
    <3> QED  BY <3>1, <3>2 DEF SessionServes, ServeLogin, ServePlain, ServeRefused, authVars
  <2> QED  BY <1>0, <2>1, <2>2 DEF SessionTypes
<1> QED  BY <1>0, <1>1, <1>2, <1>3, <1>4, <1>5, HandledOK

\* A request is settled for the session: its slot is free.
LEMMA SessionSettlesTyped ==
  ASSUME Base, NEW i \in CallIds, SessionSettles(i), UNCHANGED sessionFrame
  PROVE  CallsOK' /\ SessionTypes'
<1>0. /\ Pool(calls) /\ CallsOK /\ ServerOK /\ SessionTypes
      /\ ServerMoves /\ UNCHANGED page
  BY StoredToken DEF Base, sessionFrame, dbVars, ServerMoves
<1>1. Put(i, NoCall)
  BY DEF SessionSettles, MeAnswered, MeFailed, LoginAnswered, Unauthorized, PlainSettled
<1>2. CallsOK'
  <2>1. Marks(0) /\ 0 \notin CallIds
    BY <1>0, <1>1, MarksDrop DEF CallIds
  <2> QED  BY <1>0, <2>1, CallsStay
<1>3. SessionTypes'
  <2>1. UNCHANGED <<valid, issued, query, loading, fresh>>
    BY DEF SessionSettles, MeAnswered, MeFailed, LoginAnswered, Unauthorized, PlainSettled, authVars
  <2>2. init' \in [Tabs -> BOOLEAN]
    <3>1. init \in [Tabs -> BOOLEAN]  BY <1>0 DEF SessionTypes
    <3>2. init' = init \/ \E t \in Tabs : init' = [init EXCEPT ![t] = TRUE]
                       \/ init' = [init EXCEPT ![t] = @ \/ calls[i].fn = "me"]
      BY DEF SessionSettles, MeAnswered, MeFailed, LoginAnswered, Unauthorized, PlainSettled, authVars
    <3> QED  BY <3>1, <3>2
  <2>3. at' \in [Tabs -> Routes]
    <3>1. at' \in {at, Redirected} \/ \E t \in Tabs : at' = [at EXCEPT ![t] = "home"]
      BY DEF SessionSettles, MeAnswered, MeFailed, LoginAnswered, Unauthorized, PlainSettled, authVars
    <3>2. Redirected \in [Tabs -> Routes] /\ at \in [Tabs -> Routes] /\ "home" \in Routes
      BY <1>0, <2>2, RedirectedTyped DEF SessionTypes, Routes, Pages
    <3> QED  BY <3>1, <3>2
  <2> QED  BY <1>0, <2>1, <2>2, <2>3 DEF SessionTypes
<1> QED  BY <1>2, <1>3

\* A tab loads its document anew.
LEMMA OpenTabTyped ==
  ASSUME Base, NEW t \in Tabs, NEW r \in Routes, OpenTab(t, r),
         UNCHANGED <<entries, shelf, items>>, page' \in Pages \cup {None}
  PROVE  CallsOK' /\ SessionTypes'
<1>0. /\ Pool(calls) /\ CallsOK /\ ServerOK /\ SessionTypes /\ stored \in Tokens
      /\ ServerMoves /\ init \in [Tabs -> BOOLEAN]
  BY StoredToken DEF Base, ServerMoves, SessionTypes
<1>1. PICK k \in {0} \cup CallIds : Marks(k) /\ (k \in CallIds => Takes(k, t, "me", stored))
  BY <1>0, MarksOpen
<1>2. k \in CallIds => CallOK(calls[k])'
  <2>1. ArgOK("me", stored) /\ "me" \notin PageFns  BY DEF ArgOK, PageFns
  <2> QED  BY <1>0, <1>1, <2>1, TakenOK
<1>3. init' \in [Tabs -> BOOLEAN]
  BY <1>0 DEF OpenTab, Initialize
<1>4. Redirected \in [Tabs -> Routes]
  BY <1>0, <1>3, RedirectedTyped
<1>5. at' = [Redirected EXCEPT ![t] = IF init'[t] THEN "login" ELSE r]
  BY DEF OpenTab
<1>6. at' \in [Tabs -> Routes]
  BY <1>4, <1>5 DEF Routes
<1>7. /\ query' \in Words \cup {NoWord} /\ UNCHANGED <<valid, issued>>
      /\ loading' \in BOOLEAN /\ fresh' \in BOOLEAN
  BY <1>0 DEF OpenTab, SessionTypes
<1>8. SessionTypes'
  BY <1>0, <1>3, <1>6, <1>7 DEF SessionTypes
<1> QED  BY <1>0, <1>1, <1>2, <1>8, CallsStay

(* The requests of the pages are settled *)

LEMMA PagesSettledTyped ==
  ASSUME Pool(calls), CallsOK, ServerOK, stored \in Tokens, loading \in BOOLEAN, fresh \in BOOLEAN,
         NEW i \in CallIds,
         \/ InventorySettles(i) \/ HistorySettled(i) \/ StatsSettled(i) \/ SettingsSettles(i),
         UNCHANGED <<entries, shelf, items>>
  PROVE  CallsOK' /\ mine' \in 0 .. Now /\ loading' \in BOOLEAN /\ fresh' \in BOOLEAN
<1>0. ServerMoves /\ 0 \notin CallIds /\ Now \in Nat /\ mine \in 0 .. Now
  BY NowTyped DEF ServerMoves, CallIds, ServerOK
<1>1. PICK fn, a, got : fn = calls[i].fn /\ a = calls[i].arg /\ got = calls[i].got
  OBVIOUS
<1>2. CASE Put(i, NoCall) /\ UNCHANGED mine /\ loading' \in BOOLEAN /\ fresh' \in BOOLEAN
  <2>1. Marks(0)
    BY <1>2, MarksDrop
  <2> QED  BY <1>0, <1>2, <2>1, CallsStay
<1>3. ASSUME NEW f \in {"load", "list"}, NEW arg, ArgOK(f, arg), NEW current,
             calls[i] # NoCall, got \in 0 .. Now, Reload(i, f, arg, current)
      PROVE  CallsOK' /\ mine' \in 0 .. Now /\ UNCHANGED fresh
  <2>1. Marks(i) /\ Takes(i, Here, f, arg)
    BY <1>3, MarksReload
  <2>2. CallOK(calls[i])'
    BY <1>3, <2>1, TakenOK, WebCallsAssumption
  <2>3. mine' \in 0 .. Now /\ UNCHANGED fresh
    BY <1>0, <1>1, <1>3 DEF Reload
  <2> QED  BY <1>0, <2>1, <2>2, <2>3, CallsStay
<1>4. CASE LoadSettled(i) \/ HistorySettled(i) \/ StatsSettled(i) \/ ListSettled(i)
  <2>1. \E answered \in BOOLEAN : EndLoad(i, answered)
    BY <1>4 DEF LoadSettled, HistorySettled, StatsSettled, ListSettled
  <2>2. calls[i] # NoCall
    BY <1>4 DEF LoadSettled, HistorySettled, StatsSettled, ListSettled, Is
  <2>3. calls[i].newest \in BOOLEAN
    BY <2>2, CallTyped DEF CallOK
  <2> QED  BY <1>2, <2>1, <2>3 DEF EndLoad
<1>5. CASE SubmitFailed(i) \/ SaveFailed(i) \/ DeleteFailed(i) \/ TestSettled(i)
  BY <1>2, <1>5 DEF SubmitFailed, SaveFailed, DeleteFailed, TestSettled
<1>6. CASE SubmitAnswered(i)
  <2>1. calls[i] # NoCall /\ fn = "submit" /\ calls[i].state = "ok"
    BY <1>1, <1>6 DEF SubmitAnswered, Is, Good
  <2>2. SubmitOK(a) /\ got \in 0 .. Now
    BY <1>1, <2>1, CallTyped DEF CallOK, ArgOK, GotOK
  <2>3. ArgOK("load", LoadArg(a.of, a.dialog))
    BY <2>2 DEF ArgOK, SubmitOK, LoadArg
  <2>4. Reload(i, "load", LoadArg(a.of, a.dialog), a.of = inventory.filters)
    BY <1>1, <1>6 DEF SubmitAnswered
  <2>5. loading' \in BOOLEAN
    BY <1>6 DEF SubmitAnswered, Live
  <2> QED  BY <1>3, <2>1, <2>2, <2>3, <2>4, <2>5
<1>7. CASE SaveAnswered(i)
  <2>1. calls[i] # NoCall /\ fn = "save" /\ calls[i].state = "ok"
    BY <1>1, <1>7 DEF SaveAnswered, Is, Good
  <2>2. SaveOK(a) /\ got \in 0 .. Now
    BY <1>1, <2>1, CallTyped DEF CallOK, ArgOK, GotOK
  <2>3. CASE a.section = "password"
    BY <1>1, <1>2, <1>7, <2>3 DEF SaveAnswered
  <2>4. CASE a.section # "password"
    <3>1. Reload(i, "list", ListArg(a.section, a.key), TRUE) /\ UNCHANGED loading
      BY <1>1, <1>7, <2>4 DEF SaveAnswered
    <3>2. ArgOK("list", ListArg(a.section, a.key))
      BY <2>2, <2>4 DEF ArgOK, SaveOK, ListArg, Sections
    <3> QED  BY <1>3, <2>1, <2>2, <3>1, <3>2
  <2> QED  BY <2>3, <2>4
<1>8. CASE DeleteAnswered(i)
  <2>1. calls[i] # NoCall /\ fn = "delete" /\ calls[i].state = "ok"
    BY <1>1, <1>8 DEF DeleteAnswered, Is, Good
  <2>2. a.section \in Listed /\ got \in 0 .. Now
    BY <1>1, <2>1, CallTyped DEF CallOK, ArgOK, GotOK
  <2>3. Reload(i, "list", ListArg(a.section, "deleted"), TRUE) /\ UNCHANGED loading
    BY <1>1, <1>8 DEF DeleteAnswered
  <2>4. ArgOK("list", ListArg(a.section, "deleted"))
    BY <2>2 DEF ArgOK, ListArg
  <2> QED  BY <1>3, <2>1, <2>2, <2>3, <2>4
<1> QED  BY <1>4, <1>5, <1>6, <1>7, <1>8 DEF InventorySettles, SettingsSettles

(* What the pages hold *)

\* The first filters are filters.
LEMMA FirstFilters == ASSUME NEW w \in Words \cup {NoWord} PROVE [NoFilters EXCEPT !.word = w] \in Filters
  BY DEF NoFilters, Filters

LEMMA FirstHistoryFilters == NoHistoryFilters \in HistoryFilters
  BY DEF NoHistoryFilters, HistoryFilters

\* The forms: a dialog opened for a row holds the fields of that row.
FilledIn(v) ==
    /\ v \in InventoryType
    /\ v.dialog \notin {None, "inbound"} => v.fields = v.row
InventoryForm == FilledIn(inventory)
Edited(v) ==
    /\ v \in SettingsType
    /\ v.editing \notin {None, New} => v.fields = v.editing
    /\ v.section = "category" => v.editing # New
    /\ v.section = "cron" => v.editing = None /\ v.fields # New
SettingsForm == Edited(settings)

\* A page is mounted, or a section of the settings.
LEMMA RemountTyped ==
  ASSUME Pool(calls), CallsOK, ServerOK, stored \in Tokens, UNCHANGED <<entries, shelf, items>>,
         NEW load \in BOOLEAN, NEW fn, NEW arg, Remount(load, fn, arg), load => ArgOK(fn, arg)
  PROVE  CallsOK' /\ mine' = mine /\ loading' \in BOOLEAN /\ fresh' \in BOOLEAN
<1>1. PICK k \in {0} \cup CallIds :
         Marks(k) /\ (k \in CallIds => Takes(k, Here, fn, arg)) /\ (k \in CallIds <=> load)
  BY MarksRemount
<1>2. k \in CallIds => CallOK(calls[k])'
  BY <1>1, TakenOK, WebCallsAssumption
<1>3. ServerMoves
  BY DEF ServerMoves
<1> QED  BY <1>1, <1>2, <1>3, CallsStay DEF Remount

LEMMA MountTyped ==
  ASSUME Pool(calls), CallsOK, ServerOK, stored \in Tokens, UNCHANGED <<entries, shelf, items>>,
         query \in Words \cup {NoWord}, NEW p, MountLoad(p)
  PROVE  CallsOK' /\ mine' = mine /\ loading' \in BOOLEAN /\ fresh' \in BOOLEAN
<1>1. CASE p = "inventory"
  <2>1. ArgOK("load", LoadArg([NoFilters EXCEPT !.word = query], None))
    BY FirstFilters DEF ArgOK, LoadArg
  <2> QED  BY <1>1, <2>1, RemountTyped DEF MountLoad
<1>2. CASE p = "history"
  <2>1. ArgOK("history", NoHistoryFilters)
    BY FirstHistoryFilters DEF ArgOK
  <2> QED  BY <1>2, <2>1, RemountTyped DEF MountLoad
<1>3. CASE p = "home"
  <2>1. ArgOK("stats", None)
    BY DEF ArgOK
  <2> QED  BY <1>3, <2>1, RemountTyped DEF MountLoad
<1>4. CASE p = "settings"
  <2>1. ArgOK("list", ListArg("outbound", None))
    BY DEF ArgOK, ListArg, Listed
  <2> QED  BY <1>4, <2>1, RemountTyped DEF MountLoad
<1>5. CASE p \notin {"inventory", "history", "home", "settings"}
  BY <1>5, RemountTyped DEF MountLoad
<1> QED  BY <1>1, <1>2, <1>3, <1>4, <1>5

\* What a user does on a page.
LEMMA PagesClickedTyped ==
  ASSUME Pool(calls), CallsOK, ServerOK, stored \in Tokens, loading \in BOOLEAN, fresh \in BOOLEAN,
         InventoryForm, history \in HistoryType, SettingsForm,
         \/ InventoryPage \/ HistoryPage \/ SettingsPage \/ ShoppingPage
         \/ (\E i \in CallIds : Debounce(i)) \/ DebounceHistory,
         UNCHANGED <<entries, shelf, items>>
  PROVE  CallsOK' /\ mine' = mine /\ loading' \in BOOLEAN /\ fresh' \in BOOLEAN
<1>0. ServerMoves /\ 0 \notin CallIds
  BY DEF ServerMoves, CallIds
<1>1. CASE UNCHANGED callVars
  BY <1>0, <1>1, MarksSame, CallsStay DEF callVars
<1>2. ASSUME NEW i \in CallIds, NEW fn, NEW arg, ArgOK(fn, arg),
             BeginLoad(i, fn, arg)
      PROVE  CallsOK' /\ mine' = mine /\ loading' \in BOOLEAN /\ fresh' \in BOOLEAN
  <2>1. Marks(i) /\ Takes(i, Here, fn, arg)
    BY <1>2, MarksBegin
  <2>2. CallOK(calls[i])'
    BY <1>2, <2>1, TakenOK, WebCallsAssumption
  <2> QED  BY <1>0, <1>2, <2>1, <2>2, CallsStay DEF BeginLoad
<1>3. ASSUME NEW i \in CallIds, NEW fn, NEW arg, ArgOK(fn, arg), Send(i, fn, arg)
      PROVE  CallsOK' /\ mine' = mine /\ loading' \in BOOLEAN /\ fresh' \in BOOLEAN
  <2>1. Marks(i) /\ Takes(i, Here, fn, arg)
    BY <1>3, MarksSend DEF Send
  <2>2. CallOK(calls[i])'
    BY <1>3, <2>1, TakenOK, WebCallsAssumption
  <2> QED  BY <1>0, <1>3, <2>1, <2>2, CallsStay DEF Send
<1>4. ASSUME NEW i \in CallIds, NEW f \in Filters, StartLoad(i, f)
      PROVE  CallsOK' /\ mine' = mine /\ loading' \in BOOLEAN /\ fresh' \in BOOLEAN
  <2>1. ArgOK("load", LoadArg(f, None))
    BY DEF ArgOK, LoadArg
  <2> QED  BY <1>2, <1>4, <2>1 DEF StartLoad
<1>5. ASSUME NEW i \in CallIds, NEW f \in HistoryFilters, BeginLoad(i, "history", f)
      PROVE  CallsOK' /\ mine' = mine /\ loading' \in BOOLEAN /\ fresh' \in BOOLEAN
  <2>1. ArgOK("history", f)
    BY DEF ArgOK
  <2> QED  BY <1>2, <1>5, <2>1
<1>6. CASE InventoryPage \/ \E i \in CallIds : Debounce(i)
  <2>1. CASE \E i \in CallIds : Refresh(i)
    <3>1. inventory.filters \in Filters  BY DEF InventoryForm, FilledIn, InventoryType
    <3> QED  BY <1>4, <2>1, <3>1 DEF Refresh
  <2>2. CASE \E i \in CallIds : \E f \in FilterChoices : SetFilter(i, f)
    <3>1. FilterChoices \subseteq Filters
      <4>1. PICK g : g = inventory.filters  OBVIOUS
      <4>2. g \in Filters  BY <4>1 DEF InventoryForm, FilledIn, InventoryType
      <4>3. /\ \A c \in Cats \cup {All} : [g EXCEPT !.cat = c] \in Filters
            /\ \A q \in Places \cup {All} : [g EXCEPT !.place = q] \in Filters
            /\ [g EXCEPT !.zero = ~@] \in Filters
        BY <4>2 DEF Filters
      <4> QED  BY <4>1, <4>3 DEF FilterChoices
    <3> QED  BY <1>4, <2>2, <3>1 DEF SetFilter
  <2>3. CASE \E i \in CallIds : Debounce(i)
    <3>1. PICK i \in CallIds : Debounce(i)  BY <2>3
    <3>2. inventory'.filters \in Filters
      BY <3>1 DEF Debounce, InventoryForm, FilledIn, InventoryType, Filters
    <3> QED  BY <1>4, <3>1, <3>2 DEF Debounce
  <2>4. CASE \E i \in CallIds : Submit(i)
    <3>1. PICK i \in CallIds : Submit(i)  BY <2>4
    <3>2. PICK arg : /\ Send(i, "submit", arg)
                     /\ arg = [dialog |-> inventory.dialog, row |-> inventory.row,
                               fields |-> inventory.fields, of |-> inventory.filters]
      BY <3>1 DEF Submit
    <3>3. SubmitOK(arg)
      BY <3>1, <3>2 DEF SubmitOK, InventoryForm, FilledIn, InventoryType, Submit
    <3> QED  BY <1>3, <3>2, <3>3 DEF ArgOK
  <2> QED
    BY <1>1, <1>6, <2>1, <2>2, <2>3, <2>4 DEF InventoryPage, Type, TurnPage, ShowDetails,
         CloseDetails, Dismiss, OpenDialog
<1>7. CASE HistoryPage \/ DebounceHistory
  <2>1. history.filters \in HistoryFilters
    BY DEF HistoryType
  <2>2. HistoryChoices \subseteq HistoryFilters
    BY <2>1 DEF HistoryChoices, HistoryFilters
  <2> QED
    BY <1>1, <1>5, <1>7, <2>1, <2>2 DEF HistoryPage, RefreshHistory, FilterHistory, TypeHistory,
         OpenLog, CloseLog, DebounceHistory, callVars
<1>8. CASE SettingsPage
  <2>1. CASE \E s \in Sections : ShowSection(s)
    <3>1. PICK s \in Sections : ShowSection(s)  BY <2>1
    <3>2. s \in Listed => ArgOK("list", ListArg(s, None))
      BY DEF ArgOK, ListArg
    <3>3. Remount(s \in Listed, "list", ListArg(s, None)) /\ (s \in Listed) \in BOOLEAN
      BY <3>1 DEF ShowSection
    <3> QED  BY <3>2, <3>3, RemountTyped
  <2>2. ASSUME NEW i \in CallIds, NEW key \in Keys, NEW row \in Names \cup {New}, NEW fields,
               IF settings.section = "password" THEN key = "form" ELSE fields \in Names,
               row # New => fields = row,
               Save(i, key, row, fields)
        PROVE  CallsOK' /\ mine' = mine /\ loading' \in BOOLEAN /\ fresh' \in BOOLEAN
    <3>1. PICK arg : /\ Send(i, "save", arg)
                     /\ arg = [section |-> settings.section, key |-> key, row |-> row,
                               fields |-> fields]
      BY <2>2 DEF Save
    <3>2. SaveOK(arg)
      BY <2>2, <3>1 DEF SaveOK, SettingsForm, Edited, SettingsType
    <3> QED  BY <1>3, <3>1, <3>2 DEF ArgOK
  <2>3. /\ settings.editing \in Names \cup {New, None} /\ settings.fields \in Names \cup {New, None}
        /\ settings.section \in Sections
    BY DEF SettingsForm, Edited, SettingsType
  <2>4. CASE \E i \in CallIds : SaveForm(i)
    <3>1. PICK i \in CallIds : SaveForm(i)  BY <2>4
    <3>2. CASE settings.editing = New
      BY <2>2, <3>1, <3>2 DEF SaveForm, Keys
    <3>3. CASE settings.editing # New
      <4>1. settings.editing \in Names /\ settings.fields = settings.editing
        BY <2>3, <3>1, <3>3 DEF SaveForm, SettingsForm, Edited
      <4>2. Save(i, "form", settings.editing, settings.fields)
        BY <3>1, <3>3 DEF SaveForm
      <4> QED  BY <2>2, <4>1, <4>2 DEF Keys
    <3> QED  BY <3>2, <3>3
  <2>5. CASE \E i \in CallIds : AddCategory(i)
    BY <2>2, <2>5 DEF AddCategory, InSection, Keys
  <2>6. CASE \E i \in CallIds : UpdateCategory(i)
    <3>1. PICK i \in CallIds : UpdateCategory(i)  BY <2>6
    <3>2. settings.editing \in Names /\ settings.fields = settings.editing
      BY <2>3, <3>1 DEF UpdateCategory, InSection, SettingsForm, Edited
    <3> QED  BY <2>2, <3>1, <3>2 DEF UpdateCategory, InSection, Keys
  <2>7. CASE \E i \in CallIds : SaveCron(i)
    <3>1. PICK i \in CallIds : SaveCron(i)  BY <2>7
    <3>2. PICK n \in Names : Save(i, "form", New, n)
      BY <2>3, <3>1 DEF SaveCron, InSection, SettingsForm, Edited
    <3> QED  BY <2>2, <3>1, <3>2 DEF SaveCron, InSection, Keys
  <2>8. CASE \E i \in CallIds : \E right \in BOOLEAN : ChangePassword(i, right)
    BY <2>2, <2>8 DEF ChangePassword, InSection, Keys
  <2>9. CASE \E i \in CallIds : \E r \in Names : Delete(i, r)
    <3>1. PICK i \in CallIds, r \in Names : Delete(i, r)  BY <2>9
    <3>2. settings.section \in Listed
      BY <3>1 DEF Delete, InSection, Formed, Listed
    <3>3. PICK arg : Send(i, "delete", arg) /\ arg = [section |-> settings.section, row |-> r]
      BY <3>1 DEF Delete
    <3>4. ArgOK("delete", arg)
      BY <3>2, <3>3 DEF ArgOK
    <3> QED  BY <1>3, <3>3, <3>4
  <2>10. CASE \E i \in CallIds : \E r \in Names : Test(i, r)
    <3>1. PICK i \in CallIds, r \in Names : Test(i, r)  BY <2>10
    <3>2. ArgOK("test", r)
      BY DEF ArgOK
    <3> QED  BY <1>3, <3>1, <3>2 DEF Test
  <2> QED
    BY <1>1, <1>8, <2>1, <2>4, <2>5, <2>6, <2>7, <2>8, <2>9, <2>10
       DEF SettingsPage, StartEdit, EditCron, CancelEdit
<1>9. CASE ShoppingPage
  <2>1. UNCHANGED callVars
    BY <1>9 DEF ShoppingPage, AddItem, ToggleItem, Keep
  <2> QED  BY <1>1, <2>1
<1> QED  BY <1>6, <1>7, <1>8, <1>9

(* The inventory page *)

\* Selected and counted, the materials of the table fit the page that shows them.
Ranged(v) ==
    LET t == v.table
    IN /\ v.selected \in t.mats \cup {None}
       /\ v.selected = None <=> t.mats = {}
       /\ v.pageNo \in 1 .. TotalPages(t.mats)
       /\ t.of # None /\ t.of.place # All =>
            \A m \in t.mats : \E l \in t.lots : l.mat = m

LEMMA MatsFinite ==
  ASSUME NEW s \in SUBSET Mats
  PROVE  IsFiniteSet(s) /\ Cardinality(s) \in Nat
  BY FS_Subset, FS_CardinalityType, InventoryViewAssumption

LEMMA PagesCounted ==
  ASSUME NEW s \in SUBSET Mats
  PROVE  TotalPages(s) \in Nat /\ 1 <= TotalPages(s)
<1>1. PICK n : n = (Cardinality(s) + PageSize - 1) \div PageSize
  OBVIOUS
<1>2. n \in Int
  <2>1. PICK c : c = Cardinality(s) + PageSize - 1  OBVIOUS
  <2>2. c \in Nat /\ PageSize \in Nat /\ PageSize > 0
    BY <2>1, MatsFinite, InventoryViewAssumption
  <2> QED  BY <1>1, <2>1, <2>2
<1>3. PICK k \in {1, n} : \A j \in {1, n} : k >= j
  BY <1>2
<1>4. TotalPages(s) = CHOOSE k2 \in {1, n} : \A j \in {1, n} : k2 >= j
  BY <1>1 DEF TotalPages, Max
<1>5. TotalPages(s) \in {1, n} /\ \A j \in {1, n} : TotalPages(s) >= j
  BY <1>3, <1>4
<1> QED  BY <1>2, <1>5

LEMMA Selected ==
  ASSUME NEW s \in SUBSET Mats, NEW m
  PROVE  Selection(s, m) \in s \cup {None} /\ (Selection(s, m) = None <=> s = {})
<1>1. s # {} => Min(s) \in s
  BY MinIn, MatsFinite, InventoryViewAssumption
<1>2. None \notin s
  BY WebCallsAssumption, InventoryViewAssumption
<1> QED  BY <1>1, <1>2 DEF Selection

\* What a load shows of its answer.
LEMMA ShownTyped ==
  ASSUME NEW v, FilledIn(v), Ranged(v), NEW of \in Filters, NEW got,
         got \in [rows : SUBSET Mats, details : SUBSET Lots, asOf : Nat],
         NEW w, w = Shown(v, got, of)
  PROVE  /\ FilledIn(w) /\ Ranged(w)
         /\ w.table.lots = got.details /\ w.table.mats \subseteq got.rows
         /\ w.table.of = of /\ w.table.asOf = got.asOf
         /\ w.submitting = v.submitting /\ w.filters = v.filters
<1>1. PICK mats : mats = Joined(got, of)
  OBVIOUS
<1>2. PICK now : now = Selection(mats, v.selected)
  OBVIOUS
<1>3. mats \subseteq got.rows /\ mats \in SUBSET Mats
  BY <1>1 DEF Joined
<1>4. now \in mats \cup {None} /\ (now = None <=> mats = {})
  BY <1>2, <1>3, Selected
<1>5. PICK t : t = [mats |-> mats, lots |-> got.details, of |-> of, asOf |-> got.asOf]
  OBVIOUS
<1>6. w = [v EXCEPT !.table = t, !.selected = now,
                    !.pageNo = IF Cardinality(mats) = Cardinality(v.table.mats) THEN @ ELSE 1,
                    !.fields = IF v.dialog = "inbound" THEN now ELSE @]
  BY <1>1, <1>2, <1>5 DEF Shown
<1>7. t \in [mats : SUBSET Mats, lots : SUBSET Lots, of : Filters \cup {None}, asOf : Nat]
  BY <1>3, <1>5
<1>8. v \in InventoryType  BY DEF FilledIn
<1>9. /\ w.table = t /\ w.selected = now
      /\ w.pageNo = IF Cardinality(mats) = Cardinality(v.table.mats) THEN v.pageNo ELSE 1
      /\ w.fields = IF v.dialog = "inbound" THEN now ELSE v.fields
      /\ w.dialog = v.dialog /\ w.row = v.row
      /\ w.submitting = v.submitting /\ w.filters = v.filters
  BY <1>6, <1>8 DEF InventoryType
<1>10. w \in InventoryType
  <2>1. now \in Mats \cup {None} /\ now \in RowIds
    BY <1>3, <1>4 DEF RowIds
  <2>2. (IF Cardinality(mats) = Cardinality(v.table.mats) THEN v.pageNo ELSE 1) \in Nat
    BY <1>8 DEF InventoryType
  <2>3. PICK n \in Nat : n = IF Cardinality(mats) = Cardinality(v.table.mats) THEN v.pageNo ELSE 1
    BY <2>2
  <2>4. (IF v.dialog = "inbound" THEN now ELSE v.fields) \in RowIds
    BY <1>8, <2>1 DEF InventoryType
  <2>5. PICK x \in RowIds : x = IF v.dialog = "inbound" THEN now ELSE v.fields
    BY <2>4
  <2>6. w = [v EXCEPT !.table = t, !.selected = now, !.pageNo = n, !.fields = x]
    BY <1>6, <1>8, <2>3, <2>5 DEF InventoryType
  <2>7. n \in Nat /\ x \in RowIds
    OBVIOUS
  <2> QED  BY ONLY <1>7, <1>8, <2>1, <2>6, <2>7 DEF InventoryType
<1>11. w.pageNo \in 1 .. TotalPages(mats)
  <2>1. CASE Cardinality(mats) = Cardinality(v.table.mats)
    <3>1. TotalPages(mats) = TotalPages(v.table.mats)
      BY <2>1 DEF TotalPages
    <3> QED  BY <1>9, <2>1, <3>1 DEF Ranged
  <2>2. CASE Cardinality(mats) # Cardinality(v.table.mats)
    BY <1>3, <1>9, <2>2, PagesCounted
  <2> QED  BY <2>1, <2>2
<1>12. of.place # All => \A m \in mats : \E l \in got.details : l.mat = m
  BY <1>1 DEF Joined
<1>13. Ranged(w)
  BY <1>4, <1>5, <1>9, <1>11, <1>12 DEF Ranged
<1>14. FilledIn(w)
  BY <1>9, <1>10 DEF FilledIn
<1> QED  BY <1>3, <1>5, <1>9, <1>13, <1>14

LEMMA FinishedTyped ==
  ASSUME NEW v, FilledIn(v), Ranged(v), NEW d \in Dialogs \cup {None}, NEW w, w = Finished(v, d)
  PROVE  /\ FilledIn(w) /\ Ranged(w) /\ w.table = v.table /\ w.filters = v.filters
         /\ w.submitting = v.submitting \ {d}
<1>1. CASE d = None
  <2>1. v.submitting \subseteq Dialogs /\ None \notin Dialogs
    BY WebAppAssumption DEF FilledIn, InventoryType
  <2> QED  BY <1>1, <2>1 DEF Finished
<1>2. CASE d # None
  <2>1. w = [v EXCEPT !.submitting = @ \ {d}, !.dialog = IF @ = d THEN None ELSE @]
    BY <1>2 DEF Finished
  <2>2. /\ w \in InventoryType /\ w.table = v.table /\ w.filters = v.filters
        /\ w.submitting = v.submitting \ {d} /\ w.selected = v.selected /\ w.pageNo = v.pageNo
        /\ w.fields = v.fields /\ w.row = v.row /\ w.dialog \in {v.dialog, None}
    <3>1. v \in InventoryType
      BY DEF FilledIn
    <3>2. PICK s, y : s = v.submitting \ {d} /\ y = IF v.dialog = d THEN None ELSE v.dialog
      OBVIOUS
    <3>3. s \in SUBSET Dialogs /\ y \in Dialogs \cup {None}
      BY <3>1, <3>2 DEF InventoryType
    <3>4. w = [v EXCEPT !.submitting = s, !.dialog = y]
      BY <2>1, <3>1, <3>2 DEF InventoryType
    <3> QED  BY ONLY <3>1, <3>2, <3>3, <3>4 DEF InventoryType
  <2>3. Ranged(w)
    BY <2>2 DEF Ranged
  <2> QED  BY <2>2, <2>3 DEF FilledIn
<1> QED  BY <1>1, <1>2

\* What a click does to the page: the table stays.
LEMMA InventoryClicked ==
  ASSUME FilledIn(inventory), Ranged(inventory), InventoryPage \/ \E i \in CallIds : Debounce(i)
  PROVE  /\ FilledIn(inventory') /\ Ranged(inventory') /\ inventory'.table = inventory.table
<1>1. PICK v, w : v = inventory /\ w = inventory'
  OBVIOUS
<1>2. v \in InventoryType /\ (v.dialog \notin {None, "inbound"} => v.fields = v.row) /\ Ranged(v)
  BY <1>1 DEF FilledIn
<1> SUFFICES FilledIn(w) /\ Ranged(w) /\ w.table = v.table
  BY <1>1
<1>3. ASSUME NEW f \in Filters, w = [v EXCEPT !.filters = f]
      PROVE  FilledIn(w) /\ Ranged(w) /\ w.table = v.table
  <2>1. w \in InventoryType
    BY <1>2, <1>3 DEF InventoryType
  <2>2. /\ w.table = v.table /\ w.selected = v.selected /\ w.pageNo = v.pageNo
        /\ w.dialog = v.dialog /\ w.fields = v.fields /\ w.row = v.row
    BY <1>2, <1>3 DEF InventoryType
  <2> QED  BY <1>2, <2>1, <2>2 DEF FilledIn, Ranged
<1>4. CASE \E i \in CallIds : \E f \in FilterChoices : SetFilter(i, f)
  <2>1. FilterChoices \subseteq Filters
    <3>1. PICK g \in Filters : g = inventory.filters
      BY <1>1, <1>2 DEF InventoryType
    <3>2. /\ \A c \in Cats \cup {All} : [g EXCEPT !.cat = c] \in Filters
          /\ \A q \in Places \cup {All} : [g EXCEPT !.place = q] \in Filters
          /\ [g EXCEPT !.zero = ~@] \in Filters
      BY DEF Filters
    <3> QED  BY <3>1, <3>2 DEF FilterChoices
  <2> QED  BY <1>1, <1>3, <1>4, <2>1 DEF SetFilter
<1>5. CASE \E i \in CallIds : Debounce(i)
  <2>1. PICK f : f = [v.filters EXCEPT !.word = v.typed]
    OBVIOUS
  <2>2. f \in Filters
    BY <1>2, <2>1 DEF InventoryType, Filters
  <2>3. w = [v EXCEPT !.filters = f]
    BY <1>1, <1>5, <2>1 DEF Debounce
  <2> QED  BY <1>3, <2>2, <2>3
<1>6. CASE UNCHANGED inventory
  BY <1>1, <1>2, <1>6 DEF FilledIn
<1>7. CASE \E u \in Words \cup {NoWord} : Type(u)
  <2>1. PICK u \in Words \cup {NoWord} : w = [v EXCEPT !.typed = u]
    BY <1>1, <1>7 DEF Type
  <2>2. /\ w \in InventoryType /\ w.table = v.table /\ w.selected = v.selected
        /\ w.pageNo = v.pageNo /\ w.dialog = v.dialog /\ w.fields = v.fields /\ w.row = v.row
    BY <1>2, <2>1 DEF InventoryType
  <2> QED  BY <1>2, <2>2 DEF FilledIn, Ranged
<1>8. CASE \E n \in 1 .. Cardinality(Mats) : TurnPage(n)
  <2>1. PICK n : n \in 1 .. TotalPages(v.table.mats) /\ w = [v EXCEPT !.pageNo = n]
    BY <1>1, <1>8 DEF TurnPage
  <2>2. v.table.mats \in SUBSET Mats
    BY <1>2 DEF InventoryType
  <2>3. n \in Nat
    BY <2>1, <2>2, PagesCounted
  <2>4. /\ w \in InventoryType /\ w.table = v.table /\ w.selected = v.selected
        /\ w.pageNo = n /\ w.dialog = v.dialog /\ w.fields = v.fields /\ w.row = v.row
    BY <1>2, <2>1, <2>3 DEF InventoryType
  <2> QED  BY <1>2, <2>1, <2>4 DEF FilledIn, Ranged
<1>9. CASE \E m \in Mats : ShowDetails(m)
  <2>1. PICK m \in Mats : w = [v EXCEPT !.selected = m, !.details = TRUE] /\ m \in v.table.mats
    BY <1>1, <1>9 DEF ShowDetails, OnPage
  <2>2. /\ w \in InventoryType /\ w.table = v.table /\ w.selected = m
        /\ w.pageNo = v.pageNo /\ w.dialog = v.dialog /\ w.fields = v.fields /\ w.row = v.row
    BY <1>2, <2>1 DEF InventoryType
  <2>3. m # None
    BY WebCallsAssumption, InventoryViewAssumption
  <2> QED  BY <1>2, <2>1, <2>2, <2>3 DEF FilledIn, Ranged
<1>10. CASE CloseDetails
  <2>1. w = [v EXCEPT !.details = FALSE]
    BY <1>1, <1>10 DEF CloseDetails
  <2>2. /\ w \in InventoryType /\ w.table = v.table /\ w.selected = v.selected
        /\ w.pageNo = v.pageNo /\ w.dialog = v.dialog /\ w.fields = v.fields /\ w.row = v.row
    BY <1>2, <2>1 DEF InventoryType
  <2> QED  BY <1>2, <2>2 DEF FilledIn, Ranged
<1>11. CASE Dismiss
  <2>1. w = [v EXCEPT !.dialog = None]
    BY <1>1, <1>11 DEF Dismiss
  <2>2. /\ w \in InventoryType /\ w.table = v.table /\ w.selected = v.selected
        /\ w.pageNo = v.pageNo /\ w.dialog = None
    BY <1>2, <2>1 DEF InventoryType
  <2> QED  BY <1>2, <2>2 DEF FilledIn, Ranged
<1>12. CASE \E d \in Dialogs, r \in Mats \cup LotIds \cup {None} : OpenDialog(d, r)
  <2>1. PICK d \in Dialogs, r \in RowIds : w = [v EXCEPT !.dialog = d, !.row = r, !.fields = r]
    BY <1>1, <1>12 DEF OpenDialog, Filled, RowIds
  <2>2. /\ w \in InventoryType /\ w.table = v.table /\ w.selected = v.selected
        /\ w.pageNo = v.pageNo /\ w.dialog = d /\ w.fields = r /\ w.row = r
    BY <1>2, <2>1 DEF InventoryType
  <2> QED  BY <1>2, <2>2 DEF FilledIn, Ranged
<1>13. CASE \E i \in CallIds : Submit(i)
  <2>1. w = [v EXCEPT !.submitting = @ \cup {v.dialog}] /\ v.dialog # None
    BY <1>1, <1>13 DEF Submit
  <2>2. /\ w \in InventoryType /\ w.table = v.table /\ w.selected = v.selected
        /\ w.pageNo = v.pageNo /\ w.dialog = v.dialog /\ w.fields = v.fields /\ w.row = v.row
    BY <1>2, <2>1 DEF InventoryType
  <2> QED  BY <1>2, <2>2 DEF FilledIn, Ranged
<1> QED
  BY <1>4, <1>5, <1>6, <1>7, <1>8, <1>9, <1>10, <1>11, <1>12, <1>13 DEF InventoryPage, Refresh

LEMMA InventorySettledTyped ==
  ASSUME CallsOK, ServerOK, FilledIn(inventory), Ranged(inventory), NEW i \in CallIds,
         InventorySettles(i)
  PROVE  /\ FilledIn(inventory') /\ Ranged(inventory')
         /\ \/ inventory'.table = inventory.table
            \/ LET t == inventory'.table
               IN /\ t.asOf \in 0 .. Now
                  /\ t.asOf = Now => /\ t.lots = LotsOf(shelf, t.of)
                                     /\ t.mats \subseteq MatsOf(shelf, t.of)
<1>1. PICK v, w, a, got : v = inventory /\ w = inventory' /\ a = calls[i].arg /\ got = calls[i].got
  OBVIOUS
<1>2. FilledIn(v) /\ Ranged(v) /\ v \in InventoryType
  BY <1>1 DEF FilledIn
<1>3. CASE UNCHANGED inventory
  BY <1>3
<1>4. CASE LoadSettled(i)
  <2>1. calls[i] # NoCall /\ calls[i].fn = "load"
    BY <1>4 DEF LoadSettled, Is
  <2>2. a.of \in Filters /\ a.after \in Dialogs \cup {None}
    BY <1>1, <2>1, CallTyped DEF CallOK, ArgOK
  <2>3. CASE calls[i].state = "ok" /\ w = Finished(Shown(v, got, a.of), a.after)
    <3>1. Loaded(a, "ok", got)
      BY <1>1, <2>1, <2>3, CallTyped DEF CallOK, GotOK
    <3>2. /\ got \in [rows : SUBSET Mats, details : SUBSET Lots, asOf : Nat]
          /\ got.asOf \in 0 .. Now
          /\ got.asOf = Now => got.rows = MatsOf(shelf, a.of) /\ got.details = LotsOf(shelf, a.of)
      BY <3>1, NowTyped DEF Loaded
    <3>3. PICK u : u = Shown(v, got, a.of)
      OBVIOUS
    <3>4. /\ FilledIn(u) /\ Ranged(u) /\ u.table.lots = got.details
          /\ u.table.mats \subseteq got.rows /\ u.table.of = a.of /\ u.table.asOf = got.asOf
      BY <1>2, <2>2, <3>2, <3>3, ShownTyped
    <3>5. FilledIn(w) /\ Ranged(w) /\ w.table = u.table
      BY <2>2, <2>3, <3>3, <3>4, FinishedTyped
    <3> QED  BY <1>1, <3>2, <3>4, <3>5
  <2>4. CASE w = Finished(v, a.after)
    BY <1>1, <1>2, <2>2, <2>4, FinishedTyped
  <2> QED  BY <1>1, <1>3, <1>4, <2>3, <2>4 DEF LoadSettled, Good
<1>5. CASE SubmitFailed(i)
  <2>1. CASE w = [v EXCEPT !.submitting = @ \ {a.dialog}]
    <3>1. /\ w \in InventoryType /\ w.table = v.table /\ w.selected = v.selected
          /\ w.pageNo = v.pageNo /\ w.dialog = v.dialog /\ w.fields = v.fields /\ w.row = v.row
      BY <1>2, <2>1 DEF InventoryType
    <3> QED  BY <1>1, <1>2, <3>1 DEF FilledIn, Ranged
  <2> QED  BY <1>1, <1>3, <1>5, <2>1 DEF SubmitFailed
<1> QED  BY <1>3, <1>4, <1>5 DEF InventorySettles, SubmitAnswered

LEMMA InventoryMounted ==
  ASSUME NEW u \in Words \cup {NoWord}, NEW w, w = MountedInventory(u)
  PROVE  FilledIn(w) /\ Ranged(w) /\ w.table.of = None /\ w.table.asOf = 0
<1>1. [NoFilters EXCEPT !.word = u] \in Filters
  BY FirstFilters
<1>2. PICK f \in Filters : f = [NoFilters EXCEPT !.word = u]
  BY <1>1
<1>3. w = [filters |-> f, typed |-> u,
           table |-> [mats |-> {}, lots |-> {}, of |-> None, asOf |-> 0],
           selected |-> None, pageNo |-> 1, details |-> FALSE,
           dialog |-> None, row |-> None, fields |-> None, submitting |-> {}]
  BY <1>2 DEF MountedInventory
<1>4. w \in InventoryType
  BY <1>3 DEF InventoryType, RowIds
<1>5. 1 \in 1 .. TotalPages({})
  BY PagesCounted
<1>6. /\ w.table.mats = {} /\ w.table.of = None /\ w.table.asOf = 0 /\ w.selected = None
      /\ w.pageNo = 1 /\ w.dialog = None
  BY <1>3
<1>7. Ranged(w)
  BY <1>5, <1>6 DEF Ranged
<1> QED  BY <1>4, <1>6, <1>7 DEF FilledIn

\* What the table shows is the answer of its time.
InventoryShown ==
    LET t == inventory.table
    IN /\ t.asOf \in 0 .. Now
       /\ t.of # None /\ t.asOf = Now => /\ t.lots = LotsOf(shelf, t.of)
                                         /\ t.mats \subseteq MatsOf(shelf, t.of)

LEMMA InventoryShownStays ==
  ASSUME ServerOK, ServerMoves, InventoryShown, inventory'.table = inventory.table
  PROVE  InventoryShown'
<1>1. CASE UNCHANGED <<entries, shelf, items>>
  <2>1. Now' = Now  BY <1>1 DEF Now
  <2> QED  BY <1>1, <2>1 DEF InventoryShown
<1>2. CASE Now' = Now + 1
  <2>1. Now \in Nat /\ inventory.table.asOf \in 0 .. Now
    BY NowTyped DEF InventoryShown
  <2>2. inventory'.table.asOf \in 0 .. Now' /\ inventory'.table.asOf # Now'
    BY <1>2, <2>1
  <2> QED  BY <2>2 DEF InventoryShown
<1> QED  BY <1>1, <1>2 DEF ServerMoves

(* The history page *)

HistoryShown ==
    LET t == history.table
    IN /\ t.asOf \in 0 .. Now /\ t.moves \cup t.logs \subseteq 1 .. Now
       /\ t.of # None /\ t.asOf = Now => t.moves = MovesOf(t.of) /\ t.logs = LogsOf(t.of)

LEMMA HistoryShownStays ==
  ASSUME ServerOK, ServerMoves, HistoryShown, history'.table = history.table
  PROVE  HistoryShown'
<1>0. PICK t : t = history.table /\ t = history'.table
  OBVIOUS
<1>1. CASE UNCHANGED <<entries, shelf, items>>
  <2>1. Now' = Now  BY <1>1 DEF Now
  <2>2. MovesOf(t.of)' = MovesOf(t.of) /\ LogsOf(t.of)' = LogsOf(t.of)
    BY <1>1 DEF MovesOf, LogsOf, Dated
  <2>3. /\ t.asOf \in 0 .. Now' /\ t.moves \cup t.logs \subseteq 1 .. Now'
        /\ t.of # None /\ t.asOf = Now' => t.moves = MovesOf(t.of)' /\ t.logs = LogsOf(t.of)'
    BY <1>0, <2>1, <2>2 DEF HistoryShown
  <2> QED  BY <1>0, <2>3 DEF HistoryShown
<1>2. CASE Now' = Now + 1
  <2>1. Now \in Nat /\ t.asOf \in 0 .. Now /\ t.moves \cup t.logs \subseteq 1 .. Now
    BY <1>0, NowTyped DEF HistoryShown
  <2>2. t.asOf \in 0 .. Now' /\ t.asOf # Now' /\ t.moves \cup t.logs \subseteq 1 .. Now'
    BY <1>2, <2>1
  <2> QED  BY <1>0, <2>2 DEF HistoryShown
<1> QED  BY <1>1, <1>2 DEF ServerMoves

LEMMA HistoryClicked ==
  ASSUME ServerOK, history \in HistoryType, HistoryShown, HistoryPage \/ DebounceHistory
  PROVE  history' \in HistoryType /\ history'.table = history.table
<1>1. PICK v, w : v = history /\ w = history'
  OBVIOUS
<1>2. v \in HistoryType  BY <1>1
<1> SUFFICES w \in HistoryType /\ w.table = v.table
  BY <1>1
<1>3. CASE \E f \in HistoryFilters : w = [v EXCEPT !.filters = f]
  BY <1>2, <1>3 DEF HistoryType
<1>4. CASE \E i \in CallIds : \E f \in HistoryChoices : FilterHistory(i, f)
  <2>1. PICK g \in HistoryFilters : g = history.filters
    BY <1>1, <1>2 DEF HistoryType
  <2>2. HistoryChoices \subseteq HistoryFilters
    BY <2>1 DEF HistoryChoices, HistoryFilters
  <2> QED  BY <1>1, <1>3, <1>4, <2>2 DEF FilterHistory
<1>5. CASE UNCHANGED history
  BY <1>1, <1>2, <1>5
<1>6. CASE \E u \in Words \cup {NoWord} : TypeHistory(u)
  <2>1. PICK u \in Words \cup {NoWord} : w = [v EXCEPT !.typed = u]
    BY <1>1, <1>6 DEF TypeHistory
  <2> QED  BY <1>2, <2>1 DEF HistoryType
<1>7. CASE DebounceHistory
  <2>1. w = [v EXCEPT !.word = v.typed]
    BY <1>1, <1>7 DEF DebounceHistory
  <2> QED  BY <1>2, <2>1 DEF HistoryType
<1>8. CASE (\E k \in 1 .. Len(entries) : OpenLog(k)) \/ CloseLog
  <2>1. PICK k \in Nat \cup {None} : w = [v EXCEPT !.selected = k]
    BY <1>1, <1>8, NowTyped DEF OpenLog, CloseLog, Now
  <2> QED  BY <1>2, <2>1 DEF HistoryType
<1> QED
  BY <1>4, <1>5, <1>6, <1>7, <1>8 DEF HistoryPage, RefreshHistory

LEMMA HistorySettledTyped ==
  ASSUME CallsOK, ServerOK, history \in HistoryType, HistoryShown, NEW i \in CallIds,
         HistorySettled(i), UNCHANGED entries
  PROVE  history' \in HistoryType /\ HistoryShown'
<1>1. PICK v, w, a, got : v = history /\ w = history' /\ a = calls[i].arg /\ got = calls[i].got
  OBVIOUS
<1>2. Now' = Now /\ Now \in Nat
  BY NowTyped DEF Now
<1>3. MovesOf(a)' = MovesOf(a) /\ LogsOf(a)' = LogsOf(a)
  BY DEF MovesOf, LogsOf, Dated
<1>4. CASE UNCHANGED history
  <2>1. MovesOf(v.table.of)' = MovesOf(v.table.of) /\ LogsOf(v.table.of)' = LogsOf(v.table.of)
    BY DEF MovesOf, LogsOf, Dated
  <2>2. w = v  BY <1>1, <1>4
  <2>3. HistoryShown'
    BY <1>1, <1>2, <2>1, <2>2 DEF HistoryShown
  <2> QED  BY <1>4, <2>3
<1>5. CASE calls[i].state = "ok" /\ w = [v EXCEPT !.table =
                  [moves |-> got.rows, logs |-> got.details, of |-> a, asOf |-> got.asOf]]
  <2>1. calls[i] # NoCall /\ calls[i].fn = "history"
    BY DEF HistorySettled, Is
  <2>2. a \in HistoryFilters /\ LoadedHistory(a, "ok", got)
    BY <1>1, <1>5, <2>1, CallTyped DEF CallOK, ArgOK, GotOK
  <2>3. PICK t : t = [moves |-> got.rows, logs |-> got.details, of |-> a, asOf |-> got.asOf]
    OBVIOUS
  <2>4. /\ t.asOf \in 0 .. Now /\ t.moves \cup t.logs \subseteq 1 .. Now
        /\ t.of = a /\ t.asOf = Now => t.moves = MovesOf(a) /\ t.logs = LogsOf(a)
    BY <2>2, <2>3 DEF LoadedHistory
  <2>5. t \in [moves : SUBSET Nat, logs : SUBSET Nat, of : HistoryFilters \cup {None}, asOf : Nat]
    <3>1. 1 .. Now \subseteq Nat /\ 0 .. Now \subseteq Nat
      BY <1>2
    <3> QED  BY <2>2, <2>3, <3>1 DEF LoadedHistory
  <2>6. w \in HistoryType /\ w.table = t
    BY <1>1, <1>5, <2>3, <2>5 DEF HistoryType
  <2>7. HistoryShown'
    BY <1>1, <1>2, <1>3, <2>3, <2>4, <2>6 DEF HistoryShown
  <2> QED  BY <1>1, <2>6, <2>7
<1> QED  BY <1>1, <1>4, <1>5 DEF HistorySettled, Good

LEMMA HistoryMounted == MountedHistory \in HistoryType
  BY FirstHistoryFilters DEF MountedHistory, HistoryType

(* The settings page *)

LEMMA SectionMounted ==
  ASSUME NEW s \in Sections, NEW w, w = MountedSection(s)
  PROVE  /\ w \in SettingsType /\ w.editing = None /\ w.fields = None /\ w.asOf = 0
         /\ w.section = s /\ w.saving = {} /\ w.rows = {}
  BY DEF MountedSection, SettingsType

LEMMA DoneTyped ==
  ASSUME NEW v, Edited(v), NEW after, NEW w, w = Done(v, after)
  PROVE  /\ Edited(w) /\ w.saving = v.saving \ {after} /\ w.section = v.section
         /\ w.asOf = v.asOf /\ w.rows = v.rows
<1>1. v \in SettingsType  BY DEF Edited
<1>2. /\ w \in SettingsType /\ w.saving = v.saving \ {after} /\ w.section = v.section
      /\ w.editing = v.editing /\ w.fields = v.fields /\ w.asOf = v.asOf /\ w.rows = v.rows
  BY <1>1 DEF Done, SettingsType
<1> QED  BY <1>2 DEF Edited

LEMMA ListingTyped ==
  ASSUME NEW v, Edited(v), NEW got, got \in [rows : SUBSET Names, asOf : Nat],
         NEW w, w = Listing(v, got)
  PROVE  /\ Edited(w) /\ w.saving = v.saving /\ w.section = v.section
         /\ w.asOf = got.asOf /\ w.rows = got.rows
<1>1. v \in SettingsType  BY DEF Edited
<1>2. PICK x : x = IF v.section = "cron" /\ got.rows # {}
                   THEN CHOOSE y \in got.rows : TRUE ELSE v.fields
  OBVIOUS
<1>3. /\ x \in Names \cup {New, None}
      /\ v.section = "cron" => x \in Names \/ x = v.fields
      /\ v.section # "cron" => x = v.fields
  BY <1>1, <1>2 DEF SettingsType
<1>4. w = [v EXCEPT !.rows = got.rows, !.asOf = got.asOf, !.fields = x]
  BY <1>1, <1>2 DEF Listing, SettingsType
<1>5. /\ w \in SettingsType /\ w.saving = v.saving /\ w.section = v.section
      /\ w.editing = v.editing /\ w.fields = x /\ w.asOf = got.asOf /\ w.rows = got.rows
  BY <1>1, <1>3, <1>4 DEF SettingsType
<1>6. New \notin Names
  BY SettingsViewAssumption
<1> QED  BY <1>3, <1>5, <1>6 DEF Edited

\* Nothing but what is edited and what is under way changes.
Stays(v, w) == w.rows = v.rows /\ w.asOf = v.asOf /\ w.section = v.section

LEMMA SettingsClicked ==
  ASSUME Edited(settings), SettingsPage
  PROVE  /\ Edited(settings')
         /\ \/ Stays(settings, settings') /\ settings.saving \subseteq settings'.saving
            \/ \E s \in Sections : ShowSection(s)
<1>1. PICK v, w : v = settings /\ w = settings'
  OBVIOUS
<1>2. v \in SettingsType /\ Edited(v)
  BY <1>1 DEF Edited
<1>3. CASE \E s \in Sections : ShowSection(s)
  <2>1. PICK s \in Sections : w = MountedSection(s)
    BY <1>1, <1>3 DEF ShowSection
  <2>2. w \in SettingsType /\ w.editing = None /\ w.fields = None /\ w.section = s
    BY <2>1, SectionMounted
  <2>3. Edited(w)
    BY <2>2, SettingsViewAssumption DEF Edited
  <2> QED  BY <1>1, <1>3, <2>3
<1>4. CASE UNCHANGED settings
  BY <1>1, <1>2, <1>4 DEF Stays
<1>5. ASSUME NEW key \in Keys, w = [v EXCEPT !.saving = @ \cup {key}]
      PROVE  Edited(w) /\ Stays(v, w) /\ v.saving \subseteq w.saving
  <2>1. /\ w \in SettingsType /\ w.saving = v.saving \cup {key} /\ w.section = v.section
        /\ w.editing = v.editing /\ w.fields = v.fields /\ w.asOf = v.asOf /\ w.rows = v.rows
    BY <1>2, <1>5 DEF SettingsType
  <2> QED  BY <1>2, <2>1 DEF Edited, Stays
<1>6. ASSUME NEW i \in CallIds,
             \/ SaveForm(i) \/ AddCategory(i) \/ UpdateCategory(i) \/ SaveCron(i)
             \/ \E right \in BOOLEAN : ChangePassword(i, right)
      PROVE  \E key \in Keys : w = [v EXCEPT !.saving = @ \cup {key}]
  <2>1. UpdateCategory(i) => settings.editing \in Keys
    BY <1>1, <1>2 DEF UpdateCategory, SettingsType, Keys
  <2> QED
    BY <1>1, <1>6, <2>1 DEF SaveForm, AddCategory, UpdateCategory, SaveCron, ChangePassword,
                            Save, Keys
<1>7. CASE \E r \in Names \cup {New} : StartEdit(r)
  <2>1. PICK r \in Names \cup {New} :
           /\ w = [v EXCEPT !.editing = r, !.fields = r] /\ v.section # "cron"
           /\ v.section = "category" => r \in v.rows
    BY <1>1, <1>7 DEF StartEdit, InSection, Editing
  <2>2. /\ w \in SettingsType /\ w.saving = v.saving /\ w.section = v.section
        /\ w.editing = r /\ w.fields = r /\ w.asOf = v.asOf /\ w.rows = v.rows
    BY <1>2, <2>1 DEF SettingsType
  <2>3. v.section = "category" => r # New
    BY <1>2, <2>1, SettingsViewAssumption DEF SettingsType
  <2> QED  BY <1>1, <2>1, <2>2, <2>3 DEF Edited, Stays
<1>8. CASE \E x \in Names : EditCron(x)
  <2>1. PICK x \in Names : w = [v EXCEPT !.fields = x] /\ v.section = "cron"
    BY <1>1, <1>8 DEF EditCron, InSection
  <2>2. /\ w \in SettingsType /\ w.saving = v.saving /\ w.section = v.section
        /\ w.editing = v.editing /\ w.fields = x /\ w.asOf = v.asOf /\ w.rows = v.rows
    BY <1>2, <2>1 DEF SettingsType
  <2> QED  BY <1>1, <1>2, <2>1, <2>2, SettingsViewAssumption DEF Edited, Stays
<1>9. CASE CancelEdit
  <2>1. w = [v EXCEPT !.editing = None]
    BY <1>1, <1>9 DEF CancelEdit
  <2>2. /\ w \in SettingsType /\ w.saving = v.saving /\ w.section = v.section
        /\ w.editing = None /\ w.fields = v.fields /\ w.asOf = v.asOf /\ w.rows = v.rows
    BY <1>2, <2>1 DEF SettingsType
  <2> QED  BY <1>1, <1>2, <2>2, SettingsViewAssumption DEF Edited, Stays
<1>10. CASE \E i \in CallIds : \E r \in Names : Delete(i, r)
  <2>1. PICK d \in Names \cup {None} : w = [v EXCEPT !.deleting = d]
    <3>1. PICK i \in CallIds, r \in Names : Delete(i, r)  BY <1>10
    <3>2. PICK d : d = IF v.section = "category" THEN r ELSE v.deleting
      OBVIOUS
    <3>3. d \in Names \cup {None} /\ w = [v EXCEPT !.deleting = d]
      BY <1>1, <1>2, <3>1, <3>2 DEF Delete, SettingsType
    <3> QED  BY <3>3
  <2>2. /\ w \in SettingsType /\ w.saving = v.saving /\ w.section = v.section
        /\ w.editing = v.editing /\ w.fields = v.fields /\ w.asOf = v.asOf /\ w.rows = v.rows
    BY <1>2, <2>1 DEF SettingsType
  <2> QED  BY <1>1, <1>2, <2>2 DEF Edited, Stays
<1>11. CASE \E i \in CallIds : \E r \in Names : Test(i, r)
  <2>1. w = [v EXCEPT !.testing = TRUE]
    BY <1>1, <1>11 DEF Test
  <2>2. /\ w \in SettingsType /\ w.saving = v.saving /\ w.section = v.section
        /\ w.editing = v.editing /\ w.fields = v.fields /\ w.asOf = v.asOf /\ w.rows = v.rows
    BY <1>2, <2>1 DEF SettingsType
  <2> QED  BY <1>1, <1>2, <2>2 DEF Edited, Stays
<1> QED
  BY <1>1, <1>3, <1>5, <1>6, <1>7, <1>8, <1>9, <1>10, <1>11 DEF SettingsPage

\* What settles in a section: only a list brings other rows.
LEMMA SettingsSettledTyped ==
  ASSUME CallsOK, ServerOK, Edited(settings), NEW i \in CallIds, SettingsSettles(i)
  PROVE  /\ Edited(settings')
         /\ \/ Stays(settings, settings')
            \/ /\ ListSettled(i) /\ Live(i) /\ calls[i].state = "ok" /\ UNCHANGED bound
               /\ settings'.rows = calls[i].got.rows /\ settings'.asOf = calls[i].got.asOf
               /\ settings'.asOf \in 0 .. Now /\ settings'.section = settings.section
<1>1. PICK v, w, a, got : v = settings /\ w = settings' /\ a = calls[i].arg /\ got = calls[i].got
  OBVIOUS
<1>2. v \in SettingsType /\ Edited(v)
  BY <1>1 DEF Edited
<1>3. CASE UNCHANGED settings
  BY <1>1, <1>2, <1>3 DEF Stays
<1>4. CASE \E after : w = Done(v, after)
  BY <1>1, <1>2, <1>4, DoneTyped DEF Stays
<1>5. CASE ListSettled(i)
  <2>1. CASE /\ calls[i].state = "ok" /\ Live(i) /\ UNCHANGED bound
             /\ w = Done(Listing(v, got), a.after)
    <3>1. calls[i] # NoCall /\ calls[i].fn = "list"
      BY <1>5 DEF ListSettled, Is
    <3>2. LoadedList(a, got)
      BY <1>1, <2>1, <3>1, CallTyped DEF CallOK, GotOK
    <3>3. got \in [rows : SUBSET Names, asOf : Nat] /\ got.asOf \in 0 .. Now
      BY <3>2, NowTyped DEF LoadedList
    <3>4. PICK u : u = Listing(v, got)
      OBVIOUS
    <3>5. Edited(u) /\ u.section = v.section /\ u.asOf = got.asOf /\ u.rows = got.rows
      BY <1>2, <3>3, <3>4, ListingTyped
    <3>6. Edited(w) /\ w.section = v.section /\ w.asOf = got.asOf /\ w.rows = got.rows
      BY <2>1, <3>4, <3>5, DoneTyped
    <3> QED  BY <1>1, <1>5, <2>1, <3>3, <3>6
  <2>2. UNCHANGED settings \/ (\E after : w = Done(v, after))
        \/ /\ calls[i].state = "ok" /\ Live(i) /\ UNCHANGED bound
           /\ w = Done(Listing(v, got), a.after)
    BY <1>1, <1>5 DEF ListSettled, Good
  <2> QED  BY <1>3, <1>4, <2>1, <2>2
<1>6. CASE SaveAnswered(i)
  <2>1. CASE w = [v EXCEPT !.editing = None, !.fields = None]
    <3>1. /\ w \in SettingsType /\ w.saving = v.saving /\ w.section = v.section
          /\ w.editing = None /\ w.fields = None /\ w.asOf = v.asOf /\ w.rows = v.rows
      BY <1>2, <2>1 DEF SettingsType
    <3> QED  BY <1>1, <3>1, SettingsViewAssumption DEF Edited, Stays
  <2> QED  BY <1>1, <1>3, <1>4, <1>6, <2>1 DEF SaveAnswered
<1>7. CASE SaveFailed(i) \/ DeleteFailed(i)
  BY <1>1, <1>3, <1>4, <1>7 DEF SaveFailed, DeleteFailed
<1>8. CASE DeleteAnswered(i)
  BY <1>3, <1>8 DEF DeleteAnswered
<1>9. CASE TestSettled(i)
  <2>1. CASE w = [v EXCEPT !.testing = FALSE]
    <3>1. /\ w \in SettingsType /\ w.saving = v.saving /\ w.section = v.section
          /\ w.editing = v.editing /\ w.fields = v.fields /\ w.asOf = v.asOf /\ w.rows = v.rows
      BY <1>2, <2>1 DEF SettingsType
    <3> QED  BY <1>1, <1>2, <3>1 DEF Edited, Stays
  <2> QED  BY <1>1, <1>3, <1>9, <2>1 DEF TestSettled
<1> QED
  BY <1>5, <1>6, <1>7, <1>8, <1>9 DEF SettingsSettles

(* The types, and the tables *)

InventoryOK == FilledIn(inventory) /\ Ranged(inventory) /\ InventoryShown
HistoryOK == history \in HistoryType /\ HistoryShown
SettingsOK == Edited(settings) /\ settings.asOf \in 0 .. Now
ShoppingOK == shopping \subseteq Items /\ storedItems \subseteq Items
HomeOK ==
    home # None =>
      /\ Tallied(home.sums, home.totalMaterials) /\ home.bars = ByQuantity(home.sums.byCat)
      /\ home.asOf \in 0 .. Now
      /\ home.asOf = Now => home.totalMaterials = Len(Summaries)
ViewsOK == InventoryOK /\ HistoryOK /\ SettingsOK /\ ShoppingOK /\ HomeOK

LEMMA InventoryStays ==
  ASSUME ServerOK, ServerMoves, InventoryOK, UNCHANGED inventory PROVE InventoryOK'
  BY InventoryShownStays DEF InventoryOK
LEMMA HistoryStays ==
  ASSUME ServerOK, ServerMoves, HistoryOK, UNCHANGED history PROVE HistoryOK'
  BY HistoryShownStays DEF HistoryOK
LEMMA SettingsStay ==
  ASSUME ServerOK, ServerMoves, SettingsOK, UNCHANGED settings PROVE SettingsOK'
<1>1. Now \in Nat /\ (Now' = Now \/ Now' = Now + 1)
  BY NowTyped DEF ServerMoves, Now
<1> QED  BY <1>1 DEF SettingsOK

LEMMA HomeStays ==
  ASSUME ServerOK, ServerMoves, HomeOK, UNCHANGED home PROVE HomeOK'
<1>1. CASE UNCHANGED <<entries, shelf, items>>
  <2>1. Summaries' = Summaries /\ Now' = Now
    BY <1>1 DEF Summaries, Summary, Stocked, LotsInStock, Now
  <2> QED  BY <2>1 DEF HomeOK
<1>2. CASE entries' \in Seq(Kinds) /\ Now' = Now + 1
  <2>1. Now \in Nat /\ Now' = Now + 1
    BY <1>2, NowTyped
  <2> QED  BY <2>1 DEF HomeOK
<1> QED  BY <1>1, <1>2 DEF ServerMoves

LEMMA HomeSettled ==
  ASSUME CallsOK, ServerOK, HomeOK, UNCHANGED <<entries, shelf, items>>,
         NEW i \in CallIds, StatsSettled(i)
  PROVE  HomeOK'
<1>1. CASE UNCHANGED home
  BY <1>1, HomeStays DEF ServerMoves
<1>2. CASE home' # home
  <2>1. PICK got : got = calls[i].got
    OBVIOUS
  <2>2. /\ calls[i] # NoCall /\ calls[i].fn = "stats" /\ calls[i].state = "ok"
        /\ home' = LET sums == Stats(got.rows)
                   IN [totalMaterials |-> Len(got.rows), sums |-> sums,
                       bars |-> ByQuantity(sums.byCat), asOf |-> got.asOf]
    BY <1>2, <2>1 DEF StatsSettled, Is, Good
  <2>3. LoadedStats(got)
    BY <2>1, <2>2, CallTyped DEF CallOK, GotOK
  <2>4. PICK sums : sums = Stats(got.rows)
    OBVIOUS
  <2>5. Tallied(sums, Len(got.rows))
    BY <2>3, <2>4, StatsTallied DEF LoadedStats
  <2>6. /\ home'.sums = sums /\ home'.totalMaterials = Len(got.rows)
        /\ home'.bars = ByQuantity(sums.byCat) /\ home'.asOf = got.asOf
    BY <2>2, <2>4
  <2>7. Summaries' = Summaries /\ Now' = Now
    BY DEF Summaries, Summary, Stocked, LotsInStock, Now
  <2> QED  BY <2>3, <2>5, <2>6, <2>7 DEF HomeOK, LoadedStats
<1> QED  BY <1>1, <1>2

\* The server may move, the pages stay.
LEMMA ViewsStay ==
  ASSUME ServerOK, ServerMoves, ViewsOK, UNCHANGED <<viewVars, storedItems>> PROVE ViewsOK'
<1>1. InventoryOK' /\ HistoryOK' /\ SettingsOK'
  BY InventoryStays, HistoryStays, SettingsStay DEF ViewsOK, viewVars
<1>2. ShoppingOK'
  BY DEF ViewsOK, viewVars, ShoppingOK
<1>3. HomeOK'
  BY HomeStays DEF ViewsOK, viewVars
<1> QED  BY <1>1, <1>2, <1>3 DEF ViewsOK

LEMMA ServerStays ==
  ASSUME ServerOK, UNCHANGED <<entries, shelf, items>>, mine' \in 0 .. Now
  PROVE  ServerOK' /\ ServerMoves /\ Now' = Now
  BY DEF ServerOK, ServerMoves, Now

LEMMA ViewsBlank ==
  ASSUME ServerOK, UNCHANGED <<entries, shelf, items>>, query \in Words \cup {NoWord},
         ViewsOK, NEW p, Blank(p)
  PROVE  ViewsOK' /\ page' = p
<1>1. Now' = Now /\ Now \in Nat
  BY NowTyped DEF Now
<1>2. InventoryOK'
  <2>1. PICK u \in Words \cup {NoWord} : inventory' = MountedInventory(u)
    <3>1. NoWord \in Words \cup {NoWord}  OBVIOUS
    <3> QED  BY <3>1 DEF Blank
  <2>2. /\ FilledIn(inventory') /\ Ranged(inventory')
        /\ inventory'.table.of = None /\ inventory'.table.asOf = 0
    BY <2>1, InventoryMounted
  <2> QED  BY <1>1, <2>2 DEF InventoryOK, InventoryShown
<1>3. HistoryOK'
  <2>1. history' \in HistoryType /\ history' = MountedHistory
    BY HistoryMounted DEF Blank
  <2>2. history'.table = [moves |-> {}, logs |-> {}, of |-> None, asOf |-> 0]
    BY <2>1 DEF MountedHistory
  <2> QED  BY <1>1, <2>1, <2>2 DEF HistoryOK, HistoryShown
<1>4. SettingsOK'
  <2>1. settings' = MountedSection("outbound") /\ "outbound" \in Sections
    BY DEF Blank, Sections, Listed
  <2>2. /\ settings' \in SettingsType /\ settings'.editing = None /\ settings'.asOf = 0
        /\ settings'.section = "outbound"
    BY <2>1, SectionMounted
  <2> QED  BY <1>1, <2>2 DEF SettingsOK, Edited
<1>5. ShoppingOK'
  BY DEF ViewsOK, ShoppingOK, Blank, OpenList
<1>6. HomeOK'
  BY DEF HomeOK, Blank, MountedHome
<1> QED  BY <1>2, <1>3, <1>4, <1>5, <1>6 DEF ViewsOK, Blank

LEMMA RouteTyped == Route \in Pages \cup {None}
  BY DEF Route, Mounted

LEMMA RenderTyped ==
  ASSUME Base, ViewsOK, TokenInv', Render PROVE Base' /\ ViewsOK'
<1>0. /\ Pool(calls) /\ CallsOK /\ ServerOK /\ SessionTypes /\ stored \in Tokens
      /\ UNCHANGED <<entries, shelf, items>> /\ UNCHANGED authVars
      /\ query \in Words \cup {NoWord} /\ mine \in 0 .. Now
  BY StoredToken DEF Base, Render, dbVars, SessionTypes, ServerOK
<1>1. CallsOK' /\ mine' = mine /\ loading' \in BOOLEAN /\ fresh' \in BOOLEAN
  BY <1>0, MountTyped DEF Render
<1>2. ViewsOK' /\ page' = Route
  BY <1>0, ViewsBlank DEF Render
<1>3. SessionTypes'
  BY <1>0, <1>1, <1>2, RouteTyped DEF SessionTypes, authVars
<1>4. ServerOK'
  BY <1>0, <1>1, ServerStays
<1> QED  BY <1>1, <1>2, <1>3, <1>4 DEF Base

\* A page's own step, by a click, a timer or an answer.
LEMMA PageTyped ==
  ASSUME Base, ViewsOK, TokenInv', UNCHANGED <<authVars, page, entries, shelf, items>>,
         \/ \E i \in CallIds : \/ InventorySettles(i) \/ HistorySettled(i) \/ StatsSettled(i)
                               \/ SettingsSettles(i) \/ Debounce(i)
         \/ InventoryPage \/ HistoryPage \/ SettingsPage \/ ShoppingPage \/ DebounceHistory,
         ViewsOK'
  PROVE  Base'
<1>0. /\ Pool(calls) /\ CallsOK /\ ServerOK /\ SessionTypes /\ stored \in Tokens
      /\ loading \in BOOLEAN /\ fresh \in BOOLEAN /\ mine \in 0 .. Now
      /\ InventoryForm /\ history \in HistoryType /\ SettingsForm
  BY StoredToken DEF Base, SessionTypes, ViewsOK, InventoryOK, InventoryForm, HistoryOK,
                     SettingsOK, SettingsForm, ServerOK
<1>1. CallsOK' /\ mine' \in 0 .. Now /\ loading' \in BOOLEAN /\ fresh' \in BOOLEAN
  <2>1. CASE \E i \in CallIds : \/ InventorySettles(i) \/ HistorySettled(i) \/ StatsSettled(i)
                                \/ SettingsSettles(i)
    BY <1>0, <2>1, PagesSettledTyped
  <2>2. CASE \/ InventoryPage \/ HistoryPage \/ SettingsPage \/ ShoppingPage
             \/ (\E i \in CallIds : Debounce(i)) \/ DebounceHistory
    BY <1>0, <2>2, PagesClickedTyped
  <2> QED  BY <2>1, <2>2
<1>2. SessionTypes'
  BY <1>0, <1>1, AuthTypes
<1>3. ServerOK'
  BY <1>0, <1>1, ServerStays
<1> QED  BY <1>1, <1>2, <1>3 DEF Base

\* What a page's own step leaves of the pages.
LEMMA OwnViewTyped ==
  ASSUME Base, ViewsOK, UNCHANGED <<entries, shelf, items, storedItems>>,
         \/ /\ InventoryPage \/ \E i \in CallIds : InventorySettles(i) \/ Debounce(i)
            /\ UNCHANGED <<history, home, settings, shopping>>
         \/ /\ HistoryPage \/ DebounceHistory \/ \E i \in CallIds : HistorySettled(i)
            /\ UNCHANGED <<inventory, home, settings, shopping>>
         \/ /\ \E i \in CallIds : StatsSettled(i)
            /\ UNCHANGED <<inventory, history, settings, shopping>>
         \/ /\ SettingsPage \/ \E i \in CallIds : SettingsSettles(i)
            /\ UNCHANGED <<inventory, history, home, shopping>>
  PROVE  ViewsOK'
<1>0. CallsOK /\ ServerOK /\ ServerMoves /\ Now' = Now
  BY DEF Base, ServerMoves, Now
<1>1. UNCHANGED inventory => InventoryOK'
  BY <1>0, InventoryStays DEF ViewsOK
<1>2. UNCHANGED history => HistoryOK'
  BY <1>0, HistoryStays DEF ViewsOK
<1>3. UNCHANGED settings => SettingsOK'
  BY <1>0, SettingsStay DEF ViewsOK
<1>4. UNCHANGED shopping /\ ShoppingOK'
  BY DEF ViewsOK, ShoppingOK
<1>8. HomeOK'
  <2>1. HomeOK  BY DEF ViewsOK
  <2>2. CASE UNCHANGED home
    BY <1>0, <2>1, <2>2, HomeStays
  <2>3. CASE \E i \in CallIds : StatsSettled(i)
    BY <1>0, <2>1, <2>3, HomeSettled
  <2> QED  BY <2>2, <2>3
<1>5. InventoryPage \/ (\E i \in CallIds : InventorySettles(i) \/ Debounce(i)) => InventoryOK'
  <2>0. FilledIn(inventory) /\ Ranged(inventory) /\ InventoryShown
    BY DEF ViewsOK, InventoryOK
  <2>1. CASE InventoryPage \/ \E i \in CallIds : Debounce(i)
    <3>1. FilledIn(inventory') /\ Ranged(inventory') /\ inventory'.table = inventory.table
      BY <2>0, <2>1, InventoryClicked
    <3> QED  BY <1>0, <2>0, <3>1, InventoryShownStays DEF InventoryOK
  <2>2. ASSUME NEW i \in CallIds, InventorySettles(i) PROVE InventoryOK'
    <3>1. /\ FilledIn(inventory') /\ Ranged(inventory')
          /\ \/ inventory'.table = inventory.table
             \/ LET t == inventory'.table
                IN /\ t.asOf \in 0 .. Now
                   /\ t.asOf = Now => /\ t.lots = LotsOf(shelf, t.of)
                                      /\ t.mats \subseteq MatsOf(shelf, t.of)
      BY <1>0, <2>0, <2>2, InventorySettledTyped
    <3>2. InventoryShown'
      BY <1>0, <2>0, <3>1, InventoryShownStays DEF InventoryShown
    <3> QED  BY <3>1, <3>2 DEF InventoryOK
  <2> QED  BY <2>1, <2>2
<1>6. HistoryPage \/ DebounceHistory \/ (\E i \in CallIds : HistorySettled(i)) => HistoryOK'
  <2>1. history \in HistoryType /\ HistoryShown
    BY DEF ViewsOK, HistoryOK
  <2> QED  BY <1>0, <2>1, HistoryClicked, HistoryShownStays, HistorySettledTyped DEF HistoryOK
<1>7. SettingsPage \/ (\E i \in CallIds : SettingsSettles(i)) => SettingsOK'
  <2>1. Edited(settings) /\ settings.asOf \in 0 .. Now /\ Now \in Nat
    BY <1>0, NowTyped DEF ViewsOK, SettingsOK
  <2>2. CASE SettingsPage
    <3>1. Edited(settings')
      BY <2>1, <2>2, SettingsClicked
    <3>2. settings'.asOf \in 0 .. Now
      <4>1. CASE Stays(settings, settings')
        BY <2>1, <4>1 DEF Stays
      <4>2. CASE \E q \in Sections : ShowSection(q)
        <5>1. PICK q \in Sections : settings' = MountedSection(q)
          BY <4>2 DEF ShowSection
        <5>2. settings'.asOf = 0
          BY <5>1, SectionMounted
        <5> QED  BY <2>1, <5>2
      <4> QED  BY <2>1, <2>2, <4>1, <4>2, SettingsClicked
    <3> QED  BY <1>0, <3>1, <3>2 DEF SettingsOK
  <2>3. ASSUME NEW i \in CallIds, SettingsSettles(i) PROVE SettingsOK'
    <3>1. Edited(settings')
      BY <1>0, <2>1, <2>3, SettingsSettledTyped
    <3>2. settings'.asOf \in 0 .. Now
      BY <1>0, <2>1, <2>3, SettingsSettledTyped DEF Stays
    <3> QED  BY <1>0, <3>1, <3>2 DEF SettingsOK
  <2> QED  BY <2>2, <2>3
<1> QED  BY <1>1, <1>2, <1>3, <1>4, <1>5, <1>6, <1>7, <1>8 DEF ViewsOK

LEMMA WorkTyped ==
  ASSUME Base, ViewsOK, TokenInv', Work PROVE Base' /\ ViewsOK'
<1>0. /\ Pool(calls) /\ CallsOK /\ ServerOK /\ SessionTypes /\ stored \in Tokens
      /\ loading \in BOOLEAN /\ fresh \in BOOLEAN /\ mine \in 0 .. Now
  BY StoredToken DEF Base, SessionTypes, ServerOK
<1>1. CASE Render
  BY <1>1, RenderTyped
<1>2. CASE Timer
  <2>1. UNCHANGED <<authVars, page, entries, shelf, items, storedItems>>
    BY <1>2 DEF Timer, viewFrame, dbVars
  <2>2. ViewsOK'
    BY <1>2, <2>1, OwnViewTyped DEF Timer
  <2> QED  BY <1>2, <2>1, <2>2, PageTyped DEF Timer
<1>3. ASSUME NEW i \in CallIds, Advance(i) PROVE Base' /\ ViewsOK'
  <2>1. CASE (SessionServes(i) \/ SessionSettles(i)) /\ UNCHANGED sessionFrame
    <3>1. /\ UNCHANGED <<entries, shelf, items>> /\ UNCHANGED <<viewVars, storedItems>>
          /\ UNCHANGED mine
      BY <2>1 DEF sessionFrame, dbVars, SessionServes, ServeLogin, ServePlain, ServeRefused, Handle,
                  SessionSettles, MeAnswered, MeFailed, LoginAnswered, Unauthorized, PlainSettled
    <3>2. ServerOK' /\ ServerMoves
      BY <1>0, <3>1, ServerStays
    <3>3. ViewsOK'
      BY <1>0, <3>1, <3>2, ViewsStay
    <3>4. CallsOK' /\ SessionTypes'
      BY <2>1, SessionServesTyped, SessionSettlesTyped
    <3> QED  BY <3>2, <3>3, <3>4 DEF Base
  <2>2. CASE /\ InventoryReads(i) \/ HistoryReads(i) \/ ServeStats(i) \/ SettingsReads(i)
             /\ UNCHANGED <<authVars, sessionFrame>>
    <3>1. /\ UNCHANGED <<entries, shelf, items>> /\ UNCHANGED <<viewVars, storedItems>>
          /\ UNCHANGED <<authVars, page>>
      BY <2>2 DEF sessionFrame, dbVars
    <3>2. UNCHANGED <<mine, loading, fresh>>
      <4> USE DEF HandleRows, HandleDetails, Handle
      <4>1. CASE InventoryReads(i) \/ HistoryReads(i)
        BY <4>1 DEF InventoryReads, ServeMaterials, ServeLots, HistoryReads, ServeMoves, ServeLogs
      <4>2. CASE ServeStats(i) \/ SettingsReads(i)
        BY <4>2 DEF ServeStats, SettingsReads, ServeList, ServeTest, ServeUnrouted
      <4> QED  BY <2>2, <4>1, <4>2
    <3>3. ServerOK' /\ ServerMoves
      BY <1>0, <3>1, <3>2, ServerStays
    <3>4. ViewsOK'
      BY <1>0, <3>1, <3>3, ViewsStay
    <3>5. CallsOK'
      BY <1>0, <2>2, <3>1, ReadsTyped
    <3>6. SessionTypes'
      BY <1>0, <3>1, <3>2, AuthTypes
    <3> QED  BY <3>3, <3>4, <3>5, <3>6 DEF Base
  <2>3. CASE \/ ServeSubmit(i) /\ UNCHANGED <<authVars, page, items, viewVars, storedItems>>
             \/ SettingsChanges(i) /\ UNCHANGED <<authVars, page, shelf, viewVars, storedItems>>
    <3>1. CallsOK' /\ ServerOK' /\ ServerMoves
      BY <1>0, <2>3, ChangesTyped
    <3>2. UNCHANGED <<viewVars, storedItems>> /\ UNCHANGED <<authVars, page>>
      BY <2>3
    <3>3. UNCHANGED <<loading, fresh>>
      BY <2>3 DEF ServeSubmit, SettingsChanges, ServeSave, ServeDelete, Handle
    <3>4. ViewsOK'
      BY <1>0, <3>1, <3>2, ViewsStay
    <3>5. SessionTypes'
      BY <1>0, <3>2, <3>3, AuthTypes
    <3> QED  BY <3>1, <3>4, <3>5 DEF Base
  <2>4. CASE \/ InventorySettles(i) /\ UNCHANGED <<viewFrame, history, home, settings, shopping>>
             \/ HistorySettled(i) /\ UNCHANGED <<viewFrame, inventory, home, settings, shopping>>
             \/ StatsSettled(i) /\ UNCHANGED <<viewFrame, inventory, history, settings, shopping>>
             \/ SettingsSettles(i) /\ UNCHANGED <<viewFrame, inventory, history, home, shopping>>
    <3>1. UNCHANGED <<authVars, page, entries, shelf, items, storedItems>>
      BY <2>4 DEF viewFrame, dbVars
    <3>2. ViewsOK'
      BY <2>4, <3>1, OwnViewTyped
    <3> QED  BY <2>4, <3>1, <3>2, PageTyped
  <2> QED  BY <1>3, <2>1, <2>2, <2>3, <2>4 DEF Advance
<1> QED  BY <1>1, <1>2, <1>3 DEF Work

LEMMA UsersTyped ==
  ASSUME Base, ViewsOK, TokenInv', Users PROVE Base' /\ ViewsOK'
<1>0. /\ Pool(calls) /\ CallsOK /\ ServerOK /\ SessionTypes /\ stored \in Tokens
      /\ loading \in BOOLEAN /\ fresh \in BOOLEAN /\ mine \in 0 .. Now /\ 0 \notin CallIds
      /\ query \in Words \cup {NoWord} /\ page \in Pages \cup {None}
  BY StoredToken DEF Base, SessionTypes, ServerOK, CallIds
<1>1. CASE SessionClicks /\ UNCHANGED sessionFrame
  <2>1. /\ UNCHANGED <<entries, shelf, items>> /\ UNCHANGED <<viewVars, storedItems>>
        /\ UNCHANGED mine
    BY <1>1 DEF sessionFrame, dbVars, SessionClicks, Poll, LoginSubmit, Logout, TokensDie, Navigate,
                HeaderSearch, callVars
  <2>2. ServerOK' /\ ServerMoves
    BY <1>0, <2>1, ServerStays
  <2>3. ViewsOK'
    BY <1>0, <2>1, <2>2, ViewsStay
  <2> QED  BY <1>1, <2>2, <2>3, SessionClicksTyped DEF Base
<1>2. CASE \E r \in Routes : Reopen(r)
  <2>1. PICK r \in Routes : Reopen(r)  BY <1>2
  <2>2. UNCHANGED <<entries, shelf, items, mine>> /\ OpenTab(Here, r) /\ Blank(None)
    BY <2>1 DEF Reopen, OpenTab, dbVars
  <2>3. ViewsOK' /\ page' = None
    BY <1>0, <2>2, ViewsBlank
  <2>4. CallsOK' /\ SessionTypes'
    BY <2>2, <2>3, OpenTabTyped, WebCallsAssumption
  <2>5. ServerOK'
    BY <1>0, <2>2, ServerStays
  <2> QED  BY <2>3, <2>4, <2>5 DEF Base
<1>3. CASE \E t \in Tabs \ {Here}, r \in Routes : OpenTab(t, r) /\ UNCHANGED sessionFrame
  <2>1. PICK t \in Tabs, r \in Routes : OpenTab(t, r) /\ UNCHANGED sessionFrame
    BY <1>3
  <2>2. UNCHANGED <<entries, shelf, items, mine, page>> /\ UNCHANGED <<viewVars, storedItems>>
    BY <2>1 DEF OpenTab, sessionFrame, dbVars
  <2>3. ServerOK' /\ ServerMoves
    BY <1>0, <2>2, ServerStays
  <2>4. ViewsOK'
    BY <1>0, <2>2, <2>3, ViewsStay
  <2>5. CallsOK' /\ SessionTypes'
    BY <1>0, <2>1, <2>2, OpenTabTyped
  <2> QED  BY <2>3, <2>4, <2>5 DEF Base
<1>4. CASE \/ InventoryPage /\ UNCHANGED <<viewFrame, history, home, settings, shopping>>
           \/ HistoryPage /\ UNCHANGED <<viewFrame, inventory, home, settings, shopping>>
           \/ SettingsPage /\ UNCHANGED <<viewFrame, inventory, history, home, shopping>>
  <2>1. UNCHANGED <<authVars, page, entries, shelf, items, storedItems>>
    BY <1>4 DEF viewFrame, dbVars
  <2>2. ViewsOK'
    BY <1>4, <2>1, OwnViewTyped
  <2> QED  BY <1>4, <2>1, <2>2, PageTyped
<1>5. CASE /\ ShoppingPage \/ \E x \in Items : OtherTabSaves(x)
           /\ UNCHANGED <<authVars, page, dbVars, inventory, history, home, settings>>
  <2>1. /\ UNCHANGED <<entries, shelf, items>> /\ UNCHANGED callVars
        /\ UNCHANGED <<authVars, page>>
    BY <1>5 DEF dbVars, ShoppingPage, AddItem, ToggleItem, Keep, OtherTabSaves
  <2>2. UNCHANGED <<calls, loading, fresh, mine>>
    BY <2>1 DEF callVars
  <2>3. ServerOK' /\ ServerMoves
    BY <1>0, <2>1, <2>2, ServerStays
  <2>4. ShoppingOK'
    BY <1>5 DEF ViewsOK, ShoppingOK, ShoppingPage, AddItem, ToggleItem, Keep, OtherTabSaves
  <2>5. ViewsOK'
    BY <1>0, <1>5, <2>3, <2>4, InventoryStays, HistoryStays, SettingsStay, HomeStays DEF ViewsOK
  <2>6. CallsOK'
    BY <1>0, <2>2, <2>3, MarksSame, CallsStay
  <2>7. SessionTypes'
    BY <1>0, <2>1, <2>2, AuthTypes
  <2> QED  BY <2>3, <2>5, <2>6, <2>7 DEF Base
<1>6. CASE OthersChange /\ UNCHANGED <<authVars, page, items, history, home, settings,
                                       shopping, storedItems>>
  <2>1. UNCHANGED <<calls, loading, fresh, mine>> /\ UNCHANGED <<viewVars, storedItems>>
        /\ UNCHANGED <<authVars, page>>
    BY <1>6 DEF OthersChange, callVars, viewVars
  <2>2. entries' \in Seq(Kinds) /\ Now' = Now + 1 /\ Now \in Nat
    <3>1. "adjust" \in Kinds  BY DEF Kinds, Dialogs
    <3> QED  BY <1>0, <1>6, <3>1, NowTyped DEF OthersChange, ServerOK, Now
  <2>3. ServerOK' /\ ServerMoves
    BY <1>0, <1>6, <2>1, <2>2 DEF OthersChange, ServerOK, ServerMoves
  <2>4. ViewsOK'
    BY <1>0, <2>1, <2>3, ViewsStay
  <2>5. CallsOK'
    BY <1>0, <2>1, <2>3, MarksSame, CallsStay
  <2>6. SessionTypes'
    BY <1>0, <2>1, AuthTypes
  <2> QED  BY <2>3, <2>4, <2>5, <2>6 DEF Base
<1> QED  BY <1>1, <1>2, <1>3, <1>4, <1>5, <1>6 DEF Users

LEMMA TypedAtFirst == ASSUME Init PROVE Base /\ ViewsOK
<1>1. PICK s \in Starts :
        /\ calls = [i \in CallIds |-> NoCall]
        /\ valid = 1 .. issued
        /\ init = [t \in Tabs |-> TRUE]
        /\ at = [t \in Tabs |-> IF t = Here THEN s.at ELSE "login"]
        /\ query = NoWord
        /\ page = None /\ loading = FALSE /\ fresh = FALSE /\ mine = 0
        /\ entries = <<>> /\ shelf = s.shelf /\ items = s.items
        /\ inventory = MountedInventory(NoWord)
        /\ history = MountedHistory
        /\ settings = MountedSection("outbound")
        /\ shopping = {} /\ storedItems = s.list /\ home = MountedHome
  BY DEF Init
<1>2. TokenInv
  BY TokensAtFirst
<1>3. CallsOK
  BY <1>1 DEF CallsOK
<1>4. ServerOK /\ Now = 0
  BY <1>1, WebAppAssumption DEF ServerOK, Now
<1>5. SessionTypes
  BY <1>1, WebAppAssumption DEF SessionTypes, Routes, Pages
<1>6. InventoryOK
  <2>1. NoWord \in Words \cup {NoWord}  OBVIOUS
  <2>2. /\ FilledIn(inventory) /\ Ranged(inventory)
        /\ inventory.table.of = None /\ inventory.table.asOf = 0
    BY <1>1, <2>1, InventoryMounted
  <2> QED  BY <1>4, <2>2 DEF InventoryOK, InventoryShown
<1>7. HistoryOK
  <2>1. history.table = [moves |-> {}, logs |-> {}, of |-> None, asOf |-> 0]
    BY <1>1 DEF MountedHistory
  <2> QED  BY <1>1, <1>4, <2>1, HistoryMounted DEF HistoryOK, HistoryShown
<1>8. SettingsOK
  <2>1. "outbound" \in Sections  BY DEF Sections, Listed
  <2>2. /\ settings \in SettingsType /\ settings.editing = None /\ settings.asOf = 0
        /\ settings.section = "outbound"
    BY <1>1, <2>1, SectionMounted
  <2> QED  BY <1>4, <2>2 DEF SettingsOK, Edited
<1>9. ShoppingOK
  BY <1>1, WebAppAssumption DEF ShoppingOK
<1>10. HomeOK
  BY <1>1 DEF HomeOK, MountedHome
<1> QED  BY <1>2, <1>3, <1>4, <1>5, <1>6, <1>7, <1>8, <1>9, <1>10 DEF Base, ViewsOK

\* The types, the forms and the tables, as one inductive invariant.
LEMMA TypesStay ==
  ASSUME Base, ViewsOK, [Next]_vars PROVE Base' /\ ViewsOK'
<1>1. CASE Next
  <2>1. TokenInv'
    BY <1>1, WorkKeepsTokens, UsersKeepTokens DEF Next, Base
  <2> QED  BY <1>1, <2>1, WorkTyped, UsersTyped DEF Next
<1>2. CASE UNCHANGED vars
  <2>1. /\ UNCHANGED <<calls, loading, fresh, mine>> /\ UNCHANGED <<viewVars, storedItems>>
        /\ UNCHANGED <<authVars, page>> /\ UNCHANGED <<entries, shelf, items>>
    BY <1>2 DEF vars, callVars, dbVars
  <2>2. /\ Pool(calls) /\ CallsOK /\ ServerOK /\ SessionTypes /\ mine \in 0 .. Now
        /\ 0 \notin CallIds /\ loading \in BOOLEAN /\ fresh \in BOOLEAN
    BY StoredToken DEF Base, ServerOK, SessionTypes, CallIds
  <2>3. TokenInv'
    <3>1. Calm /\ TokenFrame
      BY <2>1, <2>2, CalmSame DEF authVars, TokenFrame
    <3> QED  BY <3>1, CalmFrame DEF Base
  <2>4. ServerOK' /\ ServerMoves
    BY <2>1, <2>2, ServerStays
  <2>5. ViewsOK' /\ CallsOK' /\ SessionTypes'
    BY <2>1, <2>2, <2>4, ViewsStay, MarksSame, CallsStay, AuthTypes
  <2> QED  BY <2>3, <2>4, <2>5 DEF Base
<1> QED  BY <1>1, <1>2

\* The types of the session, of the requests in flight and of every page.
THEOREM WebTypeOKCorrect == Spec => []WebTypeOK
<1>1. Base /\ ViewsOK => WebTypeOK
  <2> SUFFICES ASSUME Base, ViewsOK PROVE WebTypeOK
    OBVIOUS
  <2>1. /\ stored \in Tokens /\ held \in [Tabs -> Tokens] /\ issued \in Nat
        /\ retired \subseteq 1 .. issued
    BY DEF Base, TokenInv, Tokens, Issued
  <2>2. /\ valid \subseteq 1 .. issued
        /\ init \in [Tabs -> BOOLEAN] /\ at \in [Tabs -> Routes]
        /\ page \in Pages \cup {None} /\ loading \in BOOLEAN /\ fresh \in BOOLEAN
    BY DEF Base, SessionTypes
  <2>3. mine \in 0 .. Len(entries) /\ shelf \in Shelves /\ items \in [Listed -> SUBSET Names]
    BY DEF Base, ServerOK, Now
  <2>4. \A i \in CallIds : calls[i] # NoCall =>
         /\ calls[i].tab \in Tabs \cup {NoTab} /\ calls[i].token \in Tokens
         /\ calls[i].live \in BOOLEAN /\ calls[i].newest \in BOOLEAN
         /\ calls[i].state \in States
    BY DEF Base, CallsOK, CallOK
  <2>5. ViewTypeOK
    <3>1. inventory \in InventoryType  BY DEF ViewsOK, InventoryOK, FilledIn
    <3>2. /\ inventory.filters \in Filters /\ inventory.typed \in Words \cup {NoWord}
          /\ inventory.table.mats \subseteq Mats /\ inventory.submitting \subseteq Dialogs
          /\ inventory.dialog \in Dialogs \cup {None}
      BY <3>1 DEF InventoryType
    <3>3. /\ history.filters \in HistoryFilters
          /\ history.table.moves \cup history.table.logs \subseteq 1 .. Len(entries)
      BY DEF ViewsOK, HistoryOK, HistoryType, HistoryShown, Now
    <3>4. settings \in SettingsType  BY DEF ViewsOK, SettingsOK, Edited
    <3>5. /\ settings.section \in Sections /\ settings.saving \subseteq Keys
          /\ settings.rows \subseteq Names /\ settings.editing \in Names \cup {New, None}
      BY <3>4 DEF SettingsType
    <3> QED  BY <3>2, <3>3, <3>5 DEF ViewTypeOK, ViewsOK, ShoppingOK
  <2> QED  BY <2>1, <2>2, <2>3, <2>4, <2>5 DEF WebTypeOK
<1> QED  BY <1>1, TypedAtFirst, TypesStay, PTL DEF Spec

\* Whatever was opened, closed and loaded again in between, a submission carries the
\* fields of the row it is for: the effects that fill in a form run when its row changes.
THEOREM FieldsForTheirRowCorrect == Spec => []FieldsForTheirRow
<1>1. Base => FieldsForTheirRow
  BY DEF Base, CallsOK, CallOK, ArgOK, SubmitOK, SaveOK, FieldsForTheirRow, Ours, Is
<1> QED  BY <1>1, TypedAtFirst, TypesStay, PTL DEF Spec

\* The inventory table holds together: the selected material and the page exist, and
\* with a place chosen every material has a lot in the details (loadData).
THEOREM TableInRangeCorrect == Spec => []TableInRange
<1>1. ViewsOK => TableInRange
  BY DEF ViewsOK, InventoryOK, Ranged, TableInRange
<1> QED  BY <1>1, TypedAtFirst, TypesStay, PTL DEF Spec

\* The dashboard's totals are those of its statuses and categories, the bars are in
\* order, and they count the materials the server has now if nothing has changed
\* since (the loop of useDashboardStats).
THEOREM StatsAddUpCorrect == Spec => []StatsAddUp
<1>1. HomeOK => StatsAddUp
  <2> SUFFICES ASSUME HomeOK, home # None PROVE StatsAddUp
    BY DEF StatsAddUp
  <2>1. PICK s, n, bars : s = home.sums /\ n = home.totalMaterials /\ bars = home.bars
    OBVIOUS
  <2>2. /\ Tallied(s, n) /\ bars = ByQuantity(s.byCat)
        /\ home.asOf = Now => n = Len(Summaries)
    BY <2>1 DEF HomeOK
  <2>3. \A a, b \in 1 .. Len(bars) :
          a < b => s.byCat[bars[a]].quantity >= s.byCat[bars[b]].quantity
    BY <2>2, BarsSorted
  <2>4. /\ s.expiring + s.expired + s.normal = n
        /\ SumFunction([c \in DOMAIN s.byCat |-> s.byCat[c].count]) = n
        /\ SumFunction([c \in DOMAIN s.byCat |-> s.byCat[c].quantity]) = s.quantity
    BY <2>2 DEF Tallied
  <2> QED  BY <2>1, <2>2, <2>3, <2>4 DEF StatsAddUp, Now
<1>2. Base /\ ViewsOK => HomeOK
  BY DEF ViewsOK
<1>3. Init => Base /\ ViewsOK
  BY TypedAtFirst
<1>4. Base /\ ViewsOK /\ [Next]_vars => Base' /\ ViewsOK'
  BY TypesStay
<1> QED  BY <1>1, <1>2, <1>3, <1>4, PTL DEF Spec

-----------------------------------------------------------------------------
(* One submission at a time *)

\* What may be submitted: a dialog's form, or the form of a section of the settings.
Subjects == Dialogs \cup {"form"}
\* Request i submits x, or loads what is shown after x was submitted.
Submits(c, x) ==
    \/ x \in Dialogs /\ \/ c.fn = "submit" /\ c.arg.dialog = x
                        \/ c.fn = "load" /\ c.arg.after = x
    \/ x = "form" /\ \/ c.fn = "save" /\ c.arg.key = x
                     \/ c.fn = "list" /\ c.arg.after = x
Under(i, x) == calls[i] # NoCall /\ calls[i].tab = Here /\ calls[i].live /\ Submits(calls[i], x)
\* What the pages show as pending.
Pending == inventory.submitting \cup (settings.saving \cap {"form"})
\* Whatever is under way is shown as pending, and is under way once.
OneInv ==
    \A x \in Subjects : \A i \in CallIds :
      Under(i, x) => x \in Pending /\ \A j \in CallIds : Under(j, x) => i = j

LEMMA MarkedUnder ==
  ASSUME NEW j, Marked(j), NEW x, Under(j, x)' PROVE Under(j, x)
<1>1. PICK c, d : c = calls[j] /\ d = calls'[j]
  OBVIOUS
<1>2. c # NoCall /\ d.fn = c.fn /\ d.arg = c.arg /\ d.tab \in {c.tab, NoTab} /\ (d.live => c.live)
  BY <1>1 DEF Marked
<1>3. d.tab = Here /\ d.live /\ Submits(d, x)
  BY <1>1 DEF Under
<1>4. c.tab = Here
  BY <1>2, <1>3, WebCallsAssumption
<1>5. Submits(c, x)
  BY <1>2, <1>3 DEF Submits
<1> QED  BY <1>1, <1>2, <1>3, <1>4, <1>5 DEF Under

\* Requests that were under way may go on, no other is.
LEMMA OneStays ==
  ASSUME OneInv, NEW k, Marks(k), Pending \subseteq Pending',
         k \in CallIds => \A x \in Subjects : Under(k, x)' => Under(k, x)
  PROVE  OneInv'
<1>1. ASSUME NEW j \in CallIds, NEW x \in Subjects, Under(j, x)' PROVE Under(j, x)
  <2>1. CASE j = k
    BY <1>1, <2>1
  <2>2. CASE j # k
    BY <1>1, <2>2, MarkedUnder DEF Marks, Under
  <2> QED  BY <2>1, <2>2
<1> QED  BY <1>1 DEF OneInv

\* The only request for x ends.
LEMMA OneEnds ==
  ASSUME OneInv, Marks(0), NEW i \in CallIds, calls'[i] = NoCall, NEW x \in Subjects,
         Under(i, x), Pending \ {x} \subseteq Pending'
  PROVE  OneInv'
<1>1. ASSUME NEW j \in CallIds, NEW y \in Subjects, Under(j, y)' PROVE Under(j, y) /\ y # x
  <2>1. j # 0  BY DEF CallIds
  <2>2. Under(j, y)
    BY <1>1, <2>1, MarkedUnder DEF Marks, Under
  <2>3. j # i
    BY <1>1 DEF Under
  <2> QED  BY <2>2, <2>3 DEF OneInv
<1> QED  BY <1>1 DEF OneInv

\* x is submitted, which was not pending.
LEMMA OneBegins ==
  ASSUME OneInv, NEW i \in CallIds, Marks(i), NEW x \in Subjects, x \notin Pending,
         Pending \cup {x} \subseteq Pending', \A y \in Subjects : Under(i, y)' => y = x
  PROVE  OneInv'
<1>1. ASSUME NEW j \in CallIds, NEW y \in Subjects, Under(j, y)', j # i PROVE Under(j, y) /\ y # x
  <2>1. Under(j, y)
    BY <1>1, MarkedUnder DEF Marks, Under
  <2> QED  BY <2>1 DEF OneInv
<1> QED  BY <1>1 DEF OneInv

\* The page is another: what was under way shows nowhere.
LEMMA OneBlank ==
  ASSUME NEW k, \A j \in CallIds : j # k /\ calls'[j] # NoCall /\ calls'[j].tab = Here =>
                                     calls'[j].live = FALSE,
         k \in CallIds => \A x \in Subjects : ~Under(k, x)'
  PROVE  OneInv'
BY DEF OneInv, Under

\* A request that submits nothing.
LEMMA NotUnder ==
  ASSUME NEW k \in CallIds, NEW t, NEW fn, NEW arg, Takes(k, t, fn, arg),
         fn \notin {"submit", "save"}, fn \in {"load", "list"} => arg.after = None,
         NEW x \in Subjects
  PROVE  ~Under(k, x)'
BY WebAppAssumption, SettingsViewAssumption DEF Subjects, Under, Submits, Takes

LEMMA OneCalm ==
  ASSUME OneInv, CallsOK, UNCHANGED calls, Pending \subseteq Pending' PROVE OneInv'
<1>1. Marks(0) /\ 0 \notin CallIds
  BY MarksSame DEF CallIds
<1> QED  BY <1>1, OneStays

LEMMA OneHandled ==
  ASSUME OneInv, Pool(calls), CallsOK, NEW i \in CallIds, calls[i] # NoCall,
         NEW state, NEW got, Handle(i, state, got), Pending \subseteq Pending'
  PROVE  OneInv'
<1>1. PICK c, d : c = calls[i] /\ d = calls'[i]
  OBVIOUS
<1>2. Marks(i) /\ d.tab = c.tab /\ d.live = c.live /\ d.fn = c.fn /\ d.arg = c.arg
  BY <1>1, MarksHandle
<1>3. ASSUME NEW x \in Subjects, Under(i, x)' PROVE Under(i, x)
  <2>1. d.tab = Here /\ d.live /\ Submits(d, x)
    BY <1>1, <1>3 DEF Under
  <2>2. Submits(c, x)
    BY <1>2, <2>1 DEF Submits
  <2> QED  BY <1>1, <1>2, <2>1, <2>2 DEF Under
<1> QED  BY <1>2, <1>3, OneStays

\* A page loads on its own.
LEMMA OneLoads ==
  ASSUME OneInv, Pool(calls), CallsOK, NEW i \in CallIds, NEW fn \in {"load", "history"}, NEW arg,
         BeginLoad(i, fn, arg), fn = "load" => arg.after = None, Pending \subseteq Pending'
  PROVE  OneInv'
<1>1. Marks(i) /\ Takes(i, Here, fn, arg)
  BY MarksBegin
<1>2. \A x \in Subjects : ~Under(i, x)'
  BY <1>1, NotUnder
<1> QED  BY <1>1, <1>2, OneStays

\* A request ends that submits nothing any more, or with whatever was pending for it.
LEMMA OneDrops ==
  ASSUME OneInv, Pool(calls), CallsOK, NEW i \in CallIds, Put(i, NoCall),
         \/ Pending \subseteq Pending'
         \/ \E x \in Subjects : Under(i, x) /\ Pending \ {x} \subseteq Pending'
  PROVE  OneInv'
<1>1. Marks(0) /\ calls'[i] = NoCall /\ 0 \notin CallIds
  BY MarksDrop DEF CallIds
<1> QED  BY <1>1, OneStays, OneEnds

\* What was submitted is loaded in the same slot.
LEMMA OneReloads ==
  ASSUME OneInv, Pool(calls), CallsOK, NEW i \in CallIds, calls[i] # NoCall, NEW fn, NEW arg,
         NEW current, Reload(i, fn, arg, current), Pending \subseteq Pending',
         calls[i].tab = Here,
         \/ fn = "load" /\ calls[i].fn = "submit" /\ arg.after = calls[i].arg.dialog
         \/ fn = "list" /\ calls[i].fn = "save" /\ arg.after = calls[i].arg.key
         \/ fn = "list" /\ arg.after = "deleted"
  PROVE  OneInv'
<1>1. PICK c, d : c = calls[i] /\ d = calls'[i]
  OBVIOUS
<1>2. Marks(i) /\ d.tab = Here /\ d.live = c.live /\ d.fn = fn /\ d.arg = arg
  <2>1. Marks(i) /\ Takes(i, Here, fn, arg) /\ calls'[i].live = calls[i].live
    BY MarksReload
  <2> QED  BY <1>1, <2>1 DEF Takes
<1>3. ASSUME NEW x \in Subjects, Under(i, x)' PROVE Under(i, x)
  <2>1. d.live /\ Submits(d, x)
    BY <1>1, <1>3 DEF Under
  <2>2. Submits(c, x)
    BY <1>1, <1>2, <2>1 DEF Submits
  <2> QED  BY <1>1, <1>2, <2>1, <2>2 DEF Under
<1> QED  BY <1>2, <1>3, OneStays

\* Another page is rendered, or a section, or a document.
LEMMA OneRemounts ==
  ASSUME Pool(calls), CallsOK, NEW load \in BOOLEAN, NEW fn, NEW arg, Remount(load, fn, arg),
         load => fn \notin {"submit", "save"} /\ (fn \in {"load", "list"} => arg.after = None)
  PROVE  OneInv'
<1>1. PICK k \in {0} \cup CallIds :
           /\ k \in CallIds => Takes(k, Here, fn, arg)
           /\ k \in CallIds <=> load
           /\ \A j \in CallIds : j # k /\ calls'[j] # NoCall /\ calls'[j].tab = Here =>
                                   calls'[j].live = FALSE
  BY MarksRemount
<1>2. k \in CallIds => \A x \in Subjects : ~Under(k, x)'
  BY <1>1, NotUnder
<1> QED  BY <1>1, <1>2, OneBlank

LEMMA OneMounts ==
  ASSUME Pool(calls), CallsOK, NEW p, MountLoad(p) PROVE OneInv'
<1>1. CASE p = "inventory"
  <2>1. LoadArg([NoFilters EXCEPT !.word = query], None).after = None
    BY DEF LoadArg
  <2> QED  BY <1>1, <2>1, OneRemounts DEF MountLoad
<1>2. CASE p = "settings"
  <2>1. ListArg("outbound", None).after = None
    BY DEF ListArg
  <2> QED  BY <1>2, <2>1, OneRemounts DEF MountLoad
<1>3. CASE p = "history" \/ p = "home"
  BY <1>3, OneRemounts DEF MountLoad
<1>4. CASE p \notin {"inventory", "history", "home", "settings"}
  BY <1>4, OneRemounts DEF MountLoad
<1> QED  BY <1>1, <1>2, <1>3, <1>4

LEMMA OneOpens ==
  ASSUME OneInv, Pool(calls), CallsOK, init \in [Tabs -> BOOLEAN], NEW t \in Tabs, NEW r, OpenTab(t, r),
         t = Here \/ Pending \subseteq Pending'
  PROVE  OneInv'
<1>1. PICK k \in {0} \cup CallIds :
           /\ Marks(k) /\ (k \in CallIds => Takes(k, t, "me", stored))
           /\ \A j \in CallIds : j # k /\ calls'[j] # NoCall => calls'[j].tab # t
  BY MarksOpen
<1>2. k \in CallIds => \A x \in Subjects : ~Under(k, x)'
  BY <1>1, NotUnder
<1> QED  BY <1>1, <1>2, OneBlank, OneStays

LEMMA PendingStays == ASSUME UNCHANGED <<inventory, settings>> PROVE Pending' = Pending
  BY DEF Pending

\* The inventory page.
LEMMA OneInventoryClicked ==
  ASSUME OneInv, Base, ViewsOK, UNCHANGED settings, InventoryPage \/ \E i \in CallIds : Debounce(i)
  PROVE  OneInv'
<1>0. Pool(calls) /\ CallsOK
  BY StoredToken DEF Base
<1>1. PICK v, w : v = inventory /\ w = inventory'
  OBVIOUS
<1>2. v \in InventoryType
  BY <1>1 DEF ViewsOK, InventoryOK, FilledIn
<1>3. w.submitting = v.submitting => Pending \subseteq Pending'
  BY <1>1 DEF Pending
<1>4. CASE \E i \in CallIds : Submit(i)
  <2>1. PICK i \in CallIds : Submit(i)  BY <1>4
  <2>2. PICK d, arg : d = v.dialog /\ arg = [dialog |-> d, row |-> v.row,
                                             fields |-> v.fields, of |-> v.filters]
    OBVIOUS
  <2>3. /\ w = [v EXCEPT !.submitting = @ \cup {d}] /\ d \notin v.submitting /\ d # None
        /\ Send(i, "submit", arg)
    BY <1>1, <2>1, <2>2 DEF Submit, Ready
  <2>4. d \in Dialogs /\ w.submitting = v.submitting \cup {d}
    BY <1>2, <2>2, <2>3 DEF InventoryType
  <2>5. Marks(i) /\ Takes(i, Here, "submit", arg)
    BY <1>0, <2>3, MarksSend DEF Send
  <2>6. d \in Subjects /\ d # "form"
    BY <2>4 DEF Subjects, Dialogs
  <2>7. \A y \in Subjects : Under(i, y)' => y = d
    <3>1. PICK c : c = calls'[i]  OBVIOUS
    <3>2. c.fn = "submit" /\ c.arg = arg /\ arg.dialog = d
      BY <2>2, <2>5, <3>1 DEF Takes
    <3>3. \A y \in Subjects : Submits(c, y) => y = d
      BY <3>2 DEF Submits
    <3> QED  BY <3>1, <3>3 DEF Under
  <2>8. d \notin Pending /\ Pending \cup {d} \subseteq Pending'
    BY <1>1, <2>3, <2>4, <2>6 DEF Pending
  <2> QED  BY <2>5, <2>6, <2>7, <2>8, OneBegins
<1>5. ASSUME NEW i \in CallIds, NEW f, StartLoad(i, f), w.submitting = v.submitting PROVE OneInv'
  <2>1. LoadArg(f, None).after = None
    BY DEF LoadArg
  <2> QED  BY <1>0, <1>3, <1>5, <2>1, OneLoads DEF StartLoad
<1>6. CASE \E i \in CallIds : Refresh(i)
  BY <1>1, <1>5, <1>6 DEF Refresh
<1>7. CASE \E i \in CallIds : \E f \in FilterChoices : SetFilter(i, f)
  <2>1. PICK i \in CallIds, f \in FilterChoices : SetFilter(i, f)  BY <1>7
  <2>2. w = [v EXCEPT !.filters = f]  BY <1>1, <2>1 DEF SetFilter
  <2>3. w.submitting = v.submitting  BY <1>2, <2>2 DEF InventoryType
  <2> QED  BY <1>5, <2>1, <2>3 DEF SetFilter
<1>8. CASE \E i \in CallIds : Debounce(i)
  <2>1. PICK i \in CallIds : Debounce(i)  BY <1>8
  <2>2. w = [v EXCEPT !.filters = [v.filters EXCEPT !.word = v.typed]]
    BY <1>1, <2>1 DEF Debounce
  <2>3. w.submitting = v.submitting  BY <1>2, <2>2 DEF InventoryType
  <2> QED  BY <1>5, <2>1, <2>3 DEF Debounce
<1>9. CASE UNCHANGED calls /\ w.submitting = v.submitting
  BY <1>0, <1>3, <1>9, OneCalm
<1>10. CASE \/ CloseDetails \/ Dismiss
            \/ \E u \in Words \cup {NoWord} : Type(u)
            \/ \E p \in 1 .. Cardinality(Mats) : TurnPage(p)
            \/ \E m \in Mats : ShowDetails(m)
            \/ \E d \in Dialogs, r \in Mats \cup LotIds \cup {None} : OpenDialog(d, r)
  <2>1. UNCHANGED calls
    BY <1>10 DEF CloseDetails, Dismiss, Type, TurnPage, ShowDetails, OpenDialog, callVars
  <2>2. \/ w = [v EXCEPT !.details = FALSE] \/ w = [v EXCEPT !.dialog = None]
        \/ \E u : \/ w = [v EXCEPT !.typed = u] \/ w = [v EXCEPT !.pageNo = u]
                  \/ w = [v EXCEPT !.selected = u, !.details = TRUE]
        \/ \E d, r : w = [v EXCEPT !.dialog = d, !.row = r, !.fields = r]
    BY <1>1, <1>10 DEF CloseDetails, Dismiss, Type, TurnPage, ShowDetails, OpenDialog, Filled
  <2>3. w.submitting = v.submitting
    BY <1>2, <2>2 DEF InventoryType
  <2> QED  BY <1>9, <2>1, <2>3
<1> QED  BY <1>4, <1>6, <1>7, <1>8, <1>10 DEF InventoryPage

LEMMA OneInventorySettled ==
  ASSUME OneInv, Base, ViewsOK, UNCHANGED settings, NEW i \in CallIds, InventorySettles(i)
  PROVE  OneInv'
<1>0. Pool(calls) /\ CallsOK /\ ServerOK /\ FilledIn(inventory) /\ Ranged(inventory)
  BY StoredToken DEF Base, ViewsOK, InventoryOK
<1>1. PICK v, w, c, a : v = inventory /\ w = inventory' /\ c = calls[i] /\ a = calls[i].arg
  OBVIOUS
<1>2. c # NoCall /\ c.tab \in Tabs /\ c.fn \in {"load", "submit"}
  BY <1>1 DEF InventorySettles, LoadSettled, SubmitAnswered, SubmitFailed, Is
<1>3. c.tab = Here /\ ArgOK(c.fn, a)
  BY <1>0, <1>1, <1>2, CallTyped, WebCallsAssumption DEF CallOK, PageFns
<1>4. v \in InventoryType /\ FilledIn(v) /\ Ranged(v)
  BY <1>0, <1>1 DEF FilledIn
<1>5. w.submitting = v.submitting => Pending \subseteq Pending'
  BY <1>1 DEF Pending
<1>6. ASSUME NEW x, w.submitting = v.submitting \ {x}, Put(i, NoCall), c.live,
             x = None \/ (x \in Dialogs /\ Submits(c, x))
      PROVE  OneInv'
  <2>1. Pending \ {x} \subseteq Pending'
    BY <1>1, <1>6 DEF Pending
  <2>2. CASE x = None
    <3>1. w.submitting = v.submitting
      BY <1>4, <1>6, <2>2, WebAppAssumption DEF InventoryType
    <3> QED  BY <1>0, <1>5, <1>6, <3>1, OneDrops
  <2>3. CASE x \in Dialogs /\ Submits(c, x)
    <3>1. x \in Subjects /\ Under(i, x)
      BY <1>1, <1>2, <1>3, <1>6, <2>3 DEF Subjects, Under
    <3> QED  BY <1>0, <1>6, <2>1, <3>1, OneDrops
  <2> QED  BY <1>6, <2>2, <2>3
<1>7. ASSUME w = v, Put(i, NoCall) PROVE OneInv'
  BY <1>0, <1>5, <1>7, OneDrops
<1>8. Live(i) => c.live
  BY <1>1 DEF Live
<1>9. CASE LoadSettled(i)
  <2>1. c.fn = "load" /\ Put(i, NoCall)
    BY <1>1, <1>9 DEF LoadSettled, Is, EndLoad
  <2>2. a.after \in Dialogs \cup {None}
    BY <1>3, <2>1 DEF ArgOK
  <2>3. a.after = None \/ Submits(c, a.after)
    BY <1>1, <2>1, <2>2 DEF Submits
  <2>4. CASE Live(i) /\ w = Finished(v, a.after)
    <3>1. w.submitting = v.submitting \ {a.after}
      BY <1>4, <2>2, <2>4, FinishedTyped
    <3> QED  BY <1>6, <1>8, <2>1, <2>2, <2>3, <2>4, <3>1
  <2>5. CASE Live(i) /\ Good(i) /\ w = Finished(Shown(v, c.got, a.of), a.after)
    <3>1. PICK u, got : u = Shown(v, c.got, a.of) /\ got = c.got
      OBVIOUS
    <3>2. got \in [rows : SUBSET Mats, details : SUBSET Lots, asOf : Nat] /\ a.of \in Filters
      <4>1. Loaded(a, "ok", got) /\ ArgOK("load", a)
        BY <1>0, <1>1, <1>2, <2>1, <2>5, <3>1, CallTyped DEF CallOK, GotOK, Good
      <4> QED  BY <4>1, NowTyped, <1>0 DEF Loaded, ArgOK
    <3>3. FilledIn(u) /\ Ranged(u) /\ u.submitting = v.submitting
      BY <1>4, <3>1, <3>2, ShownTyped
    <3>4. w.submitting = v.submitting \ {a.after}
      BY <2>2, <2>5, <3>1, <3>3, FinishedTyped
    <3> QED  BY <1>6, <1>8, <2>1, <2>2, <2>3, <2>5, <3>4
  <2>6. \/ Live(i) /\ w = Finished(v, a.after)
        \/ Live(i) /\ Good(i) /\ w = Finished(Shown(v, c.got, a.of), a.after)
        \/ w = v
    <3>1. \/ Good(i) /\ w = IF Live(i) THEN Finished(Shown(v, c.got, a.of), a.after) ELSE v
          \/ w = IF Live(i) THEN Finished(v, a.after) ELSE v
      BY ONLY <1>1, <1>9 DEF LoadSettled
    <3> QED  BY <3>1
  <2> QED  BY <1>7, <2>1, <2>4, <2>5, <2>6
<1>10. CASE SubmitAnswered(i)
  <2>1. c.fn = "submit" /\ LoadArg(a.of, a.dialog).after = a.dialog /\ w = v
    BY <1>1, <1>10 DEF SubmitAnswered, Is, LoadArg
  <2>2. Reload(i, "load", LoadArg(a.of, a.dialog), a.of = inventory.filters)
    BY <1>1, <1>10 DEF SubmitAnswered
  <2> QED  BY <1>0, <1>1, <1>2, <1>3, <1>5, <2>1, <2>2, OneReloads
<1>11. CASE SubmitFailed(i)
  <2>1. c.fn = "submit" /\ Put(i, NoCall)
    BY <1>1, <1>11 DEF SubmitFailed, Is
  <2>2. a.dialog \in Dialogs
    BY <1>3, <2>1 DEF ArgOK, SubmitOK
  <2>3. Submits(c, a.dialog)
    BY <1>1, <2>1, <2>2 DEF Submits
  <2>4. CASE Live(i) /\ w = [v EXCEPT !.submitting = @ \ {a.dialog}]
    <3>1. w.submitting = v.submitting \ {a.dialog}
      BY <1>4, <2>4 DEF InventoryType
    <3> QED  BY <1>6, <1>8, <2>1, <2>2, <2>3, <2>4, <3>1
  <2> QED  BY <1>1, <1>7, <1>11, <2>1, <2>4 DEF SubmitFailed
<1> QED  BY <1>9, <1>10, <1>11 DEF InventorySettles

\* A section of the settings.
LEMMA OneSettingsClicked ==
  ASSUME OneInv, Base, ViewsOK, UNCHANGED inventory, SettingsPage
  PROVE  OneInv'
<1>0. Pool(calls) /\ CallsOK
  BY StoredToken DEF Base
<1>1. PICK v, w : v = settings /\ w = settings'
  OBVIOUS
<1>2. v \in SettingsType
  BY <1>1 DEF ViewsOK, SettingsOK, Edited
<1>3. v.saving \subseteq w.saving => Pending \subseteq Pending'
  BY <1>1 DEF Pending
<1>4. CASE \E s \in Sections : ShowSection(s)
  <2>1. PICK s \in Sections : Remount(s \in Listed, "list", ListArg(s, None))
    BY <1>4 DEF ShowSection
  <2>2. ListArg(s, None).after = None /\ (s \in Listed) \in BOOLEAN
    BY DEF ListArg
  <2> QED  BY <1>0, <2>1, <2>2, OneRemounts
<1>5. ASSUME NEW i \in CallIds, NEW key \in Keys, NEW row, NEW fields, Save(i, key, row, fields)
      PROVE  OneInv'
  <2>1. PICK arg : arg = [section |-> v.section, key |-> key, row |-> row, fields |-> fields]
    OBVIOUS
  <2>2. /\ w = [v EXCEPT !.saving = @ \cup {key}] /\ (key = "form" => key \notin v.saving)
        /\ Send(i, "save", arg)
    BY <1>1, <1>5, <2>1 DEF Save, MaySave
  <2>3. w.saving = v.saving \cup {key}
    BY <1>2, <2>2 DEF SettingsType
  <2>4. Marks(i) /\ Takes(i, Here, "save", arg)
    BY <1>0, <2>2, MarksSend DEF Send
  <2>5. \A y \in Subjects : Under(i, y)' => y = "form" /\ key = "form"
    <3>1. PICK c : c = calls'[i]  OBVIOUS
    <3>2. c.fn = "save" /\ c.arg = arg /\ arg.key = key
      BY <2>1, <2>4, <3>1 DEF Takes
    <3>3. \A y \in Subjects : Submits(c, y) => y = "form" /\ key = "form"
      BY <3>2 DEF Submits
    <3> QED  BY <3>1, <3>3 DEF Under
  <2>6. CASE key = "form"
    <3>1. "form" \in Subjects /\ "form" \notin inventory.submitting
      BY DEF Subjects, ViewsOK, InventoryOK, FilledIn, InventoryType, Dialogs
    <3>2. "form" \notin Pending /\ Pending \cup {"form"} \subseteq Pending'
      BY <1>1, <2>2, <2>3, <2>6, <3>1 DEF Pending
    <3> QED  BY <2>4, <2>5, <3>1, <3>2, OneBegins
  <2>7. CASE key # "form"
    BY <1>3, <2>3, <2>4, <2>5, <2>7, OneStays
  <2> QED  BY <2>6, <2>7
<1>6. CASE \E i \in CallIds : \/ SaveForm(i) \/ AddCategory(i) \/ UpdateCategory(i) \/ SaveCron(i)
                              \/ \E right \in BOOLEAN : ChangePassword(i, right)
  <2>1. PICK i \in CallIds : \/ SaveForm(i) \/ AddCategory(i) \/ UpdateCategory(i) \/ SaveCron(i)
                             \/ \E right \in BOOLEAN : ChangePassword(i, right)
    BY <1>6
  <2>2. settings.editing # None => settings.editing \in Keys
    BY <1>1, <1>2 DEF SettingsType, Keys
  <2>3. \E key \in Keys : \E row, fields : Save(i, key, row, fields)
    BY <2>1, <2>2 DEF SaveForm, AddCategory, UpdateCategory, SaveCron, ChangePassword, Keys
  <2> QED  BY <1>5, <2>3
<1>7. CASE \/ CancelEdit
           \/ \E r \in Names \cup {New} : StartEdit(r)
           \/ \E x \in Names : EditCron(x)
  <2>1. UNCHANGED calls
    BY <1>7 DEF CancelEdit, StartEdit, EditCron, callVars
  <2>2. \/ w = [v EXCEPT !.editing = None]
        \/ \E r : w = [v EXCEPT !.editing = r, !.fields = r] \/ w = [v EXCEPT !.fields = r]
    BY <1>1, <1>7 DEF CancelEdit, StartEdit, Editing, EditCron
  <2>3. w.saving = v.saving
    BY <1>2, <2>2 DEF SettingsType
  <2> QED  BY <1>0, <1>3, <2>1, <2>3, OneCalm
<1>8. CASE \E i \in CallIds : \E r \in Names : Delete(i, r) \/ Test(i, r)
  <2>1. PICK i \in CallIds, r \in Names : Delete(i, r) \/ Test(i, r)
    BY <1>8
  <2>2. (\E x : w = [v EXCEPT !.deleting = x]) \/ w = [v EXCEPT !.testing = TRUE]
    BY <1>1, <2>1 DEF Delete, Test
  <2>3. w.saving = v.saving
    BY <1>2, <2>2 DEF SettingsType
  <2>4. PICK fn \in {"delete", "test"}, arg \in {calls'[i].arg} : Send(i, fn, arg)
    BY <1>0, <2>1, MarksSend DEF Delete, Test, Send, Takes
  <2>5. Marks(i) /\ Takes(i, Here, fn, arg)
    BY <1>0, <2>4, MarksSend DEF Send
  <2>6. \A x \in Subjects : ~Under(i, x)'
    BY <2>5, NotUnder
  <2> QED  BY <1>3, <2>3, <2>5, <2>6, OneStays
<1> QED  BY <1>4, <1>6, <1>7, <1>8 DEF SettingsPage

LEMMA OneSettingsSettled ==
  ASSUME OneInv, Base, ViewsOK, UNCHANGED inventory, NEW i \in CallIds, SettingsSettles(i)
  PROVE  OneInv'
<1>0. Pool(calls) /\ CallsOK /\ ServerOK
  BY StoredToken DEF Base
<1>1. PICK v, w, c, a : v = settings /\ w = settings' /\ c = calls[i] /\ a = calls[i].arg
  OBVIOUS
<1>2. c # NoCall /\ c.tab \in Tabs /\ c.fn \in {"list", "save", "delete", "test"}
  BY <1>1 DEF SettingsSettles, ListSettled, SaveAnswered, SaveFailed, DeleteAnswered, DeleteFailed,
              TestSettled, Is
<1>3. c.tab = Here /\ ArgOK(c.fn, a)
  BY <1>0, <1>1, <1>2, CallTyped, WebCallsAssumption DEF CallOK, PageFns
<1>4. v \in SettingsType /\ Edited(v)
  BY <1>1 DEF ViewsOK, SettingsOK, Edited
<1>5. v.saving \subseteq w.saving => Pending \subseteq Pending'
  BY <1>1 DEF Pending
<1>6. ASSUME NEW x, w.saving = v.saving \ {x}, Put(i, NoCall), c.live, x = "form" => Submits(c, x)
      PROVE  OneInv'
  <2>1. CASE x # "form"
    <3>1. Pending \subseteq Pending'
      BY <1>1, <1>6, <2>1 DEF Pending
    <3> QED  BY <1>0, <1>6, <3>1, OneDrops
  <2>2. CASE x = "form"
    <3>1. x \in Subjects /\ Under(i, x)
      BY <1>1, <1>2, <1>3, <1>6, <2>2 DEF Subjects, Under
    <3>2. Pending \ {x} \subseteq Pending'
      BY <1>1, <1>6 DEF Pending
    <3> QED  BY <1>0, <1>6, <3>1, <3>2, OneDrops
  <2> QED  BY <2>1, <2>2
<1>7. ASSUME v.saving \subseteq w.saving, Put(i, NoCall) PROVE OneInv'
  BY <1>0, <1>5, <1>7, OneDrops
<1>8. Live(i) => c.live
  BY <1>1 DEF Live
<1>9. ASSUME NEW x, x = "form" => Submits(c, x), Put(i, NoCall), w = IF Live(i) THEN Done(v, x) ELSE v
      PROVE  OneInv'
  <2>1. CASE Live(i)
    <3>1. w.saving = v.saving \ {x}
      BY <1>4, <1>9, <2>1, DoneTyped
    <3> QED  BY <1>6, <1>8, <1>9, <2>1, <3>1
  <2> QED  BY <1>7, <1>9, <2>1
<1>10. CASE ListSettled(i)
  <2>1. c.fn = "list" /\ Put(i, NoCall)
    BY <1>1, <1>10 DEF ListSettled, Is, EndLoad
  <2>2. a.after = "form" => Submits(c, a.after)
    BY <1>1, <2>1 DEF Submits
  <2>3. CASE w = IF Live(i) THEN Done(v, a.after) ELSE v
    BY <1>9, <2>1, <2>2, <2>3
  <2>4. CASE Good(i) /\ Live(i) /\ w = Done(Listing(v, c.got), a.after)
    <3>1. PICK u, got : u = Listing(v, c.got) /\ got = c.got
      OBVIOUS
    <3>2. got \in [rows : SUBSET Names, asOf : Nat]
      <4>1. LoadedList(a, got)
        BY <1>0, <1>1, <1>2, <2>1, <2>4, <3>1, CallTyped DEF CallOK, GotOK, Good
      <4> QED  BY <4>1, NowTyped, <1>0 DEF LoadedList
    <3>3. Edited(u) /\ u.saving = v.saving
      BY <1>4, <3>1, <3>2, ListingTyped
    <3>4. w.saving = v.saving \ {a.after}
      BY <2>4, <3>1, <3>3, DoneTyped
    <3> QED  BY <1>6, <1>8, <2>1, <2>2, <2>4, <3>4
  <2>5. \/ w = IF Live(i) THEN Done(v, a.after) ELSE v
        \/ Good(i) /\ w = IF Live(i) THEN Done(Listing(v, c.got), a.after) ELSE v
    BY <1>1, <1>10 DEF ListSettled
  <2> QED  BY <1>7, <2>1, <2>3, <2>4, <2>5
<1>11. CASE SaveAnswered(i)
  <2>1. c.fn = "save" /\ SaveOK(a)
    BY <1>1, <1>3, <1>11 DEF SaveAnswered, Is, ArgOK
  <2>2. CASE a.section = "password"
    <3>1. Put(i, NoCall) /\ w = IF Live(i) THEN Done(v, "form") ELSE v
      BY <1>1, <1>11, <2>2 DEF SaveAnswered
    <3>2. Submits(c, "form")
      BY <1>1, <2>1, <2>2 DEF Submits, SaveOK
    <3> QED  BY <1>9, <3>1, <3>2
  <2>3. CASE a.section # "password"
    <3>1. Reload(i, "list", ListArg(a.section, a.key), TRUE) /\ ListArg(a.section, a.key).after = a.key
      BY <1>1, <1>11, <2>3 DEF SaveAnswered, ListArg
    <3>2. w = v \/ w = [v EXCEPT !.editing = None, !.fields = None]
      BY <1>1, <1>11, <2>3 DEF SaveAnswered
    <3>3. v.saving \subseteq w.saving
      BY <1>4, <3>2 DEF SettingsType
    <3> QED  BY <1>0, <1>1, <1>2, <1>3, <1>5, <2>1, <3>1, <3>3, OneReloads
  <2> QED  BY <2>2, <2>3
<1>12. CASE SaveFailed(i)
  <2>1. c.fn = "save" /\ Put(i, NoCall) /\ w = IF Live(i) THEN Done(v, a.key) ELSE v
    BY <1>1, <1>12 DEF SaveFailed, Is
  <2>2. a.key = "form" => Submits(c, a.key)
    BY <1>1, <2>1 DEF Submits
  <2> QED  BY <1>9, <2>1, <2>2
<1>13. CASE DeleteAnswered(i)
  <2>1. Reload(i, "list", ListArg(a.section, "deleted"), TRUE) /\ w = v
    BY <1>1, <1>13 DEF DeleteAnswered
  <2>2. ListArg(a.section, "deleted").after = "deleted"
    BY DEF ListArg
  <2> QED  BY <1>0, <1>1, <1>2, <1>3, <1>5, <2>1, <2>2, OneReloads
<1>14. CASE DeleteFailed(i)
  <2>1. Put(i, NoCall) /\ w = IF Live(i) THEN Done(v, "deleted") ELSE v
    BY <1>1, <1>14 DEF DeleteFailed
  <2> QED  BY <1>9, <2>1
<1>15. CASE TestSettled(i)
  <2>1. Put(i, NoCall) /\ (w = v \/ w = [v EXCEPT !.testing = FALSE])
    BY <1>1, <1>15 DEF TestSettled
  <2>2. v.saving \subseteq w.saving
    BY <1>4, <2>1 DEF SettingsType
  <2> QED  BY <1>7, <2>1, <2>2
<1> QED  BY <1>10, <1>11, <1>12, <1>13, <1>14, <1>15 DEF SettingsSettles

\* The history page and the dashboard submit nothing.
LEMMA OneElsewhere ==
  ASSUME OneInv, Base, ViewsOK, UNCHANGED <<inventory, settings>>,
         HistoryPage \/ DebounceHistory \/ \E i \in CallIds : HistorySettled(i) \/ StatsSettled(i)
  PROVE  OneInv'
<1>0. Pool(calls) /\ CallsOK /\ Pending' = Pending
  BY StoredToken, PendingStays DEF Base
<1>1. CASE UNCHANGED calls
  BY <1>0, <1>1, OneCalm
<1>2. CASE \E i \in CallIds : HistorySettled(i) \/ StatsSettled(i)
  <2>1. PICK i \in CallIds : Put(i, NoCall)
    BY <1>2 DEF HistorySettled, StatsSettled, EndLoad
  <2> QED  BY <1>0, <2>1, OneDrops
<1>3. CASE \E i \in CallIds : \E f : BeginLoad(i, "history", f)
  BY <1>0, <1>3, OneLoads
<1>4. HistoryPage \/ DebounceHistory =>
        UNCHANGED calls \/ \E i \in CallIds : \E f : BeginLoad(i, "history", f)
  BY DEF HistoryPage, RefreshHistory, FilterHistory, TypeHistory, OpenLog, CloseLog,
         DebounceHistory, callVars
<1> QED  BY <1>1, <1>2, <1>3, <1>4

\* What the server does to the pool: it answers one request, whichever it is.
Serves(i) ==
    \/ SessionServes(i) \/ ServeSubmit(i) \/ SettingsChanges(i)
    \/ InventoryReads(i) \/ HistoryReads(i) \/ ServeStats(i) \/ SettingsReads(i)
LEMMA ServesHandle ==
  ASSUME NEW i \in CallIds, Serves(i)
  PROVE  calls[i] # NoCall /\ \E state, got : Handle(i, state, got)
<1>1. CASE SessionServes(i)
  BY <1>1 DEF SessionServes, ServeLogin, ServePlain, ServeRefused, Heard, Is
<1>2. CASE ServeSubmit(i)
  BY <1>2 DEF ServeSubmit, Heard, Is
<1>3. CASE SettingsChanges(i)
  BY <1>3 DEF SettingsChanges, ServeSave, ServeDelete, Heard, Is
<1>4. CASE InventoryReads(i) \/ HistoryReads(i)
  BY <1>4 DEF InventoryReads, ServeMaterials, ServeLots, HistoryReads, ServeMoves, ServeLogs,
              HandleRows, HandleDetails, Heard, Is
<1>5. CASE ServeStats(i) \/ SettingsReads(i)
  BY <1>5 DEF ServeStats, SettingsReads, ServeList, ServeTest, ServeUnrouted, Unrouted,
              HandleRows, HandleDetails, Heard, Is
<1> QED  BY <1>1, <1>2, <1>3, <1>4, <1>5 DEF Serves

\* A step of the session, of the server or of others.
LEMMA OneSession ==
  ASSUME OneInv, Base, ViewsOK, UNCHANGED viewVars,
         \/ SessionClicks \/ OthersChange
         \/ \E i \in CallIds : SessionSettles(i) \/ Serves(i)
  PROVE  OneInv'
<1>0. Pool(calls) /\ CallsOK /\ Pending' = Pending
  BY StoredToken, PendingStays DEF Base, viewVars
<1>1. CASE UNCHANGED calls
  BY <1>0, <1>1, OneCalm
<1>2. ASSUME NEW i \in CallIds, NEW t, NEW fn \in {"poll", "login"}, NEW arg, Put(i, Request(t, fn, arg))
      PROVE  OneInv'
  <2>1. Marks(i) /\ Takes(i, t, fn, arg)
    BY <1>0, <1>2, MarksSend
  <2>2. \A x \in Subjects : ~Under(i, x)'
    BY <2>1, NotUnder
  <2> QED  BY <1>0, <2>1, <2>2, OneStays
<1>3. CASE SessionClicks
  BY <1>1, <1>2, <1>3 DEF SessionClicks, Poll, LoginSubmit, Logout, TokensDie, Navigate, HeaderSearch,
                          callVars
<1>4. CASE OthersChange
  BY <1>1, <1>4 DEF OthersChange, callVars
<1>5. ASSUME NEW i \in CallIds, SessionSettles(i) PROVE OneInv'
  <2>1. Put(i, NoCall)
    BY <1>5 DEF SessionSettles, MeAnswered, MeFailed, LoginAnswered, Unauthorized, PlainSettled
  <2> QED  BY <1>0, <2>1, OneDrops
<1>6. ASSUME NEW i \in CallIds, Serves(i) PROVE OneInv'
  BY <1>0, <1>6, ServesHandle, OneHandled
<1> QED  BY <1>3, <1>4, <1>5, <1>6

LEMMA OneStep ==
  ASSUME OneInv, Base, ViewsOK, [Next]_vars PROVE OneInv'
<1>0. /\ Pool(calls) /\ CallsOK /\ init \in [Tabs -> BOOLEAN]
  BY StoredToken DEF Base, SessionTypes
<1>1. CASE Render
  BY <1>0, <1>1, OneMounts DEF Render
<1>2. CASE Timer
  BY <1>2, OneInventoryClicked, OneElsewhere DEF Timer
<1>3. ASSUME NEW i \in CallIds, Advance(i) PROVE OneInv'
  <2>1. CASE \/ InventorySettles(i) /\ UNCHANGED <<viewFrame, history, home, settings, shopping>>
             \/ HistorySettled(i) /\ UNCHANGED <<viewFrame, inventory, home, settings, shopping>>
             \/ StatsSettled(i) /\ UNCHANGED <<viewFrame, inventory, history, settings, shopping>>
             \/ SettingsSettles(i) /\ UNCHANGED <<viewFrame, inventory, history, home, shopping>>
    BY <2>1, OneInventorySettled, OneSettingsSettled, OneElsewhere
  <2>2. CASE /\ UNCHANGED viewVars
             /\ SessionSettles(i) \/ Serves(i)
    BY <2>2, OneSession
  <2> QED  BY <1>3, <2>1, <2>2 DEF Advance, Serves, sessionFrame
<1>4. CASE Users
  <2>1. CASE (SessionClicks \/ OthersChange) /\ UNCHANGED viewVars
    BY <2>1, OneSession
  <2>2. CASE \E r \in Routes : Reopen(r)
    BY <1>0, <2>2, OneOpens, WebCallsAssumption DEF Reopen
  <2>3. CASE \E t \in Tabs \ {Here}, r \in Routes : OpenTab(t, r) /\ UNCHANGED sessionFrame
    <3>1. UNCHANGED <<inventory, settings>>
      BY <2>3 DEF sessionFrame, viewVars
    <3> QED  BY <1>0, <2>3, <3>1, PendingStays, OneOpens
  <2>4. CASE \/ InventoryPage /\ UNCHANGED <<viewFrame, history, home, settings, shopping>>
             \/ HistoryPage /\ UNCHANGED <<viewFrame, inventory, home, settings, shopping>>
             \/ SettingsPage /\ UNCHANGED <<viewFrame, inventory, history, home, shopping>>
    BY <2>4, OneInventoryClicked, OneElsewhere, OneSettingsClicked
  <2>5. CASE /\ ShoppingPage \/ \E x \in Items : OtherTabSaves(x)
             /\ UNCHANGED <<authVars, page, dbVars, inventory, history, home, settings>>
    <3>1. UNCHANGED calls /\ UNCHANGED <<inventory, settings>>
      BY <2>5 DEF ShoppingPage, AddItem, ToggleItem, Keep, OtherTabSaves, callVars
    <3> QED  BY <1>0, <3>1, OneCalm, PendingStays
  <2>6. OthersChange /\ UNCHANGED <<authVars, page, items, history, home, settings,
                                       shopping, storedItems>> => UNCHANGED viewVars
    BY DEF OthersChange, viewVars
  <2>7. UNCHANGED sessionFrame => UNCHANGED viewVars
    BY DEF sessionFrame
  <2> QED  BY <1>4, <2>1, <2>2, <2>3, <2>4, <2>5, <2>6, <2>7 DEF Users
<1>5. CASE UNCHANGED vars
  BY <1>0, <1>5, OneCalm, PendingStays DEF vars, viewVars, callVars
<1> QED  BY <1>1, <1>2, <1>3, <1>4, <1>5 DEF Next, Work

\* A dialog, or the form of a section, has one submission under way at a time, from
\* its button to the end of the load that follows: the flags that disable the buttons
\* are reset by no one else (submitting, saving and their finally blocks).
THEOREM OneSubmissionCorrect == Spec => []OneSubmissionAtATime
<1>1. Init => OneInv
  BY DEF Init, OneInv, Under
<1>2. OneInv => OneSubmissionAtATime
  <2>1. \A d \in Dialogs : UnderWay(d) = {i \in CallIds : Under(i, d)}
    BY DEF UnderWay, Under, Submits, Ours, Is, Dialogs
  <2>2. FormUnderWay = {i \in CallIds : Under(i, "form")}
    BY DEF FormUnderWay, Under, Submits, Ours, Is, Dialogs
  <2>3. Dialogs \subseteq Subjects /\ "form" \in Subjects
    BY DEF Subjects
  <2> QED  BY <2>1, <2>2, <2>3 DEF OneInv, OneSubmissionAtATime
<1> QED  BY <1>1, <1>2, TypedAtFirst, TypesStay, OneStep, PTL DEF Spec

-----------------------------------------------------------------------------
(* A quiet view is current *)

\* While a page is rendered its tab is ready; whoever signs in has no page yet.
Waits(i, fn) == calls[i] # NoCall /\ calls[i].tab = Here /\ calls[i].fn = fn
SessionInv ==
    /\ page \in Pages => init[Here]
    /\ \A i \in CallIds : Waits(i, "me") => ~init[Here] /\ \A j \in CallIds : Waits(j, "me") => i = j
    /\ \A i \in CallIds : Waits(i, "login") =>
         at[Here] = "login" /\ page = None /\ \A j \in CallIds : Waits(j, "login") => i = j

LEMMA MarkedAsks ==
  ASSUME NEW j, Marked(j), NEW fn, Waits(j, fn)' PROVE Waits(j, fn)
<1>1. PICK c, d : c = calls[j] /\ d = calls'[j]
  OBVIOUS
<1>2. c # NoCall /\ d.fn = c.fn /\ d.tab \in {c.tab, NoTab} /\ d.tab = Here /\ d.fn = fn
  BY <1>1 DEF Marked, Waits
<1> QED  BY <1>1, <1>2, WebCallsAssumption DEF Waits

\* Nothing new is asked, and the session of the tab stays or is over.
LEMMA SessionStays ==
  ASSUME SessionInv, NEW k, Marks(k),
         k \in CallIds => \A fn \in {"me", "login"} : Waits(k, fn)' => Waits(k, fn),
         init'[Here] = init[Here], page' = page,
         at'[Here] \in {at[Here], "login"} \/ \A i \in CallIds : ~Waits(i, "login")
  PROVE  SessionInv'
<1>1. ASSUME NEW j \in CallIds, NEW fn \in {"me", "login"}, Waits(j, fn)' PROVE Waits(j, fn)
  <2>1. CASE j = k
    BY <1>1, <2>1
  <2>2. CASE j # k
    BY <1>1, <2>2, MarkedAsks DEF Marks, Waits
  <2> QED  BY <2>1, <2>2
<1>2. (page \in Pages => init[Here])'
  BY DEF SessionInv, Pages
<1>3. \A i \in CallIds : Waits(i, "me")' => ~init'[Here] /\ \A j \in CallIds : Waits(j, "me")' => i = j
  BY <1>1 DEF SessionInv
<1>4. \A i \in CallIds : Waits(i, "login")' =>
         at'[Here] = "login" /\ page' = None /\ \A j \in CallIds : Waits(j, "login")' => i = j
  BY <1>1 DEF SessionInv
<1> QED  BY <1>2, <1>3, <1>4 DEF SessionInv

LEMMA SessionSame ==
  ASSUME SessionInv, CallsOK, UNCHANGED <<authVars, page, calls>> PROVE SessionInv'
<1>1. Marks(0) /\ 0 \notin CallIds
  BY MarksSame DEF CallIds
<1>2. init'[Here] = init[Here] /\ page' = page /\ at'[Here] = at[Here]
  BY DEF authVars
<1> QED  BY <1>1, <1>2, SessionStays

\* A page asks for something, or is answered.
LEMMA SessionPages ==
  ASSUME SessionInv, NEW k \in {0} \cup CallIds, Marks(k),
         k \in CallIds => calls'[k].fn \notin {"me", "login"},
         UNCHANGED <<authVars, page>>
  PROVE  SessionInv'
<1>1. k \in CallIds => \A fn \in {"me", "login"} : ~Waits(k, fn)'
  BY DEF Waits
<1>2. init'[Here] = init[Here] /\ page' = page /\ at'[Here] = at[Here]
  BY DEF authVars
<1> QED  BY <1>1, <1>2, SessionStays

LEMMA RedirectedAt ==
  ASSUME SessionTypes, NEW t \in Tabs PROVE Redirected[t] \in {at[t], "login"}
BY DEF Redirected, SessionTypes

\* Whoever waits for a login has no page.
LEMMA NobodyWaits ==
  ASSUME SessionInv, Mounted(Here) PROVE \A i \in CallIds : ~Waits(i, "login")
BY DEF SessionInv, Mounted, Pages

LEMMA SessionSettled ==
  ASSUME SessionInv, Base, NEW i \in CallIds, SessionSettles(i), UNCHANGED page PROVE SessionInv'
<1>0. /\ Pool(calls) /\ CallsOK /\ SessionTypes /\ 0 \notin CallIds /\ Here \in Tabs
      /\ init \in [Tabs -> BOOLEAN] /\ at \in [Tabs -> Routes]
  BY StoredToken, WebCallsAssumption DEF Base, SessionTypes, CallIds
<1>1. PICK c, t : c = calls[i] /\ t = c.tab
  OBVIOUS
<1>2. Put(i, NoCall) /\ c # NoCall
  BY <1>1 DEF SessionSettles, MeAnswered, MeFailed, LoginAnswered, Unauthorized, PlainSettled, Is
<1>3. Marks(0) /\ calls'[i] = NoCall
  BY <1>0, <1>2, MarksDrop
<1>4. CASE init'[Here] = init[Here] /\ at'[Here] \in {at[Here], "login"}
  BY <1>0, <1>3, <1>4, SessionStays
<1>5. \A j \in CallIds, fn \in {"me", "login"} : Waits(j, fn)' => Waits(j, fn) /\ j # i
  BY <1>0, <1>3, MarkedAsks DEF Marks, Waits
<1>6. CASE /\ MeAnswered(i) \/ MeFailed(i) \/ Unauthorized(i)
           /\ init'[Here] # init[Here]
  <2>1. /\ at' = Redirected /\ t \in Tabs
        /\ \/ init' = [init EXCEPT ![t] = TRUE] /\ c.fn = "me"
           \/ init' = [init EXCEPT ![t] = @ \/ c.fn = "me"]
    BY <1>1, <1>6 DEF MeAnswered, MeFailed, Unauthorized, Is
  <2>2. t = Here /\ c.fn = "me" /\ init'[Here]
    BY <1>0, <1>6, <2>1
  <2>3. Waits(i, "me")
    BY <1>1, <1>2, <2>2 DEF Waits
  <2>4. \A j \in CallIds : ~Waits(j, "me")'
    BY <1>5, <2>3 DEF SessionInv
  <2>5. at'[Here] \in {at[Here], "login"}
    BY <1>0, <2>1, RedirectedAt
  <2> QED  BY <1>5, <2>2, <2>4, <2>5 DEF SessionInv
<1>7. CASE /\ MeAnswered(i) \/ MeFailed(i) \/ Unauthorized(i)
           /\ init'[Here] = init[Here]
  BY <1>0, <1>4, <1>7, RedirectedAt DEF MeAnswered, MeFailed, Unauthorized
<1>8. CASE LoginAnswered(i)
  <2>1. at' = [at EXCEPT ![t] = "home"] /\ c.fn = "login" /\ t \in Tabs /\ init' = init
    BY <1>1, <1>8 DEF LoginAnswered, Is
  <2>2. CASE t # Here
    BY <1>0, <1>4, <2>1, <2>2
  <2>3. CASE t = Here
    <3>1. Waits(i, "login")
      BY <1>1, <1>2, <2>1, <2>3 DEF Waits
    <3>2. \A j \in CallIds : ~Waits(j, "login")'
      BY <1>5, <3>1 DEF SessionInv
    <3> QED  BY <1>5, <2>1, <3>2 DEF SessionInv
  <2> QED  BY <2>2, <2>3
<1>9. CASE PlainSettled(i)
  BY <1>4, <1>9 DEF PlainSettled, authVars
<1> QED  BY <1>6, <1>7, <1>8, <1>9 DEF SessionSettles

LEMMA SessionClicked ==
  ASSUME SessionInv, Base, SessionClicks, UNCHANGED page PROVE SessionInv'
<1>0. /\ Pool(calls) /\ CallsOK /\ SessionTypes /\ 0 \notin CallIds /\ Here \in Tabs
      /\ at \in [Tabs -> Routes]
  BY StoredToken, WebCallsAssumption DEF Base, SessionTypes, CallIds
<1>1. CASE TokensDie
  BY <1>0, <1>1, MarksSame, SessionStays DEF TokensDie, callVars
<1>2. CASE (\E p \in Pages : Navigate(p)) \/ (\E w \in Words : HeaderSearch(w))
  <2>1. Mounted(Here) /\ UNCHANGED <<calls, init>>
    BY <1>2 DEF Navigate, HeaderSearch, Route, callVars
  <2> QED  BY <1>0, <2>1, MarksSame, SessionStays, NobodyWaits
<1>3. CASE \E t \in Tabs : Logout(t)
  <2>1. UNCHANGED <<calls, init>> /\ at'[Here] \in {at[Here], "login"}
    BY <1>0, <1>3 DEF Logout
  <2> QED  BY <1>0, <2>1, MarksSame, SessionStays
<1>4. CASE \E i \in CallIds : \E t \in Tabs : Poll(t, i)
  <2>1. PICK i \in CallIds, t \in Tabs : Poll(t, i)  BY <1>4
  <2>2. Marks(i) /\ Takes(i, t, "poll", None)
    BY <1>0, <2>1, MarksSend DEF Poll
  <2> QED  BY <2>1, <2>2, SessionPages DEF Poll, Takes
<1>5. ASSUME NEW i \in CallIds, NEW t \in Tabs, NEW right \in BOOLEAN, LoginSubmit(t, i, right)
      PROVE  SessionInv'
  <2>1. Marks(i) /\ Takes(i, t, "login", right) /\ UNCHANGED authVars
    BY <1>0, <1>5, MarksSend DEF LoginSubmit
  <2>2. CASE t # Here
    <3>1. \A fn : ~Waits(i, fn)'
      BY <2>1, <2>2 DEF Takes, Waits
    <3> QED  BY <2>1, <3>1, SessionStays DEF authVars
  <2>3. CASE t = Here
    <3>1. at[Here] = "login" /\ page = None
      BY <1>5, <2>3 DEF LoginSubmit, Rendered, Route, Mounted, Pages
    <3>2. \A j \in CallIds : ~Waits(j, "login")
      BY <1>5, <2>3 DEF LoginSubmit, Waits, Is
    <3>3. ~Waits(i, "me")'
      BY <2>1 DEF Takes, Waits
    <3>4. ASSUME NEW j \in CallIds, NEW fn \in {"me", "login"}, j # i, Waits(j, fn)' PROVE Waits(j, fn)
      BY <2>1, <3>4, MarkedAsks DEF Marks, Waits
    <3>5. init' = init /\ at' = at
      BY <2>1 DEF authVars
    <3>6. (page \in Pages => init[Here])'
      BY <3>5 DEF SessionInv, Pages
    <3>7. \A k \in CallIds : Waits(k, "me")' => ~init'[Here] /\ \A j \in CallIds : Waits(j, "me")' => k = j
      BY <3>3, <3>4, <3>5 DEF SessionInv
    <3>8. \A k \in CallIds : Waits(k, "login")' =>
             at'[Here] = "login" /\ page' = None /\ \A j \in CallIds : Waits(j, "login")' => k = j
      BY <3>1, <3>2, <3>4, <3>5
    <3> QED  BY <3>6, <3>7, <3>8 DEF SessionInv
  <2> QED  BY <2>2, <2>3
<1> QED  BY <1>1, <1>2, <1>3, <1>4, <1>5 DEF SessionClicks

LEMMA SessionServed ==
  ASSUME SessionInv, Pool(calls), CallsOK, NEW i \in CallIds, calls[i] # NoCall,
         NEW state, NEW got, Handle(i, state, got), init' = init, at' = at, page' = page
  PROVE  SessionInv'
<1>1. Marks(i) /\ calls'[i].tab = calls[i].tab /\ calls'[i].fn = calls[i].fn
  BY MarksHandle
<1>2. \A fn \in {"me", "login"} : Waits(i, fn)' => Waits(i, fn)
  BY <1>1 DEF Waits
<1> QED  BY <1>1, <1>2, SessionStays

LEMMA SessionOpened ==
  ASSUME SessionInv, Base, NEW t \in Tabs, NEW r \in Routes, OpenTab(t, r),
         page' = IF t = Here THEN None ELSE page
  PROVE  SessionInv'
<1>0. /\ Pool(calls) /\ CallsOK /\ SessionTypes /\ 0 \notin CallIds /\ Here \in Tabs
      /\ at \in [Tabs -> Routes] /\ init \in [Tabs -> BOOLEAN]
  BY StoredToken, WebCallsAssumption DEF Base, SessionTypes, CallIds
<1>1. PICK k \in {0} \cup CallIds :
           /\ Marks(k) /\ (k \in CallIds => Takes(k, t, "me", stored))
           /\ k \in CallIds => init'[t] = FALSE
           /\ \A j \in CallIds : j # k /\ calls'[j] # NoCall => calls'[j].tab # t
  BY <1>0, MarksOpen
<1>2. CASE t = Here
  <2>1. \A j \in CallIds : \A fn : j # k => ~Waits(j, fn)'
    BY <1>1, <1>2 DEF Waits
  <2>2. k \in CallIds => ~Waits(k, "login")' /\ ~init'[Here]
    BY <1>1, <1>2 DEF Waits, Takes
  <2>3. page' \notin Pages
    BY <1>2, WebAppAssumption DEF Pages, Routes
  <2> QED  BY <2>1, <2>2, <2>3 DEF SessionInv
<1>3. CASE t # Here
  <2>1. k \in CallIds => \A fn : ~Waits(k, fn)'
    BY <1>1, <1>3 DEF Waits, Takes
  <2>2. init'[Here] = init[Here]
    BY <1>0, <1>3 DEF OpenTab, Initialize
  <2>3. at'[Here] \in {at[Here], "login"}
    BY <1>0, <1>3, RedirectedAt DEF OpenTab
  <2> QED  BY <1>1, <1>3, <2>1, <2>2, <2>3, SessionStays
<1> QED  BY <1>2, <1>3

\* What a page does to the requests in flight: one slot at most takes or keeps one of its own.
PageMoves ==
    \E k \in {0} \cup CallIds :
      Marks(k) /\ (k \in CallIds => calls'[k].fn \notin {"me", "login"})

LEMMA PagesClickedMove ==
  ASSUME Pool(calls), CallsOK,
         \/ InventoryPage \/ HistoryPage \/ SettingsPage \/ ShoppingPage
         \/ (\E i \in CallIds : Debounce(i)) \/ DebounceHistory
  PROVE  PageMoves
<1>1. CASE UNCHANGED calls
  BY <1>1, MarksSame DEF PageMoves, CallIds
<1>2. ASSUME NEW i \in CallIds, NEW fn, NEW arg, fn \notin {"me", "login"}, BeginLoad(i, fn, arg)
      PROVE  PageMoves
  <2>1. Marks(i) /\ Takes(i, Here, fn, arg)
    BY <1>2, MarksBegin
  <2> QED  BY <1>2, <2>1 DEF PageMoves, Takes
<1>3. ASSUME NEW i \in CallIds, NEW fn, NEW arg, fn \notin {"me", "login"}, Send(i, fn, arg)
      PROVE  PageMoves
  <2>1. Marks(i) /\ Takes(i, Here, fn, arg)
    BY <1>3, MarksSend DEF Send
  <2> QED  BY <1>3, <2>1 DEF PageMoves, Takes
<1>4. CASE InventoryPage \/ \E i \in CallIds : Debounce(i)
  <2>1. \/ UNCHANGED calls
        \/ \E i \in CallIds : \E fn \in {"load", "submit"} : \E arg : BeginLoad(i, fn, arg) \/ Send(i, fn, arg)
    BY <1>4 DEF InventoryPage, Refresh, SetFilter, StartLoad, Submit, Debounce, Type, TurnPage,
                ShowDetails, CloseDetails, Dismiss, OpenDialog, callVars
  <2> QED  BY <1>1, <1>2, <1>3, <2>1
<1>5. CASE HistoryPage \/ DebounceHistory
  <2>1. UNCHANGED calls \/ \E i \in CallIds : \E arg : BeginLoad(i, "history", arg)
    BY <1>5 DEF HistoryPage, RefreshHistory, FilterHistory, TypeHistory, OpenLog, CloseLog,
                DebounceHistory, callVars
  <2> QED  BY <1>1, <1>2, <2>1
<1>6. CASE SettingsPage
  <2>1. CASE \E s \in Sections : ShowSection(s)
    <3>1. PICK s : Remount(s \in Listed, "list", ListArg(s, None)) /\ (s \in Listed) \in BOOLEAN
      BY <2>1 DEF ShowSection
    <3>2. PICK k \in {0} \cup CallIds :
             Marks(k) /\ (k \in CallIds => Takes(k, Here, "list", ListArg(s, None)))
      BY <3>1, MarksRemount
    <3> QED  BY <3>2 DEF PageMoves, Takes
  <2>2. ASSUME NEW i \in CallIds, NEW key, NEW row, NEW fields, Save(i, key, row, fields)
        PROVE  PageMoves
    BY <1>3, <2>2 DEF Save
  <2>3. CASE \E i \in CallIds : \E r \in Names : Delete(i, r) \/ Test(i, r)
    BY <1>3, <2>3 DEF Delete, Test
  <2> QED
    BY <1>1, <1>6, <2>1, <2>2, <2>3 DEF SettingsPage, SaveForm, AddCategory, UpdateCategory, SaveCron,
                                 ChangePassword, StartEdit, EditCron, CancelEdit, callVars
<1>7. CASE ShoppingPage
  <2>1. UNCHANGED calls
    BY <1>7 DEF ShoppingPage, AddItem, ToggleItem, Keep, callVars
  <2> QED  BY <1>1, <2>1
<1> QED  BY <1>4, <1>5, <1>6, <1>7

LEMMA PagesSettledMove ==
  ASSUME Pool(calls), CallsOK, NEW i \in CallIds,
         InventorySettles(i) \/ HistorySettled(i) \/ StatsSettled(i) \/ SettingsSettles(i)
  PROVE  PageMoves
<1>1. CASE Put(i, NoCall)
  <2>1. Marks(0)  BY <1>1, MarksDrop
  <2> QED  BY <2>1 DEF PageMoves, CallIds
<1>2. ASSUME NEW fn \in {"load", "list"}, NEW arg, NEW current, Reload(i, fn, arg, current),
             calls[i] # NoCall
      PROVE  PageMoves
  <2>1. Marks(i) /\ Takes(i, Here, fn, arg)
    BY <1>2, MarksReload
  <2> QED  BY <2>1 DEF PageMoves, Takes
<1>3. CASE LoadSettled(i) \/ HistorySettled(i) \/ StatsSettled(i) \/ ListSettled(i)
  BY <1>1, <1>3 DEF LoadSettled, HistorySettled, StatsSettled, ListSettled, EndLoad
<1>4. CASE SubmitFailed(i) \/ SaveFailed(i) \/ DeleteFailed(i) \/ TestSettled(i)
  BY <1>1, <1>4 DEF SubmitFailed, SaveFailed, DeleteFailed, TestSettled
<1>5. CASE SubmitAnswered(i)
  BY <1>2, <1>5 DEF SubmitAnswered, Is
<1>6. CASE SaveAnswered(i)
  BY <1>1, <1>2, <1>6 DEF SaveAnswered, Is
<1>7. CASE DeleteAnswered(i)
  BY <1>2, <1>7 DEF DeleteAnswered, Is
<1> QED  BY <1>3, <1>4, <1>5, <1>6, <1>7 DEF InventorySettles, SettingsSettles

LEMMA MountMoves ==
  ASSUME Pool(calls), CallsOK, NEW p, MountLoad(p) PROVE PageMoves
<1>1. ASSUME NEW load \in BOOLEAN, NEW fn, NEW arg, load => fn \notin {"me", "login"},
             Remount(load, fn, arg)
      PROVE  PageMoves
  <2>1. PICK k \in {0} \cup CallIds :
           Marks(k) /\ (k \in CallIds => Takes(k, Here, fn, arg)) /\ (k \in CallIds <=> load)
    BY <1>1, MarksRemount
  <2> QED  BY <1>1, <2>1 DEF PageMoves, Takes
<1>2. CASE p = "inventory"
  BY <1>1, <1>2 DEF MountLoad
<1>3. CASE p = "history" \/ p = "home"
  BY <1>1, <1>3 DEF MountLoad
<1>4. CASE p = "settings"
  BY <1>1, <1>4 DEF MountLoad
<1>5. CASE p \notin {"inventory", "history", "home", "settings"}
  BY <1>1, <1>5 DEF MountLoad
<1> QED  BY <1>2, <1>3, <1>4, <1>5

\* SessionInv is an invariant on top of the types.
LEMMA SessionStep == ASSUME SessionInv, Base, ViewsOK, [Next]_vars PROVE SessionInv'
<1>0. /\ Pool(calls) /\ CallsOK /\ SessionTypes /\ 0 \notin CallIds /\ Here \in Tabs
      /\ at \in [Tabs -> Routes] /\ init \in [Tabs -> BOOLEAN]
  BY StoredToken, WebCallsAssumption DEF Base, SessionTypes, CallIds
<1>1. CASE Render
  <2>1. UNCHANGED authVars /\ page' = Route
    BY <1>1 DEF Render, Blank
  <2>2. PICK k \in {0} \cup CallIds : Marks(k) /\ (k \in CallIds => calls'[k].fn \notin {"me", "login"})
    BY <1>0, <1>1, MountMoves DEF Render, PageMoves
  <2>3. \A j \in CallIds, fn \in {"me", "login"} : Waits(j, fn)' => Waits(j, fn)
    BY <1>0, <2>2, MarkedAsks DEF Marks, Waits
  <2>4. page' \in Pages => Mounted(Here) /\ init'[Here]
    BY <2>1, WebAppAssumption DEF Route, Mounted, authVars, Pages, Routes
  <2>5. \A j \in CallIds : Waits(j, "login")' => at'[Here] = "login" /\ page' = None
    BY <2>1, <2>3 DEF SessionInv, Route, Mounted, authVars, Pages
  <2>6. UNCHANGED init
    BY <2>1 DEF authVars
  <2> QED  BY <2>3, <2>4, <2>5, <2>6 DEF SessionInv
<1>2. CASE PageMoves /\ UNCHANGED <<authVars, page>>
  BY <1>2, SessionPages DEF PageMoves
<1>3. CASE Timer
  BY <1>0, <1>2, <1>3, PagesClickedMove DEF Timer, viewFrame
<1>4. ASSUME NEW i \in CallIds, Advance(i) PROVE SessionInv'
  <2>1. CASE UNCHANGED viewFrame /\ (\/ InventorySettles(i) \/ HistorySettled(i)
                                    \/ StatsSettled(i) \/ SettingsSettles(i))
    BY <1>0, <1>2, <2>1, PagesSettledMove DEF viewFrame
  <2>2. CASE SessionSettles(i) /\ UNCHANGED page
    BY <2>2, SessionSettled
  <2>3. CASE Serves(i) /\ UNCHANGED <<init, at, page>>
    BY <1>0, <2>3, ServesHandle, SessionServed
  <2>4. SessionServes(i) => UNCHANGED <<init, at>>
    BY DEF SessionServes, ServeLogin, ServePlain, ServeRefused, authVars
  <2>5. \/ SessionSettles(i) /\ UNCHANGED page
        \/ Serves(i) /\ UNCHANGED <<init, at, page>>
        \/ UNCHANGED viewFrame /\ (\/ InventorySettles(i) \/ HistorySettled(i)
                                   \/ StatsSettled(i) \/ SettingsSettles(i))
    BY <1>4, <2>4 DEF Advance, Serves, sessionFrame, authVars, viewFrame
  <2> QED  BY <2>1, <2>2, <2>3, <2>5
<1>5. CASE Users
  <2>1. CASE SessionClicks /\ UNCHANGED sessionFrame
    BY <2>1, SessionClicked DEF sessionFrame
  <2>2. CASE \E r \in Routes : Reopen(r)
    BY <1>0, <2>2, SessionOpened DEF Reopen, Blank
  <2>3. CASE \E t \in Tabs \ {Here}, r \in Routes : OpenTab(t, r) /\ UNCHANGED sessionFrame
    BY <2>3, SessionOpened DEF sessionFrame
  <2>4. CASE (InventoryPage \/ HistoryPage \/ SettingsPage) /\ UNCHANGED viewFrame
    BY <1>0, <1>2, <2>4, PagesClickedMove DEF viewFrame
  <2>5. CASE UNCHANGED callVars /\ UNCHANGED <<authVars, page>>
    BY <1>0, <2>5, SessionSame DEF callVars
  <2>6. ShoppingPage \/ OthersChange \/ (\E x \in Items : OtherTabSaves(x)) => UNCHANGED callVars
    BY DEF ShoppingPage, AddItem, ToggleItem, Keep, OtherTabSaves, OthersChange
  <2> QED
    BY <1>5, <2>1, <2>2, <2>3, <2>4, <2>5, <2>6 DEF Users
<1>6. CASE UNCHANGED vars
  BY <1>0, <1>6, SessionSame DEF vars, callVars
<1> QED  BY <1>1, <1>3, <1>4, <1>5, <1>6 DEF Next, Work

(* The requests a page waits for are its own, and the newest asks for what it shows *)

Shows(i) == calls[i] # NoCall /\ calls[i].tab = Here /\ calls[i].live
LoadFns == {"load", "history", "list"}
PageOf(fn) == CASE fn = "load" -> "inventory" [] fn = "history" -> "history" [] OTHER -> "settings"
\* Request c is one of the page that is rendered.
AtPage(c) ==
    /\ c.fn \in {"load", "submit"} => page = "inventory"
    /\ c.fn = "history" => page = "history"
    /\ c.fn = "stats" => page = "home"
    /\ c.fn \in {"list", "save", "delete"} => page = "settings" /\ c.arg.section = settings.section
\* Load c asks for what the page's filters say, and its answer holds the page's changes.
UpToDate(c) ==
    /\ c.fn = "load" => c.arg.of = inventory.filters
    /\ c.fn = "history" => c.arg = history.filters
    /\ c.fn = "load" /\ c.state \in {"rows", "details", "ok"} => mine <= c.got.asOf
    /\ c.fn = "list" /\ c.state = "ok" => mine <= c.got.asOf
Current(c) == AtPage(c) /\ (c.newest => UpToDate(c))
CurrentInv == \A i \in CallIds : Shows(i) => Current(calls[i])

\* What the rendered page shows is the answer to its filters, with the page's changes.
Answered ==
    /\ page = "inventory" => inventory.table.of = inventory.filters /\ mine <= inventory.table.asOf
    /\ page = "history" => history.table.of = history.filters
    /\ page = "settings" /\ settings.section \in Listed =>
         /\ mine <= settings.asOf
         /\ settings.asOf = Now => settings.rows = items[settings.section]
NoLoads == \A i \in CallIds : Shows(i) => calls[i].fn \notin LoadFns
Settled == fresh /\ SignedIn(Here) /\ NoLoads => Answered
QuietInv == SessionInv /\ CurrentInv /\ Settled

\* What a page shows, and its filters, stay.
ViewFrame ==
    /\ page' = page
    /\ inventory'.filters = inventory.filters /\ inventory'.table = inventory.table
    /\ history'.filters = history.filters /\ history'.table = history.table
    /\ Stays(settings, settings')

LEMMA MarkedShows ==
  ASSUME NEW j, Marked(j), Shows(j)'
  PROVE  /\ Shows(j) /\ calls'[j].fn = calls[j].fn /\ calls'[j].arg = calls[j].arg
         /\ calls'[j].state = calls[j].state /\ calls'[j].got = calls[j].got
         /\ calls'[j].newest => calls[j].newest
<1>1. PICK c, d : c = calls[j] /\ d = calls'[j]
  OBVIOUS
<1>2. /\ c # NoCall /\ d.tab \in {c.tab, NoTab} /\ d.tab = Here /\ (d.live => c.live) /\ d.live
      /\ d.fn = c.fn /\ d.arg = c.arg /\ d.state = c.state /\ d.got = c.got /\ (d.newest => c.newest)
  BY <1>1 DEF Marked, Shows
<1> QED  BY <1>1, <1>2, WebCallsAssumption DEF Shows

LEMMA AtPageStays ==
  ASSUME NEW c, NEW d, AtPage(c), d.fn = c.fn, d.arg = c.arg,
         page' = page, settings'.section = settings.section
  PROVE  AtPage(d)'
BY DEF AtPage

LEMMA CurrentStays ==
  ASSUME CurrentInv, NEW k, Marks(k), ViewFrame, mine' = mine,
         k \in CallIds /\ Shows(k)' => Current(calls[k])'
  PROVE  CurrentInv'
<1>1. ASSUME NEW j \in CallIds, j # k, Shows(j)' PROVE Current(calls[j])'
  <2>1. PICK c, d : c = calls[j] /\ d = calls'[j]
    OBVIOUS
  <2>2. /\ Current(c) /\ d.fn = c.fn /\ d.arg = c.arg /\ d.state = c.state /\ d.got = c.got
        /\ d.newest => c.newest
    BY <1>1, <2>1, MarkedShows DEF Marks, CurrentInv, Shows
  <2>3. AtPage(d)'
    BY <2>2, AtPageStays DEF Current, ViewFrame, Stays
  <2>4. d.newest => UpToDate(d)'
    BY <2>2 DEF Current, UpToDate, ViewFrame
  <2> QED  BY <2>1, <2>3, <2>4 DEF Current
<1> QED  BY <1>1 DEF CurrentInv

\* A load overtakes those before it: whatever changes, the older ones are not the newest.
LEMMA CurrentOvertaken ==
  ASSUME CurrentInv, NEW k \in CallIds, Marks(k), page' = page, settings'.section = settings.section,
         NEW fn \in LoadFns, page = PageOf(fn),
         \A j \in CallIds : j # k /\ Is(j, fn) => calls'[j].newest = FALSE,
         Shows(k)' => Current(calls[k])'
  PROVE  CurrentInv'
<1>1. ASSUME NEW j \in CallIds, j # k, Shows(j)' PROVE Current(calls[j])'
  <2>1. PICK c, d : c = calls[j] /\ d = calls'[j]
    OBVIOUS
  <2>2. /\ c # NoCall /\ Current(c) /\ d.fn = c.fn /\ d.arg = c.arg
    BY <1>1, <2>1, MarkedShows DEF Marks, CurrentInv, Shows
  <2>3. AtPage(d)'
    BY <2>2, AtPageStays DEF Current
  <2>4. c.fn = fn => d.newest = FALSE
    BY <1>1, <2>1, <2>2 DEF Is
  <2>5. c.fn # fn => c.fn \notin LoadFns
    BY <2>2 DEF Current, AtPage, LoadFns, PageOf
  <2>6. d.newest => UpToDate(d)'
    BY <2>2, <2>4, <2>5 DEF UpToDate, LoadFns
  <2> QED  BY <2>1, <2>3, <2>6 DEF Current
<1> QED  BY <1>1 DEF CurrentInv

\* What the tab waited for before shows nowhere.
LEMMA CurrentBlank ==
  ASSUME NEW k, \A j \in CallIds : j # k /\ calls'[j] # NoCall /\ calls'[j].tab = Here =>
                                     calls'[j].live = FALSE,
         k \in CallIds /\ Shows(k)' => Current(calls[k])'
  PROVE  CurrentInv'
BY DEF CurrentInv, Shows

LEMMA AnsweredStays ==
  ASSUME Answered, ViewFrame, mine' = mine, ServerMoves, SettingsOK, ServerOK PROVE Answered'
<1>1. /\ page' = "inventory" => inventory'.table.of = inventory'.filters /\ mine' <= inventory'.table.asOf
      /\ page' = "history" => history'.table.of = history'.filters
  BY DEF Answered, ViewFrame
<1>2. /\ Now \in Nat /\ settings.asOf \in 0 .. Now
      /\ settings'.asOf = settings.asOf /\ settings'.rows = settings.rows
      /\ settings'.section = settings.section /\ page' = page
      /\ Now' = Now + 1 \/ (Now' = Now /\ items' = items)
  BY NowTyped DEF SettingsOK, ViewFrame, Stays, ServerMoves, Now
<1>3. page' = "settings" /\ settings'.section \in Listed =>
         /\ mine' <= settings'.asOf
         /\ settings'.asOf = Now' => settings'.rows = items'[settings'.section]
  BY <1>2 DEF Answered
<1> QED  BY <1>1, <1>3 DEF Answered

LEMMA SettledStays ==
  ASSUME Settled, ViewFrame, mine' = mine, ServerMoves, SettingsOK, ServerOK,
         fresh' => fresh, SignedIn(Here)' => SignedIn(Here), NoLoads' => NoLoads
  PROVE  Settled'
<1>1. Answered => Answered'  BY AnsweredStays
<1> QED  BY <1>1 DEF Settled

\* One slot changes, and not from a load that shows to none.
LEMMA LoadsPut ==
  ASSUME Pool(calls), NEW i \in CallIds, NEW c, Put(i, c),
         Shows(i) /\ calls[i].fn \in LoadFns => Shows(i)' /\ calls'[i].fn \in LoadFns,
         NoLoads'
  PROVE  NoLoads
<1>1. \A j \in CallIds : j # i => calls'[j] = calls[j]
  BY DEF Put, Pool
<1>2. ASSUME NEW j \in CallIds, j # i, Shows(j) PROVE calls[j].fn \notin LoadFns
  BY <1>1, <1>2 DEF Shows, NoLoads
<1> QED  BY <1>2 DEF NoLoads

LEMMA RequestLives ==
  ASSUME NEW fn, NEW arg
  PROVE  LET c == Request(Here, fn, arg) IN c.tab = Here /\ c.live = TRUE /\ c.newest = TRUE
BY DEF Request

LEMMA CallIsSome == ASSUME NEW c, IsCall(c) PROVE c # NoCall
<1>1. DOMAIN c = Fields  BY DEF IsCall
<1>2. DOMAIN NoCall = {"fn"}  BY DEF NoCall
<1>3. "tab" \in Fields /\ "tab" \notin {"fn"}  BY DEF Fields
<1> QED  BY <1>1, <1>2, <1>3

LEMMA HandledIsCall ==
  ASSUME Pool(calls), NEW i \in CallIds, calls[i] # NoCall, NEW state, NEW got, Handle(i, state, got)
  PROVE  calls'[i] # NoCall
<1>1. IsCall(calls[i])
  BY DEF Pool
<1>2. calls'[i] = [calls[i] EXCEPT !.state = state, !.got = got]
  BY DEF Pool, Handle, Put
<1>3. IsCall(calls'[i])
  BY <1>1, <1>2 DEF IsCall, Fields
<1> QED  BY <1>3, CallIsSome

LEMMA ReloadIsSome ==
  ASSUME Pool(calls), NEW i \in CallIds, NEW fn, NEW arg, NEW current, Reload(i, fn, arg, current)
  PROVE  calls'[i] # NoCall
<1>1. PICK c : c = [Request(Here, fn, arg) EXCEPT !.live = calls[i].live,
                                                 !.newest = calls[i].newest /\ current]
  OBVIOUS
<1>2. c # NoCall
  <2>1. IsCall(c)
    BY <1>1 DEF Request, Token, IsCall, Fields
  <2> QED  BY <2>1, CallIsSome
<1>3. calls' = IF calls[i].live THEN WithLoad(i, c) ELSE [calls EXCEPT ![i] = c]
  BY <1>1 DEF Reload
<1>4. calls'[i] = c
  BY <1>3 DEF Pool, WithLoad
<1> QED  BY <1>2, <1>4

(* What keeps a quiet view current, by what is done to the requests *)

QuietFrame == Pool(calls) /\ CallsOK /\ ServerOK /\ SettingsOK /\ CurrentInv /\ Settled

LEMMA QuietSame ==
  ASSUME QuietFrame, UNCHANGED <<calls, mine>>, ViewFrame, ServerMoves,
         fresh' => fresh, SignedIn(Here)' => SignedIn(Here)
  PROVE  CurrentInv' /\ Settled'
<1>1. Marks(0) /\ 0 \notin CallIds
  BY MarksSame DEF CallIds, QuietFrame
<1>2. NoLoads' => NoLoads
  BY DEF NoLoads, Shows
<1>3. CurrentInv'
  BY <1>1, CurrentStays DEF QuietFrame
<1> QED  BY <1>2, <1>3, SettledStays DEF QuietFrame

\* A page loads: nothing is settled before its answer.
LEMMA QuietLoads ==
  ASSUME QuietFrame, NEW i \in CallIds, NEW fn \in LoadFns, NEW arg, BeginLoad(i, fn, arg),
         fn = "load" => arg.of = inventory'.filters,
         fn = "history" => arg = history'.filters,
         fn = "list" => arg.section = settings'.section,
         page = PageOf(fn), page' = page, settings'.section = settings.section
  PROVE  CurrentInv' /\ Settled'
<1>1. PICK d : d = calls'[i]
  OBVIOUS
<1>2. /\ Marks(i) /\ Takes(i, Here, fn, arg)
      /\ \A j \in CallIds : j # i /\ Is(j, fn) => calls'[j].newest = FALSE
  BY MarksBegin DEF QuietFrame
<1>3. d.fn = fn /\ d.arg = arg /\ d.state = "sent"
  BY <1>1, <1>2 DEF Takes
<1>4. Current(d)'
  BY <1>3 DEF Current, AtPage, UpToDate, PageOf, LoadFns
<1>5. CurrentInv'
  BY <1>1, <1>2, <1>4, CurrentOvertaken DEF QuietFrame
<1>6. Shows(i)' /\ calls'[i].fn \in LoadFns
  <2>1. d = Request(Here, fn, arg)
    BY <1>1 DEF BeginLoad, WithLoad
  <2>2. d # NoCall
    BY <2>1, RequestIsCall, CallIsSome
  <2>3. d.tab = Here /\ d.live
    BY <2>1, RequestLives
  <2> QED  BY <1>1, <1>3, <2>2, <2>3 DEF Shows
<1>7. Settled'
  BY <1>6 DEF Settled, NoLoads
<1> QED  BY <1>5, <1>7

\* A page sends something else.
LEMMA QuietSends ==
  ASSUME QuietFrame, NEW i \in CallIds, NEW fn \in {"submit", "save", "delete", "test"}, NEW arg,
         Send(i, fn, arg), fn = "submit" => page = "inventory",
         fn \in {"save", "delete"} => page = "settings" /\ arg.section = settings.section,
         ViewFrame, ServerMoves, SignedIn(Here)' => SignedIn(Here)
  PROVE  CurrentInv' /\ Settled'
<1>1. PICK d : d = calls'[i]
  OBVIOUS
<1>2. Marks(i) /\ Takes(i, Here, fn, arg) /\ UNCHANGED <<fresh, mine>>
  BY MarksSend DEF QuietFrame, Send
<1>3. d.fn = fn /\ d.arg = arg /\ d.state = "sent"
  BY <1>1, <1>2 DEF Takes
<1>4. Current(d)'
  BY <1>3 DEF Current, AtPage, UpToDate, ViewFrame, Stays
<1>5. CurrentInv'
  BY <1>1, <1>2, <1>4, CurrentStays DEF QuietFrame
<1>6. NoLoads' => NoLoads
  BY LoadsPut DEF QuietFrame, Send, Free, Shows
<1> QED  BY <1>2, <1>5, <1>6, SettledStays DEF QuietFrame

\* The server answers.
LEMMA QuietHandled ==
  ASSUME QuietFrame, NEW i \in CallIds, calls[i] # NoCall, NEW state, NEW got, Handle(i, state, got),
         calls[i].fn = "load" /\ state \in {"rows", "details", "ok"} =>
           \/ got.asOf = Now
           \/ calls[i].state \in {"rows", "details"} /\ got.asOf = calls[i].got.asOf,
         calls[i].fn = "list" /\ state = "ok" => got.asOf = Now,
         ViewFrame, ServerMoves, SignedIn(Here)' => SignedIn(Here)
  PROVE  CurrentInv' /\ Settled'
<1>1. PICK c, d : c = calls[i] /\ d = calls'[i]
  OBVIOUS
<1>2. /\ Marks(i) /\ d.tab = c.tab /\ d.live = c.live /\ d.newest = c.newest
      /\ d.fn = c.fn /\ d.arg = c.arg /\ d.state = state /\ d.got = got
  BY <1>1, MarksHandle DEF QuietFrame
<1>3. d # NoCall
  BY <1>1, HandledIsCall DEF QuietFrame
<1>4. mine' = mine /\ mine <= Now /\ UNCHANGED fresh
  BY NowTyped DEF Handle, QuietFrame, ServerOK
<1>5. ASSUME Shows(i)' PROVE Current(d)'
  <2>1. Current(c)
    BY <1>1, <1>2, <1>5 DEF Shows, QuietFrame, CurrentInv
  <2>2. AtPage(d)'
    BY <1>2, <2>1, AtPageStays DEF Current, ViewFrame, Stays
  <2>3. d.newest => UpToDate(d)'
    BY <1>1, <1>2, <1>4, <2>1 DEF Current, UpToDate, ViewFrame
  <2> QED  BY <2>2, <2>3 DEF Current
<1>6. CurrentInv'
  BY <1>1, <1>2, <1>4, <1>5, CurrentStays DEF QuietFrame
<1>7. NoLoads' => NoLoads
  <2>1. Put(i, d)
    BY <1>1 DEF Handle, Put, Pool, QuietFrame
  <2> QED  BY <1>1, <1>2, <1>3, <2>1, LoadsPut DEF Shows, QuietFrame
<1> QED  BY <1>4, <1>6, <1>7, SettledStays DEF QuietFrame

\* A request ends that is no load of the page, or whose tab is signed out by it.
LEMMA QuietDrops ==
  ASSUME QuietFrame, NEW i \in CallIds, Put(i, NoCall), UNCHANGED mine, fresh' => fresh,
         ViewFrame, ServerMoves,
         \/ ~SignedIn(Here)'
         \/ (Shows(i) => calls[i].fn \notin LoadFns) /\ (SignedIn(Here)' => SignedIn(Here))
  PROVE  CurrentInv' /\ Settled'
<1>1. Marks(0) /\ 0 \notin CallIds
  BY MarksDrop DEF CallIds, QuietFrame
<1>2. CurrentInv'
  BY <1>1, CurrentStays DEF QuietFrame
<1>3. CASE ~SignedIn(Here)'
  BY <1>2, <1>3 DEF Settled
<1>4. CASE (Shows(i) => calls[i].fn \notin LoadFns) /\ (SignedIn(Here)' => SignedIn(Here))
  <2>1. NoLoads' => NoLoads
    BY <1>4, LoadsPut DEF QuietFrame
  <2> QED  BY <1>2, <1>4, <2>1, SettledStays DEF QuietFrame
<1> QED  BY <1>3, <1>4

\* A load of the page ends.
LEMMA QuietEnds ==
  ASSUME QuietFrame, Base, NEW i \in CallIds, calls[i] # NoCall, calls[i].tab \in Tabs,
         NEW answered \in BOOLEAN, EndLoad(i, answered),
         UNCHANGED <<authVars, page, entries, shelf, items>>,
         ~Live(i) => ViewFrame,
         inventory'.filters = inventory.filters, history'.filters = history.filters,
         settings'.section = settings.section,
         Shows(i) /\ answered /\ calls[i].newest => Answered'
  PROVE  CurrentInv' /\ Settled'
<1>1. Marks(0) /\ 0 \notin CallIds /\ Put(i, NoCall) /\ mine' = mine
  BY MarksDrop DEF CallIds, QuietFrame, EndLoad
<1>2. ASSUME NEW j \in CallIds, Shows(j)' PROVE Current(calls[j])'
  <2>1. PICK c, d : c = calls[j] /\ d = calls'[j]
    OBVIOUS
  <2>2. /\ Current(c) /\ d.fn = c.fn /\ d.arg = c.arg /\ d.state = c.state /\ d.got = c.got
        /\ d.newest => c.newest
    BY <1>1, <1>2, <2>1, MarkedShows DEF Marks, QuietFrame, CurrentInv, Shows
  <2>3. AtPage(d)'
    BY <2>2, AtPageStays DEF Current
  <2>4. d.newest => UpToDate(d)'
    BY <1>1, <2>2 DEF Current, UpToDate
  <2> QED  BY <2>1, <2>3, <2>4 DEF Current
<1>3. CurrentInv'
  BY <1>2 DEF CurrentInv
<1>4. CASE ~Live(i)
  <2>1. fresh' = fresh /\ ServerMoves /\ SignedIn(Here)' = SignedIn(Here)
    BY <1>4 DEF EndLoad, ServerMoves, authVars, SignedIn
  <2>2. ~Shows(i)
    BY <1>4 DEF Shows, Live
  <2>3. NoLoads' => NoLoads
    BY <1>1, <2>2, LoadsPut DEF QuietFrame
  <2> QED  BY <1>1, <1>3, <1>4, <2>1, <2>3, SettledStays DEF QuietFrame
<1>5. CASE Live(i)
  <2>1. Shows(i) /\ (fresh' => answered /\ calls[i].newest)
    BY <1>5 DEF Shows, Live, EndLoad
  <2> QED  BY <1>3, <2>1 DEF Settled
<1> QED  BY <1>3, <1>4, <1>5

\* A change is confirmed, and the page loads again if it is still there.
LEMMA QuietReloads ==
  ASSUME QuietFrame, Base, NEW i \in CallIds, calls[i] # NoCall, calls[i].tab \in Tabs,
         calls[i].got \in Nat,
         NEW fn \in {"load", "list"}, NEW arg, NEW current, Reload(i, fn, arg, current),
         UNCHANGED <<authVars, entries, shelf, items>>, ViewFrame,
         Shows(i) => page = PageOf(fn),
         fn = "load" /\ current = TRUE => arg.of = inventory.filters,
         Shows(i) /\ fn = "list" => arg.section = settings.section,
         calls[i].fn \in PageFns
  PROVE  CurrentInv' /\ Settled'
<1>1. PICK c, d : c = calls[i] /\ d = calls'[i]
  OBVIOUS
<1>2. Marks(i) /\ Takes(i, Here, fn, arg)
  BY MarksReload DEF QuietFrame
<1>3. /\ d.tab = Here /\ d.fn = fn /\ d.arg = arg /\ d.state = "sent" /\ d # NoCall
      /\ d.live = c.live /\ (d.newest => current)
  <2>1. calls'[i].live = calls[i].live /\ (calls'[i].newest => current /\ calls[i].newest)
    <3>1. Pool(calls) /\ CallsOK
      BY DEF QuietFrame
    <3> QED  BY <3>1, MarksReload, ZenonT(30)
  <2>2. d # NoCall
    BY <1>1, ReloadIsSome DEF QuietFrame
  <2>3. d.newest => current
    BY <1>1, <2>1, Zenon
  <2> QED  BY <1>1, <1>2, <2>1, <2>2, <2>3 DEF Takes
<1>4. page' = page /\ settings'.section = settings.section
  BY DEF ViewFrame, Stays
<1>5. CASE c.live /\ c.tab = Here
  <2>1. Shows(i) /\ page = PageOf(fn)
    BY <1>1, <1>5 DEF Shows
  <2>2. AtPage(d)'
    BY <1>3, <1>4, <2>1 DEF AtPage, PageOf
  <2>3. d.newest => UpToDate(d)'
    BY <1>3 DEF UpToDate, ViewFrame
  <2>4. \A j \in CallIds : j # i /\ Is(j, fn) => calls'[j].newest = FALSE
    BY <1>1, <1>5, MarksReload DEF QuietFrame
  <2>5. CurrentInv'
    BY <1>1, <1>2, <1>4, <2>1, <2>2, <2>3, <2>4, CurrentOvertaken DEF Current, QuietFrame, LoadFns
  <2>6. ~NoLoads'
    BY <1>1, <1>3, <1>5 DEF NoLoads, Shows, LoadFns
  <2> QED  BY <2>5, <2>6 DEF Settled
<1>6. CASE ~(c.live /\ c.tab = Here)
  <2>1. ~c.live
    BY <1>1, <1>6, WebCallsAssumption DEF QuietFrame, CallsOK, CallOK
  <2>2. mine' = mine /\ fresh' = fresh
    BY <1>1, <2>1 DEF Reload
  <2>3. ~Shows(i)' /\ ~Shows(i)
    BY <1>1, <1>3, <2>1 DEF Shows
  <2>4. CurrentInv'
    BY <1>2, <2>2, <2>3, CurrentStays DEF QuietFrame
  <2>5. NoLoads' => NoLoads
    <3>1. calls' = [calls EXCEPT ![i] = d]
      BY <1>1, <2>1 DEF Reload, QuietFrame, Pool
    <3> QED  BY <2>3, <3>1, LoadsPut DEF QuietFrame, Put
  <2>6. ServerMoves /\ SignedIn(Here)' = SignedIn(Here)
    BY DEF ServerMoves, authVars, SignedIn
  <2> QED  BY <2>2, <2>4, <2>5, <2>6, SettledStays DEF QuietFrame
<1> QED  BY <1>5, <1>6

\* A page is mounted, or a section of the settings.
LEMMA QuietRemounts ==
  ASSUME QuietFrame, NEW load \in BOOLEAN, NEW fn, NEW arg, Remount(load, fn, arg),
         load => fn \in {"load", "history", "stats", "list"},
         load /\ fn = "load" => page' = "inventory" /\ arg.of = inventory'.filters,
         load /\ fn = "history" => page' = "history" /\ arg = history'.filters,
         load /\ fn = "stats" => page' = "home",
         load /\ fn = "list" => page' = "settings" /\ arg.section = settings'.section
  PROVE  CurrentInv' /\ Settled'
<1>1. PICK k \in {0} \cup CallIds :
           /\ k \in CallIds => Takes(k, Here, fn, arg)
           /\ k \in CallIds <=> load
           /\ \A j \in CallIds : j # k /\ calls'[j] # NoCall /\ calls'[j].tab = Here =>
                                   calls'[j].live = FALSE
  BY MarksRemount DEF QuietFrame
<1>2. k \in CallIds => Current(calls[k])'
  BY <1>1 DEF Takes, Current, AtPage, UpToDate
<1>3. fresh' = FALSE
  BY DEF Remount
<1> QED  BY <1>1, <1>2, <1>3, CurrentBlank DEF Settled

LEMMA QuietRenders ==
  ASSUME QuietFrame, inventory \in InventoryType, query \in Words \cup {NoWord},
         NEW p, Blank(p), MountLoad(p)
  PROVE  CurrentInv' /\ Settled'
<1>1. /\ page' = p
      /\ inventory'.filters = [NoFilters EXCEPT !.word = IF p = "inventory" THEN query ELSE NoWord]
      /\ history'.filters = NoHistoryFilters /\ settings'.section = "outbound"
  BY DEF Blank, MountedInventory, MountedHistory, MountedSection
<1>2. CASE p = "inventory"
  <2>1. Remount(TRUE, "load", LoadArg(inventory'.filters, None))
    BY <1>1, <1>2 DEF MountLoad
  <2>2. LoadArg(inventory'.filters, None).of = inventory'.filters
    BY DEF LoadArg
  <2> QED  BY <1>1, <1>2, <2>1, <2>2, QuietRemounts
<1>3. CASE p = "history"
  BY <1>1, <1>3, QuietRemounts DEF MountLoad
<1>4. CASE p = "home"
  BY <1>1, <1>4, QuietRemounts DEF MountLoad
<1>5. CASE p = "settings"
  <2>1. ListArg("outbound", None).section = "outbound"
    BY DEF ListArg
  <2> QED  BY <1>1, <1>5, <2>1, QuietRemounts DEF MountLoad
<1>6. CASE p \notin {"inventory", "history", "home", "settings"}
  BY <1>1, <1>6, QuietRemounts DEF MountLoad
<1> QED  BY <1>2, <1>3, <1>4, <1>5, <1>6

\* A tab opens its document anew.
LEMMA QuietOpens ==
  ASSUME QuietFrame, init \in [Tabs -> BOOLEAN], NEW t \in Tabs, NEW r, OpenTab(t, r),
         t # Here => ViewFrame /\ UNCHANGED <<entries, shelf, items>> /\ held \in [Tabs -> Tokens]
  PROVE  CurrentInv' /\ Settled'
<1>1. PICK k \in {0} \cup CallIds :
           /\ Marks(k) /\ (k \in CallIds => Takes(k, t, "me", stored))
           /\ \A j \in CallIds : j # k /\ calls'[j] # NoCall => calls'[j].tab # t
  BY MarksOpen DEF QuietFrame
<1>2. k \in CallIds => Current(calls[k])'
  BY <1>1 DEF Takes, Current, AtPage, UpToDate
<1>3. CASE t = Here
  <2>1. fresh' = FALSE
    BY <1>3 DEF OpenTab
  <2> QED  BY <1>1, <1>2, <1>3, <2>1, CurrentBlank DEF Settled
<1>4. CASE t # Here
  <2>1. mine' = mine /\ fresh' = fresh /\ ServerMoves
    BY <1>4 DEF OpenTab, ServerMoves
  <2>2. SignedIn(Here)' = SignedIn(Here)
    BY <1>4, WebCallsAssumption DEF OpenTab, SignedIn
  <2>3. CurrentInv'
    BY <1>1, <1>2, <1>4, <2>1, CurrentStays DEF QuietFrame
  <2>4. ASSUME NEW j \in CallIds, Shows(j) PROVE Shows(j)' /\ calls'[j].fn = calls[j].fn
    <3>1. PICK c : c = calls[j] /\ c # NoCall /\ c.tab = Here /\ c.live
      BY <2>4 DEF Shows
    <3>2. calls'[j] = c
      BY <1>4, <3>1 DEF OpenTab, Initialize, Free
    <3> QED  BY <3>1, <3>2 DEF Shows
  <2>5. NoLoads' => NoLoads
    BY <2>4 DEF NoLoads
  <2> QED  BY <1>4, <2>1, <2>2, <2>3, <2>5, SettledStays DEF QuietFrame
<1> QED  BY <1>3, <1>4

LEMMA InventoryClicks ==
  ASSUME inventory \in InventoryType, InventoryPage \/ \E i \in CallIds : Debounce(i)
  PROVE  /\ page = "inventory"
         /\ \/ \E i \in CallIds : BeginLoad(i, "load", LoadArg(inventory'.filters, None))
            \/ /\ inventory'.filters = inventory.filters /\ inventory'.table = inventory.table
               /\ UNCHANGED callVars \/ \E i \in CallIds : \E arg : Send(i, "submit", arg)
<1>0. PICK v, w : v = inventory /\ w = inventory'
  OBVIOUS
<1>1. v \in InventoryType
  BY <1>0
<1>2. page = "inventory"
  BY DEF InventoryPage, Refresh, Submit, SetFilter, Type, TurnPage, ShowDetails, CloseDetails,
         Dismiss, OpenDialog, Openable, OnInventory, On, Debounce
<1>3. ASSUME NEW f, w = [v EXCEPT !.filters = f] PROVE w.filters = f
  BY <1>1, <1>3 DEF InventoryType
<1>4. ASSUME NEW x, w = [v EXCEPT !.filters.word = x] PROVE w.filters = [v.filters EXCEPT !.word = x]
  BY <1>1, <1>4 DEF InventoryType
<1>5. CASE \E i \in CallIds : Refresh(i) \/ Debounce(i) \/ \E f \in FilterChoices : SetFilter(i, f)
  <2>1. PICK i \in CallIds : Refresh(i) \/ Debounce(i) \/ \E f \in FilterChoices : SetFilter(i, f)
    BY <1>5
  <2>2. CASE Refresh(i)
    BY <1>2, <2>2 DEF Refresh, StartLoad
  <2>3. CASE Debounce(i)
    BY <1>2, <2>3 DEF Debounce, StartLoad
  <2>4. ASSUME NEW f \in FilterChoices, SetFilter(i, f) PROVE BeginLoad(i, "load", LoadArg(inventory'.filters, None))
    BY <1>0, <1>3, <2>4 DEF SetFilter, StartLoad
  <2> QED  BY <1>2, <2>1, <2>2, <2>3, <2>4
<1>6. ASSUME \/ \E d : w = [v EXCEPT !.submitting = @ \cup {d}]
             \/ \E x : w = [v EXCEPT !.typed = x] \/ w = [v EXCEPT !.pageNo = x]
                       \/ w = [v EXCEPT !.details = x] \/ w = [v EXCEPT !.dialog = x]
             \/ \E m : w = [v EXCEPT !.selected = m, !.details = TRUE]
             \/ \E d, r : w = [v EXCEPT !.dialog = d, !.row = r, !.fields = r]
      PROVE  w.filters = v.filters /\ w.table = v.table
  BY ONLY <1>1, <1>6 DEF InventoryType
<1>7. CASE \E i \in CallIds : Submit(i)
  <2>1. /\ \E d : w = [v EXCEPT !.submitting = @ \cup {d}]
        /\ \E i \in CallIds : \E arg : Send(i, "submit", arg)
    BY <1>0, <1>7 DEF Submit
  <2> QED  BY <1>0, <1>2, <1>6, <2>1
<1>8. CASE \/ \E x \in Words \cup {NoWord} : Type(x)
           \/ \E p \in 1 .. Cardinality(Mats) : TurnPage(p)
           \/ \E m \in Mats : ShowDetails(m)
           \/ CloseDetails \/ Dismiss
           \/ \E d \in Dialogs, r \in Mats \cup LotIds \cup {None} : OpenDialog(d, r)
  <2>1. /\ \/ \E x : w = [v EXCEPT !.typed = x] \/ w = [v EXCEPT !.pageNo = x]
                     \/ w = [v EXCEPT !.details = x] \/ w = [v EXCEPT !.dialog = x]
           \/ \E m : w = [v EXCEPT !.selected = m, !.details = TRUE]
           \/ \E d, r : w = [v EXCEPT !.dialog = d, !.row = r, !.fields = r]
        /\ UNCHANGED callVars
    BY <1>0, <1>8 DEF Type, TurnPage, ShowDetails, CloseDetails, Dismiss, OpenDialog, Filled
  <2> QED  BY <1>0, <1>2, <1>6, <2>1
<1> QED  BY <1>5, <1>7, <1>8 DEF InventoryPage

LEMMA HistoryClicks ==
  ASSUME history \in HistoryType, HistoryPage \/ DebounceHistory
  PROVE  /\ page = "history"
         /\ \/ \E i \in CallIds : BeginLoad(i, "history", history'.filters)
            \/ /\ history'.filters = history.filters /\ history'.table = history.table
               /\ UNCHANGED callVars
<1>0. PICK v, w : v = history /\ w = history'
  OBVIOUS
<1>1. v \in HistoryType
  BY <1>0
<1>2. page = "history"
  BY DEF HistoryPage, RefreshHistory, FilterHistory, TypeHistory, OpenLog, CloseLog, OnHistory, On,
         DebounceHistory
<1>3. CASE \E i \in CallIds : RefreshHistory(i) \/ \E f \in HistoryChoices : FilterHistory(i, f)
  <2>1. PICK i \in CallIds : RefreshHistory(i) \/ \E f \in HistoryChoices : FilterHistory(i, f)
    BY <1>3
  <2>2. CASE RefreshHistory(i)
    BY <1>2, <2>2 DEF RefreshHistory
  <2>3. ASSUME NEW f \in HistoryChoices, FilterHistory(i, f)
        PROVE  BeginLoad(i, "history", history'.filters)
    <3>1. w = [v EXCEPT !.filters = f] /\ BeginLoad(i, "history", f)
      BY <1>0, <2>3 DEF FilterHistory
    <3>2. w.filters = f
      BY <1>1, <3>1 DEF HistoryType
    <3> QED  BY <1>0, <3>1, <3>2
  <2> QED  BY <1>2, <2>1, <2>2, <2>3
<1>4. CASE \/ \E x \in Words \cup {NoWord} : TypeHistory(x)
           \/ \E k \in 1 .. Len(entries) : OpenLog(k)
           \/ CloseLog \/ DebounceHistory
  <2>1. /\ \E x : w = [v EXCEPT !.typed = x] \/ w = [v EXCEPT !.selected = x] \/ w = [v EXCEPT !.word = x]
        /\ UNCHANGED callVars
    BY <1>0, <1>4 DEF TypeHistory, OpenLog, CloseLog, DebounceHistory
  <2>2. w.filters = v.filters /\ w.table = v.table
    BY <1>1, <2>1 DEF HistoryType
  <2> QED  BY <1>0, <1>2, <2>1, <2>2
<1> QED  BY <1>3, <1>4 DEF HistoryPage

LEMMA SettingsClicks ==
  ASSUME SettingsOK, SettingsPage
  PROVE  \/ \E s \in Sections : ShowSection(s)
         \/ /\ Stays(settings, settings')
            /\ \/ UNCHANGED callVars
               \/ \E i \in CallIds : \E fn \in {"save", "delete"} : \E arg :
                    Send(i, fn, arg) /\ page = "settings" /\ arg.section = settings.section
               \/ \E i \in CallIds : \E arg : Send(i, "test", arg)
<1>1. CASE \E s \in Sections : ShowSection(s)
  BY <1>1
<1>2. CASE /\ Stays(settings, settings')
           /\ ~\E s \in Sections : ShowSection(s)
  <2>1. ASSUME NEW i \in CallIds, NEW key, NEW row, NEW fields, Save(i, key, row, fields)
        PROVE  \E arg : Send(i, "save", arg) /\ arg.section = settings.section
    BY <2>1 DEF Save
  <2>2. ASSUME NEW i \in CallIds, NEW r, Delete(i, r)
        PROVE  /\ page = "settings"
               /\ \E arg : Send(i, "delete", arg) /\ arg.section = settings.section
    BY <2>2 DEF Delete, InSection, On
  <2>3. ASSUME NEW i \in CallIds,
               \/ SaveForm(i) \/ AddCategory(i) \/ UpdateCategory(i) \/ SaveCron(i)
               \/ \E right \in BOOLEAN : ChangePassword(i, right)
        PROVE  page = "settings" /\ \E key, row, fields : Save(i, key, row, fields)
    BY <2>3 DEF SaveForm, AddCategory, UpdateCategory, SaveCron, ChangePassword, InSection, On
  <2>4. ASSUME NEW i \in CallIds, NEW r, Test(i, r) PROVE \E arg : Send(i, "test", arg)
    BY <2>4 DEF Test
  <2>5. CASE \/ \E r \in Names \cup {New} : StartEdit(r)
             \/ \E x \in Names : EditCron(x)
             \/ CancelEdit
    BY <1>2, <2>5 DEF StartEdit, EditCron, CancelEdit, callVars
  <2> QED  BY <1>2, <2>1, <2>2, <2>3, <2>4, <2>5 DEF SettingsPage
<1> QED  BY <1>1, <1>2, SettingsClicked DEF SettingsOK

\* The pages' clicks and timers.
LEMMA QuietClicked ==
  ASSUME QuietFrame, ViewsOK, UNCHANGED <<authVars, page, entries, shelf, items>>,
         \/ /\ InventoryPage \/ \E i \in CallIds : Debounce(i)
            /\ UNCHANGED <<history, settings>>
         \/ (HistoryPage \/ DebounceHistory) /\ UNCHANGED <<inventory, settings>>
         \/ SettingsPage /\ UNCHANGED <<inventory, history>>
  PROVE  CurrentInv' /\ Settled'
<1>0. /\ ServerMoves /\ SignedIn(Here)' = SignedIn(Here)
      /\ inventory \in InventoryType /\ history \in HistoryType /\ SettingsOK
  BY DEF ServerMoves, authVars, SignedIn, ViewsOK, InventoryOK, FilledIn, HistoryOK
<1>1. CASE /\ InventoryPage \/ \E i \in CallIds : Debounce(i)
           /\ UNCHANGED <<history, settings>>
  <2>1. LoadArg(inventory'.filters, None).of = inventory'.filters
    BY DEF LoadArg
  <2>2. CASE \E i \in CallIds : BeginLoad(i, "load", LoadArg(inventory'.filters, None))
    BY <1>0, <1>1, <2>1, <2>2, InventoryClicks, QuietLoads DEF LoadFns, PageOf
  <2>3. CASE /\ inventory'.filters = inventory.filters /\ inventory'.table = inventory.table
             /\ UNCHANGED callVars \/ \E i \in CallIds : \E arg : Send(i, "submit", arg)
    <3>1. ViewFrame
      BY <1>1, <2>3 DEF ViewFrame, Stays
    <3>2. CASE UNCHANGED callVars
      BY <1>0, <3>1, <3>2, QuietSame DEF callVars
    <3>3. CASE \E i \in CallIds : \E arg : Send(i, "submit", arg)
      BY <1>0, <1>1, <3>1, <3>3, InventoryClicks, QuietSends
    <3> QED  BY <2>3, <3>2, <3>3
  <2> QED  BY <1>0, <1>1, <2>2, <2>3, InventoryClicks
<1>2. CASE (HistoryPage \/ DebounceHistory) /\ UNCHANGED <<inventory, settings>>
  <2>1. CASE \E i \in CallIds : BeginLoad(i, "history", history'.filters)
    BY <1>0, <1>2, <2>1, HistoryClicks, QuietLoads DEF LoadFns, PageOf
  <2>2. CASE /\ history'.filters = history.filters /\ history'.table = history.table
             /\ UNCHANGED callVars
    <3>1. ViewFrame
      BY <1>2, <2>2 DEF ViewFrame, Stays
    <3> QED  BY <1>0, <2>2, <3>1, QuietSame DEF callVars
  <2> QED  BY <1>0, <1>2, <2>1, <2>2, HistoryClicks
<1>3. CASE SettingsPage /\ UNCHANGED <<inventory, history>>
  <2>1. CASE \E s \in Sections : ShowSection(s)
    <3>1. PICK s \in Sections : ShowSection(s)
      BY <2>1
    <3>2. /\ Remount(s \in Listed, "list", ListArg(s, None)) /\ (s \in Listed) \in BOOLEAN
          /\ page = "settings" /\ settings' = MountedSection(s)
      BY <3>1 DEF ShowSection, On
    <3>3. ListArg(s, None).section = s /\ settings'.section = s
      BY <3>2 DEF ListArg, MountedSection
    <3> QED  BY <3>2, <3>3, QuietRemounts
  <2>2. CASE Stays(settings, settings') /\ UNCHANGED callVars
    <3>1. ViewFrame
      BY <1>3, <2>2 DEF ViewFrame
    <3> QED  BY <1>0, <2>2, <3>1, QuietSame DEF callVars
  <2>3. ASSUME NEW i \in CallIds, NEW fn \in {"save", "delete", "test"}, NEW arg, Send(i, fn, arg),
               Stays(settings, settings'),
               fn # "test" => page = "settings" /\ arg.section = settings.section
        PROVE  CurrentInv' /\ Settled'
    <3>1. ViewFrame
      BY <1>3, <2>3 DEF ViewFrame
    <3> QED  BY <1>0, <2>3, <3>1, QuietSends
  <2> QED  BY <1>0, <1>3, <2>1, <2>2, <2>3, SettingsClicks
<1> QED  BY <1>1, <1>2, <1>3

(* The answers *)

LEMMA QuietInventorySettled ==
  ASSUME QuietFrame, Base, ViewsOK, UNCHANGED <<authVars, page, entries, shelf, items, history, settings>>,
         NEW i \in CallIds, InventorySettles(i)
  PROVE  CurrentInv' /\ Settled'
<1>0. PICK v, w, c : v = inventory /\ w = inventory' /\ c = calls[i]
  OBVIOUS
<1>1. v \in InventoryType
  BY <1>0 DEF ViewsOK, InventoryOK, FilledIn
<1>2. c # NoCall /\ c.tab \in Tabs /\ CallOK(c)
  BY <1>0 DEF InventorySettles, LoadSettled, SubmitAnswered, SubmitFailed, Is, QuietFrame, CallsOK
<1>3. ServerMoves /\ SignedIn(Here)' = SignedIn(Here) /\ Stays(settings, settings')
  BY DEF ServerMoves, authVars, SignedIn, Stays
<1>4. Shows(i) => Current(c)
  BY <1>0 DEF QuietFrame, CurrentInv
<1>5. ASSUME w = v PROVE ViewFrame
  BY <1>0, <1>3, <1>5 DEF ViewFrame
<1>6. CASE LoadSettled(i)
  <2>1. PICK arg : arg = c.arg
    OBVIOUS
  <2>2. c.fn = "load"
    BY <1>0, <1>6 DEF LoadSettled, Is
  <2>3. arg.of \in Filters /\ arg.after \in Dialogs \cup {None}
    BY <1>2, <2>1, <2>2 DEF CallOK, ArgOK
  <2>4. \/ /\ c.state = "ok" /\ EndLoad(i, TRUE)
           /\ w = IF Live(i) THEN Finished(Shown(v, c.got, arg.of), arg.after) ELSE v
        \/ EndLoad(i, FALSE) /\ w = IF Live(i) THEN Finished(v, arg.after) ELSE v
    BY <1>0, <1>6, <2>1 DEF LoadSettled, Good
  <2>5. FilledIn(v) /\ Ranged(v)
    BY <1>0 DEF ViewsOK, InventoryOK
  <2>6. CASE w = v /\ ~Live(i) /\ \E answered \in BOOLEAN : EndLoad(i, answered)
    <3>1. ~Shows(i)
      BY <2>6 DEF Shows, Live
    <3> QED  BY <1>0, <1>2, <1>3, <1>5, <2>6, <3>1, QuietEnds DEF Stays
  <2>7. CASE Live(i) /\ EndLoad(i, FALSE) /\ w = Finished(v, arg.after)
    <3>1. w.filters = v.filters
      BY <2>3, <2>5, <2>7, FinishedTyped
    <3> QED  BY <1>0, <1>2, <1>3, <2>7, <3>1, QuietEnds DEF Stays
  <2>8. CASE /\ Live(i) /\ c.state = "ok" /\ EndLoad(i, TRUE)
             /\ w = Finished(Shown(v, c.got, arg.of), arg.after)
    <3>1. PICK u : u = Shown(v, c.got, arg.of)
      OBVIOUS
    <3>2. c.got \in [rows : SUBSET Mats, details : SUBSET Lots, asOf : Nat]
      <4>1. Now \in Nat
        BY NowTyped DEF QuietFrame
      <4> QED  BY <1>2, <2>2, <2>8, <4>1 DEF CallOK, GotOK, Loaded
    <3>3. /\ FilledIn(u) /\ Ranged(u) /\ u.filters = v.filters
          /\ u.table.of = arg.of /\ u.table.asOf = c.got.asOf
      BY <2>3, <2>5, <3>1, <3>2, ShownTyped
    <3>4. w.filters = v.filters /\ w.table.of = arg.of /\ w.table.asOf = c.got.asOf
      BY <2>3, <2>8, <3>1, <3>3, FinishedTyped
    <3>5. ASSUME Shows(i), c.newest PROVE Answered'
      <4>1. page = "inventory" /\ arg.of = v.filters /\ mine <= c.got.asOf
        BY <1>0, <1>4, <2>1, <2>2, <2>8, <3>5 DEF Current, AtPage, UpToDate
      <4>2. mine' = mine /\ page' = "inventory"
        BY <2>8, <4>1 DEF EndLoad
      <4> QED  BY <1>0, <3>4, <4>1, <4>2 DEF Answered
    <3> QED  BY <1>0, <1>2, <1>3, <2>8, <3>4, <3>5, QuietEnds DEF Stays
  <2> QED  BY <2>4, <2>6, <2>7, <2>8
<1>7. CASE SubmitAnswered(i)
  <2>1. /\ c.fn = "submit" /\ c.state = "ok" /\ w = v
        /\ Reload(i, "load", LoadArg(c.arg.of, c.arg.dialog), c.arg.of = v.filters)
    BY <1>0, <1>7 DEF SubmitAnswered, Is, Good
  <2>2. c.got \in 0 .. Now /\ Now \in Nat
    BY <1>2, <2>1, NowTyped DEF CallOK, GotOK, QuietFrame
  <2>3. Shows(i) => page = "inventory"
    BY <1>4, <2>1 DEF Current, AtPage
  <2>4. LoadArg(c.arg.of, c.arg.dialog).of = c.arg.of
    BY DEF LoadArg
  <2>5. c.got \in Nat /\ c.fn \in PageFns /\ PageOf("load") = "inventory"
    BY <2>1, <2>2 DEF PageFns, PageOf
  <2> QED  BY <1>0, <1>2, <1>5, <2>1, <2>3, <2>4, <2>5, QuietReloads
<1>8. CASE SubmitFailed(i)
  <2>1. c.fn = "submit" /\ Put(i, NoCall) /\ UNCHANGED <<fresh, mine>>
    BY <1>0, <1>8 DEF SubmitFailed, Is
  <2>2. w.filters = v.filters /\ w.table = v.table
    BY <1>0, <1>1, <1>8 DEF SubmitFailed, InventoryType
  <2>3. ViewFrame
    BY <1>0, <1>3, <2>2 DEF ViewFrame
  <2> QED  BY <1>0, <1>3, <2>1, <2>3, QuietDrops DEF LoadFns
<1> QED  BY <1>6, <1>7, <1>8 DEF InventorySettles

LEMMA QuietHistorySettled ==
  ASSUME QuietFrame, Base, ViewsOK, UNCHANGED <<authVars, page, entries, shelf, items, inventory, settings>>,
         NEW i \in CallIds, HistorySettled(i) \/ (StatsSettled(i) /\ UNCHANGED history)
  PROVE  CurrentInv' /\ Settled'
<1>0. PICK v, w, c : v = history /\ w = history' /\ c = calls[i]
  OBVIOUS
<1>1. v \in HistoryType
  BY <1>0 DEF ViewsOK, HistoryOK
<1>2. c # NoCall /\ c.tab \in Tabs
  BY <1>0 DEF HistorySettled, StatsSettled, Is
<1>3. Stays(settings, settings') /\ (w = v => ViewFrame)
  BY <1>0 DEF Stays, ViewFrame
<1>4. Shows(i) => Current(c)
  BY <1>0 DEF QuietFrame, CurrentInv
<1>5. CASE w = v /\ \E answered \in BOOLEAN : EndLoad(i, answered) /\ ~(Shows(i) /\ answered)
  BY <1>0, <1>2, <1>3, <1>5, QuietEnds DEF Stays
<1>6. CASE StatsSettled(i) /\ w = v
  <2>1. c.fn = "stats" /\ \E answered \in BOOLEAN : EndLoad(i, answered)
    BY <1>0, <1>6 DEF StatsSettled, Is
  <2>2. Shows(i) => Answered'
    BY <1>4, <2>1 DEF Current, AtPage, Answered
  <2> QED  BY <1>0, <1>2, <1>3, <1>6, <2>1, <2>2, QuietEnds DEF Stays
<1>7. CASE /\ HistorySettled(i) /\ Live(i) /\ c.state = "ok" /\ EndLoad(i, TRUE)
           /\ w = [v EXCEPT !.table = [moves |-> c.got.rows, logs |-> c.got.details,
                                       of |-> c.arg, asOf |-> c.got.asOf]]
  <2>1. c.fn = "history" /\ w.filters = v.filters /\ w.table.of = c.arg
    BY <1>0, <1>1, <1>7 DEF HistorySettled, Is, HistoryType
  <2>2. ASSUME Shows(i), c.newest PROVE Answered'
    <3>1. page' = "history" /\ c.arg = v.filters
      BY <1>0, <1>4, <2>1, <2>2 DEF Current, AtPage, UpToDate
    <3> QED  BY <1>0, <2>1, <3>1 DEF Answered
  <2> QED  BY <1>0, <1>2, <1>3, <1>7, <2>1, <2>2, QuietEnds DEF Stays
<1>8. HistorySettled(i) =>
        \/ w = v /\ EndLoad(i, FALSE)
        \/ w = v /\ EndLoad(i, TRUE) /\ ~Live(i)
        \/ /\ Live(i) /\ c.state = "ok" /\ EndLoad(i, TRUE)
           /\ w = [v EXCEPT !.table = [moves |-> c.got.rows, logs |-> c.got.details,
                                       of |-> c.arg, asOf |-> c.got.asOf]]
  BY <1>0 DEF HistorySettled, Good
<1>9. ~Live(i) => ~Shows(i)
  BY DEF Live, Shows
<1> QED  BY <1>0, <1>5, <1>6, <1>7, <1>8, <1>9

LEMMA QuietSettingsSettled ==
  ASSUME QuietFrame, Base, ViewsOK, UNCHANGED <<authVars, page, entries, shelf, items, inventory, history>>,
         NEW i \in CallIds, SettingsSettles(i)
  PROVE  CurrentInv' /\ Settled'
<1>0. PICK v, w, c : v = settings /\ w = settings' /\ c = calls[i]
  OBVIOUS
<1>1. Edited(v) /\ v \in SettingsType
  BY <1>0 DEF ViewsOK, SettingsOK, Edited
<1>2. c # NoCall /\ c.tab \in Tabs /\ CallOK(c)
  BY <1>0 DEF SettingsSettles, ListSettled, SaveAnswered, SaveFailed, DeleteAnswered, DeleteFailed,
              TestSettled, Is, QuietFrame, CallsOK
<1>3. ServerMoves /\ SignedIn(Here)' = SignedIn(Here)
  BY DEF ServerMoves, authVars, SignedIn
<1>4. Shows(i) => Current(c)
  BY <1>0 DEF QuietFrame, CurrentInv
<1>5. Stays(v, w) => ViewFrame
  BY <1>0 DEF ViewFrame
<1>6. ASSUME NEW after, w = Done(v, after) PROVE Stays(v, w)
  BY <1>1, <1>6, DoneTyped DEF Stays
<1>7. CASE ListSettled(i)
  <2>1. c.fn = "list" /\ LoadFns = {"load", "history", "list"}
    BY <1>0, <1>7 DEF ListSettled, Is, LoadFns
  <2>2. \/ Live(i) /\ c.state = "ok" /\ EndLoad(i, TRUE) /\ w = Done(Listing(v, c.got), c.arg.after)
        \/ /\ \E answered \in BOOLEAN : EndLoad(i, answered) /\ ~(Live(i) /\ answered)
           /\ w = v \/ w = Done(v, c.arg.after)
    BY <1>0, <1>7 DEF ListSettled, Good
  <2>3. CASE /\ \E answered \in BOOLEAN : EndLoad(i, answered) /\ ~(Live(i) /\ answered)
             /\ w = v \/ w = Done(v, c.arg.after)
    <3>1. Stays(v, w)
      BY <1>6, <2>3 DEF Stays
    <3>2. Shows(i) => Live(i)
      BY DEF Shows, Live
    <3> QED  BY <1>0, <1>2, <1>5, <2>3, <3>1, <3>2, QuietEnds DEF Stays
  <2>4. CASE Live(i) /\ c.state = "ok" /\ EndLoad(i, TRUE) /\ w = Done(Listing(v, c.got), c.arg.after)
    <3>1. LoadedList(c.arg, c.got)
      BY <1>2, <2>1, <2>4 DEF CallOK, GotOK
    <3>2. c.got \in [rows : SUBSET Names, asOf : Nat]
      BY <3>1, NowTyped DEF LoadedList, QuietFrame
    <3>3. PICK u : u = Listing(v, c.got)
      OBVIOUS
    <3>4. Edited(u) /\ u.section = v.section /\ u.asOf = c.got.asOf /\ u.rows = c.got.rows
      BY <1>1, <3>2, <3>3, ListingTyped
    <3>5. w.section = v.section /\ w.asOf = c.got.asOf /\ w.rows = c.got.rows
      BY <2>4, <3>3, <3>4, DoneTyped
    <3>6. ASSUME Shows(i), c.newest PROVE Answered'
      <4>1. page = "settings" /\ c.arg.section = v.section /\ mine <= c.got.asOf
        BY <1>0, <1>4, <2>1, <2>4, <3>6 DEF Current, AtPage, UpToDate
      <4>2. mine' = mine /\ page' = "settings" /\ items' = items /\ Now' = Now
        BY <2>4, <4>1 DEF EndLoad, Now
      <4>3. w.asOf = Now => w.rows = items[v.section]
        BY <3>1, <3>5, <4>1 DEF LoadedList
      <4> QED  BY <1>0, <3>5, <4>1, <4>2, <4>3 DEF Answered
    <3> QED  BY <1>0, <1>2, <2>4, <3>5, <3>6, QuietEnds DEF Stays
  <2> QED  BY <2>2, <2>3, <2>4
<1>8. ASSUME NEW arg, arg.section = c.arg.section, Reload(i, "list", arg, TRUE), Stays(v, w),
             c.fn \in {"save", "delete"}, c.state = "ok"
      PROVE  CurrentInv' /\ Settled'
  <2>1. c.got \in 0 .. Now /\ Now \in Nat
    BY <1>2, <1>8, NowTyped DEF CallOK, GotOK, QuietFrame
  <2>2. Shows(i) => page = "settings" /\ c.arg.section = v.section
    BY <1>0, <1>4, <1>8 DEF Current, AtPage
  <2>3. c.got \in Nat /\ c.fn \in PageFns /\ PageOf("list") = "settings"
    BY <1>8, <2>1 DEF PageFns, PageOf
  <2> QED  BY <1>0, <1>2, <1>5, <1>8, <2>2, <2>3, QuietReloads
<1>9. ASSUME c.fn \in {"save", "delete", "test"}, Put(i, NoCall), UNCHANGED <<fresh, mine>>, Stays(v, w)
      PROVE  CurrentInv' /\ Settled'
  BY <1>0, <1>3, <1>5, <1>9, QuietDrops DEF LoadFns
<1>10. CASE SaveAnswered(i)
  <2>1. c.fn = "save" /\ c.state = "ok"
    BY <1>0, <1>10 DEF SaveAnswered, Is, Good
  <2>2. CASE c.arg.section = "password"
    <3>1. /\ Put(i, NoCall) /\ UNCHANGED <<fresh, mine>>
          /\ w = v \/ w = Done(v, "form")
      BY <1>0, <1>10, <2>2 DEF SaveAnswered
    <3> QED  BY <1>6, <1>9, <2>1, <3>1 DEF Stays
  <2>3. CASE c.arg.section # "password"
    <3>1. /\ Reload(i, "list", ListArg(c.arg.section, c.arg.key), TRUE)
          /\ w = v \/ w = [v EXCEPT !.editing = None, !.fields = None]
      BY <1>0, <1>10, <2>3 DEF SaveAnswered
    <3>2. Stays(v, w)
      BY <1>1, <3>1 DEF SettingsType, Stays
    <3>3. ListArg(c.arg.section, c.arg.key).section = c.arg.section
      BY DEF ListArg
    <3> QED  BY <1>8, <2>1, <3>1, <3>2, <3>3
  <2> QED  BY <2>2, <2>3
<1>11. CASE DeleteAnswered(i)
  <2>1. /\ c.fn = "delete" /\ c.state = "ok" /\ w = v
        /\ Reload(i, "list", ListArg(c.arg.section, "deleted"), TRUE)
    BY <1>0, <1>11 DEF DeleteAnswered, Is, Good
  <2>2. ListArg(c.arg.section, "deleted").section = c.arg.section /\ Stays(v, w)
    BY <2>1 DEF ListArg, Stays
  <2> QED  BY <1>8, <2>1, <2>2
<1>12. CASE SaveFailed(i) \/ DeleteFailed(i) \/ TestSettled(i)
  <2>1. c.fn \in {"save", "delete", "test"} /\ Put(i, NoCall) /\ UNCHANGED <<fresh, mine>>
    BY <1>0, <1>12 DEF SaveFailed, DeleteFailed, TestSettled, Is
  <2>2. w = v \/ (\E after : w = Done(v, after)) \/ w = [v EXCEPT !.testing = FALSE]
    BY <1>0, <1>12 DEF SaveFailed, DeleteFailed, TestSettled
  <2>3. Stays(v, w)
    BY <1>1, <1>6, <2>2 DEF SettingsType, Stays
  <2> QED  BY <1>9, <2>1, <2>3
<1> QED  BY <1>7, <1>10, <1>11, <1>12 DEF SettingsSettles

\* The server answers a request.
LEMMA ReadsAsOf ==
  ASSUME QuietFrame, NEW i \in CallIds, Serves(i)
  PROVE  /\ calls[i] # NoCall
         /\ \E state, got :
              /\ Handle(i, state, got)
              /\ calls[i].fn = "load" /\ state \in {"rows", "details", "ok"} =>
                   \/ got.asOf = Now
                   \/ calls[i].state \in {"rows", "details"} /\ got.asOf = calls[i].got.asOf
              /\ calls[i].fn = "list" /\ state = "ok" => got.asOf = Now
<1>0. PICK c : c = calls[i]
  OBVIOUS
<1>1. c # NoCall /\ CallOK(c)
  BY <1>0, ServesHandle DEF QuietFrame, CallsOK
<1>3. ASSUME NEW rows, c.fn = "load", c.state \in {"rows", "details"}
      PROVE  /\ [c.got EXCEPT !.rows = rows].asOf = c.got.asOf
             /\ [c.got EXCEPT !.details = rows].asOf = c.got.asOf
  <2>1. PICK got : got = c.got
    OBVIOUS
  <2>2. got \in [rows : SUBSET Mats, details : SUBSET Lots, asOf : 0 .. Now]
    BY <1>1, <1>3, <2>1 DEF CallOK, GotOK, Loaded
  <2> QED  BY <2>1, <2>2
<1>4. ASSUME NEW rows, HandleRows(i, rows)
      PROVE  \E state, got :
               /\ Handle(i, state, got)
               /\ c.fn = "load" => \/ got.asOf = Now
                                   \/ c.state \in {"rows", "details"} /\ got.asOf = c.got.asOf
  <2>1. CASE Handle(i, "rows", [rows |-> rows, details |-> {}, asOf |-> Len(entries)])
    BY <2>1 DEF Now
  <2>2. CASE c.state = "details" /\ Handle(i, "ok", [c.got EXCEPT !.rows = rows])
    <3>1. c.fn = "load" => [c.got EXCEPT !.rows = rows].asOf = c.got.asOf
      BY <1>3, <2>2
    <3> QED  BY <2>2, <3>1
  <2> QED  BY <1>0, <1>4, <2>1, <2>2 DEF HandleRows
<1>5. ASSUME NEW rows, HandleDetails(i, rows)
      PROVE  \E state, got :
               /\ Handle(i, state, got)
               /\ c.fn = "load" => \/ got.asOf = Now
                                   \/ c.state \in {"rows", "details"} /\ got.asOf = c.got.asOf
  <2>1. CASE Handle(i, "details", [rows |-> {}, details |-> rows, asOf |-> Len(entries)])
    BY <2>1 DEF Now
  <2>2. CASE c.state = "rows" /\ Handle(i, "ok", [c.got EXCEPT !.details = rows])
    <3>1. c.fn = "load" => [c.got EXCEPT !.details = rows].asOf = c.got.asOf
      BY <1>3, <2>2
    <3> QED  BY <2>2, <3>1
  <2> QED  BY <1>0, <1>5, <2>1, <2>2 DEF HandleDetails
<1>6. CASE SessionServes(i)
  <2>1. \E state, got : Handle(i, state, got) /\ (c.fn \in {"login", "me", "poll"} \/ state = "refused")
    BY <1>0, <1>6 DEF SessionServes, ServeLogin, ServePlain, ServeRefused, Heard, Is
  <2> QED  BY <1>0, <1>1, <2>1
<1>7. CASE ServeSubmit(i) \/ SettingsChanges(i)
  <2>1. c.fn \in {"submit", "save", "delete"} /\ \E state, got : Handle(i, state, got)
    BY <1>0, <1>7 DEF ServeSubmit, SettingsChanges, ServeSave, ServeDelete, Heard, Is
  <2> QED  BY <1>0, <1>1, <2>1
<1>8. CASE InventoryReads(i) \/ HistoryReads(i)
  <2>1. c.fn # "list" /\ \E rows : HandleRows(i, rows) \/ HandleDetails(i, rows)
    BY <1>0, <1>8 DEF InventoryReads, ServeMaterials, ServeLots, HistoryReads, ServeMoves, ServeLogs,
                      Heard, Is
  <2> QED  BY <1>0, <1>1, <1>4, <1>5, <2>1
<1>9. CASE ServeStats(i)
  <2>1. c.fn = "stats" /\ \E state, got : Handle(i, state, got)
    BY <1>0, <1>9 DEF ServeStats, Heard, Is
  <2> QED  BY <1>0, <1>1, <2>1
<1>10. CASE SettingsReads(i)
  <2>1. CASE ServeList(i)
    <3>1. c.fn = "list" /\ Handle(i, "ok", [rows |-> items[c.arg.section], asOf |-> Len(entries)])
      BY <1>0, <2>1 DEF ServeList, Heard, Is
    <3> QED  BY <1>0, <1>1, <3>1 DEF Now
  <2>2. CASE ServeTest(i) \/ ServeUnrouted(i)
    <3>1. \E state, got : Handle(i, state, got) /\ (c.fn = "test" \/ state = "rejected")
      BY <1>0, <2>2 DEF ServeTest, ServeUnrouted, Heard, Is
    <3> QED  BY <1>0, <1>1, <3>1
  <2> QED  BY <1>10, <2>1, <2>2 DEF SettingsReads
<1> QED  BY <1>6, <1>7, <1>8, <1>9, <1>10 DEF Serves

LEMMA QuietServed ==
  ASSUME QuietFrame, NEW i \in CallIds, Serves(i), UNCHANGED <<inventory, history, settings, page>>,
         ServerMoves, SignedIn(Here)' => SignedIn(Here)
  PROVE  CurrentInv' /\ Settled'
<1>1. ViewFrame
  BY DEF ViewFrame, Stays
<1>2. PICK state, got :
              /\ calls[i] # NoCall /\ Handle(i, state, got)
              /\ calls[i].fn = "load" /\ state \in {"rows", "details", "ok"} =>
                   \/ got.asOf = Now
                   \/ calls[i].state \in {"rows", "details"} /\ got.asOf = calls[i].got.asOf
              /\ calls[i].fn = "list" /\ state = "ok" => got.asOf = Now
  BY ReadsAsOf
<1> QED  BY <1>1, <1>2, QuietHandled

(* The session *)

\* Without one of its pages there is nothing to settle.
LEMMA PageLess == ASSUME page' \notin Pages PROVE Settled'
  BY DEF Settled, Answered, Pages

LEMMA QuietSessionSettled ==
  ASSUME QuietFrame, SessionInv, Base, NEW i \in CallIds, SessionSettles(i),
         UNCHANGED <<page, entries, shelf, items, inventory, history, settings>>
  PROVE  CurrentInv' /\ Settled'
<1>0. PICK c, t : c = calls[i] /\ t = c.tab
  OBVIOUS
<1>1. ViewFrame /\ ServerMoves /\ Here \in Tabs /\ held = [u \in Tabs |-> held[u]]
  BY WebCallsAssumption DEF ViewFrame, Stays, ServerMoves, Base, TokenInv
<1>2. Put(i, NoCall) /\ c # NoCall /\ UNCHANGED <<mine, fresh>>
  BY <1>0 DEF SessionSettles, MeAnswered, MeFailed, LoginAnswered, Unauthorized, PlainSettled, Is
<1>3. CurrentInv'
  <2>1. Marks(0) /\ 0 \notin CallIds
    BY <1>2, MarksDrop DEF CallIds, QuietFrame
  <2> QED  BY <1>1, <1>2, <2>1, CurrentStays DEF QuietFrame
<1>4. CASE (Shows(i) => c.fn \notin LoadFns) /\ held'[Here] = held[Here]
  BY <1>0, <1>1, <1>2, <1>4, QuietDrops DEF SignedIn
<1>5. CASE MeAnswered(i)
  <2>1. c.fn = "me" /\ held' = [held EXCEPT ![t] = c.arg] /\ t \in Tabs
    BY <1>0, <1>5 DEF MeAnswered, Is
  <2>2. CASE t = Here
    <3>1. Waits(i, "me")
      BY <1>0, <1>2, <2>1, <2>2 DEF Waits
    <3>2. page \notin Pages
      BY <3>1 DEF SessionInv
    <3> QED  BY <1>3, <3>2, PageLess
  <2>3. CASE t # Here
    BY <1>1, <1>4, <2>1, <2>3 DEF LoadFns
  <2> QED  BY <2>2, <2>3
<1>6. CASE LoginAnswered(i)
  <2>1. c.fn = "login" /\ held' = [held EXCEPT ![t] = c.got] /\ t \in Tabs
    BY <1>0, <1>6 DEF LoginAnswered, Is
  <2>2. CASE t = Here
    <3>1. Waits(i, "login")
      BY <1>0, <1>2, <2>1, <2>2 DEF Waits
    <3>2. page \notin Pages
      BY <3>1, WebAppAssumption DEF SessionInv, Pages, Routes
    <3> QED  BY <1>3, <3>2, PageLess
  <2>3. CASE t # Here
    BY <1>1, <1>4, <2>1, <2>3 DEF LoadFns
  <2> QED  BY <2>2, <2>3
<1>7. CASE Unauthorized(i)
  <2>1. held' = [held EXCEPT ![t] = NoToken] /\ t \in Tabs
    BY <1>0, <1>7 DEF Unauthorized, SignOut
  <2>2. CASE t = Here
    <3>1. ~SignedIn(Here)'
      BY <1>1, <2>1, <2>2 DEF SignedIn
    <3> QED  BY <1>1, <1>2, <3>1, QuietDrops
  <2>3. CASE t # Here
    <3>1. ~Shows(i) /\ held'[Here] = held[Here]
      BY <1>0, <1>1, <2>1, <2>3 DEF Shows
    <3> QED  BY <1>4, <3>1
  <2> QED  BY <2>2, <2>3
<1>8. CASE MeFailed(i) \/ PlainSettled(i)
  <2>1. held' = held /\ (c.fn \in {"me", "poll", "login"} \/ t = NoTab)
    BY <1>0, <1>8 DEF MeFailed, PlainSettled, Is, authVars
  <2>2. Shows(i) => c.fn \notin LoadFns
    BY <1>0, <2>1, WebCallsAssumption DEF Shows, LoadFns
  <2> QED  BY <1>4, <2>1, <2>2
<1> QED  BY <1>5, <1>6, <1>7, <1>8 DEF SessionSettles

LEMMA QuietSessionClicked ==
  ASSUME QuietFrame, Base, SessionClicks,
         UNCHANGED <<page, entries, shelf, items, inventory, history, settings>>
  PROVE  CurrentInv' /\ Settled'
<1>1. ViewFrame /\ ServerMoves /\ Here \in Tabs /\ held = [u \in Tabs |-> held[u]]
  BY WebCallsAssumption DEF ViewFrame, Stays, ServerMoves, Base, TokenInv
<1>2. CASE UNCHANGED callVars \/ UNCHANGED <<calls, loading, fresh, mine>>
  <2>1. held'[Here] \in {held[Here], NoToken}
    BY <1>1, <1>2 DEF SessionClicks, Poll, LoginSubmit, Logout, TokensDie, Navigate, HeaderSearch,
                      authVars
  <2>2. SignedIn(Here)' => SignedIn(Here)
    BY <2>1 DEF SignedIn
  <2> QED  BY <1>1, <1>2, <2>2, QuietSame DEF callVars
<1>3. ASSUME NEW i \in CallIds, NEW t, NEW fn \in {"poll", "login"}, NEW arg, Free(i),
             Put(i, Request(t, fn, arg)), UNCHANGED <<authVars, loading, fresh, mine>>
      PROVE  CurrentInv' /\ Settled'
  <2>1. Marks(i) /\ Takes(i, t, fn, arg)
    BY <1>3, MarksSend DEF QuietFrame
  <2>2. Current(calls[i])'
    BY <2>1 DEF Takes, Current, AtPage, UpToDate
  <2>3. CurrentInv'
    BY <1>1, <1>3, <2>1, <2>2, CurrentStays DEF QuietFrame
  <2>4. NoLoads' => NoLoads
    BY <1>3, LoadsPut DEF QuietFrame, Free, Shows
  <2>5. SignedIn(Here)' = SignedIn(Here)
    BY <1>3 DEF authVars, SignedIn
  <2> QED  BY <1>1, <1>3, <2>3, <2>4, <2>5, SettledStays DEF QuietFrame
<1> QED
  BY <1>2, <1>3 DEF SessionClicks, Poll, LoginSubmit, Logout, TokensDie, Navigate, HeaderSearch

(* Together *)

LEMMA QuietStep ==
  ASSUME QuietInv, Base, ViewsOK, ServerOK', [Next]_vars PROVE QuietInv'
<1>0. /\ QuietFrame /\ SessionInv /\ ServerOK /\ Pool(calls) /\ CallsOK
      /\ init \in [Tabs -> BOOLEAN] /\ query \in Words \cup {NoWord}
      /\ inventory \in InventoryType /\ held = [u \in Tabs |-> held[u]] /\ Here \in Tabs
  BY StoredToken, WebCallsAssumption
     DEF QuietFrame, QuietInv, Base, ViewsOK, InventoryOK, FilledIn, SessionTypes, TokenInv
<1>1. SessionInv'
  BY SessionStep DEF QuietInv
<1> SUFFICES CurrentInv' /\ Settled'
  BY <1>1 DEF QuietInv
<1>2. CASE Render
  BY <1>0, <1>2, QuietRenders DEF Render
<1>3. CASE Timer
  <2>1. UNCHANGED <<authVars, page, entries, shelf, items>>
    BY <1>3 DEF Timer, viewFrame, dbVars
  <2> QED  BY <1>0, <1>3, <2>1, QuietClicked DEF Timer
<1>4. ASSUME NEW i \in CallIds, Advance(i) PROVE CurrentInv' /\ Settled'
  <2>1. CASE SessionSettles(i) /\ UNCHANGED sessionFrame
    <3>1. UNCHANGED <<page, entries, shelf, items, inventory, history, settings>>
      BY <2>1 DEF sessionFrame, dbVars, viewVars
    <3> QED  BY <1>0, <2>1, <3>1, QuietSessionSettled
  <2>2. CASE Serves(i) /\ UNCHANGED held /\ UNCHANGED <<page, inventory, history, settings>> /\ ServerMoves
    <3>1. SignedIn(Here)' = SignedIn(Here)
      BY <2>2 DEF SignedIn
    <3> QED  BY <1>0, <2>2, <3>1, QuietServed
  <2>3. CASE \/ SessionServes(i) /\ UNCHANGED sessionFrame
             \/ /\ InventoryReads(i) \/ HistoryReads(i) \/ ServeStats(i) \/ SettingsReads(i)
                /\ UNCHANGED <<authVars, sessionFrame>>
    <3>1. UNCHANGED held
      BY <2>3 DEF SessionServes, ServeLogin, ServePlain, ServeRefused, authVars
    <3>2. UNCHANGED <<page, inventory, history, settings>> /\ ServerMoves
      BY <2>3 DEF sessionFrame, dbVars, viewVars, ServerMoves
    <3> QED  BY <2>2, <2>3, <3>1, <3>2 DEF Serves
  <2>4. CASE \/ ServeSubmit(i) /\ UNCHANGED <<authVars, page, items, viewVars, storedItems>>
             \/ SettingsChanges(i) /\ UNCHANGED <<authVars, page, shelf, viewVars, storedItems>>
    <3>1. ServerMoves
      BY <1>0, <2>4, ChangesTyped
    <3>2. UNCHANGED held /\ UNCHANGED <<page, inventory, history, settings>>
      BY <2>4 DEF authVars, viewVars
    <3> QED  BY <2>2, <2>4, <3>1, <3>2 DEF Serves
  <2>5. CASE \/ InventorySettles(i) /\ UNCHANGED <<viewFrame, history, home, settings, shopping>>
             \/ HistorySettled(i) /\ UNCHANGED <<viewFrame, inventory, home, settings, shopping>>
             \/ StatsSettled(i) /\ UNCHANGED <<viewFrame, inventory, history, settings, shopping>>
             \/ SettingsSettles(i) /\ UNCHANGED <<viewFrame, inventory, history, home, shopping>>
    <3>1. UNCHANGED <<authVars, page, entries, shelf, items>>
      BY <2>5 DEF viewFrame, dbVars
    <3> QED
      BY <1>0, <2>5, <3>1, QuietInventorySettled, QuietHistorySettled, QuietSettingsSettled
  <2> QED  BY <1>4, <2>1, <2>3, <2>4, <2>5 DEF Advance
<1>5. CASE Users
  <2>1. CASE SessionClicks /\ UNCHANGED sessionFrame
    <3>1. UNCHANGED <<page, entries, shelf, items, inventory, history, settings>>
      BY <2>1 DEF sessionFrame, dbVars, viewVars
    <3> QED  BY <1>0, <2>1, <3>1, QuietSessionClicked
  <2>2. CASE \E r \in Routes : Reopen(r)
    BY <1>0, <2>2, QuietOpens DEF Reopen
  <2>3. CASE \E t \in Tabs \ {Here}, r \in Routes : OpenTab(t, r) /\ UNCHANGED sessionFrame
    <3>1. PICK t \in Tabs \ {Here}, r \in Routes : OpenTab(t, r) /\ UNCHANGED sessionFrame
      BY <2>3
    <3>2. ViewFrame /\ UNCHANGED <<entries, shelf, items>> /\ held \in [Tabs -> Tokens]
      BY <3>1 DEF sessionFrame, dbVars, viewVars, ViewFrame, Stays, Base, TokenInv, Tokens, Issued
    <3> QED  BY <1>0, <3>1, <3>2, QuietOpens
  <2>4. CASE \/ InventoryPage /\ UNCHANGED <<viewFrame, history, home, settings, shopping>>
             \/ HistoryPage /\ UNCHANGED <<viewFrame, inventory, home, settings, shopping>>
             \/ SettingsPage /\ UNCHANGED <<viewFrame, inventory, history, home, shopping>>
    <3>1. UNCHANGED <<authVars, page, entries, shelf, items>>
      BY <2>4 DEF viewFrame, dbVars
    <3> QED  BY <1>0, <2>4, <3>1, QuietClicked
  <2>5. CASE /\ ShoppingPage \/ \E x \in Items : OtherTabSaves(x)
             /\ UNCHANGED <<authVars, page, dbVars, inventory, history, home, settings>>
    <3>1. UNCHANGED <<calls, mine, fresh>>
      BY <2>5 DEF ShoppingPage, AddItem, ToggleItem, Keep, OtherTabSaves, callVars
    <3>2. ViewFrame /\ ServerMoves /\ SignedIn(Here)' = SignedIn(Here)
      BY <2>5 DEF ViewFrame, Stays, ServerMoves, dbVars, authVars, SignedIn
    <3> QED  BY <1>0, <3>1, <3>2, QuietSame
  <2>6. CASE OthersChange /\ UNCHANGED <<authVars, page, items, history, home, settings,
                                       shopping, storedItems>>
    <3>1. UNCHANGED <<calls, mine, fresh>>
      BY <2>6 DEF OthersChange, callVars
    <3>2. ServerMoves
      <4>1. entries' = Append(entries, "adjust") /\ "adjust" \in Kinds /\ entries \in Seq(Kinds)
        BY <1>0, <2>6 DEF OthersChange, Kinds, Dialogs, ServerOK
      <4> QED  BY <4>1 DEF ServerMoves, Now
    <3>3. ViewFrame /\ SignedIn(Here)' = SignedIn(Here)
      BY <2>6 DEF OthersChange, ViewFrame, Stays, authVars, SignedIn
    <3> QED  BY <1>0, <3>1, <3>2, <3>3, QuietSame
  <2> QED  BY <1>5, <2>1, <2>2, <2>3, <2>4, <2>5, <2>6 DEF Users
<1>6. CASE UNCHANGED vars
  <2>1. ViewFrame /\ ServerMoves /\ SignedIn(Here)' = SignedIn(Here) /\ UNCHANGED <<calls, mine, fresh>>
    BY <1>6 DEF vars, callVars, viewVars, dbVars, authVars, ViewFrame, Stays, ServerMoves, SignedIn
  <2> QED  BY <1>0, <2>1, QuietSame
<1> QED  BY <1>2, <1>3, <1>4, <1>5, <1>6 DEF Next, Work

LEMMA QuietAtFirst == ASSUME Init PROVE QuietInv
<1>1. \A i \in CallIds : calls[i] = NoCall
  BY DEF Init
<1>2. page = None /\ fresh = FALSE /\ None \notin Pages
  BY WebAppAssumption DEF Init, Pages, Routes
<1> QED  BY <1>1, <1>2 DEF QuietInv, SessionInv, Waits, CurrentInv, Shows, Settled

\* A settled page shows the answer to its filters, and what it shows is the stock.
LEMMA QuietIsCurrent ==
  ASSUME QuietInv, ViewsOK, ServerOK PROVE QuietViewIsCurrent
<1> SUFFICES ASSUME Ours = {}, fresh, page = Route PROVE QuietInventory /\ QuietHistory /\ QuietSettings
  BY DEF QuietViewIsCurrent
<1>1. NoLoads
  BY DEF NoLoads, Shows, Ours
<1>2. page \in Pages => Answered
  <2>1. page \in Pages => SignedIn(Here)
    BY WebAppAssumption DEF Route, Mounted, Pages, Routes
  <2> QED  BY <1>1, <2>1 DEF QuietInv, Settled
<1>3. mine \in Nat /\ Now \in Nat
  BY NowTyped DEF ServerOK
<1>4. QuietInventory
  <2>1. SUFFICES ASSUME page = "inventory" PROVE
             LET t == inventory.table
             IN /\ t.of = inventory.filters /\ t.asOf >= mine
                /\ t.asOf = Len(entries) => /\ t.lots = LotsOf(shelf, t.of)
                                            /\ t.mats \subseteq MatsOf(shelf, t.of)
    BY DEF QuietInventory
  <2>2. PICK t : t = inventory.table
    OBVIOUS
  <2>3. t.of = inventory.filters /\ mine <= t.asOf
    BY <1>2, <2>1, <2>2 DEF Answered, Pages
  <2>4. inventory.filters \in Filters /\ t.asOf \in Nat
    BY <2>2 DEF ViewsOK, InventoryOK, FilledIn, InventoryType
  <2>5. t.asOf = Now => t.lots = LotsOf(shelf, t.of) /\ t.mats \subseteq MatsOf(shelf, t.of)
    BY <2>2, <2>3, <2>4, InventoryViewAssumption DEF ViewsOK, InventoryOK, InventoryShown
  <2> QED  BY <1>3, <2>2, <2>3, <2>4, <2>5 DEF Now
<1>5. QuietHistory
  <2>1. SUFFICES ASSUME page = "history" PROVE
             LET t == history.table
             IN /\ t.of = history.filters
                /\ t.asOf = Len(entries) => t.moves = MovesOf(t.of) /\ t.logs = LogsOf(t.of)
    BY DEF QuietHistory
  <2>2. PICK t : t = history.table
    OBVIOUS
  <2>3. t.of = history.filters
    BY <1>2, <2>1, <2>2 DEF Answered, Pages
  <2>4. history.filters \in HistoryFilters
    BY DEF ViewsOK, HistoryOK, HistoryType
  <2>5. t.asOf = Now => t.moves = MovesOf(t.of) /\ t.logs = LogsOf(t.of)
    BY <2>2, <2>3, <2>4, HistoryViewAssumption DEF ViewsOK, HistoryOK, HistoryShown
  <2> QED  BY <2>2, <2>3, <2>5 DEF Now
<1>6. QuietSettings
  <2>1. SUFFICES ASSUME page = "settings", settings.section \in Listed PROVE
             /\ settings.asOf >= mine
             /\ settings.asOf = Len(entries) => settings.rows = items[settings.section]
    BY DEF QuietSettings
  <2>2. /\ mine <= settings.asOf
        /\ settings.asOf = Now => settings.rows = items[settings.section]
    BY <1>2, <2>1 DEF Answered, Pages
  <2>3. settings.asOf \in Nat
    BY <1>3 DEF ViewsOK, SettingsOK
  <2> QED  BY <1>3, <2>2, <2>3 DEF Now
<1> QED  BY <1>4, <1>5, <1>6

\* When nothing is under way and the newest load was answered last, a page shows the
\* answer to its filters, not older than the changes made on it: loads overtake one
\* another, and every confirmed change is followed by one (loadData and its callers).
THEOREM QuietViewIsCurrentCorrect == Spec => []QuietViewIsCurrent
<1>1. Base /\ ViewsOK => ServerOK
  BY DEF Base
<1> QED  BY <1>1, TypedAtFirst, TypesStay, QuietAtFirst, QuietStep, QuietIsCurrent, PTL DEF Spec
=============================================================================
