--------------------------- MODULE InventoryProofs ---------------------------
(***************************************************************************)
(* Theorems about Inventory, for every number of goroutines, lots and      *)
(* requests.                                                               *)
(***************************************************************************)
EXTENDS Inventory, TLAPS

(* TypeOK is not inductive by itself: a row may be taken out of mem only   *)
(* at a statement that an earlier statement put one there for.             *)
PointOK ==
    \A p \in Procs :
        /\ pc[p] = "resolve" =>
              /\ Inbounds(p) => req[p].due \in Dues
              /\ Consumes(p) => req[p].mat \in MatIds
        /\ pc[p] \in {"newmat", "insert"} => Inbounds(p)
        /\ pc[p] \in {"list", "take"} => Consumes(p)
        /\ pc[p] \in {"idle", "read", "write", "get", "save", "reply"} =>
              ~Inbounds(p) /\ ~Consumes(p)
        /\ pc[p] = "newmat" => req[p].due \in Dues
        /\ pc[p] = "insert" => req[p].due \in Dues /\ req[p].mat \in MatIds
        /\ pc[p] \in {"read", "write", "get", "save"} => req[p].lot \in Lots
        /\ pc[p] \in {"get", "save"} => req[p].due \in Dues
        /\ pc[p] \in {"write", "save"} => mem[p][req[p].lot] # NoRow

TypeInv == TypeOK /\ PointOK

USE InventoryAssumption DEF InventoryAssumption, Rows, RequestType, TxPoints, OpNames

(* A request that passes the handlers' checks is well-formed.              *)
LEMMA RequestsTyped ==
    ASSUME NEW r \in Requests
    PROVE  /\ r \in RequestType /\ r.op \in Ops
           /\ r.op \in {"inbound", "batch_inbound"} => r.due \in Dues
           /\ r.op \in {"consume", "batch_consume"} => r.mat \in MatIds
           /\ r \in LotRequests \cup UpdateRequests => r.lot \in Lots
           /\ r \in UpdateRequests => r.due \in Dues /\ r.op = "update"
           /\ r \in LotRequests => r.op \in {"adjust", "void"}
<1> USE DEF Form, Positive, NonNegative
<1>1. ASSUME r \in LotRequests
      PROVE  r \in RequestType /\ r.op \in {"adjust", "void"} \cap Ops /\ r.lot \in Lots
  <2>1. /\ r = [op |-> r.op, mat |-> r.mat, name |-> r.name, lot |-> r.lot, qty |-> r.qty, due |-> r.due]
        /\ r.op \in {"adjust", "void"} \cap Ops /\ r.lot \in Lots
        /\ r.mat \in MatIds \cup {NoId} /\ r.name \in Names \cup {NoName}
        /\ r.lot \in Lots \cup {0}
    BY <1>1 DEF LotRequests
  <2>2. r.qty \in Int
    <3>1. r.qty \in Quantities \/ r.qty \in {0}  BY <1>1 DEF LotRequests
    <3>2. Quantities \subseteq Int /\ {0} \subseteq Int  OBVIOUS
    <3> QED BY <3>1, <3>2, Zenon
  <2>3. r.due \in Nat  BY <1>1 DEF LotRequests
  <2> QED BY <2>1, <2>2, <2>3
<1>2. ASSUME r \in UpdateRequests
      PROVE  r \in RequestType /\ r.op \in {"update"} \cap Ops /\ r.lot \in Lots /\ r.due \in Dues
  <2>1. /\ r = [op |-> r.op, mat |-> r.mat, name |-> r.name, lot |-> r.lot, qty |-> r.qty, due |-> r.due]
        /\ r.op \in {"update"} \cap Ops /\ r.lot \in Lots /\ r.due \in Dues
        /\ r.mat \in MatIds \cup {NoId} /\ r.name \in Names \cup {NoName}
        /\ r.lot \in Lots \cup {0}
    BY <1>2 DEF UpdateRequests
  <2>2. r.qty \in Int  BY <1>2 DEF UpdateRequests
  <2>3. r.due \in Nat  BY <1>2 DEF UpdateRequests
  <2> QED BY <2>1, <2>2, <2>3
<1>3. ASSUME NEW op \in {"consume", "batch_consume"}, NEW qs \in SUBSET Int,
             r \in Form({op}, MatIds, {NoName}, {0}, qs, {0})
      PROVE  r \in RequestType /\ r.op \in {"consume", "batch_consume"} \cap Ops /\ r.mat \in MatIds
  <2>1. /\ r = [op |-> r.op, mat |-> r.mat, name |-> r.name, lot |-> r.lot, qty |-> r.qty, due |-> r.due]
        /\ r.op \in {"consume", "batch_consume"} \cap Ops /\ r.mat \in MatIds
        /\ r.mat \in MatIds \cup {NoId} /\ r.name \in Names \cup {NoName}
        /\ r.lot \in Lots \cup {0}
    BY <1>3
  <2>2. r.qty \in Int  BY <1>3
  <2>3. r.due \in Nat  BY <1>3
  <2> QED BY <2>1, <2>2, <2>3
<1>4. ASSUME NEW op \in {"inbound", "batch_inbound"}, NEW qs \in SUBSET Int,
             r \in InboundForms(op, qs)
      PROVE  r \in RequestType /\ r.op \in {"inbound", "batch_inbound"} \cap Ops /\ r.due \in Dues
  <2>1. /\ r = [op |-> r.op, mat |-> r.mat, name |-> r.name, lot |-> r.lot, qty |-> r.qty, due |-> r.due]
        /\ r.op \in {"inbound", "batch_inbound"} \cap Ops /\ r.due \in Dues
        /\ r.mat \in MatIds \cup {NoId} /\ r.name \in Names \cup {NoName}
        /\ r.lot \in Lots \cup {0}
    BY <1>4 DEF InboundForms
  <2>2. r.qty \in Int  BY <1>4 DEF InboundForms
  <2>3. r.due \in Nat  BY <1>4 DEF InboundForms
  <2> QED BY <2>1, <2>2, <2>3
<1>5. Positive \in SUBSET Int /\ Quantities \in SUBSET Int
  OBVIOUS
<1> HIDE DEF Form, RequestType, Positive, NonNegative
<1> DEFINE Inbound == /\ r \in RequestType /\ r.op \in {"inbound", "batch_inbound"} \cap Ops
                      /\ r.due \in Dues
           Consume == /\ r \in RequestType /\ r.op \in {"consume", "batch_consume"} \cap Ops
                      /\ r.mat \in MatIds
<1>6. ASSUME r \in InboundRequests PROVE Inbound
  BY <1>4, <1>5, <1>6 DEF InboundRequests
<1>7. ASSUME r \in ConsumeRequests PROVE Consume
  BY <1>3, <1>5, <1>7 DEF ConsumeRequests
<1>8. ASSUME r \in BatchRequests PROVE Inbound \/ Consume
  BY <1>3, <1>4, <1>5, <1>8 DEF BatchRequests
<1>9. r.op \in {"inbound", "batch_inbound"} => r.op \notin {"consume", "batch_consume", "adjust", "void", "update"}
  OBVIOUS
<1> QED BY <1>1, <1>2, <1>6, <1>7, <1>8, <1>9 DEF Requests

LEMMA StoredTyped ==
    ASSUME NEW row \in Row
    PROVE  Stored(row) \in Row /\ Stored(row).qty = row.qty /\ Stored(row) # NoRow
BY DEF Stored, Row

(* Ending a request, committed or not, leaves the goroutine in a typed     *)
(* idle state.                                                             *)
LEMMA DoneTyped ==
    ASSUME TypeInv, NEW p \in Procs, Done(p),
           mats' \in [MatIds -> Names \cup {NoName}], lots' \in Rows,
           ledger' \in [Lots -> Int], budget' \in Nat
    PROVE  TypeInv'
<1>1. TypeOK'
  BY DEF TypeInv, TypeOK, Done, Goto, NoReq, NoMove, NoRows, Zeros
<1>2. PointOK'
  BY DEF TypeInv, PointOK, TypeOK, Done, Goto, NoReq, Inbounds, Consumes
<1> QED BY <1>1, <1>2 DEF TypeInv

LEMMA RollbackTyped ==
    ASSUME TypeInv, NEW p \in Procs, Rollback(p)
    PROVE  TypeInv'
BY DoneTyped DEF Rollback, TypeInv, TypeOK

LEMMA RowUpdated ==
    ASSUME NEW row \in Row, NEW q \in Int, NEW s \in {"active", "depleted", "void"},
           NEW d \in Dues
    PROVE  /\ [row EXCEPT !.qty = q, !.status = s] \in Row
           /\ [row EXCEPT !.qty = q, !.status = s].qty = q
           /\ [row EXCEPT !.due = d] \in Row
           /\ [row EXCEPT !.due = d].qty = row.qty
BY DEF Row

LEMMA RowRedated ==
    ASSUME NEW row \in Row, NEW d \in Dues
    PROVE  /\ [row EXCEPT !.due = d] \in Row
           /\ [row EXCEPT !.due = d].qty = row.qty
BY DEF Row

LEMMA RequestForMaterial ==
    ASSUME NEW r \in RequestType, NEW m \in MatIds
    PROVE  [r EXCEPT !.mat = m] \in RequestType /\ [r EXCEPT !.mat = m].mat = m
<1>1. r.qty \in Int  OBVIOUS
<1>2. r.due \in Nat  OBVIOUS
<1> QED BY <1>1, <1>2

LEMMA UpdatedTwice ==
    ASSUME NEW A, NEW B, NEW C, NEW f \in [A -> [B -> C]], NEW a \in A, NEW b \in B,
           NEW c \in C
    PROVE  [f EXCEPT ![a][b] = c] \in [A -> [B -> C]]
OBVIOUS

\* An update at a point outside the domain of the inner function is none.
LEMMA UpdatedOutside ==
    ASSUME NEW A, NEW B, NEW C, NEW f \in [A -> [B -> C]], NEW a \in A, NEW b, b \notin B,
           NEW c
    PROVE  [f EXCEPT ![a][b] = c] \in [A -> [B -> C]]
<1> DEFINE g == [f[a] EXCEPT ![b] = c]
<1>1. f[a] \in [B -> C]  OBVIOUS
<1>2. DOMAIN g = B  BY <1>1
<1>3. \A x \in B : g[x] = f[a][x]  BY <1>1
<1>4. g \in [B -> C]
  <2>1. g = [x \in B |-> f[a][x]]  BY <1>2, <1>3
  <2>2. \A x \in B : f[a][x] \in C  BY <1>1
  <2> HIDE DEF g
  <2> QED BY <2>1, <2>2
<1>5. [f EXCEPT ![a][b] = c] = [f EXCEPT ![a] = g]  OBVIOUS
<1> HIDE DEF g
<1> QED BY <1>4, <1>5

LEMMA SeenTyped ==
    ASSUME TypeOK, NEW p \in Procs
    PROVE  /\ \A l \in Lots : SeenLot(p, l) \in Row \cup {NoRow}
           /\ \A m \in MatIds : SeenMat(p, m) \in Names \cup {NoName}
BY DEF TypeOK, SeenLot, SeenMat

(* One step per action; the actions that only move to another statement    *)
(* need nothing but their guards.                                          *)
LEMMA StepTyped ==
    ASSUME TypeInv, NEW p \in Procs, Accept(p) \/ Step(p) \/ StatementFails(p)
    PROVE  TypeInv'
<1> USE DEF TypeInv, TypeOK, Goto, db, local, writes
<1>1. CASE Accept(p)
  <2> PICK r \in Requests :
        /\ req' = [req EXCEPT ![p] = r]
        /\ Goto(p, IF r \in UpdateRequests THEN "get"
                   ELSE IF r \in LotRequests THEN "read" ELSE "resolve")
    BY <1>1 DEF Accept
  <2>1. budget' \in Nat  BY <1>1 DEF Accept
  <2>2. TypeOK'
    BY <1>1, <2>1, RequestsTyped DEF Accept
  <2>3. PointOK'
    <3>1. /\ r \in UpdateRequests => r.op = "update" /\ r.lot \in Lots /\ r.due \in Dues
          /\ r \in LotRequests => r.op \in {"adjust", "void"} /\ r.lot \in Lots
          /\ r.op \in {"inbound", "batch_inbound"} => r.due \in Dues
          /\ r.op \in {"consume", "batch_consume"} => r.mat \in MatIds
      BY RequestsTyped
    <3>2. /\ req'[p] = r /\ UNCHANGED mem
          /\ pc'[p] = IF r \in UpdateRequests THEN "get"
                      ELSE IF r \in LotRequests THEN "read" ELSE "resolve"
          /\ \A q \in Procs \ {p} : pc'[q] = pc[q] /\ req'[q] = req[q]
      BY <1>1 DEF Accept
    <3> QED BY <3>1, <3>2 DEF PointOK, Inbounds, Consumes
  <2> QED BY <2>2, <2>3
<1>2. CASE InboundFindMaterial(p)
  <2> PICK m \in MatIds : req' = [req EXCEPT ![p].mat = m]
    BY <1>2 DEF InboundFindMaterial
  <2>1. TypeOK'
    <3>1. [req[p] EXCEPT !.mat = m] \in RequestType  BY RequestForMaterial
    <3>2. req' = [req EXCEPT ![p] = [req[p] EXCEPT !.mat = m]]  OBVIOUS
    <3>3. req' \in [Procs -> RequestType]  BY <3>1, <3>2
    <3> QED BY <1>2, <3>3 DEF InboundFindMaterial
  <2>2. PointOK'
    BY <1>2 DEF InboundFindMaterial, PointOK, Inbounds, Consumes
  <2> QED BY <2>1, <2>2
<1>3. CASE InboundUnknownName(p)
  BY <1>3 DEF InboundUnknownName, PointOK, Inbounds, Consumes
<1>4. CASE InboundCreateMaterial(p)
  <2> PICK m \in MatIds : /\ wm' = [wm EXCEPT ![p][m] = req[p].name]
                          /\ req' = [req EXCEPT ![p].mat = m]
    BY <1>4 DEF InboundCreateMaterial, FreeMats
  <2>1. TypeOK'
    <3>1. [req[p] EXCEPT !.mat = m] \in RequestType  BY RequestForMaterial
    <3>2. req' = [req EXCEPT ![p] = [req[p] EXCEPT !.mat = m]]  OBVIOUS
    <3>3. req' \in [Procs -> RequestType]  BY <3>1, <3>2
    <3>4. wm' \in [Procs -> [MatIds -> Names \cup {NoName}]]  OBVIOUS
    <3> QED BY <1>4, <3>3, <3>4 DEF InboundCreateMaterial
  <2>2. PointOK'
    BY <1>4 DEF InboundCreateMaterial, PointOK, Inbounds, Consumes
  <2> QED BY <2>1, <2>2
<1>5. CASE InboundCreateLot(p)
  BY <1>5, StoredTyped DEF InboundCreateLot, FreshLots, PointOK, Inbounds, Consumes, Row
<1>6. CASE ConsumeFindMaterial(p)
  BY <1>6 DEF ConsumeFindMaterial, PointOK, Inbounds, Consumes
<1>7. CASE ConsumeListLots(p)
  BY <1>7, SeenTyped DEF ConsumeListLots, Consumable, LoopPoint, PointOK, Inbounds, Consumes
<1>8. CASE ConsumeTake(p)
  <2> DEFINE Take(l) == Least(mem[p][l].qty, rest[p])
             Left(l) == [mem[p][l] EXCEPT !.qty = mem[p][l].qty - Take(l), !.status = "active"]
  <2> PICK l \in Lots :
        /\ mem[p][l] # NoRow
        /\ wl' = [wl EXCEPT ![p][l] = Stored(Left(l))]
        /\ mem' = [mem EXCEPT ![p][l] = NoRow]
        /\ pend' = [pend EXCEPT ![p] = [lot |-> l, delta |-> -Take(l)]]
    BY <1>8 DEF ConsumeTake, IsFirst, Held
  <2>1. mem[p][l] \in Row
    OBVIOUS
  <2>2. mem[p][l].qty \in Int
    BY <2>1 DEF Row
  <2>3. Take(l) \in Int
    BY <2>2 DEF Least
  <2>4. Stored(Left(l)) \in Row
    <3>1. PICK d \in Dues : TRUE  BY <2>1 DEF Row
    <3>2. mem[p][l].qty - Take(l) \in Int  BY <2>2, <2>3
    <3> HIDE DEF Take
    <3>3. Left(l) \in Row  BY <2>1, <3>1, <3>2, RowUpdated
    <3> QED BY <3>3, StoredTyped
  <2> HIDE DEF Take, Left
  <2>5. TypeOK'
    BY <1>8, <2>3, <2>4 DEF ConsumeTake
  <2>6. PointOK'
    BY <1>8 DEF ConsumeTake, PointOK, Inbounds, Consumes
  <2> QED BY <2>5, <2>6
<1>9. CASE ReadLot(p)
  BY <1>9, SeenTyped DEF ReadLot, PointOK, Inbounds, Consumes
<1>10. ASSUME NEW target \in Int, NEW status \in {"active", "depleted", "void"},
              WriteLot(p, target, status)
       PROVE  TypeInv'
  <2> DEFINE l == req[p].lot
             new == [mem[p][l] EXCEPT !.qty = target, !.status = status]
  <2>1. l \in Lots /\ mem[p][l] \in Row
    BY <1>10 DEF WriteLot, PointOK
  <2>2. Stored(new) \in Row
    <3>1. PICK d \in Dues : TRUE  BY <2>1 DEF Row
    <3> QED BY <2>1, <3>1, RowUpdated, StoredTyped
  <2>3. target - mem[p][l].qty \in Int
    BY <2>1 DEF Row
  <2>4. TypeOK'
    BY <1>10, <2>1, <2>2, <2>3 DEF WriteLot
  <2>5. PointOK'
    BY <1>10 DEF WriteLot, PointOK, Inbounds, Consumes
  <2> QED BY <2>4, <2>5
<1>11. CASE AdjustWrite(p)
  BY <1>10, <1>11 DEF AdjustWrite
<1>12. CASE VoidWrite(p)
  BY <1>10, <1>12 DEF VoidWrite
<1>13. CASE CreateMovement(p)
  <2> DEFINE l == pend[p].lot
             d == pend[p].delta
  <2>0. l \in Lots \cup {0} /\ d \in Int
    OBVIOUS
  <2>1. /\ wd' = [wd EXCEPT ![p][l] = wd[p][l] + d]
        /\ pend' = [pend EXCEPT ![p] = NoMove]
        /\ taken' = taken \/ taken' = [taken EXCEPT ![p][l] = taken[p][l] - d]
    BY <1>13 DEF CreateMovement
  <2> HIDE DEF l, d
  <2>5. wd' \in [Procs -> [Lots -> Int]]
    <3>1. CASE l \in Lots  BY <2>0, <2>1, <3>1, UpdatedTwice
    <3>2. CASE l \notin Lots
      <4>1. wd \in [Procs -> [Lots -> Int]]  OBVIOUS
      <4>2. [wd EXCEPT ![p][l] = wd[p][l] + d] \in [Procs -> [Lots -> Int]]
        BY ONLY <3>2, <4>1, p \in Procs, UpdatedOutside
      <4> QED BY ONLY <2>1, <4>2
    <3> QED BY ONLY <3>1, <3>2
  <2>6. taken' \in [Procs -> [Lots -> Int]]
    <3>1. CASE l \in Lots
      <4>1. taken[p][l] - d \in Int  BY <2>0, <3>1
      <4>2. [taken EXCEPT ![p][l] = taken[p][l] - d] \in [Procs -> [Lots -> Int]]
        BY <3>1, <4>1, UpdatedTwice
      <4> QED BY <2>1, <4>2
    <3>2. CASE l \notin Lots
      <4>1. taken \in [Procs -> [Lots -> Int]]  OBVIOUS
      <4>2. [taken EXCEPT ![p][l] = taken[p][l] - d] \in [Procs -> [Lots -> Int]]
        BY ONLY <3>2, <4>1, p \in Procs, UpdatedOutside
      <4> QED BY ONLY <2>1, <4>1, <4>2
    <3> QED BY ONLY <3>1, <3>2
  <2>7. pend' \in [Procs -> [lot : Lots \cup {0}, delta : Int]]
    BY <2>1 DEF NoMove
  <2>2. rest' \in [Procs -> Int]
    BY <1>13 DEF CreateMovement
  <2>3. TypeOK'
    BY ZenonT(60), <1>13, <2>2, <2>5, <2>6, <2>7 DEF CreateMovement, LoopPoint
  <2>4. PointOK'
    BY <1>13 DEF CreateMovement, LoopPoint, PointOK, Inbounds, Consumes
  <2> QED BY <2>3, <2>4
<1>14. CASE CreateAudit(p) \/ AuditFails(p)
  BY ZenonT(60), <1>14 DEF CreateAudit, AuditFails, PointOK, Inbounds, Consumes
<1>15. CASE CommitTx(p)
  <2>1. /\ mats' \in [MatIds -> Names \cup {NoName}] /\ lots' \in Rows
        /\ ledger' \in [Lots -> Int] /\ budget' \in Nat /\ Done(p)
    BY <1>15, SeenTyped DEF CommitTx
  <2> QED BY <2>1, DoneTyped
<1>16. CASE UpdateGet(p)
  BY <1>16 DEF UpdateGet, PointOK, Inbounds, Consumes
<1>17. CASE UpdateSave(p)
  <2> DEFINE l == req[p].lot
             new == [mem[p][l] EXCEPT !.due = req[p].due]
  <2>1. l \in Lots /\ mem[p][l] \in Row /\ req[p].due \in Dues
    BY <1>17 DEF UpdateSave, PointOK
  <2>2. Stored(new) \in Row
    BY <2>1, RowUpdated, StoredTyped
  <2>3. TypeOK'
    BY <1>17, <2>1, <2>2 DEF UpdateSave
  <2>4. PointOK'
    BY <1>17 DEF UpdateSave, PointOK, Inbounds, Consumes
  <2> QED BY <2>3, <2>4
<1>18. CASE UpdateReply(p)
  BY <1>18, DoneTyped DEF UpdateReply
<1>19. CASE Rollback(p)
  BY <1>19, RollbackTyped
<1> QED
  BY <1>1, <1>2, <1>3, <1>4, <1>5, <1>6, <1>7, <1>8, <1>9, <1>11, <1>12, <1>13,
     <1>14, <1>15, <1>16, <1>17, <1>18, <1>19
     DEF Step, InboundStep, ConsumeStep, LotStep, EndStep, UpdateStep, RefusedStep,
         MaterialNotFound, ConsumeInsufficient, LotNotFound, CommitRefused,
         StatementFails, Busy, DeadlockDetected, NoRoom

LEMMA InitTyped == Init => TypeInv
BY DEF Init, EmptyTables, AllIdle, TypeInv, TypeOK, PointOK, NoRows, Zeros, NoReq,
       NoMove, Inbounds, Consumes

LEMMA StutterTyped == TypeInv /\ UNCHANGED vars => TypeInv'
BY DEF vars, TypeInv, TypeOK, PointOK, Inbounds, Consumes

(* Every variable keeps its type.                                          *)
THEOREM TypeCorrect == Spec => []TypeOK
<1>1. TypeInv /\ [Next]_vars => TypeInv'
  BY StepTyped, StutterTyped DEF Next, Served
<1>2. TypeInv => TypeOK
  BY DEF TypeInv
<1> QED BY InitTyped, <1>1, <1>2, PTL DEF Spec

-----------------------------------------------------------------------------
(* On SQLite, without UpdateLot, the ledger explains the stock.  The       *)
(* invariant behind it: what an open transaction holds in memory is still  *)
(* what the table holds, for no other one can commit meanwhile, and its    *)
(* own writes are balanced up to the movement it inserts next.             *)
Qty(row) == IF row = NoRow THEN 0 ELSE row.qty

Pending(p, l) == IF pc[p] = "log" /\ pend[p].lot = l THEN pend[p].delta ELSE 0

SoundTx(p) ==
    /\ pc[p] \notin {"get", "save", "reply"}
    /\ ~InTx(p) => \A l \in Lots : wl[p][l] = NoRow /\ wd[p][l] = 0
    /\ pc[p] = "list" => \A l \in Lots : wl[p][l] = NoRow
    /\ \A l \in Lots : mem[p][l] # NoRow =>
          InTx(p) /\ wl[p][l] = NoRow /\ mem[p][l] = lots[l]
    /\ \A l \in Lots : Qty(SeenLot(p, l)) = ledger[l] + wd[p][l] + Pending(p, l)

LedgerInv == LedgerBalanced /\ \A p \in Procs : SoundTx(p)

Serialised == Driver = "sqlite" /\ "update" \notin Ops

(* A step that leaves the tables alone concerns its own transaction only.  *)
LEMMA OwnStepSound ==
    ASSUME LedgerInv, NEW p \in Procs, UNCHANGED <<lots, ledger>>, SoundTx(p)',
           \A q \in Procs \ {p} : /\ pc'[q] = pc[q] /\ mem'[q] = mem[q]
                                  /\ pend'[q] = pend[q] /\ wl'[q] = wl[q] /\ wd'[q] = wd[q]
    PROVE  LedgerInv'
<1>1. LedgerBalanced'
  BY DEF LedgerInv, LedgerBalanced
<1>2. ASSUME NEW q \in Procs \ {p} PROVE SoundTx(q)'
  BY <1>2 DEF LedgerInv, SoundTx, InTx, SeenLot, Pending
<1> QED BY <1>1, <1>2 DEF LedgerInv

(* A goroutine that has ended its request has nothing pending.             *)
LEMMA IdleSound ==
    ASSUME TypeInv, TypeOK', NEW p \in Procs, Done(p), LedgerBalanced'
    PROVE  SoundTx(p)'
<1>1. /\ pc'[p] = "idle"
      /\ \A l \in Lots : wl'[p][l] = NoRow /\ wd'[p][l] = 0 /\ mem'[p][l] = NoRow
  BY DEF Done, Goto, TypeInv, TypeOK, NoRows, Zeros
<1>2. \A l \in Lots : SeenLot(p, l)' = lots'[l] /\ Pending(p, l)' = 0
  BY <1>1 DEF SeenLot, Pending
<1>3. ASSUME NEW l \in Lots PROVE Qty(lots'[l]) = ledger'[l] /\ ledger'[l] \in Int
  BY DEF LedgerBalanced, Qty, TypeOK
<1> QED BY <1>1, <1>2, <1>3 DEF SoundTx, InTx, LedgerBalanced, Qty

(* Rolling back drops the transaction's own writes and nothing else.       *)
LEMMA RollbackSound ==
    ASSUME TypeInv, TypeInv', LedgerInv, NEW p \in Procs, Rollback(p)
    PROVE  LedgerInv'
<1>1. LedgerBalanced'
  BY DEF Rollback, LedgerInv, LedgerBalanced
<1>2. SoundTx(p)'
  BY <1>1, IdleSound DEF Rollback, TypeInv
<1> QED BY <1>2, OwnStepSound DEF Rollback, Done, Goto, TypeInv, TypeOK

(* A commit publishes balanced writes, at a moment when no other           *)
(* transaction has read anything.                                          *)
LEMMA CommitSound ==
    ASSUME TypeInv, TypeInv', LedgerInv, Serialised, NEW p \in Procs, CommitTx(p)
    PROVE  LedgerInv'
<1>1. \A l \in Lots : Qty(SeenLot(p, l)) = ledger[l] + wd[p][l]
  <2>1. \A l \in Lots : Pending(p, l) = 0 /\ ledger[l] \in Int /\ wd[p][l] \in Int
    BY DEF CommitTx, Pending, TypeInv, TypeOK
  <2>2. \A l \in Lots : Qty(SeenLot(p, l)) = ledger[l] + wd[p][l] + Pending(p, l)
    BY DEF LedgerInv, SoundTx
  <2> QED BY <2>1, <2>2
<1>2. \A l \in Lots : lots'[l] = SeenLot(p, l) /\ ledger'[l] = ledger[l] + wd[p][l]
  BY DEF CommitTx
<1>3. LedgerBalanced'
  BY <1>1, <1>2 DEF LedgerBalanced, Qty
<1>4. SoundTx(p)'
  BY <1>3, IdleSound DEF CommitTx, TypeInv
<1>5. CASE Wrote(p)
  <2> SUFFICES ASSUME NEW q \in Procs \ {p} PROVE SoundTx(q)'
    BY <1>3, <1>4 DEF LedgerInv
  <2>1. ~InTx(q)
    BY <1>5 DEF CommitTx, MayCommit, Others, Serialised
  <2>2. /\ pc'[q] = pc[q] /\ mem'[q] = mem[q] /\ pend'[q] = pend[q]
        /\ wl'[q] = wl[q] /\ wd'[q] = wd[q]
    BY DEF CommitTx, Done, Goto, TypeInv, TypeOK
  <2>3. \A l \in Lots : wl[q][l] = NoRow /\ wd[q][l] = 0 /\ mem[q][l] = NoRow
    BY <2>1 DEF LedgerInv, SoundTx
  <2>4. \A l \in Lots : SeenLot(q, l)' = lots'[l] /\ Pending(q, l)' = 0
    BY <2>1, <2>2, <2>3 DEF SeenLot, Pending, InTx
  <2>5. \A l \in Lots : Qty(lots'[l]) = ledger'[l] /\ ledger'[l] \in Int
    BY <1>3 DEF LedgerBalanced, Qty, TypeInv, TypeOK
  <2>6. pc[q] \notin {"get", "save", "reply"}
    BY DEF LedgerInv, SoundTx
  <2> QED BY <2>1, <2>2, <2>3, <2>4, <2>5, <2>6 DEF SoundTx, InTx
<1>6. CASE ~Wrote(p)
  <2>1. \A l \in Lots : SeenLot(p, l) = lots[l]
    BY <1>6 DEF Wrote, SeenLot
  <2>2. \A l \in Lots : wd[p][l] = 0 /\ ledger[l] \in Int
    <3>1. \A l \in Lots : Qty(lots[l]) = ledger[l]
      BY DEF LedgerInv, LedgerBalanced, Qty
    <3>2. \A l \in Lots : ledger[l] \in Int /\ wd[p][l] \in Int
      BY DEF TypeInv, TypeOK
    <3>3. \A l \in Lots : ledger[l] = ledger[l] + wd[p][l]
      BY <1>1, <2>1, <3>1
    <3> QED BY <3>2, <3>3
  <2>3. lots' = lots /\ ledger' = ledger
    BY <1>2, <2>1, <2>2 DEF TypeInv, TypeOK
  <2> QED BY <1>4, <2>3, OwnStepSound DEF CommitTx, Done, Goto, TypeInv, TypeOK
<1> QED BY <1>5, <1>6

(* Writing the row of a lot the transaction holds, and owing the movement  *)
(* that accounts for it.                                                   *)
LEMMA WriteSound ==
    ASSUME TypeInv, NEW p \in Procs, SoundTx(p), pc[p] \in {"take", "write"},
           NEW l \in Lots, mem[p][l] # NoRow, NEW d \in Int,
           NEW new \in Row, new # NoRow, new.qty = mem[p][l].qty + d,
           wl' = [wl EXCEPT ![p][l] = new], mem' = [mem EXCEPT ![p][l] = NoRow],
           pend' = [pend EXCEPT ![p] = [lot |-> l, delta |-> d]],
           pc' = [pc EXCEPT ![p] = pc'[p]],
           pc'[p] = "log" \/ (pc'[p] = "audit" /\ d = 0),
           UNCHANGED <<lots, ledger, wd>>
    PROVE  SoundTx(p)'
<1> USE DEF TypeInv, TypeOK
<1>1. \A k \in Lots \ {l} : /\ wl'[p][k] = wl[p][k] /\ mem'[p][k] = mem[p][k]
                            /\ Pending(p, k)' = 0 /\ Pending(p, k) = 0
  BY DEF Pending
<1>2. /\ wl'[p][l] = new /\ mem'[p][l] = NoRow /\ Pending(p, l)' = d /\ Pending(p, l) = 0
      /\ SeenLot(p, l) = mem[p][l]
  BY DEF Pending, SoundTx, SeenLot
<1>3. \A k \in Lots \ {l} : SeenLot(p, k)' = SeenLot(p, k)
  BY <1>1 DEF SeenLot
<1>4. SeenLot(p, l)' = new
  BY <1>2 DEF SeenLot
<1>5. \A k \in Lots : Qty(SeenLot(p, k)') = ledger[k] + wd[p][k] + Pending(p, k)'
  <2>1. \A k \in Lots \ {l} : Qty(SeenLot(p, k)') = ledger[k] + wd[p][k] + Pending(p, k)'
    BY <1>1, <1>3 DEF SoundTx
  <2>2. mem[p][l].qty = ledger[l] + wd[p][l]
    BY <1>2 DEF SoundTx, Qty
  <2>3. Qty(SeenLot(p, l)') = ledger[l] + wd[p][l] + Pending(p, l)'
    BY <1>2, <1>4, <2>2 DEF Qty
  <2> QED BY <2>1, <2>3
<1> QED BY <1>1, <1>2, <1>5 DEF SoundTx, InTx

LEMMA StepSound ==
    ASSUME TypeInv, TypeInv', LedgerInv, Serialised, NEW p \in Procs,
           Accept(p) \/ Step(p) \/ StatementFails(p)
    PROVE  LedgerInv'
<1> USE DEF TypeInv, TypeOK, Goto, db, local, writes
<1> SUFFICES ASSUME ~Rollback(p), ~CommitTx(p)
             PROVE  /\ UNCHANGED <<lots, ledger>> /\ SoundTx(p)'
                    /\ \A q \in Procs \ {p} :
                          /\ pc'[q] = pc[q] /\ mem'[q] = mem[q]
                          /\ pend'[q] = pend[q] /\ wl'[q] = wl[q] /\ wd'[q] = wd[q]
  BY RollbackSound, CommitSound, OwnStepSound
<1>0. SoundTx(p)
  BY DEF LedgerInv
<1>1. CASE Accept(p)
  <2>1. PICK r \in Requests :
        /\ req' = [req EXCEPT ![p] = r]
        /\ pc' = [pc EXCEPT ![p] = IF r \in UpdateRequests THEN "get"
                   ELSE IF r \in LotRequests THEN "read" ELSE "resolve"]
    BY <1>1 DEF Accept
  <2>2. r \notin UpdateRequests
    BY RequestsTyped DEF Serialised
  <2> QED BY <1>0, <1>1, <2>1, <2>2 DEF Accept, SoundTx, InTx, SeenLot, Pending
<1>2. CASE InboundFindMaterial(p)
  BY <1>0, <1>2 DEF InboundFindMaterial, SoundTx, InTx, SeenLot, Pending
<1>3. CASE InboundUnknownName(p)
  BY <1>0, <1>3 DEF InboundUnknownName, SoundTx, InTx, SeenLot, Pending
<1>4. CASE InboundCreateMaterial(p)
  BY <1>0, <1>4 DEF InboundCreateMaterial, SoundTx, InTx, SeenLot, Pending
<1>5. CASE InboundCreateLot(p)
  <2> DEFINE new == [mat |-> req[p].mat, qty |-> req[p].qty, status |-> "active", due |-> req[p].due]
  <2>1. PICK l \in FreshLots : /\ wl' = [wl EXCEPT ![p][l] = Stored(new)]
                               /\ pend' = [pend EXCEPT ![p] = [lot |-> l, delta |-> req[p].qty]]
    BY <1>5 DEF InboundCreateLot
  <2>2. l \in Lots /\ lots[l] = NoRow /\ wl[p][l] = NoRow
    <3>1. l \in Lots /\ UsedLots \subseteq 1..(l - 1)
      BY DEF FreshLots
    <3>2. l \notin UsedLots
      BY <3>1 DEF Lots
    <3> QED BY <3>1, <3>2 DEF UsedLots
  <2>3. Stored(new).qty = req[p].qty /\ Stored(new) # NoRow
    <3>1. new \in Row  BY <1>5 DEF InboundCreateLot, PointOK, Row
    <3> QED BY <3>1, StoredTyped
  <2> HIDE DEF new
  <2>4. \A k \in Lots \ {l} : SeenLot(p, k)' = SeenLot(p, k) /\ Pending(p, k)' = 0 /\ Pending(p, k) = 0
    BY <1>5, <2>1, <2>2 DEF InboundCreateLot, SeenLot, Pending
  <2>5. /\ SeenLot(p, l)' = Stored(new) /\ Pending(p, l)' = req[p].qty
        /\ SeenLot(p, l) = NoRow /\ Pending(p, l) = 0
    BY <1>5, <2>1, <2>2, <2>3 DEF InboundCreateLot, SeenLot, Pending
  <2>6. \A k \in Lots : Qty(SeenLot(p, k)') = ledger[k] + wd[p][k] + Pending(p, k)'
    <3>1. /\ \A k \in Lots : ledger[k] \in Int /\ wd[p][k] \in Int
          /\ req[p].qty \in Int
      BY DEF RequestType
    <3>2. \A k \in Lots : Qty(SeenLot(p, k)) = ledger[k] + wd[p][k] + Pending(p, k)
      BY <1>0 DEF SoundTx
    <3>3. 0 = ledger[l] + wd[p][l]
      BY <2>2, <2>5, <3>1, <3>2 DEF Qty
    <3>4. Qty(SeenLot(p, l)') = ledger[l] + wd[p][l] + Pending(p, l)'
      BY <2>3, <2>5, <2>2, <3>1, <3>3 DEF Qty
    <3>5. ASSUME NEW k \in Lots \ {l}
          PROVE  Qty(SeenLot(p, k)') = ledger[k] + wd[p][k] + Pending(p, k)'
      BY <2>4, <3>2
    <3> QED BY <3>4, <3>5
  <2> QED BY <1>0, <1>5, <2>1, <2>2, <2>6 DEF InboundCreateLot, SoundTx, InTx
<1>6. CASE ConsumeFindMaterial(p)
  BY <1>0, <1>6 DEF ConsumeFindMaterial, SoundTx, InTx, SeenLot, Pending
<1>7. CASE ConsumeListLots(p)
  <2>1. \A l \in Lots : wl[p][l] = NoRow /\ SeenLot(p, l) = lots[l]
    BY <1>0, <1>7 DEF ConsumeListLots, SoundTx, SeenLot
  <2>2. \A l \in Lots : mem'[p][l] # NoRow => mem'[p][l] = lots[l]
    BY <1>7, <2>1 DEF ConsumeListLots, Consumable
  <2>3. pc'[p] \in {"take", "audit"} /\ pc' = [pc EXCEPT ![p] = pc'[p]] /\ pc[p] = "list"
    BY <1>7 DEF ConsumeListLots, LoopPoint
  <2> QED BY <1>0, <1>7, <2>1, <2>2, <2>3 DEF ConsumeListLots, SoundTx, InTx, SeenLot, Pending
<1>8. CASE ConsumeTake(p)
  <2> DEFINE Take(l) == Least(mem[p][l].qty, rest[p])
             Left(l) == [mem[p][l] EXCEPT !.qty = mem[p][l].qty - Take(l), !.status = "active"]
  <2> PICK l \in Lots :
        /\ mem[p][l] # NoRow
        /\ wl' = [wl EXCEPT ![p][l] = Stored(Left(l))]
        /\ mem' = [mem EXCEPT ![p][l] = NoRow]
        /\ pend' = [pend EXCEPT ![p] = [lot |-> l, delta |-> -Take(l)]]
    BY <1>8 DEF ConsumeTake, IsFirst, Held
  <2>1. mem[p][l] \in Row /\ mem[p][l].qty \in Int
    BY DEF Row
  <2>2. Take(l) \in Int
    BY <2>1 DEF Least
  <2> HIDE DEF Take
  <2>3. Left(l) \in Row /\ Left(l).qty = mem[p][l].qty - Take(l)
    <3>1. PICK d \in Dues : TRUE  BY <2>1 DEF Row
    <3>2. mem[p][l].qty - Take(l) \in Int  BY <2>1, <2>2
    <3>3. Left(l) \in Row  BY <2>1, <3>1, <3>2, RowUpdated
    <3>4. Left(l).qty = mem[p][l].qty - Take(l)  BY <2>1 DEF Row
    <3> QED BY <3>3, <3>4
  <2> HIDE DEF Left
  <2>4. /\ Stored(Left(l)) \in Row /\ Stored(Left(l)) # NoRow
        /\ Stored(Left(l)).qty = mem[p][l].qty + (-Take(l))
    BY <2>1, <2>2, <2>3, StoredTyped
  <2>5. -Take(l) \in Int
    BY <2>2
  <2>6. SoundTx(p)'
    BY <1>0, <1>8, <2>4, <2>5, WriteSound DEF ConsumeTake
  <2> QED BY <1>8, <2>6 DEF ConsumeTake
<1>9. CASE ReadLot(p)
  <2>1. \A l \in Lots : /\ wl[p][l] = NoRow /\ SeenLot(p, l) = lots[l]
                        /\ mem[p][l] = NoRow
    BY <1>0, <1>9 DEF ReadLot, SoundTx, InTx, SeenLot, TxPoints
  <2>2. \A l \in Lots : mem'[p][l] # NoRow => mem'[p][l] = lots[l]
    BY <1>9, <2>1 DEF ReadLot, PointOK
  <2> QED BY <1>0, <1>9, <2>1, <2>2 DEF ReadLot, SoundTx, InTx, SeenLot, Pending
<1>10. ASSUME NEW target \in Int, NEW status \in {"active", "depleted", "void"},
              WriteLot(p, target, status)
       PROVE  /\ UNCHANGED <<lots, ledger>> /\ SoundTx(p)'
              /\ \A q \in Procs \ {p} :
                    /\ pc'[q] = pc[q] /\ mem'[q] = mem[q]
                    /\ pend'[q] = pend[q] /\ wl'[q] = wl[q] /\ wd'[q] = wd[q]
  <2> DEFINE l == req[p].lot
             new == [mem[p][l] EXCEPT !.qty = target, !.status = status]
             d == target - mem[p][l].qty
  <2>1. l \in Lots /\ mem[p][l] \in Row /\ mem[p][l] # NoRow /\ mem[p][l].qty \in Int
    <3>1. l \in Lots /\ mem[p][l] \in Row /\ mem[p][l] # NoRow
      BY <1>10 DEF WriteLot, PointOK
    <3>2. mem[p][l].qty \in Int
      BY <3>1 DEF Row
    <3> QED BY <3>1, <3>2
  <2>2. d \in Int /\ target = mem[p][l].qty + d
    BY <2>1
  <2>3. new \in Row /\ new.qty = target
    <3>1. PICK due \in Dues : TRUE  BY <2>1 DEF Row
    <3>2. new \in Row  BY <2>1, <3>1, RowUpdated
    <3>3. new.qty = target  BY <2>1 DEF Row
    <3> QED BY <3>2, <3>3
  <2>4. Stored(new) \in Row /\ Stored(new) # NoRow /\ Stored(new).qty = mem[p][l].qty + d
    BY <2>2, <2>3, StoredTyped
  <2>5. /\ wl' = [wl EXCEPT ![p][l] = Stored(new)] /\ mem' = [mem EXCEPT ![p][l] = NoRow]
        /\ pend' = [pend EXCEPT ![p] = [lot |-> l, delta |-> d]]
        /\ pc[p] = "write" /\ pc' = [pc EXCEPT ![p] = pc'[p]]
        /\ pc'[p] = "log" \/ (pc'[p] = "audit" /\ d = 0)
        /\ UNCHANGED <<lots, ledger, wd>>
    BY <1>10 DEF WriteLot
  <2> HIDE DEF new, d, l
  <2>6. SoundTx(p)'
    BY <1>0, <2>1, <2>2, <2>4, <2>5, WriteSound
  <2> QED BY <2>5, <2>6
<1>11. CASE AdjustWrite(p)
  BY <1>10, <1>11 DEF AdjustWrite
<1>12. CASE VoidWrite(p)
  BY <1>10, <1>12 DEF VoidWrite
<1>13. CASE CreateMovement(p)
  <2> DEFINE l == pend[p].lot
             d == pend[p].delta
  <2>0. l \in Lots \cup {0} /\ d \in Int
    OBVIOUS
  <2>1. /\ wd' = [wd EXCEPT ![p][l] = wd[p][l] + d]
        /\ pend' = [pend EXCEPT ![p] = NoMove]
        /\ pc[p] = "log" /\ pc'[p] \in {"take", "audit"} /\ pc' = [pc EXCEPT ![p] = pc'[p]]
        /\ UNCHANGED <<lots, ledger, mem, wl>>
    BY <1>13 DEF CreateMovement, LoopPoint
  <2>2. \A k \in Lots : SeenLot(p, k)' = SeenLot(p, k)
    BY <2>1 DEF SeenLot
  <2>3. \A k \in Lots : /\ Pending(p, k)' = 0
                        /\ wd'[p][k] = wd[p][k] + Pending(p, k)
    BY <2>0, <2>1 DEF Pending
  <2>4. \A k \in Lots : Qty(SeenLot(p, k)') = ledger[k] + wd'[p][k] + Pending(p, k)'
    BY <1>0, <2>0, <2>1, <2>2, <2>3 DEF SoundTx, Pending
  <2> HIDE DEF l, d
  <2> QED BY <1>0, <2>1, <2>4 DEF SoundTx, InTx
<1>14. CASE CreateAudit(p) \/ AuditFails(p)
  BY <1>0, <1>14 DEF CreateAudit, AuditFails, SoundTx, InTx, SeenLot, Pending
<1>15. CASE UpdateGet(p) \/ UpdateSave(p) \/ UpdateReply(p)
  BY <1>0, <1>15 DEF UpdateGet, UpdateSave, UpdateReply, SoundTx
<1> QED
  BY <1>1, <1>2, <1>3, <1>4, <1>5, <1>6, <1>7, <1>8, <1>9, <1>11, <1>12, <1>13,
     <1>14, <1>15
     DEF Step, InboundStep, ConsumeStep, LotStep, EndStep, UpdateStep, RefusedStep,
         MaterialNotFound, ConsumeInsufficient, LotNotFound, CommitRefused,
         StatementFails, Busy, DeadlockDetected, NoRoom

LEMMA InitSound == Init => LedgerInv
BY DEF Init, EmptyTables, AllIdle, LedgerInv, LedgerBalanced, SoundTx, InTx, SeenLot,
       Pending, Qty, NoRows, Zeros

LEMMA StutterSound == LedgerInv /\ UNCHANGED vars => LedgerInv'
BY DEF vars, LedgerInv, LedgerBalanced, SoundTx, InTx, SeenLot, Pending, Qty

(* On SQLite, as long as nobody edits a lot, the committed movements of    *)
(* every lot add up to what it holds.                                      *)
THEOREM LedgerCorrect == ASSUME Serialised PROVE Spec => []LedgerBalanced
<1>1. TypeInv /\ LedgerInv /\ [Next]_vars => TypeInv' /\ LedgerInv'
  BY StepTyped, StepSound, StutterTyped, StutterSound DEF Next, Served
<1>2. Init => TypeInv /\ LedgerInv
  BY InitTyped, InitSound
<1>3. LedgerInv => LedgerBalanced
  BY DEF LedgerInv
<1> QED BY <1>1, <1>2, <1>3, PTL DEF Spec

-----------------------------------------------------------------------------
(* Whatever the driver and the requests, a status never disagrees with the *)
(* quantity beside it: neither in the table nor in a row that a            *)
(* transaction has written or that a service method holds and may save.    *)
Agrees(row) ==
    row # NoRow => row.status = IF row.qty <= 0 THEN "depleted" ELSE "active"

StatusInv ==
    \A l \in Lots : /\ Agrees(lots[l])
                    /\ \A p \in Procs : Agrees(mem[p][l]) /\ Agrees(wl[p][l])

LEMMA StoredAgrees ==
    ASSUME NEW row \in Row, row.status # "void" \/ row.qty <= 0,
           row.qty > 0 => row.status = "active"
    PROVE  Agrees(Stored(row))
BY DEF Stored, Agrees, Row

LEMMA StepAgrees ==
    ASSUME TypeInv, StatusInv, NEW p \in Procs,
           Accept(p) \/ Step(p) \/ StatementFails(p)
    PROVE  StatusInv'
<1> USE DEF TypeInv, TypeOK, db, local, writes
<1>0. \A l \in Lots : Agrees(SeenLot(p, l))
  BY DEF StatusInv, SeenLot
<1>1. ASSUME Done(p), \A l \in Lots : Agrees(lots'[l])
      PROVE  StatusInv'
  BY <1>1 DEF Done, StatusInv, Agrees, NoRows
<1>2. ASSUME NEW l \in Lots, NEW row \in Row, row.qty > 0 => row.status = "active",
             \/ wl' = [wl EXCEPT ![p][l] = Stored(row)] /\ UNCHANGED lots
             \/ lots' = [lots EXCEPT ![l] = Stored(row)] /\ UNCHANGED wl,
             mem' = mem \/ mem' = [mem EXCEPT ![p][l] = NoRow]
      PROVE  StatusInv'
  <2>1. row.qty \in Int  BY DEF Row
  <2>2. Agrees(Stored(row))
    BY <1>2, <2>1, StoredAgrees
  <2>3. ASSUME NEW q \in Procs, NEW k \in Lots PROVE Agrees(mem[q][k])'
    <3>1. mem'[q][k] = mem[q][k] \/ mem'[q][k] = NoRow
      <4>1. CASE mem' = mem  BY <4>1
      <4>2. CASE mem' = [mem EXCEPT ![p][l] = NoRow]
        BY <4>2 DEF TypeInv, TypeOK
      <4> QED BY <1>2, <4>1, <4>2
    <3> QED BY <3>1 DEF StatusInv, Agrees
  <2>4. ASSUME NEW q \in Procs, NEW k \in Lots PROVE Agrees(wl[q][k])'
    <3>1. wl'[q][k] = wl[q][k] \/ wl'[q][k] = Stored(row)
      <4>1. CASE wl' = wl  BY <4>1
      <4>2. CASE wl' = [wl EXCEPT ![p][l] = Stored(row)]  BY <4>2
      <4> QED BY <1>2, <4>1, <4>2
    <3> QED BY <2>2, <3>1 DEF StatusInv, Agrees
  <2>5. ASSUME NEW k \in Lots PROVE Agrees(lots[k])'
    <3>1. lots'[k] = lots[k] \/ lots'[k] = Stored(row)  BY <1>2
    <3> QED BY <2>2, <3>1 DEF StatusInv, Agrees
  <2> QED BY <2>3, <2>4, <2>5 DEF StatusInv
<1>3. ASSUME UNCHANGED <<lots, wl>>, NEW rows \in Rows, mem' = [mem EXCEPT ![p] = rows],
             \A l \in Lots : Agrees(rows[l])
      PROVE  StatusInv'
  BY <1>3 DEF StatusInv
<1>4. CASE UNCHANGED <<lots, wl, mem>>
  BY <1>4 DEF StatusInv
<1>5. CASE Rollback(p)
  BY <1>1, <1>5 DEF Rollback, StatusInv
<1>6. CASE CommitTx(p)
  BY <1>0, <1>1, <1>6 DEF CommitTx
<1>7. CASE InboundCreateLot(p)
  <2> DEFINE new == [mat |-> req[p].mat, qty |-> req[p].qty, status |-> "active", due |-> req[p].due]
  <2>1. PICK l \in Lots : wl' = [wl EXCEPT ![p][l] = Stored(new)]
    BY <1>7 DEF InboundCreateLot, FreshLots
  <2>2. new \in Row
    BY <1>7 DEF InboundCreateLot, PointOK, Row
  <2>3. new.status = "active"
    OBVIOUS
  <2> HIDE DEF new
  <2> QED BY <1>2, <1>7, <2>1, <2>2, <2>3 DEF InboundCreateLot
<1>8. CASE ConsumeListLots(p)
  <2>1. Consumable(p) \in Rows /\ \A l \in Lots : Agrees(Consumable(p)[l])
    BY <1>0, SeenTyped DEF Consumable, Agrees
  <2> QED BY <1>3, <1>8, <2>1 DEF ConsumeListLots
<1>9. CASE ConsumeTake(p)
  <2> DEFINE Left(l) == [mem[p][l] EXCEPT !.qty = mem[p][l].qty - Least(mem[p][l].qty, rest[p]),
                                          !.status = "active"]
  <2>1. PICK l \in Lots : /\ mem[p][l] # NoRow
                          /\ wl' = [wl EXCEPT ![p][l] = Stored(Left(l))]
                          /\ mem' = [mem EXCEPT ![p][l] = NoRow]
    BY <1>9 DEF ConsumeTake, IsFirst, Held
  <2>2. Left(l) \in Row
    <3>1. PICK d \in Dues : TRUE  BY <2>1 DEF Row
    <3>2. mem[p][l] \in Row /\ mem[p][l].qty \in Int  BY <2>1 DEF Row
    <3>3. mem[p][l].qty - Least(mem[p][l].qty, rest[p]) \in Int  BY <3>2 DEF Least
    <3> QED BY <3>1, <3>2, <3>3, RowUpdated
  <2>3. Left(l).status = "active"
    BY <2>1 DEF Row
  <2> HIDE DEF Left
  <2> QED BY <1>2, <1>9, <2>1, <2>2, <2>3 DEF ConsumeTake
<1>10. ASSUME NEW target \in Int, NEW status \in {"active", "depleted", "void"},
              target > 0 => status = "active", WriteLot(p, target, status)
       PROVE  StatusInv'
  <2> DEFINE l == req[p].lot
             new == [mem[p][l] EXCEPT !.qty = target, !.status = status]
  <2>1. l \in Lots /\ mem[p][l] \in Row
    BY <1>10 DEF WriteLot, PointOK
  <2>2. new \in Row
    <3>1. PICK d \in Dues : TRUE  BY <2>1 DEF Row
    <3> QED BY <2>1, <3>1, RowUpdated
  <2>3. new.status = status /\ new.qty = target
    BY <2>1 DEF Row
  <2>4. wl' = [wl EXCEPT ![p][l] = Stored(new)] /\ mem' = [mem EXCEPT ![p][l] = NoRow]
        /\ UNCHANGED lots
    BY <1>10 DEF WriteLot
  <2> HIDE DEF l, new
  <2> QED BY <1>2, <1>10, <2>1, <2>2, <2>3, <2>4
<1>11. CASE AdjustWrite(p)
  <2>1. req[p].qty \in Int  OBVIOUS
  <2> QED BY <1>10, <1>11, <2>1 DEF AdjustWrite
<1>12. CASE VoidWrite(p)
  BY <1>10, <1>12 DEF VoidWrite
<1>13. CASE ReadLot(p) \/ UpdateGet(p)
  <2> DEFINE l == req[p].lot
  <2>1. l \in Lots /\ Agrees(lots[l]) /\ Agrees(SeenLot(p, l))
        /\ lots[l] \in Row \cup {NoRow} /\ SeenLot(p, l) \in Row \cup {NoRow}
    BY <1>0, <1>13, SeenTyped DEF ReadLot, UpdateGet, PointOK, StatusInv
  <2>2. PICK row \in Row \cup {NoRow} : Agrees(row) /\ mem' = [mem EXCEPT ![p][l] = row]
    BY <1>13, <2>1 DEF ReadLot, UpdateGet
  <2>3. UNCHANGED <<lots, wl>>
    BY <1>13 DEF ReadLot, UpdateGet
  <2> HIDE DEF l
  <2> QED BY <2>1, <2>2, <2>3 DEF StatusInv
<1>14. CASE UpdateSave(p)
  <2> DEFINE l == req[p].lot
             new == [mem[p][l] EXCEPT !.due = req[p].due]
  <2>1. /\ l \in Lots /\ mem[p][l] \in Row /\ mem[p][l] # NoRow /\ req[p].due \in Dues
        /\ Agrees(mem[p][l])
    BY <1>14 DEF UpdateSave, PointOK, StatusInv
  <2>2. new \in Row /\ new.qty = mem[p][l].qty
    <3>1. new \in Row  BY ZenonT(60), <2>1, RowUpdated
    <3>2. new.qty = mem[p][l].qty  BY <2>1 DEF Row
    <3> QED BY <3>1, <3>2
  <2>3. new.status = mem[p][l].status /\ mem[p][l].qty \in Int
    BY <2>1 DEF Row
  <2>4. new.qty > 0 => new.status = "active"
    BY <2>1, <2>2, <2>3 DEF Agrees
  <2>5. lots' = [lots EXCEPT ![l] = Stored(new)] /\ UNCHANGED <<wl, mem>>
    BY <1>14 DEF UpdateSave
  <2> HIDE DEF l, new
  <2> QED BY <1>2, <2>1, <2>2, <2>4, <2>5
<1>15. CASE UpdateReply(p)
  BY <1>1, <1>15 DEF UpdateReply, StatusInv
<1> QED
  BY <1>4, <1>5, <1>6, <1>7, <1>8, <1>9, <1>11, <1>12, <1>13, <1>14, <1>15
     DEF Step, InboundStep, ConsumeStep, LotStep, EndStep, UpdateStep, RefusedStep,
         MaterialNotFound, ConsumeInsufficient, LotNotFound, CommitRefused,
         StatementFails, Busy, DeadlockDetected, NoRoom, Accept, InboundFindMaterial,
         InboundUnknownName, InboundCreateMaterial, ConsumeFindMaterial,
         CreateMovement, CreateAudit, AuditFails

(* The stored status of a lot always matches its quantity, on either       *)
(* driver and with any mix of requests.                                    *)
THEOREM StatusCorrect == Spec => []StatusMatchesQuantity
<1>1. TypeInv /\ StatusInv /\ [Next]_vars => TypeInv' /\ StatusInv'
  <2>1. StatusInv /\ UNCHANGED vars => StatusInv'
    BY DEF vars, StatusInv, Agrees
  <2> QED BY <2>1, StepTyped, StepAgrees, StutterTyped DEF Next, Served
<1>2. Init => TypeInv /\ StatusInv
  BY InitTyped DEF Init, EmptyTables, AllIdle, StatusInv, Agrees, NoRows
<1>3. StatusInv => StatusMatchesQuantity
  BY DEF StatusInv, Agrees, StatusMatchesQuantity
<1> QED BY <1>1, <1>2, <1>3, PTL DEF Spec

-----------------------------------------------------------------------------
(* On SQLite one natural key never has two committed rows.  A transaction  *)
(* that creates a material has looked for its key in the committed rows,   *)
(* and no other can commit a material before it ends: the other would have *)
(* to wait for it to stop reading.                                         *)
NewKey(n) == n \in Names /\ \A m \in MatIds : mats[m] # n

KeyTx(p) ==
    /\ ~InTx(p) => \A m \in MatIds : wm[p][m] = NoName
    /\ pc[p] = "resolve" /\ Inbounds(p) /\ req[p].mat = NoId => req[p].name \in Names
    /\ pc[p] = "newmat" =>
          NewKey(req[p].name) /\ \A m \in MatIds : wm[p][m] = NoName
    /\ \A m \in MatIds : wm[p][m] # NoName =>
          /\ NewKey(wm[p][m])
          /\ \A n \in MatIds \ {m} : wm[p][n] = NoName

KeyInv == NaturalKeyUnique /\ \A p \in Procs : KeyTx(p)

LEMMA NamedRequests ==
    ASSUME NEW r \in Requests, r.op \in {"inbound", "batch_inbound"}, r.mat = NoId
    PROVE  r.name \in Names
<1> USE DEF Form, InboundForms
<1>1. r \in InboundRequests => r.name \in Names
  BY DEF InboundRequests
<1>2. r \in BatchRequests => r.name \in Names
  BY DEF BatchRequests
<1>3. r \notin LotRequests /\ r \notin UpdateRequests /\ r \notin ConsumeRequests
  <2>1. r \in LotRequests => r.op \in {"adjust", "void"}  BY DEF LotRequests
  <2>2. r \in UpdateRequests => r.op = "update"  BY DEF UpdateRequests
  <2>3. r \in ConsumeRequests => r.op = "consume"  BY DEF ConsumeRequests
  <2> QED BY <2>1, <2>2, <2>3
<1> QED BY <1>1, <1>2, <1>3 DEF Requests

(* A step that commits no material concerns its own transaction only.      *)
LEMMA OwnStepKeys ==
    ASSUME KeyInv, NEW p \in Procs, UNCHANGED mats, KeyTx(p)',
           \A q \in Procs \ {p} : pc'[q] = pc[q] /\ req'[q] = req[q] /\ wm'[q] = wm[q]
    PROVE  KeyInv'
<1>1. ASSUME NEW q \in Procs \ {p} PROVE KeyTx(q)'
  BY <1>1 DEF KeyInv, KeyTx, InTx, Inbounds, NewKey
<1> QED BY <1>1 DEF KeyInv, NaturalKeyUnique

LEMMA IdleKeys ==
    ASSUME TypeInv, NEW p \in Procs, Done(p)
    PROVE  /\ KeyTx(p)'
           /\ \A q \in Procs \ {p} : pc'[q] = pc[q] /\ req'[q] = req[q] /\ wm'[q] = wm[q]
BY DEF Done, Goto, KeyTx, InTx, TypeInv, TypeOK

LEMMA CommitKeys ==
    ASSUME TypeInv, TypeInv', KeyInv, Driver = "sqlite", NEW p \in Procs, CommitTx(p)
    PROVE  KeyInv'
<1> USE DEF TypeInv, TypeOK
<1>1. /\ \A m \in MatIds : mats'[m] = IF wm[p][m] # NoName THEN wm[p][m] ELSE mats[m]
      /\ Done(p)
  BY DEF CommitTx, SeenMat
<1>2. KeyTx(p)
  BY DEF KeyInv
<1>3. NaturalKeyUnique'
  <2> SUFFICES ASSUME NEW a \in MatIds, NEW b \in MatIds,
                      mats'[a] = mats'[b], mats'[a] # NoName
               PROVE  a = b
    BY DEF NaturalKeyUnique
  <2>1. CASE wm[p][a] # NoName
    BY <1>1, <1>2, <2>1 DEF KeyTx, NewKey
  <2>2. CASE wm[p][b] # NoName
    BY <1>1, <1>2, <2>2 DEF KeyTx, NewKey
  <2>3. CASE wm[p][a] = NoName /\ wm[p][b] = NoName
    BY <1>1, <2>3 DEF KeyInv, NaturalKeyUnique
  <2> QED BY <2>1, <2>2, <2>3
<1>4. CASE \A m \in MatIds : wm[p][m] = NoName
  <2>1. mats' = mats
    BY <1>1, <1>4
  <2> QED BY <1>1, <2>1, IdleKeys, OwnStepKeys
<1>5. CASE \E m \in MatIds : wm[p][m] # NoName
  <2>1. \A q \in Procs \ {p} : ~InTx(q)
    BY <1>5 DEF CommitTx, MayCommit, Wrote, Others
  <2>2. ASSUME NEW q \in Procs \ {p} PROVE KeyTx(q)'
    <3>1. /\ pc'[q] = pc[q] /\ req'[q] = req[q] /\ wm'[q] = wm[q]
          /\ ~InTx(q) /\ pc[q] # "newmat"
      BY <1>1, <2>1, IdleKeys DEF InTx
    <3>2. \A m \in MatIds : wm[q][m] = NoName
      BY <3>1 DEF KeyInv, KeyTx
    <3> QED BY <3>1, <3>2 DEF KeyInv, KeyTx, InTx, Inbounds
  <2> QED BY <1>1, <1>3, <2>2, IdleKeys DEF KeyInv
<1> QED BY <1>4, <1>5

LEMMA StepKeys ==
    ASSUME TypeInv, TypeInv', KeyInv, Driver = "sqlite", NEW p \in Procs,
           Accept(p) \/ Step(p) \/ StatementFails(p)
    PROVE  KeyInv'
<1> USE DEF TypeInv, TypeOK, Goto, db, local, writes
<1> SUFFICES ASSUME ~CommitTx(p)
             PROVE  /\ UNCHANGED mats /\ KeyTx(p)'
                    /\ \A q \in Procs \ {p} : /\ pc'[q] = pc[q] /\ req'[q] = req[q]
                                              /\ wm'[q] = wm[q]
  BY CommitKeys, OwnStepKeys
<1>0. KeyTx(p)
  BY DEF KeyInv
<1>1. CASE Done(p) /\ UNCHANGED mats
  BY <1>1, IdleKeys
<1>2. CASE Accept(p)
  <2>1. PICK r \in Requests :
        /\ req' = [req EXCEPT ![p] = r]
        /\ pc' = [pc EXCEPT ![p] = IF r \in UpdateRequests THEN "get"
                   ELSE IF r \in LotRequests THEN "read" ELSE "resolve"]
    BY <1>2 DEF Accept
  <2>2. /\ UNCHANGED <<mats, wm>> /\ pc[p] = "idle" /\ req'[p] = r
        /\ pc'[p] \in {"get", "read", "resolve"}
        /\ \A q \in Procs \ {p} : pc'[q] = pc[q] /\ req'[q] = req[q]
    BY <1>2, <2>1 DEF Accept
  <2>3. \A m \in MatIds : wm'[p][m] = NoName
    BY <1>0, <2>2 DEF KeyTx, InTx
  <2>4. Inbounds(p)' /\ req'[p].mat = NoId => req'[p].name \in Names
    BY <2>2, NamedRequests DEF Inbounds
  <2> QED BY <2>2, <2>3, <2>4 DEF KeyTx
<1>3. CASE InboundFindMaterial(p)
  BY <1>0, <1>3 DEF InboundFindMaterial, KeyTx, InTx, NewKey
<1>4. CASE InboundUnknownName(p)
  <2>1. \A m \in MatIds : wm[p][m] = NoName /\ mats[m] # req[p].name
    BY <1>0, <1>4 DEF InboundUnknownName, KeyTx, InTx, Matches, SeenMat
  <2>2. req[p].name \in Names
    BY <1>0, <1>4 DEF InboundUnknownName, KeyTx
  <2> QED BY <1>0, <1>4, <2>1, <2>2 DEF InboundUnknownName, KeyTx, InTx, NewKey
<1>5. CASE InboundCreateMaterial(p)
  <2>1. PICK m \in MatIds : wm' = [wm EXCEPT ![p][m] = req[p].name]
    BY <1>5 DEF InboundCreateMaterial, FreeMats
  <2>2. NewKey(req[p].name) /\ \A n \in MatIds : wm[p][n] = NoName
    BY <1>0, <1>5 DEF InboundCreateMaterial, KeyTx
  <2>3. wm'[p][m] = req[p].name /\ \A n \in MatIds \ {m} : wm'[p][n] = NoName
    BY <2>1, <2>2
  <2>4. UNCHANGED mats /\ pc'[p] = "insert" /\ \A q \in Procs \ {p} :
            pc'[q] = pc[q] /\ req'[q] = req[q] /\ wm'[q] = wm[q]
    BY <1>5, <2>1 DEF InboundCreateMaterial
  <2> QED BY <2>2, <2>3, <2>4 DEF KeyTx, InTx, NewKey
<1>6. ASSUME UNCHANGED <<mats, wm, req>>, pc' = [pc EXCEPT ![p] = pc'[p]],
             pc'[p] \notin {"resolve", "newmat"}, ~InTx(p) \/ InTx(p)'
      PROVE  /\ UNCHANGED mats /\ KeyTx(p)'
             /\ \A q \in Procs \ {p} : pc'[q] = pc[q] /\ req'[q] = req[q] /\ wm'[q] = wm[q]
  BY <1>0, <1>6 DEF KeyTx, InTx, NewKey
<1>7. CASE InboundCreateLot(p) \/ ConsumeFindMaterial(p) \/ ConsumeTake(p) \/ ReadLot(p)
           \/ CreateAudit(p) \/ AuditFails(p) \/ UpdateGet(p) \/ UpdateSave(p)
  <2>1. /\ UNCHANGED <<mats, wm, req>> /\ pc' = [pc EXCEPT ![p] = pc'[p]]
        /\ pc'[p] \in {"log", "list", "write", "commit", "aborted", "save", "reply"}
        /\ pc[p] \in {"get", "save"} \/ pc'[p] \in TxPoints
    BY <1>7 DEF InboundCreateLot, ConsumeFindMaterial, ConsumeTake, ReadLot,
          CreateAudit, AuditFails, UpdateGet, UpdateSave
  <2> QED BY <1>6, <2>1 DEF InTx
<1>8. CASE ConsumeListLots(p)
  BY <1>6, <1>8 DEF ConsumeListLots, LoopPoint, InTx
<1>9. CASE AdjustWrite(p) \/ VoidWrite(p)
  BY <1>6, <1>9 DEF AdjustWrite, VoidWrite, WriteLot, InTx
<1>10. CASE CreateMovement(p)
  <2>1. /\ UNCHANGED <<mats, wm, req>> /\ pc' = [pc EXCEPT ![p] = pc'[p]]
        /\ pc'[p] \in {"take", "audit"}
    BY <1>10 DEF CreateMovement, LoopPoint
  <2> QED BY <1>6, <2>1 DEF InTx
<1> QED
  BY <1>1, <1>2, <1>3, <1>4, <1>5, <1>7, <1>8, <1>9, <1>10
     DEF Step, InboundStep, ConsumeStep, LotStep, EndStep, UpdateStep, RefusedStep,
         MaterialNotFound, ConsumeInsufficient, LotNotFound, CommitRefused,
         StatementFails, Busy, DeadlockDetected, NoRoom, Rollback, UpdateReply

(* On SQLite, concurrent first inbounds of one product share one material. *)
THEOREM NaturalKeyCorrect == ASSUME Driver = "sqlite" PROVE Spec => []NaturalKeyUnique
<1>1. TypeInv /\ KeyInv /\ [Next]_vars => TypeInv' /\ KeyInv'
  <2>1. KeyInv /\ UNCHANGED vars => KeyInv'
    BY DEF vars, KeyInv, NaturalKeyUnique, KeyTx, InTx, Inbounds, NewKey
  <2> QED BY <2>1, StepTyped, StepKeys, StutterTyped DEF Next, Served
<1>2. Init => TypeInv /\ KeyInv
  BY InitTyped DEF Init, EmptyTables, AllIdle, KeyInv, NaturalKeyUnique, KeyTx, InTx
<1>3. KeyInv => NaturalKeyUnique
  BY DEF KeyInv
<1> QED BY <1>1, <1>2, <1>3, PTL DEF Spec
=============================================================================
