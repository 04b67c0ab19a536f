---------------------------- MODULE QuantityProofs ----------------------------
(***************************************************************************)
(* Theorems about the quantities that Inventory's requests move, beyond    *)
(* what isolation gives: no lot below nothing, an edit that keeps what is  *)
(* on hand, a consumption that takes exactly what was asked for, from      *)
(* however many lots, and the ledger that the transactions implement.      *)
(***************************************************************************)
EXTENDS InventoryProofs, SumProofs

USE InventoryAssumption DEF InventoryAssumption, Rows, RequestType, TxPoints, OpNames

-----------------------------------------------------------------------------
(* No lot ever holds less than nothing, on either driver, as long as a     *)
(* batch cannot receive a negative quantity (no other handler lets one     *)
(* through).  What is negative nowhere: the table, the rows in memory, the *)
(* transactions' writes, and the quantities the requests in progress ask   *)
(* to receive or to set.                                                   *)
NotNegative(row) == row # NoRow => row.qty >= 0

FloorInv ==
    /\ \A l \in Lots : /\ NotNegative(lots[l])
                       /\ \A p \in Procs : NotNegative(mem[p][l]) /\ NotNegative(wl[p][l])
    /\ \A p \in Procs : Inbounds(p) \/ req[p].op = "adjust" => req[p].qty >= 0

NoNegativeBatch == "batch_inbound" \notin Ops \/ \A q \in Quantities : q >= 0

LEMMA RequestsNotNegative ==
    ASSUME NoNegativeBatch, NEW r \in Requests,
           r.op \in {"inbound", "batch_inbound", "adjust"}
    PROVE  r.qty >= 0
<1> USE DEF Form, Positive, NonNegative, InboundForms
<1>1. r \in InboundRequests => r.qty >= 0
  <2>1. r \in InboundRequests => r.qty \in Positive
    BY DEF InboundRequests
  <2>2. \A q \in Positive : q >= 0
    OBVIOUS
  <2> HIDE DEF Positive
  <2> QED BY <2>1, <2>2
<1>2. r \notin ConsumeRequests /\ r \notin UpdateRequests
  <2>1. r \in ConsumeRequests => r.op = "consume"
    BY DEF ConsumeRequests
  <2>2. r \in UpdateRequests => r.op = "update"
    BY DEF UpdateRequests
  <2> QED BY <2>1, <2>2
<1>3. r \in BatchRequests => r.qty >= 0
  BY DEF BatchRequests, NoNegativeBatch
<1>4. r \in LotRequests => r.qty >= 0
  BY DEF LotRequests
<1> QED BY <1>1, <1>2, <1>3, <1>4 DEF Requests

LEMMA StoredNotNegative ==
    ASSUME NEW row \in Row, row.qty >= 0
    PROVE  NotNegative(Stored(row))
BY StoredTyped DEF NotNegative

LEMMA StepFloor ==
    ASSUME TypeInv, FloorInv, NoNegativeBatch, NEW p \in Procs,
           Accept(p) \/ Step(p) \/ StatementFails(p)
    PROVE  FloorInv'
<1> USE DEF TypeInv, TypeOK, db, local, writes
<1> DEFINE Requested == \A q \in Procs : Inbounds(q) \/ req[q].op = "adjust" => req[q].qty >= 0
<1>0. /\ \A l \in Lots : NotNegative(SeenLot(p, l))
      /\ Requested
  BY DEF FloorInv, SeenLot
<1>1. ASSUME Done(p), \A l \in Lots : NotNegative(lots'[l])
      PROVE  FloorInv'
  <2>1. Requested'
    BY <1>0, <1>1 DEF Done, NoReq, Inbounds
  <2> QED BY <1>1, <2>1 DEF Done, FloorInv, NotNegative, NoRows
<1>2. ASSUME NEW l \in Lots, NEW row \in Row, row.qty >= 0, UNCHANGED req,
             \/ wl' = [wl EXCEPT ![p][l] = Stored(row)] /\ UNCHANGED lots
             \/ lots' = [lots EXCEPT ![l] = Stored(row)] /\ UNCHANGED wl,
             mem' = mem \/ mem' = [mem EXCEPT ![p][l] = NoRow]
      PROVE  FloorInv'
  <2>1. NotNegative(Stored(row))
    BY <1>2, StoredNotNegative
  <2>2. ASSUME NEW q \in Procs, NEW k \in Lots PROVE NotNegative(mem[q][k])'
    <3>1. mem'[q][k] = mem[q][k] \/ mem'[q][k] = NoRow
      <4>1. CASE mem' = mem  BY <4>1
      <4>2. CASE mem' = [mem EXCEPT ![p][l] = NoRow]  BY <4>2
      <4> QED BY <1>2, <4>1, <4>2
    <3> QED BY <3>1 DEF FloorInv, NotNegative
  <2>3. ASSUME NEW q \in Procs, NEW k \in Lots PROVE NotNegative(wl[q][k])'
    <3>1. wl'[q][k] = wl[q][k] \/ wl'[q][k] = Stored(row)
      <4>1. CASE wl' = wl  BY <4>1
      <4>2. CASE wl' = [wl EXCEPT ![p][l] = Stored(row)]  BY <4>2
      <4> QED BY <1>2, <4>1, <4>2
    <3> QED BY <2>1, <3>1 DEF FloorInv, NotNegative
  <2>4. ASSUME NEW k \in Lots PROVE NotNegative(lots[k])'
    <3>1. lots'[k] = lots[k] \/ lots'[k] = Stored(row)  BY <1>2
    <3> QED BY <2>1, <3>1 DEF FloorInv, NotNegative
  <2>5. Requested'
    BY <1>0, <1>2 DEF Inbounds
  <2> QED BY <2>2, <2>3, <2>4, <2>5 DEF FloorInv
<1>3. ASSUME UNCHANGED <<lots, wl, req>>, NEW rows \in Rows, mem' = [mem EXCEPT ![p] = rows],
             \A l \in Lots : NotNegative(rows[l])
      PROVE  FloorInv'
  BY <1>3 DEF FloorInv, Inbounds
<1>4. CASE UNCHANGED <<lots, wl, mem, req>>
  BY <1>4 DEF FloorInv, Inbounds
<1>5. CASE Accept(p)
  <2>1. PICK r \in Requests : req' = [req EXCEPT ![p] = r]
    BY <1>5 DEF Accept
  <2>2. Requested'
    BY <1>0, <2>1, RequestsNotNegative DEF Inbounds
  <2> QED BY <1>5, <2>2 DEF Accept, FloorInv
<1>6. CASE InboundFindMaterial(p) \/ InboundCreateMaterial(p)
  <2>1. PICK m \in MatIds : req' = [req EXCEPT ![p].mat = m]
    BY <1>6 DEF InboundFindMaterial, InboundCreateMaterial, FreeMats
  <2>2. \A q \in Procs : req'[q].op = req[q].op /\ req'[q].qty = req[q].qty
    BY <2>1
  <2>3. Requested'
    BY <1>0, <2>2 DEF Inbounds
  <2> QED BY <1>6, <2>3 DEF InboundFindMaterial, InboundCreateMaterial, FloorInv
<1>7. CASE Rollback(p)
  BY <1>1, <1>7 DEF Rollback, FloorInv
<1>8. CASE CommitTx(p)
  BY <1>0, <1>1, <1>8 DEF CommitTx
<1>9. CASE InboundCreateLot(p)
  <2> DEFINE new == [mat |-> req[p].mat, qty |-> req[p].qty, status |-> "active", due |-> req[p].due]
  <2>1. PICK l \in Lots : wl' = [wl EXCEPT ![p][l] = Stored(new)]
    BY <1>9 DEF InboundCreateLot, FreshLots
  <2>2. new \in Row
    BY <1>9 DEF InboundCreateLot, PointOK, Row
  <2>3. new.qty >= 0
    BY <1>0, <1>9 DEF InboundCreateLot, PointOK
  <2> HIDE DEF new
  <2> QED BY <1>2, <1>9, <2>1, <2>2, <2>3 DEF InboundCreateLot
<1>10. CASE ConsumeListLots(p)
  <2>1. Consumable(p) \in Rows /\ \A l \in Lots : NotNegative(Consumable(p)[l])
    BY <1>0, SeenTyped DEF Consumable, NotNegative
  <2> QED BY <1>3, <1>10, <2>1 DEF ConsumeListLots
<1>11. CASE ConsumeTake(p)
  <2> DEFINE left(l) == mem[p][l].qty - Least(mem[p][l].qty, rest[p])
             Left(l) == [mem[p][l] EXCEPT !.qty = left(l), !.status = "active"]
  <2>1. PICK l \in Lots : /\ mem[p][l] # NoRow
                          /\ wl' = [wl EXCEPT ![p][l] = Stored(Left(l))]
                          /\ mem' = [mem EXCEPT ![p][l] = NoRow]
    BY <1>11 DEF ConsumeTake, IsFirst, Held
  <2>2. mem[p][l] \in Row /\ mem[p][l].qty \in Int /\ mem[p][l].qty >= 0
    BY <2>1 DEF Row, FloorInv, NotNegative
  <2>3. left(l) \in Int /\ left(l) >= 0
    BY <2>2 DEF Least
  <2> HIDE DEF left
  <2>4. Left(l) \in Row /\ Left(l).qty = left(l)
    <3>1. PICK d \in Dues : TRUE  BY <2>2 DEF Row
    <3> QED BY <2>2, <2>3, <3>1, RowUpdated
  <2>5. UNCHANGED <<lots, req>>
    BY <1>11 DEF ConsumeTake
  <2>6. Left(l).qty >= 0
    BY <2>3, <2>4
  <2> HIDE DEF Left
  <2> QED BY <1>2, <2>1, <2>4, <2>5, <2>6
<1>12. ASSUME NEW target \in Int, NEW status \in {"active", "depleted", "void"},
              target >= 0, WriteLot(p, target, status)
       PROVE  FloorInv'
  <2> DEFINE l == req[p].lot
             new == [mem[p][l] EXCEPT !.qty = target, !.status = status]
  <2>1. l \in Lots /\ mem[p][l] \in Row
    BY <1>12 DEF WriteLot, PointOK
  <2>2. new \in Row /\ new.qty = target
    <3>1. PICK d \in Dues : TRUE  BY <2>1 DEF Row
    <3>2. new \in Row  BY <2>1, <3>1, RowUpdated
    <3>3. new.qty = target  BY <2>1 DEF Row
    <3> QED BY <3>2, <3>3
  <2>3. wl' = [wl EXCEPT ![p][l] = Stored(new)] /\ mem' = [mem EXCEPT ![p][l] = NoRow]
        /\ UNCHANGED <<lots, req>>
    BY <1>12 DEF WriteLot
  <2> HIDE DEF l, new
  <2> QED BY <1>2, <1>12, <2>1, <2>2, <2>3
<1>13. CASE AdjustWrite(p)
  <2>1. req[p].qty \in Int  OBVIOUS
  <2>2. req[p].qty >= 0
    BY <1>0, <1>13 DEF AdjustWrite, FloorInv
  <2> QED BY <1>12, <1>13, <2>1, <2>2 DEF AdjustWrite
<1>14. CASE VoidWrite(p)
  BY <1>12, <1>14 DEF VoidWrite
<1>15. CASE ReadLot(p) \/ UpdateGet(p)
  <2> DEFINE l == req[p].lot
  <2>1. l \in Lots /\ NotNegative(lots[l]) /\ NotNegative(SeenLot(p, l))
        /\ lots[l] \in Row \cup {NoRow} /\ SeenLot(p, l) \in Row \cup {NoRow}
    BY <1>0, <1>15, SeenTyped DEF ReadLot, UpdateGet, PointOK, FloorInv
  <2>2. PICK row \in Row \cup {NoRow} : NotNegative(row) /\ mem' = [mem EXCEPT ![p][l] = row]
    BY <1>15, <2>1 DEF ReadLot, UpdateGet
  <2>3. UNCHANGED <<lots, wl, req>>
    BY <1>15 DEF ReadLot, UpdateGet
  <2> HIDE DEF l
  <2> QED BY <2>1, <2>2, <2>3 DEF FloorInv, Inbounds
<1>16. CASE UpdateSave(p)
  <2> DEFINE l == req[p].lot
             new == [mem[p][l] EXCEPT !.due = req[p].due]
  <2>1. /\ l \in Lots /\ mem[p][l] \in Row /\ req[p].due \in Dues /\ mem[p][l].qty >= 0
    BY <1>16 DEF UpdateSave, PointOK, FloorInv, NotNegative
  <2>2. new \in Row /\ new.qty = mem[p][l].qty
    <3>1. new \in Row /\ new.qty = mem[p][l].qty
      BY <2>1, RowRedated
    <3> QED BY <3>1
  <2>3. lots' = [lots EXCEPT ![l] = Stored(new)] /\ UNCHANGED <<wl, mem, req>>
    BY <1>16 DEF UpdateSave
  <2> HIDE DEF l, new
  <2> QED BY <1>2, <2>1, <2>2, <2>3
<1>17. CASE UpdateReply(p)
  BY <1>1, <1>17 DEF UpdateReply, FloorInv
<1> HIDE DEF Requested
<1> QED
  BY <1>4, <1>5, <1>6, <1>7, <1>8, <1>9, <1>10, <1>11, <1>13, <1>14, <1>15, <1>16, <1>17
     DEF Step, InboundStep, ConsumeStep, LotStep, EndStep, UpdateStep, RefusedStep,
         MaterialNotFound, ConsumeInsufficient, LotNotFound, CommitRefused,
         StatementFails, Busy, DeadlockDetected, NoRoom,
         InboundUnknownName, ConsumeFindMaterial,
         CreateMovement, CreateAudit, AuditFails

(* Nothing is handed out that is not there, whatever requests overlap.     *)
THEOREM NonNegativeCorrect == ASSUME NoNegativeBatch PROVE Spec => []NonNegativeOnHand
<1>1. TypeInv /\ FloorInv /\ [Next]_vars => TypeInv' /\ FloorInv'
  <2>1. FloorInv /\ UNCHANGED vars => FloorInv'
    BY DEF vars, FloorInv, NotNegative, Inbounds
  <2> QED BY <2>1, StepTyped, StepFloor, StutterTyped DEF Next, Served
<1>2. Init => TypeInv /\ FloorInv
  BY InitTyped DEF Init, EmptyTables, AllIdle, FloorInv, NotNegative, NoRows, NoReq, Inbounds
<1>3. FloorInv => NonNegativeOnHand
  BY DEF FloorInv, NotNegative, NonNegativeOnHand
<1> QED BY <1>1, <1>2, <1>3, PTL DEF Spec

-----------------------------------------------------------------------------
(* UpdateLot saves the whole row it has read, outside any transaction.  It *)
(* keeps the quantity on hand as it finds it when nothing that takes stock *)
(* can run beside it: one request at a time, or only inbounds and other    *)
(* updates.  (inv_update_race shows that a consume beside it is enough.)   *)
OneAtATime == \A p, q \in Procs : p = q
OnlyInbounds == Ops \subseteq {"inbound", "batch_inbound", "update"}

\* What UpdateLot holds is still what the table holds, as to quantity.
Faithful(p) ==
    LET l == req[p].lot
    IN  lots[l] # NoRow /\ mem[p][l].qty = lots[l].qty

\* Every row that a transaction has written is a new one, of its own.
OwnNewRows(p) ==
    \A l \in Lots : wl[p][l] # NoRow =>
        lots[l] = NoRow /\ \A q \in Procs \ {p} : wl[q][l] = NoRow

InfoInv ==
    \A p \in Procs :
        /\ pc[p] = "save" => Faithful(p)
        /\ OnlyInbounds => /\ pc[p] \notin {"read", "write"} /\ ~Consumes(p)
                           /\ OwnNewRows(p)

\* The rows an update may be holding keep their quantities.
QuantitiesKept ==
    \A l \in Lots : lots[l] # NoRow => lots'[l] # NoRow /\ lots'[l].qty = lots[l].qty

LEMMA KeptFaithful ==
    ASSUME TypeInv, InfoInv, NEW p \in Procs,
           QuantitiesKept \/ OneAtATime,
           pc'[p] = "save" => Faithful(p)',
           \A q \in Procs \ {p} : pc'[q] = pc[q] /\ req'[q] = req[q] /\ mem'[q] = mem[q]
    PROVE  \A q \in Procs : pc'[q] = "save" => Faithful(q)'
<1> SUFFICES ASSUME NEW q \in Procs \ {p}, pc'[q] = "save" PROVE Faithful(q)'
  OBVIOUS
<1>1. QuantitiesKept
  BY DEF OneAtATime
<1>2. Faithful(q) /\ req[q].lot \in Lots
  BY DEF InfoInv, TypeInv, PointOK
<1> QED BY <1>1, <1>2 DEF QuantitiesKept, Faithful

LEMMA StepInfo ==
    ASSUME TypeInv, TypeInv', InfoInv, OneAtATime \/ OnlyInbounds, NEW p \in Procs,
           Accept(p) \/ Step(p) \/ StatementFails(p)
    PROVE  InfoInv'
<1> USE DEF TypeInv, TypeOK, Goto, db, local, writes
<1> DEFINE Others0 == \A q \in Procs \ {p} :
              pc'[q] = pc[q] /\ req'[q] = req[q] /\ mem'[q] = mem[q] /\ wl'[q] = wl[q]
           Own == OnlyInbounds => \A q \in Procs : OwnNewRows(q)'
           NoTaking == OnlyInbounds => pc'[p] \notin {"read", "write"} /\ ~Consumes(p)'
<1>0. ASSUME QuantitiesKept \/ OneAtATime, pc'[p] = "save" => Faithful(p)', Others0, Own, NoTaking
      PROVE  InfoInv'
  <2>1. \A q \in Procs : pc'[q] = "save" => Faithful(q)'
    BY <1>0, KeptFaithful
  <2>2. ASSUME OnlyInbounds, NEW q \in Procs \ {p}
        PROVE  pc'[q] \notin {"read", "write"} /\ ~Consumes(q)'
    BY <1>0, <2>2 DEF InfoInv, Consumes
  <2> QED BY <1>0, <2>1, <2>2 DEF InfoInv
<1>1. ASSUME UNCHANGED <<lots, wl>>
      PROVE  QuantitiesKept /\ Own
  BY <1>1 DEF InfoInv, OwnNewRows, QuantitiesKept
<1>2. CASE Accept(p)
  <2>1. PICK r \in Requests :
        /\ req' = [req EXCEPT ![p] = r]
        /\ pc' = [pc EXCEPT ![p] = IF r \in UpdateRequests THEN "get"
                   ELSE IF r \in LotRequests THEN "read" ELSE "resolve"]
    BY <1>2 DEF Accept
  <2>2. NoTaking
    BY <2>1, RequestsTyped DEF OnlyInbounds, Consumes
  <2>3. UNCHANGED <<lots, mem, wl>> /\ pc'[p] # "save"
    BY <1>2, <2>1 DEF Accept
  <2>4. Others0  BY <2>1, <2>3
  <2> QED BY <1>0, <1>1, <2>2, <2>3, <2>4
<1>3. CASE Rollback(p)
  <2>1. Done(p) /\ UNCHANGED lots  BY <1>3 DEF Rollback
  <2>2. Others0 /\ pc'[p] = "idle" /\ ~Consumes(p)'
    BY <2>1 DEF Done, Consumes, NoReq
  <2>3. Own
    BY <2>1, <2>2 DEF Done, InfoInv, OwnNewRows, NoRows
  <2>4. QuantitiesKept  BY <2>1 DEF QuantitiesKept
  <2> QED BY <1>0, <2>2, <2>3, <2>4
<1>4. CASE UpdateReply(p)
  <2>1. Done(p) /\ UNCHANGED lots  BY <1>4 DEF UpdateReply, db
  <2>2. Others0 /\ pc'[p] = "idle" /\ ~Consumes(p)'
    BY <2>1 DEF Done, Consumes, NoReq
  <2>3. Own
    BY <2>1, <2>2 DEF Done, InfoInv, OwnNewRows, NoRows
  <2>4. QuantitiesKept  BY <2>1 DEF QuantitiesKept
  <2> QED BY <1>0, <2>2, <2>3, <2>4
<1>5. CASE CommitTx(p)
  <2>1. Done(p) /\ \A l \in Lots : lots'[l] = IF wl[p][l] # NoRow THEN wl[p][l] ELSE lots[l]
    BY <1>5 DEF CommitTx, SeenLot
  <2>2. Others0 /\ pc'[p] = "idle" /\ ~Consumes(p)'
    BY <2>1 DEF Done, Consumes, NoReq
  <2>3. OnlyInbounds => QuantitiesKept
    BY <2>1 DEF InfoInv, OwnNewRows, QuantitiesKept
  <2>4. Own
    <3> SUFFICES ASSUME OnlyInbounds, NEW q \in Procs PROVE OwnNewRows(q)'
      OBVIOUS
    <3>1. CASE q = p
      BY <2>1, <3>1 DEF Done, OwnNewRows, NoRows
    <3>2. CASE q # p
      <4> SUFFICES ASSUME NEW l \in Lots, wl[q][l] # NoRow
                   PROVE  lots'[l] = NoRow /\ \A x \in Procs \ {q} : wl'[x][l] = NoRow
        BY <2>2, <3>2 DEF OwnNewRows
      <4>1. lots[l] = NoRow /\ \A x \in Procs \ {q} : wl[x][l] = NoRow
        BY DEF InfoInv, OwnNewRows
      <4>2. lots'[l] = NoRow
        BY <2>1, <3>2, <4>1
      <4>3. wl'[p][l] = NoRow
        BY <2>1 DEF Done, NoRows
      <4> QED BY <2>2, <4>1, <4>2, <4>3
    <3> QED BY <3>1, <3>2
  <2> QED BY <1>0, <2>2, <2>3, <2>4
<1>6. CASE InboundCreateLot(p)
  <2>1. PICK l \in FreshLots : \E row : wl' = [wl EXCEPT ![p][l] = row]
    BY <1>6 DEF InboundCreateLot
  <2>2. l \in Lots /\ lots[l] = NoRow /\ \A q \in Procs : wl[q][l] = NoRow
    <3>1. l \in Lots /\ UsedLots \subseteq 1..(l - 1)
      BY DEF FreshLots
    <3>2. l \notin UsedLots
      BY <3>1 DEF Lots
    <3> QED BY <3>1, <3>2 DEF UsedLots
  <2>3. UNCHANGED <<lots, mem, req>> /\ pc'[p] = "log" /\ Others0 /\ pc[p] = "insert"
    BY <1>6, <2>1 DEF InboundCreateLot
  <2>4. Own
    BY <2>1, <2>2, <2>3 DEF InfoInv, OwnNewRows
  <2>5. NoTaking
    BY <2>3 DEF InfoInv, Consumes
  <2> QED BY <1>0, <2>3, <2>4, <2>5 DEF QuantitiesKept
<1>7. CASE UpdateSave(p)
  <2> DEFINE l == req[p].lot
             new == [mem[p][l] EXCEPT !.due = req[p].due]
  <2>1. /\ l \in Lots /\ mem[p][l] \in Row /\ req[p].due \in Dues
        /\ lots[l] # NoRow /\ mem[p][l].qty = lots[l].qty
    BY <1>7 DEF UpdateSave, PointOK, InfoInv, Faithful
  <2>2. Stored(new) # NoRow /\ Stored(new).qty = lots[l].qty
    <3>1. new \in Row /\ new.qty = mem[p][l].qty
      BY <2>1, RowRedated
    <3> QED BY <2>1, <3>1, StoredTyped
  <2>3. /\ lots' = [lots EXCEPT ![l] = Stored(new)] /\ UNCHANGED <<wl, mem, req>>
        /\ pc[p] = "save" /\ pc'[p] = "reply" /\ Others0
    BY <1>7 DEF UpdateSave
  <2> HIDE DEF l, new
  <2>4. QuantitiesKept /\ \A k \in Lots : lots'[k] = NoRow <=> lots[k] = NoRow
    BY <2>1, <2>2, <2>3 DEF QuantitiesKept
  <2>5. Own
    BY <2>3, <2>4 DEF InfoInv, OwnNewRows
  <2>6. NoTaking
    BY <2>3 DEF InfoInv, Consumes
  <2> QED BY <1>0, <2>3, <2>4, <2>5, <2>6
<1>8. CASE UpdateGet(p)
  <2> DEFINE l == req[p].lot
  <2>1. /\ UNCHANGED <<lots, wl, req>> /\ pc'[p] = "save" /\ pc[p] = "get"
        /\ mem' = [mem EXCEPT ![p][l] = lots[l]] /\ lots[l] # NoRow /\ Others0
    BY <1>8 DEF UpdateGet
  <2>2. l \in Lots
    BY <2>1 DEF PointOK
  <2>3. mem'[p][l] = lots[l]
    BY <2>1, <2>2
  <2>4. Faithful(p)'
    BY <2>1, <2>3 DEF Faithful
  <2>5. NoTaking
    BY <2>1 DEF InfoInv, Consumes
  <2> QED BY <1>0, <1>1, <2>1, <2>4, <2>5
<1>9. CASE InboundFindMaterial(p) \/ InboundCreateMaterial(p)
  <2>1. PICK m \in MatIds : req' = [req EXCEPT ![p].mat = m]
    BY <1>9 DEF InboundFindMaterial, InboundCreateMaterial, FreeMats
  <2>2. UNCHANGED <<lots, mem, wl>> /\ pc'[p] = "insert" /\ Others0
    BY <1>9, <2>1 DEF InboundFindMaterial, InboundCreateMaterial
  <2>3. req'[p].op = req[p].op
    BY <2>1
  <2>4. NoTaking
    BY <2>2, <2>3 DEF InfoInv, Consumes
  <2> QED BY <1>0, <1>1, <2>2, <2>4
<1>10. CASE InboundUnknownName(p) \/ CreateAudit(p) \/ AuditFails(p)
  <2>1. UNCHANGED <<lots, mem, wl, req>> /\ pc'[p] \in {"newmat", "commit", "aborted"} /\ Others0
    BY <1>10 DEF InboundUnknownName, CreateAudit, AuditFails
  <2>2. NoTaking
    BY <2>1 DEF InfoInv, Consumes
  <2> QED BY <1>0, <1>1, <2>1, <2>2
<1>11. CASE CreateMovement(p)
  <2>1. UNCHANGED <<lots, mem, wl, req>> /\ pc'[p] \in {"take", "audit"} /\ Others0
    BY <1>11 DEF CreateMovement, LoopPoint
  <2>2. NoTaking
    BY <2>1 DEF InfoInv, Consumes
  <2> QED BY <1>0, <1>1, <2>1, <2>2
\* The rest takes stock, so that no other request is there.
<1>12. CASE \/ ConsumeFindMaterial(p) \/ ConsumeListLots(p) \/ ConsumeTake(p)
            \/ ReadLot(p) \/ AdjustWrite(p) \/ VoidWrite(p)
  <2>1. Consumes(p) \/ pc[p] \in {"read", "write"}
    BY <1>12 DEF ConsumeFindMaterial, ConsumeListLots, ConsumeTake, ReadLot, AdjustWrite,
                 VoidWrite, WriteLot, PointOK
  <2>2. ~OnlyInbounds
    BY <2>1 DEF InfoInv
  <2>3. pc'[p] # "save"
    BY <1>12 DEF ConsumeFindMaterial, ConsumeListLots, ConsumeTake, ReadLot, AdjustWrite,
                 VoidWrite, WriteLot, LoopPoint
  <2> QED BY <2>2, <2>3 DEF OneAtATime, InfoInv
<1> QED
  BY <1>2, <1>3, <1>4, <1>5, <1>6, <1>7, <1>8, <1>9, <1>10, <1>11, <1>12
     DEF Step, InboundStep, ConsumeStep, LotStep, EndStep, UpdateStep, RefusedStep,
         MaterialNotFound, ConsumeInsufficient, LotNotFound, CommitRefused,
         StatementFails, Busy, DeadlockDetected, NoRoom

(* Only UpdateSave goes from its save to its reply.                        *)
LEMMA OnlySaveReplies ==
    ASSUME TypeInv, NEW p \in Procs, NEW q \in Procs,
           Accept(q) \/ Step(q) \/ StatementFails(q), pc[p] = "save", pc'[p] = "reply"
    PROVE  UpdateSave(p)
<1> USE DEF TypeInv, TypeOK, Goto
<1>1. CASE Rollback(q) \/ CommitTx(q) \/ UpdateReply(q)
  BY <1>1 DEF Rollback, CommitTx, UpdateReply, Done
<1>2. CASE Accept(q)
  BY <1>2 DEF Accept
<1>3. CASE CreateMovement(q) \/ ConsumeListLots(q)
  BY <1>3 DEF CreateMovement, ConsumeListLots, LoopPoint
<1>4. CASE AdjustWrite(q) \/ VoidWrite(q)
  BY <1>4 DEF AdjustWrite, VoidWrite, WriteLot
<1>5. CASE \/ InboundFindMaterial(q) \/ InboundUnknownName(q) \/ InboundCreateMaterial(q)
           \/ InboundCreateLot(q) \/ ConsumeFindMaterial(q) \/ ConsumeTake(q) \/ ReadLot(q)
           \/ CreateAudit(q) \/ AuditFails(q) \/ UpdateGet(q)
  BY <1>5 DEF InboundFindMaterial, InboundUnknownName, InboundCreateMaterial,
              InboundCreateLot, ConsumeFindMaterial, ConsumeTake, ReadLot, CreateAudit,
              AuditFails, UpdateGet
<1>6. CASE UpdateSave(q)
  BY <1>6 DEF UpdateSave
<1> QED
  BY <1>1, <1>2, <1>3, <1>4, <1>5, <1>6
     DEF Step, InboundStep, ConsumeStep, LotStep, EndStep, UpdateStep, RefusedStep,
         MaterialNotFound, ConsumeInsufficient, LotNotFound, CommitRefused,
         StatementFails, Busy, DeadlockDetected, NoRoom

(* An edit of a lot's dates keeps its quantity when nothing takes stock    *)
(* beside it.                                                              *)
THEOREM InfoUpdateCorrect ==
    ASSUME OneAtATime \/ OnlyInbounds PROVE Spec => InfoUpdateKeepsQuantity
<1>1. TypeInv /\ InfoInv /\ [Next]_vars => TypeInv' /\ InfoInv'
  <2>1. InfoInv /\ UNCHANGED vars => InfoInv'
    BY DEF vars, InfoInv, Faithful, OwnNewRows, Consumes
  <2> QED BY <2>1, StepTyped, StepInfo, StutterTyped DEF Next, Served
<1>2. Init => TypeInv /\ InfoInv
  BY InitTyped DEF Init, EmptyTables, AllIdle, InfoInv, OwnNewRows, NoRows, NoReq, Consumes
<1> DEFINE Keeps == \A p \in Procs, l \in Lots :
                        pc[p] = "save" /\ pc'[p] = "reply" /\ lots[l] # NoRow
                            => lots'[l].qty = lots[l].qty
<1>3. TypeInv /\ InfoInv /\ [Next]_vars => [Keeps]_vars
  <2> SUFFICES ASSUME TypeInv, InfoInv, Next, NEW p \in Procs, NEW l \in Lots,
                      pc[p] = "save", pc'[p] = "reply", lots[l] # NoRow
               PROVE  lots'[l].qty = lots[l].qty
    OBVIOUS
  <2>1. UpdateSave(p)
    BY OnlySaveReplies DEF Next, Served, vars
  <2> DEFINE k == req[p].lot
             new == [mem[p][k] EXCEPT !.due = req[p].due]
  <2>2. /\ k \in Lots /\ mem[p][k] \in Row /\ req[p].due \in Dues
        /\ lots[k] # NoRow /\ mem[p][k].qty = lots[k].qty
    BY <2>1 DEF UpdateSave, TypeInv, TypeOK, PointOK, InfoInv, Faithful
  <2>3. Stored(new).qty = lots[k].qty
    <3>1. new \in Row /\ new.qty = mem[p][k].qty
      BY <2>2, RowRedated
    <3> QED BY <2>2, <3>1, StoredTyped
  <2>4. lots' = [lots EXCEPT ![k] = Stored(new)]
    BY <2>1 DEF UpdateSave
  <2> HIDE DEF k, new
  <2>5. lots[l].qty \in Int  BY DEF TypeInv, TypeOK, Row
  <2> QED BY <2>2, <2>3, <2>4 DEF TypeInv, TypeOK
<1> QED BY <1>1, <1>2, <1>3, PTL DEF Spec, InfoUpdateKeepsQuantity

-----------------------------------------------------------------------------
(* Consume's loop.                                                         *)

ConsumePoints == {"resolve", "list", "take", "log", "audit", "commit", "aborted"}

\* What is still to be taken when the movement to insert has been.
Due(p) == IF pc[p] = "log" THEN rest[p] + pend[p].delta ELSE rest[p]

\* Consume's loop: what is taken and what remains make up the request, the
\* lots in memory hold enough, and every movement is in the results.
TakenTx(p) ==
    /\ \A l \in Lots : /\ taken[p][l] >= 0 /\ wd[p][l] = -taken[p][l]
                       /\ wl[p][l] # NoRow => wl[p][l].qty >= 0
                       /\ taken[p][l] > 0 => wl[p][l] # NoRow
                       /\ mem[p][l] # NoRow => mem[p][l].qty > 0
    /\ pc[p] \in {"take", "log"} =>
          /\ rest[p] > 0 /\ SumFunction(taken[p]) + rest[p] = req[p].qty
          /\ Due(p) >= 0 /\ QtyOf(mem[p]) >= Due(p)
    /\ pc[p] = "log" => /\ pend[p].lot \in Lots /\ pend[p].delta <= 0
                        /\ wl[p][pend[p].lot] # NoRow
    /\ pc[p] \notin {"take", "log"} =>
          SumFunction(taken[p]) = IF req[p].qty > 0 THEN req[p].qty ELSE 0

ExactTx(p) ==
    /\ pc[p] \in {"idle", "resolve", "list"} =>
          \A l \in Lots : wl[p][l] = NoRow /\ wd[p][l] = 0 /\ taken[p][l] = 0
    /\ Consumes(p) => pc[p] \in ConsumePoints
    /\ Consumes(p) /\ pc[p] \notin {"resolve", "list"} => TakenTx(p)

ExactInv == \A p \in Procs : ExactTx(p)

-----------------------------------------------------------------------------
(* Sums over lots.                                                         *)

LEMMA LotsFinite == IsFiniteSet(Lots)
BY FS_Interval DEF Lots

LEMMA LotSum ==
    ASSUME NEW f \in [Lots -> Int]
    PROVE  SumFunction(f) = SumFunctionOnSet(f, Lots) /\ SumFunction(f) \in Int
BY LotsFinite, SumInt DEF SumFunction

(* One more unit taken from a lot is one more in the sum.                  *)
LEMMA LotSumUpdate ==
    ASSUME NEW f \in [Lots -> Int], NEW g \in [Lots -> Int], NEW l \in Lots,
           \A k \in Lots \ {l} : g[k] = f[k]
    PROVE  SumFunction(g) = SumFunction(f) + g[l] - f[l]
BY LotsFinite, SumUpdate, LotSum

LEMMA LotSumNat ==
    ASSUME NEW f \in [Lots -> Int], \A k \in Lots : f[k] >= 0
    PROVE  SumFunction(f) >= 0
<1>1. \A k \in Lots : f[k] \in Nat  OBVIOUS
<1>2. SumFunctionOnSet(f, Lots) \in Nat  BY <1>1, LotsFinite, SumNat
<1> QED BY <1>2, LotSum

(* What the lots in memory hold, before and after one is dropped.          *)
LEMMA QtyOfEmpty == ASSUME NEW rows, Held(rows) = {} PROVE QtyOf(rows) = 0
<1> DEFINE f == [l \in Held(rows) |-> rows[l].qty]
<1>1. DOMAIN f = {}  OBVIOUS
<1> HIDE DEF f
<1>2. SumFunction(f) = 0  BY <1>1, SumEmpty DEF SumFunction
<1> QED BY <1>2 DEF f, QtyOf

LEMMA QtyOfDrop ==
    ASSUME NEW rows \in Rows, NEW l \in Lots, rows[l] # NoRow,
           \A k \in Lots : rows[k] # NoRow => rows[k].qty >= 0
    PROVE  LET new == [rows EXCEPT ![l] = NoRow]
           IN  /\ QtyOf(rows) = rows[l].qty + QtyOf(new)
               /\ QtyOf(new) \in Int /\ QtyOf(new) >= 0 /\ rows[l].qty \in Int
<1> DEFINE new == [rows EXCEPT ![l] = NoRow]
           S == Held(rows)
           T == Held(new)
           f == [k \in S |-> rows[k].qty]
           g == [k \in T |-> new[k].qty]
<1>1. S \in SUBSET Lots /\ l \in S /\ T = S \ {l} /\ IsFiniteSet(S) /\ IsFiniteSet(T)
  <2>1. S \in SUBSET Lots /\ l \in S /\ T = S \ {l}
    BY DEF Held
  <2>2. IsFiniteSet(S)  BY <2>1, LotsFinite, FS_Subset
  <2>3. IsFiniteSet(T)  BY <2>1, <2>2, FS_Subset
  <2> QED BY <2>1, <2>2, <2>3
<1>2. \A k \in S : f[k] \in Int /\ f[k] >= 0
  BY DEF Held, Row
<1>3. \A k \in T : g[k] = f[k]
  BY <1>1
<1>4. f[l] = rows[l].qty
  BY <1>1
<1>5. QtyOf(rows) = SumFunctionOnSet(f, S) /\ QtyOf(new) = SumFunctionOnSet(g, T)
  <2>1. DOMAIN f = S /\ DOMAIN g = T  OBVIOUS
  <2>2. QtyOf(rows) = SumFunction(f) /\ QtyOf(new) = SumFunction(g)
    BY DEF QtyOf
  <2> HIDE DEF f, g, S, T, new
  <2> QED BY <2>1, <2>2 DEF SumFunction
<1> HIDE DEF f, g, S, T, new
<1>6. SumFunctionOnSet(f, S) = f[l] + SumFunctionOnSet(f, T)
  BY <1>1, <1>2, SumRemove
<1>7. SumFunctionOnSet(g, T) = SumFunctionOnSet(f, T)
  BY <1>1, <1>3, SumEqual
<1>8. SumFunctionOnSet(f, T) \in Nat
  <2>1. \A k \in T : f[k] \in Nat  BY <1>1, <1>2
  <2> QED BY <1>1, <2>1, SumNat
<1>9. /\ QtyOf(rows) = rows[l].qty + QtyOf(new)
      /\ QtyOf(new) \in Int /\ QtyOf(new) >= 0 /\ rows[l].qty \in Int
  BY <1>1, <1>2, <1>4, <1>5, <1>6, <1>7, <1>8
<1> QED BY <1>9 DEF new

LEMMA QtyOfInt ==
    ASSUME NEW rows \in Rows
    PROVE  QtyOf(rows) \in Int
<1> DEFINE S == Held(rows)
           f == [k \in S |-> rows[k].qty]
<1>1. \A k \in S : f[k] \in Int
  BY DEF Held, Row
<1>2. IsFiniteSet(S)
  BY LotsFinite, FS_Subset DEF Held
<1>3. DOMAIN f = S /\ QtyOf(rows) = SumFunction(f)
  BY DEF QtyOf
<1> HIDE DEF f, S
<1> QED BY <1>1, <1>2, <1>3, SumInt DEF SumFunction

-----------------------------------------------------------------------------
(* The steps of a consumption.                                             *)

LEMMA ListExact ==
    ASSUME TypeInv, TypeInv', NEW p \in Procs, ExactTx(p), ConsumeListLots(p)
    PROVE  ExactTx(p)'
<1> USE DEF TypeInv, TypeOK, Goto, db, local, writes
<1>1. /\ pc[p] = "list" /\ Consumes(p)
      /\ mem' = [mem EXCEPT ![p] = Consumable(p)] /\ rest' = [rest EXCEPT ![p] = req[p].qty]
      /\ pc'[p] = LoopPoint(req[p].qty, Consumable(p))
      /\ QtyOf(Consumable(p)) >= req[p].qty
      /\ UNCHANGED <<writes, req, taken>>
  BY DEF ConsumeListLots, PointOK
<1>2. \A l \in Lots : wl[p][l] = NoRow /\ wd[p][l] = 0 /\ taken[p][l] = 0
  BY <1>1 DEF ExactTx
<1>3. SumFunction(taken[p]) = 0
  BY <1>2, LotsFinite, LotSum, SumZero
<1>4. /\ mem'[p] = Consumable(p) /\ rest'[p] = req[p].qty /\ Consumes(p)'
      /\ taken' = taken /\ req' = req
  BY <1>1 DEF Consumes
<1>5. \A l \in Lots : mem'[p][l] # NoRow => mem'[p][l].qty > 0
  BY <1>4 DEF Consumable
<1>6. CASE pc'[p] = "take"
  <2>1. req[p].qty > 0
    BY <1>1, <1>6 DEF LoopPoint
  <2>2. Due(p)' = req[p].qty
    BY <1>4, <1>6 DEF Due
  <2>3. rest'[p] > 0 /\ SumFunction(taken'[p]) + rest'[p] = req'[p].qty
    <3>1. req[p].qty \in Int  OBVIOUS
    <3> QED BY <1>3, <1>4, <2>1, <3>1
  <2>4. TakenTx(p)'
    BY <1>1, <1>2, <1>4, <1>5, <1>6, <2>1, <2>2, <2>3 DEF TakenTx
  <2> QED BY <1>4, <1>6, <2>4 DEF ExactTx, ConsumePoints
<1>7. CASE pc'[p] # "take"
  <2>1. pc'[p] = "audit" /\ (req[p].qty <= 0 \/ Held(Consumable(p)) = {})
    BY <1>1, <1>7 DEF LoopPoint
  <2>2. ~ (req[p].qty > 0)
    <3>1. Held(Consumable(p)) = {} => QtyOf(Consumable(p)) = 0
      BY QtyOfEmpty
    <3>2. req[p].qty \in Int  OBVIOUS
    <3> QED BY <1>1, <2>1, <3>1, <3>2
  <2>3. TakenTx(p)'
    BY <1>1, <1>2, <1>3, <1>4, <1>5, <2>1, <2>2 DEF TakenTx
  <2> QED BY <1>4, <2>1, <2>3 DEF ExactTx, ConsumePoints
<1> QED BY <1>6, <1>7

LEMMA TakeExact ==
    ASSUME TypeInv, TypeInv', NEW p \in Procs, ExactTx(p), ConsumeTake(p)
    PROVE  ExactTx(p)'
<1> USE DEF TypeInv, TypeOK, Goto, db, local, writes
<1> DEFINE Take(l) == Least(mem[p][l].qty, rest[p])
           Left(l) == [mem[p][l] EXCEPT !.qty = mem[p][l].qty - Take(l), !.status = "active"]
<1>1. PICK l \in Lots :
        /\ mem[p][l] # NoRow
        /\ wl' = [wl EXCEPT ![p][l] = Stored(Left(l))]
        /\ mem' = [mem EXCEPT ![p][l] = NoRow]
        /\ pend' = [pend EXCEPT ![p] = [lot |-> l, delta |-> -Take(l)]]
  BY DEF ConsumeTake, IsFirst, Held
<1>2. /\ pc[p] = "take" /\ Consumes(p) /\ Consumes(p)' /\ pc'[p] = "log"
      /\ UNCHANGED <<req, rest, taken, wd>>
  BY DEF ConsumeTake, PointOK, Consumes
<1>3. TakenTx(p)
  BY <1>2 DEF ExactTx
<1>4. /\ mem[p][l] \in Row /\ mem[p][l].qty \in Int /\ mem[p][l].qty > 0
      /\ rest[p] \in Int /\ rest[p] > 0 /\ QtyOf(mem[p]) >= rest[p]
  BY <1>1, <1>2, <1>3 DEF TakenTx, Due, Row
<1>5. /\ Take(l) \in Int /\ Take(l) > 0 /\ Take(l) <= mem[p][l].qty /\ Take(l) <= rest[p]
      /\ Take(l) = mem[p][l].qty \/ Take(l) = rest[p]
  BY <1>4 DEF Least
<1> HIDE DEF Take
<1>6. /\ Stored(Left(l)) # NoRow /\ Stored(Left(l)).qty >= 0
  <2>1. mem[p][l].qty - Take(l) \in Int /\ mem[p][l].qty - Take(l) >= 0
    BY <1>4, <1>5
  <2>2. Left(l) \in Row
    <3>1. PICK d \in Dues : TRUE  BY <1>4 DEF Row
    <3> QED BY <1>4, <2>1, <3>1, RowUpdated
  <2>3. Left(l).qty = mem[p][l].qty - Take(l)
    BY <1>4 DEF Row
  <2> HIDE DEF Left
  <2> QED BY <2>1, <2>2, <2>3, StoredTyped
<1> HIDE DEF Left
<1>7. /\ mem'[p] = [mem[p] EXCEPT ![l] = NoRow]
      /\ QtyOf(mem[p]) = mem[p][l].qty + QtyOf(mem'[p])
      /\ QtyOf(mem'[p]) \in Int /\ QtyOf(mem'[p]) >= 0
  <2>1. mem'[p] = [mem[p] EXCEPT ![l] = NoRow]
    BY <1>1
  <2>2. \A k \in Lots : mem[p][k] # NoRow => mem[p][k].qty >= 0
    <3>1. \A k \in Lots : mem[p][k] # NoRow => mem[p][k].qty \in Int /\ mem[p][k].qty > 0
      BY <1>3 DEF TakenTx, Row
    <3> QED BY <3>1
  <2>3. mem[p] \in Rows  OBVIOUS
  <2> QED BY <1>1, <2>1, <2>2, <2>3, QtyOfDrop
<1>8. pend'[p].lot = l /\ pend'[p].delta = -Take(l) /\ Due(p)' = rest[p] + (-Take(l))
  BY <1>1, <1>2 DEF Due
<1>9. Due(p)' >= 0 /\ QtyOf(mem'[p]) >= Due(p)' /\ pend'[p].delta <= 0
  BY <1>4, <1>5, <1>7, <1>8
<1>10. \A k \in Lots :
          /\ wl'[p][k] # NoRow => wl'[p][k].qty >= 0
          /\ taken'[p][k] > 0 => wl'[p][k] # NoRow
          /\ mem'[p][k] # NoRow => mem'[p][k].qty > 0
  <2>1. ASSUME NEW k \in Lots \ {l}
        PROVE  wl'[p][k] = wl[p][k] /\ mem'[p][k] = mem[p][k] /\ taken'[p][k] = taken[p][k]
    BY <1>1, <1>2
  <2>2. wl'[p][l] = Stored(Left(l)) /\ mem'[p][l] = NoRow
    BY <1>1
  <2> QED BY <1>3, <1>6, <2>1, <2>2 DEF TakenTx
<1>11. TakenTx(p)'
  BY <1>1, <1>2, <1>3, <1>6, <1>8, <1>9, <1>10 DEF TakenTx
<1> QED BY <1>2, <1>11 DEF ExactTx, ConsumePoints

LEMMA MovementExact ==
    ASSUME TypeInv, TypeInv', NEW p \in Procs, ExactTx(p), CreateMovement(p), Consumes(p)
    PROVE  ExactTx(p)'
<1> USE DEF TypeInv, TypeOK, Goto, db, local, writes
<1> DEFINE l == pend[p].lot
           d == pend[p].delta
<1>1. /\ pc[p] = "log" /\ UNCHANGED <<req, mem, wl>> /\ Consumes(p)'
      /\ wd' = [wd EXCEPT ![p][l] = wd[p][l] + d]
      /\ taken' = [taken EXCEPT ![p][l] = taken[p][l] - d]
      /\ rest' = [rest EXCEPT ![p] = rest[p] + d]
      /\ pc'[p] = LoopPoint(rest[p] + d, mem[p])
  BY DEF CreateMovement, Consumes
<1>2. TakenTx(p)
  BY <1>1 DEF ExactTx
<1>3. /\ l \in Lots /\ d \in Int /\ d <= 0 /\ wl[p][l] # NoRow
      /\ rest[p] \in Int /\ rest[p] + d >= 0 /\ QtyOf(mem[p]) >= rest[p] + d
      /\ SumFunction(taken[p]) + rest[p] = req[p].qty /\ rest[p] > 0
  BY <1>1, <1>2 DEF TakenTx, Due
<1>4. /\ taken[p] \in [Lots -> Int] /\ taken'[p] \in [Lots -> Int] /\ req[p].qty \in Int
      /\ taken'[p][l] = taken[p][l] - d /\ taken[p][l] \in Int
      /\ \A k \in Lots \ {l} : taken'[p][k] = taken[p][k]
  BY <1>1, <1>3
<1> HIDE DEF l, d
<1>5. SumFunction(taken[p]) \in Int /\ SumFunction(taken'[p]) = SumFunction(taken[p]) + (-d)
  <2>1. SumFunction(taken'[p]) = SumFunction(taken[p]) + taken'[p][l] - taken[p][l]
    <3> DEFINE f == taken[p]
               g == taken'[p]
    <3>1. /\ f \in [Lots -> Int] /\ g \in [Lots -> Int] /\ l \in Lots
          /\ \A k \in Lots \ {l} : g[k] = f[k]
      BY <1>3, <1>4
    <3> HIDE DEF f, g
    <3>2. SumFunction(g) = SumFunction(f) + g[l] - f[l]
      BY <3>1, LotSumUpdate
    <3> QED BY <3>2 DEF f, g
  <2>2. SumFunction(taken[p]) \in Int
    BY <1>4, LotSum
  <2> QED BY <1>3, <1>4, <2>1, <2>2
<1>6. SumFunction(taken'[p]) + (rest[p] + d) = req[p].qty
  BY <1>3, <1>4, <1>5
<1>7. \A k \in Lots : /\ taken'[p][k] >= 0 /\ wd'[p][k] = -taken'[p][k]
                      /\ taken'[p][k] > 0 => wl'[p][k] # NoRow
  <2>1. /\ taken'[p][l] = taken[p][l] - d /\ wd'[p][l] = wd[p][l] + d
        /\ taken[p][l] >= 0 /\ wd[p][l] = -taken[p][l] /\ taken[p][l] \in Int
    BY <1>1, <1>2, <1>3 DEF TakenTx
  <2>2. taken'[p][l] >= 0 /\ wd'[p][l] = -taken'[p][l]
    BY <1>3, <2>1
  <2>3. ASSUME NEW k \in Lots \ {l}
        PROVE  taken'[p][k] = taken[p][k] /\ wd'[p][k] = wd[p][k]
    BY <1>1, <1>3
  <2> QED BY <1>1, <1>2, <1>3, <2>2, <2>3 DEF TakenTx
<1>8. rest'[p] = rest[p] + d
  BY <1>1
<1>9. CASE pc'[p] = "take"
  <2>1. rest'[p] > 0
    BY <1>1, <1>8, <1>9 DEF LoopPoint
  <2>2. Due(p)' = rest'[p]
    BY <1>9 DEF Due
  <2>3. TakenTx(p)'
    BY <1>1, <1>2, <1>3, <1>6, <1>7, <1>8, <1>9, <2>1, <2>2 DEF TakenTx
  <2> QED BY <1>1, <1>9, <2>3 DEF ExactTx, ConsumePoints
<1>10. CASE pc'[p] # "take"
  <2>1. pc'[p] = "audit" /\ (~(rest[p] + d > 0) \/ Held(mem[p]) = {})
    BY <1>1, <1>10 DEF LoopPoint
  <2>2. rest[p] + d = 0
    <3>1. CASE Held(mem[p]) = {}
      <4>1. QtyOf(mem[p]) = 0  BY <3>1, QtyOfEmpty
      <4> QED BY <1>3, <4>1
    <3>2. CASE ~ (rest[p] + d > 0)
      BY <1>3, <3>2
    <3> QED BY <2>1, <3>1, <3>2
  <2>3. SumFunction(taken'[p]) = req[p].qty /\ req[p].qty >= 0
    <3>1. SumFunction(taken'[p]) = req[p].qty
      BY <1>3, <1>4, <1>5, <1>6, <2>2
    <3>2. SumFunction(taken'[p]) >= 0
      BY <1>4, <1>7, LotSumNat
    <3> QED BY <3>1, <3>2
  <2>4. SumFunction(taken'[p]) = IF req'[p].qty > 0 THEN req'[p].qty ELSE 0
    BY <1>1, <1>4, <2>3
  <2>5. TakenTx(p)'
    BY <1>1, <1>2, <1>7, <2>1, <2>4 DEF TakenTx
  <2> QED BY <1>1, <2>1, <2>5 DEF ExactTx, ConsumePoints
<1> QED BY <1>9, <1>10

LEMMA StepExact ==
    ASSUME TypeInv, TypeInv', ExactInv, NEW p \in Procs,
           Accept(p) \/ Step(p) \/ StatementFails(p)
    PROVE  ExactInv'
<1> USE DEF TypeInv, TypeOK, Goto, db, local, writes
<1> DEFINE Frame == \A q \in Procs \ {p} :
              /\ pc'[q] = pc[q] /\ req'[q] = req[q] /\ mem'[q] = mem[q] /\ rest'[q] = rest[q]
              /\ taken'[q] = taken[q] /\ pend'[q] = pend[q] /\ wl'[q] = wl[q] /\ wd'[q] = wd[q]
<1> SUFFICES ExactTx(p)' /\ Frame
  <2>1. ASSUME Frame, NEW q \in Procs \ {p} PROVE ExactTx(q)'
    <3>1. /\ pc'[q] = pc[q] /\ req'[q] = req[q] /\ mem'[q] = mem[q] /\ rest'[q] = rest[q]
          /\ taken'[q] = taken[q] /\ pend'[q] = pend[q] /\ wl'[q] = wl[q] /\ wd'[q] = wd[q]
      BY <2>1
    <3>2. TakenTx(q) => TakenTx(q)'
      BY <3>1 DEF TakenTx, Due
    <3> QED BY <3>1, <3>2 DEF ExactInv, ExactTx, Consumes
  <2> QED BY <2>1 DEF ExactInv
<1>0. ExactTx(p)
  BY DEF ExactInv
<1>1. CASE Done(p)
  BY <1>1 DEF Done, ExactTx, Consumes, NoReq, NoRows, Zeros
<1>2. CASE Accept(p)
  <2>1. PICK r \in Requests :
        /\ req' = [req EXCEPT ![p] = r]
        /\ pc' = [pc EXCEPT ![p] = IF r \in UpdateRequests THEN "get"
                   ELSE IF r \in LotRequests THEN "read" ELSE "resolve"]
    BY <1>2 DEF Accept
  <2>2. Consumes(p)' => pc'[p] = "resolve"
    BY <2>1, RequestsTyped DEF Consumes
  <2>3. pc[p] = "idle" /\ UNCHANGED <<mem, rest, taken, pend, wl, wd>> /\ pc'[p] # "list"
    BY <1>2, <2>1 DEF Accept
  <2> QED BY <1>0, <2>1, <2>2, <2>3 DEF ExactTx, ConsumePoints
\* A step of a request that is no consumption.
<1>3. ASSUME ~Consumes(p)', pc'[p] \notin {"idle", "resolve", "list"} PROVE ExactTx(p)'
  BY <1>3 DEF ExactTx
<1>4. CASE InboundFindMaterial(p) \/ InboundCreateMaterial(p)
  <2>1. PICK m \in MatIds : req' = [req EXCEPT ![p].mat = m]
    BY <1>4 DEF InboundFindMaterial, InboundCreateMaterial, FreeMats
  <2>2. Inbounds(p)
    BY <1>4 DEF InboundFindMaterial, InboundCreateMaterial, PointOK
  <2>3. ~Consumes(p)' /\ pc'[p] = "insert"
    BY <1>4, <2>1, <2>2 DEF InboundFindMaterial, InboundCreateMaterial, Inbounds, Consumes
  <2>4. Frame
    BY <1>4, <2>1 DEF InboundFindMaterial, InboundCreateMaterial
  <2> QED BY <1>3, <2>3, <2>4
<1>5. CASE InboundUnknownName(p) \/ InboundCreateLot(p)
  <2>1. Inbounds(p) /\ UNCHANGED req /\ pc'[p] \in {"newmat", "log"}
    BY <1>5 DEF InboundUnknownName, InboundCreateLot, PointOK
  <2>2. ~Consumes(p)'
    BY <2>1 DEF Inbounds, Consumes
  <2>3. Frame
    BY <1>5 DEF InboundUnknownName, InboundCreateLot
  <2> QED BY <1>3, <2>1, <2>2, <2>3
<1>6. CASE ConsumeFindMaterial(p)
  BY <1>0, <1>6 DEF ConsumeFindMaterial, ExactTx, Consumes, ConsumePoints
<1>7. CASE ConsumeListLots(p)
  <2>1. Frame  BY <1>7 DEF ConsumeListLots
  <2>2. ExactTx(p)'  BY <1>0, <1>7, ListExact
  <2> QED BY <2>1, <2>2
<1>8. CASE ConsumeTake(p)
  <2>1. Frame  BY <1>8 DEF ConsumeTake
  <2>2. ExactTx(p)'  BY <1>0, <1>8, TakeExact
  <2> QED BY <2>1, <2>2
<1>9. CASE ReadLot(p) \/ AdjustWrite(p) \/ VoidWrite(p) \/ UpdateGet(p) \/ UpdateSave(p)
  <2>1. ~Consumes(p) /\ UNCHANGED req /\ pc'[p] \in {"write", "log", "audit", "save", "reply"}
    BY <1>9 DEF ReadLot, AdjustWrite, VoidWrite, WriteLot, UpdateGet, UpdateSave, PointOK
  <2>2. ~Consumes(p)'
    BY <2>1 DEF Consumes
  <2>3. Frame
    BY <1>9 DEF ReadLot, AdjustWrite, VoidWrite, WriteLot, UpdateGet, UpdateSave
  <2> QED BY <1>3, <2>1, <2>2, <2>3
<1>10. CASE CreateMovement(p)
  <2>1. Frame
    BY <1>10 DEF CreateMovement
  <2>2. CASE Consumes(p)
    BY <1>0, <1>10, <2>1, <2>2, MovementExact
  <2>3. CASE ~Consumes(p)
    <3>1. ~Consumes(p)' /\ pc'[p] = "audit"
      BY <1>10, <2>3 DEF CreateMovement, Consumes
    <3> QED BY <1>3, <2>1, <3>1
  <2> QED BY <2>2, <2>3
<1>11. CASE CreateAudit(p) \/ AuditFails(p)
  <2>1. /\ pc[p] = "audit" /\ pc' = [pc EXCEPT ![p] = pc'[p]] /\ pc'[p] \in {"commit", "aborted"}
        /\ UNCHANGED <<req, mem, rest, taken, pend, wl, wd>>
    BY <1>11 DEF CreateAudit, AuditFails
  <2>2. Consumes(p) => TakenTx(p)'
    BY <1>0, <2>1 DEF ExactTx, TakenTx
  <2> QED BY <2>1, <2>2 DEF ExactTx, Consumes, ConsumePoints
<1> HIDE DEF Frame
<1> QED
  BY <1>1, <1>2, <1>4, <1>5, <1>6, <1>7, <1>8, <1>9, <1>10, <1>11
     DEF Step, InboundStep, ConsumeStep, LotStep, EndStep, UpdateStep, RefusedStep,
         MaterialNotFound, ConsumeInsufficient, LotNotFound, CommitRefused, CommitTx,
         StatementFails, Busy, DeadlockDetected, NoRoom, Rollback, UpdateReply

(* What a consumption returns adds up to the quantity asked for, and its   *)
(* movements say the same: for every number of lots, on both drivers, with *)
(* any other requests beside it.                                           *)
THEOREM ConsumeCorrect == Spec => []ConsumeExact
<1>1. TypeInv /\ ExactInv /\ [Next]_vars => TypeInv' /\ ExactInv'
  <2>1. ExactInv /\ UNCHANGED vars => ExactInv'
    BY DEF vars, ExactInv, ExactTx, TakenTx, Consumes, Due
  <2> QED BY <2>1, StepTyped, StepExact, StutterTyped DEF Next, Served
<1>2. Init => TypeInv /\ ExactInv
  BY InitTyped DEF Init, EmptyTables, AllIdle, ExactInv, ExactTx, Consumes, NoReq, NoRows, Zeros
<1>3. ExactInv => ConsumeExact
  BY DEF ExactInv, ExactTx, TakenTx, ConsumeExact
<1> QED BY <1>1, <1>2, <1>3, PTL DEF Spec

-----------------------------------------------------------------------------
(* On SQLite, without UpdateLot, every transaction is one atomic step of   *)
(* StockLedger, taken at its commit.                                       *)

(* What a transaction has written so far, against the table it will        *)
(* commit to: nothing, one new lot, one lot with another quantity, or the  *)
(* first lots of the FEFO order, each emptied but perhaps the last.        *)
Untouched(p) == \A l \in Lots : wl[p][l] = NoRow
OnlyWrote(p, l) == wl[p][l] # NoRow /\ \A k \in Lots \ {l} : wl[p][k] = NoRow
SameLot(p, l) == wl[p][l].mat = lots[l].mat /\ wl[p][l].due = lots[l].due
Wanted(p, l) == lots[l] # NoRow /\ lots[l].mat = req[p].mat /\ lots[l].qty > 0

Receives(p) ==
    /\ ~Consumes(p)
    /\ \E l \in Lots : OnlyWrote(p, l) /\ lots[l] = NoRow /\ wl[p][l].qty \in Quantities

Counts(p) ==
    /\ ~Consumes(p)
    /\ \E l \in Lots : /\ OnlyWrote(p, l) /\ lots[l] # NoRow /\ SameLot(p, l)
                       /\ wl[p][l].qty \in {q \in Quantities : q >= 0} \cup {0}

EmptiedFirst(p) ==
    \A a, b \in Lots :
        wl[p][b] # NoRow /\ Wanted(p, a) /\ Before(a, lots[a], b, lots[b])
           => wl[p][a] # NoRow /\ wl[p][a].qty = 0

Draws(p) ==
    /\ Consumes(p)
    /\ Untouched(p) \/ req[p].qty > 0
    /\ pc[p] \in {"take", "log"} => req[p].qty > 0
    /\ \A l \in Lots :
          /\ wl[p][l] # NoRow => Wanted(p, l) /\ SameLot(p, l)
          /\ mem[p][l] # NoRow => Wanted(p, l)
          /\ Wanted(p, l) => wl[p][l] # NoRow \/ mem[p][l] # NoRow
          /\ wl[p][l] # NoRow /\ pc[p] = "take" => wl[p][l].qty = 0
          /\ wl[p][l] # NoRow /\ pc[p] = "log" =>
                wl[p][l].qty = 0 \/ (l = pend[p].lot /\ Due(p) = 0)
    /\ EmptiedFirst(p)

BookTx(p) ==
    /\ pc[p] \in {"newmat", "insert", "write"} => Untouched(p)
    /\ Inbounds(p) \/ Consumes(p) => req[p].qty \in Quantities
    /\ req[p].op = "adjust" => req[p].qty \in {q \in Quantities : q >= 0}
    /\ pc[p] = "take" => Draws(p)
    /\ pc[p] \in {"log", "audit", "commit"} => Receives(p) \/ Counts(p) \/ Draws(p)

BookInv == \A p \in Procs : BookTx(p)

-----------------------------------------------------------------------------
LEMMA RequestQuantities ==
    ASSUME NEW r \in Requests
    PROVE  /\ r.op \in {"inbound", "batch_inbound", "consume", "batch_consume"}
                 => r.qty \in Quantities
           /\ r.op = "adjust" => r.qty \in {q \in Quantities : q >= 0}
<1> USE DEF Form, Positive, NonNegative, InboundForms
<1>1. r \in InboundRequests \cup ConsumeRequests \cup BatchRequests => r.qty \in Quantities
  BY DEF InboundRequests, ConsumeRequests, BatchRequests
<1>2. r \in LotRequests => /\ r.op \in {"adjust", "void"}
                           /\ r.op = "adjust" => r.qty \in {q \in Quantities : q >= 0}
  BY DEF LotRequests
<1>3. r \in UpdateRequests => r.op = "update"
  BY DEF UpdateRequests
<1>4. r \in InboundRequests \cup ConsumeRequests \cup BatchRequests => r.op # "adjust"
  BY DEF InboundRequests, ConsumeRequests, BatchRequests
<1> QED BY <1>1, <1>2, <1>3, <1>4 DEF Requests

(* The step of another goroutine leaves a transaction's plan alone, unless *)
(* it changes the table under it.                                          *)
LEMMA OtherBook ==
    ASSUME NEW q \in Procs, BookTx(q), UNCHANGED lots,
           pc'[q] = pc[q], req'[q] = req[q], mem'[q] = mem[q], rest'[q] = rest[q],
           pend'[q] = pend[q], wl'[q] = wl[q]
    PROVE  BookTx(q)'
<1>1. \A l \in Lots : /\ Wanted(q, l)' <=> Wanted(q, l)
                      /\ SameLot(q, l)' <=> SameLot(q, l)
                      /\ OnlyWrote(q, l)' <=> OnlyWrote(q, l)
  BY DEF Wanted, SameLot, OnlyWrote
<1>2. (Untouched(q)' <=> Untouched(q)) /\ Due(q)' = Due(q)
      /\ (Consumes(q)' <=> Consumes(q)) /\ (Inbounds(q)' <=> Inbounds(q))
  BY DEF Untouched, Due, Consumes, Inbounds
<1>3. EmptiedFirst(q) => EmptiedFirst(q)'
  BY <1>1 DEF EmptiedFirst
<1>4. Receives(q) => Receives(q)'
  BY <1>1, <1>2 DEF Receives
<1>5. Counts(q) => Counts(q)'
  BY <1>1, <1>2 DEF Counts
<1>6. Draws(q) => Draws(q)'
  BY <1>1, <1>2, <1>3 DEF Draws
<1> QED BY <1>2, <1>4, <1>5, <1>6 DEF BookTx

-----------------------------------------------------------------------------
(* Consume's loop.                                                         *)
LEMMA ListBook ==
    ASSUME TypeInv, TypeInv', LedgerInv, NEW p \in Procs, BookTx(p), ConsumeListLots(p)
    PROVE  BookTx(p)'
<1> USE DEF TypeInv, TypeOK, Goto, db, local, writes
<1>1. /\ pc[p] = "list" /\ Consumes(p) /\ Consumes(p)' /\ ~Inbounds(p)' /\ req'[p].op # "adjust"
      /\ mem'[p] = Consumable(p)
      /\ pc'[p] = LoopPoint(req[p].qty, Consumable(p)) /\ pc'[p] \in {"take", "audit"}
      /\ UNCHANGED <<lots, req, wl>>
  BY DEF ConsumeListLots, LoopPoint, PointOK, Consumes, Inbounds
<1>2. \A l \in Lots : wl'[p][l] = NoRow /\ SeenLot(p, l) = lots[l]
  BY <1>1 DEF LedgerInv, SoundTx, SeenLot
<1>3. \A l \in Lots : /\ Wanted(p, l)' <=> Wanted(p, l)
                      /\ mem'[p][l] # NoRow <=> Wanted(p, l)
  BY <1>1, <1>2 DEF Wanted, Consumable
<1>4. pc'[p] = "take" => req'[p].qty > 0
  BY <1>1 DEF LoopPoint
<1>5. Untouched(p)' /\ EmptiedFirst(p)'
  BY <1>2 DEF Untouched, EmptiedFirst
<1>6. Draws(p)'
  BY <1>1, <1>2, <1>3, <1>4, <1>5 DEF Draws
<1> QED BY <1>1, <1>6 DEF BookTx

(* The lot taken from is the first of those that still hold something: all *)
(* that come before it have been emptied.                                  *)
LEMMA TakeBook ==
    ASSUME TypeInv, TypeInv', LedgerInv, ExactInv, ExactInv',
           NEW p \in Procs, BookTx(p), ConsumeTake(p)
    PROVE  BookTx(p)'
<1> USE DEF TypeInv, TypeOK, Goto, db, local, writes
<1> DEFINE Take(l) == Least(mem[p][l].qty, rest[p])
           Left(l) == [mem[p][l] EXCEPT !.qty = mem[p][l].qty - Take(l), !.status = "active"]
<1>1. PICK l \in Lots :
        /\ mem[p][l] # NoRow /\ IsFirst(mem[p], l)
        /\ wl' = [wl EXCEPT ![p][l] = Stored(Left(l))]
        /\ mem' = [mem EXCEPT ![p][l] = NoRow]
        /\ pend' = [pend EXCEPT ![p] = [lot |-> l, delta |-> -Take(l)]]
  BY DEF ConsumeTake, IsFirst, Held
<1>2. /\ pc[p] = "take" /\ Consumes(p) /\ Consumes(p)' /\ pc'[p] = "log"
      /\ ~Inbounds(p)' /\ req'[p].op # "adjust"
      /\ UNCHANGED <<lots, req, rest>>
  BY DEF ConsumeTake, PointOK, Consumes, Inbounds
<1>3. Draws(p) /\ rest[p] \in Int /\ rest[p] > 0
  <2>1. Draws(p)
    BY <1>2 DEF BookTx
  <2>2. TakenTx(p)
    BY <1>2 DEF ExactInv, ExactTx
  <2> QED BY <1>2, <2>1, <2>2 DEF TakenTx
<1>4. /\ mem[p][l] \in Row /\ mem[p][l] = lots[l] /\ mem[p][l].qty \in Int /\ mem[p][l].qty > 0
      /\ Wanted(p, l)
  <2>1. Wanted(p, l)
    BY <1>1, <1>3 DEF Draws
  <2>2. mem[p][l] = lots[l]
    BY <1>1 DEF LedgerInv, SoundTx
  <2>3. mem[p][l] \in Row
    BY <1>1
  <2> QED BY <2>1, <2>2, <2>3 DEF Wanted, Row
<1>5. /\ Take(l) \in Int /\ mem[p][l].qty - Take(l) >= 0
      /\ mem[p][l].qty - Take(l) = 0 \/ rest[p] + (-Take(l)) = 0
  BY <1>3, <1>4 DEF Least
<1> HIDE DEF Take
<1>6. /\ Stored(Left(l)) # NoRow /\ Stored(Left(l)).qty = mem[p][l].qty - Take(l)
      /\ Stored(Left(l)).mat = lots[l].mat /\ Stored(Left(l)).due = lots[l].due
  <2>1. mem[p][l].qty - Take(l) \in Int
    BY <1>4, <1>5
  <2>2. Left(l) \in Row
    <3>1. PICK d \in Dues : TRUE  BY <1>4 DEF Row
    <3> QED BY <1>4, <2>1, <3>1, RowUpdated
  <2>3. /\ Left(l).qty = mem[p][l].qty - Take(l)
        /\ Left(l).mat = lots[l].mat /\ Left(l).due = lots[l].due
    BY <1>4 DEF Row
  <2> HIDE DEF Left
  <2>4. /\ Stored(Left(l)) # NoRow /\ Stored(Left(l)).qty = Left(l).qty
        /\ Stored(Left(l)).mat = Left(l).mat /\ Stored(Left(l)).due = Left(l).due
    BY <2>2, StoredTyped DEF Stored, Row
  <2> QED BY <2>3, <2>4
<1> HIDE DEF Left
<1>7. /\ wl'[p][l] # NoRow /\ wl'[p][l].qty = mem[p][l].qty - Take(l) /\ mem'[p][l] = NoRow
      /\ wl'[p][l].mat = lots[l].mat /\ wl'[p][l].due = lots[l].due
      /\ \A k \in Lots \ {l} : wl'[p][k] = wl[p][k] /\ mem'[p][k] = mem[p][k]
      /\ Due(p)' = rest[p] + (-Take(l)) /\ pend'[p].lot = l
  <2>1. wl'[p][l] = Stored(Left(l)) /\ mem'[p][l] = NoRow
    BY <1>1
  <2>2. \A k \in Lots \ {l} : wl'[p][k] = wl[p][k] /\ mem'[p][k] = mem[p][k]
    BY <1>1
  <2>3. Due(p)' = rest[p] + (-Take(l)) /\ pend'[p].lot = l
    BY <1>1, <1>2 DEF Due
  <2> QED BY <1>6, <2>1, <2>2, <2>3
<1>8. \A k \in Lots : /\ Wanted(p, k)' <=> Wanted(p, k)
                      /\ k # l => (SameLot(p, k)' <=> SameLot(p, k))
  BY <1>2, <1>7 DEF Wanted, SameLot
<1>9. SameLot(p, l)'
  BY <1>2, <1>7 DEF SameLot
<1>10. \A k \in Lots :
          /\ wl'[p][k] # NoRow => Wanted(p, k)' /\ SameLot(p, k)'
          /\ mem'[p][k] # NoRow => Wanted(p, k)'
          /\ Wanted(p, k)' => wl'[p][k] # NoRow \/ mem'[p][k] # NoRow
          /\ wl'[p][k] # NoRow => wl'[p][k].qty = 0 \/ (k = pend'[p].lot /\ Due(p)' = 0)
  <2>1. wl'[p][l].qty = 0 \/ Due(p)' = 0
    BY <1>5, <1>7
  <2>2. ASSUME NEW k \in Lots \ {l}
        PROVE  /\ wl'[p][k] # NoRow => Wanted(p, k)' /\ SameLot(p, k)' /\ wl'[p][k].qty = 0
               /\ mem'[p][k] # NoRow => Wanted(p, k)'
               /\ Wanted(p, k)' => wl'[p][k] # NoRow \/ mem'[p][k] # NoRow
    BY <1>2, <1>3, <1>7, <1>8 DEF Draws
  <2> QED BY <1>4, <1>7, <1>8, <1>9, <2>1, <2>2
<1>11. EmptiedFirst(p)'
  <2> SUFFICES ASSUME NEW a \in Lots, NEW b \in Lots, wl'[p][b] # NoRow, Wanted(p, a),
                      Before(a, lots[a], b, lots[b])
               PROVE  wl'[p][a] # NoRow /\ wl'[p][a].qty = 0
    BY <1>2, <1>8 DEF EmptiedFirst
  <2>1. lots[l] \in Row /\ lots[l].due \in Nat /\ l \in Int
    <3>1. lots[l] \in Row /\ l \in Int  BY <1>4 DEF Lots
    <3> QED BY <3>1 DEF Row
  <2>2. CASE b = l
    <3>1. a # l
      BY <2>1, <2>2 DEF Before
    <3>2. mem[p][a] = NoRow
      <4> SUFFICES ASSUME mem[p][a] # NoRow PROVE FALSE
        OBVIOUS
      <4>1. mem[p][a] = lots[a] /\ mem[p][a] \in Row
        <5>1. mem[p][a] = lots[a]  BY DEF LedgerInv, SoundTx
        <5> QED BY <5>1
      <4>2. Before(l, mem[p][l], a, mem[p][a])
        BY <1>1, <3>1 DEF IsFirst, Held
      <4>3. lots[a].due \in Nat /\ a \in Int
        <5>1. lots[a].due \in Nat  BY <4>1 DEF Row
        <5> QED BY <5>1 DEF Lots
      <4> QED BY <1>4, <2>1, <2>2, <4>1, <4>2, <4>3 DEF Before
    <3>3. wl[p][a] # NoRow /\ wl[p][a].qty = 0
      BY <1>2, <1>3, <3>2 DEF Draws
    <3> QED BY <1>7, <3>1, <3>3
  <2>3. CASE b # l
    <3>1. wl[p][b] # NoRow
      BY <1>7, <2>3
    <3>2. wl[p][a] # NoRow /\ wl[p][a].qty = 0
      BY <1>3, <3>1 DEF Draws, EmptiedFirst
    <3>3. a # l
      BY <1>1, <3>2 DEF LedgerInv, SoundTx
    <3> QED BY <1>7, <3>2, <3>3
  <2> QED BY <2>2, <2>3
<1>12. req'[p].qty > 0
  BY <1>2, <1>3 DEF Draws
<1>13. Draws(p)'
  BY <1>2, <1>10, <1>11, <1>12 DEF Draws
<1>14. req'[p].qty \in Quantities
  BY <1>2 DEF BookTx
<1> QED BY <1>2, <1>13, <1>14 DEF BookTx

LEMMA MovementBook ==
    ASSUME TypeInv, TypeInv', ExactInv, NEW p \in Procs, BookTx(p), CreateMovement(p)
    PROVE  BookTx(p)'
<1> USE DEF TypeInv, TypeOK, Goto, db, local, writes
<1>1. /\ pc[p] = "log" /\ pc'[p] \in {"take", "audit"} /\ UNCHANGED <<lots, req, mem, wl>>
      /\ (Consumes(p)' <=> Consumes(p)) /\ (Inbounds(p)' <=> Inbounds(p))
  BY DEF CreateMovement, LoopPoint, Consumes, Inbounds
<1>2. \A l \in Lots : /\ Wanted(p, l)' <=> Wanted(p, l)
                      /\ SameLot(p, l)' <=> SameLot(p, l)
                      /\ OnlyWrote(p, l)' <=> OnlyWrote(p, l)
  BY <1>1 DEF Wanted, SameLot, OnlyWrote
<1>3. /\ (Untouched(p)' <=> Untouched(p))
      /\ EmptiedFirst(p) => EmptiedFirst(p)'
  <2>1. Untouched(p)' <=> Untouched(p)  BY <1>1 DEF Untouched
  <2>2. EmptiedFirst(p) => EmptiedFirst(p)'  BY <1>1, <1>2 DEF EmptiedFirst
  <2> QED BY <2>1, <2>2
<1>4. CASE ~Consumes(p)
  <2>1. pc'[p] = "audit"
    BY <1>4 DEF CreateMovement
  <2>2. Receives(p) \/ Counts(p)
    BY <1>1, <1>4 DEF BookTx, Draws
  <2>3. Receives(p)' \/ Counts(p)'
    BY <1>1, <1>2, <2>2 DEF Receives, Counts
  <2> QED BY <1>1, <2>1, <2>3 DEF BookTx
<1>5. CASE Consumes(p)
  <2>1. Draws(p)
    BY <1>1, <1>5 DEF BookTx, Receives, Counts
  <2>2. pc'[p] = "take" => Due(p) > 0
    BY <1>1, <1>5 DEF CreateMovement, LoopPoint, Due
  <2>3. Due(p) \in Int
    BY DEF Due
  <2>4. pc'[p] = "take" => \A l \in Lots : wl[p][l] # NoRow => wl[p][l].qty = 0
    BY <1>1, <2>1, <2>2, <2>3 DEF Draws
  <2>5. Draws(p)'
    BY <1>1, <1>2, <1>3, <1>5, <2>1, <2>4 DEF Draws
  <2> QED BY <1>1, <1>5, <2>5 DEF BookTx
<1> QED BY <1>4, <1>5

-----------------------------------------------------------------------------
(* The other requests.                                                     *)
LEMMA CreateLotBook ==
    ASSUME TypeInv, TypeInv', NEW p \in Procs, BookTx(p), InboundCreateLot(p)
    PROVE  BookTx(p)'
<1> USE DEF TypeInv, TypeOK, Goto, db, local, writes
<1> DEFINE new == [mat |-> req[p].mat, qty |-> req[p].qty, status |-> "active", due |-> req[p].due]
<1>1. PICK l \in FreshLots : wl' = [wl EXCEPT ![p][l] = Stored(new)]
  BY DEF InboundCreateLot
<1>2. /\ pc[p] = "insert" /\ pc'[p] = "log" /\ UNCHANGED <<lots, req>>
      /\ Inbounds(p) /\ Inbounds(p)' /\ ~Consumes(p)' /\ req'[p].op # "adjust"
  BY DEF InboundCreateLot, PointOK, Inbounds, Consumes
<1>3. l \in Lots /\ lots[l] = NoRow
  <2>1. l \in Lots /\ UsedLots \subseteq 1..(l - 1)
    BY DEF FreshLots
  <2>2. l \notin UsedLots
    BY <2>1 DEF Lots
  <2> QED BY <2>1, <2>2 DEF UsedLots
<1>4. Stored(new) # NoRow /\ Stored(new).qty = req[p].qty
  <2>1. new \in Row  BY <1>2 DEF PointOK, Row
  <2> QED BY <2>1, StoredTyped
<1>5. req[p].qty \in Quantities /\ Untouched(p)
  BY <1>2 DEF BookTx
<1> HIDE DEF new
<1>6. OnlyWrote(p, l)'
  BY <1>1, <1>3, <1>4, <1>5 DEF OnlyWrote, Untouched
<1>7. wl'[p][l].qty \in Quantities
  BY <1>1, <1>3, <1>4, <1>5
<1>8. Receives(p)'
  BY <1>2, <1>3, <1>6, <1>7 DEF Receives
<1> QED BY <1>2, <1>5, <1>8 DEF BookTx

LEMMA WriteLotBook ==
    ASSUME TypeInv, TypeInv', LedgerInv, NEW p \in Procs, BookTx(p),
           NEW target \in {q \in Quantities : q >= 0} \cup {0},
           NEW status \in {"active", "depleted", "void"}, WriteLot(p, target, status)
    PROVE  BookTx(p)'
<1> USE DEF TypeInv, TypeOK, Goto, db, local, writes
<1>0. PICK l \in Lots : l = req[p].lot
  BY DEF WriteLot, PointOK
<1> DEFINE new == [mem[p][l] EXCEPT !.qty = target, !.status = status]
<1>1. /\ pc[p] = "write" /\ pc'[p] \in {"log", "audit"} /\ UNCHANGED <<lots, req>>
      /\ wl' = [wl EXCEPT ![p][l] = Stored(new)]
      /\ ~Inbounds(p)' /\ ~Consumes(p)'
  BY <1>0 DEF WriteLot, PointOK, Inbounds, Consumes
<1>2. mem[p][l] # NoRow /\ mem[p][l] \in Row
  BY <1>0, <1>1 DEF PointOK
<1>3. lots[l] = mem[p][l]
  BY <1>2 DEF LedgerInv, SoundTx
<1>4. /\ Stored(new) # NoRow /\ Stored(new).qty = target
      /\ Stored(new).mat = lots[l].mat /\ Stored(new).due = lots[l].due
  <2>1. target \in Int
    OBVIOUS
  <2>2. new \in Row
    <3>1. PICK d \in Dues : TRUE  BY <1>2 DEF Row
    <3> QED BY <1>2, <2>1, <3>1, RowUpdated
  <2>3. /\ new.qty = target /\ new.mat = lots[l].mat /\ new.due = lots[l].due
    BY <1>2, <1>3 DEF Row
  <2> HIDE DEF new
  <2>4. /\ Stored(new) # NoRow /\ Stored(new).qty = new.qty
        /\ Stored(new).mat = new.mat /\ Stored(new).due = new.due
    BY <2>2, StoredTyped DEF Stored, Row
  <2> QED BY <2>3, <2>4
<1> HIDE DEF new
<1>5. Untouched(p)
  BY <1>1 DEF BookTx
<1>6. wl'[p][l] = Stored(new) /\ \A k \in Lots \ {l} : wl'[p][k] = NoRow
  BY <1>1, <1>2, <1>5 DEF Untouched
<1>7. OnlyWrote(p, l)' /\ SameLot(p, l)'
  BY <1>1, <1>4, <1>6 DEF OnlyWrote, SameLot
<1>8. Counts(p)'
  BY <1>1, <1>2, <1>3, <1>4, <1>6, <1>7 DEF Counts
<1>9. req'[p].op = "adjust" => req'[p].qty \in {q \in Quantities : q >= 0}
  BY <1>1 DEF BookTx
<1> QED BY <1>1, <1>8, <1>9 DEF BookTx

(* A commit leaves the other transactions nothing to disagree about: none  *)
(* is open when it changes the table.                                      *)
LEMMA CommitBook ==
    ASSUME TypeInv, TypeInv', Serialised, NEW p \in Procs, BookInv, CommitTx(p),
           NEW q \in Procs \ {p}
    PROVE  BookTx(q)'
<1> USE DEF TypeInv, TypeOK, Goto, db, local, writes
<1>1. /\ pc'[q] = pc[q] /\ req'[q] = req[q] /\ mem'[q] = mem[q] /\ rest'[q] = rest[q]
      /\ pend'[q] = pend[q] /\ wl'[q] = wl[q]
  BY DEF CommitTx, Done
<1>2. BookTx(q)
  BY DEF BookInv
<1>3. CASE Wrote(p)
  <2>1. ~InTx(q)
    BY <1>3 DEF CommitTx, MayCommit, Others, Serialised
  <2>2. pc'[q] \notin {"newmat", "insert", "write", "take", "log", "audit", "commit"}
    BY <1>1, <2>1 DEF InTx
  <2> QED BY <1>1, <1>2, <2>2 DEF BookTx, Inbounds, Consumes
<1>4. CASE ~Wrote(p)
  <2>1. \A l \in Lots : SeenLot(p, l) = lots[l]
    BY <1>4 DEF Wrote, SeenLot
  <2>2. lots' = lots
    BY <2>1 DEF CommitTx
  <2> QED BY <1>1, <1>2, <2>2, OtherBook
<1> QED BY <1>3, <1>4

LEMMA StepBook ==
    ASSUME TypeInv, TypeInv', LedgerInv, ExactInv, ExactInv', BookInv, Serialised,
           NEW p \in Procs, Accept(p) \/ Step(p) \/ StatementFails(p)
    PROVE  BookInv' /\ (UNCHANGED <<lots, ledger>> \/ CommitTx(p))
<1> USE DEF TypeInv, TypeOK, Goto, db, local, writes
<1> DEFINE Frame == \A q \in Procs \ {p} :
              /\ pc'[q] = pc[q] /\ req'[q] = req[q] /\ mem'[q] = mem[q] /\ rest'[q] = rest[q]
              /\ pend'[q] = pend[q] /\ wl'[q] = wl[q]
           Here == BookTx(p)' /\ Frame /\ UNCHANGED <<lots, ledger>>
<1>0. BookTx(p) /\ SoundTx(p)
  BY DEF BookInv, LedgerInv
<1>1. Here => BookInv' /\ UNCHANGED <<lots, ledger>>
  <2>1. ASSUME Here, NEW q \in Procs \ {p} PROVE BookTx(q)'
    <3>1. BookTx(q) /\ UNCHANGED lots
      BY <2>1 DEF BookInv
    <3>2. /\ pc'[q] = pc[q] /\ req'[q] = req[q] /\ mem'[q] = mem[q] /\ rest'[q] = rest[q]
          /\ pend'[q] = pend[q] /\ wl'[q] = wl[q]
      BY <2>1
    <3> QED BY <3>1, <3>2, OtherBook
  <2> QED BY <2>1 DEF BookInv
<1>2. ASSUME Done(p) PROVE BookTx(p)' /\ Frame
  <2>1. pc'[p] = "idle" /\ req'[p] = NoReq
    BY <1>2 DEF Done
  <2> QED BY <1>2, <2>1 DEF Done, BookTx, Inbounds, Consumes, NoReq
<1>3. CASE Rollback(p)
  BY <1>1, <1>2, <1>3 DEF Rollback
<1>4. CASE CommitTx(p)
  BY <1>2, <1>4, CommitBook DEF CommitTx, BookInv
<1>5. CASE Accept(p)
  <2>1. PICK r \in Requests :
        /\ req' = [req EXCEPT ![p] = r]
        /\ pc' = [pc EXCEPT ![p] = IF r \in UpdateRequests THEN "get"
                   ELSE IF r \in LotRequests THEN "read" ELSE "resolve"]
    BY <1>5 DEF Accept
  <2>2. req'[p] = r /\ pc'[p] \in {"get", "read", "resolve"}
    BY <2>1
  <2>3. BookTx(p)'
    BY <2>2, RequestQuantities DEF BookTx, Inbounds, Consumes
  <2> QED BY <1>1, <1>5, <2>1, <2>3 DEF Accept
\* A step that keeps what the request asks for and writes nothing yet.
<1>6. ASSUME Frame, UNCHANGED <<lots, ledger>>, Untouched(p)',
             pc'[p] \in {"newmat", "insert", "write", "list"},
             req'[p].op = req[p].op, req'[p].qty = req[p].qty
      PROVE  Here
  BY <1>0, <1>6 DEF BookTx, Inbounds, Consumes
<1>7. pc[p] \in {"resolve", "read"} => Untouched(p)
  BY <1>0 DEF SoundTx, InTx, Untouched
<1>8. CASE InboundFindMaterial(p) \/ InboundCreateMaterial(p)
  <2>1. PICK m \in MatIds : req' = [req EXCEPT ![p].mat = m]
    BY <1>8 DEF InboundFindMaterial, InboundCreateMaterial, FreeMats
  <2>2. /\ pc[p] \in {"resolve", "newmat"} /\ pc'[p] = "insert" /\ wl' = wl
        /\ Frame /\ UNCHANGED <<lots, ledger>>
    BY <1>8, <2>1 DEF InboundFindMaterial, InboundCreateMaterial
  <2>3. Untouched(p)'
    BY <1>0, <1>7, <2>2 DEF BookTx, Untouched
  <2> QED BY <1>1, <1>6, <2>1, <2>2, <2>3
<1>9. CASE InboundUnknownName(p) \/ ConsumeFindMaterial(p) \/ ReadLot(p)
  <2>1. /\ pc[p] \in {"resolve", "read"} /\ pc'[p] \in {"newmat", "list", "write"}
        /\ Frame /\ UNCHANGED <<lots, ledger, wl, req>>
    BY <1>9 DEF InboundUnknownName, ConsumeFindMaterial, ReadLot
  <2>2. Untouched(p)'
    BY <1>7, <2>1 DEF Untouched
  <2> QED BY <1>1, <1>6, <2>1, <2>2
<1>10. CASE InboundCreateLot(p)
  <2>1. BookTx(p)'  BY <1>0, <1>10, CreateLotBook
  <2> QED BY <1>1, <1>10, <2>1 DEF InboundCreateLot
<1>11. CASE ConsumeListLots(p)
  <2>1. BookTx(p)'  BY <1>0, <1>11, ListBook
  <2> QED BY <1>1, <1>11, <2>1 DEF ConsumeListLots
<1>12. CASE ConsumeTake(p)
  <2>1. BookTx(p)'  BY <1>0, <1>12, TakeBook
  <2> QED BY <1>1, <1>12, <2>1 DEF ConsumeTake
<1>13. CASE AdjustWrite(p) \/ VoidWrite(p)
  <2>1. PICK target \in {q \in Quantities : q >= 0} \cup {0},
             status \in {"active", "depleted", "void"} : WriteLot(p, target, status)
    <3>1. CASE AdjustWrite(p)
      <4>1. req[p].qty \in {q \in Quantities : q >= 0}
        BY <1>0, <3>1 DEF AdjustWrite, BookTx
      <4> QED BY <3>1, <4>1 DEF AdjustWrite
    <3>2. CASE VoidWrite(p)
      BY <3>2 DEF VoidWrite
    <3> QED BY <1>13, <3>1, <3>2
  <2>2. BookTx(p)'  BY <1>0, <2>1, WriteLotBook
  <2> QED BY <1>1, <2>1, <2>2 DEF WriteLot
<1>14. CASE CreateMovement(p)
  <2>1. BookTx(p)'  BY <1>0, <1>14, MovementBook
  <2>2. Frame /\ UNCHANGED <<lots, ledger>>
    BY <1>14 DEF CreateMovement
  <2> QED BY <1>1, <2>1, <2>2
<1>15. CASE CreateAudit(p) \/ AuditFails(p)
  <2>1. /\ pc[p] = "audit" /\ pc'[p] = "commit" /\ Frame
        /\ UNCHANGED <<lots, ledger, req, mem, rest, pend, wl>>
    BY <1>15 DEF CreateAudit, AuditFails, Serialised
  <2>2. Draws(p) => Draws(p)'
    BY <2>1 DEF Draws, Untouched, Wanted, SameLot, EmptiedFirst, Consumes
  <2>3. /\ Receives(p) => Receives(p)'
        /\ Counts(p) => Counts(p)'
    BY <2>1 DEF Receives, Counts, OnlyWrote, SameLot, Consumes
  <2>4. BookTx(p)'
    BY <1>0, <2>1, <2>2, <2>3 DEF BookTx, Inbounds, Consumes
  <2> QED BY <1>1, <2>1, <2>4
<1>16. CASE UpdateGet(p) \/ UpdateSave(p) \/ UpdateReply(p)
  BY <1>0, <1>16 DEF UpdateGet, UpdateSave, UpdateReply, SoundTx
<1> HIDE DEF Frame, Here
<1> QED
  BY <1>3, <1>4, <1>5, <1>8, <1>9, <1>10, <1>11, <1>12, <1>13, <1>14, <1>15, <1>16
     DEF Step, InboundStep, ConsumeStep, LotStep, EndStep, UpdateStep, RefusedStep,
         MaterialNotFound, ConsumeInsufficient, LotNotFound, CommitRefused,
         StatementFails, Busy, DeadlockDetected, NoRoom

-----------------------------------------------------------------------------
(* What a commit publishes is one step of the abstract ledger.             *)

(* No lot gives more than the whole consumption.                           *)
LEMMA LotSumCovers ==
    ASSUME NEW f \in [Lots -> Int], \A k \in Lots : f[k] >= 0, NEW l \in Lots
    PROVE  f[l] <= SumFunction(f)
<1>1. SumFunctionOnSet(f, Lots) = f[l] + SumFunctionOnSet(f, Lots \ {l})
  BY LotsFinite, SumRemove
<1>2. SumFunctionOnSet(f, Lots \ {l}) \in Nat
  <2>1. \A k \in Lots \ {l} : f[k] \in Nat  OBVIOUS
  <2>2. IsFiniteSet(Lots \ {l})  BY LotsFinite, FS_Subset
  <2> QED BY <2>1, <2>2, SumNat
<1> QED BY <1>1, <1>2, LotSum

(* Absent is no lot that clients could see.                                *)
LEMMA StockRows ==
    ASSUME TypeOK, NEW l \in Lots
    PROVE  /\ lots[l] = NoRow => Stock[l] = Absent
           /\ lots[l] # NoRow =>
                 /\ Stock[l] = [mat |-> lots[l].mat, qty |-> lots[l].qty, due |-> lots[l].due]
                 /\ Stock[l] # Absent /\ lots[l].mat \in MatIds /\ lots[l].qty \in Int
                 /\ Stock[l].mat = lots[l].mat /\ Stock[l].qty = lots[l].qty
                 /\ Stock[l].due = lots[l].due
<1>1. lots[l] # NoRow => lots[l] \in Row
  BY DEF TypeOK
<1> QED BY <1>1 DEF Stock, Absent, Row

(* The committed ledger follows the committed lots.                        *)
LEMMA LedgerFollows ==
    ASSUME LedgerBalanced, LedgerBalanced', NEW l \in Lots
    PROVE  ledger[l] = Qty(lots[l]) /\ ledger'[l] = Qty(lots'[l])
BY DEF LedgerBalanced, Qty

LEMMA StockCounted ==
    ASSUME NEW m, NEW d, NEW old, NEW new, NEW row, row = [mat |-> m, qty |-> old, due |-> d]
    PROVE  [row EXCEPT !.qty = new] = [mat |-> m, qty |-> new, due |-> d]
OBVIOUS

(* StockLedger's sum is the same sum.                                      *)
LEMMA PromiseSum == ASSUME NEW f PROVE Promise!SumFunction(f) = SumFunction(f)
BY DEF Promise!SumFunction, Promise!SumFunctionOnSet, Promise!FoldFunctionOnSet, Promise!MapThenFoldSet,
       SumFunction, SumFunctionOnSet, FoldFunctionOnSet, MapThenFoldSet

LEMMA ReceiveStep ==
    ASSUME TypeInv, TypeInv', LedgerInv, LedgerInv', NEW p \in Procs, CommitTx(p), Receives(p)
    PROVE  Promise!Next
<1> USE DEF TypeInv, TypeOK
<1>1. PICK l \in Lots : OnlyWrote(p, l) /\ lots[l] = NoRow /\ wl[p][l].qty \in Quantities
  BY DEF Receives
<1>2. /\ lots'[l] = wl[p][l] /\ \A k \in Lots \ {l} : lots'[k] = lots[k]
  BY <1>1 DEF CommitTx, SeenLot, OnlyWrote
<1>3. wl[p][l] \in Row /\ wl[p][l] # NoRow
  BY <1>1 DEF OnlyWrote
<1> DEFINE m == wl[p][l].mat
           q == wl[p][l].qty
           d == wl[p][l].due
<1>4. m \in MatIds /\ q \in Quantities /\ d \in Dues
  BY <1>1, <1>3 DEF Row
<1>5. l \notin Promise!Present
  BY <1>1, StockRows DEF Promise!Present
<1>6. Stock' = [Stock EXCEPT ![l] = [mat |-> m, qty |-> q, due |-> d]]
  BY <1>2, <1>3 DEF Stock
<1>7. ledger' = [ledger EXCEPT ![l] = q]
  <2>1. \A k \in Lots : ledger[k] = Qty(lots[k]) /\ ledger'[k] = Qty(lots'[k])
    BY LedgerFollows DEF LedgerInv
  <2>2. ledger'[l] = q
    BY <1>2, <1>3, <2>1 DEF Qty
  <2>3. \A k \in Lots \ {l} : ledger'[k] = ledger[k]
    BY <1>2, <2>1
  <2> QED BY <2>2, <2>3
<1>8. Promise!Receive(l, m, q, d)
  BY <1>5, <1>6, <1>7 DEF Promise!Receive
<1> QED BY <1>4, <1>8 DEF Promise!Next

LEMMA CountStep ==
    ASSUME TypeInv, TypeInv', LedgerInv, LedgerInv', NEW p \in Procs, CommitTx(p), Counts(p)
    PROVE  Promise!Next
<1> USE DEF TypeInv, TypeOK
<1>1. PICK l \in Lots : /\ OnlyWrote(p, l) /\ lots[l] # NoRow /\ SameLot(p, l)
                        /\ wl[p][l].qty \in {q \in Quantities : q >= 0} \cup {0}
  BY DEF Counts
<1>2. /\ lots'[l] = wl[p][l] /\ \A k \in Lots \ {l} : lots'[k] = lots[k]
  BY <1>1 DEF CommitTx, SeenLot, OnlyWrote
<1>3. wl[p][l] # NoRow /\ wl[p][l].mat = lots[l].mat /\ wl[p][l].due = lots[l].due
  BY <1>1 DEF OnlyWrote, SameLot
<1> DEFINE q == wl[p][l].qty
<1>4. q \in Int /\ lots[l].qty \in Int
  <2>1. q \in Int
    <3>1. q \in Quantities \/ q = 0  BY <1>1
    <3>2. Quantities \subseteq Int /\ 0 \in Int  OBVIOUS
    <3> HIDE DEF q
    <3> QED BY <3>1, <3>2, Zenon
  <2>2. lots[l] \in Row  BY <1>1
  <2> QED BY <2>1, <2>2 DEF Row
<1>5. l \in Promise!Present
  BY <1>1, StockRows DEF Promise!Present
<1>6. Stock' = [Stock EXCEPT ![l].qty = q]
  <2>1. Stock'[l] = [Stock[l] EXCEPT !.qty = q]
    <3>1. Stock[l] = [mat |-> lots[l].mat, qty |-> lots[l].qty, due |-> lots[l].due]
      BY <1>1, StockRows
    <3>2. Stock'[l] = [mat |-> lots[l].mat, qty |-> q, due |-> lots[l].due]
      BY <1>2, <1>3 DEF Stock
    <3> HIDE DEF q
    <3> DEFINE row == Stock[l]
    <3>3. row = [mat |-> lots[l].mat, qty |-> lots[l].qty, due |-> lots[l].due]
      BY <3>1
    <3> HIDE DEF row
    <3>4. [row EXCEPT !.qty = q] = [mat |-> lots[l].mat, qty |-> q, due |-> lots[l].due]
      BY <3>3, StockCounted
    <3> QED BY <3>2, <3>4 DEF row
  <2>2. \A k \in Lots \ {l} : Stock'[k] = Stock[k]
    BY <1>2 DEF Stock
  <2>3. DOMAIN Stock' = Lots /\ DOMAIN Stock = Lots
    BY DEF Stock
  <2>4. Stock' = [k \in Lots |-> Stock'[k]] /\ Stock = [k \in Lots |-> Stock[k]]
    BY DEF Stock
  <2> QED BY <2>1, <2>2, <2>3, <2>4
<1>7. ledger' = [ledger EXCEPT ![l] = ledger[l] + q - Stock[l].qty]
  <2>1. \A k \in Lots : ledger[k] = Qty(lots[k]) /\ ledger'[k] = Qty(lots'[k])
    BY LedgerFollows DEF LedgerInv
  <2>2. ledger'[l] = q /\ ledger[l] = lots[l].qty /\ Stock[l].qty = lots[l].qty
    BY <1>1, <1>2, <1>3, <2>1, StockRows DEF Qty
  <2>3. ledger'[l] = ledger[l] + q - Stock[l].qty
    BY <1>4, <2>2
  <2>4. \A k \in Lots \ {l} : ledger'[k] = ledger[k]
    BY <1>2, <2>1
  <2> QED BY <2>3, <2>4
<1>8. Promise!Count(l, q)
  BY <1>5, <1>6, <1>7 DEF Promise!Count
<1> QED BY <1>1, <1>8 DEF Promise!Next

(* What a consumption has taken, against the table it commits to.          *)
LEMMA DrawnQuantities ==
    ASSUME TypeInv, LedgerInv, ExactInv, NEW p \in Procs, pc[p] = "commit", Draws(p),
           NEW l \in Lots
    PROVE  /\ taken[p][l] \in Int /\ taken[p][l] >= 0
           /\ wl[p][l] = NoRow => taken[p][l] = 0
           /\ wl[p][l] # NoRow =>
                 /\ Wanted(p, l) /\ SameLot(p, l) /\ lots[l].qty \in Int
                 /\ wl[p][l].qty = lots[l].qty - taken[p][l] /\ wl[p][l].qty >= 0
                 /\ wl[p][l].qty \in Int
<1> USE DEF TypeInv, TypeOK
<1>1. /\ taken[p][l] \in Int /\ wd[p][l] \in Int /\ ledger[l] \in Int
  OBVIOUS
<1>2. /\ taken[p][l] >= 0 /\ wd[p][l] = -taken[p][l]
      /\ wl[p][l] # NoRow => wl[p][l].qty >= 0
      /\ taken[p][l] > 0 => wl[p][l] # NoRow
  <2>1. TakenTx(p)
    BY DEF ExactInv, ExactTx, Draws
  <2> QED BY <2>1 DEF TakenTx
<1>3. ASSUME wl[p][l] # NoRow
      PROVE  /\ Wanted(p, l) /\ SameLot(p, l) /\ lots[l].qty \in Int
             /\ wl[p][l].qty = lots[l].qty - taken[p][l] /\ wl[p][l].qty \in Int
  <2>1. Wanted(p, l) /\ SameLot(p, l)
    BY <1>3 DEF Draws
  <2>2. lots[l] \in Row /\ wl[p][l] \in Row
    BY <1>3, <2>1 DEF Wanted
  <2>3. lots[l].qty \in Int /\ wl[p][l].qty \in Int
    BY <2>2 DEF Row
  <2>4. Qty(SeenLot(p, l)) = ledger[l] + wd[p][l] + Pending(p, l)
    BY DEF LedgerInv, SoundTx
  <2>5. Pending(p, l) = 0 /\ Qty(SeenLot(p, l)) = wl[p][l].qty
    BY <1>3 DEF Pending, SeenLot, Qty
  <2>6. ledger[l] = lots[l].qty
    BY <2>1 DEF LedgerInv, LedgerBalanced, Wanted
  <2> QED BY <1>1, <1>2, <2>1, <2>3, <2>4, <2>5, <2>6
<1> QED BY <1>1, <1>2, <1>3

LEMMA DrawStep ==
    ASSUME TypeInv, TypeInv', LedgerInv, LedgerInv', ExactInv,
           NEW p \in Procs, CommitTx(p), Draws(p), BookTx(p), ~Untouched(p)
    PROVE  Promise!Next
<1> USE DEF TypeInv, TypeOK
<1> DEFINE m == req[p].mat
           q == req[p].qty
           take == taken[p]
           Of(l) == IF l \in Promise!Present /\ Stock[l].mat = m /\ Stock[l].qty > 0
                    THEN Stock[l].qty ELSE 0
<1>1. pc[p] = "commit" /\ Consumes(p) /\ q > 0 /\ q \in Quantities /\ q \in Int
  BY DEF CommitTx, Draws, BookTx
<1>2. \A l \in Lots : lots'[l] = IF wl[p][l] # NoRow THEN wl[p][l] ELSE lots[l]
  BY DEF CommitTx, SeenLot
<1>3. \A l \in Lots : Wanted(p, l) <=> (l \in Promise!Present /\ Stock[l].mat = m /\ Stock[l].qty > 0)
  BY StockRows DEF Wanted, Promise!Present
<1>4. SumFunction(take) = q
  <2>1. TakenTx(p)
    BY <1>1 DEF ExactInv, ExactTx
  <2> QED BY <1>1, <2>1 DEF TakenTx
<1>5. take \in [Lots -> 0..q]
  <2>1. take \in [Lots -> Int] /\ \A l \in Lots : take[l] >= 0
    BY <1>1, DrawnQuantities
  <2>2. \A l \in Lots : take[l] <= SumFunction(take)
    <3> HIDE DEF take
    <3> QED BY <2>1, LotSumCovers
  <2> QED BY <1>1, <1>4, <2>1, <2>2
<1>6. \A l \in Lots : take[l] <= Of(l)
  <2> SUFFICES ASSUME NEW l \in Lots PROVE taken[p][l] <= Of(l)
    OBVIOUS
  <2>1. CASE wl[p][l] = NoRow
    <3>1. taken[p][l] = 0
      BY <1>1, <2>1, DrawnQuantities
    <3>2. CASE Wanted(p, l)
      <4>1. Of(l) = lots[l].qty /\ lots[l].qty > 0
        BY <1>3, <3>2, StockRows DEF Wanted
      <4>2. lots[l].qty \in Int
        BY <3>2, StockRows DEF Wanted
      <4> QED BY <3>1, <4>1, <4>2
    <3>3. CASE ~Wanted(p, l)
      <4>1. Of(l) = 0
        BY <1>3, <3>3
      <4> QED BY <3>1, <4>1
    <3> QED BY <3>2, <3>3
  <2>2. CASE wl[p][l] # NoRow
    <3>1. Wanted(p, l) /\ taken[p][l] <= lots[l].qty
      <4>1. /\ Wanted(p, l) /\ lots[l].qty \in Int /\ taken[p][l] \in Int
            /\ wl[p][l].qty = lots[l].qty - taken[p][l] /\ wl[p][l].qty >= 0
        BY <1>1, <2>2, DrawnQuantities
      <4> QED BY <4>1
    <3>2. Of(l) = lots[l].qty
      BY <1>3, <3>1, StockRows DEF Wanted
    <3> QED BY <3>1, <3>2
  <2> QED BY <2>1, <2>2
<1>7. Promise!EarliestFirst(m, take)
  <2> SUFFICES ASSUME NEW a \in Lots, NEW b \in Lots, Wanted(p, a), Wanted(p, b),
                      Before(a, lots[a], b, lots[b]), taken[p][b] > 0
               PROVE  taken[p][a] = lots[a].qty
    <3>1. \A a, b \in Lots : Wanted(p, a) /\ Wanted(p, b) =>
             (Promise!Earlier(a, b) <=> Before(a, lots[a], b, lots[b]))
      BY StockRows DEF Promise!Earlier, Before, Wanted
    <3>2. \A a \in Lots : Wanted(p, a) => Stock[a].qty = lots[a].qty
      BY StockRows DEF Wanted
    <3> QED BY <1>3, <3>1, <3>2 DEF Promise!EarliestFirst, Promise!Present
  <2>1. wl[p][b] # NoRow
    BY <1>1, DrawnQuantities
  <2>2. wl[p][a] # NoRow /\ wl[p][a].qty = 0
    BY <2>1 DEF Draws, EmptiedFirst
  <2>3. /\ taken[p][a] \in Int /\ lots[a].qty \in Int
        /\ wl[p][a].qty = lots[a].qty - taken[p][a]
    BY <1>1, <2>2, DrawnQuantities
  <2> DEFINE x == lots[a].qty
             y == taken[p][a]
  <2>4. x \in Int /\ y \in Int /\ 0 = x - y
    BY <2>2, <2>3
  <2> HIDE DEF x, y
  <2>5. y = x
    BY <2>4
  <2> QED BY <2>5 DEF x, y
<1>8. Promise!Withdraw(take)
  <2>1. ASSUME NEW l \in Lots
        PROVE  /\ Stock'[l] = IF l \in Promise!Present
                              THEN [Stock[l] EXCEPT !.qty = Stock[l].qty - taken[p][l]] ELSE Absent
               /\ ledger'[l] = ledger[l] - taken[p][l]
    <3>1. ledger[l] = Qty(lots[l]) /\ ledger'[l] = Qty(lots'[l]) /\ ledger[l] \in Int
      BY LedgerFollows DEF LedgerInv
    <3>2. CASE wl[p][l] = NoRow
      <4>1. taken[p][l] = 0 /\ lots'[l] = lots[l]
        BY <1>1, <1>2, <3>2, DrawnQuantities
      <4>2. Stock'[l] = Stock[l]
        BY <4>1 DEF Stock
      <4>3. CASE lots[l] = NoRow
        <5>1. l \notin Promise!Present /\ Stock'[l] = Absent
          BY <4>2, <4>3, StockRows DEF Promise!Present
        <5>2. ledger'[l] = ledger[l] - taken[p][l]
          BY <3>1, <4>1
        <5> QED BY <5>1, <5>2
      <4>4. CASE lots[l] # NoRow
        <5>1. Stock[l].qty \in Int /\ l \in Promise!Present
          BY <4>4, StockRows DEF Promise!Present
        <5>2. [Stock[l] EXCEPT !.qty = Stock[l].qty - taken[p][l]] = Stock[l]
          <6>1. Stock[l].qty - taken[p][l] = Stock[l].qty
            BY <4>1, <5>1
          <6>2. Stock[l] = [mat |-> lots[l].mat, qty |-> lots[l].qty, due |-> lots[l].due]
            BY <4>4, StockRows
          <6> QED BY <6>1, <6>2
        <5> QED BY <3>1, <4>1, <4>2, <5>1, <5>2
      <4> QED BY <4>3, <4>4
    <3>3. CASE wl[p][l] # NoRow
      <4>1. /\ lots[l] # NoRow /\ lots'[l] = wl[p][l] /\ lots[l].qty \in Int
            /\ wl[p][l].mat = lots[l].mat /\ wl[p][l].due = lots[l].due
            /\ wl[p][l].qty = lots[l].qty - taken[p][l]
        BY <1>1, <1>2, <3>3, DrawnQuantities DEF Wanted, SameLot
      <4>2. l \in Promise!Present /\ Stock[l].qty = lots[l].qty
        BY <4>1, StockRows DEF Promise!Present
      <4>3. Stock'[l] = [Stock[l] EXCEPT !.qty = Stock[l].qty - taken[p][l]]
        <5>1. Stock[l] = [mat |-> lots[l].mat, qty |-> lots[l].qty, due |-> lots[l].due]
          BY <4>1, StockRows
        <5>2. Stock'[l] = [mat |-> lots[l].mat, qty |-> lots[l].qty - taken[p][l], due |-> lots[l].due]
          BY <3>3, <4>1 DEF Stock
        <5> DEFINE row == Stock[l]
                   left == lots[l].qty - taken[p][l]
        <5>3. row = [mat |-> lots[l].mat, qty |-> lots[l].qty, due |-> lots[l].due]
          BY <5>1
        <5>4. Stock'[l] = [mat |-> lots[l].mat, qty |-> left, due |-> lots[l].due]
          BY <5>2
        <5> HIDE DEF row, left
        <5>5. [row EXCEPT !.qty = left] = [mat |-> lots[l].mat, qty |-> left, due |-> lots[l].due]
          BY <5>3, StockCounted
        <5>6. [row EXCEPT !.qty = left] = [row EXCEPT !.qty = Stock[l].qty - taken[p][l]]
          BY <4>2 DEF left
        <5> QED BY <5>4, <5>5, <5>6 DEF row
      <4>4. ledger'[l] = ledger[l] - taken[p][l]
        BY <3>1, <3>3, <4>1 DEF Qty
      <4> QED BY <4>2, <4>3, <4>4
    <3> QED BY <3>2, <3>3
  <2>2. /\ Stock' = [l \in Lots |-> Stock'[l]]
        /\ ledger' = [l \in Lots |-> ledger'[l]]
    BY DEF Stock
  <2> QED BY <2>1, <2>2 DEF Promise!Withdraw
<1> HIDE DEF m, q, take
<1>9. Promise!Consume(m, q)
  BY <1>4, <1>5, <1>6, <1>7, <1>8, PromiseSum DEF Promise!Consume
<1>10. m \in MatIds
  <2>1. PICK l \in Lots : wl[p][l] # NoRow
    BY DEF Untouched
  <2>2. Wanted(p, l)
    BY <2>1 DEF Draws
  <2> QED BY <2>2, StockRows DEF Wanted, m
<1> QED BY <1>1, <1>9, <1>10 DEF Promise!Next

LEMMA CommitStep ==
    ASSUME TypeInv, TypeInv', LedgerInv, LedgerInv', ExactInv, BookInv,
           NEW p \in Procs, CommitTx(p)
    PROVE  Promise!Next \/ UNCHANGED <<Stock, ledger>>
<1>1. BookTx(p) /\ pc[p] = "commit"
  BY DEF BookInv, CommitTx
<1>2. CASE Untouched(p)
  <2>1. \A l \in Lots : lots'[l] = lots[l]
    BY <1>2 DEF CommitTx, SeenLot, Untouched
  <2>2. \A l \in Lots : ledger'[l] = ledger[l]
    BY <2>1, LedgerFollows DEF LedgerInv
  <2>3. Stock' = Stock
    BY <2>1 DEF Stock
  <2>4. ledger' = ledger
    BY <2>2 DEF TypeInv, TypeOK
  <2> QED BY <2>3, <2>4
<1>3. CASE ~Untouched(p)
  <2>1. Receives(p) \/ Counts(p) \/ Draws(p)
    BY <1>1 DEF BookTx
  <2> QED BY <1>1, <1>3, <2>1, ReceiveStep, CountStep, DrawStep
<1> QED BY <1>2, <1>3

(* On SQLite, as long as nobody edits a lot, the service implements the    *)
(* abstract ledger: a commit is one of its steps, everything else leaves   *)
(* the stock and the ledger alone.                                         *)
THEOREM LedgerImplemented == ASSUME Serialised PROVE Spec => ImplementsLedger
<1> DEFINE Inv == TypeInv /\ LedgerInv /\ ExactInv /\ BookInv
<1>1. Init => Inv
  <2>1. Init => ExactInv
    BY DEF Init, EmptyTables, AllIdle, ExactInv, ExactTx, Consumes, NoReq, NoRows, Zeros
  <2>2. Init => BookInv
    BY DEF Init, EmptyTables, AllIdle, BookInv, BookTx, Consumes, Inbounds, NoReq
  <2> QED BY <2>1, <2>2, InitTyped, InitSound
<1>2. Inv /\ [Next]_vars => Inv' /\ [Promise!Next]_<<Stock, ledger>>
  <2> SUFFICES ASSUME Inv, [Next]_vars
               PROVE  Inv' /\ (Promise!Next \/ UNCHANGED <<Stock, ledger>>)
    OBVIOUS
  <2>1. CASE UNCHANGED vars
    <3>1. TypeInv' /\ LedgerInv'
      BY <2>1, StutterTyped, StutterSound
    <3>2. ExactInv'
      BY <2>1 DEF vars, ExactInv, ExactTx, TakenTx, Consumes, Due
    <3>3. ASSUME NEW q \in Procs PROVE BookTx(q)'
      BY <2>1, OtherBook DEF vars, BookInv
    <3>4. UNCHANGED <<Stock, ledger>>
      BY <2>1 DEF vars, Stock
    <3> QED BY <3>1, <3>2, <3>3, <3>4 DEF BookInv
  <2>2. ASSUME NEW p \in Procs, Accept(p) \/ Step(p) \/ StatementFails(p)
        PROVE  Inv' /\ (Promise!Next \/ UNCHANGED <<Stock, ledger>>)
    <3>1. TypeInv'
      BY <2>2, StepTyped
    <3>2. LedgerInv' /\ ExactInv'
      BY <2>2, <3>1, StepSound, StepExact
    <3>3. BookInv' /\ (UNCHANGED <<lots, ledger>> \/ CommitTx(p))
      BY <2>2, <3>1, <3>2, StepBook
    <3>4. UNCHANGED <<lots, ledger>> => UNCHANGED <<Stock, ledger>>
      BY DEF Stock
    <3>5. CommitTx(p) => Promise!Next \/ UNCHANGED <<Stock, ledger>>
      BY <3>1, <3>2, CommitStep
    <3> QED BY <3>1, <3>2, <3>3, <3>4, <3>5
  <2> QED BY <2>1, <2>2 DEF Next, Served
<1>3. Init => Promise!Init
  BY DEF Init, EmptyTables, Promise!Init, Stock, NoRows, Zeros
<1> HIDE DEF Inv
<1> QED BY <1>1, <1>2, <1>3, PTL DEF Spec, ImplementsLedger, Promise!Spec
=============================================================================
