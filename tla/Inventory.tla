------------------------------ MODULE Inventory ------------------------------
(***************************************************************************)
(* InventoryService (internal/service/inventory_service.go) over the       *)
(* materials, stock_lots and stock_movements tables, one action per        *)
(* database statement.  A goroutine of the HTTP server (a member of Procs) *)
(* serves one request at a time; Inbound, Consume, Adjust and VoidLot run  *)
(* in one transaction, UpdateLot runs outside any.                         *)
(*                                                                         *)
(* Abstractions.  Lots are numbered in the order of created_at.  due is    *)
(* the rank of (expire_at, purchased_at) with NULLs last.  ledger[l] is    *)
(* the sum of quantity_delta over the committed movements of lot l.        *)
(* Quantities are integers.  One tenant.                                   *)
(***************************************************************************)
EXTENDS Integers, FiniteSets, FiniteSetsExt

CONSTANTS
    Procs,        \* request goroutines
    MatIds,       \* rows the materials table has room for
    Names,        \* natural keys (name, spec) a client may send
    MaxLots,      \* bound: rows the stock_lots table has room for
    Quantities,   \* quantities and targets a client may send
    Dues,         \* ranks of (expire_at, purchased_at)
    Ops,          \* operations the clients use
    Driver,       \* database driver of the configuration
    MaxRequests,  \* bound: requests served in a behaviour
    NoRow, NoName, NoId

OpNames == {"inbound", "batch_inbound", "consume", "batch_consume",
            "adjust", "void", "update"}

Lots == 1..MaxLots

Row == [mat : MatIds, qty : Int, status : {"active", "depleted", "void"},
        due : Dues]

ASSUME InventoryAssumption ==
    /\ MaxLots \in Nat /\ MaxRequests \in Nat
    /\ Quantities \subseteq Int
    /\ Dues \subseteq Nat
    /\ Ops \subseteq OpNames
    /\ Driver \in {"sqlite", "postgres"}
    /\ NoRow \notin Row
    /\ NoName \notin Names
    /\ NoId \notin MatIds

VARIABLES
    mats,     \* committed materials: id -> natural key
    lots,     \* committed stock_lots: lot -> row
    ledger,   \* committed stock_movements: lot -> sum of quantity_delta
    pc,       \* the statement each goroutine is about to send
    req,      \* the request each goroutine serves
    mem,      \* lot rows a service method holds in memory
    rest,     \* Consume's remaining
    taken,    \* Consume's results: quantity taken from each lot
    pend,     \* movement to insert for the lot row just written
    wm,       \* uncommitted writes of each transaction: materials,
    wl,       \*   lot rows,
    wd,       \*   and movements, as a sum for each lot
    budget    \* requests the clients may still send

db     == <<mats, lots, ledger>>
local  == <<mem, rest, taken, pend>>
writes == <<wm, wl, wd>>
vars   == <<mats, lots, ledger, pc, req, mem, rest, taken, pend, wm, wl, wd, budget>>

-----------------------------------------------------------------------------
(* Requests that pass the handlers' checks.  The batch handlers check no   *)
(* quantity.                                                               *)

Form(ops, ms, ns, ls, qs, ds) ==
    [op : ops \cap Ops, mat : ms, name : ns, lot : ls, qty : qs, due : ds]

Positive == {q \in Quantities : q > 0}
NonNegative == {q \in Quantities : q >= 0}

\* By the id of a material, or by the natural key of one.
InboundForms(op, qs) == Form({op}, MatIds, {NoName}, {0}, qs, Dues)
                   \cup Form({op}, {NoId}, Names, {0}, qs, Dues)

InboundRequests == InboundForms("inbound", Positive)

ConsumeRequests == Form({"consume"}, MatIds, {NoName}, {0}, Positive, {0})

\* Each item of a batch is a request of its own: none depends on another.
BatchRequests ==
         InboundForms("batch_inbound", Quantities)
    \cup Form({"batch_consume"}, MatIds, {NoName}, {0}, Quantities, {0})

LotRequests ==
         Form({"adjust"}, {NoId}, {NoName}, Lots, NonNegative, {0})
    \cup Form({"void"}, {NoId}, {NoName}, Lots, {0}, {0})

UpdateRequests == Form({"update"}, {NoId}, {NoName}, Lots, {0}, Dues)

Requests == InboundRequests \cup ConsumeRequests \cup BatchRequests
            \cup LotRequests \cup UpdateRequests

NoReq == [op |-> "none", mat |-> NoId, name |-> NoName, lot |-> 0, qty |-> 0, due |-> 0]
NoMove == [lot |-> 0, delta |-> 0]

-----------------------------------------------------------------------------
(* The database, external to the service: a transaction reads committed    *)
(* rows overlaid with its own writes.  SQLite (rollback journal) has one   *)
(* writer and lets it commit only when no other transaction still reads.   *)
(* PostgreSQL at READ COMMITTED locks the rows a transaction has written.  *)

TxPoints == {"newmat", "insert", "list", "take", "write", "log", "audit",
             "commit", "aborted"}
InTx(p) == pc[p] \in TxPoints
OpensTx(p) == pc[p] \in {"resolve", "read"}

SeenLot(p, l) == IF wl[p][l] # NoRow THEN wl[p][l] ELSE lots[l]
SeenMat(p, m) == IF wm[p][m] # NoName THEN wm[p][m] ELSE mats[m]

Wrote(p) == \/ \E l \in Lots : wl[p][l] # NoRow
            \/ \E m \in MatIds : wm[p][m] # NoName

Others(p) == Procs \ {p}

MayInsert(p) == Driver = "sqlite" => \A q \in Others(p) : ~Wrote(q)
MayWrite(p, l) ==
    \A q \in Others(p) : IF Driver = "sqlite" THEN ~Wrote(q) ELSE wl[q][l] = NoRow
MayCommit(p) ==
    Driver = "sqlite" /\ Wrote(p) => \A q \in Others(p) : ~InTx(q)

FreeMats == {m \in MatIds : /\ mats[m] = NoName
                            /\ \A q \in Procs : wm[q][m] = NoName}
UsedLots == {l \in Lots : lots[l] # NoRow \/ \E q \in Procs : wl[q][l] # NoRow}
\* The next lot is created after every row there is.
FreshLots == {l \in Lots : UsedLots \subseteq 1..(l - 1) /\ (l = 1 \/ l - 1 \in UsedLots)}

-----------------------------------------------------------------------------
(* What a statement does, and how a request ends.                          *)

NoRows == [l \in Lots |-> NoRow]
Zeros == [l \in Lots |-> 0]

Goto(p, point) == pc' = [pc EXCEPT ![p] = point]

Done(p) ==
    /\ Goto(p, "idle")
    /\ req' = [req EXCEPT ![p] = NoReq]
    /\ mem' = [mem EXCEPT ![p] = NoRows]
    /\ rest' = [rest EXCEPT ![p] = 0]
    /\ taken' = [taken EXCEPT ![p] = Zeros]
    /\ pend' = [pend EXCEPT ![p] = NoMove]
    /\ wm' = [wm EXCEPT ![p] = [m \in MatIds |-> NoName]]
    /\ wl' = [wl EXCEPT ![p] = NoRows]
    /\ wd' = [wd EXCEPT ![p] = Zeros]

Rollback(p) == Done(p) /\ UNCHANGED <<mats, lots, ledger, budget>>

\* Mutants: the status is stored as the service set it, or left blank.
StoredAsGiven(row) == row
StoredBlank(row) == IF row.qty <= 0 THEN [row EXCEPT !.status = ""] ELSE row

\* What StockLotRepository.Create and Update make of a row before it is stored.
Stored(row) == IF row.qty <= 0 THEN [row EXCEPT !.status = "depleted"] ELSE row

\* Mutant: oldest lot first, whatever it expires.
BeforeByAge(a, ra, b, rb) == a < b

\* ListConsumableByMaterial's ORDER BY.
Before(a, ra, b, rb) == \/ ra.due < rb.due
                        \/ ra.due = rb.due /\ a < b

\* The lots in memory, and the one the FEFO order puts first.
Held(rows) == {l \in Lots : rows[l] # NoRow}
IsFirst(rows, l) == /\ l \in Held(rows)
                    /\ \A k \in Held(rows) \ {l} : Before(l, rows[l], k, rows[k])

\* Mutant: the lot's quantity does not cap what is taken from it.
LeastUncapped(a, b) == b

Least(a, b) == IF a < b THEN a ELSE b

\* Mutants: the loop stops one unit early, or does not stop.
LoopStopsEarly(remaining, rows) ==
    IF remaining > 1 /\ Held(rows) # {} THEN "take" ELSE "audit"
LoopForever(remaining, rows) == "take"

LoopPoint(remaining, rows) ==
    IF remaining > 0 /\ Held(rows) # {} THEN "take" ELSE "audit"

-----------------------------------------------------------------------------
Accept(p) ==
    /\ pc[p] = "idle" /\ budget > 0
    /\ \E r \in Requests :
         /\ req' = [req EXCEPT ![p] = r]
         /\ Goto(p, IF r \in UpdateRequests THEN "get"
                    ELSE IF r \in LotRequests THEN "read" ELSE "resolve")
    /\ budget' = budget - 1
    /\ UNCHANGED <<db, local, writes>>

(* Inbound *)

Inbounds(p) == req[p].op \in {"inbound", "batch_inbound"}
Consumes(p) == req[p].op \in {"consume", "batch_consume"}

Matches(p, m) == IF req[p].mat # NoId THEN m = req[p].mat /\ SeenMat(p, m) # NoName
                                      ELSE SeenMat(p, m) = req[p].name

InboundFindMaterial(p) ==
    /\ pc[p] = "resolve" /\ Inbounds(p)
    /\ \E m \in MatIds : Matches(p, m) /\ req' = [req EXCEPT ![p].mat = m]
    /\ Goto(p, "insert")
    /\ UNCHANGED <<db, local, writes, budget>>

\* Mutant: every inbound by name makes a material of its own.
InboundNameNotSought(p) ==
    /\ pc[p] = "resolve" /\ Inbounds(p) /\ req[p].mat = NoId
    /\ Goto(p, "newmat")
    /\ UNCHANGED <<db, local, writes, req, budget>>

InboundUnknownName(p) ==
    /\ pc[p] = "resolve" /\ Inbounds(p) /\ req[p].mat = NoId
    /\ \A m \in MatIds : ~Matches(p, m)
    /\ Goto(p, "newmat")
    /\ UNCHANGED <<db, local, writes, req, budget>>

MaterialNotFound(p) ==
    /\ pc[p] = "resolve" /\ req[p].mat # NoId
    /\ SeenMat(p, req[p].mat) = NoName
    /\ Rollback(p)

InboundCreateMaterial(p) ==
    /\ pc[p] = "newmat" /\ MayInsert(p)
    /\ \E m \in FreeMats :
         /\ wm' = [wm EXCEPT ![p][m] = req[p].name]
         /\ req' = [req EXCEPT ![p].mat = m]
    /\ Goto(p, "insert")
    /\ UNCHANGED <<db, local, wl, wd, budget>>

InboundCreateLot(p) ==
    /\ pc[p] = "insert" /\ MayInsert(p)
    /\ \E l \in FreshLots :
         /\ wl' = [wl EXCEPT ![p][l] = Stored([mat |-> req[p].mat, qty |-> req[p].qty,
                                               status |-> "active", due |-> req[p].due])]
         /\ pend' = [pend EXCEPT ![p] = [lot |-> l, delta |-> req[p].qty]]
    /\ Goto(p, "log")
    /\ UNCHANGED <<db, req, mem, rest, taken, wm, wd, budget>>

(* Consume *)

Consumable(p) ==
    [l \in Lots |-> IF SeenLot(p, l) # NoRow
                       /\ SeenLot(p, l).mat = req[p].mat /\ SeenLot(p, l).qty > 0
                    THEN SeenLot(p, l) ELSE NoRow]

QtyOf(rows) == SumFunction([l \in Held(rows) |-> rows[l].qty])

ConsumeFindMaterial(p) ==
    /\ pc[p] = "resolve" /\ Consumes(p)
    /\ SeenMat(p, req[p].mat) # NoName
    /\ Goto(p, "list")
    /\ UNCHANGED <<db, local, writes, req, budget>>

ConsumeListLots(p) ==
    /\ pc[p] = "list"
    /\ QtyOf(Consumable(p)) >= req[p].qty
    /\ mem' = [mem EXCEPT ![p] = Consumable(p)]
    /\ rest' = [rest EXCEPT ![p] = req[p].qty]
    /\ Goto(p, LoopPoint(req[p].qty, Consumable(p)))
    /\ UNCHANGED <<db, writes, req, taken, pend, budget>>

ConsumeInsufficient(p) ==
    /\ pc[p] = "list"
    /\ QtyOf(Consumable(p)) < req[p].qty
    /\ Rollback(p)

ConsumeTake(p) ==
    /\ pc[p] = "take"
    /\ \E l \in Lots :
         LET row  == mem[p][l]
             take == Least(row.qty, rest[p])
             left == row.qty - take
         IN  /\ IsFirst(mem[p], l) /\ MayWrite(p, l)
             /\ wl' = [wl EXCEPT ![p][l] =
                   Stored([row EXCEPT !.qty = left, !.status = "active"])]
             /\ mem' = [mem EXCEPT ![p][l] = NoRow]
             /\ pend' = [pend EXCEPT ![p] = [lot |-> l, delta |-> -take]]
    /\ Goto(p, "log")
    /\ UNCHANGED <<db, req, rest, taken, wm, wd, budget>>

(* Adjust and VoidLot *)

ReadLot(p) ==
    /\ pc[p] = "read"
    /\ SeenLot(p, req[p].lot) # NoRow
    /\ mem' = [mem EXCEPT ![p][req[p].lot] = SeenLot(p, req[p].lot)]
    /\ Goto(p, "write")
    /\ UNCHANGED <<db, writes, req, rest, taken, pend, budget>>

LotNotFound(p) ==
    /\ \/ pc[p] = "read" /\ SeenLot(p, req[p].lot) = NoRow
       \/ pc[p] = "get" /\ lots[req[p].lot] = NoRow
    /\ Rollback(p)

\* Mutant: the row changes and no movement says so.
WriteLotUnlogged(p, target, status) ==
    LET l == req[p].lot
    IN  /\ pc[p] = "write" /\ MayWrite(p, l)
        /\ wl' = [wl EXCEPT ![p][l] =
              Stored([mem[p][l] EXCEPT !.qty = target, !.status = status])]
        /\ mem' = [mem EXCEPT ![p][l] = NoRow]
        /\ Goto(p, "audit")
        /\ UNCHANGED <<db, req, rest, taken, pend, wm, wd, budget>>

WriteLot(p, target, status) ==
    LET l     == req[p].lot
        delta == target - mem[p][l].qty
    IN  /\ pc[p] = "write" /\ MayWrite(p, l)
        /\ wl' = [wl EXCEPT ![p][l] =
              Stored([mem[p][l] EXCEPT !.qty = target, !.status = status])]
        /\ mem' = [mem EXCEPT ![p][l] = NoRow]
        /\ pend' = [pend EXCEPT ![p] = [lot |-> l, delta |-> delta]]
        /\ Goto(p, IF delta # 0 THEN "log" ELSE "audit")
        /\ UNCHANGED <<db, req, rest, taken, wm, wd, budget>>

AdjustWrite(p) ==
    /\ req[p].op = "adjust"
    /\ WriteLot(p, req[p].qty, IF req[p].qty = 0 THEN "depleted" ELSE "active")

VoidWrite(p) == req[p].op = "void" /\ WriteLot(p, 0, "void")

(* The end of every transaction: movement, audit record, commit *)

CreateMovement(p) ==
    LET l == pend[p].lot
        d == pend[p].delta
    IN  /\ pc[p] = "log"
        /\ wd' = [wd EXCEPT ![p][l] = @ + d]
        /\ pend' = [pend EXCEPT ![p] = NoMove]
        /\ IF Consumes(p)
           THEN /\ taken' = [taken EXCEPT ![p][l] = @ - d]
                /\ rest' = [rest EXCEPT ![p] = @ + d]
                /\ Goto(p, LoopPoint(rest[p] + d, mem[p]))
           ELSE Goto(p, "audit") /\ UNCHANGED <<rest, taken>>
        /\ UNCHANGED <<db, req, mem, wm, wl, budget>>

CreateAudit(p) ==
    /\ pc[p] = "audit"
    /\ Goto(p, "commit")
    /\ UNCHANGED <<db, local, writes, req, budget>>

\* The service ignores the error; PostgreSQL has aborted the transaction.
AuditFails(p) ==
    /\ pc[p] = "audit"
    /\ Goto(p, IF Driver = "postgres" THEN "aborted" ELSE "commit")
    /\ UNCHANGED <<db, local, writes, req, budget>>

CommitTx(p) ==
    /\ pc[p] = "commit" /\ MayCommit(p)
    /\ mats' = [m \in MatIds |-> SeenMat(p, m)]
    /\ lots' = [l \in Lots |-> SeenLot(p, l)]
    /\ ledger' = [l \in Lots |-> ledger[l] + wd[p][l]]
    /\ Done(p)
    /\ UNCHANGED budget

CommitRefused(p) == pc[p] = "aborted" /\ Rollback(p)

(* UpdateLot: three statements, each committed on its own *)

UpdateGet(p) ==
    /\ pc[p] = "get"
    /\ lots[req[p].lot] # NoRow
    /\ mem' = [mem EXCEPT ![p][req[p].lot] = lots[req[p].lot]]
    /\ Goto(p, "save")
    /\ UNCHANGED <<db, writes, req, rest, taken, pend, budget>>

MaySave(p, l) == /\ MayWrite(p, l)
                 /\ Driver = "sqlite" => \A q \in Others(p) : ~InTx(q)

UpdateSave(p) ==
    LET l == req[p].lot
    IN  /\ pc[p] = "save" /\ MaySave(p, l)
        /\ lots' = [lots EXCEPT ![l] = Stored([mem[p][l] EXCEPT !.due = req[p].due])]
        /\ Goto(p, "reply")
        /\ UNCHANGED <<mats, ledger, local, writes, req, budget>>

UpdateReply(p) == pc[p] = "reply" /\ Done(p) /\ UNCHANGED <<db, budget>>

(* Failures *)

\* A statement may fail, the client may go away, the process may stop.
StatementFails(p) == pc[p] # "idle" /\ Rollback(p)

Blocked(p) ==
    \/ pc[p] \in {"newmat", "insert"} /\ ~MayInsert(p)
    \/ pc[p] = "take" /\ \E l \in Lots : IsFirst(mem[p], l) /\ ~MayWrite(p, l)
    \/ pc[p] = "write" /\ ~MayWrite(p, req[p].lot)
    \/ pc[p] = "save" /\ ~MaySave(p, req[p].lot)
    \/ pc[p] = "commit" /\ ~MayCommit(p)

\* SQLITE_BUSY
Busy(p) == Driver = "sqlite" /\ Blocked(p) /\ Rollback(p)

WaitsFor(p, q) ==
    \E l \in Lots :
       /\ wl[q][l] # NoRow
       /\ \/ pc[p] = "take" /\ IsFirst(mem[p], l)
          \/ pc[p] \in {"write", "save"} /\ req[p].lot = l

\* PostgreSQL ends one transaction of a cycle of waiting ones.
DeadlockDetected(p) ==
    /\ Driver = "postgres"
    /\ \E S \in SUBSET Procs :
         /\ p \in S /\ Cardinality(S) > 1
         /\ \A x \in S : (\E y \in S \ {x} : WaitsFor(x, y)) /\ (\E y \in S \ {x} : WaitsFor(y, x))
    /\ Rollback(p)

\* The bound of the tables: the model has no row left for this insert.
NoRoom(p) ==
    /\ \/ pc[p] = "newmat" /\ FreeMats = {}
       \/ pc[p] = "insert" /\ FreshLots = {}
    /\ Rollback(p)

Served == budget = 0 /\ (\A p \in Procs : pc[p] = "idle") /\ UNCHANGED vars

-----------------------------------------------------------------------------
EmptyTables ==
    /\ mats = [m \in MatIds |-> NoName]
    /\ lots = NoRows
    /\ ledger = Zeros

AllIdle ==
    /\ pc = [p \in Procs |-> "idle"]
    /\ req = [p \in Procs |-> NoReq]
    /\ mem = [p \in Procs |-> NoRows]
    /\ rest = [p \in Procs |-> 0]
    /\ taken = [p \in Procs |-> Zeros]
    /\ pend = [p \in Procs |-> NoMove]
    /\ wm = [p \in Procs |-> [m \in MatIds |-> NoName]]
    /\ wl = [p \in Procs |-> NoRows]
    /\ wd = [p \in Procs |-> Zeros]
    /\ budget = MaxRequests

Init == EmptyTables /\ AllIdle

InboundStep(p) == \/ InboundFindMaterial(p) \/ InboundUnknownName(p) \/ MaterialNotFound(p)
                  \/ InboundCreateMaterial(p) \/ InboundCreateLot(p)
ConsumeStep(p) == \/ ConsumeFindMaterial(p) \/ ConsumeListLots(p)
                  \/ ConsumeInsufficient(p) \/ ConsumeTake(p)
LotStep(p) == ReadLot(p) \/ LotNotFound(p) \/ AdjustWrite(p) \/ VoidWrite(p)
EndStep(p) == \/ CreateMovement(p) \/ CreateAudit(p) \/ AuditFails(p)
              \/ CommitTx(p) \/ CommitRefused(p)
UpdateStep(p) == UpdateGet(p) \/ UpdateSave(p) \/ UpdateReply(p)
RefusedStep(p) == Busy(p) \/ DeadlockDetected(p) \/ NoRoom(p)

Step(p) == \/ InboundStep(p) \/ ConsumeStep(p) \/ LotStep(p)
           \/ EndStep(p) \/ UpdateStep(p) \/ RefusedStep(p)

Next == \/ \E p \in Procs : Accept(p) \/ Step(p) \/ StatementFails(p)
        \/ Served

Spec == Init /\ [][Next]_vars

\* A goroutine that can send its next statement sends it; a busy timeout or
\* the deadlock detector ends a wait that cannot end otherwise.
FairSpec == Spec /\ \A p \in Procs : WF_vars(Step(p))

-----------------------------------------------------------------------------
(* Every variable keeps its type: the tables of stock_lot.go and           *)
(* stock_movement.go, the variables of the service methods, the            *)
(* transactions' own writes.                                               *)
Rows == [Lots -> Row \cup {NoRow}]
RequestType == [op : OpNames \cup {"none"}, mat : MatIds \cup {NoId},
                name : Names \cup {NoName}, lot : Lots \cup {0}, qty : Int, due : Nat]

TypeOK ==
    /\ mats \in [MatIds -> Names \cup {NoName}]
    /\ lots \in Rows
    /\ ledger \in [Lots -> Int]
    /\ pc \in [Procs -> TxPoints \cup {"idle", "resolve", "read", "get", "save", "reply"}]
    /\ req \in [Procs -> RequestType]
    /\ mem \in [Procs -> Rows]
    /\ rest \in [Procs -> Int]
    /\ taken \in [Procs -> [Lots -> Int]]
    /\ pend \in [Procs -> [lot : Lots \cup {0}, delta : Int]]
    /\ wm \in [Procs -> [MatIds -> Names \cup {NoName}]]
    /\ wl \in [Procs -> Rows]
    /\ wd \in [Procs -> [Lots -> Int]]
    /\ budget \in Nat

(* The ledger explains the stock: the movements committed for a lot add up *)
(* to the quantity_on_hand committed for it, whatever requests interleave  *)
(* and wherever one of them fails (Inbound, Consume, Adjust, VoidLot).     *)
LedgerBalanced ==
    \A l \in Lots : ledger[l] = IF lots[l] = NoRow THEN 0 ELSE lots[l].qty

(* A stored row is "depleted" exactly when nothing is on hand, although    *)
(* Adjust and UpdateLot write back a status computed or read earlier, and  *)
(* VoidLot asks for "void" (StockLotRepository.Create, Update).            *)
StatusMatchesQuantity ==
    \A l \in Lots : lots[l] # NoRow =>
        lots[l].status = IF lots[l].qty <= 0 THEN "depleted" ELSE "active"

(* Nothing is handed out that is not there: no lot is ever stored with     *)
(* less than nothing on hand (the checks of the handlers and of Consume).  *)
NonNegativeOnHand == \A l \in Lots : lots[l] # NoRow => lots[l].qty >= 0

(* Consume takes exactly what was asked for, never more than a lot held:   *)
(* when it reaches its audit record, the results it will return add up to  *)
(* the quantity requested, and the movements it inserted say the same.     *)
ConsumeExact ==
    \A p \in Procs : Consumes(p) /\ pc[p] \in {"audit", "commit"} =>
        /\ SumFunction(taken[p]) =
               IF req[p].qty > 0 THEN req[p].qty ELSE 0
        /\ \A l \in Lots : /\ taken[p][l] >= 0 /\ wd[p][l] = -taken[p][l]
                           /\ taken[p][l] > 0 => wl[p][l].qty >= 0

(* Concurrent first inbounds of a product share one material: one creates  *)
(* its row, and none makes a second (resolveInboundMaterial).  Speaks of   *)
(* inbounds only; POST /materials does not look at the natural key.        *)
NaturalKeyUnique ==
    \A a, b \in MatIds : mats[a] = mats[b] /\ mats[a] # NoName => a = b

\* The committed tables as the abstract ledger sees them: statuses are dropped.
Absent == [mat |-> NoId, qty |-> 0, due |-> 0]
Stock == [l \in Lots |-> IF lots[l] = NoRow THEN Absent
             ELSE [mat |-> lots[l].mat, qty |-> lots[l].qty, due |-> lots[l].due]]

Promise == INSTANCE StockLedger WITH stock <- Stock, NoLot <- Absent

(* Every transaction of the service is one atomic step of StockLedger,     *)
(* taken at its commit: a consumption empties the lots in FEFO order and   *)
(* takes exactly what was asked for, and a request that fails leaves no    *)
(* trace (Inbound, Consume, Adjust, VoidLot under WithTx).                 *)
ImplementsLedger == Promise!Spec

(* UpdateLot, documented as an update "without quantity changes", leaves   *)
(* every quantity_on_hand as it finds it.                                  *)
InfoUpdateKeepsQuantity ==
    [][\A p \in Procs, l \in Lots :
          pc[p] = "save" /\ pc'[p] = "reply" /\ lots[l] # NoRow
             => lots'[l].qty = lots[l].qty]_vars

(* Every accepted request is answered: no transaction waits for ever on    *)
(* the locks of another, and Consume's loop ends.                          *)
EveryRequestEnds == \A p \in Procs : pc[p] # "idle" ~> pc[p] = "idle"
=============================================================================
