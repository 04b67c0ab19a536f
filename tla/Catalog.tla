-------------------------------- MODULE Catalog --------------------------------
(***************************************************************************)
(* CategoryService and MaterialService.Create over the categories and      *)
(* materials tables, one action per database statement, and InitBaseData,  *)
(* which seeds the default category whenever the server starts.  Every     *)
(* request runs in one transaction of a goroutine (a member of Procs).     *)
(*                                                                         *)
(* Abstractions.  Categories are numbered in the order of created_at: 0 is *)
(* the seeded one, whose created_at is a fixed past date, and a random id  *)
(* is never drawn twice.  A category is its name, a material its category. *)
(* The audit record is the one of Inventory.  One tenant.                  *)
(***************************************************************************)
EXTENDS Integers, FiniteSets

CONSTANTS
    Procs,        \* request goroutines
    MaxCats,      \* bound: categories created in a behaviour
    MatIds,       \* rows the materials table has room for
    Names,        \* category names a client may send
    DefaultName,  \* name of the seeded category
    Ops,          \* operations the clients use
    Driver,       \* database driver of the configuration
    MaxRequests,  \* bound: requests served in a behaviour
    MaxCrashes,   \* bound: restarts of the server
    NoName, NoCat, NoMat, Same, Gone

CatIds == 0..MaxCats
OpNames == {"create", "rename", "delete", "file"}

ASSUME CatalogAssumption ==
    /\ MaxCats \in Nat /\ MaxRequests \in Nat /\ MaxCrashes \in Nat
    /\ Ops \subseteq OpNames
    /\ Driver \in {"sqlite", "postgres"}
    /\ DefaultName \in Names
    /\ NoName \notin Names /\ Same \notin Names /\ Gone \notin Names
    /\ NoName # Same /\ NoName # Gone /\ Gone # Same
    /\ NoCat \notin CatIds /\ NoMat \notin CatIds /\ Same \notin CatIds
    /\ NoCat # NoMat /\ NoCat # Same /\ NoMat # Same

VARIABLES
    cats,     \* committed categories: id -> name
    mats,     \* committed materials: id -> category
    made,     \* the last category id drawn
    up,       \* the server: serving, stopped, or refusing to start
    pc,       \* the statement each goroutine is about to send
    req,      \* the request each goroutine serves
    held,     \* the name of the row CategoryService.Update holds
    wc,       \* uncommitted writes of each transaction: categories
    wm,       \*   and materials
    budget,   \* requests the clients may still send
    crashes   \* restarts that may still happen

vars == <<cats, mats, made, up, pc, req, held, wc, wm, budget, crashes>>
db   == <<cats, mats>>
env  == <<up, budget, crashes>>

-----------------------------------------------------------------------------
(* Requests that pass the handlers' checks: names are not empty, a rename  *)
(* may leave the name out, a new material its category.                    *)

Form(ops, cs, ns) == [op : ops \cap Ops, cat : cs, name : ns]

Requests == Form({"create"}, {NoCat}, Names)
       \cup Form({"rename"}, CatIds, Names \cup {NoName})
       \cup Form({"delete"}, CatIds, {NoName})
       \cup Form({"file"}, CatIds \cup {NoCat}, {NoName})

NoReq == [op |-> "none", cat |-> NoCat, name |-> NoName]

FirstPoint(op) == CASE op = "create" -> "check"
                    [] op = "rename" -> "get"
                    [] op = "delete" -> "find"
                    [] op = "file"   -> "assign"

-----------------------------------------------------------------------------
(* The database, external to the services.  A transaction reads committed  *)
(* rows until it has written; each of these writes once, at its end.       *)

NothingHeld == [c \in CatIds |-> Same]
NothingFiled == [m \in MatIds |-> Same]

Wrote(p) == wc[p] # NothingHeld \/ wm[p] # NothingFiled
Others(p) == Procs \ {p}

\* Mutant: reading a category locks it, too.
RowLockedByRead(q, c) ==
    wc[q][c] # Same \/ (pc[q] \in {"lookup", "count", "save", "remove"} /\ req[q].cat = c)

\* PostgreSQL locks a written row, a referenced row against being deleted
\* or renamed, and a name in the unique index that is about to change.
RowLocked(q, c) == wc[q][c] # Same
RowReferenced(q, c) == \E m \in MatIds : wm[q][m] = c
NameLocked(q, n) == \E c \in CatIds :
    wc[q][c] = n \/ (cats[c] = n /\ wc[q][c] # Same)

Renamed(c, n) == cats[c] # n

MayWriteCat(p, c, n) ==
    \A q \in Others(p) :
        IF Driver = "sqlite" THEN ~Wrote(q)
        ELSE /\ ~RowLocked(q, c)
             /\ Renamed(c, n) => ~RowReferenced(q, c) /\ (n # Gone => ~NameLocked(q, n))

MayFile(p, c) ==
    \A q \in Others(p) : IF Driver = "sqlite" THEN ~Wrote(q)
                                            ELSE wc[q][c] \in {Same, cats[c]}

MayCommit(p) ==
    Driver = "sqlite" /\ Wrote(p) => \A q \in Others(p) : pc[q] = "idle"

\* Mutant: no unique index on (tenant_id, name).
IndexNotThere(c, n) == FALSE

\* The unique index idx_categories_tenant_name refuses the name.
IndexRefuses(c, n) == \E d \in CatIds \ {c} : cats[d] = n

\* Mutant: no foreign key is enforced.
ForeignKeysOff == {FALSE}

\* PRAGMA foreign_keys = ON reaches the one pooled connection it is sent to.
ForeignKeys == IF Driver = "postgres" THEN {TRUE} ELSE BOOLEAN

-----------------------------------------------------------------------------
(* How a request goes on, and how it ends.                                 *)

Goto(p, point) == pc' = [pc EXCEPT ![p] = point]

Done(p) ==
    /\ Goto(p, "idle")
    /\ req' = [req EXCEPT ![p] = NoReq]
    /\ held' = [held EXCEPT ![p] = NoName]
    /\ wc' = [wc EXCEPT ![p] = NothingHeld]
    /\ wm' = [wm EXCEPT ![p] = NothingFiled]

Rollback(p) == Done(p) /\ UNCHANGED <<db, made, env>>

Reads(p) == UNCHANGED <<db, made, wc, wm, env>>

Accept(p) ==
    /\ up = "up" /\ pc[p] = "idle" /\ budget > 0
    /\ \E r \in Requests :
         /\ req' = [req EXCEPT ![p] = r]
         /\ Goto(p, FirstPoint(r.op))
    /\ budget' = budget - 1
    /\ UNCHANGED <<db, made, up, held, wc, wm, crashes>>

NotFound(p) ==
    /\ pc[p] \in {"get", "find", "lookup"} /\ cats[req[p].cat] = NoName
    /\ Rollback(p)

\* ensureUniqueName, the row itself excluded.
NameTaken(p, n) == \E c \in CatIds \ {req[p].cat} : cats[c] = n

(* CategoryService.Create *)

CreateCheck(p) ==
    /\ pc[p] = "check" /\ req[p].op = "create" /\ ~NameTaken(p, req[p].name)
    /\ Goto(p, "insert")
    /\ Reads(p) /\ UNCHANGED <<req, held>>

CreateInsert(p) ==
    LET c == made + 1
        n == req[p].name
    IN  /\ pc[p] = "insert" /\ c \in CatIds
        /\ MayWriteCat(p, c, n) /\ ~IndexRefuses(c, n)
        /\ wc' = [wc EXCEPT ![p][c] = n]
        /\ made' = c
        /\ Goto(p, "commit")
        /\ UNCHANGED <<db, req, held, wm, env>>

\* The bound of the table: the model has no id left.
NoRoom(p) ==
    /\ \/ pc[p] = "insert" /\ made = MaxCats
       \/ pc[p] = "insertm" /\ \A m \in MatIds : mats[m] # NoMat \/ \E q \in Procs : wm[q][m] # Same
    /\ Rollback(p)

(* CategoryService.Update *)

RenameGet(p) ==
    /\ pc[p] = "get" /\ cats[req[p].cat] # NoName
    /\ held' = [held EXCEPT ![p] =
                   IF req[p].name = NoName THEN cats[req[p].cat] ELSE req[p].name]
    /\ Goto(p, "check")
    /\ Reads(p) /\ UNCHANGED req

RenameCheck(p) ==
    /\ pc[p] = "check" /\ req[p].op = "rename" /\ ~NameTaken(p, held[p])
    /\ Goto(p, "save")
    /\ Reads(p) /\ UNCHANGED <<req, held>>

NameExists(p) ==
    /\ pc[p] = "check"
    /\ NameTaken(p, IF req[p].op = "create" THEN req[p].name ELSE held[p])
    /\ Rollback(p)

\* Mutant: a request without a name is not told from one with a name.
RenameSaveUnset(p) ==
    LET c == req[p].cat
    IN  /\ pc[p] = "save" /\ MayWriteCat(p, c, req[p].name)
        /\ wc' = [wc EXCEPT ![p][c] = req[p].name]
        /\ Goto(p, "commit")
        /\ UNCHANGED <<db, made, req, held, wm, env>>

\* Save updates the row, or inserts it again when the update finds none.
RenameSave(p) ==
    LET c == req[p].cat
    IN  /\ pc[p] = "save" /\ MayWriteCat(p, c, held[p]) /\ ~IndexRefuses(c, held[p])
        /\ wc' = [wc EXCEPT ![p][c] = held[p]]
        /\ Goto(p, "commit")
        /\ UNCHANGED <<db, made, req, held, wm, env>>

IndexConflict(p) ==
    /\ \/ /\ pc[p] = "save" /\ MayWriteCat(p, req[p].cat, held[p])
          /\ IndexRefuses(req[p].cat, held[p])
       \/ /\ pc[p] = "insert" /\ made < MaxCats
          /\ MayWriteCat(p, made + 1, req[p].name)
          /\ IndexRefuses(made + 1, req[p].name)
    /\ Rollback(p)

(* CategoryService.Delete *)

Filed(c) == {m \in MatIds : mats[m] = c}

\* The service looks the category up, and the repository once more.
DeleteFind(p) ==
    /\ pc[p] \in {"find", "lookup"} /\ cats[req[p].cat] # NoName
    /\ Goto(p, IF pc[p] = "find" THEN "lookup" ELSE "count")
    /\ Reads(p) /\ UNCHANGED <<req, held>>

\* Mutant: the category is deleted with its materials still in it.
DeleteCountIgnored(p) ==
    /\ pc[p] = "count"
    /\ Goto(p, "remove")
    /\ Reads(p) /\ UNCHANGED <<req, held>>

DeleteCount(p) ==
    /\ pc[p] = "count" /\ Filed(req[p].cat) = {}
    /\ Goto(p, "remove")
    /\ Reads(p) /\ UNCHANGED <<req, held>>

CategoryInUse(p) ==
    /\ pc[p] = "count" /\ Filed(req[p].cat) # {}
    /\ Rollback(p)

\* The foreign key sets category_id to NULL in the materials it finds.
DeleteRemove(p) ==
    LET c == req[p].cat
    IN  /\ pc[p] = "remove" /\ MayWriteCat(p, c, Gone)
        /\ wc' = [wc EXCEPT ![p][c] = Gone]
        /\ \E enforced \in ForeignKeys :
              wm' = [wm EXCEPT ![p] = [m \in MatIds |->
                        IF enforced /\ m \in Filed(c) THEN NoCat ELSE Same]]
        /\ Goto(p, "commit")
        /\ UNCHANGED <<db, made, req, held, env>>

(* MaterialService.Create *)

Categories == {c \in CatIds : cats[c] # NoName}
IsOldest(c) == c \in Categories /\ \A d \in Categories : c <= d

FileAssign(p) ==
    /\ pc[p] = "assign"
    /\ \/ req[p].cat # NoCat /\ UNCHANGED req
       \/ /\ req[p].cat = NoCat
          /\ \E c \in CatIds : IsOldest(c) /\ req' = [req EXCEPT ![p].cat = c]
    /\ Goto(p, "validate")
    /\ Reads(p) /\ UNCHANGED held

FileValidate(p) ==
    /\ pc[p] = "validate" /\ req[p].cat \in Categories
    /\ Goto(p, "insertm")
    /\ Reads(p) /\ UNCHANGED <<req, held>>

NoCategory(p) ==
    /\ \/ pc[p] = "assign" /\ req[p].cat = NoCat /\ Categories = {}
       \/ pc[p] = "validate" /\ req[p].cat \notin Categories
    /\ Rollback(p)

FileInsert(p) ==
    LET c == req[p].cat
    IN  /\ pc[p] = "insertm" /\ MayFile(p, c)
        /\ \E enforced \in ForeignKeys : enforced => c \in Categories
        /\ \E m \in MatIds :
             /\ mats[m] = NoMat /\ \A q \in Procs : wm[q][m] = Same
             /\ wm' = [wm EXCEPT ![p][m] = c]
        /\ Goto(p, "commit")
        /\ UNCHANGED <<db, made, req, held, wc, env>>

ForeignKeyRefuses(p) ==
    /\ pc[p] = "insertm" /\ MayFile(p, req[p].cat)
    /\ TRUE \in ForeignKeys /\ req[p].cat \notin Categories
    /\ Rollback(p)

(* The end of a transaction *)

CommitTx(p) ==
    /\ pc[p] = "commit" /\ MayCommit(p)
    /\ cats' = [c \in CatIds |-> CASE wc[p][c] = Same -> cats[c]
                                   [] wc[p][c] = Gone -> NoName
                                   [] OTHER -> wc[p][c]]
    /\ mats' = [m \in MatIds |-> IF wm[p][m] = Same THEN mats[m] ELSE wm[p][m]]
    /\ Done(p)
    /\ UNCHANGED <<made, env>>

\* A statement may fail or the client go away; on PostgreSQL a failed audit
\* insert ends the transaction as well.
StatementFails(p) == pc[p] # "idle" /\ Rollback(p)

Blocked(p) ==
    \/ pc[p] = "insert" /\ made < MaxCats /\ ~MayWriteCat(p, made + 1, req[p].name)
    \/ pc[p] = "save" /\ ~MayWriteCat(p, req[p].cat, held[p])
    \/ pc[p] = "remove" /\ ~MayWriteCat(p, req[p].cat, Gone)
    \/ pc[p] = "insertm" /\ ~MayFile(p, req[p].cat)
    \/ pc[p] = "commit" /\ ~MayCommit(p)

\* SQLITE_BUSY
Busy(p) == Driver = "sqlite" /\ Blocked(p) /\ Rollback(p)

-----------------------------------------------------------------------------
(* The process stops between two statements; OpenAndMigrate runs           *)
(* InitBaseData before the server listens again.                           *)

Crash ==
    /\ up = "up" /\ crashes > 0
    /\ up' = "down" /\ crashes' = crashes - 1
    /\ pc' = [p \in Procs |-> "idle"]
    /\ req' = [p \in Procs |-> NoReq]
    /\ held' = [p \in Procs |-> NoName]
    /\ wc' = [p \in Procs |-> NothingHeld]
    /\ wm' = [p \in Procs |-> NothingFiled]
    /\ UNCHANGED <<db, made, budget>>

SeedPresent ==
    /\ up = "down" /\ cats[0] # NoName
    /\ up' = "up"
    /\ UNCHANGED <<db, made, pc, req, held, wc, wm, budget, crashes>>

SeedCreate ==
    /\ up = "down" /\ cats[0] = NoName /\ ~IndexRefuses(0, DefaultName)
    /\ cats' = [cats EXCEPT ![0] = DefaultName]
    /\ up' = "up"
    /\ UNCHANGED <<mats, made, pc, req, held, wc, wm, budget, crashes>>

\* Create returns the index's error, and the server does not start.
SeedRefused ==
    /\ up = "down" /\ cats[0] = NoName /\ IndexRefuses(0, DefaultName)
    /\ up' = "refused"
    /\ UNCHANGED <<db, made, pc, req, held, wc, wm, budget, crashes>>

Served ==
    /\ up # "down" /\ (budget = 0 \/ up = "refused")
    /\ \A p \in Procs : pc[p] = "idle"
    /\ UNCHANGED vars

-----------------------------------------------------------------------------
\* A database just migrated, the server about to seed it.
Init ==
    /\ cats = [c \in CatIds |-> NoName]
    /\ mats = [m \in MatIds |-> NoMat]
    /\ made = 0
    /\ up = "down"
    /\ pc = [p \in Procs |-> "idle"]
    /\ req = [p \in Procs |-> NoReq]
    /\ held = [p \in Procs |-> NoName]
    /\ wc = [p \in Procs |-> NothingHeld]
    /\ wm = [p \in Procs |-> NothingFiled]
    /\ budget = MaxRequests
    /\ crashes = MaxCrashes

CreateStep(p) == CreateCheck(p) \/ CreateInsert(p) \/ NameExists(p) \/ IndexConflict(p)
RenameStep(p) == RenameGet(p) \/ RenameCheck(p) \/ RenameSave(p)
DeleteStep(p) == \/ NotFound(p) \/ DeleteFind(p) \/ DeleteCount(p)
                 \/ CategoryInUse(p) \/ DeleteRemove(p)
FileStep(p) == \/ FileAssign(p) \/ FileValidate(p) \/ NoCategory(p)
               \/ FileInsert(p) \/ ForeignKeyRefuses(p)

Step(p) == \/ CreateStep(p) \/ RenameStep(p) \/ DeleteStep(p) \/ FileStep(p)
           \/ CommitTx(p) \/ Busy(p) \/ NoRoom(p)

Boot == SeedPresent \/ SeedCreate \/ SeedRefused

Next == \/ \E p \in Procs : Accept(p) \/ Step(p) \/ StatementFails(p)
        \/ Crash \/ Boot \/ Served

Spec == Init /\ [][Next]_vars

\* A goroutine sends its next statement when it can.  PostgreSQL's deadlock
\* detector is not assumed.
FairSpec == Spec /\ \A p \in Procs : WF_vars(Step(p))

-----------------------------------------------------------------------------
(* Every variable keeps its type: the rows of category.go and material.go, *)
(* the variables of the service methods, the transactions' own writes.     *)
TypeOK ==
    /\ cats \in [CatIds -> Names \cup {NoName}]
    /\ mats \in [MatIds -> CatIds \cup {NoCat, NoMat}]
    /\ made \in CatIds
    /\ up \in {"up", "down", "refused"}
    /\ pc \in [Procs -> {"idle", "check", "insert", "get", "save", "find", "lookup", "count",
                         "remove", "assign", "validate", "insertm", "commit"}]
    /\ req \in [Procs -> [op : OpNames \cup {"none"}, cat : CatIds \cup {NoCat},
                          name : Names \cup {NoName}]]
    /\ held \in [Procs -> Names \cup {NoName}]
    /\ wc \in [Procs -> [CatIds -> Names \cup {Same, Gone}]]
    /\ wm \in [Procs -> [MatIds -> CatIds \cup {NoCat, Same}]]
    /\ budget \in Nat /\ crashes \in Nat

(* Two committed categories never share a name, whatever creates, renames  *)
(* and restarts interleave, although ensureUniqueName and the write it     *)
(* guards are separate statements.                                         *)
CategoryNamesUnique ==
    \A c, d \in CatIds : cats[c] = cats[d] /\ cats[c] # NoName => c = d

(* A material is never filed under a category that does not exist: neither *)
(* validateCategoryID nor the count before a delete sees what a concurrent *)
(* request has not committed yet.                                          *)
ReferencesExist ==
    \A m \in MatIds : mats[m] \in CatIds => cats[mats[m]] # NoName

(* The seeding never stops the server from starting (InitBaseData: "It is  *)
(* idempotent: existing rows are left untouched").                         *)
SeedNeverRefused == up # "refused"

Book == INSTANCE CategoryBook WITH names <- cats, filed <- mats

(* On SQLite every interleaving of the statements, failures and restarts   *)
(* is an atomic step of CategoryBook: a request that fails leaves nothing, *)
(* one that succeeds found what its checks promised still true.            *)
ImplementsBook == Book!Spec

(* Every accepted request is answered, without a deadlock detector: each   *)
(* transaction takes its locks in the single statement that writes.        *)
EveryRequestEnds == \A p \in Procs : pc[p] # "idle" ~> pc[p] = "idle"
=============================================================================
