---------------------------- MODULE CatalogProofs ----------------------------
(***************************************************************************)
(* Theorems about Catalog, for every number of goroutines, categories,     *)
(* names and requests, and for both drivers.                               *)
(***************************************************************************)
EXTENDS Catalog, TLAPS

(* A statement finds in the request what an earlier statement, or the      *)
(* handler, made sure of.                                                  *)
PointOK ==
    \A p \in Procs :
        /\ pc[p] = "check" /\ req[p].op = "create" => req[p].name \in Names
        /\ pc[p] = "check" /\ req[p].op = "rename" => /\ req[p].cat \in CatIds
                                                      /\ held[p] \in Names
        /\ pc[p] = "insert" => req[p].name \in Names
        /\ pc[p] \in {"get", "find", "lookup", "count", "remove", "save", "insertm"} =>
              req[p].cat \in CatIds
        /\ pc[p] = "get" => req[p].op = "rename"
        /\ pc[p] = "save" => held[p] \in Names

TypeInv == TypeOK /\ PointOK

USE CatalogAssumption DEF CatalogAssumption, OpNames

RequestType == [op : OpNames \cup {"none"}, cat : CatIds \cup {NoCat},
                name : Names \cup {NoName}]

LEMMA RequestsTyped ==
    ASSUME NEW r \in Requests
    PROVE  /\ r \in RequestType /\ r.op \in OpNames
           /\ r.op = "create" => r.name \in Names
           /\ r.op \in {"rename", "delete"} => r.cat \in CatIds
BY DEF Requests, Form, RequestType

LEMMA UpdatedTwice ==
    ASSUME NEW A, NEW B, NEW C, NEW f \in [A -> [B -> C]], NEW a \in A, NEW b \in B,
           NEW c \in C
    PROVE  /\ [f EXCEPT ![a][b] = c] \in [A -> [B -> C]]
           /\ \A x \in A, y \in B :
                 [f EXCEPT ![a][b] = c][x][y] = IF x = a /\ y = b THEN c ELSE f[x][y]
OBVIOUS

LEMMA DoneTyped ==
    ASSUME TypeInv, NEW p \in Procs, Done(p),
           cats' \in [CatIds -> Names \cup {NoName}],
           mats' \in [MatIds -> CatIds \cup {NoCat, NoMat}],
           made' = made, UNCHANGED env
    PROVE  TypeInv'
<1>1. TypeOK'
  BY DEF TypeInv, TypeOK, Done, Goto, NoReq, NothingHeld, NothingFiled, env
<1>2. PointOK'
  BY DEF TypeInv, PointOK, TypeOK, Done, Goto, NoReq
<1> QED BY <1>1, <1>2 DEF TypeInv

LEMMA RollbackTyped ==
    ASSUME TypeInv, NEW p \in Procs, Rollback(p)
    PROVE  TypeInv'
BY DoneTyped DEF Rollback, TypeInv, TypeOK, db

(* A step that only reads keeps every type but those of its goroutine.     *)
LEMMA ReadTyped ==
    ASSUME TypeInv, NEW p \in Procs, Reads(p), NEW point \in
               {"check", "insert", "save", "remove", "validate", "insertm", "lookup", "count"},
           Goto(p, point),
           req' \in [Procs -> RequestType], held' \in [Procs -> Names \cup {NoName}],
           \A q \in Procs \ {p} : req'[q] = req[q] /\ held'[q] = held[q],
           point = "check" => req'[p].op = "rename" /\ req'[p].cat \in CatIds /\ held'[p] \in Names,
           point = "insert" => req'[p].name \in Names,
           point \in {"save", "remove", "insertm", "lookup", "count"} => req'[p].cat \in CatIds,
           point = "save" => held'[p] \in Names
    PROVE  TypeInv'
<1>1. TypeOK'
  BY DEF TypeInv, TypeOK, Reads, Goto, db, env, RequestType
<1>2. PointOK'
  BY DEF TypeInv, PointOK, TypeOK, Goto
<1> QED BY <1>1, <1>2 DEF TypeInv

LEMMA WriteTyped ==
    ASSUME TypeInv, NEW p \in Procs, Goto(p, "commit"),
           wc' \in [Procs -> [CatIds -> Names \cup {Same, Gone}]],
           wm' \in [Procs -> [MatIds -> CatIds \cup {NoCat, Same}]],
           made' \in CatIds, UNCHANGED <<db, req, held, env>>
    PROVE  TypeInv'
<1>1. TypeOK'
  BY DEF TypeInv, TypeOK, Goto, db, env
<1>2. PointOK'
  BY DEF TypeInv, PointOK, TypeOK, Goto
<1> QED BY <1>1, <1>2 DEF TypeInv

LEMMA StepTyped ==
    ASSUME TypeInv, Next
    PROVE  TypeInv'
<1> USE DEF TypeInv
<1>1. ASSUME NEW p \in Procs, Accept(p) PROVE TypeInv'
  <2> PICK r \in Requests : /\ req' = [req EXCEPT ![p] = r]
                            /\ Goto(p, FirstPoint(r.op))
    BY <1>1 DEF Accept
  <2>1. TypeOK'
    BY <1>1, RequestsTyped DEF Accept, TypeOK, Goto, FirstPoint, RequestType, db
  <2>2. PointOK'
    BY <1>1, RequestsTyped DEF Accept, TypeOK, PointOK, Goto, FirstPoint
  <2> QED BY <2>1, <2>2
<1>2. ASSUME NEW p \in Procs, CreateStep(p) PROVE TypeInv'
  <2>1. CASE CreateCheck(p)
    BY <2>1, ReadTyped DEF CreateCheck, TypeOK, PointOK, RequestType
  <2>2. CASE CreateInsert(p)
    <3>1. wc' \in [Procs -> [CatIds -> Names \cup {Same, Gone}]]
      BY <2>2, UpdatedTwice DEF CreateInsert, TypeOK, PointOK
    <3> QED BY <2>2, <3>1, WriteTyped DEF CreateInsert, TypeOK
  <2>3. CASE NameExists(p) \/ IndexConflict(p)
    BY <2>3, RollbackTyped DEF NameExists, IndexConflict
  <2> QED BY <1>2, <2>1, <2>2, <2>3 DEF CreateStep
<1>3. ASSUME NEW p \in Procs, RenameStep(p) PROVE TypeInv'
  <2>1. CASE RenameGet(p)
    <3>1. req[p].cat \in CatIds /\ req[p].op = "rename"
      BY <2>1 DEF RenameGet, PointOK
    <3>2. held' \in [Procs -> Names \cup {NoName}] /\ held'[p] \in Names
      BY <2>1, <3>1 DEF RenameGet, TypeOK
    <3>3. req' = req /\ req \in [Procs -> RequestType] /\ Reads(p) /\ Goto(p, "check")
          /\ \A q \in Procs \ {p} : held'[q] = held[q]
      BY <2>1 DEF RenameGet, TypeOK, RequestType
    <3> QED BY <3>1, <3>2, <3>3, ReadTyped
  <2>2. CASE RenameCheck(p)
    BY <2>2, ReadTyped DEF RenameCheck, TypeOK, PointOK, RequestType
  <2>3. CASE RenameSave(p)
    <3>1. wc' \in [Procs -> [CatIds -> Names \cup {Same, Gone}]]
      BY <2>3, UpdatedTwice DEF RenameSave, TypeOK, PointOK
    <3> QED BY <2>3, <3>1, WriteTyped DEF RenameSave, TypeOK
  <2> QED BY <1>3, <2>1, <2>2, <2>3 DEF RenameStep
<1>4. ASSUME NEW p \in Procs, DeleteStep(p) PROVE TypeInv'
  <2>1. CASE DeleteFind(p)
    <3>1. PICK point \in {"lookup", "count"} : Goto(p, point)
      BY <2>1 DEF DeleteFind
    <3>2. req[p].cat \in CatIds /\ Reads(p) /\ UNCHANGED <<req, held>>
      BY <2>1 DEF DeleteFind, PointOK
    <3> QED BY <3>1, <3>2, ReadTyped DEF TypeOK, RequestType
  <2>4. CASE DeleteCount(p)
    BY <2>4, ReadTyped DEF DeleteCount, TypeOK, PointOK, RequestType
  <2>2. CASE DeleteRemove(p)
    <3>1. wc' \in [Procs -> [CatIds -> Names \cup {Same, Gone}]]
      BY <2>2, UpdatedTwice DEF DeleteRemove, TypeOK, PointOK
    <3>2. wm' \in [Procs -> [MatIds -> CatIds \cup {NoCat, Same}]]
      BY <2>2 DEF DeleteRemove, TypeOK
    <3> QED BY <2>2, <3>1, <3>2, WriteTyped DEF DeleteRemove, TypeOK
  <2>3. CASE NotFound(p) \/ CategoryInUse(p)
    BY <2>3, RollbackTyped DEF NotFound, CategoryInUse
  <2> QED BY <1>4, <2>1, <2>2, <2>3, <2>4 DEF DeleteStep
<1>5. ASSUME NEW p \in Procs, FileStep(p) PROVE TypeInv'
  <2>1. CASE FileAssign(p)
    <3>1. req' \in [Procs -> RequestType] /\ \A q \in Procs \ {p} : req'[q] = req[q]
      <4>1. req \in [Procs -> RequestType]
        BY DEF TypeOK, RequestType
      <4>2. CASE UNCHANGED req
        BY <4>1, <4>2
      <4>3. CASE \E c \in CatIds : req' = [req EXCEPT ![p].cat = c]
        BY <4>1, <4>3 DEF RequestType
      <4> QED BY <2>1, <4>2, <4>3 DEF FileAssign
    <3> QED BY <2>1, <3>1, ReadTyped DEF FileAssign, TypeOK
  <2>2. CASE FileValidate(p)
    BY <2>2, ReadTyped DEF FileValidate, Categories, TypeOK, PointOK, RequestType
  <2>3. CASE FileInsert(p)
    <3>1. PICK m \in MatIds : wm' = [wm EXCEPT ![p][m] = req[p].cat]
      BY <2>3 DEF FileInsert
    <3>2. req[p].cat \in CatIds
      BY <2>3 DEF FileInsert, PointOK
    <3>3. wm' \in [Procs -> [MatIds -> CatIds \cup {NoCat, Same}]]
      BY <3>1, <3>2, UpdatedTwice DEF TypeOK
    <3> QED BY <2>3, <3>3, WriteTyped DEF FileInsert, TypeOK
  <2>4. CASE NoCategory(p) \/ ForeignKeyRefuses(p)
    BY <2>4, RollbackTyped DEF NoCategory, ForeignKeyRefuses
  <2> QED BY <1>5, <2>1, <2>2, <2>3, <2>4 DEF FileStep
<1>6. ASSUME NEW p \in Procs, CommitTx(p) PROVE TypeInv'
  <2>1. cats' \in [CatIds -> Names \cup {NoName}]
    BY <1>6 DEF CommitTx, TypeOK
  <2>2. mats' \in [MatIds -> CatIds \cup {NoCat, NoMat}]
    BY <1>6 DEF CommitTx, TypeOK
  <2> QED BY <1>6, <2>1, <2>2, DoneTyped DEF CommitTx
<1>7. ASSUME NEW p \in Procs, Busy(p) \/ NoRoom(p) \/ StatementFails(p) PROVE TypeInv'
  BY <1>7, RollbackTyped DEF Busy, NoRoom, StatementFails
<1>8. ASSUME Crash PROVE TypeInv'
  <2>1. TypeOK'
    BY <1>8 DEF Crash, TypeOK, NoReq, NothingHeld, NothingFiled, db
  <2>2. PointOK'
    BY <1>8 DEF Crash, PointOK
  <2> QED BY <2>1, <2>2
<1>9. ASSUME Boot PROVE TypeInv'
  <2>1. TypeOK'
    BY <1>9 DEF Boot, SeedPresent, SeedCreate, SeedRefused, TypeOK, db
  <2>2. PointOK'
    BY <1>9 DEF Boot, SeedPresent, SeedCreate, SeedRefused, PointOK
  <2> QED BY <2>1, <2>2
<1>10. ASSUME Served PROVE TypeInv'
  BY <1>10 DEF Served, vars, TypeOK, PointOK
<1> QED
  BY <1>1, <1>2, <1>3, <1>4, <1>5, <1>6, <1>7, <1>8, <1>9, <1>10 DEF Next, Step

LEMMA InitTyped == Init => TypeInv
BY DEF Init, TypeInv, TypeOK, PointOK, NoReq, NothingHeld, NothingFiled, CatIds

LEMMA StutterTyped == TypeInv /\ UNCHANGED vars => TypeInv'
BY DEF TypeInv, TypeOK, PointOK, vars

(* Every variable keeps its type.                                          *)
THEOREM TypeCorrect == Spec => []TypeOK
<1>1. TypeInv /\ [Next]_vars => TypeInv'
  BY StepTyped, StutterTyped
<1>2. TypeInv => TypeOK
  BY DEF TypeInv
<1> QED BY InitTyped, <1>1, <1>2, PTL DEF Spec

-----------------------------------------------------------------------------
(* Why names stay unique: an uncommitted name is one no other row has, and *)
(* no other transaction is about to give.                                  *)
Fresh == \A p \in Procs, c, d \in CatIds :
            wc[p][c] \in Names /\ d # c => cats[d] # wc[p][c]
Alone == \A p, q \in Procs, c, d \in CatIds :
            wc[p][c] \in Names /\ wc[q][d] = wc[p][c] => p = q /\ c = d
WritesLast == \A p \in Procs : pc[p] # "commit" => wc[p] = NothingHeld
DownIsIdle == up # "up" => \A p \in Procs : pc[p] = "idle"

NamesInv == /\ TypeInv /\ CategoryNamesUnique /\ Fresh /\ Alone
            /\ WritesLast /\ DownIsIdle

LEMMA EndNames ==
    ASSUME NamesInv, TypeInv', NEW p \in Procs, Done(p), UNCHANGED env,
           UNCHANGED cats
    PROVE  NamesInv'
<1>1. \A q \in Procs, c \in CatIds :
         /\ wc'[p][c] \notin Names
         /\ q # p => wc'[q][c] = wc[q][c] /\ pc'[q] = pc[q] /\ wc'[q] = wc[q]
  BY DEF NamesInv, TypeInv, TypeOK, Done, Goto, NothingHeld
<1>2. CategoryNamesUnique' /\ Fresh' /\ Alone'
  BY <1>1 DEF NamesInv, CategoryNamesUnique, Fresh, Alone
<1>3. WritesLast' /\ DownIsIdle'
  BY <1>1 DEF NamesInv, WritesLast, DownIsIdle, Done, Goto, env, TypeInv, TypeOK, NothingHeld
<1> QED BY <1>2, <1>3 DEF NamesInv

(* A goroutine that has not written goes on, and writes nothing.           *)
LEMMA ReadNames ==
    ASSUME NamesInv, TypeInv', NEW p \in Procs, pc[p] # "commit",
           NEW point, Goto(p, point), UNCHANGED <<cats, wc, up>>, up = "up"
    PROVE  NamesInv'
<1>1. CategoryNamesUnique' /\ Fresh' /\ Alone'
  BY DEF NamesInv, CategoryNamesUnique, Fresh, Alone
<1>2. WritesLast' /\ DownIsIdle'
  BY DEF NamesInv, WritesLast, DownIsIdle, Goto, TypeInv, TypeOK, NothingHeld
<1> QED BY <1>1, <1>2 DEF NamesInv

(* The row locks, or SQLite's single writer, and the index make an         *)
(* uncommitted name fresh and alone.                                       *)
LEMMA WriteNames ==
    ASSUME NamesInv, TypeInv', NEW p \in Procs, NEW c \in CatIds,
           NEW n \in Names \cup {Gone},
           pc[p] \notin {"idle", "commit"}, Goto(p, "commit"),
           wc' = [wc EXCEPT ![p][c] = n], UNCHANGED <<cats, up>>,
           MayWriteCat(p, c, n), n # Gone => ~IndexRefuses(c, n)
    PROVE  NamesInv'
<1>1. /\ wc[p] = NothingHeld
      /\ up = "up"
  BY DEF NamesInv, WritesLast, DownIsIdle
<1>2. \A q \in Procs, d \in CatIds :
         wc'[q][d] = IF q = p /\ d = c THEN n ELSE wc[q][d]
  BY UpdatedTwice DEF NamesInv, TypeInv, TypeOK
<1>3. \A d \in CatIds : wc[p][d] = Same
  BY <1>1 DEF NothingHeld
<1>4. ASSUME n \in Names, NEW q \in Procs \ {p}, NEW d \in CatIds
      PROVE  wc[q][d] # n
  <2>1. CASE Driver = "sqlite"
    <3>1. wc[q] = NothingHeld
      BY <2>1 DEF MayWriteCat, Others, Wrote
    <3> QED BY <3>1, <1>4 DEF NothingHeld
  <2>2. CASE Driver = "postgres"
    <3>1. wc[q][c] = Same
      BY <2>2 DEF MayWriteCat, Others, RowLocked
    <3>2. CASE Renamed(c, n)
      BY <2>2, <3>2, <1>4 DEF MayWriteCat, Others, NameLocked
    <3>3. CASE ~Renamed(c, n)
      BY <3>1, <3>3, <1>4 DEF Renamed, NamesInv, Fresh
    <3> QED BY <3>2, <3>3
  <2> QED BY <2>1, <2>2
<1>5. Fresh'
  <2> SUFFICES ASSUME NEW q \in Procs, NEW e \in CatIds, NEW d \in CatIds,
                      wc'[q][e] \in Names, d # e
               PROVE  cats[d] # wc'[q][e]
    BY DEF Fresh
  <2>1. CASE q = p
    BY <2>1, <1>2, <1>3 DEF IndexRefuses
  <2>2. CASE q # p
    BY <2>2, <1>2 DEF NamesInv, Fresh
  <2> QED BY <2>1, <2>2
<1>6. Alone'
  BY <1>2, <1>3, <1>4 DEF NamesInv, Alone
<1>7. CategoryNamesUnique' /\ DownIsIdle'
  BY <1>1 DEF NamesInv, CategoryNamesUnique, DownIsIdle
<1>8. WritesLast'
  <2> SUFFICES ASSUME NEW q \in Procs, pc'[q] # "commit" PROVE wc'[q] = NothingHeld
    BY DEF WritesLast
  <2>1. q # p /\ pc'[q] = pc[q]
    BY DEF Goto, NamesInv, TypeInv, TypeOK
  <2>2. wc'[q] = wc[q]
    BY <2>1 DEF NamesInv, TypeInv, TypeOK
  <2> QED BY <2>1, <2>2 DEF NamesInv, WritesLast
<1> QED BY <1>5, <1>6, <1>7, <1>8 DEF NamesInv

LEMMA CommitNames ==
    ASSUME NamesInv, TypeInv', NEW p \in Procs, CommitTx(p)
    PROVE  NamesInv'
<1>1. \A q \in Procs, c \in CatIds :
         /\ wc'[p][c] \notin Names
         /\ q # p => wc'[q][c] = wc[q][c] /\ pc'[q] = pc[q] /\ wc'[q] = wc[q]
  BY DEF NamesInv, TypeInv, TypeOK, CommitTx, Done, Goto, NothingHeld
<1>2. \A c \in CatIds : cats'[c] = CASE wc[p][c] = Same -> cats[c]
                                     [] wc[p][c] = Gone -> NoName
                                     [] OTHER -> wc[p][c]
  BY DEF CommitTx
<1>3. \A c \in CatIds : wc[p][c] \in Names \cup {Same, Gone}
  BY DEF NamesInv, TypeInv, TypeOK
<1>4. ASSUME NEW c \in CatIds, NEW d \in CatIds, c # d, cats'[c] = cats'[d],
             cats'[c] # NoName
      PROVE  FALSE
  <2>1. CASE wc[p][c] = Same /\ wc[p][d] = Same
    BY <2>1, <1>2, <1>4 DEF NamesInv, CategoryNamesUnique
  <2>2. CASE wc[p][c] \in Names /\ wc[p][d] = Same
    BY <2>2, <1>2, <1>4 DEF NamesInv, Fresh
  <2>3. CASE wc[p][c] = Same /\ wc[p][d] \in Names
    BY <2>3, <1>2, <1>4 DEF NamesInv, Fresh
  <2>4. CASE wc[p][c] \in Names /\ wc[p][d] \in Names
    BY <2>4, <1>2, <1>4 DEF NamesInv, Alone
  <2> QED BY <2>1, <2>2, <2>3, <2>4, <1>2, <1>3, <1>4
<1>5. Fresh'
  <2> SUFFICES ASSUME NEW q \in Procs, NEW c \in CatIds, NEW d \in CatIds,
                      wc'[q][c] \in Names, d # c
               PROVE  cats'[d] # wc'[q][c]
    BY DEF Fresh
  <2>1. q # p /\ wc'[q][c] = wc[q][c]
    BY <1>1
  <2>2. CASE wc[p][d] = Same
    BY <2>1, <2>2, <1>2 DEF NamesInv, Fresh
  <2>3. CASE wc[p][d] = Gone
    BY <2>1, <2>3, <1>2
  <2>4. CASE wc[p][d] \in Names
    BY <2>1, <2>4, <1>2 DEF NamesInv, Alone
  <2> QED BY <2>2, <2>3, <2>4, <1>3
<1>6. Alone'
  BY <1>1 DEF NamesInv, Alone
<1>7. WritesLast' /\ DownIsIdle'
  BY <1>1 DEF NamesInv, WritesLast, DownIsIdle, CommitTx, Done, Goto, env, TypeInv, TypeOK
<1> QED BY <1>4, <1>5, <1>6, <1>7 DEF NamesInv, CategoryNamesUnique

LEMMA StepNames ==
    ASSUME NamesInv, Next
    PROVE  NamesInv'
<1>t. TypeInv /\ TypeInv'
  BY StepTyped DEF NamesInv
<1>u. \A p \in Procs : pc[p] # "idle" => up = "up"
  BY DEF NamesInv, DownIsIdle
<1>r. ASSUME NEW p \in Procs, Rollback(p) PROVE NamesInv'
  BY <1>t, <1>r, EndNames DEF Rollback, db
<1>1. ASSUME NEW p \in Procs, Accept(p) PROVE NamesInv'
  <2>1. \E point : Goto(p, point)
    BY <1>1 DEF Accept
  <2> QED BY <1>1, <1>t, <2>1, ReadNames DEF Accept, db
<1>2. ASSUME NEW p \in Procs, CreateStep(p) PROVE NamesInv'
  <2>1. CASE CreateCheck(p)
    BY <2>1, <1>t, <1>u, ReadNames DEF CreateCheck, Reads, db, env
  <2>2. CASE CreateInsert(p)
    <3>1. req[p].name \in Names
      BY <2>2, <1>t DEF CreateInsert, TypeInv, PointOK
    <3> QED BY <2>2, <3>1, <1>t, WriteNames DEF CreateInsert, db, env
  <2>3. CASE NameExists(p) \/ IndexConflict(p)
    BY <2>3, <1>r DEF NameExists, IndexConflict
  <2> QED BY <1>2, <2>1, <2>2, <2>3 DEF CreateStep
<1>3. ASSUME NEW p \in Procs, RenameStep(p) PROVE NamesInv'
  <2>1. CASE RenameGet(p) \/ RenameCheck(p)
    BY <2>1, <1>t, <1>u, ReadNames DEF RenameGet, RenameCheck, Reads, db, env
  <2>2. CASE RenameSave(p)
    <3>1. req[p].cat \in CatIds /\ held[p] \in Names
      BY <2>2, <1>t DEF RenameSave, TypeInv, PointOK
    <3> QED BY <2>2, <3>1, <1>t, WriteNames DEF RenameSave, db, env
  <2> QED BY <1>3, <2>1, <2>2 DEF RenameStep
<1>4. ASSUME NEW p \in Procs, DeleteStep(p) PROVE NamesInv'
  <2>1. CASE DeleteFind(p) \/ DeleteCount(p)
    BY <2>1, <1>t, <1>u, ReadNames DEF DeleteFind, DeleteCount, Reads, db, env
  <2>2. CASE DeleteRemove(p)
    <3>1. req[p].cat \in CatIds
      BY <2>2, <1>t DEF DeleteRemove, TypeInv, PointOK
    <3> QED BY <2>2, <3>1, <1>t, WriteNames DEF DeleteRemove, db, env
  <2>3. CASE NotFound(p) \/ CategoryInUse(p)
    BY <2>3, <1>r DEF NotFound, CategoryInUse
  <2> QED BY <1>4, <2>1, <2>2, <2>3 DEF DeleteStep
<1>5. ASSUME NEW p \in Procs, FileStep(p) PROVE NamesInv'
  <2>1. CASE FileAssign(p) \/ FileValidate(p)
    BY <2>1, <1>t, <1>u, ReadNames DEF FileAssign, FileValidate, Reads, db, env
  <2>2. CASE FileInsert(p)
    <3>1. /\ pc[p] = "insertm" /\ pc' = [pc EXCEPT ![p] = "commit"]
          /\ UNCHANGED <<cats, wc, up>>
      BY <2>2 DEF FileInsert, Goto, db, env
    <3>2. CategoryNamesUnique' /\ Fresh' /\ Alone'
      BY <3>1 DEF NamesInv, CategoryNamesUnique, Fresh, Alone
    <3>3. WritesLast' /\ DownIsIdle'
      BY <3>1, <1>t, <1>u DEF NamesInv, WritesLast, DownIsIdle, TypeInv, TypeOK
    <3> QED BY <3>2, <3>3, <1>t DEF NamesInv
  <2>3. CASE NoCategory(p) \/ ForeignKeyRefuses(p)
    BY <2>3, <1>r DEF NoCategory, ForeignKeyRefuses
  <2> QED BY <1>5, <2>1, <2>2, <2>3 DEF FileStep
<1>6. ASSUME NEW p \in Procs, CommitTx(p) PROVE NamesInv'
  BY <1>6, <1>t, CommitNames
<1>7. ASSUME NEW p \in Procs, Busy(p) \/ NoRoom(p) \/ StatementFails(p) PROVE NamesInv'
  BY <1>7, <1>r DEF Busy, NoRoom, StatementFails
<1>8. ASSUME Crash PROVE NamesInv'
  <2>1. /\ \A p \in Procs : /\ wc'[p] = NothingHeld /\ pc'[p] = "idle"
                            /\ \A c \in CatIds : wc'[p][c] \notin Names
        /\ UNCHANGED cats
    BY <1>8 DEF Crash, NothingHeld, db
  <2> QED BY <2>1, <1>t DEF NamesInv, CategoryNamesUnique, Fresh, Alone, WritesLast, DownIsIdle
<1>9. ASSUME Boot PROVE NamesInv'
  <2>1. /\ up = "down" /\ UNCHANGED <<wc, pc>>
    BY <1>9 DEF Boot, SeedPresent, SeedCreate, SeedRefused
  <2>2. \A p \in Procs : /\ wc[p] = NothingHeld /\ pc[p] = "idle"
                         /\ \A c \in CatIds : wc[p][c] \notin Names
    BY <2>1 DEF NamesInv, DownIsIdle, WritesLast, NothingHeld
  <2>3. Fresh' /\ Alone' /\ WritesLast' /\ DownIsIdle'
    BY <2>1, <2>2 DEF Fresh, Alone, WritesLast, DownIsIdle
  <2>4. CategoryNamesUnique'
    <3>1. CASE UNCHANGED cats
      BY <3>1 DEF NamesInv, CategoryNamesUnique
    <3>2. CASE SeedCreate
      <4>1. 0 \in CatIds
        BY DEF CatIds
      <4>2. \A c \in CatIds : cats'[c] = IF c = 0 THEN DefaultName ELSE cats[c]
        BY <3>2, <4>1 DEF SeedCreate, NamesInv, TypeInv, TypeOK
      <4> QED BY <3>2, <4>1, <4>2 DEF SeedCreate, IndexRefuses, NamesInv, CategoryNamesUnique
    <3> QED BY <1>9, <3>1, <3>2 DEF Boot, SeedPresent, SeedRefused, db
  <2> QED BY <2>3, <2>4, <1>t DEF NamesInv
<1>10. ASSUME Served PROVE NamesInv'
  BY <1>10, <1>t DEF Served, vars, NamesInv, CategoryNamesUnique, Fresh, Alone,
                    WritesLast, DownIsIdle
<1> QED
  BY <1>1, <1>2, <1>3, <1>4, <1>5, <1>6, <1>7, <1>8, <1>9, <1>10 DEF Next, Step

LEMMA InitNames == Init => NamesInv
<1> SUFFICES ASSUME Init PROVE NamesInv
  OBVIOUS
<1>1. TypeInv
  BY InitTyped
<1>2. \A p \in Procs : /\ wc[p] = NothingHeld /\ pc[p] = "idle"
                       /\ \A c \in CatIds : wc[p][c] \notin Names
  BY DEF Init, NothingHeld
<1>3. CategoryNamesUnique
  BY DEF Init, CategoryNamesUnique
<1> QED BY <1>1, <1>2, <1>3 DEF NamesInv, Fresh, Alone, WritesLast, DownIsIdle

LEMMA StutterNames == NamesInv /\ UNCHANGED vars => NamesInv'
BY StutterTyped DEF NamesInv, CategoryNamesUnique, Fresh, Alone, WritesLast, DownIsIdle, vars

(* On SQLite and on PostgreSQL at READ COMMITTED, whatever interleaves,    *)
(* fails or restarts, two committed categories never share a name.         *)
THEOREM NamesUniqueCorrect == Spec => []CategoryNamesUnique
<1>1. NamesInv /\ [Next]_vars => NamesInv'
  BY StepNames, StutterNames
<1>2. NamesInv => CategoryNamesUnique
  BY DEF NamesInv
<1> QED BY InitNames, <1>1, <1>2, PTL DEF Spec
-----------------------------------------------------------------------------
(* A transaction on SQLite: no other one commits while it is open, so what *)
(* its checks found still holds when it commits.                           *)
Opens(p) == \E c \in CatIds \ {0}, n \in Names :
    /\ wc[p] = [NothingHeld EXCEPT ![c] = n] /\ wm[p] = NothingFiled
    /\ cats[c] = NoName
Renames(p) == \E c \in CatIds, n \in Names :
    /\ wc[p] = [NothingHeld EXCEPT ![c] = n] /\ wm[p] = NothingFiled
    /\ cats[c] # NoName
Closes(p) == \E c \in CatIds :
    /\ wc[p] = [NothingHeld EXCEPT ![c] = Gone] /\ wm[p] = NothingFiled
    /\ cats[c] # NoName /\ Filed(c) = {}
Files(p) == \E m \in MatIds, c \in CatIds :
    /\ wc[p] = NothingHeld /\ wm[p] = [NothingFiled EXCEPT ![m] = c]
    /\ cats[c] # NoName /\ mats[m] = NoMat

CheckedTx(p) ==
    /\ pc[p] = "check" /\ req[p].op = "rename" => cats[req[p].cat] # NoName
    /\ pc[p] \in {"save", "count", "remove", "insertm"} => cats[req[p].cat] # NoName
    /\ pc[p] = "remove" => Filed(req[p].cat) = {}
    /\ pc[p] = "commit" => Opens(p) \/ Renames(p) \/ Closes(p) \/ Files(p)

\* An id that has not been drawn is nowhere.
NotDrawn == \A c \in CatIds : c > made => cats[c] = NoName /\ \A p \in Procs : wc[p][c] = Same

FiledLast == \A p \in Procs : pc[p] # "commit" => wm[p] = NothingFiled

(* On both drivers: a category on its way out and a material on its way in *)
(* exclude each other.                                                     *)
LocksExclude == \A p, q \in Procs, m \in MatIds, c \in CatIds :
    wm[q][m] = c => wc[p][c] # Gone
FiledExists == \A q \in Procs, m \in MatIds : wm[q][m] \in CatIds => cats[wm[q][m]] # NoName
GoneEmptied == \A p \in Procs, m \in MatIds, c \in CatIds :
    wc[p][c] = Gone /\ mats[m] = c => wm[p][m] = NoCat
RefInv == ReferencesExist /\ LocksExclude /\ FiledExists /\ GoneEmptied

LEMMA StepFiledLast ==
    ASSUME NamesInv, FiledLast, Next
    PROVE  FiledLast'
<1> USE DEF NamesInv, TypeInv, TypeOK
<1>1. ASSUME NEW p \in Procs, NEW point, Goto(p, point),
             \/ point = "commit"
             \/ wm' = [wm EXCEPT ![p] = NothingFiled]
             \/ pc[p] # "commit" /\ UNCHANGED wm,
             \A q \in Procs \ {p} : wm'[q] = wm[q]
      PROVE  FiledLast'
  BY <1>1 DEF Goto, FiledLast
<1>2. ASSUME NEW p \in Procs, Done(p) PROVE FiledLast'
  BY <1>1, <1>2 DEF Done
<1>3. ASSUME NEW p \in Procs, Accept(p) PROVE FiledLast'
  BY <1>1, <1>3 DEF Accept
<1>4. ASSUME NEW p \in Procs,
             \/ CreateCheck(p) \/ RenameGet(p) \/ RenameCheck(p) \/ DeleteFind(p)
             \/ DeleteCount(p) \/ FileAssign(p) \/ FileValidate(p)
      PROVE  FiledLast'
  BY <1>1, <1>4 DEF CreateCheck, RenameGet, RenameCheck, DeleteFind, DeleteCount, FileAssign,
                    FileValidate, Reads
<1>5. ASSUME NEW p \in Procs,
             CreateInsert(p) \/ RenameSave(p) \/ DeleteRemove(p) \/ FileInsert(p)
      PROVE  FiledLast'
  <2>1. Goto(p, "commit") /\ \A q \in Procs \ {p} : wm'[q] = wm[q]
    BY <1>5 DEF CreateInsert, RenameSave, DeleteRemove, FileInsert
  <2> QED BY <1>1, <2>1
<1>6. ASSUME Crash PROVE FiledLast'
  BY <1>6 DEF Crash, FiledLast
<1>7. ASSUME Boot \/ Served PROVE FiledLast'
  BY <1>7 DEF Boot, SeedPresent, SeedCreate, SeedRefused, Served, vars, FiledLast
<1> QED
  BY <1>2, <1>3, <1>4, <1>5, <1>6, <1>7
     DEF Next, Step, CreateStep, RenameStep, DeleteStep, FileStep, NameExists, IndexConflict,
         NotFound, CategoryInUse, NoCategory, ForeignKeyRefuses, CommitTx, Busy, NoRoom,
         StatementFails, Rollback

LEMMA OtherChecked ==
    ASSUME NEW q \in Procs, CheckedTx(q), UNCHANGED <<cats, mats>>,
           pc'[q] = pc[q], req'[q] = req[q], wc'[q] = wc[q], wm'[q] = wm[q]
    PROVE  CheckedTx(q)'
<1>1. Opens(q) => Opens(q)'
  BY DEF Opens
<1>2. Renames(q) => Renames(q)'
  BY DEF Renames
<1>3. Closes(q) => Closes(q)'
  BY DEF Closes, Filed
<1>4. Files(q) => Files(q)'
  BY DEF Files
<1> QED BY <1>1, <1>2, <1>3, <1>4 DEF CheckedTx, Filed

LEMMA CommitChecked ==
    ASSUME Driver = "sqlite", NamesInv, NEW p \in Procs, CommitTx(p),
           NEW q \in Procs \ {p}, CheckedTx(q)
    PROVE  CheckedTx(q)'
<1>1. pc'[q] = pc[q] /\ req'[q] = req[q] /\ wc'[q] = wc[q] /\ wm'[q] = wm[q]
  BY DEF CommitTx, Done, Goto, NamesInv, TypeInv, TypeOK
<1>2. CASE Wrote(p)
  BY <1>1, <1>2 DEF CommitTx, MayCommit, Others, CheckedTx
<1>3. CASE ~Wrote(p)
  <2>1. wc[p] = NothingHeld /\ wm[p] = NothingFiled
    BY <1>3 DEF Wrote
  <2>2. cats' = cats
    BY <2>1 DEF CommitTx, NothingHeld, NamesInv, TypeInv, TypeOK
  <2>3. mats' = mats
    BY <2>1 DEF CommitTx, NothingFiled, NamesInv, TypeInv, TypeOK
  <2> QED BY <1>1, <2>2, <2>3, OtherChecked
<1> QED BY <1>2, <1>3

\* An uncommitted category, seen cell by cell.
LEMMA OneWrite ==
    ASSUME NamesInv, NEW p \in Procs, pc[p] # "commit", NEW c \in CatIds, NEW n,
           wc' = [wc EXCEPT ![p][c] = n]
    PROVE  /\ wc'[p] = [NothingHeld EXCEPT ![c] = n]
           /\ \A q \in Procs \ {p} : wc'[q] = wc[q]
BY DEF NamesInv, WritesLast, TypeInv, TypeOK

LEMMA StepNotDrawn ==
    ASSUME NamesInv, FiledLast, NotDrawn, \A p \in Procs : CheckedTx(p), Next
    PROVE  NotDrawn'
<1> USE DEF NamesInv, TypeInv, TypeOK
<1>0. /\ made \in 0..MaxCats /\ MaxCats \in Nat
      /\ \A c \in CatIds : c \in Int
  BY DEF CatIds
<1>1. ASSUME UNCHANGED <<cats, made, wc>> PROVE NotDrawn'
  BY <1>1 DEF NotDrawn
<1>2. ASSUME NEW p \in Procs, Done(p), UNCHANGED made,
             \A c \in CatIds : c > made => cats'[c] = NoName
      PROVE  NotDrawn'
  BY <1>2 DEF Done, NotDrawn, NothingHeld
<1>3. ASSUME NEW p \in Procs, CreateInsert(p) PROVE NotDrawn'
  BY <1>0, <1>3 DEF CreateInsert, NotDrawn, db
<1>4. ASSUME NEW p \in Procs, RenameSave(p) \/ DeleteRemove(p) PROVE NotDrawn'
  <2>1. req[p].cat \in CatIds /\ cats[req[p].cat] # NoName
    BY <1>4 DEF RenameSave, DeleteRemove, PointOK, CheckedTx
  <2>2. \A q \in Procs, c \in CatIds : c # req[p].cat => wc'[q][c] = wc[q][c]
    <3>1. \E n : wc' = [wc EXCEPT ![p][req[p].cat] = n]
      BY <1>4 DEF RenameSave, DeleteRemove
    <3> QED BY <3>1
  <2>3. UNCHANGED <<cats, made>>
    BY <1>4 DEF RenameSave, DeleteRemove, db
  <2> QED BY <2>1, <2>2, <2>3 DEF NotDrawn
<1>5. ASSUME NEW p \in Procs, CommitTx(p) PROVE NotDrawn'
  <2>1. \A c \in CatIds : c > made => cats'[c] = NoName
    BY <1>5 DEF CommitTx, NotDrawn
  <2> QED BY <1>2, <1>5, <2>1 DEF CommitTx
<1>6. ASSUME NEW p \in Procs, Rollback(p) PROVE NotDrawn'
  BY <1>2, <1>6 DEF Rollback, NotDrawn, db
<1>7. ASSUME Crash PROVE NotDrawn'
  BY <1>7 DEF Crash, NotDrawn, NothingHeld, db
<1>8. ASSUME SeedCreate PROVE NotDrawn'
  BY <1>0, <1>8 DEF SeedCreate, NotDrawn
<1>9. ASSUME NEW p \in Procs, Reads(p) \/ Accept(p) \/ FileInsert(p) PROVE NotDrawn'
  BY <1>1, <1>9 DEF Reads, Accept, FileInsert, db
<1>10. ASSUME SeedPresent \/ SeedRefused \/ Served PROVE NotDrawn'
  BY <1>1, <1>10 DEF SeedPresent, SeedRefused, Served, vars, db
<1> QED
  BY <1>3, <1>4, <1>5, <1>6, <1>7, <1>8, <1>9, <1>10
     DEF Next, Step, CreateStep, RenameStep, DeleteStep, FileStep, NameExists, IndexConflict,
         NotFound, CategoryInUse, NoCategory, ForeignKeyRefuses, Busy, NoRoom,
         StatementFails, Boot, CreateCheck, RenameGet, RenameCheck, DeleteFind, DeleteCount,
         FileAssign, FileValidate

LEMMA StepChecked ==
    ASSUME Driver = "sqlite", NamesInv, FiledLast, NotDrawn,
           \A p \in Procs : CheckedTx(p), Next
    PROVE  \A p \in Procs : CheckedTx(p)'
<1> USE DEF NamesInv, TypeInv, TypeOK
<1>1. ASSUME NEW p \in Procs, CheckedTx(p)', UNCHANGED <<cats, mats>>,
             \A q \in Procs \ {p} : /\ pc'[q] = pc[q] /\ req'[q] = req[q]
                                    /\ wc'[q] = wc[q] /\ wm'[q] = wm[q]
      PROVE  \A q \in Procs : CheckedTx(q)'
  BY <1>1, OtherChecked
<1>2. ASSUME NEW p \in Procs, Done(p) PROVE CheckedTx(p)'
  BY <1>2 DEF Done, Goto, CheckedTx
<1>3. ASSUME NEW p \in Procs, Rollback(p) PROVE \A q \in Procs : CheckedTx(q)'
  BY <1>1, <1>2, <1>3 DEF Rollback, Done, Goto, db
<1>4. ASSUME NEW p \in Procs, CommitTx(p) PROVE \A q \in Procs : CheckedTx(q)'
  BY <1>2, <1>4, CommitChecked DEF CommitTx
<1>5. ASSUME NEW p \in Procs, Accept(p) PROVE \A q \in Procs : CheckedTx(q)'
  <2>1. PICK r \in Requests : req' = [req EXCEPT ![p] = r] /\ Goto(p, FirstPoint(r.op))
    BY <1>5 DEF Accept
  <2>2. CheckedTx(p)'
    BY <2>1, RequestsTyped DEF Goto, FirstPoint, CheckedTx
  <2> QED BY <1>1, <1>5, <2>1, <2>2 DEF Accept, Goto, db
<1>6. ASSUME NEW p \in Procs,
             \/ CreateCheck(p) \/ RenameGet(p) \/ RenameCheck(p) \/ DeleteFind(p)
             \/ DeleteCount(p) \/ FileAssign(p) \/ FileValidate(p)
      PROVE  \A q \in Procs : CheckedTx(q)'
  <2>1. CheckedTx(p)'
    <3>1. CASE CreateCheck(p)
      BY <3>1 DEF CreateCheck, Goto, CheckedTx
    <3>2. CASE RenameGet(p)
      BY <3>2 DEF RenameGet, Goto, CheckedTx, Reads, db
    <3>3. CASE RenameCheck(p)
      BY <3>3 DEF RenameCheck, Goto, CheckedTx, Reads, db
    <3>4. CASE DeleteFind(p)
      BY <3>4 DEF DeleteFind, Goto, CheckedTx, Reads, db
    <3>7. CASE DeleteCount(p)
      BY <3>7 DEF DeleteCount, Goto, CheckedTx, Reads, db, Filed
    <3>5. CASE FileAssign(p)
      BY <3>5 DEF FileAssign, Goto, CheckedTx
    <3>6. CASE FileValidate(p)
      BY <3>6 DEF FileValidate, Goto, CheckedTx, Reads, db, Categories
    <3> QED BY <1>6, <3>1, <3>2, <3>3, <3>4, <3>5, <3>6, <3>7
  <2>2. Reads(p) /\ \A q \in Procs \ {p} : pc'[q] = pc[q] /\ req'[q] = req[q]
    BY <1>6 DEF CreateCheck, RenameGet, RenameCheck, DeleteFind, DeleteCount, FileAssign,
                FileValidate, Goto
  <2> QED BY <1>1, <2>1, <2>2 DEF Reads, db
<1>7. ASSUME NEW p \in Procs, CreateInsert(p) PROVE \A q \in Procs : CheckedTx(q)'
  <2> DEFINE c == made + 1
             n == req[p].name
  <2>1. /\ pc[p] = "insert" /\ pc'[p] = "commit" /\ c \in CatIds /\ n \in Names
        /\ wc' = [wc EXCEPT ![p][c] = n] /\ UNCHANGED <<cats, mats, req, wm>>
        /\ \A q \in Procs \ {p} : pc'[q] = pc[q]
    BY <1>7 DEF CreateInsert, PointOK, Goto, db
  <2>2. c \in CatIds \ {0} /\ cats[c] = NoName
    BY <2>1 DEF NotDrawn, CatIds
  <2> HIDE DEF c, n
  <2>3. wc'[p] = [NothingHeld EXCEPT ![c] = n] /\ \A q \in Procs \ {p} : wc'[q] = wc[q]
    BY <2>1, OneWrite
  <2>4. Opens(p)'
    BY <2>1, <2>2, <2>3 DEF Opens, FiledLast
  <2> QED BY <1>1, <2>1, <2>3, <2>4 DEF CheckedTx
<1>8. ASSUME NEW p \in Procs, RenameSave(p) PROVE \A q \in Procs : CheckedTx(q)'
  <2>1. PICK c \in CatIds : c = req[p].cat
    BY <1>8 DEF RenameSave, PointOK
  <2>2. /\ pc[p] = "save" /\ pc'[p] = "commit" /\ held[p] \in Names
        /\ wc' = [wc EXCEPT ![p][c] = held[p]] /\ UNCHANGED <<cats, mats, req, wm>>
        /\ \A q \in Procs \ {p} : pc'[q] = pc[q]
    BY <1>8, <2>1 DEF RenameSave, PointOK, Goto, db
  <2>3. cats[c] # NoName
    BY <2>1, <2>2 DEF CheckedTx
  <2>4. wc'[p] = [NothingHeld EXCEPT ![c] = held[p]] /\ \A q \in Procs \ {p} : wc'[q] = wc[q]
    BY <2>2, OneWrite
  <2>5. Renames(p)'
    BY <2>2, <2>3, <2>4 DEF Renames, FiledLast
  <2> QED BY <1>1, <2>2, <2>4, <2>5 DEF CheckedTx
<1>9. ASSUME NEW p \in Procs, DeleteRemove(p) PROVE \A q \in Procs : CheckedTx(q)'
  <2>1. PICK c \in CatIds : c = req[p].cat
    BY <1>9 DEF DeleteRemove, PointOK
  <2>2. /\ pc[p] = "remove" /\ pc'[p] = "commit"
        /\ wc' = [wc EXCEPT ![p][c] = Gone] /\ UNCHANGED <<cats, mats, req>>
        /\ \A q \in Procs \ {p} : pc'[q] = pc[q] /\ wm'[q] = wm[q]
    BY <1>9, <2>1 DEF DeleteRemove, Goto, db
  <2>3. cats[c] # NoName /\ Filed(c) = {}
    BY <2>1, <2>2 DEF CheckedTx
  <2>4. wm'[p] = NothingFiled
    BY <1>9, <2>1, <2>3 DEF DeleteRemove, NothingFiled
  <2>5. wc'[p] = [NothingHeld EXCEPT ![c] = Gone] /\ \A q \in Procs \ {p} : wc'[q] = wc[q]
    BY <2>2, OneWrite
  <2>6. Filed(c)' = {} /\ cats'[c] # NoName
    BY <2>2, <2>3 DEF Filed
  <2>7. Closes(p)'
    BY <2>4, <2>5, <2>6 DEF Closes
  <2> QED BY <1>1, <2>2, <2>5, <2>7 DEF CheckedTx
<1>10. ASSUME NEW p \in Procs, FileInsert(p) PROVE \A q \in Procs : CheckedTx(q)'
  <2>1. PICK c \in CatIds : c = req[p].cat
    BY <1>10 DEF FileInsert, PointOK
  <2>2. PICK m \in MatIds : mats[m] = NoMat /\ wm' = [wm EXCEPT ![p][m] = c]
    BY <1>10, <2>1 DEF FileInsert
  <2>3. /\ pc[p] = "insertm" /\ pc'[p] = "commit" /\ UNCHANGED <<cats, mats, req, wc>>
        /\ \A q \in Procs \ {p} : pc'[q] = pc[q] /\ wm'[q] = wm[q]
    BY <1>10, <2>2 DEF FileInsert, Goto, db
  <2>4. cats[c] # NoName
    BY <2>1, <2>3 DEF CheckedTx
  <2>5. wm'[p] = [NothingFiled EXCEPT ![m] = c] /\ wc'[p] = NothingHeld
    BY <2>2, <2>3 DEF FiledLast, WritesLast
  <2>6. Files(p)'
    BY <2>2, <2>3, <2>4, <2>5 DEF Files
  <2> QED BY <1>1, <2>3, <2>6 DEF CheckedTx
<1>11. ASSUME Crash PROVE \A q \in Procs : CheckedTx(q)'
  BY <1>11 DEF Crash, CheckedTx
<1>12. ASSUME Boot PROVE \A q \in Procs : CheckedTx(q)'
  <2>1. \A q \in Procs : pc'[q] = "idle"
    BY <1>12 DEF Boot, SeedPresent, SeedCreate, SeedRefused, DownIsIdle
  <2> QED BY <2>1 DEF CheckedTx
<1>13. ASSUME Served PROVE \A q \in Procs : CheckedTx(q)'
  BY <1>13, OtherChecked DEF Served, vars
<1> QED
  BY <1>3, <1>4, <1>5, <1>6, <1>7, <1>8, <1>9, <1>10, <1>11, <1>12, <1>13
     DEF Next, Step, CreateStep, RenameStep, DeleteStep, FileStep, NameExists, IndexConflict,
         NotFound, CategoryInUse, NoCategory, ForeignKeyRefuses, Busy, NoRoom,
         StatementFails

(* The commit of a checked transaction is one step of CategoryBook.        *)
LEMMA CommitBooks ==
    ASSUME NamesInv, NEW p \in Procs, CommitTx(p), CheckedTx(p)
    PROVE  Book!Next \/ UNCHANGED <<cats, mats>>
<1> USE DEF NamesInv, TypeInv, TypeOK
<1>1. /\ cats' = [c \in CatIds |-> CASE wc[p][c] = Same -> cats[c]
                                     [] wc[p][c] = Gone -> NoName
                                     [] OTHER -> wc[p][c]]
      /\ mats' = [m \in MatIds |-> IF wm[p][m] = Same THEN mats[m] ELSE wm[p][m]]
  BY DEF CommitTx
<1>2. ASSUME wm[p] = NothingFiled PROVE mats' = mats
  BY <1>1, <1>2 DEF NothingFiled
<1>3. ASSUME NEW c \in CatIds, NEW n \in Names \cup {Gone},
             wc[p] = [NothingHeld EXCEPT ![c] = n]
      PROVE  cats' = [cats EXCEPT ![c] = IF n = Gone THEN NoName ELSE n]
  <2>1. cats' = [d \in CatIds |-> IF d = c THEN IF n = Gone THEN NoName ELSE n ELSE cats[d]]
    <3>1. \A d \in CatIds : wc[p][d] = IF d = c THEN n ELSE Same
      BY <1>3 DEF NothingHeld
    <3>2. n # Same
      OBVIOUS
    <3> QED BY <1>1, <3>1, <3>2
  <2> QED BY <2>1
<1>4. ASSUME NEW c \in CatIds, NEW n \in Names, wc[p] = [NothingHeld EXCEPT ![c] = n],
             cats[c] # n
      PROVE  Book!Unused(n)
  <2>1. wc[p][c] = n
    BY <1>4 DEF NothingHeld
  <2>2. \A d \in CatIds \ {c} : cats[d] # n
    BY <2>1 DEF Fresh
  <2> QED BY <1>4, <2>2 DEF Book!Unused
<1>5. CASE Opens(p)
  <2>1. PICK c \in CatIds \ {0}, n \in Names :
          /\ wc[p] = [NothingHeld EXCEPT ![c] = n] /\ wm[p] = NothingFiled
          /\ cats[c] = NoName
    BY <1>5 DEF Opens
  <2>2. cats' = [cats EXCEPT ![c] = n] /\ mats' = mats /\ Book!Unused(n)
    BY <1>2, <1>3, <1>4, <2>1
  <2>3. Book!Open(c, n)
    BY <2>1, <2>2 DEF Book!Open
  <2> QED BY <2>3 DEF Book!Next
<1>6. CASE Renames(p)
  <2>1. PICK c \in CatIds, n \in Names :
          /\ wc[p] = [NothingHeld EXCEPT ![c] = n] /\ wm[p] = NothingFiled
          /\ cats[c] # NoName
    BY <1>6 DEF Renames
  <2>2. cats' = [cats EXCEPT ![c] = n] /\ mats' = mats
    BY <1>2, <1>3, <2>1
  <2>3. CASE cats[c] = n
    BY <2>2, <2>3
  <2>4. CASE cats[c] # n
    <3>1. Book!Unused(n)
      BY <1>4, <2>1, <2>4
    <3>2. Book!Rename(c, n)
      BY <2>1, <2>2, <3>1 DEF Book!Rename
    <3> QED BY <3>2 DEF Book!Next
  <2> QED BY <2>3, <2>4
<1>7. CASE Closes(p)
  <2>1. PICK c \in CatIds :
          /\ wc[p] = [NothingHeld EXCEPT ![c] = Gone] /\ wm[p] = NothingFiled
          /\ cats[c] # NoName /\ Filed(c) = {}
    BY <1>7 DEF Closes
  <2>2. cats' = [cats EXCEPT ![c] = NoName] /\ mats' = mats
    BY <1>2, <1>3, <2>1
  <2>3. Book!Close(c)
    BY <2>1, <2>2 DEF Book!Close, Filed
  <2> QED BY <2>3 DEF Book!Next
<1>8. CASE Files(p)
  <2>1. PICK m \in MatIds, c \in CatIds :
          /\ wc[p] = NothingHeld /\ wm[p] = [NothingFiled EXCEPT ![m] = c]
          /\ cats[c] # NoName /\ mats[m] = NoMat
    BY <1>8 DEF Files
  <2>2. cats' = cats
    BY <1>1, <2>1 DEF NothingHeld
  <2>3. mats' = [mats EXCEPT ![m] = c]
    BY <1>1, <2>1 DEF NothingFiled
  <2>4. Book!File(m, c)
    BY <2>1, <2>2, <2>3 DEF Book!File
  <2> QED BY <2>4 DEF Book!Next
<1> QED BY <1>5, <1>6, <1>7, <1>8 DEF CommitTx, CheckedTx

LEMMA StepBooks ==
    ASSUME NamesInv, \A p \in Procs : CheckedTx(p), Next
    PROVE  Book!Next \/ UNCHANGED <<cats, mats>>
<1>1. ASSUME NEW p \in Procs, CommitTx(p) PROVE Book!Next \/ UNCHANGED <<cats, mats>>
  BY <1>1, CommitBooks
<1>2. ASSUME SeedCreate PROVE Book!Next
  <2>1. 0 \in CatIds /\ DefaultName # NoName
    BY DEF CatIds
  <2>2. Book!Unused(DefaultName)
    BY <1>2, <2>1 DEF SeedCreate, IndexRefuses, Book!Unused
  <2>3. Book!Seed
    BY <1>2, <2>2 DEF SeedCreate, Book!Seed
  <2> QED BY <2>3 DEF Book!Next
<1>3. ASSUME NEW p \in Procs, Rollback(p) PROVE UNCHANGED <<cats, mats>>
  BY <1>3 DEF Rollback, db
<1> QED
  BY <1>1, <1>2, <1>3
     DEF Next, Step, CreateStep, RenameStep, DeleteStep, FileStep, NameExists, IndexConflict,
         NotFound, CategoryInUse, NoCategory, ForeignKeyRefuses, Busy, NoRoom,
         StatementFails, Accept, Crash, Boot, SeedPresent, SeedRefused, Served, vars, db,
         CreateCheck, CreateInsert, RenameGet, RenameCheck, RenameSave, DeleteFind, DeleteCount,
         DeleteRemove, FileAssign, FileValidate, FileInsert, Reads

SqliteInv == NamesInv /\ FiledLast /\ NotDrawn /\ \A p \in Procs : CheckedTx(p)

LEMMA SqliteStep == ASSUME Driver = "sqlite" PROVE SqliteInv /\ [Next]_vars => SqliteInv'
<1>1. ASSUME SqliteInv, Next PROVE SqliteInv'
  BY <1>1, StepNames, StepFiledLast, StepNotDrawn, StepChecked DEF SqliteInv
<1>2. ASSUME SqliteInv, UNCHANGED vars PROVE SqliteInv'
  <2>1. NamesInv'
    BY <1>2, StutterNames DEF SqliteInv
  <2>2. FiledLast' /\ NotDrawn'
    BY <1>2 DEF SqliteInv, FiledLast, NotDrawn, vars
  <2>3. \A p \in Procs : CheckedTx(p)'
    BY <1>2, OtherChecked DEF SqliteInv, vars
  <2> QED BY <2>1, <2>2, <2>3 DEF SqliteInv
<1> QED BY <1>1, <1>2

LEMMA SqliteInit == Init => SqliteInv
<1>1. Init => NamesInv
  BY InitNames
<1>2. Init => FiledLast /\ NotDrawn /\ \A p \in Procs : CheckedTx(p)
  BY DEF Init, FiledLast, NotDrawn, CheckedTx, NothingHeld
<1> QED BY <1>1, <1>2 DEF SqliteInv

(* On SQLite the catalog implements the category book: a commit is one of  *)
(* its steps, so is the seeding, everything else leaves the tables alone.  *)
THEOREM BookImplemented == ASSUME Driver = "sqlite" PROVE Spec => ImplementsBook
<1>1. SqliteInv /\ [Next]_vars => [Book!Next]_<<cats, mats>>
  BY StepBooks DEF SqliteInv, vars
<1>2. Init => Book!Init
  BY DEF Init, Book!Init
<1> QED BY <1>1, <1>2, SqliteInit, SqliteStep, PTL DEF Spec, ImplementsBook, Book!Spec

-----------------------------------------------------------------------------
(* Both drivers.                                                           *)
CheckedIfSqlite == Driver = "sqlite" => NotDrawn /\ \A p \in Procs : CheckedTx(p)

RefAll == NamesInv /\ FiledLast /\ CheckedIfSqlite /\ RefInv

\* A step that commits nothing and writes nothing of its own.
LEMMA QuietRefs ==
    ASSUME RefInv, UNCHANGED mats,
           \A c \in CatIds : cats[c] # NoName => cats'[c] # NoName,
           \A p \in Procs :
              \/ wc'[p] = wc[p] /\ wm'[p] = wm[p]
              \/ wc'[p] = NothingHeld /\ wm'[p] = NothingFiled
    PROVE  RefInv'
<1>1. /\ \A p \in Procs, c \in CatIds : wc'[p][c] = wc[p][c] \/ wc'[p][c] = Same
      /\ \A p \in Procs, m \in MatIds : wm'[p][m] = wm[p][m] \/ wm'[p][m] = Same
  BY DEF NothingHeld, NothingFiled
<1>2. Same \notin CatIds /\ Same # Gone
  OBVIOUS
<1>3. ReferencesExist'
  BY DEF RefInv, ReferencesExist
<1>4. LocksExclude'
  BY <1>1, <1>2 DEF RefInv, LocksExclude
<1>5. FiledExists'
  BY <1>1, <1>2 DEF RefInv, FiledExists
<1>6. GoneEmptied'
  <2> SUFFICES ASSUME NEW p \in Procs, NEW m \in MatIds, NEW c \in CatIds,
                      wc'[p][c] = Gone, mats[m] = c
               PROVE  wm'[p][m] = NoCat
    BY DEF GoneEmptied
  <2>1. wc'[p] = wc[p] /\ wm'[p] = wm[p]
    BY <1>2 DEF NothingHeld
  <2> QED BY <2>1 DEF RefInv, GoneEmptied
<1> QED BY <1>3, <1>4, <1>5, <1>6 DEF RefInv

LEMMA NameWrittenRefs ==
    ASSUME RefAll, NEW p \in Procs, NEW c \in CatIds, NEW n \in Names, pc[p] # "commit",
           wc' = [wc EXCEPT ![p][c] = n], UNCHANGED <<cats, mats, wm>>
    PROVE  RefInv'
<1>1. \A q \in Procs, d \in CatIds : wc'[q][d] = Gone => wc[q][d] = Gone
  BY DEF RefAll, NamesInv, TypeInv, TypeOK
<1> QED BY <1>1 DEF RefAll, RefInv, ReferencesExist, LocksExclude, FiledExists, GoneEmptied

LEMMA RemoveRefs ==
    ASSUME RefAll, NEW p \in Procs, DeleteRemove(p)
    PROVE  RefInv'
<1>0. req[p].cat \in CatIds
  BY DEF DeleteRemove, RefAll, NamesInv, TypeInv, PointOK
<1>1. PICK c \in CatIds : c = req[p].cat
  BY <1>0
<1>t. /\ wc \in [Procs -> [CatIds -> Names \cup {Same, Gone}]]
      /\ wm \in [Procs -> [MatIds -> CatIds \cup {NoCat, Same}]]
      /\ cats \in [CatIds -> Names \cup {NoName}]
      /\ NamesInv /\ WritesLast /\ CheckedIfSqlite
      /\ ReferencesExist /\ LocksExclude /\ FiledExists /\ GoneEmptied
  BY DEF RefAll, RefInv, NamesInv, TypeInv, TypeOK
<1>2. PICK enforced \in ForeignKeys :
        wm' = [wm EXCEPT ![p] = [m \in MatIds |->
                  IF enforced /\ m \in Filed(c) THEN NoCat ELSE Same]]
  BY <1>1 DEF DeleteRemove
<1>3. /\ pc[p] = "remove" /\ MayWriteCat(p, c, Gone)
      /\ wc' = [wc EXCEPT ![p][c] = Gone] /\ UNCHANGED <<cats, mats>>
  BY <1>t, <1>1 DEF DeleteRemove, db
<1>4. /\ \A m \in MatIds : wm'[p][m] \in {NoCat, Same}
      /\ \A q \in Procs \ {p} : wm'[q] = wm[q] /\ wc'[q] = wc[q]
      /\ \A d \in CatIds : wc'[p][d] = Gone => d = c
  <2>1. \A m \in MatIds : wm'[p][m] \in {NoCat, Same}
    BY <1>t, <1>2
  <2>2. \A q \in Procs \ {p} : wm'[q] = wm[q] /\ wc'[q] = wc[q]
    BY <1>t, <1>2, <1>3
  <2>3. wc'[p] = [NothingHeld EXCEPT ![c] = Gone]
    <3>1. wc[p] = NothingHeld
      BY <1>3, <1>t DEF WritesLast
    <3> QED BY <1>t, <1>3, <3>1
  <2>4. \A d \in CatIds : wc'[p][d] = Gone => d = c
    BY <1>t, <2>3 DEF NothingHeld
  <2> QED BY <2>1, <2>2, <2>4
<1>5. \A m \in MatIds : mats[m] = c => wm'[p][m] = NoCat
  <2>1. CASE Driver = "sqlite"
    <3>1. Filed(c) = {}
      BY <1>t, <1>1, <1>3, <2>1 DEF CheckedIfSqlite, CheckedTx
    <3> QED BY <1>t, <3>1 DEF Filed
  <2>2. CASE Driver = "postgres"
    <3>1. enforced = TRUE
      BY <1>t, <2>2 DEF ForeignKeys
    <3> QED BY <1>t, <1>2, <3>1 DEF Filed
  <2> QED BY <2>1, <2>2
<1>6. \A q \in Procs \ {p}, m \in MatIds : wm[q][m] # c
  <2> SUFFICES ASSUME NEW q \in Procs \ {p} PROVE \A m \in MatIds : wm[q][m] # c
    OBVIOUS
  <2>1. CASE Driver = "sqlite"
    <3>1. wm[q] = NothingFiled
      BY <1>t, <1>3, <2>1 DEF MayWriteCat, Others, Wrote
    <3> QED BY <1>t, <3>1 DEF NothingFiled
  <2>2. CASE Driver = "postgres"
    <3>1. Renamed(c, Gone)
      BY <1>t DEF Renamed
    <3>2. ~RowReferenced(q, c)
      BY <1>t, <1>3, <2>2, <3>1 DEF MayWriteCat, Others
    <3> QED BY <1>t, <3>2 DEF RowReferenced
  <2> QED BY <2>1, <2>2
<1>7. ReferencesExist'
  BY <1>t, <1>3 DEF ReferencesExist
<1>8. LocksExclude'
  <2> SUFFICES ASSUME NEW r \in Procs, NEW q \in Procs, NEW m \in MatIds, NEW d \in CatIds,
                      wm'[q][m] = d
               PROVE  wc'[r][d] # Gone
    BY DEF LocksExclude
  <2>1. q # p /\ wm[q][m] = d
    BY <1>t, <1>4
  <2>2. CASE r = p
    BY <1>t, <1>4, <1>6, <2>1, <2>2
  <2>3. CASE r # p
    BY <1>t, <1>4, <2>1, <2>3 DEF LocksExclude
  <2> QED BY <2>2, <2>3
<1>9. FiledExists'
  <2> SUFFICES ASSUME NEW q \in Procs, NEW m \in MatIds, wm'[q][m] \in CatIds
               PROVE  cats[wm'[q][m]] # NoName
    BY <1>t, <1>3 DEF FiledExists
  <2>1. q # p /\ wm'[q][m] = wm[q][m]
    BY <1>t, <1>4
  <2> QED BY <1>t, <2>1 DEF FiledExists
<1>10. GoneEmptied'
  <2> SUFFICES ASSUME NEW q \in Procs, NEW m \in MatIds, NEW d \in CatIds,
                      wc'[q][d] = Gone, mats[m] = d
               PROVE  wm'[q][m] = NoCat
    BY <1>3 DEF GoneEmptied
  <2>1. CASE q = p
    BY <1>4, <1>5, <2>1
  <2>2. CASE q # p
    BY <1>t, <1>4, <2>2 DEF GoneEmptied
  <2> QED BY <2>1, <2>2
<1> QED BY <1>7, <1>8, <1>9, <1>10 DEF RefInv

LEMMA InsertRefs ==
    ASSUME RefAll, NEW p \in Procs, FileInsert(p)
    PROVE  RefInv'
<1>0. req[p].cat \in CatIds
  BY DEF FileInsert, RefAll, NamesInv, TypeInv, PointOK
<1>1. PICK c \in CatIds : c = req[p].cat
  BY <1>0
<1>t. /\ wc \in [Procs -> [CatIds -> Names \cup {Same, Gone}]]
      /\ wm \in [Procs -> [MatIds -> CatIds \cup {NoCat, Same}]]
      /\ cats \in [CatIds -> Names \cup {NoName}]
      /\ NamesInv /\ WritesLast /\ CheckedIfSqlite
      /\ ReferencesExist /\ LocksExclude /\ FiledExists /\ GoneEmptied
  BY DEF RefAll, RefInv, NamesInv, TypeInv, TypeOK
<1>2. PICK m \in MatIds : mats[m] = NoMat /\ wm' = [wm EXCEPT ![p][m] = c]
  BY <1>t, <1>1 DEF FileInsert
<1>3. /\ pc[p] = "insertm" /\ MayFile(p, c) /\ UNCHANGED <<cats, mats, wc>>
      /\ \E enforced \in ForeignKeys : enforced => c \in Categories
  BY <1>t, <1>1 DEF FileInsert, db
<1>4. cats[c] # NoName
  <2>1. CASE Driver = "sqlite"
    BY <1>t, <1>1, <1>3, <2>1 DEF CheckedIfSqlite, CheckedTx
  <2>2. CASE Driver = "postgres"
    BY <1>t, <1>3, <2>2 DEF ForeignKeys, Categories
  <2> QED BY <2>1, <2>2
<1>5. \A q \in Procs : wc[q][c] # Gone
  <2> SUFFICES ASSUME NEW q \in Procs PROVE wc[q][c] # Gone
    OBVIOUS
  <2>1. CASE q = p
    BY <1>t, <1>3, <2>1 DEF WritesLast, NothingHeld
  <2>2. CASE q # p /\ Driver = "sqlite"
    <3>1. wc[q] = NothingHeld
      BY <1>t, <1>3, <2>2 DEF MayFile, Others, Wrote
    <3> QED BY <1>t, <3>1 DEF NothingHeld
  <2>3. CASE q # p /\ Driver = "postgres"
    BY <1>t, <1>3, <2>3 DEF MayFile, Others
  <2> QED BY <2>1, <2>2, <2>3
<1>6. \A q \in Procs, k \in MatIds : wm'[q][k] = IF q = p /\ k = m THEN c ELSE wm[q][k]
  BY <1>t, <1>2, UpdatedTwice
<1>7. ReferencesExist'
  BY <1>t, <1>3 DEF ReferencesExist
<1>8. LocksExclude'
  <2> SUFFICES ASSUME NEW r \in Procs, NEW q \in Procs, NEW k \in MatIds, NEW d \in CatIds,
                      wm'[q][k] = d
               PROVE  wc[r][d] # Gone
    BY <1>t, <1>3 DEF LocksExclude
  <2>1. CASE q = p /\ k = m
    BY <1>t, <1>5, <1>6, <2>1
  <2>2. CASE ~(q = p /\ k = m)
    BY <1>t, <1>6, <2>2 DEF LocksExclude
  <2> QED BY <2>1, <2>2
<1>9. FiledExists'
  BY <1>t, <1>3, <1>4, <1>6 DEF FiledExists
<1>10. GoneEmptied'
  BY <1>t, <1>2, <1>3, <1>6 DEF GoneEmptied
<1> QED BY <1>7, <1>8, <1>9, <1>10 DEF RefInv

LEMMA CommitRefs ==
    ASSUME RefAll, NEW p \in Procs, CommitTx(p)
    PROVE  RefInv'
<1> USE DEF RefAll, NamesInv, TypeInv, TypeOK
<1>1. \A c \in CatIds : cats'[c] = CASE wc[p][c] = Same -> cats[c]
                                     [] wc[p][c] = Gone -> NoName
                                     [] OTHER -> wc[p][c]
  BY DEF CommitTx
<1>2. \A m \in MatIds : mats'[m] = IF wm[p][m] = Same THEN mats[m] ELSE wm[p][m]
  BY DEF CommitTx
<1>3. /\ \A q \in Procs \ {p} : wc'[q] = wc[q] /\ wm'[q] = wm[q]
      /\ \A c \in CatIds : wc'[p][c] = Same
      /\ \A m \in MatIds : wm'[p][m] = Same
  BY DEF CommitTx, Done, NothingHeld, NothingFiled
<1>4. \A c \in CatIds : wc[p][c] # Gone /\ cats[c] # NoName => cats'[c] # NoName
  BY <1>1
<1>5. ReferencesExist /\ LocksExclude /\ FiledExists /\ GoneEmptied
  BY DEF RefInv
<1>6. \A q \in Procs, m \in MatIds, c \in CatIds :
         wm[q][m] = c => wc[p][c] # Gone /\ cats[c] # NoName
  BY DEF RefInv, LocksExclude, FiledExists
<1>7. ReferencesExist'
  <2> SUFFICES ASSUME NEW m \in MatIds, NEW c \in CatIds, mats'[m] = c
               PROVE  cats'[c] # NoName
    BY DEF ReferencesExist
  <2>1. CASE wm[p][m] = Same
    <3>1. mats[m] = c
      BY <1>2, <2>1
    <3>2. wc[p][c] # Gone
      BY <2>1, <3>1 DEF RefInv, GoneEmptied
    <3> QED BY <1>4, <3>1, <3>2 DEF RefInv, ReferencesExist
  <2>2. CASE wm[p][m] # Same
    <3>1. wm[p][m] = c
      BY <1>2, <2>2
    <3> QED BY <1>4, <1>6, <3>1
  <2> QED BY <2>1, <2>2
<1>8. LocksExclude'
  <2> SUFFICES ASSUME NEW r \in Procs, NEW q \in Procs, NEW m \in MatIds, NEW c \in CatIds,
                      wm'[q][m] = c
               PROVE  wc'[r][c] # Gone
    BY DEF LocksExclude
  <2>1. wm[q][m] = c
    BY <1>3
  <2>2. wc[r][c] # Gone
    BY <2>1 DEF RefInv, LocksExclude
  <2> QED BY <1>3, <2>2
<1>9. FiledExists'
  <2> SUFFICES ASSUME NEW q \in Procs, NEW m \in MatIds, NEW c \in CatIds, wm'[q][m] = c
               PROVE  cats'[c] # NoName
    BY DEF FiledExists
  <2>1. wm[q][m] = c
    BY <1>3
  <2> QED BY <1>4, <1>6, <2>1
<1>10. GoneEmptied'
  <2> SUFFICES ASSUME NEW q \in Procs, NEW m \in MatIds, NEW c \in CatIds,
                      wc'[q][c] = Gone, mats'[m] = c
               PROVE  wm'[q][m] = NoCat
    BY DEF GoneEmptied
  <2>0. q # p /\ wc[q][c] = Gone /\ wm'[q][m] = wm[q][m]
    BY <1>3
  <2>1. wm[p][m] # c
    <3>1. wc[q][c] = Gone
      BY <2>0
    <3>2. wm[p][m] = c => wc[q][c] # Gone
      BY <1>5 DEF LocksExclude
    <3> QED BY <3>1, <3>2
  <2>2. mats[m] = c
    BY <1>2, <2>1
  <2> QED BY <2>0, <2>2 DEF RefInv, GoneEmptied
<1> QED BY <1>7, <1>8, <1>9, <1>10 DEF RefInv

LEMMA StepRefs ==
    ASSUME RefAll, Next
    PROVE  RefInv'
<1> USE DEF RefAll, NamesInv, TypeInv, TypeOK
<1>1. ASSUME UNCHANGED <<cats, mats, wc, wm>> PROVE RefInv'
  BY <1>1, QuietRefs
<1>2. ASSUME NEW p \in Procs, Rollback(p) PROVE RefInv'
  <2>1. \A q \in Procs : \/ wc'[q] = wc[q] /\ wm'[q] = wm[q]
                         \/ wc'[q] = NothingHeld /\ wm'[q] = NothingFiled
    BY <1>2 DEF Rollback, Done
  <2> QED BY <1>2, <2>1, QuietRefs DEF Rollback, db
<1>3. ASSUME NEW p \in Procs, CommitTx(p) PROVE RefInv'
  BY <1>3, CommitRefs
<1>4. ASSUME NEW p \in Procs, CreateInsert(p) PROVE RefInv'
  <2>1. made + 1 \in CatIds /\ req[p].name \in Names
    BY <1>4 DEF CreateInsert, PointOK
  <2> QED BY <1>4, <2>1, NameWrittenRefs DEF CreateInsert, db
<1>5. ASSUME NEW p \in Procs, RenameSave(p) PROVE RefInv'
  <2>1. req[p].cat \in CatIds /\ held[p] \in Names
    BY <1>5 DEF RenameSave, PointOK
  <2> QED BY <1>5, <2>1, NameWrittenRefs DEF RenameSave, db
<1>6. ASSUME NEW p \in Procs, DeleteRemove(p) PROVE RefInv'
  BY <1>6, RemoveRefs
<1>7. ASSUME NEW p \in Procs, FileInsert(p) PROVE RefInv'
  BY <1>7, InsertRefs
<1>8. ASSUME Crash PROVE RefInv'
  BY <1>8, QuietRefs DEF Crash, db
<1>9. ASSUME SeedCreate PROVE RefInv'
  <2>1. \A c \in CatIds : cats[c] # NoName => cats'[c] # NoName
    BY <1>9 DEF SeedCreate
  <2> QED BY <1>9, <2>1, QuietRefs DEF SeedCreate
<1>10. ASSUME NEW p \in Procs, Reads(p) \/ Accept(p) PROVE RefInv'
  BY <1>1, <1>10 DEF Reads, Accept, db
<1>11. ASSUME SeedPresent \/ SeedRefused \/ Served PROVE RefInv'
  BY <1>1, <1>11 DEF SeedPresent, SeedRefused, Served, vars, db
<1> QED
  BY <1>2, <1>3, <1>4, <1>5, <1>6, <1>7, <1>8, <1>9, <1>10, <1>11
     DEF Next, Step, CreateStep, RenameStep, DeleteStep, FileStep, NameExists, IndexConflict,
         NotFound, CategoryInUse, NoCategory, ForeignKeyRefuses, Busy, NoRoom,
         StatementFails, Boot, CreateCheck, RenameGet, RenameCheck, DeleteFind, DeleteCount,
         FileAssign, FileValidate

(* A committed material is filed under a category that exists: on SQLite   *)
(* because no transaction commits beside another, on PostgreSQL because    *)
(* the foreign key's locks keep a delete and a filing apart.               *)
THEOREM ReferencesCorrect == Spec => []ReferencesExist
<1>1. RefAll /\ [Next]_vars => RefAll'
  <2>1. ASSUME RefAll, Next PROVE RefAll'
    <3>1. NamesInv' /\ FiledLast' /\ RefInv'
      BY <2>1, StepNames, StepFiledLast, StepRefs DEF RefAll
    <3>2. CheckedIfSqlite'
      BY <2>1, StepNotDrawn, StepChecked DEF RefAll, CheckedIfSqlite
    <3> QED BY <3>1, <3>2 DEF RefAll
  <2>2. ASSUME RefAll, UNCHANGED vars PROVE RefAll'
    <3>1. RefInv'
      BY <2>2, QuietRefs DEF RefAll, vars
    <3>2. NamesInv' /\ FiledLast'
      BY <2>2, StutterNames DEF RefAll, FiledLast, vars
    <3>3. CheckedIfSqlite'
      BY <2>2, OtherChecked DEF RefAll, CheckedIfSqlite, NotDrawn, vars
    <3> QED BY <3>1, <3>2, <3>3 DEF RefAll
  <2> QED BY <2>1, <2>2
<1>2. Init => RefAll
  <2>1. Init => RefInv
    BY DEF Init, RefInv, ReferencesExist, LocksExclude, FiledExists, GoneEmptied,
           NothingHeld, NothingFiled
  <2> QED BY <2>1, SqliteInit DEF RefAll, SqliteInv, CheckedIfSqlite
<1>3. RefAll => ReferencesExist
  BY DEF RefAll, RefInv
<1> QED BY <1>1, <1>2, <1>3, PTL DEF Spec
=============================================================================
