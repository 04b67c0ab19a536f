------------------------------ MODULE MCWebApp ------------------------------
(* WebApp for TLC: two tabs, three materials, two of them on a page; a start   *)
(* for every page and one for the session, each with clicks of its own.     *)
EXTENDS WebApp

CONSTANTS n1, x1

ThreeMats == 1 .. 3
MCCatOf == [m \in ThreeMats |-> IF m = 1 THEN "food" ELSE "home"]
MCMatches == [w \in Words \cup {NoWord} |-> IF w = NoWord THEN ThreeMats ELSE {2}]

Lot(id, mat, place, qty, due) == [id |-> id, mat |-> mat, place |-> place, qty |-> qty, due |-> due]
Full == {Lot(11, 1, "shelf", 1, 0), Lot(12, 2, "box", 2, 2), Lot(13, 3, "shelf", 1, 9)}
Used == {Lot(11, 1, "shelf", 0, 0), Lot(12, 2, "shelf", 2, 2), Lot(13, 3, "shelf", 1, 9)}
MCShelves == {Full, Used}

AnyKind == Dialogs \cup Sections
MCKinds == {AnyKind, {"inbound"}}
MCMoves == {"inbound", "consume", "adjust"}
MCFound == [w \in Words \cup {NoWord} |-> IF w = NoWord THEN AnyKind ELSE {"adjust"}]

Budget(clicks, visits, faults, others) ==
    [clicks |-> clicks, visits |-> visits, faults |-> faults, others |-> others]
Start(r, c, v, f, o) ==
    [at |-> r, shelf |-> Full, items |-> [s \in Listed |-> {n1}], list |-> {x1},
     bound |-> Budget(c, v, f, o)]
MCStarts ==
    { Start("login", 0, 3, 1, 0), Start("login", 0, 2, 1, 1), Start("shopping", 0, 3, 0, 0),
      Start("home", 0, 0, 1, 1), Start("inventory", 3, 0, 0, 0),
      Start("inventory", 2, 0, 1, 0), Start("inventory", 1, 1, 0, 0),
      Start("inventory", 1, 0, 0, 1), Start("history", 2, 0, 1, 0),
      Start("history", 1, 0, 0, 1), Start("settings", 3, 0, 0, 0),
      Start("settings", 2, 0, 1, 0), Start("shopping", 2, 0, 0, 1) }
=============================================================================
