--------------------------- MODULE InventoryView ---------------------------
(***************************************************************************)
(* The inventory page and its dialogs (web/src/pages/inventory): filters,   *)
(* a debounced search, a table loaded by two parallel requests, a selected  *)
(* material, pages, and four dialogs whose submissions change the stock and *)
(* then load the table again.  What a submission does to the stock is the   *)
(* subject of module Inventory: here any stock of Shelves may follow it.    *)
(***************************************************************************)
EXTENDS WebSession, FiniteSetsExt

CONSTANTS
    Mats,       \* the materials, numbered in the server's order
    Cats, CatOf,    \* the categories; CatOf[m] is the category of material m
    Places,     \* where lots are kept
    All,        \* the choice "__all__" of a filter
    Matches,    \* Matches[w]: the materials the server finds for the keyword w
    Shelves,    \* the stocks there may be: sets of lots [id, mat, place, qty, due]
    PageSize    \* pageSize

Filters ==
    [cat : Cats \cup {All}, place : Places \cup {All}, zero : BOOLEAN, word : Words \cup {NoWord}]

ASSUME InventoryViewAssumption ==
    /\ Mats \subseteq Nat /\ IsFiniteSet(Mats) /\ PageSize \in Nat \ {0}
    /\ None \notin Filters
    /\ \A s \in Shelves : IsFiniteSet(s) /\ \A l \in s : l.qty \in Int

VARIABLES
    inventory,  \* the page's state
    shelf       \* the stock in the database

LotIds == {l.id : l \in UNION Shelves}
Dialogs == {"inbound", "consume", "edit", "adjust"}
NoFilters == [cat |-> All, place |-> All, zero |-> FALSE, word |-> NoWord]

\* The state of the page when it is rendered first: the keyword of the address
\* is in the search box and, by useState(value), already past the debounce.
MountedInventory(w) ==
    [filters |-> [NoFilters EXCEPT !.word = w], typed |-> w,
     table |-> [mats |-> {}, lots |-> {}, of |-> None, asOf |-> 0],
     selected |-> None, pageNo |-> 1, details |-> FALSE,
     dialog |-> None, row |-> None, fields |-> None, submitting |-> {}]

(* The server's two lists *)

InCategory(m, f) == f.cat \in {All, CatOf[m]}
Stocked(s, m) == \E l \in s : l.mat = m /\ l.qty > 0

MatsOf(s, f) ==
    {m \in Mats : InCategory(m, f) /\ m \in Matches[f.word] /\ (f.zero \/ Stocked(s, m))}
LotsOf(s, f) ==
    {l \in s : /\ InCategory(l.mat, f) /\ l.mat \in Matches[f.word]
               /\ f.place \in {All, l.place}
               /\ f.zero \/ l.qty > 0}

ServeMaterials(i) == Heard(i, "load") /\ HandleRows(i, MatsOf(shelf, calls[i].arg.of))
ServeLots(i) == Heard(i, "load") /\ HandleDetails(i, LotsOf(shelf, calls[i].arg.of))

(* Loading *)

LoadArg(f, d) == [of |-> f, after |-> d]
StartLoad(i, f) == BeginLoad(i, "load", LoadArg(f, None))

TotalPages(mats) == Max({1, (Cardinality(mats) + PageSize - 1) \div PageSize})

\* Mutant: the materials without a lot at the place are shown, too.
NotJoined(got, of) == got.rows
\* With a place chosen only materials that have a lot in the other answer stay.
Joined(got, of) ==
    IF of.place = All THEN got.rows
    ELSE {m \in got.rows : \E l \in got.details : l.mat = m}

\* The selection stays if its material is still shown, else it is the first.
Selection(mats, current) ==
    IF current \in mats THEN current ELSE IF mats = {} THEN None ELSE Min(mats)

\* loadData() sets the state.  The page goes back to 1 when the number of
\* materials changes; an open inbound form is filled in anew, since the list of
\* categories is a new array.
Shown(v, got, of) ==
    LET mats == Joined(got, of)
        now == Selection(mats, v.selected)
    IN [v EXCEPT !.table = [mats |-> mats, lots |-> got.details,
                            of |-> of, asOf |-> got.asOf],
                 !.selected = now,
                 !.pageNo = IF Cardinality(mats) = Cardinality(v.table.mats) THEN @ ELSE 1,
                 !.fields = IF v.dialog = "inbound" THEN now ELSE @]

\* After its load a submission closes its dialog, whatever row it shows by now.
Finished(v, d) ==
    IF d = None THEN v
    ELSE [v EXCEPT !.submitting = @ \ {d},
                   !.dialog = IF @ = d THEN None ELSE @]

\* loadData() catches its own errors: a submission it follows ends as well.
LoadSettled(i) ==
    LET arg == calls[i].arg
    IN /\ Is(i, "load") /\ calls[i].tab \in Tabs
       /\ \/ Good(i) /\ EndLoad(i, TRUE)
             /\ inventory' = IF Live(i)
                             THEN Finished(Shown(inventory, calls[i].got, arg.of), arg.after)
                             ELSE inventory
          \/ Bad(i) /\ EndLoad(i, FALSE)
             /\ inventory' = IF Live(i) THEN Finished(inventory, arg.after) ELSE inventory

(* What the user does on the page *)

\* A dialog, the details included, covers the page.
OnInventory == On("inventory") /\ inventory.dialog = None /\ ~inventory.details

FilterChoices ==
    LET f == inventory.filters
    IN {[f EXCEPT !.cat = c] : c \in Cats \cup {All}}
         \cup {[f EXCEPT !.place = p] : p \in Places \cup {All}}
         \cup {[f EXCEPT !.zero = ~@]}

\* A filter changes, loadData is a new function and its effect runs.
SetFilter(i, f) ==
    /\ OnInventory /\ f \in FilterChoices /\ f # inventory.filters
    /\ Spend("clicks")
    /\ inventory' = [inventory EXCEPT !.filters = f]
    /\ StartLoad(i, f)

\* The refresh button, or another language, since loadData depends on t.
Refresh(i) ==
    /\ OnInventory /\ Spend("clicks")
    /\ StartLoad(i, inventory.filters)
    /\ UNCHANGED inventory

Type(w) ==
    /\ OnInventory /\ w \in Words \cup {NoWord} /\ w # inventory.typed
    /\ Spend("clicks")
    /\ inventory' = [inventory EXCEPT !.typed = w]
    /\ UNCHANGED callVars

\* useDebounce: the last text typed takes effect after 300 ms of rest.
Debounce(i) ==
    /\ page = "inventory" /\ inventory.typed # inventory.filters.word
    /\ inventory' = [inventory EXCEPT !.filters.word = inventory.typed]
    /\ StartLoad(i, inventory'.filters)
    /\ UNCHANGED bound

TurnPage(p) ==
    /\ OnInventory /\ p \in 1 .. TotalPages(inventory.table.mats) \ {inventory.pageNo}
    /\ Spend("clicks")
    /\ inventory' = [inventory EXCEPT !.pageNo = p]
    /\ UNCHANGED callVars

\* paginatedMaterials: the materials on the current page.
OnPage ==
    {m \in inventory.table.mats :
        LET before == Cardinality({n \in inventory.table.mats : n < m})
        IN before \div PageSize + 1 = inventory.pageNo}

ShowDetails(m) ==
    /\ OnInventory /\ m \in OnPage
    /\ Spend("clicks")
    /\ inventory' = [inventory EXCEPT !.selected = m, !.details = TRUE]
    /\ UNCHANGED callVars

CloseDetails ==
    /\ On("inventory") /\ inventory.details /\ inventory.dialog = None
    /\ inventory' = [inventory EXCEPT !.details = FALSE]
    /\ UNCHANGED <<callVars, bound>>

(* The dialogs *)

\* Mutant: the effect that fills in the form depends on open only once.
FilledOnce(d, r) ==
    [inventory EXCEPT !.dialog = d, !.row = r,
                      !.fields = IF @ = None THEN r ELSE @]
\* A dialog opens and its effect fills in the form.
Filled(d, r) ==
    [inventory EXCEPT !.dialog = d, !.row = r, !.fields = r]

\* The lots of the selected material, in the details.
SelectedLots == {l \in inventory.table.lots : l.mat = inventory.selected}

\* Which dialogs the buttons on the page and in the details open, for which row.
Openable(d, r) ==
    \/ d = "inbound" /\ OnInventory /\ r = inventory.selected
    \/ d = "consume" /\ OnInventory /\ r \in OnPage
    \/ /\ On("inventory") /\ inventory.details /\ inventory.dialog = None
       /\ \/ d = "consume" /\ r = inventory.selected /\ r # None
          \/ d \in {"edit", "adjust"} /\ \E l \in SelectedLots : l.id = r

OpenDialog(d, r) ==
    /\ Openable(d, r)
    /\ Spend("clicks")
    /\ inventory' = Filled(d, r)
    /\ UNCHANGED callVars

\* A click beside the dialog closes it, also while its submission is pending.
Dismiss ==
    /\ On("inventory") /\ inventory.dialog # None
    /\ inventory' = [inventory EXCEPT !.dialog = None]
    /\ UNCHANGED <<callVars, bound>>

\* Mutant: the button is not disabled while a submission is pending.
AlwaysReady(d) == TRUE
Ready(d) == d \notin inventory.submitting

\* handleSubmit of a dialog and the page's handler for it.
Submit(i) ==
    LET d == inventory.dialog
    IN /\ On("inventory") /\ d # None /\ Ready(d)
       /\ Spend("clicks")
       /\ inventory' = [inventory EXCEPT !.submitting = @ \cup {d}]
       /\ Send(i, "submit", [dialog |-> d, row |-> inventory.row,
                             fields |-> inventory.fields, of |-> inventory.filters])

\* The server makes the change, or answers that it cannot be made.
ServeSubmit(i) ==
    /\ Heard(i, "submit")
    /\ \/ /\ shelf' \in Shelves
          /\ entries' = Append(entries, calls[i].arg.dialog)
          /\ Handle(i, "ok", Len(entries'))
       \/ Handle(i, "rejected", None) /\ UNCHANGED <<shelf, entries>>

\* Mutant: the handler does not load the table again.
SubmitAnsweredOnly(i) ==
    /\ Is(i, "submit") /\ calls[i].tab \in Tabs /\ Good(i)
    /\ Put(i, NoCall)
    /\ mine' = IF Live(i) THEN calls[i].got ELSE mine
    /\ inventory' = IF Live(i) THEN Finished(inventory, calls[i].arg.dialog) ELSE inventory
    /\ UNCHANGED <<loading, fresh>>
\* The change is confirmed: loadData() of the closure, with its filters.
SubmitAnswered(i) ==
    /\ Is(i, "submit") /\ calls[i].tab \in Tabs /\ Good(i)
    /\ Reload(i, "load", LoadArg(calls[i].arg.of, calls[i].arg.dialog),
              calls[i].arg.of = inventory.filters)
    /\ loading' = (loading \/ Live(i))
    /\ UNCHANGED inventory

\* The dialog stays open and shows the error.
SubmitFailed(i) ==
    /\ Is(i, "submit") /\ calls[i].tab \in Tabs /\ Bad(i)
    /\ Put(i, NoCall)
    /\ inventory' = IF Live(i) THEN [inventory EXCEPT !.submitting = @ \ {calls[i].arg.dialog}]
                    ELSE inventory
    /\ UNCHANGED <<loading, fresh, mine>>

(* The others *)

\* Another user, another tab or the cron job changes the stock.
OthersChange ==
    /\ page \in {"inventory", "history", "home"} /\ Spend("others")
    /\ shelf' \in Shelves
    /\ entries' = Append(entries, "adjust")
    /\ UNCHANGED <<inventory, callVars>>

InventorySettles(i) == LoadSettled(i) \/ SubmitAnswered(i) \/ SubmitFailed(i)
InventoryReads(i) == ServeMaterials(i) \/ ServeLots(i)
InventoryPage ==
    \/ \E i \in CallIds :
         \/ Refresh(i) \/ Submit(i)
         \/ \E f \in FilterChoices : SetFilter(i, f)
    \/ \E w \in Words \cup {NoWord} : Type(w)
    \/ \E p \in 1 .. Cardinality(Mats) : TurnPage(p)
    \/ \E m \in Mats : ShowDetails(m)
    \/ CloseDetails \/ Dismiss
    \/ \E d \in Dialogs, r \in Mats \cup LotIds \cup {None} : OpenDialog(d, r)
=============================================================================
