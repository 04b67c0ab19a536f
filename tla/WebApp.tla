------------------------------- MODULE WebApp -------------------------------
(***************************************************************************)
(* The web front end as a whole (web/src/App.tsx): the session, the page the*)
(* route renders in tab Here, the server, other users and the other tabs.   *)
(***************************************************************************)
EXTENDS HomeView, HistoryView, SettingsView, ShoppingView

CONSTANT
    Starts      \* where a run begins: [at, shelf, items, list, bound]; without a
                \* token if at = "login"

ASSUME WebAppAssumption ==
    /\ None \notin Routes \cup Dialogs
    /\ \A s \in Starts :
         /\ s.at \in Routes /\ s.shelf \in Shelves
         /\ s.items \in [Listed -> SUBSET Names] /\ s.list \subseteq Items
         /\ s.bound \in [{"clicks", "visits", "faults", "others"} -> Nat]

dbVars == <<entries, shelf, items>>
viewVars == <<inventory, history, home, settings, shopping>>
vars == <<callVars, authVars, page, dbVars, viewVars, storedItems, bound>>

Init ==
    \E s \in Starts :
      /\ calls = [i \in CallIds |-> NoCall]
      /\ stored = IF s.at = "login" THEN NoToken ELSE 1
      /\ held = [t \in Tabs |-> IF t = Here THEN stored ELSE NoToken]
      /\ issued = IF s.at = "login" THEN 0 ELSE 1
      /\ valid = 1 .. issued
      /\ init = [t \in Tabs |-> TRUE]
      /\ at = [t \in Tabs |-> IF t = Here THEN s.at ELSE "login"]
      /\ query = NoWord /\ retired = {}
      /\ page = None /\ loading = FALSE /\ fresh = FALSE /\ mine = 0
      /\ entries = <<>> /\ shelf = s.shelf /\ items = s.items
      /\ inventory = MountedInventory(NoWord)
      /\ history = MountedHistory /\ home = MountedHome
      /\ settings = MountedSection("outbound")
      /\ shopping = {} /\ storedItems = s.list
      /\ bound = s.bound

(* Rendering *)

\* The state of pages that are not rendered is as if they were rendered first.
Blank(p) ==
    /\ page' = p
    /\ inventory' = MountedInventory(IF p = "inventory" THEN query ELSE NoWord)
    /\ history' = MountedHistory
    /\ home' = MountedHome
    /\ settings' = MountedSection("outbound")
    /\ IF p = "shopping" THEN OpenList ELSE shopping' = {} /\ UNCHANGED storedItems

\* What the effects of page p load when it is mounted.
MountLoad(p) ==
    CASE p = "inventory" -> Remount(TRUE, "load", LoadArg([NoFilters EXCEPT !.word = query], None))
      [] p = "history" -> Remount(TRUE, "history", NoHistoryFilters)
      [] p = "home" -> Remount(TRUE, "stats", None)
      [] p = "settings" -> Remount(TRUE, "list", ListArg("outbound", None))
      [] OTHER -> Remount(FALSE, None, None)

\* React renders what the route and the session ask for.
Render ==
    /\ page # Route
    /\ Blank(Route)
    /\ MountLoad(Route)
    /\ UNCHANGED <<authVars, dbVars, bound>>

\* A document loaded anew has rendered nothing yet.
Reopen(r) == OpenTab(Here, r) /\ Blank(None) /\ UNCHANGED dbVars

(* The components together *)

sessionFrame == <<page, dbVars, viewVars, storedItems>>
viewFrame == <<authVars, page, dbVars, storedItems>>

\* A request in flight is handled by the server or settles.
Advance(i) ==
    \/ (SessionServes(i) \/ SessionSettles(i)) /\ UNCHANGED sessionFrame
    \/ /\ InventoryReads(i) \/ HistoryReads(i) \/ ServeStats(i) \/ SettingsReads(i)
       /\ UNCHANGED <<authVars, sessionFrame>>
    \/ ServeSubmit(i) /\ UNCHANGED <<authVars, page, items, viewVars, storedItems>>
    \/ SettingsChanges(i) /\ UNCHANGED <<authVars, page, shelf, viewVars, storedItems>>
    \/ InventorySettles(i) /\ UNCHANGED <<viewFrame, history, home, settings, shopping>>
    \/ HistorySettled(i) /\ UNCHANGED <<viewFrame, inventory, home, settings, shopping>>
    \/ StatsSettled(i) /\ UNCHANGED <<viewFrame, inventory, history, settings, shopping>>
    \/ SettingsSettles(i) /\ UNCHANGED <<viewFrame, inventory, history, home, shopping>>

\* The timers of useDebounce.
Timer ==
    \/ /\ \E i \in CallIds : Debounce(i)
       /\ UNCHANGED <<viewFrame, history, home, settings, shopping>>
    \/ DebounceHistory /\ UNCHANGED <<viewFrame, inventory, home, settings, shopping>>

Users ==
    \/ SessionClicks /\ UNCHANGED sessionFrame
    \/ \E r \in Routes : Reopen(r)
    \/ \E t \in Tabs \ {Here}, r \in Routes : OpenTab(t, r) /\ UNCHANGED sessionFrame
    \/ InventoryPage /\ UNCHANGED <<viewFrame, history, home, settings, shopping>>
    \/ HistoryPage /\ UNCHANGED <<viewFrame, inventory, home, settings, shopping>>
    \/ SettingsPage /\ UNCHANGED <<viewFrame, inventory, history, home, shopping>>
    \/ ShoppingPage /\ UNCHANGED <<authVars, page, dbVars, inventory, history, home, settings>>
    \/ /\ \E x \in Items : OtherTabSaves(x)
       /\ UNCHANGED <<authVars, page, dbVars, inventory, history, home, settings>>
    \/ OthersChange /\ UNCHANGED <<authVars, page, items, history, home, settings,
                                   shopping, storedItems>>

\* What goes on without a user.
Work == Render \/ Timer \/ \E i \in CallIds : Advance(i)

Next == Work \/ Users

Spec == Init /\ [][Next]_vars

\* Requests settle, timers fire and React renders; users do as they like.  The
\* event loop goes on: no more is asked of it, since all work is bounded.
FairSpec == Spec /\ WF_vars(Work)

(* Properties *)

Tokens == Nat \cup {NoToken}
ViewTypeOK ==
    /\ inventory.filters \in Filters /\ inventory.typed \in Words \cup {NoWord}
    /\ inventory.table.mats \subseteq Mats /\ inventory.submitting \subseteq Dialogs
    /\ inventory.dialog \in Dialogs \cup {None}
    /\ history.filters \in HistoryFilters
    /\ history.table.moves \cup history.table.logs \subseteq 1 .. Len(entries)
    /\ settings.section \in Sections /\ settings.saving \subseteq Keys
    /\ settings.rows \subseteq Names /\ settings.editing \in Names \cup {New, None}
    /\ shopping \cup storedItems \subseteq Items

\* The types of the session, the requests and the pages.
WebTypeOK ==
    /\ stored \in Tokens /\ held \in [Tabs -> Tokens]
    /\ issued \in Nat /\ valid \subseteq 1 .. issued /\ retired \subseteq 1 .. issued
    /\ init \in [Tabs -> BOOLEAN] /\ at \in [Tabs -> Routes]
    /\ page \in Pages \cup {None} /\ loading \in BOOLEAN /\ fresh \in BOOLEAN
    /\ mine \in 0 .. Len(entries)
    /\ \A i \in CallIds : calls[i] # NoCall =>
         /\ calls[i].tab \in Tabs \cup {NoTab} /\ calls[i].token \in Tokens
         /\ calls[i].live \in BOOLEAN /\ calls[i].newest \in BOOLEAN
         /\ calls[i].state \in States
    /\ shelf \in Shelves /\ items \in [Listed -> SUBSET Names]
    /\ ViewTypeOK

\* No request carries a token that a user, in whichever tab, has signed out of:
\* the provider of api.ts reads the shared storage for every request anew.
Sends(i) == /\ calls'[i] # NoCall /\ calls'[i].state = "sent"
            /\ calls[i] = NoCall \/ calls[i].state # "sent"
SignedOutTokenUnused == [][\A i \in CallIds : Sends(i) => calls'[i].token \notin retired]_vars

\* A signed-in tab that sends a token the server does not accept learns of it and
\* signs out, as long as its request is not lost and its path has a route (the
\* listener in authStore.ts).
ShutOut(t) ==
    /\ SignedIn(t) /\ bound.faults = 0
    /\ \E i \in CallIds :
         /\ calls[i] # NoCall /\ calls[i].tab = t
         /\ calls[i].fn # "login" /\ ~Unrouted(i)
         /\ calls[i].state = "sent" /\ calls[i].token \notin valid
ShutOutTabsFindOut == \A t \in Tabs : ShutOut(t) ~> ~SignedIn(t)

\* When nothing is in flight and the newest load was the last one answered, what
\* a page shows is the answer to its filters and not older than the changes made
\* on it: handlers load after they change, effects when a filter changes.
QuietInventory ==
    LET t == inventory.table
    IN page = "inventory" /\ inventory.typed = inventory.filters.word =>
         /\ t.of = inventory.filters /\ t.asOf >= mine
         /\ t.asOf = Len(entries) => /\ t.lots = LotsOf(shelf, t.of)
                                     /\ t.mats \subseteq MatsOf(shelf, t.of)
QuietHistory ==
    LET t == history.table
    IN page = "history" =>
         /\ t.of = history.filters
         /\ t.asOf = Len(entries) => t.moves = MovesOf(t.of) /\ t.logs = LogsOf(t.of)
QuietSettings ==
    page = "settings" /\ settings.section \in Listed =>
         /\ settings.asOf >= mine
         /\ settings.asOf = Len(entries) => settings.rows = items[settings.section]
QuietViewIsCurrent ==
    Ours = {} /\ fresh /\ page = Route => QuietInventory /\ QuietHistory /\ QuietSettings

\* Every choice of filters is answered in the end, unless the page is left, requests
\* are lost or something is submitted meanwhile, whose load has the filters of its
\* time (the effects that run loadData).
Asked(fn, f) ==
    \E i \in Ours : /\ Is(i, fn) /\ calls[i].newest
                    /\ f = IF fn = "load" THEN calls[i].arg.of ELSE calls[i].arg
FiltersAsked ==
    /\ bound.faults = 0
    /\ \/ page = "inventory" /\ Asked("load", inventory.filters)
       \/ page = "history" /\ Asked("history", history.filters)
FiltersAnswered ==
    /\ page = "inventory" =>
         inventory.submitting # {} \/ inventory.table.of = inventory.filters
    /\ page = "history" => history.table.of = history.filters
FiltersAreAnswered == FiltersAsked ~> FiltersAnswered

\* The table of the inventory page holds together although its lists are read one
\* by one: the selected material and the page exist, and with a place chosen
\* every material has a lot to show in its details.
TableInRange ==
    LET t == inventory.table
    IN /\ inventory.selected \in t.mats \cup {None}
       /\ inventory.selected = None <=> t.mats = {}
       /\ inventory.pageNo \in 1 .. TotalPages(t.mats)
       /\ t.of # None /\ t.of.place # All =>
            \A m \in t.mats : \E l \in t.lots : l.mat = m

\* A dialog, or a form of the settings, has one submission under way at a time,
\* from its button to the end of the load that follows, also if it was closed
\* and opened again in between.
UnderWay(d) ==
    {i \in Ours : /\ calls[i].live
                  /\ \/ Is(i, "submit") /\ calls[i].arg.dialog = d
                     \/ Is(i, "load") /\ calls[i].arg.after = d}
FormUnderWay ==
    {i \in Ours : /\ calls[i].live
                  /\ \/ Is(i, "save") /\ calls[i].arg.key = "form"
                     \/ Is(i, "list") /\ calls[i].arg.after = "form"}
OneSubmissionAtATime ==
    /\ \A d \in Dialogs : \A i, j \in UnderWay(d) : i = j
    /\ \A i, j \in FormUnderWay : i = j

\* What is submitted for a row are the fields that were filled in for that row,
\* whichever rows were opened, left and loaded again before (the forms outlive
\* their dialogs).
FieldsForTheirRow ==
    \A i \in Ours :
      /\ Is(i, "submit") /\ calls[i].arg.dialog # "inbound" =>
           calls[i].arg.fields = calls[i].arg.row
      /\ Is(i, "save") /\ calls[i].arg.row # New =>
           calls[i].arg.fields = calls[i].arg.row

\* The dashboard's loop loses nothing: the three statuses add up to the materials,
\* the categories to the totals, and the bars are in order.
StatsAddUp ==
    home # None =>
      LET sums == home.sums
          Over(field) == SumFunction([c \in DOMAIN sums.byCat |-> sums.byCat[c][field]])
      IN /\ sums.expiring + sums.expired + sums.normal = home.totalMaterials
         /\ Over("count") = home.totalMaterials /\ Over("quantity") = sums.quantity
         /\ \A a, b \in 1 .. Len(home.bars) :
              a < b => sums.byCat[home.bars[a]].quantity >= sums.byCat[home.bars[b]].quantity
         /\ home.asOf = Len(entries) => home.totalMaterials = Len(Summaries)

\* An item leaves the stored list only when it is ticked off on the page, or in
\* another tab, or when another tab added it after the page had read the list.
TickedOff == IF page = "shopping" THEN shopping \ shopping' ELSE {}
ShoppingListSurvives ==
    [][\A x \in storedItems \ storedItems' :
          \/ x \in TickedOff /\ TickedOff = {x}
          \/ page = "shopping" /\ x \notin shopping
          \/ bound'.others < bound.others]_vars

\* Whatever is shown as pending ends: every handler resets its flag in a finally,
\* and a search is taken over when its timer fires.
Busy ==
    \/ loading \/ inventory.submitting # {} \/ settings.saving # {}
    \/ settings.deleting # None \/ settings.testing
    \/ inventory.typed # inventory.filters.word \/ history.typed # history.word
BusyEnds == Busy ~> ~Busy
=============================================================================
