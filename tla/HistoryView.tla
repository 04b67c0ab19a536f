----------------------------- MODULE HistoryView -----------------------------
(***************************************************************************)
(* The history page (web/src/pages/history): stock movements and audit logs *)
(* in two tables, filtered by the server and searched by the page.  An entry*)
(* is known by its number in entries; its kind says what was done.          *)
(***************************************************************************)
EXTENDS WebSession

CONSTANTS
    MoveKinds,      \* the kinds of change that move stock; the others only leave a log
    KindChoices,    \* what may be asked for: a type, or an action and a channel, as kinds
    AllKinds,       \* the choice "__all__"
    Found,          \* Found[w]: the kinds of entry whose texts contain w
    DateChoices,    \* first and last dates, as numbers of entries; 0 is no date
    LogLimit        \* page_size of the audit logs: 100

HistoryFilters == [moves : KindChoices, logs : KindChoices, from : DateChoices, to : DateChoices]

ASSUME HistoryViewAssumption ==
    AllKinds \in KindChoices /\ 0 \in DateChoices /\ None \notin HistoryFilters

VARIABLE history    \* the page's state

NoHistoryFilters == [moves |-> AllKinds, logs |-> AllKinds, from |-> 0, to |-> 0]

MountedHistory ==
    [filters |-> NoHistoryFilters, typed |-> NoWord, word |-> NoWord,
     table |-> [moves |-> {}, logs |-> {}, of |-> None, asOf |-> 0], selected |-> None]

(* The server's two lists, newest first *)

Dated(f) == {k \in 1 .. Len(entries) : k >= f.from /\ (f.to = 0 \/ k <= f.to)}
MovesOf(f) == {k \in Dated(f) : entries[k] \in MoveKinds \cap f.moves}
LogsOf(f) ==
    LET logs == {k \in Dated(f) : entries[k] \in f.logs}
    IN {k \in logs : Cardinality({n \in logs : n > k}) < LogLimit}

ServeMoves(i) == Heard(i, "history") /\ HandleRows(i, MovesOf(calls[i].arg))
ServeLogs(i) == Heard(i, "history") /\ HandleDetails(i, LogsOf(calls[i].arg))

(* Loading *)

HistorySettled(i) ==
    /\ Is(i, "history") /\ calls[i].tab \in Tabs
    /\ \/ Good(i) /\ EndLoad(i, TRUE)
          /\ history' = IF Live(i)
                        THEN [history EXCEPT !.table =
                               [moves |-> calls[i].got.rows, logs |-> calls[i].got.details,
                                of |-> calls[i].arg, asOf |-> calls[i].got.asOf]]
                        ELSE history
       \/ Bad(i) /\ EndLoad(i, FALSE) /\ UNCHANGED history

(* What the user does on the page *)

OnHistory == On("history") /\ history.selected = None

\* Mutant: loadData does not depend on the dates.
FilterHistoryByKind(i, f) ==
    /\ OnHistory /\ f # history.filters
    /\ Spend("clicks")
    /\ history' = [history EXCEPT !.filters = f]
    /\ IF f.from = history.filters.from /\ f.to = history.filters.to
       THEN BeginLoad(i, "history", f) ELSE Free(i) /\ UNCHANGED callVars
\* A filter changes, loadData is a new function and its effect runs.
FilterHistory(i, f) ==
    /\ OnHistory /\ f # history.filters
    /\ Spend("clicks")
    /\ history' = [history EXCEPT !.filters = f]
    /\ BeginLoad(i, "history", f)

\* One filter at a time.
HistoryChoices ==
    LET f == history.filters
    IN {[f EXCEPT !.moves = k] : k \in KindChoices} \cup {[f EXCEPT !.logs = k] : k \in KindChoices}
         \cup {[f EXCEPT !.from = d] : d \in DateChoices} \cup {[f EXCEPT !.to = d] : d \in DateChoices}

\* The button, disabled while a load is pending, or another language.
RefreshHistory(i) ==
    /\ OnHistory /\ Spend("clicks")
    /\ BeginLoad(i, "history", history.filters)
    /\ UNCHANGED history

\* The search is the page's own: nothing is loaded.
TypeHistory(w) ==
    /\ OnHistory /\ w \in Words \cup {NoWord} /\ w # history.typed
    /\ Spend("clicks")
    /\ history' = [history EXCEPT !.typed = w]
    /\ UNCHANGED callVars

DebounceHistory ==
    /\ page = "history" /\ history.typed # history.word
    /\ history' = [history EXCEPT !.word = history.typed]
    /\ UNCHANGED <<callVars, bound>>

\* filteredAuditLogs: what the page shows of the logs it was sent.
VisibleLogs == {k \in history.table.logs : entries[k] \in Found[history.word]}

OpenLog(k) ==
    /\ OnHistory /\ k \in VisibleLogs
    /\ Spend("clicks")
    /\ history' = [history EXCEPT !.selected = k]
    /\ UNCHANGED callVars

CloseLog ==
    /\ On("history") /\ history.selected # None
    /\ history' = [history EXCEPT !.selected = None]
    /\ UNCHANGED <<callVars, bound>>

HistoryReads(i) == ServeMoves(i) \/ ServeLogs(i)
HistoryPage ==
    \/ \E i \in CallIds :
         \/ RefreshHistory(i)
         \/ \E f \in HistoryChoices : FilterHistory(i, f)
    \/ \E w \in Words \cup {NoWord} : TypeHistory(w)
    \/ \E k \in 1 .. Len(entries) : OpenLog(k)
    \/ CloseLog
=============================================================================
