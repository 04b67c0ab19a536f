---------------------------- MODULE ShoppingView ----------------------------
(***************************************************************************)
(* The shopping list (web/src/pages/shopping): kept in localStorage alone,  *)
(* read when the page is rendered and written as a whole after every change,*)
(* by every tab that has the page open.                                    *)
(***************************************************************************)
EXTENDS WebSession

CONSTANT Items      \* the items there may be, each with an id of its own

VARIABLES
    shopping,       \* the page's state: the items it shows
    storedItems     \* localStorage "homestock_shopping_list"

\* Mutant: the list is read after the effect has saved an empty one.
OpenListLate == shopping' = {} /\ storedItems' = {}
\* useState(loadItems), and the effect that saves the list it starts with.
OpenList ==
    /\ shopping' = storedItems
    /\ storedItems' = shopping'

\* setItems, and the effect that saves all items.
Keep(list) == shopping' = list /\ storedItems' = list /\ UNCHANGED callVars

AddItem(x) ==
    /\ On("shopping") /\ x \in Items \ (shopping \cup storedItems)
    /\ Spend("clicks")
    /\ Keep(shopping \cup {x})

ToggleItem(x) ==
    /\ On("shopping") /\ x \in shopping
    /\ Spend("clicks")
    /\ Keep(shopping \ {x})

\* Another tab saves its own list: one item more or less than what it read.  It
\* matters while the page is rendered; until then any list may be stored.
OtherTabSaves(x) ==
    /\ page = "shopping" /\ Spend("others")
    /\ storedItems' = IF x \in storedItems THEN storedItems \ {x} ELSE storedItems \cup {x}
    /\ UNCHANGED <<shopping, callVars>>

ShoppingPage == \E x \in Items : AddItem(x) \/ ToggleItem(x)
=============================================================================
