---------------------------- MODULE SettingsView ----------------------------
(***************************************************************************)
(* The settings page (web/src/pages/settings): one of five sections is      *)
(* rendered.  Four load a list (the cron section its one configuration),    *)
(* change it by requests of their own and load it again after each change.  *)
(***************************************************************************)
EXTENDS WebSession

CONSTANTS
    Names,      \* endpoints, API keys, categories, and values of the cron settings
    New         \* the row of an item still to be added

ASSUME SettingsViewAssumption ==
    /\ New \notin Names /\ None \notin Names \cup {New}
    /\ "form" \notin Names \cup {New, None}

VARIABLES
    settings,   \* the page's state
    items       \* items[s]: what the server keeps for section s

Listed == {"outbound", "apikey", "cron", "category"}
Sections == Listed \cup {"password"}
Formed == {"outbound", "apikey"}        \* the sections that add in a form of their own

Keys == {"form", New} \cup Names        \* what is being saved: the section's form or a row

MountedSection(s) ==
    [section |-> s, rows |-> {}, asOf |-> 0, editing |-> None, fields |-> None,
     saving |-> {}, deleting |-> None, testing |-> FALSE]

ListArg(s, after) == [section |-> s, after |-> after]

(* The server *)

ServeList(i) ==
    /\ Heard(i, "list")
    /\ Handle(i, "ok", [rows |-> items[calls[i].arg.section], asOf |-> Len(entries)])

\* The router serves /api/v1 and mounts no cron handler: the other sections' paths
\* are answered 404 whatever the token, unless a proxy or a later router maps them.
Routed == {"category", "password"}
Unrouted(i) ==
    \/ Is(i, "test")
    \/ (Is(i, "list") \/ Is(i, "save") \/ Is(i, "delete")) /\ calls[i].arg.section \notin Routed
ServeUnrouted(i) == Unrouted(i) /\ calls[i].state = "sent" /\ Handle(i, "rejected", None)

\* A change is made, or rejected; a wrong old password is answered by a 401.
ServeSave(i) ==
    LET arg == calls[i].arg
        s == arg.section
    IN /\ Heard(i, "save")
       /\ \/ /\ s = "password"
             /\ Handle(i, IF arg.fields THEN "ok" ELSE "refused", Len(entries))
             /\ UNCHANGED <<items, entries>>
          \/ /\ s # "password"
             /\ items' = [items EXCEPT ![s] =
                   IF s = "cron" THEN {arg.fields}
                   ELSE IF arg.row = New THEN @ \cup {arg.fields} ELSE @]
             /\ entries' = Append(entries, s)
             /\ Handle(i, "ok", Len(entries'))
          \/ Handle(i, "rejected", None) /\ UNCHANGED <<items, entries>>

ServeDelete(i) ==
    LET arg == calls[i].arg
    IN /\ Heard(i, "delete")
       /\ \/ /\ items' = [items EXCEPT ![arg.section] = @ \ {arg.row}]
             /\ entries' = Append(entries, arg.section)
             /\ Handle(i, "ok", Len(entries'))
          \/ Handle(i, "rejected", None) /\ UNCHANGED <<items, entries>>

ServeTest(i) == Heard(i, "test") /\ (Handle(i, "ok", 0) \/ Handle(i, "rejected", None))

(* Sections and lists *)

\* A section is rendered and its effect loads its list.
ShowSection(s) ==
    /\ On("settings") /\ s \in Sections \ {settings.section}
    /\ Spend("clicks")
    /\ settings' = MountedSection(s)
    /\ Remount(s \in Listed, "list", ListArg(s, None))

\* What is over with the load of a list: a save, or a deletion.
Done(v, after) ==
    [v EXCEPT !.saving = @ \ {after}, !.deleting = IF after = "deleted" THEN None ELSE @]

\* The list of a section arrives; the cron section's fields are set from it.
Listing(v, got) ==
    [v EXCEPT !.rows = got.rows, !.asOf = got.asOf,
              !.fields = IF v.section = "cron" /\ got.rows # {}
                         THEN CHOOSE x \in got.rows : TRUE ELSE @]

\* The fetch functions catch their own errors: what they follow ends as well.
ListSettled(i) ==
    LET arg == calls[i].arg
    IN /\ Is(i, "list") /\ calls[i].tab \in Tabs
       /\ \/ Good(i) /\ EndLoad(i, TRUE)
             /\ settings' = IF Live(i) THEN Done(Listing(settings, calls[i].got), arg.after)
                            ELSE settings
          \/ Bad(i) /\ EndLoad(i, FALSE)
             /\ settings' = IF Live(i) THEN Done(settings, arg.after) ELSE settings

(* What the user does in a section: while it loads, nothing is there to click *)

InSection(s) == On("settings") /\ settings.section = s /\ ~loading

Editing(r) == [settings EXCEPT !.editing = r, !.fields = r]

\* The form for a new endpoint or key, or the fields of a row.
StartEdit(r) ==
    /\ \/ InSection("outbound") /\ r \in settings.rows \cup {New}
       \/ InSection("apikey") /\ r = New
       \/ InSection("category") /\ r \in settings.rows
    /\ r # settings.editing
    /\ Spend("clicks")
    /\ settings' = Editing(r)
    /\ UNCHANGED callVars

\* Nothing disables it: what is being saved goes on.
CancelEdit ==
    /\ \E s \in Listed : InSection(s)
    /\ settings.editing # None
    /\ settings' = [settings EXCEPT !.editing = None]
    /\ UNCHANGED <<callVars, bound>>

\* The fields of the cron section are on the page itself.
EditCron(x) ==
    /\ InSection("cron") /\ x \in Names \ {settings.fields}
    /\ Spend("clicks")
    /\ settings' = [settings EXCEPT !.fields = x]
    /\ UNCHANGED callVars

\* The save buttons are disabled while their save is pending; in the category
\* section the Enter key saves all the same.
MaySave(key) == key = "form" => key \notin settings.saving

Save(i, key, row, fields) ==
    /\ MaySave(key)
    /\ Spend("clicks")
    /\ settings' = [settings EXCEPT !.saving = @ \cup {key}]
    /\ Send(i, "save", [section |-> settings.section, key |-> key, row |-> row,
                        fields |-> fields])

\* Mutant: a new item is saved as the form was filled in, without a name.
SaveFormUnnamed(i) ==
    /\ \E s \in Formed : InSection(s)
    /\ settings.editing # None
    /\ Save(i, "form", settings.editing, settings.fields)
\* handleSave of the endpoints, handleAdd of the keys; a new item has some name.
SaveForm(i) ==
    /\ \E s \in Formed : InSection(s)
    /\ settings.editing # None
    /\ IF settings.editing = New
       THEN \E n \in Names : Save(i, "form", New, n)
       ELSE Save(i, "form", settings.editing, settings.fields)

AddCategory(i) == InSection("category") /\ \E n \in Names : Save(i, New, New, n)

UpdateCategory(i) ==
    /\ InSection("category") /\ settings.editing # None
    /\ Save(i, settings.editing, settings.editing, settings.fields)

\* Only a pending save disables the button: before any configuration was shown,
\* the defaults of the fields are sent, some value.
SaveCron(i) ==
    /\ InSection("cron")
    /\ IF settings.fields = None
       THEN \E n \in Names : Save(i, "form", New, n)
       ELSE Save(i, "form", New, settings.fields)

\* The old password is right or not; a new one that was mistyped is not sent.
ChangePassword(i, right) ==
    /\ InSection("password")
    /\ Save(i, "form", New, right)

\* The form, or whichever row is being edited by now, closes; the list is loaded.
SaveAnswered(i) ==
    LET arg == calls[i].arg
        closes == arg.section \in Formed \/ (arg.section = "category" /\ arg.row # New)
    IN /\ Is(i, "save") /\ calls[i].tab \in Tabs /\ Good(i)
       /\ IF arg.section = "password"
          THEN /\ Put(i, NoCall)
               /\ settings' = IF Live(i) THEN Done(settings, "form") ELSE settings
               /\ UNCHANGED mine
          ELSE /\ Reload(i, "list", ListArg(arg.section, arg.key), TRUE)
               /\ settings' = IF Live(i) /\ closes
                              THEN [settings EXCEPT !.editing = None, !.fields = None]
                              ELSE settings
       /\ UNCHANGED <<loading, fresh>>

SaveFailed(i) ==
    /\ Is(i, "save") /\ calls[i].tab \in Tabs /\ Bad(i)
    /\ Put(i, NoCall)
    /\ settings' = IF Live(i) THEN Done(settings, calls[i].arg.key) ELSE settings
    /\ UNCHANGED <<loading, fresh, mine>>

\* Only the category section marks the row: one row, whatever else is pending.
Delete(i, r) ==
    /\ \/ \E s \in Formed : InSection(s)
       \/ InSection("category") /\ settings.deleting # r /\ settings.editing # r
    /\ r \in settings.rows
    /\ Spend("clicks")
    /\ settings' = [settings EXCEPT !.deleting =
                      IF settings.section = "category" THEN r ELSE @]
    /\ Send(i, "delete", [section |-> settings.section, row |-> r])

DeleteAnswered(i) ==
    /\ Is(i, "delete") /\ calls[i].tab \in Tabs /\ Good(i)
    /\ Reload(i, "list", ListArg(calls[i].arg.section, "deleted"), TRUE)
    /\ UNCHANGED <<settings, loading>>

DeleteFailed(i) ==
    /\ Is(i, "delete") /\ calls[i].tab \in Tabs /\ Bad(i)
    /\ Put(i, NoCall)
    /\ settings' = IF Live(i) THEN Done(settings, "deleted") ELSE settings
    /\ UNCHANGED <<loading, fresh, mine>>

\* A message is sent to an endpoint to try it out.
Test(i, r) ==
    /\ InSection("outbound") /\ r \in settings.rows /\ ~settings.testing
    /\ Spend("clicks")
    /\ settings' = [settings EXCEPT !.testing = TRUE]
    /\ Send(i, "test", r)

TestSettled(i) ==
    /\ Is(i, "test") /\ calls[i].tab \in Tabs /\ (Good(i) \/ Bad(i))
    /\ Put(i, NoCall)
    /\ settings' = IF Live(i) THEN [settings EXCEPT !.testing = FALSE] ELSE settings
    /\ UNCHANGED <<loading, fresh, mine>>

SettingsSettles(i) ==
    \/ ListSettled(i) \/ SaveAnswered(i) \/ SaveFailed(i)
    \/ DeleteAnswered(i) \/ DeleteFailed(i) \/ TestSettled(i)
SettingsReads(i) == ServeList(i) \/ ServeTest(i) \/ ServeUnrouted(i)
SettingsChanges(i) == ServeSave(i) \/ ServeDelete(i)
SettingsPage ==
    \/ \E i \in CallIds :
         \/ SaveForm(i) \/ AddCategory(i) \/ UpdateCategory(i) \/ SaveCron(i)
         \/ \E right \in BOOLEAN : ChangePassword(i, right)
         \/ \E r \in Names : Delete(i, r) \/ Test(i, r)
    \/ \E s \in Sections : ShowSection(s)
    \/ \E r \in Names \cup {New} : StartEdit(r)
    \/ \E x \in Names : EditCron(x)
    \/ CancelEdit
=============================================================================
