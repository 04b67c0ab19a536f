----------------------------- MODULE WebSession -----------------------------
(***************************************************************************)
(* Signing in and out of the web front end: the auth store of every tab     *)
(* (web/src/store/authStore.ts), the localStorage the tabs share, the login *)
(* page, the route guard and the server's side of a login.  One tab, Here,  *)
(* renders the pages of the other modules; of the others' pages only that   *)
(* they send requests is modelled.                                         *)
(***************************************************************************)
EXTENDS WebCalls

CONSTANTS Words, NoWord    \* what a user may search for; nothing

VARIABLES
    valid,      \* the tokens the server accepts
    issued,     \* how many tokens the server has issued; they are 1 .. issued
    init,       \* init[t]: isInitialized of tab t
    at,         \* at[t]: the route of tab t
    query,      \* the keyword in the address of tab Here
    retired     \* history: tokens a user signed out of

authVars == <<stored, held, valid, issued, init, at, query, retired>>

Pages == {"home", "inventory", "shopping", "history", "settings"}
Routes == Pages \cup {"login"}

SignedIn(t) == held[t] # NoToken
Mounted(t) == init[t] /\ SignedIn(t) /\ at[t] \in Pages
\* What tab Here should render, and whether it has rendered it.
Route == IF Mounted(Here) THEN at[Here] ELSE None
Rendered == page = Route
On(p) == page = p /\ Rendered

\* ProtectedRoute: a page without a signed-in user redirects to the login page.
Redirected == [t \in Tabs |-> IF init'[t] /\ held'[t] = NoToken THEN "login" ELSE at[t]]

(* Opening a tab *)

\* initialize(): without a token the app is ready, with one it asks who it is.
Initialize(t) ==
    LET rest == [j \in CallIds |->
                   IF calls[j] # NoCall /\ calls[j].tab = t
                   THEN [calls[j] EXCEPT !.tab = NoTab] ELSE calls[j]]
    IN IF stored = NoToken
       THEN calls' = rest /\ init' = [init EXCEPT ![t] = TRUE]
       ELSE /\ \E i \in CallIds :
                 Free(i) /\ calls' = [rest EXCEPT ![i] = Request(t, "me", stored)]
            /\ init' = [init EXCEPT ![t] = FALSE]

\* Tab t loads its document anew, or the home page in its place: the requests of
\* the old document have no reader.
OpenTab(t, r) ==
    /\ r \in {at[t], "home"}
    /\ Spend("visits")
    /\ held' = [held EXCEPT ![t] = NoToken]
    /\ Initialize(t)
    /\ at' = [Redirected EXCEPT ![t] = IF init'[t] THEN "login" ELSE r]
    /\ loading' = IF t = Here THEN FALSE ELSE loading
    /\ fresh' = IF t = Here THEN FALSE ELSE fresh
    /\ query' = IF t = Here /\ r # at[t] THEN NoWord ELSE query
    /\ UNCHANGED <<stored, valid, issued, retired, mine>>

\* me() answers: the store takes the token read before the request.
MeAnswered(i) ==
    LET t == calls[i].tab
    IN /\ Is(i, "me") /\ t \in Tabs
       /\ Good(i)
       /\ held' = [held EXCEPT ![t] = calls[i].arg]
       /\ init' = [init EXCEPT ![t] = TRUE]
       /\ at' = Redirected
       /\ Put(i, NoCall)
       /\ UNCHANGED <<stored, valid, issued, query, retired, loading, fresh, mine>>

\* me() throws for another reason than a 401: the stored token is dropped, too.
MeFailed(i) ==
    LET t == calls[i].tab
    IN /\ Is(i, "me") /\ t \in Tabs
       /\ Bad(i)
       /\ stored' = NoToken
       /\ init' = [init EXCEPT ![t] = TRUE]
       /\ UNCHANGED held
       /\ at' = Redirected
       /\ Put(i, NoCall)
       /\ UNCHANGED <<valid, issued, query, retired, loading, fresh, mine>>

(* Signing in *)

\* handleSubmit of the login page; its button is disabled while it waits.
LoginSubmit(t, i, right) ==
    /\ at[t] = "login" /\ (t = Here => Rendered)
    /\ \A j \in CallIds : ~(Is(j, "login") /\ calls[j].tab = t)
    /\ Spend("visits")
    /\ Free(i)
    /\ Put(i, Request(t, "login", right))
    /\ UNCHANGED <<authVars, loading, fresh, mine>>

\* AuthService.Login: a token for the right password, 401 for a wrong one.  A token
\* is told from others by user and second; logins are taken to differ in one of them.
ServeLogin(i) ==
    /\ Is(i, "login") /\ calls[i].state = "sent"
    /\ IF calls[i].arg
       THEN /\ issued' = issued + 1
            /\ valid' = valid \cup {issued'}
            /\ Handle(i, "ok", issued')
       ELSE Handle(i, "refused", None) /\ UNCHANGED <<issued, valid>>
    /\ UNCHANGED <<stored, held, init, at, query, retired>>

\* The token is saved for all tabs and the home page opens.
LoginAnswered(i) ==
    LET t == calls[i].tab
    IN /\ Is(i, "login") /\ t \in Tabs
       /\ Good(i)
       /\ stored' = calls[i].got
       /\ held' = [held EXCEPT ![t] = calls[i].got]
       /\ at' = [at EXCEPT ![t] = "home"]
       /\ Put(i, NoCall)
       /\ UNCHANGED <<valid, issued, init, query, retired, loading, fresh, mine>>

(* Signing out *)

\* The sidebar's button: logout() and the login page.
Logout(t) ==
    /\ Mounted(t)
    /\ Spend("visits")
    /\ retired' = retired \cup ({stored, held[t]} \ {NoToken})
    /\ stored' = NoToken
    /\ held' = [held EXCEPT ![t] = NoToken]
    /\ at' = [at EXCEPT ![t] = "login"]
    /\ UNCHANGED <<calls, valid, issued, init, query, loading, fresh, mine>>

\* Mutant: the stored token is removed, the auth store of the tab keeps its own.
StoreKept(t) == stored' = NoToken /\ UNCHANGED held
\* The listener of "auth:unauthorized": logout().
SignOut(t) == stored' = NoToken /\ held' = [held EXCEPT ![t] = NoToken]

\* A request is answered 401, whichever it is and whenever it was sent; a wrong
\* password at the login page or for a change of password is a 401, too.
Unauthorized(i) ==
    LET t == calls[i].tab
    IN /\ calls[i] # NoCall /\ t \in Tabs
       /\ calls[i].state = "refused"
       /\ SignOut(t)
       /\ init' = [init EXCEPT ![t] = @ \/ calls[i].fn = "me"]
       /\ at' = Redirected
       /\ Put(i, NoCall)
       /\ UNCHANGED <<valid, issued, query, retired, loading, fresh, mine, bound>>

(* Requests of no page modelled *)

\* A tab other than Here requests something, or a new token is tried out.
Poll(t, i) ==
    /\ t # Here /\ Mounted(t)
    /\ Spend("visits")
    /\ Free(i)
    /\ Put(i, Request(t, "poll", None))
    /\ UNCHANGED <<authVars, loading, fresh, mine>>

\* JWTAuthMiddleware: everything but a login needs a token the server accepts.
Heard(i, fn) ==
    /\ Is(i, fn) /\ calls[i].state \in {"sent", "rows", "details"}
    /\ calls[i].token \in valid

ServeRefused(i) ==
    /\ calls[i] # NoCall /\ calls[i].fn # "login"
    /\ calls[i].state \in {"sent", "rows", "details"}
    /\ calls[i].token \notin valid
    /\ Handle(i, "refused", None)
    /\ UNCHANGED authVars

ServePlain(i) ==
    /\ Heard(i, "me") \/ Heard(i, "poll")
    /\ Handle(i, "ok", None)
    /\ UNCHANGED authVars

\* Nothing but the login page's error, or nothing at all, follows.
PlainSettled(i) ==
    /\ \/ Is(i, "poll") /\ calls[i].tab \in Tabs /\ (Good(i) \/ Bad(i))
       \/ Is(i, "login") /\ calls[i].tab \in Tabs /\ Bad(i)
       \/ calls[i] # NoCall /\ calls[i].tab = NoTab /\ UNCHANGED bound
    /\ Put(i, NoCall)
    /\ UNCHANGED <<authVars, loading, fresh, mine>>

\* Tokens expire, or the server restarts with a new random key.
TokensDie ==
    /\ valid # {} /\ Spend("others")
    /\ valid' = {}
    /\ UNCHANGED <<stored, held, issued, init, at, query, retired, callVars>>

(* Moving between pages, by the sidebar or the browser's history *)

Navigate(p) ==
    /\ Route # None /\ Rendered
    /\ p # at[Here] \/ query # NoWord
    /\ Spend("visits")
    /\ at' = [at EXCEPT ![Here] = p]
    /\ query' = NoWord
    /\ UNCHANGED <<stored, held, valid, issued, init, retired, callVars>>

\* The header's search opens the inventory with a keyword in its address.
HeaderSearch(w) ==
    /\ Route # None /\ Rendered /\ w \in Words
    /\ Spend("visits")
    /\ at' = [at EXCEPT ![Here] = "inventory"]
    /\ query' = w
    /\ UNCHANGED <<stored, held, valid, issued, init, retired, callVars>>

SessionSettles(i) ==
    MeAnswered(i) \/ MeFailed(i) \/ LoginAnswered(i) \/ Unauthorized(i) \/ PlainSettled(i)
SessionServes(i) == ServeLogin(i) \/ ServePlain(i) \/ ServeRefused(i)
SessionClicks ==
    \/ \E i \in CallIds :
         \E t \in Tabs : Poll(t, i) \/ \E right \in BOOLEAN : LoginSubmit(t, i, right)
    \/ \E t \in Tabs : Logout(t)
    \/ TokensDie
    \/ \E p \in Pages : Navigate(p)
    \/ \E w \in Words : HeaderSearch(w)
=============================================================================
