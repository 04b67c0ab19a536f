------------------------------ MODULE WebCalls ------------------------------
(***************************************************************************)
(* The requests of the web front end (web/src/lib/api.ts and the modules of *)
(* web/src/api).  JavaScript runs one callback at a time, so the front end  *)
(* is the state of its components and the requests in flight: a request is  *)
(* sent in one step, handled by the server in a second and settled in a     *)
(* third, which runs the code after the await.  Requests settle in any      *)
(* order and may be lost before or after the server handled them.          *)
(***************************************************************************)
EXTENDS Naturals, Sequences, FiniteSets

CONSTANTS
    Tabs,       \* the browser tabs, which share one localStorage
    Here,       \* the tab whose pages are modelled
    MaxCalls,   \* bound: requests in flight at once
    NoToken,    \* no token
    NoTab,      \* the tab of a request whose document is gone
    None        \* nothing: no answer yet, no row, no dialog

ASSUME WebCallsAssumption ==
    /\ Here \in Tabs /\ NoTab \notin Tabs
    /\ MaxCalls \in Nat
    /\ NoToken \notin Nat /\ None \notin Nat

VARIABLES
    calls,      \* calls[i]: a request and what its continuation needs, or NoCall
    stored,     \* localStorage "auth_token"
    held,       \* held[t]: the token in the auth store of tab t
    page,       \* the page rendered in tab Here, or None
    entries,    \* what the server has changed so far, oldest first
    loading,    \* the loading flag of the rendered page
    fresh,      \* history: the newest load of the page was answered last
    mine,       \* history: Len(entries) after this page's last confirmed change
    bound       \* bounds: clicks, visits, faults and changes by others still to come

callVars == <<calls, loading, fresh, mine>>

CallIds == 1 .. MaxCalls
NoCall == [fn |-> "none"]     \* an unused slot
States == {"sent", "rows", "details", "ok", "rejected", "refused"}

Spend(what) == bound[what] > 0 /\ bound' = [bound EXCEPT ![what] = @ - 1]

\* Mutant: the token the tab signed in with is sent, whatever storage says.
TokenOfTab(t) == held[t]
\* getToken(): the provider reads localStorage whenever a request is sent.
Token(t) == stored

\* request() of tab t; arg is what the closure of the caller holds.
Request(t, fn, arg) ==
    [tab |-> t, fn |-> fn, token |-> Token(t), live |-> TRUE, newest |-> TRUE,
     arg |-> arg, state |-> "sent", got |-> None]

Free(i) == calls[i] = NoCall /\ \A j \in 1 .. i - 1 : calls[j] # NoCall
Is(i, fn) == calls[i] # NoCall /\ calls[i].fn = fn
Live(i) == calls[i].live /\ calls[i].tab = Here
Ours == {i \in CallIds : calls[i] # NoCall /\ calls[i].tab = Here}

Put(i, call) == calls' = [calls EXCEPT ![i] = call]

\* The pool after a page sends a load in slot i: any older load is overtaken.
WithLoad(i, call) ==
    [j \in CallIds |->
        IF j = i THEN call
        ELSE IF Is(j, call.fn) THEN [calls[j] EXCEPT !.newest = FALSE] ELSE calls[j]]

\* A page starts to load in a free slot: setLoading(true).
BeginLoad(i, fn, arg) ==
    /\ Free(i)
    /\ calls' = WithLoad(i, Request(Here, fn, arg))
    /\ loading' = TRUE
    /\ UNCHANGED <<fresh, mine>>

\* Components are unmounted: what they wait for shows nowhere any more.
Abandoned ==
    [j \in CallIds |->
        IF j \in Ours THEN [calls[j] EXCEPT !.live = FALSE, !.newest = FALSE] ELSE calls[j]]

\* Other components are mounted in their place, and load if load is TRUE.
Remount(load, fn, arg) ==
    /\ IF load
       THEN \E i \in CallIds :
              Free(i) /\ calls' = [Abandoned EXCEPT ![i] = Request(Here, fn, arg)]
       ELSE calls' = Abandoned
    /\ loading' = load
    /\ fresh' = FALSE
    /\ UNCHANGED mine

\* A page sends anything else in a free slot.
Send(i, fn, arg) ==
    /\ Free(i)
    /\ Put(i, Request(Here, fn, arg))
    /\ UNCHANGED <<loading, fresh, mine>>

\* A confirmed change is followed by a load, with what the closure holds: not the
\* newest any more if that changed while the request was pending.  If its
\* component is gone, the load is sent all the same and shows nowhere.
Reload(i, fn, arg, current) ==
    LET call == [Request(Here, fn, arg) EXCEPT !.live = calls[i].live,
                                               !.newest = calls[i].newest /\ current]
    IN /\ calls' = IF calls[i].live THEN WithLoad(i, call) ELSE [calls EXCEPT ![i] = call]
       /\ mine' = IF calls[i].live /\ calls[i].got > mine THEN calls[i].got ELSE mine
       /\ UNCHANGED fresh

\* Mutant: the flag is reset after an answer only.
EndLoadAnswered(i, answered) ==
    /\ Put(i, NoCall)
    /\ loading' = IF Live(i) /\ answered THEN FALSE ELSE loading
    /\ fresh' = IF Live(i) THEN answered /\ calls[i].newest ELSE fresh
    /\ UNCHANGED mine
\* The load of call i is over: setLoading(false).
EndLoad(i, answered) ==
    /\ Put(i, NoCall)
    /\ loading' = IF Live(i) THEN FALSE ELSE loading
    /\ fresh' = IF Live(i) THEN answered /\ calls[i].newest ELSE fresh
    /\ UNCHANGED mine

\* The answer that settles call i: good; bad, so that request() throws; or lost.
Good(i) == calls[i].state = "ok" /\ UNCHANGED bound
Bad(i) == \/ calls[i].state = "rejected" /\ UNCHANGED bound
          \/ Spend("faults")

(* The server.  It answers the two parallel requests of a load one by one.  *)

Handle(i, state, got) ==
    /\ Put(i, [calls[i] EXCEPT !.state = state, !.got = got])
    /\ UNCHANGED <<loading, fresh, mine, bound>>

HandleRows(i, rows) ==
    \/ /\ calls[i].state = "sent"
       /\ Handle(i, "rows", [rows |-> rows, details |-> {}, asOf |-> Len(entries)])
    \/ /\ calls[i].state = "details"
       /\ Handle(i, "ok", [calls[i].got EXCEPT !.rows = rows])

HandleDetails(i, details) ==
    \/ /\ calls[i].state = "sent"
       /\ Handle(i, "details", [rows |-> {}, details |-> details, asOf |-> Len(entries)])
    \/ /\ calls[i].state = "rows"
       /\ Handle(i, "ok", [calls[i].got EXCEPT !.details = details])
=============================================================================
