----------------------------- MODULE WebProofs -----------------------------
(***************************************************************************)
(* Theorems about the web front end, for every set of tabs and materials,   *)
(* every number of requests in flight and every start.                     *)
(***************************************************************************)
EXTENDS WebApp, TLAPS

(* The requests in flight *)

\* A request is the record of its fields; what its arg and got hold is up to fn.
Fields == {"tab", "fn", "token", "live", "newest", "arg", "state", "got"}
IsCall(c) == c = [x \in Fields |-> c[x]]
Pool(c) ==
    /\ c = [i \in CallIds |-> c[i]]
    /\ \A i \in CallIds : c[i] # NoCall => IsCall(c[i])

\* What a step may do to slot i unless it answers or settles a login.
Kept(i) ==
    /\ calls[i] # NoCall /\ IsCall(calls'[i])
    /\ calls'[i].fn = calls[i].fn /\ calls'[i].arg = calls[i].arg
    /\ calls'[i].state = "sent" => calls[i].state = "sent"
    /\ calls[i].fn = "login" => /\ calls'[i].state = calls[i].state
                                /\ calls'[i].got = calls[i].got
Asks(i) ==
    /\ IsCall(calls'[i])
    /\ calls'[i].state = "sent" /\ calls'[i].token = stored
    /\ calls'[i].fn = "me" => calls'[i].arg = stored /\ stored # NoToken
Slot(i) == calls'[i] = NoCall \/ Kept(i) \/ Asks(i)
Calm == calls' = [i \in CallIds |-> calls'[i]] /\ \A i \in CallIds : Slot(i)

\* An untouched pool.
LEMMA CalmSame == ASSUME Pool(calls), UNCHANGED calls PROVE Calm
  BY DEF Pool, Calm, Slot, Kept

\* A slot is freed.
LEMMA CalmDrop ==
  ASSUME Pool(calls), NEW i \in CallIds, Put(i, NoCall) PROVE Calm
  BY DEF Pool, Calm, Slot, Kept, Put

\* A request is sent.
LEMMA CalmSend ==
  ASSUME Pool(calls), NEW i \in CallIds, NEW t, NEW fn, NEW arg, fn # "me",
         Put(i, Request(t, fn, arg))
  PROVE  Calm
  BY DEF Pool, Calm, Slot, Kept, Asks, Put, IsCall, Fields, Request, Token

\* The server handles a request that is no login.
LEMMA CalmHandle ==
  ASSUME Pool(calls), NEW i \in CallIds, calls[i] # NoCall, calls[i].fn # "login",
         NEW state, state # "sent", NEW got, Handle(i, state, got)
  PROVE  Calm
<1> DEFINE d == [calls[i] EXCEPT !.state = state, !.got = got]
<1>1. IsCall(d) /\ d.fn = calls[i].fn /\ d.arg = calls[i].arg /\ d.state = state
  <2>1. IsCall(calls[i])  BY DEF Pool
  <2> QED  BY <2>1 DEF IsCall, Fields
<1>2. calls' = [calls EXCEPT ![i] = d]
  BY DEF Handle, Put
<1> HIDE DEF d
<1> QED
  BY <1>1, <1>2 DEF Pool, Calm, Slot, Kept

\* A page starts to load: older loads are marked.
LEMMA CalmLoad ==
  ASSUME Pool(calls), NEW i \in CallIds, NEW c, c.fn # "me", IsCall(c), c.state = "sent",
         c.token = stored, calls' = WithLoad(i, c)
  PROVE  Calm
<1>1. ASSUME NEW j \in CallIds, j # i PROVE Slot(j)
  <2>1. CASE Is(j, c.fn)
    <3> DEFINE d == [calls[j] EXCEPT !.newest = FALSE]
    <3>1. IsCall(calls[j]) /\ calls[j] # NoCall  BY <2>1 DEF Pool, Is
    <3>2. IsCall(d) /\ d.fn = calls[j].fn /\ d.arg = calls[j].arg /\ d.state = calls[j].state
          /\ d.got = calls[j].got
      BY <3>1 DEF IsCall, Fields
    <3>3. calls'[j] = d  BY <1>1, <2>1 DEF WithLoad
    <3> HIDE DEF d
    <3> QED  BY <3>1, <3>2, <3>3 DEF Slot, Kept
  <2>2. CASE ~Is(j, c.fn)
    BY <1>1, <2>2 DEF Is, WithLoad, Slot, Kept, Pool
  <2> QED  BY <2>1, <2>2
<1>2. Slot(i)
  BY DEF WithLoad, Slot, Asks
<1>3. calls' = [j \in CallIds |-> calls'[j]]
  BY DEF WithLoad
<1> QED
  BY <1>1, <1>2, <1>3 DEF Calm

\* A request of the front end carries the stored token.
LEMMA RequestIsCall ==
  ASSUME NEW t, NEW fn, NEW arg
  PROVE  LET c == Request(t, fn, arg)
         IN IsCall(c) /\ c.fn = fn /\ c.arg = arg /\ c.state = "sent" /\ c.token = stored
  BY DEF IsCall, Fields, Request, Token

LEMMA CalmBegin ==
  ASSUME Pool(calls), NEW i \in CallIds, NEW fn, fn # "me", NEW arg, BeginLoad(i, fn, arg)
  PROVE  Calm
  BY CalmLoad, RequestIsCall DEF BeginLoad

\* Requests lose their readers in rest; one may be sent in their midst.
Left(rest, j) ==
    \/ rest[j] = NoCall
    \/ /\ calls[j] # NoCall /\ IsCall(rest[j])
       /\ rest[j].fn = calls[j].fn /\ rest[j].arg = calls[j].arg
       /\ rest[j].state = calls[j].state /\ rest[j].got = calls[j].got

LEMMA CalmLeft ==
  ASSUME Pool(calls), NEW rest, rest = [j \in CallIds |-> rest[j]],
         \A j \in CallIds : Left(rest, j),
         \/ calls' = rest
         \/ \E t, fn, arg : \E i \in CallIds :
              /\ fn = "me" => arg = stored /\ stored # NoToken
              /\ calls' = [rest EXCEPT ![i] = Request(t, fn, arg)]
  PROVE  Calm
<1>1. CASE calls' = rest
  BY <1>1 DEF Calm, Slot, Kept, Left
<1>2. CASE \E t, fn, arg : \E i \in CallIds :
             /\ fn = "me" => arg = stored /\ stored # NoToken
             /\ calls' = [rest EXCEPT ![i] = Request(t, fn, arg)]
  <2>1. PICK i \in CallIds : \E t, fn, arg :
               /\ fn = "me" => arg = stored /\ stored # NoToken
               /\ calls' = [rest EXCEPT ![i] = Request(t, fn, arg)]
    BY <1>2
  <2>2. PICK t, fn, arg :
               /\ fn = "me" => arg = stored /\ stored # NoToken
               /\ calls' = [rest EXCEPT ![i] = Request(t, fn, arg)]
    BY <2>1
  <2>3. Slot(i) /\ calls' = [j \in CallIds |-> calls'[j]]
    BY <2>2, RequestIsCall DEF Slot, Asks
  <2>4. ASSUME NEW j \in CallIds, j # i PROVE Slot(j)
    BY <2>2, <2>4 DEF Slot, Kept, Left
  <2> QED  BY <2>3, <2>4 DEF Calm
<1> QED  BY <1>1, <1>2

\* Components are unmounted, others are mounted and may load.
LEMMA CalmRemount ==
  ASSUME Pool(calls), NEW load \in BOOLEAN, NEW fn, load => fn # "me", NEW arg,
         Remount(load, fn, arg)
  PROVE  Calm
<1>1. ASSUME NEW j \in CallIds PROVE Left(Abandoned, j)
  <2>1. CASE j \in Ours
    <3> DEFINE d == [calls[j] EXCEPT !.live = FALSE, !.newest = FALSE]
    <3>1. IsCall(calls[j]) /\ calls[j] # NoCall  BY <2>1 DEF Pool, Ours
    <3>2. IsCall(d) /\ d.fn = calls[j].fn /\ d.arg = calls[j].arg /\ d.state = calls[j].state
          /\ d.got = calls[j].got
      BY <3>1 DEF IsCall, Fields
    <3>3. Abandoned[j] = d  BY <2>1 DEF Abandoned
    <3> HIDE DEF d
    <3> QED  BY <3>1, <3>2, <3>3 DEF Left
  <2>2. CASE j \notin Ours
    BY <2>2 DEF Abandoned, Pool, Left
  <2> QED  BY <2>1, <2>2
<1>2. Abandoned = [j \in CallIds |-> Abandoned[j]]
  BY DEF Abandoned
<1>3. \/ calls' = Abandoned
      \/ /\ fn # "me"
         /\ \E i \in CallIds : calls' = [Abandoned EXCEPT ![i] = Request(Here, fn, arg)]
  BY DEF Remount
<1> QED  BY <1>1, <1>2, <1>3, CalmLeft

\* A change is followed by a load in the slot of its request.
LEMMA CalmReload ==
  ASSUME Pool(calls), NEW i \in CallIds, calls[i] # NoCall, NEW fn, fn # "me", NEW arg,
         NEW current, Reload(i, fn, arg, current)
  PROVE  Calm
<1> DEFINE c == [Request(Here, fn, arg) EXCEPT !.live = calls[i].live,
                                              !.newest = calls[i].newest /\ current]
<1>1. IsCall(c) /\ c.fn = fn /\ c.state = "sent" /\ c.token = stored
  BY DEF Request, Token, IsCall, Fields
<1>2. calls' = IF calls[i].live THEN WithLoad(i, c) ELSE [calls EXCEPT ![i] = c]
  BY DEF Reload
<1> HIDE DEF c
<1>3. CASE calls[i].live
  BY <1>1, <1>2, <1>3, CalmLoad
<1>4. CASE ~calls[i].live
  BY <1>1, <1>2, <1>4 DEF Pool, Calm, Slot, Kept, Asks
<1> QED  BY <1>3, <1>4

(* The tokens *)

Issued == 1 .. issued
OkLogin(i) == calls[i] # NoCall /\ calls[i].fn = "login" /\ calls[i].state = "ok"
Asking(i) == calls[i] # NoCall /\ calls[i].fn = "me"

\* A token on its way to the login page is known nowhere else.
Unknown(k) ==
    /\ k \in Issued /\ k \notin retired /\ k # stored
    /\ \A t \in Tabs : held[t] # k
    /\ \A i \in CallIds : Asking(i) => calls[i].arg # k

\* The strengthening: a new token is unknown until its login is answered, so that
\* the stored token is never one that was signed out.
TokenInv ==
    /\ Pool(calls)
    /\ issued \in Nat /\ retired \subseteq Issued
    /\ stored \in Issued \cup {NoToken} /\ stored \notin retired
    /\ held = [t \in Tabs |-> held[t]]
    /\ \A t \in Tabs : held[t] \in Issued \cup {NoToken}
    /\ \A i \in CallIds : Asking(i) => calls[i].arg \in Issued
    /\ \A i \in CallIds : OkLogin(i) => Unknown(calls[i].got)
    /\ \A i, j \in CallIds : OkLogin(i) /\ OkLogin(j) /\ i # j => calls[i].got # calls[j].got

\* The tokens of a step that ends no login and signs nobody out by the sidebar: they
\* are dropped, or taken over from an answered me().
TokensMove ==
    /\ stored' \in {stored, NoToken} /\ UNCHANGED <<issued, retired>>
    /\ held' = [t \in Tabs |-> held'[t]]
    /\ \A t \in Tabs : \/ held'[t] \in {held[t], NoToken}
                       \/ \E i \in CallIds : Asking(i) /\ held'[t] = calls[i].arg
SendsStored == \A i \in CallIds : Sends(i) => calls'[i].token \notin retired

\* Such a step keeps the invariant and sends nothing but the stored token.
LEMMA CalmStep ==
  ASSUME TokenInv, Calm, TokensMove
  PROVE  TokenInv' /\ SendsStored
<1> USE WebCallsAssumption
<1>1. Issued' = Issued /\ Issued \subseteq Nat
  BY DEF TokensMove, Issued, TokenInv
<1>2. Pool(calls')
  BY DEF Calm, Slot, Kept, Asks, Pool
<1>3. stored' \in Issued \cup {NoToken} /\ stored' \notin retired
  BY <1>1 DEF TokenInv, TokensMove
<1>4. \A t \in Tabs : held'[t] \in Issued \cup {NoToken}
  BY <1>1 DEF TokenInv, TokensMove
<1>5. ASSUME NEW i \in CallIds, Asking(i)'
      PROVE  calls'[i].arg = stored \/ (Asking(i) /\ calls'[i].arg = calls[i].arg)
  BY <1>5 DEF Asking, Calm, Slot, Kept, Asks
<1>6. \A i \in CallIds : Asking(i)' => calls'[i].arg \in Issued
  <2> SUFFICES ASSUME NEW i \in CallIds, Asking(i)' PROVE calls'[i].arg \in Issued
    OBVIOUS
  <2>1. CASE Asking(i) /\ calls'[i].arg = calls[i].arg
    BY <2>1 DEF TokenInv
  <2>2. CASE ~(Asking(i) /\ calls'[i].arg = calls[i].arg)
    BY <2>2, <1>5 DEF TokenInv, Calm, Slot, Kept, Asks, Asking
  <2> QED  BY <2>1, <2>2
<1>7. ASSUME NEW i \in CallIds, OkLogin(i)'
      PROVE  OkLogin(i) /\ calls'[i].got = calls[i].got
  BY <1>7 DEF OkLogin, Calm, Slot, Kept, Asks
<1>8. ASSUME NEW i \in CallIds, OkLogin(i)' PROVE Unknown(calls[i].got)'
  <2> DEFINE k == calls[i].got
  <2>1. Unknown(k)
    BY <1>7, <1>8 DEF TokenInv
  <2>2. calls'[i].got = k
    BY <1>7, <1>8
  <2>3. k \in Nat /\ k # NoToken
    BY <2>1, <1>1 DEF Unknown
  <2> HIDE DEF k
  <2>4. k # stored' /\ k \notin retired' /\ k \in Issued'
    BY <2>1, <2>3, <1>1 DEF Unknown, TokensMove
  <2>5. \A t \in Tabs : held'[t] # k
    BY <2>1, <2>3 DEF Unknown, TokensMove
  <2>6. \A j \in CallIds : Asking(j)' => calls'[j].arg # k
    BY <2>1, <1>5 DEF Unknown
  <2> QED  BY <2>2, <2>4, <2>5, <2>6 DEF Unknown
<1>9. \A i, j \in CallIds : OkLogin(i)' /\ OkLogin(j)' /\ i # j => calls'[i].got # calls'[j].got
  BY <1>7 DEF TokenInv
<1>10. TokenInv'
  BY <1>1, <1>2, <1>3, <1>4, <1>6, <1>8, <1>9 DEF TokenInv, TokensMove
<1>11. SendsStored
  BY DEF SendsStored, Sends, Calm, Slot, Kept, Asks, TokenInv
<1> QED  BY <1>10, <1>11

\* Nothing happens to the tokens.
TokenFrame == UNCHANGED <<stored, held, issued, retired>>

LEMMA FrameMoves == ASSUME TokenInv, TokenFrame PROVE TokensMove
  BY DEF TokenInv, TokenFrame, TokensMove

\* Clicks of the session other than the sidebar's button.
LEMMA ClicksCalm ==
  ASSUME TokenInv, SessionClicks, ~\E t \in Tabs : Logout(t)
  PROVE  Calm /\ TokenFrame
<1>1. Pool(calls)  BY DEF TokenInv
<1>2. CASE \E i \in CallIds : \E t \in Tabs :
             Poll(t, i) \/ \E right \in BOOLEAN : LoginSubmit(t, i, right)
  <2>1. PICK i \in CallIds, t \in Tabs :
           Poll(t, i) \/ \E right \in BOOLEAN : LoginSubmit(t, i, right)
    BY <1>2
  <2>2. \E fn, arg : fn # "me" /\ Put(i, Request(t, fn, arg))
    BY <2>1 DEF Poll, LoginSubmit
  <2>3. TokenFrame
    BY <2>1 DEF Poll, LoginSubmit, authVars, TokenFrame
  <2> QED  BY <1>1, <2>2, <2>3, CalmSend
<1>3. CASE TokensDie \/ (\E p \in Pages : Navigate(p)) \/ (\E w \in Words : HeaderSearch(w))
  <2>1. UNCHANGED calls /\ TokenFrame
    BY <1>3 DEF TokensDie, Navigate, HeaderSearch, callVars, TokenFrame
  <2> QED  BY <1>1, <2>1, CalmSame
<1> QED
  BY <1>2, <1>3 DEF SessionClicks

\* The server's answers other than those to a login.
LEMMA ServesCalm ==
  ASSUME TokenInv, NEW i \in CallIds, ServePlain(i) \/ ServeRefused(i)
  PROVE  Calm /\ TokenFrame
<1>1. Pool(calls)  BY DEF TokenInv
<1>2. calls[i] # NoCall /\ calls[i].fn # "login"
  BY DEF ServePlain, ServeRefused, Heard, Is
<1>3. \E state, got : state # "sent" /\ Handle(i, state, got)
  BY DEF ServePlain, ServeRefused
<1>4. TokenFrame
  BY DEF ServePlain, ServeRefused, authVars, TokenFrame
<1> QED  BY <1>1, <1>2, <1>3, <1>4, CalmHandle

\* Every request of the session that settles, unless it signs in.
LEMMA SettlesCalm ==
  ASSUME TokenInv, NEW i \in CallIds, MeAnswered(i) \/ MeFailed(i) \/ Unauthorized(i) \/ PlainSettled(i)
  PROVE  Calm /\ TokensMove
<1>1. Pool(calls)  BY DEF TokenInv
<1>2. Put(i, NoCall)
  BY DEF MeAnswered, MeFailed, Unauthorized, PlainSettled
<1>3. TokensMove
  <2>1. CASE MeAnswered(i)
    BY <2>1 DEF MeAnswered, TokensMove, TokenInv, Asking, Is
  <2>2. CASE MeFailed(i)
    BY <2>2 DEF MeFailed, TokensMove, TokenInv
  <2>3. CASE Unauthorized(i)
    BY <2>3 DEF Unauthorized, SignOut, TokensMove, TokenInv
  <2>4. CASE PlainSettled(i)
    BY <2>4, FrameMoves DEF PlainSettled, authVars, TokenFrame
  <2> QED  BY <2>1, <2>2, <2>3, <2>4
<1> QED  BY <1>1, <1>2, <1>3, CalmDrop

\* The pool of tab t's new document: it may ask who the stored token is.
Orphaned(t) ==
    [j \in CallIds |->
        IF calls[j] # NoCall /\ calls[j].tab = t
        THEN [calls[j] EXCEPT !.tab = NoTab] ELSE calls[j]]

LEMMA OpenTabCalm ==
  ASSUME TokenInv, NEW t \in Tabs, NEW r, OpenTab(t, r)
  PROVE  Calm /\ TokensMove
<1>1. TokensMove
  BY DEF OpenTab, TokensMove, TokenInv
<1>2. ASSUME NEW j \in CallIds PROVE Left(Orphaned(t), j)
  <2>1. CASE calls[j] # NoCall /\ calls[j].tab = t
    <3> DEFINE d == [calls[j] EXCEPT !.tab = NoTab]
    <3>1. IsCall(calls[j]) /\ calls[j] # NoCall  BY <2>1 DEF Pool, TokenInv
    <3>2. IsCall(d) /\ d.fn = calls[j].fn /\ d.arg = calls[j].arg /\ d.state = calls[j].state
          /\ d.got = calls[j].got
      BY <3>1 DEF IsCall, Fields
    <3>3. Orphaned(t)[j] = d  BY <2>1 DEF Orphaned
    <3> HIDE DEF d
    <3> QED  BY <3>1, <3>2, <3>3 DEF Left
  <2>2. CASE ~(calls[j] # NoCall /\ calls[j].tab = t)
    BY <2>2 DEF TokenInv, Pool, Left, Orphaned
  <2> QED  BY <2>1, <2>2
<1>3. Orphaned(t) = [j \in CallIds |-> Orphaned(t)[j]]
  BY DEF Orphaned
<1>4. \/ calls' = Orphaned(t)
      \/ \E i \in CallIds : /\ stored # NoToken
                            /\ calls' = [Orphaned(t) EXCEPT ![i] = Request(t, "me", stored)]
  BY DEF OpenTab, Initialize, Orphaned
<1> QED  BY <1>1, <1>2, <1>3, <1>4, CalmLeft DEF TokenInv

\* Every step that neither answers a login, nor settles it, nor signs out by the sidebar.
LEMMA CalmFrame ==
  ASSUME TokenInv, Calm, TokenFrame PROVE TokenInv' /\ SendsStored
  BY FrameMoves, CalmStep

(* The steps of a login, and the sidebar's button *)

\* A new token is unknown to everybody.
LEMMA LoginServed ==
  ASSUME TokenInv, NEW i \in CallIds, ServeLogin(i) PROVE TokenInv' /\ SendsStored
<1> USE WebCallsAssumption
<1> DEFINE d == calls'[i]
<1>1. /\ calls[i] # NoCall /\ IsCall(calls[i]) /\ calls[i].fn = "login"
      /\ calls[i].state = "sent"
  BY DEF TokenInv, Pool, ServeLogin, Is
<1>2. ASSUME NEW state, NEW got, Handle(i, state, got)
      PROVE  /\ IsCall(d) /\ d.fn = "login" /\ d.state = state /\ d.got = got
             /\ calls' = [calls EXCEPT ![i] = d]
  <2> DEFINE e == [calls[i] EXCEPT !.state = state, !.got = got]
  <2>1. IsCall(e) /\ e.fn = "login" /\ e.state = state /\ e.got = got
    BY <1>1 DEF IsCall, Fields
  <2>2. calls' = [calls EXCEPT ![i] = e] /\ d = e
    BY <1>2 DEF Handle, Put, TokenInv, Pool
  <2> HIDE DEF e
  <2> QED  BY <2>1, <2>2
<1>3. UNCHANGED <<stored, held, retired>>
  BY DEF ServeLogin
<1>4. CASE calls[i].arg
  <2>1. PICK k : k = issued + 1 /\ issued' = k /\ Handle(i, "ok", k)
    BY <1>4 DEF ServeLogin
  <2>2. /\ IsCall(d) /\ d.fn = "login" /\ d.state = "ok" /\ d.got = k
        /\ calls' = [calls EXCEPT ![i] = d]
    BY <1>2, <2>1
  <2> HIDE DEF d
  <2>3. /\ Issued' = Issued \cup {k} /\ k \notin Issued
        /\ k # NoToken /\ issued' \in Nat
    BY <2>1 DEF Issued, TokenInv
  <2>4. Pool(calls') /\ calls' = [j \in CallIds |-> IF j = i THEN d ELSE calls[j]]
    BY <2>2 DEF Pool, TokenInv
  <2>5. \A j \in CallIds : Asking(j)' => Asking(j) /\ calls'[j].arg = calls[j].arg
    BY <2>2, <2>4 DEF Asking
  <2>6. ASSUME NEW j \in CallIds, OkLogin(j)'
        PROVE  \/ j = i /\ calls'[j].got = k
               \/ j # i /\ OkLogin(j) /\ calls'[j].got = calls[j].got
    BY <2>2, <2>4, <2>6 DEF OkLogin
  <2>7. Unknown(k)'
    BY <1>3, <2>3, <2>5 DEF Unknown, TokenInv, Asking
  <2>8. \A l : Unknown(l) => Unknown(l)' /\ l # k
    BY <1>3, <2>3, <2>5 DEF Unknown
  <2>9. \A j \in CallIds : OkLogin(j)' => Unknown(calls[j].got)'
    <3> SUFFICES ASSUME NEW j \in CallIds, OkLogin(j)' PROVE Unknown(calls[j].got)'
      OBVIOUS
    <3>1. CASE j = i
      BY <2>6, <2>7, <3>1 DEF OkLogin, Unknown
    <3>2. CASE j # i
      <4>1. OkLogin(j) /\ calls'[j].got = calls[j].got  BY <2>6, <3>2
      <4>2. Unknown(calls[j].got)  BY <4>1 DEF TokenInv
      <4> QED  BY <2>8, <4>1, <4>2 DEF Unknown
    <3> QED  BY <3>1, <3>2
  <2>10. \A j, l \in CallIds : OkLogin(j)' /\ OkLogin(l)' /\ j # l => calls'[j].got # calls'[l].got
    BY <2>6, <2>8 DEF TokenInv
  <2>11. TokenInv'
    BY <1>3, <2>3, <2>4, <2>5, <2>9, <2>10 DEF TokenInv, OkLogin, Asking, Unknown
  <2>12. SendsStored
    BY <2>2, <2>4 DEF SendsStored, Sends
  <2> QED  BY <2>11, <2>12
<1>5. CASE ~calls[i].arg
  <2>1. Handle(i, "refused", None) /\ UNCHANGED issued
    BY <1>5 DEF ServeLogin
  <2>2. /\ IsCall(d) /\ d.fn = "login" /\ d.state = "refused"
        /\ calls' = [calls EXCEPT ![i] = d]
    BY <1>2, <2>1
  <2> HIDE DEF d
  <2>3. Pool(calls') /\ calls' = [j \in CallIds |-> IF j = i THEN d ELSE calls[j]]
    BY <2>2 DEF Pool, TokenInv
  <2>4. \A j \in CallIds : /\ Asking(j)' => Asking(j) /\ calls'[j].arg = calls[j].arg
                           /\ OkLogin(j)' => OkLogin(j) /\ calls'[j].got = calls[j].got
    BY <2>2, <2>3 DEF Asking, OkLogin
  <2>5. \A k : Unknown(k) => Unknown(k)'
    BY <1>3, <2>1, <2>4 DEF Unknown, Issued, Asking
  <2>6. TokenInv'
    BY <1>3, <2>1, <2>3, <2>4, <2>5 DEF TokenInv, Issued, OkLogin, Asking, Unknown
  <2>7. SendsStored
    BY <2>2, <2>3 DEF SendsStored, Sends
  <2> QED  BY <2>6, <2>7
<1> QED  BY <1>4, <1>5

\* The new token becomes the stored one, and that of the tab that signed in.
LEMMA LoginSettled ==
  ASSUME TokenInv, NEW i \in CallIds, LoginAnswered(i) PROVE TokenInv' /\ SendsStored
<1> DEFINE k == calls[i].got
<1>1. OkLogin(i) /\ UNCHANGED <<issued, retired>> /\ stored' = k
  BY DEF LoginAnswered, Is, Good, OkLogin
<1>2. Unknown(k)
  BY <1>1 DEF TokenInv
<1>3. calls' = [j \in CallIds |-> IF j = i THEN NoCall ELSE calls[j]]
  BY DEF LoginAnswered, Put, TokenInv, Pool
<1>4. /\ held' = [t \in Tabs |-> held'[t]]
      /\ \A t \in Tabs : held'[t] \in {k, held[t]}
  BY DEF LoginAnswered, TokenInv
<1>5. \A j \in CallIds : /\ Asking(j)' => Asking(j) /\ calls'[j].arg = calls[j].arg
                         /\ OkLogin(j)' => OkLogin(j) /\ calls'[j].got = calls[j].got /\ j # i
  BY <1>3 DEF Asking, OkLogin
<1>6. \A j \in CallIds : OkLogin(j)' => calls[j].got # k /\ Unknown(calls[j].got)
  BY <1>1, <1>5 DEF TokenInv, OkLogin
<1> HIDE DEF k
<1>7. \A l : Unknown(l) /\ l # k => Unknown(l)'
  BY <1>1, <1>4, <1>5 DEF Unknown, Issued, Asking
<1>8. Pool(calls')
  BY <1>3 DEF Pool, TokenInv
<1>9. stored' \in Issued' /\ stored' \notin retired' /\ Issued' = Issued
  BY <1>1, <1>2 DEF Unknown, Issued
<1>10. \A t \in Tabs : held'[t] \in Issued \cup {NoToken}
  BY <1>2, <1>4 DEF TokenInv, Unknown
<1>11. TokenInv'
  BY <1>1, <1>4, <1>5, <1>6, <1>7, <1>8, <1>9, <1>10 DEF TokenInv, OkLogin, Asking, Unknown
<1>12. SendsStored
  BY <1>3 DEF SendsStored, Sends
<1> QED  BY <1>11, <1>12

\* The tokens signed out of are retired; those still on their way are others.
LEMMA LogoutStep ==
  ASSUME TokenInv, NEW t \in Tabs, Logout(t) PROVE TokenInv' /\ SendsStored
<1> USE WebCallsAssumption
<1>1. /\ retired' = retired \cup ({stored, held[t]} \ {NoToken})
      /\ stored' = NoToken /\ UNCHANGED <<calls, issued>>
      /\ held' = [held EXCEPT ![t] = NoToken]
  BY DEF Logout
<1>2. Issued' = Issued /\ Issued \subseteq Nat
  BY <1>1 DEF Issued, TokenInv
<1>3. retired' \subseteq Issued /\ NoToken \notin retired'
  BY <1>1, <1>2 DEF TokenInv
<1>4. \A k : Unknown(k) => Unknown(k)'
  BY <1>1, <1>2 DEF Unknown, TokenInv, Asking
<1>5. TokenInv'
  BY <1>1, <1>2, <1>3, <1>4 DEF TokenInv, Asking, OkLogin, Pool
<1>6. SendsStored
  BY <1>1 DEF SendsStored, Sends
<1> QED  BY <1>5, <1>6

(* The requests of the pages *)

\* The server handles the requests of the pages, none of which is a login.
LEMMA PagesServed ==
  ASSUME Pool(calls), NEW i \in CallIds,
         \/ InventoryReads(i) \/ HistoryReads(i) \/ ServeStats(i) \/ SettingsReads(i)
         \/ ServeSubmit(i) \/ SettingsChanges(i)
  PROVE  Calm
<1>1. calls[i] # NoCall /\ calls[i].fn # "login"
  BY DEF InventoryReads, ServeMaterials, ServeLots, HistoryReads, ServeMoves, ServeLogs,
         ServeStats, SettingsReads, ServeList, ServeTest, ServeUnrouted, Unrouted,
         ServeSubmit, SettingsChanges, ServeSave, ServeDelete, Heard, Is
<1>2. \E state, got : state # "sent" /\ Handle(i, state, got)
  <2>1. CASE InventoryReads(i)
    BY <2>1 DEF InventoryReads, ServeMaterials, ServeLots, HandleRows, HandleDetails
  <2>2. CASE HistoryReads(i)
    BY <2>2 DEF HistoryReads, ServeMoves, ServeLogs, HandleRows, HandleDetails
  <2>3. CASE ServeStats(i)
    BY <2>3 DEF ServeStats
  <2>4. CASE SettingsReads(i)
    BY <2>4 DEF SettingsReads, ServeList, ServeTest, ServeUnrouted
  <2>5. CASE ServeSubmit(i)
    BY <2>5 DEF ServeSubmit
  <2>6. CASE SettingsChanges(i)
    BY <2>6 DEF SettingsChanges, ServeSave, ServeDelete
  <2> QED  BY <2>1, <2>2, <2>3, <2>4, <2>5, <2>6
<1> QED  BY <1>1, <1>2, CalmHandle

\* A request of a page is settled: its slot is free, or takes the load that follows.
LEMMA PagesSettled ==
  ASSUME Pool(calls), NEW i \in CallIds,
         \/ InventorySettles(i) \/ HistorySettled(i) \/ StatsSettled(i) \/ SettingsSettles(i)
  PROVE  Calm
<1>1. CASE LoadSettled(i) \/ HistorySettled(i) \/ StatsSettled(i) \/ ListSettled(i)
  <2>1. Put(i, NoCall)
    BY <1>1 DEF LoadSettled, HistorySettled, StatsSettled, ListSettled, EndLoad
  <2> QED  BY <2>1, CalmDrop
<1>2. CASE SubmitFailed(i) \/ SaveFailed(i) \/ DeleteFailed(i) \/ TestSettled(i)
  <2>1. Put(i, NoCall)
    BY <1>2 DEF SubmitFailed, SaveFailed, DeleteFailed, TestSettled
  <2> QED  BY <2>1, CalmDrop
<1>3. CASE SubmitAnswered(i) \/ SaveAnswered(i) \/ DeleteAnswered(i)
  <2>1. calls[i] # NoCall
    BY <1>3 DEF SubmitAnswered, SaveAnswered, DeleteAnswered, Is
  <2>2. \/ Put(i, NoCall)
        \/ \E fn, arg, current : fn # "me" /\ Reload(i, fn, arg, current)
    <3>1. CASE SubmitAnswered(i)
      BY <3>1 DEF SubmitAnswered
    <3>2. CASE SaveAnswered(i)
      BY <3>2 DEF SaveAnswered
    <3>3. CASE DeleteAnswered(i)
      BY <3>3 DEF DeleteAnswered
    <3> QED  BY <1>3, <3>1, <3>2, <3>3
  <2> QED  BY <2>1, <2>2, CalmDrop, CalmReload
<1> QED  BY <1>1, <1>2, <1>3 DEF InventorySettles, SettingsSettles

\* What a user does on a page sends a request, mounts a section or sends nothing.
LEMMA PagesClicked ==
  ASSUME Pool(calls), InventoryPage \/ HistoryPage \/ SettingsPage \/ ShoppingPage
  PROVE  Calm
<1>1. CASE InventoryPage
  <2>1. CASE \E i \in CallIds : Refresh(i) \/ \E f \in FilterChoices : SetFilter(i, f)
    BY <2>1, CalmBegin DEF Refresh, SetFilter, StartLoad
  <2>2. CASE \E i \in CallIds : Submit(i)
    BY <2>2, CalmSend DEF Submit, Send
  <2>3. CASE UNCHANGED calls
    BY <2>3, CalmSame
  <2> QED
    BY <1>1, <2>1, <2>2, <2>3 DEF InventoryPage, Type, TurnPage, ShowDetails, CloseDetails,
                                 Dismiss, OpenDialog, callVars
<1>2. CASE HistoryPage
  <2>1. CASE \E i \in CallIds : RefreshHistory(i) \/ \E f \in HistoryChoices : FilterHistory(i, f)
    BY <2>1, CalmBegin DEF RefreshHistory, FilterHistory
  <2>2. CASE UNCHANGED calls
    BY <2>2, CalmSame
  <2> QED
    BY <1>2, <2>1, <2>2 DEF HistoryPage, TypeHistory, OpenLog, CloseLog, callVars
<1>3. CASE SettingsPage
  <2>1. CASE \E fn, arg : \E i \in CallIds : fn # "me" /\ Send(i, fn, arg)
    BY <2>1, CalmSend DEF Send
  <2>2. CASE \E s \in Sections : ShowSection(s)
    <3>1. \A s : (s \in Listed) \in BOOLEAN  OBVIOUS
    <3> QED  BY <2>2, <3>1, CalmRemount DEF ShowSection
  <2>3. CASE UNCHANGED calls
    BY <2>3, CalmSame
  <2>4. ASSUME NEW i \in CallIds,
               \/ SaveForm(i) \/ AddCategory(i) \/ UpdateCategory(i) \/ SaveCron(i)
               \/ \E right \in BOOLEAN : ChangePassword(i, right)
               \/ \E r \in Names : Delete(i, r) \/ Test(i, r)
        PROVE  \E fn, arg : fn # "me" /\ Send(i, fn, arg)
    <3>1. CASE \E key, row, fields : Save(i, key, row, fields)
      BY <3>1 DEF Save
    <3>2. CASE \E r \in Names : Delete(i, r) \/ Test(i, r)
      BY <3>2 DEF Delete, Test
    <3> QED
      BY <2>4, <3>1, <3>2 DEF SaveForm, AddCategory, UpdateCategory, SaveCron, ChangePassword
  <2> QED
    BY <1>3, <2>1, <2>2, <2>3, <2>4 DEF SettingsPage, StartEdit, EditCron, CancelEdit, callVars
<1>4. CASE ShoppingPage
  <2>1. UNCHANGED calls
    BY <1>4 DEF ShoppingPage, AddItem, ToggleItem, Keep, callVars
  <2> QED  BY <2>1, CalmSame
<1> QED  BY <1>1, <1>2, <1>3, <1>4

\* A page is mounted.
LEMMA MountCalm ==
  ASSUME Pool(calls), NEW p, MountLoad(p) PROVE Calm
<1>1. \E fn, arg : \E load \in BOOLEAN : (load => fn # "me") /\ Remount(load, fn, arg)
  <2>1. CASE p = "inventory"
    BY <2>1 DEF MountLoad
  <2>2. CASE p = "history"
    BY <2>2 DEF MountLoad
  <2>3. CASE p = "home"
    BY <2>3 DEF MountLoad
  <2>4. CASE p = "settings"
    BY <2>4 DEF MountLoad
  <2>5. CASE p \notin {"inventory", "history", "home", "settings"}
    BY <2>5 DEF MountLoad
  <2> QED  BY <2>1, <2>2, <2>3, <2>4, <2>5
<1> QED  BY <1>1, CalmRemount

(* The theorem *)

LEMMA TokensAtFirst == ASSUME Init PROVE TokenInv
<1> USE WebCallsAssumption
<1>1. PICK s \in Starts :
        /\ calls = [i \in CallIds |-> NoCall]
        /\ stored = IF s.at = "login" THEN NoToken ELSE 1
        /\ held = [t \in Tabs |-> IF t = Here THEN stored ELSE NoToken]
        /\ issued = IF s.at = "login" THEN 0 ELSE 1
        /\ retired = {}
  BY DEF Init
<1>2. issued \in Nat /\ stored \in Issued \cup {NoToken}
  BY <1>1 DEF Issued
<1> QED
  BY <1>1, <1>2 DEF TokenInv, Pool, Asking, OkLogin

\* authVars unchanged is more than no token moved.
LEMMA AuthFrame == ASSUME UNCHANGED authVars PROVE TokenFrame
  BY DEF authVars, TokenFrame

LEMMA WorkKeepsTokens ==
  ASSUME TokenInv, Work PROVE TokenInv' /\ SendsStored
<1>1. Pool(calls)  BY DEF TokenInv
<1>2. CASE Render
  <2>1. Calm /\ TokenFrame
    BY <1>1, <1>2, MountCalm, AuthFrame DEF Render
  <2> QED  BY <2>1, CalmFrame
<1>3. CASE Timer
  <2>1. TokenFrame
    BY <1>3, AuthFrame DEF Timer, viewFrame
  <2>2. CASE \E i \in CallIds : Debounce(i)
    <3>1. Calm  BY <1>1, <2>2, CalmBegin DEF Debounce, StartLoad
    <3> QED  BY <2>1, <3>1, CalmFrame
  <2>3. CASE DebounceHistory
    <3>1. Calm  BY <1>1, <2>3, CalmSame DEF DebounceHistory, callVars
    <3> QED  BY <2>1, <3>1, CalmFrame
  <2> QED  BY <1>3, <2>2, <2>3 DEF Timer
<1>4. ASSUME NEW i \in CallIds, Advance(i) PROVE TokenInv' /\ SendsStored
  <2>1. CASE SessionServes(i)
    <3>1. CASE ServeLogin(i)
      BY <3>1, LoginServed
    <3>2. CASE ServePlain(i) \/ ServeRefused(i)
      BY <3>2, ServesCalm, CalmFrame
    <3> QED  BY <2>1, <3>1, <3>2 DEF SessionServes
  <2>2. CASE SessionSettles(i)
    <3>1. CASE LoginAnswered(i)
      BY <3>1, LoginSettled
    <3>2. CASE MeAnswered(i) \/ MeFailed(i) \/ Unauthorized(i) \/ PlainSettled(i)
      BY <3>2, SettlesCalm, CalmStep
    <3> QED  BY <2>2, <3>1, <3>2 DEF SessionSettles
  <2>3. CASE UNCHANGED authVars /\ (\/ InventoryReads(i) \/ HistoryReads(i) \/ ServeStats(i)
                                    \/ SettingsReads(i) \/ ServeSubmit(i) \/ SettingsChanges(i))
    BY <1>1, <2>3, PagesServed, AuthFrame, CalmFrame
  <2>4. CASE UNCHANGED viewFrame /\ (\/ InventorySettles(i) \/ HistorySettled(i)
                                     \/ StatsSettled(i) \/ SettingsSettles(i))
    <3>1. UNCHANGED authVars  BY <2>4 DEF viewFrame
    <3> QED  BY <1>1, <2>4, <3>1, PagesSettled, AuthFrame, CalmFrame
  <2> QED  BY <1>4, <2>1, <2>2, <2>3, <2>4 DEF Advance
<1> QED  BY <1>2, <1>3, <1>4 DEF Work

LEMMA UsersKeepTokens ==
  ASSUME TokenInv, Users PROVE TokenInv' /\ SendsStored
<1>1. Pool(calls)  BY DEF TokenInv
<1>2. CASE SessionClicks
  <2>1. CASE \E t \in Tabs : Logout(t)
    BY <2>1, LogoutStep
  <2>2. CASE ~\E t \in Tabs : Logout(t)
    BY <1>2, <2>2, ClicksCalm, CalmFrame
  <2> QED  BY <2>1, <2>2
<1>3. CASE \E t \in Tabs, r \in Routes : OpenTab(t, r)
  BY <1>3, OpenTabCalm, CalmStep
<1>4. CASE \E r \in Routes : Reopen(r)
  BY <1>4, OpenTabCalm, CalmStep, WebCallsAssumption DEF Reopen
<1>5. CASE UNCHANGED authVars /\ (InventoryPage \/ HistoryPage \/ SettingsPage \/ ShoppingPage)
  BY <1>1, <1>5, PagesClicked, AuthFrame, CalmFrame
<1>6. CASE UNCHANGED authVars /\ ((\E x \in Items : OtherTabSaves(x)) \/ OthersChange)
  <2>1. UNCHANGED calls
    BY <1>6 DEF OtherTabSaves, OthersChange, callVars
  <2> QED  BY <1>1, <1>6, <2>1, CalmSame, AuthFrame, CalmFrame
<1> QED
  BY <1>2, <1>3, <1>4, <1>5, <1>6 DEF Users, viewFrame

\* Nobody, in whichever tab and in whatever order requests are answered, sends a token
\* that a user has signed out of: getToken() reads the shared storage for each request,
\* and what is stored is never a retired token (TokenInv).
THEOREM SignedOutTokenUnusedCorrect == Spec => SignedOutTokenUnused
<1>1. Init => TokenInv
  BY TokensAtFirst
<1>2. TokenInv /\ [Next]_vars => TokenInv' /\ [SendsStored]_vars
  <2> SUFFICES ASSUME TokenInv, [Next]_vars PROVE TokenInv' /\ [SendsStored]_vars
    OBVIOUS
  <2>1. CASE Next
    BY <2>1, WorkKeepsTokens, UsersKeepTokens DEF Next
  <2>2. CASE UNCHANGED vars
    <3>1. UNCHANGED calls /\ TokenFrame
      BY <2>2 DEF vars, callVars, authVars, TokenFrame
    <3> QED  BY <2>2, <3>1, CalmSame, CalmFrame DEF TokenInv
  <2> QED  BY <2>1, <2>2
<1>3. SignedOutTokenUnused <=> [][SendsStored]_vars
  BY DEF SignedOutTokenUnused, SendsStored
<1> QED  BY <1>1, <1>2, <1>3, PTL DEF Spec
=============================================================================
