----------------------------- MODULE TabsProofs -----------------------------
(***************************************************************************)
(* Theorems about Tabs, for any number of tabs, administrators, sign-ins   *)
(* and requests.                                                           *)
(***************************************************************************)
EXTENDS Tabs, TLAPS

(* Tokens do not change hands: wherever a security token is kept, it was   *)
(* given out to the administrator shown with it.                           *)
Given ==
  /\ \A t \in live : owner[t] # None
  /\ \A tab \in TabSet : csrf[tab] # None => owner[csrf[tab]] # None /\ owner[csrf[tab]] = shown[tab]
  /\ \A r \in Requests : req[r].csrf # None => owner[req[r].csrf] # None /\ owner[req[r].csrf] = req[r].shown
  /\ \A r \in Requests : req[r].kind = "me" /\ req[r].step = "ok" =>
       req[r].token # None /\ req[r].user # None /\ owner[req[r].token] = req[r].user
  /\ \A r \in Requests : req[r].kind = "login" => req[r].user # None
  /\ \A tab \in TabSet : me[tab] # None => csrf[tab] # None

Inv == TypeOK /\ ActsAsShown /\ ShowsItsToken /\ Given

\* A request that is not under way.
LEMMA IdleType == Idle \in RequestState /\ Idle.csrf = None /\ Idle.ran = None /\ Idle.kind = "none"
BY DEF Idle, RequestState, Changes

(* A new request carries what its tab has, and has no answer.              *)
LEMMA RequestType ==
  ASSUME TypeOK, NEW tab \in TabSet, NEW kind \in Changes \cup {"login", "me"}
  PROVE  LET new == Request(tab, kind)
         IN  /\ new \in RequestState /\ new.kind = kind /\ new.step = "sent" /\ new.ran = None
             /\ new.csrf = csrf[tab] /\ new.shown = shown[tab]
BY DEF Request, RequestState, TypeOK, Changes

\* No tab holds a token at first.
LEMMA InitInv == Init => Inv
BY IdleType DEF Init, Inv, TypeOK, ActsAsShown, ShowsItsToken, Given

(* The tab sends something, and nothing else changes.                      *)
LEMMA SendStep ==
  ASSUME Inv, NEW r \in Requests, NEW new \in RequestState, new.ran = None,
         new.csrf # None => owner[new.csrf] # None /\ owner[new.csrf] = new.shown,
         ~(new.kind = "me" /\ new.step = "ok"), new.kind = "login" => new.user # None,
         req' = [req EXCEPT ![r] = new], UNCHANGED <<cookie, tabs, panel>>
  PROVE  Inv'
BY DEF Inv, TypeOK, ActsAsShown, ShowsItsToken, Given, tabs, panel

\* A request that is sent carries what its tab holds.
LEMMA TabStep ==
  ASSUME Inv, NEW r \in Requests, NEW tab \in TabSet,
         \/ Load(r, tab) \/ (\E u \in Users : SignIn(r, tab, u))
         \/ \E kind \in Changes : Change(r, tab, kind)
  PROVE  Inv'
<1> USE DEF Inv
<1>1. CASE Load(r, tab)
  <2> DEFINE new == [Request(tab, "me") EXCEPT !.csrf = None, !.shown = None]
  <2>1. new \in RequestState /\ new.csrf = None /\ new.ran = None /\ new.step = "sent" /\ new.kind = "me"
    <3> DEFINE old == Request(tab, "me")
    <3>1. old \in RequestState /\ old.kind = "me" /\ old.step = "sent" /\ old.ran = None
      BY RequestType
    <3>2. new = [old EXCEPT !.csrf = None, !.shown = None]
      OBVIOUS
    <3> HIDE DEF old, new
    <3> QED BY <3>1, <3>2 DEF RequestState
  <2>2. ASSUME NEW q \in Requests \ {r}
        PROVE
          /\ req'[q] \in RequestState
          /\ req'[q].kind = req[q].kind /\ req'[q].step = req[q].step /\ req'[q].csrf = req[q].csrf
          /\ req'[q].shown = req[q].shown /\ req'[q].user = req[q].user
          /\ req'[q].token = req[q].token /\ req'[q].ran = req[q].ran
    <3>1. req[q] \in RequestState
      BY DEF TypeOK
    <3>2. req'[q] = req[q] \/ req'[q] = [req[q] EXCEPT !.tab = None]
      BY <1>1 DEF Load
    <3> QED BY <3>1, <3>2 DEF RequestState
  <2>3. req'[r] = new /\ req' \in [Requests -> RequestState]
    BY <1>1, <2>1, <2>2 DEF Load
  <2>4. TypeOK'
    BY <1>1, <2>3 DEF Load, TypeOK, panel
  <2>5. ActsAsShown'
    BY <2>1, <2>2, <2>3 DEF ActsAsShown
  <2>6. ShowsItsToken'
    BY <1>1 DEF Load, ShowsItsToken, TypeOK, panel
  <2>7. Given'
    BY <1>1, <2>1, <2>2, <2>3 DEF Load, Given, TypeOK, panel
  <2> QED BY <2>4, <2>5, <2>6, <2>7
<1>2. ASSUME NEW u \in Users, SignIn(r, tab, u) PROVE Inv'
  <2> DEFINE new == [Request(tab, "login") EXCEPT !.user = u]
  <2>1. /\ new \in RequestState /\ new.kind = "login" /\ new.ran = None /\ new.user = u /\ u # None
        /\ new.csrf = csrf[tab] /\ new.shown = shown[tab]
    BY RequestType, NoneAssumption DEF RequestState
  <2>2. req' = [req EXCEPT ![r] = new] /\ UNCHANGED <<cookie, tabs, panel>>
    BY <1>2 DEF SignIn
  <2>3. new.csrf # None => owner[new.csrf] # None /\ owner[new.csrf] = new.shown
    BY <2>1 DEF Given
  <2> HIDE DEF new
  <2> QED BY <2>1, <2>2, <2>3, SendStep
<1>3. ASSUME NEW kind \in Changes, Change(r, tab, kind) PROVE Inv'
  <2> DEFINE new == Request(tab, kind)
  <2>1. /\ new \in RequestState /\ new.kind = kind /\ new.ran = None
        /\ new.csrf = csrf[tab] /\ new.shown = shown[tab]
    BY RequestType
  <2>2. req' = [req EXCEPT ![r] = new] /\ UNCHANGED <<cookie, tabs, panel>>
    BY <1>3 DEF Change
  <2>3. new.csrf # None => owner[new.csrf] # None /\ owner[new.csrf] = new.shown
    BY <2>1 DEF Given
  <2>4. new.kind \notin {"me", "login"}
    BY <2>1 DEF Changes
  <2> HIDE DEF new
  <2> QED BY <2>1, <2>2, <2>3, <2>4, SendStep
<1> QED BY <1>1, <1>2, <1>3

(* The panel answers.                                                      *)
LEMMA ServeStep ==
  ASSUME Inv, NEW r \in Requests,
         (\E t \in Tokens : ServeLogin(r, t)) \/ ServeMe(r) \/ ServeChange(r) \/ Refuse(r)
  PROVE  Inv'
<1> USE DEF Inv, tabs, panel
<1>1. /\ req' \in [Requests -> RequestState]
      /\ req'[r].csrf = req[r].csrf /\ req'[r].shown = req[r].shown /\ req'[r].kind = req[r].kind
      /\ req'[r].ran \in {None, req[r].shown}
      /\ \A q \in Requests \ {r} : req'[q] = req[q]
  <2>1. req \in [Requests -> RequestState] /\ req[r] \in RequestState /\ req[r].ran \in {None, req[r].shown}
    BY DEF TypeOK, ActsAsShown
  <2>2. ASSUME NEW step \in {"ok", "failed", "unauthorized"}, NEW token \in Tokens \cup {None},
               NEW user \in Users \cup {None}, NEW ran \in Users \cup {None}, ran \in {None, req[r].shown},
               \/ req' = [req EXCEPT ![r].step = step]
               \/ req' = [req EXCEPT ![r].step = step, ![r].token = token]
               \/ req' = [req EXCEPT ![r].step = step, ![r].token = token, ![r].user = user]
               \/ req' = [req EXCEPT ![r].step = step, ![r].ran = ran]
        PROVE  /\ req' \in [Requests -> RequestState]
               /\ req'[r].csrf = req[r].csrf /\ req'[r].shown = req[r].shown /\ req'[r].kind = req[r].kind
               /\ req'[r].ran \in {None, req[r].shown}
               /\ \A q \in Requests \ {r} : req'[q] = req[q]
    BY <2>1, <2>2 DEF RequestState
  <2>3. CASE \E t \in Tokens : ServeLogin(r, t)
    BY <2>2, <2>3 DEF ServeLogin
  <2>4. CASE ServeMe(r)
    <3>1. req[r].cookie \in Tokens /\ owner[req[r].cookie] \in Users \cup {None}
      BY <2>4 DEF ServeMe, TypeOK
    <3> QED BY <2>2, <2>4, <3>1 DEF ServeMe
  <2>5. CASE ServeChange(r)
    <3>1. req[r].cookie \in live /\ req[r].csrf = req[r].cookie /\ req[r].csrf \in Tokens
      BY <2>5 DEF ServeChange, Accepts, TypeOK
    <3>2. owner[req[r].cookie] = req[r].shown /\ owner[req[r].cookie] \in Users \cup {None}
      BY <3>1, NoneAssumption DEF TypeOK, Given
    <3>3. req' = [req EXCEPT ![r].step = "ok", ![r].ran = owner[req[r].cookie]]
      BY <2>5 DEF ServeChange
    <3> QED BY <2>2, <3>2, <3>3
  <2>6. CASE Refuse(r)
    BY <2>2, <2>6 DEF Refuse, Answer
  <2> QED BY <2>3, <2>4, <2>5, <2>6
<1>2. ActsAsShown'
  BY <1>1 DEF ActsAsShown
<1>3. ASSUME NEW t \in Tokens, ServeLogin(r, t) PROVE Inv'
  <2>1. /\ owner[t] = None /\ owner' = [owner EXCEPT ![t] = req[r].user] /\ live' = live \cup {t}
        /\ req[r].kind = "login" /\ UNCHANGED <<cookie, me, csrf, shown>>
    BY <1>3 DEF ServeLogin
  <2>2. \A x \in Tokens : owner[x] # None => owner'[x] = owner[x]
    BY <2>1 DEF TypeOK
  <2>3. TypeOK'
    BY <1>1, <2>1 DEF TypeOK, RequestState
  <2>4. ShowsItsToken'
    BY <2>1, <2>2 DEF ShowsItsToken, TypeOK, Given
  <2>5. req[r].user # None /\ req'[r].user = req[r].user
    <3>1. req[r].user # None
      BY <2>1 DEF Given
    <3>2. req' = [req EXCEPT ![r].step = "ok", ![r].token = t] /\ req[r] \in RequestState
      BY <1>3 DEF ServeLogin, TypeOK
    <3>3. req'[r].user = req[r].user
      BY <3>2 DEF TypeOK, RequestState
    <3> QED BY <3>1, <3>3
  <2>6. \A x \in live' : owner'[x] # None
    BY <2>1, <2>2, <2>5 DEF Given, TypeOK
  <2>7. ASSUME NEW tab \in TabSet, csrf[tab] # None
        PROVE  owner'[csrf[tab]] # None /\ owner'[csrf[tab]] = shown[tab]
    <3>1. csrf[tab] \in Tokens /\ owner[csrf[tab]] # None /\ owner[csrf[tab]] = shown[tab]
      BY <2>7 DEF Given, TypeOK
    <3> QED BY <2>2, <3>1
  <2>8. ASSUME NEW q \in Requests, req'[q].csrf # None
        PROVE  owner'[req'[q].csrf] # None /\ owner'[req'[q].csrf] = req'[q].shown
    <3>1. req'[q].csrf = req[q].csrf /\ req'[q].shown = req[q].shown
      BY <1>1
    <3>2. req[q].csrf \in Tokens /\ owner[req[q].csrf] # None /\ owner[req[q].csrf] = req[q].shown
      BY <2>8, <3>1 DEF Given, TypeOK, RequestState
    <3> QED BY <2>2, <3>1, <3>2
  <2>9. ASSUME NEW q \in Requests, req'[q].kind = "me", req'[q].step = "ok"
        PROVE  req'[q].token # None /\ req'[q].user # None /\ owner'[req'[q].token] = req'[q].user
    <3>1. req'[q] = req[q]
      BY <1>1, <2>1, <2>9
    <3>2. /\ req[q].token \in Tokens /\ req[q].token # None /\ req[q].user # None
          /\ owner[req[q].token] = req[q].user
      BY <2>9, <3>1 DEF Given, TypeOK, RequestState
    <3> QED BY <2>2, <3>1, <3>2
  <2>10. \A q \in Requests : req'[q].kind = "login" => req'[q].user # None
    BY <1>1, <2>5 DEF Given
  <2>11. Given'
    BY <2>1, <2>6, <2>7, <2>8, <2>9, <2>10 DEF Given
  <2> QED BY <1>2, <2>3, <2>4, <2>11
<1>4. CASE ServeMe(r) \/ ServeChange(r) \/ Refuse(r)
  <2>1. /\ UNCHANGED <<cookie, me, csrf, shown, owner>> /\ live' \subseteq live
        /\ req'[r].kind = "me" /\ req'[r].step = "ok" => ServeMe(r)
    BY <1>1, <1>4 DEF ServeMe, ServeChange, Refuse, Answer, Changes, TypeOK, RequestState
  <2>2. TypeOK' /\ ShowsItsToken'
    BY <1>1, <2>1 DEF TypeOK, ShowsItsToken
  <2>3. req'[r].kind = "me" /\ req'[r].step = "ok" =>
          req'[r].token # None /\ req'[r].user # None /\ owner[req'[r].token] = req'[r].user
    BY <2>1, NoneAssumption DEF ServeMe, TypeOK, RequestState, Given
  <2>4. req'[r].kind = "login" => req'[r].user # None
    BY <1>4 DEF ServeMe, ServeChange, Refuse, Answer, Changes, TypeOK, RequestState, Given
  <2>5. Given'
    BY <1>1, <2>1, <2>3, <2>4 DEF Given
  <2> QED BY <1>2, <2>2, <2>5
<1> QED BY <1>3, <1>4

(* The browser and the handlers in the tab go on.                          *)
LEMMA FinishStep ==
  ASSUME Inv, NEW r \in Requests, Finish(r)
  PROVE  /\ req' \in [Requests -> RequestState] /\ req'[r] = Idle
         /\ \A q \in Requests \ {r} : req'[q] = req[q]
BY IdleType DEF Inv, TypeOK, Finish

\* A handler that goes on puts no token beside another administrator's name.
LEMMA HandlerStep ==
  ASSUME Inv, NEW r \in Requests,
         Receive(r) \/ AskMe(r) \/ Enter(r) \/ Leave(r) \/ Return(r)
  PROVE  Inv'
<1> USE DEF Inv, tabs, panel
<1>1. CASE Receive(r)
  <2>1. /\ req' \in [Requests -> RequestState]
        /\ req'[r] = [req[r] EXCEPT !.step = "received"]
        /\ \A q \in Requests \ {r} : req'[q] = req[q]
        /\ cookie' \in Tokens \cup {None}
    BY <1>1 DEF Receive, Answer, TypeOK, RequestState
  <2> QED BY <1>1, <2>1 DEF Receive, TypeOK, ActsAsShown, ShowsItsToken, Given, RequestState
<1>2. CASE AskMe(r)
  <2> DEFINE tab == req[r].tab
             new == Request(tab, "me")
  <2>1. tab \in TabSet
    BY <1>2 DEF AskMe, Here, TypeOK, RequestState
  <2>2. /\ new \in RequestState /\ new.kind = "me" /\ new.step = "sent" /\ new.ran = None
        /\ new.csrf = csrf[tab] /\ new.shown = shown[tab]
    BY <2>1, RequestType
  <2>3. req' = [req EXCEPT ![r] = new] /\ UNCHANGED <<cookie, tabs, panel>>
    BY <1>2 DEF AskMe
  <2>4. new.csrf # None => owner[new.csrf] # None /\ owner[new.csrf] = new.shown
    BY <2>1, <2>2 DEF Given
  <2> HIDE DEF new
  <2> QED BY <2>2, <2>3, <2>4, SendStep
<1>3. CASE Enter(r)
  <2>1. req[r].tab \in TabSet /\ req[r].user \in Users /\ req[r].token \in Tokens
        /\ owner[req[r].token] = req[r].user /\ req[r].user # None
    BY <1>3, NoneAssumption DEF Enter, Here, TypeOK, RequestState, Given
  <2>2. /\ req' \in [Requests -> RequestState] /\ req'[r] = Idle
        /\ \A q \in Requests \ {r} : req'[q] = req[q]
    BY <1>3, FinishStep DEF Enter
  <2>3. TypeOK' /\ ActsAsShown'
    BY <1>3, <2>1, <2>2, IdleType DEF Enter, TypeOK, ActsAsShown
  <2>4. ShowsItsToken'
    BY <1>3, <2>1 DEF Enter, TypeOK, ShowsItsToken
  <2>5. Given'
    BY <1>3, <2>1, <2>2, IdleType, NoneAssumption DEF Enter, TypeOK, Given
  <2> QED BY <2>3, <2>4, <2>5
<1>4. CASE Leave(r) \/ Return(r)
  <2>1. /\ req' \in [Requests -> RequestState] /\ req'[r] = Idle
        /\ \A q \in Requests \ {r} : req'[q] = req[q]
    BY <1>4, FinishStep DEF Leave, Return
  <2>2. TypeOK' /\ ActsAsShown'
    BY <1>4, <2>1, IdleType DEF Leave, Return, Here, TypeOK, ActsAsShown
  <2>3. ShowsItsToken'
    BY <1>4 DEF Leave, Return, TypeOK, ShowsItsToken
  <2>4. Given'
    BY <1>4, <2>1, IdleType DEF Leave, Return, TypeOK, Given
  <2> QED BY <2>2, <2>3, <2>4
<1> QED BY <1>1, <1>2, <1>3, <1>4

\* Every step keeps the invariant.
LEMMA InvStep == Inv /\ [Next]_vars => Inv'
<1> SUFFICES ASSUME Inv, [Next]_vars PROVE Inv'
  OBVIOUS
<1>1. ASSUME NEW t \in Tokens, Expire(t) PROVE Inv'
  BY <1>1 DEF Expire, Inv, TypeOK, ActsAsShown, ShowsItsToken, Given, tabs
<1>2. CASE UNCHANGED vars
  BY <1>2 DEF vars, Inv, TypeOK, ActsAsShown, ShowsItsToken, Given
<1> QED BY <1>1, <1>2, TabStep, ServeStep, HandlerStep DEF Next

(* THEOREM: in every state of the tabs and the panel, every CSRF token kept *)
(* in a tab or a request was given out to the administrator shown beside   *)
(* it, however loads and sign-ins of several tabs interleave.              *)
THEOREM Invariance == Spec => []Inv
BY InitInv, InvStep, PTL DEF Spec

(* Tokens, tabs and requests keep their types.                             *)
THEOREM TypeCorrect == Spec => []TypeOK
BY Invariance, PTL DEF Inv

(* A change is made on the account that its tab showed when it was sent.   *)
THEOREM ActsAsShownHolds == Spec => []ActsAsShown
BY Invariance, PTL DEF Inv

(* A tab that shows an administrator holds that one's security token.      *)
THEOREM ShowsItsTokenHolds == Spec => []ShowsItsToken
BY Invariance, PTL DEF Inv
=============================================================================
