-------------------------------- MODULE Tabs --------------------------------
(***************************************************************************)
(* The tabs of one browser: they share the session cookie, and each keeps  *)
(* in `me` the administrator it shows and in `csrf` the security token it  *)
(* sends with every change.                                                *)
(*                                                                         *)
(* A request takes the cookie with it when it is sent; an answer's         *)
(* Set-Cookie takes effect when it is received, whatever cookie is there   *)
(* by then; the handler in the tab goes on after that.  A session's        *)
(* security token is identified with the session's own.                    *)
(***************************************************************************)
EXTENDS Naturals

CONSTANTS TabSet, Users, Tokens, Requests, None

ASSUME NoneAssumption == None \notin Users \cup Tokens \cup TabSet

VARIABLES owner,   \* whom a token was given out to
          live,    \* the sessions that exist
          cookie,  \* the browser's cookie
          me,      \* per tab: who is signed in
          csrf,    \* per tab: the security token
          shown,   \* history, per tab: the administrator last shown since it was loaded
          req      \* the requests

vars == <<owner, live, cookie, me, csrf, shown, req>>

\* `cookie`, `csrf` and `shown` are those of the moment of sending; `user` and
\* `token` what a sign-in asks for and what the answer says; `ran` on whose
\* account a change was made.
Request(tab, kind) ==
  [tab |-> tab, kind |-> kind, step |-> "sent", cookie |-> cookie, csrf |-> csrf[tab],
   shown |-> shown[tab], user |-> None, token |-> None, ran |-> None]
Idle == [tab |-> None, kind |-> "none", step |-> "idle", cookie |-> None, csrf |-> None,
         shown |-> None, user |-> None, token |-> None, ran |-> None]

Init ==
  /\ owner = [t \in Tokens |-> None] /\ live = {} /\ cookie = None
  /\ me = [tab \in TabSet |-> None] /\ csrf = me /\ shown = me
  /\ req = [r \in Requests |-> Idle]

Changes == {"act", "logout", "password"}
tabs == <<me, csrf, shown>>
panel == <<owner, live>>

-----------------------------------------------------------------------------
\* A page is loaded: whatever its handlers were waiting for is forgotten, and /me is asked.
Load(r, tab) ==
  /\ req[r] = Idle
  /\ me' = [me EXCEPT ![tab] = None] /\ csrf' = [csrf EXCEPT ![tab] = None]
  /\ shown' = [shown EXCEPT ![tab] = None]
  /\ req' = [q \in Requests |->
               IF q = r THEN [Request(tab, "me") EXCEPT !.csrf = None, !.shown = None]
               ELSE IF req[q].tab = tab THEN [req[q] EXCEPT !.tab = None] ELSE req[q]]
  /\ UNCHANGED <<cookie, panel>>

SignIn(r, tab, u) ==
  /\ me[tab] = None /\ req[r] = Idle
  /\ req' = [req EXCEPT ![r] = [Request(tab, "login") EXCEPT !.user = u]]
  /\ UNCHANGED <<cookie, tabs, panel>>

\* A change; a handler that has waited sends its own even when the tab is signed out by now.
Change(r, tab, kind) ==
  /\ req[r] = Idle
  /\ kind # "act" => me[tab] # None
  /\ req' = [req EXCEPT ![r] = Request(tab, kind)]
  /\ UNCHANGED <<cookie, tabs, panel>>

-----------------------------------------------------------------------------
Answer(r, step) == req' = [req EXCEPT ![r].step = step]

ServeLogin(r, t) ==
  /\ req[r].step = "sent" /\ req[r].kind = "login"
  /\ owner[t] = None
  /\ owner' = [owner EXCEPT ![t] = req[r].user] /\ live' = live \cup {t}
  /\ req' = [req EXCEPT ![r].step = "ok", ![r].token = t]
  /\ UNCHANGED <<cookie, tabs>>

ServeMe(r) ==
  /\ req[r].step = "sent" /\ req[r].kind = "me" /\ req[r].cookie \in live
  /\ req' = [req EXCEPT ![r].step = "ok", ![r].token = req[r].cookie, ![r].user = owner[req[r].cookie]]
  /\ UNCHANGED <<cookie, tabs, panel>>

\* A variant that a property must tell apart: the comparison with any session's token.
AcceptsAnySession(r) == req[r].cookie \in live /\ req[r].csrf \in live

\* user(): the session exists, and the header carries its security token.
Accepts(r) == req[r].cookie \in live /\ req[r].csrf = req[r].cookie

\* Signing out deletes the session, a new password all of the administrator's.
ServeChange(r) ==
  /\ req[r].step = "sent" /\ req[r].kind \in Changes /\ Accepts(r)
  /\ live' = CASE req[r].kind = "logout" -> live \ {req[r].cookie}
               [] req[r].kind = "password" -> {t \in live : owner[t] # owner[req[r].cookie]}
               [] OTHER -> live
  /\ req' = [req EXCEPT ![r].step = "ok", ![r].ran = owner[req[r].cookie]]
  /\ UNCHANGED <<cookie, tabs, owner>>

\* 401 without a session or with a wrong password; 403, 429 and 503 leave the tab as it is.
Refuse(r) ==
  /\ req[r].step = "sent"
  /\ \/ req[r].kind # "login" /\ req[r].cookie \notin live /\ Answer(r, "unauthorized")
     \/ req[r].kind = "login" /\ Answer(r, "failed")
     \/ req[r].kind \in Changes /\ req[r].cookie \in live /\ ~Accepts(r) /\ Answer(r, "failed")
  /\ UNCHANGED <<cookie, tabs, panel>>

\* The browser receives the answer and stores or deletes the cookie.
Receive(r) ==
  /\ req[r].step = "ok" /\ req[r].kind \in {"login", "logout"}
  /\ cookie' = IF req[r].kind = "login" THEN req[r].token ELSE None
  /\ Answer(r, "received")
  /\ UNCHANGED <<tabs, panel>>

-----------------------------------------------------------------------------
\* The handler in the tab goes on, unless its page is gone.
Finish(r) == req' = [req EXCEPT ![r] = Idle]
Here(r) == req[r].tab # None

AskMe(r) ==
  /\ req[r].step = "received" /\ req[r].kind = "login" /\ Here(r)
  /\ req' = [req EXCEPT ![r] = Request(req[r].tab, "me")]
  /\ UNCHANGED <<cookie, tabs, panel>>

\* me and csrf are assigned together, from one answer.
Enter(r) ==
  /\ req[r].step = "ok" /\ req[r].kind = "me" /\ Here(r)
  /\ me' = [me EXCEPT ![req[r].tab] = req[r].user]
  /\ csrf' = [csrf EXCEPT ![req[r].tab] = req[r].token]
  /\ shown' = [shown EXCEPT ![req[r].tab] = req[r].user]
  /\ Finish(r)
  /\ UNCHANGED <<cookie, panel>>

\* Signing out and a new password forget both; an answer 401 forgets `me` alone.
Leave(r) ==
  /\ Here(r)
  /\ \/ <<req[r].kind, req[r].step>> \in {<<"logout", "received">>, <<"password", "ok">>}
     \/ req[r].step = "unauthorized"
  /\ me' = [me EXCEPT ![req[r].tab] = None]
  /\ csrf' = IF req[r].step = "unauthorized" THEN csrf ELSE [csrf EXCEPT ![req[r].tab] = None]
  /\ Finish(r)
  /\ UNCHANGED <<cookie, shown, panel>>

Return(r) ==
  /\ \/ req[r].step = "failed"
     \/ req[r].step = "ok" /\ req[r].kind = "act"
     \/ req[r].step \in {"received", "unauthorized"} /\ ~Here(r)
     \/ req[r].step = "ok" /\ req[r].kind \in {"me", "password"} /\ ~Here(r)
  /\ Finish(r)
  /\ UNCHANGED <<cookie, tabs, panel>>

\* Eight hours pass, or the account is changed or disabled by another administrator.
Expire(t) ==
  /\ t \in live /\ live' = live \ {t}
  /\ UNCHANGED <<owner, cookie, tabs, req>>

Next ==
  \/ \E r \in Requests :
       \/ \E tab \in TabSet :
            \/ Load(r, tab)
            \/ \E u \in Users : SignIn(r, tab, u)
            \/ \E kind \in Changes : Change(r, tab, kind)
       \/ \E t \in Tokens : ServeLogin(r, t)
       \/ ServeMe(r) \/ ServeChange(r) \/ Refuse(r) \/ Receive(r)
       \/ AskMe(r) \/ Enter(r) \/ Leave(r) \/ Return(r)
  \/ \E t \in Tokens : Expire(t)

Spec == Init /\ [][Next]_vars

-----------------------------------------------------------------------------
RequestState ==
  [tab : TabSet \cup {None}, kind : Changes \cup {"none", "login", "me"},
   step : {"idle", "sent", "ok", "received", "unauthorized", "failed"},
   cookie : Tokens \cup {None}, csrf : Tokens \cup {None}, shown : Users \cup {None},
   user : Users \cup {None}, token : Tokens \cup {None}, ran : Users \cup {None}]

TypeOK ==
  /\ owner \in [Tokens -> Users \cup {None}] /\ live \in SUBSET Tokens
  /\ cookie \in Tokens \cup {None}
  /\ me \in [TabSet -> Users \cup {None}] /\ csrf \in [TabSet -> Tokens \cup {None}]
  /\ shown \in [TabSet -> Users \cup {None}]
  /\ req \in [Requests -> RequestState]

\* A change is made on the account of the administrator whom its tab showed when
\* it was sent, however sign-ins, sign-outs and expiries of other tabs change the
\* cookie under it (app.js:37, 82, 102, 106; app.py:55-63).
ActsAsShown == \A r \in Requests : req[r].ran \in {None, req[r].shown}

\* A tab that shows an administrator holds a security token of that one.
ShowsItsToken == \A tab \in TabSet : me[tab] # None => me[tab] = shown[tab] /\ owner[csrf[tab]] = me[tab]
=============================================================================
