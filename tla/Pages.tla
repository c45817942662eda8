------------------------------- MODULE Pages -------------------------------
(***************************************************************************)
(* The browser's pages: loadPage, its polling, the rows it keeps, and the  *)
(* answers that arrive after the administrator has moved on.               *)
(*                                                                         *)
(* One tab.  A load is a chain of requests under one serial number: the    *)
(* page's own data and, on the dashboard, the client list and the log      *)
(* after it.  The server's client list is a version number.  "Load older"  *)
(* of the log is a request without a serial number.                        *)
(***************************************************************************)
EXTENDS Integers

CONSTANTS Loads,        \* requests in flight at once, at most
          MaxVersion,   \* changes to the clients, at most
          Outages       \* "down": the agent refuses; "hung": it does not answer

ASSUME BoundsAssumption == MaxVersion \in Nat /\ Outages \subseteq {"down", "hung"}

VARIABLES me,       \* this tab believes it is signed in
          session,  \* its cookie is valid
          page,     \* the page chosen
          content,  \* what is on the screen; "older": the log as "Load older" has put it there
          load,     \* the requests
          latest,   \* the load that holds refreshSerial
          version,  \* the server's client list
          rows,     \* clientRows
          table,    \* the client list on the screen
          outage,   \* the agent
          crossed   \* history: a superseded dashboard has written clientRows

vars == <<me, session, page, content, load, latest, version, rows, table, outage, crossed>>
server == <<session, version, outage>>

Screens == {"dashboard", "clients", "audit"}
Polled == {"dashboard", "clients"}
Nothing == -1
Idle == [part |-> "idle", page |-> "dashboard", live |-> FALSE,
         answer |-> "none", seen |-> Nothing, waited |-> FALSE]
Request(part, p, live) == [Idle EXCEPT !.part = part, !.page = p, !.live = live]

\* The server's check of the cookie that was sent with the request.
Doomed == [i \in Loads |-> [load[i] EXCEPT !.live = FALSE]]
NeedsAgent(i) == load[i].part = "rows" \/ (load[i].part = "page" /\ load[i].page \in Polled)

Init ==
  /\ me = FALSE /\ session = FALSE /\ outage = "none" /\ crossed = FALSE
  /\ page = "dashboard" /\ content = "login"
  /\ load = [i \in Loads |-> Idle] /\ latest \in Loads
  /\ version = 0 /\ rows = 0 /\ table = Nothing

-----------------------------------------------------------------------------
\* loadPage up to its first await: `live` is the cookie it sends, `others` what becomes of the rest.
Start(i, p, live, others) ==
  /\ load[i] = Idle
  /\ load' = [others EXCEPT ![i] = Request("page", p, live)]
  /\ latest' = i

Skeleton == content' = "loading" /\ table' = Nothing

\* shell() after the sign-in form, or at the start when /me answers.
SignIn(i) ==
  /\ ~me
  /\ me' = TRUE /\ session' = TRUE
  /\ Start(i, page, TRUE, load) /\ Skeleton
  /\ UNCHANGED <<page, version, rows, outage, crossed>>

\* A page chosen in the menu, a new language, "Refresh", and the load after a change.
Open(i, p) ==
  /\ me
  /\ page' = p
  /\ Start(i, p, session, load) /\ Skeleton
  /\ UNCHANGED <<me, rows, crossed, server>>

\* The ten-second timer.  A request that has been waiting for a hung agent is now a period old.
Poll(i) ==
  /\ me /\ page \in Polled
  /\ Start(i, page, session,
           [j \in Loads |-> [load[j] EXCEPT !.waited = load[j] # Idle /\ outage = "hung"]])
  /\ UNCHANGED <<me, page, content, rows, table, crossed, server>>

\* renderLogin with me = null.
Leave == me' = FALSE /\ content' = "login" /\ table' = Nothing

SignOut ==
  /\ me
  /\ Leave
  /\ session' = FALSE /\ load' = Doomed
  /\ UNCHANGED <<page, latest, version, rows, outage, crossed>>

-----------------------------------------------------------------------------
\* The panel answers.  The agent's socket timeout is as long as a polling period.
Answer(i) ==
  /\ load[i] # Idle /\ load[i].answer = "none"
  /\ \/ /\ ~load[i].live
        /\ load' = [load EXCEPT ![i].answer = "refused"]
     \/ /\ load[i].live /\ (NeedsAgent(i) => outage = "none")
        /\ load' = [load EXCEPT ![i].answer = "ok", ![i].seen = version]
     \/ /\ load[i].live /\ (NeedsAgent(i) /\ outage = "hung" => load[i].waited)
        /\ load' = [load EXCEPT ![i].answer = "failed"]
  /\ UNCHANGED <<me, page, content, latest, rows, table, crossed, server>>

\* Variants that a property must tell apart: a guard without the serial number, and one that
\* the log alone does not have.
SupersededByPage(i) == load[i].page # page \/ ~me
SupersededUnlessLog(i) == (load[i].page # "audit" /\ (latest # i \/ load[i].page # page)) \/ ~me

\* loadPage's guard after its await.
Superseded(i) == latest # i \/ load[i].page # page \/ ~me

Finish(i) == load' = [load EXCEPT ![i] = Idle]
Continue(i, part) == load' = [load EXCEPT ![i] = Request(part, load[i].page, session)]

Arrived(i, part, answer) == load[i].part = part /\ load[i].answer = answer

\* api(): any answer 401 signs this tab out, whichever request it answers.
Refused(i) ==
  /\ \E part \in {"page", "rows", "log", "more"} : Arrived(i, part, "refused")
  /\ Leave /\ Finish(i)
  /\ UNCHANGED <<page, latest, rows, crossed, server>>

DropPage(i) ==
  /\ Arrived(i, "page", "ok") \/ Arrived(i, "page", "failed")
  /\ Superseded(i)
  /\ Finish(i)
  /\ UNCHANGED <<me, page, content, latest, rows, table, crossed, server>>

\* A variant that a property must tell apart: no error path.
ShowErrorOnce(i) ==
  /\ Arrived(i, "page", "failed") /\ ~Superseded(i)
  /\ UNCHANGED <<content, table>>
  /\ Finish(i)
  /\ UNCHANGED <<me, page, latest, rows, crossed, server>>

ShowError(i) ==
  /\ Arrived(i, "page", "failed") /\ ~Superseded(i)
  /\ content' = "error" /\ table' = Nothing
  /\ Finish(i)
  /\ UNCHANGED <<me, page, latest, rows, crossed, server>>

ShowDashboard(i) ==
  /\ Arrived(i, "page", "ok") /\ load[i].page = "dashboard" /\ ~Superseded(i)
  /\ content' = "dashboard" /\ table' = Nothing
  /\ Continue(i, "rows")
  /\ UNCHANGED <<me, page, latest, rows, crossed, server>>

\* renderClients, or updateClientTable, which falls back on it.
ShowClients(i) ==
  /\ Arrived(i, "page", "ok") /\ load[i].page = "clients" /\ ~Superseded(i)
  /\ content' = "clients" /\ rows' = load[i].seen /\ table' = load[i].seen
  /\ Finish(i)
  /\ UNCHANGED <<me, page, latest, crossed, server>>

ShowAudit(i) ==
  /\ Arrived(i, "page", "ok") /\ load[i].page = "audit" /\ ~Superseded(i)
  /\ content' = "audit" /\ table' = Nothing
  /\ Finish(i)
  /\ UNCHANGED <<me, page, latest, rows, crossed, server>>

\* A variant that a property must tell apart: rows taken from any answer.
FillRecentUnchecked(i) ==
  /\ Arrived(i, "rows", "ok") \/ Arrived(i, "rows", "failed")
  /\ rows' = load[i].seen /\ table' = table
  /\ crossed' = (crossed \/ latest # i)
  /\ Continue(i, "log")
  /\ UNCHANGED <<me, page, content, latest, server>>

\* The dashboard's second answer: clientRows is assigned before the guard.
FillRecent(i) ==
  /\ Arrived(i, "rows", "ok")
  /\ rows' = load[i].seen
  /\ table' = IF content = "dashboard" /\ page = load[i].page /\ latest = i THEN load[i].seen ELSE table
  /\ crossed' = (crossed \/ latest # i)
  /\ Continue(i, "log")
  /\ UNCHANGED <<me, page, content, latest, server>>

\* ... and its error is shown wherever there is a place for it.
FailRecent(i) ==
  /\ Arrived(i, "rows", "failed")
  /\ table' = IF content = "dashboard" THEN Nothing ELSE table
  /\ Continue(i, "log")
  /\ UNCHANGED <<me, page, content, latest, rows, crossed, server>>

\* The third answer fills the log's excerpt, or is ignored.
FillActivity(i) ==
  /\ Arrived(i, "log", "ok") \/ Arrived(i, "log", "failed")
  /\ Finish(i)
  /\ UNCHANGED <<me, page, content, latest, rows, table, crossed, server>>

\* "Load older", which has neither a serial number nor a guard.
MoreAudit(i) ==
  /\ content \in {"audit", "older"} /\ load[i] = Idle
  /\ load' = [load EXCEPT ![i] = Request("more", page, session)]
  /\ UNCHANGED <<me, page, content, latest, rows, table, crossed, server>>

AppendAudit(i) ==
  /\ Arrived(i, "more", "ok") /\ me
  /\ content' = "older" /\ table' = Nothing
  /\ Finish(i)
  /\ UNCHANGED <<me, page, latest, rows, crossed, server>>

AppendFails(i) ==
  /\ Arrived(i, "more", "failed") \/ (Arrived(i, "more", "ok") /\ ~me)
  /\ Finish(i)
  /\ UNCHANGED <<me, page, content, latest, rows, table, crossed, server>>

\* Typing a search, choosing a filter, turning the pages: updateClientTable over clientRows.
Retype ==
  /\ content = "clients"
  /\ table' = rows
  /\ UNCHANGED <<me, page, content, load, latest, rows, crossed, server>>

-----------------------------------------------------------------------------
ChangeClients ==
  /\ version < MaxVersion /\ version' = version + 1
  /\ UNCHANGED <<me, session, page, content, load, latest, rows, table, outage, crossed>>

SessionEnds ==
  /\ session /\ session' = FALSE /\ load' = Doomed
  /\ UNCHANGED <<me, page, content, latest, version, rows, table, outage, crossed>>

OutageBegins ==
  /\ outage = "none" /\ outage' \in Outages
  /\ UNCHANGED <<me, session, page, content, load, latest, version, rows, table, crossed>>

OutageEnds ==
  /\ outage # "none" /\ outage' = "none"
  /\ UNCHANGED <<me, session, page, content, load, latest, version, rows, table, crossed>>

Deliver(i) == \/ Refused(i) \/ DropPage(i) \/ ShowError(i) \/ ShowDashboard(i)
              \/ ShowClients(i) \/ ShowAudit(i) \/ FillRecent(i) \/ FailRecent(i)
              \/ FillActivity(i) \/ AppendAudit(i) \/ AppendFails(i)

Outside == ChangeClients \/ SessionEnds \/ OutageBegins \/ OutageEnds

Next ==
  \/ \E i \in Loads : \/ SignIn(i) \/ Poll(i) \/ MoreAudit(i) \/ Answer(i) \/ Deliver(i)
                      \/ \E p \in Screens : Open(i, p)
  \/ SignOut \/ Retype \/ Outside

Spec == Init /\ [][Next]_vars

\* An administrator who waits for each page, and a panel that answers within a
\* period unless the agent hangs.  The timer and the answers keep coming.
Quiescent == \A i \in Loads : load[i] = Idle
Patient ==
  \/ \E i \in Loads : \/ SignIn(i) \/ Answer(i) \/ Deliver(i)
                      \/ (outage = "hung" \/ Quiescent) /\ Poll(i)
                      \/ Quiescent /\ \E p \in Screens : Open(i, p)
  \/ Retype \/ Outside
Fairness ==
  /\ \A i \in Loads : WF_vars(Answer(i)) /\ WF_vars(Deliver(i))
  /\ WF_vars(\E i \in Loads : (outage = "hung" \/ Quiescent) /\ Poll(i))
PatientSpec == Init /\ [][Patient]_vars /\ Fairness

-----------------------------------------------------------------------------
Versions == 0..MaxVersion
LoadState == [part : {"idle", "page", "rows", "log", "more"}, page : Screens, live : BOOLEAN,
              answer : {"none", "ok", "failed", "refused"},
              seen : Versions \cup {Nothing}, waited : BOOLEAN]

TypeOK ==
  /\ me \in BOOLEAN /\ session \in BOOLEAN /\ crossed \in BOOLEAN
  /\ page \in Screens /\ content \in Screens \cup {"older", "login", "loading", "error"}
  /\ load \in [Loads -> LoadState]
  /\ latest \in Loads
  /\ version \in Versions /\ rows \in Versions /\ table \in Versions \cup {Nothing}
  /\ outage \in {"none", "down", "hung"}

\* A page that loadPage puts on the screen, the log included, is the one chosen, whatever
\* order the answers arrive in (app.js:46-51).  "Load older" is not loadPage: its answer
\* has no guard (app.js:99), see OlderFollowsPage.
ContentFollowsPage == content \in Screens => content = page

\* Whatever arrives late, a tab that is signed out shows the sign-in form and
\* nothing else, and a tab that is signed in never shows it (app.js:37, 41, 46).
LoginShown == me <=> content # "login"

\* While a page stays on the screen its client list never goes back to older
\* data: no superseded answer gets through, and no search or polling brings
\* back what was replaced.  Only a superseded dashboard, which writes clientRows
\* before it looks at the serial number (app.js:47), can do that.
TableMovesForward ==
  [][content' = content /\ Nothing \notin {table, table'} /\ ~crossed' => table' >= table]_vars

\* "Server outage shows explicit unavailable state": an administrator who
\* waits at a page that needs the agent is told that there is none.
OutageShown == []<>(me /\ page \in Polled /\ outage # "none" => content = "error")

\* The log that "Load older" has put on the screen is on its own page.  (TLC refutes this:
\* README.md, section 7.)
OlderFollowsPage == content = "older" => page = "audit"

\* The client list never goes back to older data, a superseded dashboard's answer included.
\* (TLC refutes this: README.md, section 7.)
TableNeverGoesBack ==
  [][content' = content /\ Nothing \notin {table, table'} => table' >= table]_vars
=============================================================================
