----------------------------- MODULE Operations -----------------------------
(***************************************************************************)
(* What an administrator starts, and what is said of it: bulk creation in  *)
(* the browser, the panel's handlers with their audit rows, and the agent, *)
(* which goes on with what the panel has given up.                         *)
(*                                                                         *)
(* A loop is one submitted form; its i-th creation is the request <<l, i>>, *)
(* and all forms have the same prefix, so the i-th name is i.  A single    *)
(* creation is a loop of one.  Restart is the request to restart OpenVPN.  *)
(***************************************************************************)
EXTENDS Naturals

CONSTANTS Loops, MaxCount, NoLoop,
          Restarts   \* whether OpenVPN is restarted too

VARIABLES loop,      \* the submitted forms
          panel,     \* per request: the step of the panel's handler
          job,       \* per request: the step of the agent's handler
          client,    \* per name: its row and certificate
          log,       \* the audit rows: how many "ok", and whether there is a "failed"
          unlogged   \* history: the names of which a row could not be written

vars == <<loop, panel, job, client, log, unlogged>>

Numbers == 1..MaxCount
Restart == <<NoLoop, 0>>
Requests == (Loops \X Numbers) \cup {Restart}
Name(r) == r[2]

NoForm == [step |-> "idle", next |-> 1, count |-> 0, results |-> [i \in Numbers |-> "none"]]

Init ==
  /\ loop = [l \in Loops |-> NoForm]
  /\ panel = [r \in Requests |-> "idle"] /\ job = panel
  /\ client = [i \in Numbers |-> "none"]
  /\ log = [i \in 0..MaxCount |-> [ok |-> 0, failed |-> FALSE]]
  /\ unlogged = {}

browser == <<loop>>
agent == <<job, client>>
audit == <<log, unlogged>>

-----------------------------------------------------------------------------
\* A form is submitted, once what an earlier one of this number started is over.
Submit(l, n) ==
  /\ loop[l].step # "sending"
  /\ \A i \in Numbers : panel[<<l, i>>] = "idle" /\ job[<<l, i>>] = "idle"
  /\ loop' = [loop EXCEPT ![l] = [NoForm EXCEPT !.step = "sending", !.count = n]]
  /\ UNCHANGED <<panel, agent, audit>>

Post(l) ==
  LET r == <<l, loop[l].next>>
  IN  /\ loop[l].step = "sending" /\ panel[r] = "idle"
      /\ panel' = [panel EXCEPT ![r] = "received"]
      /\ UNCHANGED <<loop, agent, audit>>

\* Until one succeeded or was not recorded: a bound.
PostRestart ==
  /\ Restarts /\ log[0].ok = 0 /\ 0 \notin unlogged
  /\ panel[Restart] = "idle" /\ job[Restart] = "idle"
  /\ panel' = [panel EXCEPT ![Restart] = "received"]
  /\ UNCHANGED <<loop, agent, audit>>

\* An answer: its result is kept, the next name sent, the results shown after the last.
Return(l) ==
  LET i == loop[l].next
      r == <<l, i>>
  IN  /\ loop[l].step = "sending" /\ panel[r] \in {"answered_ok", "answered_failed"}
      /\ panel' = [panel EXCEPT ![r] = "idle"]
      /\ loop' = [loop EXCEPT ![l].results[i] = IF panel[r] = "answered_ok" THEN "ok" ELSE "failed",
                              ![l].next = IF i = loop[l].count THEN i ELSE i + 1,
                              ![l].step = IF i = loop[l].count THEN "shown" ELSE "sending"]
      /\ UNCHANGED <<agent, audit>>

\* The page is closed or reloaded: the loop is gone, its request under way is not.
Reload(l) ==
  /\ loop[l].step # "idle"
  /\ loop' = [loop EXCEPT ![l] = NoForm]
  /\ UNCHANGED <<panel, agent, audit>>

\* An answer nobody waits for.
Unheard(r) ==
  /\ panel[r] \in {"answered_ok", "answered_failed"}
  /\ r # Restart => loop[r[1]].step # "sending"
  /\ panel' = [panel EXCEPT ![r] = "idle"]
  /\ UNCHANGED <<loop, agent, audit>>

-----------------------------------------------------------------------------
Step(r, from, to) == panel[r] = from /\ panel' = [panel EXCEPT ![r] = to]

\* No session any more, no permission, or an invalid form: there is no row of it.
Deny(r) ==
  /\ Step(r, "received", "answered_failed")
  /\ UNCHANGED <<loop, agent, audit>>

Call(r) ==
  /\ Step(r, "received", "calling")
  /\ job' = [job EXCEPT ![r] = "queued"]
  /\ UNCHANGED <<loop, client, audit>>

\* The control socket is not there.
NoAgent(r) ==
  /\ Step(r, "received", "failed")
  /\ UNCHANGED <<loop, agent, audit>>

Hear(r) ==
  /\ \/ job[r] = "done" /\ Step(r, "calling", "ok")
     \/ job[r] = "failed" /\ Step(r, "calling", "failed")
  /\ job' = [job EXCEPT ![r] = "idle"]
  /\ UNCHANGED <<loop, client, audit>>

\* The socket's timeout: 100 s for a creation, 10 s for a restart.
GiveUp(r) ==
  /\ Step(r, "calling", "failed")
  /\ job' = [job EXCEPT ![r] = IF job[r] \in {"done", "failed"} THEN "idle" ELSE job[r]]
  /\ UNCHANGED <<loop, client, audit>>

\* A variant that a property must tell apart: rows of successes only.
RecordOk(r) ==
  /\ \/ Step(r, "ok", "answered_ok") /\ log' = [log EXCEPT ![Name(r)].ok = @ + 1]
     \/ Step(r, "failed", "answered_failed") /\ UNCHANGED log
  /\ UNCHANGED <<loop, agent, unlogged>>

\* operation() records either outcome before it answers; the restart a success
\* only.
Record(r) ==
  /\ \/ /\ Step(r, "ok", "answered_ok")
        /\ log' = [log EXCEPT ![Name(r)].ok = @ + 1]
     \/ /\ Step(r, "failed", "answered_failed")
        /\ log' = IF r = Restart THEN log ELSE [log EXCEPT ![Name(r)].failed = TRUE]
  /\ UNCHANGED <<loop, agent, unlogged>>

\* The row is not written: the panel's database is locked for too long.
RecordFails(r) ==
  /\ Step(r, "ok", "answered_failed") \/ Step(r, "failed", "answered_failed")
  /\ unlogged' = unlogged \cup {Name(r)}
  /\ UNCHANGED <<loop, agent, log>>

UnderWay == {Name(r) : r \in {q \in Requests : panel[q] \in {"calling", "ok", "failed"}}}

\* The panel's process stops: its handlers are gone, their callers see an error.
PanelStops ==
  /\ panel' = [r \in Requests |-> IF panel[r] = "idle" THEN "idle" ELSE "answered_failed"]
  /\ job' = [r \in Requests |-> IF job[r] \in {"done", "failed"} THEN "idle" ELSE job[r]]
  /\ unlogged' = unlogged \cup UnderWay
  /\ UNCHANGED <<loop, client, log>>

-----------------------------------------------------------------------------
\* What the agent says to a caller that has given up is lost.
Ends(r, outcome) == job' = [job EXCEPT ![r] = IF panel[r] = "calling" THEN outcome ELSE "idle"]

\* Under pki_lock: a certificate or a row of that name refuses the creation.
Begin(r) ==
  /\ r # Restart /\ job[r] = "queued" /\ \A q \in Requests \ {Restart} : job[q] # "working"
  /\ IF client[Name(r)] = "none"
       THEN client' = [client EXCEPT ![Name(r)] = "row"] /\ job' = [job EXCEPT ![r] = "working"]
       ELSE Ends(r, "failed") /\ UNCHANGED client
  /\ UNCHANGED <<panel, browser, audit>>

Issue(r) ==
  /\ r # Restart /\ job[r] = "working"
  /\ \/ client' = [client EXCEPT ![Name(r)] = "made"] /\ Ends(r, "done")
     \/ client' = [client EXCEPT ![Name(r)] = "error"] /\ Ends(r, "failed")
  /\ UNCHANGED <<panel, browser, audit>>

\* systemctl restart, which has 40 s.
RestartBegins ==
  /\ job[Restart] = "queued" /\ job' = [job EXCEPT ![Restart] = "working"]
  /\ UNCHANGED <<panel, client, browser, audit>>

RestartEnds ==
  /\ job[Restart] = "working" /\ (Ends(Restart, "done") \/ Ends(Restart, "failed"))
  /\ UNCHANGED <<panel, client, browser, audit>>

\* The agent dies: its callers see the connection closed.
AgentDies ==
  /\ job' = [r \in Requests |-> "idle"]
  /\ panel' = [r \in Requests |-> IF panel[r] = "calling" THEN "failed" ELSE panel[r]]
  /\ UNCHANGED <<client, browser, audit>>

Handler(r) == Deny(r) \/ Call(r) \/ NoAgent(r) \/ Hear(r) \/ GiveUp(r) \/ Record(r) \/ RecordFails(r)

Next ==
  \/ \E l \in Loops : Post(l) \/ Return(l) \/ Reload(l) \/ \E n \in Numbers : Submit(l, n)
  \/ \E r \in Requests : Handler(r) \/ Unheard(r) \/ Begin(r) \/ Issue(r)
  \/ PostRestart \/ RestartBegins \/ RestartEnds \/ PanelStops \/ AgentDies

Spec == Init /\ [][Next]_vars

-----------------------------------------------------------------------------
Form == [step : {"idle", "sending", "shown"}, next : Numbers, count : 0..MaxCount,
         results : [Numbers -> {"none", "ok", "failed"}]]

TypeOK ==
  /\ loop \in [Loops -> Form]
  /\ panel \in [Requests -> {"idle", "received", "calling", "ok", "failed", "answered_ok", "answered_failed"}]
  /\ job \in [Requests -> {"idle", "queued", "working", "done", "failed"}]
  /\ client \in [Numbers -> {"none", "row", "made", "error"}]
  /\ log \in [0..MaxCount -> [ok : Nat, failed : BOOLEAN]]
  /\ unlogged \subseteq 0..MaxCount

\* However often and from wherever the same form is submitted, a name is created
\* once, and only what was created is on record as such (app.py:75-83, agent.py:165).
CreatedOnce == \A i \in Numbers : log[i].ok <= IF client[i] = "made" THEN 1 ELSE 0

\* The results of a bulk creation are complete, and what they say succeeded is in
\* the log as such (app.js:103, app.py:82).
ResultsAreLogged ==
  \A l \in Loops : loop[l].step = "shown" =>
    \A i \in 1..loop[l].count : /\ loop[l].results[i] # "none"
                                /\ loop[l].results[i] = "ok" => log[i].ok > 0

\* No client comes into being without a trace: there is a row of either result, its
\* request is still under way, or the panel was stopped or could not write then.
CreatedIsLogged ==
  \A i \in Numbers : client[i] = "made" =>
    \/ log[i].ok > 0 \/ log[i].failed
    \/ i \in UnderWay \cup unlogged

\* The three: what was created and what is on record as created agree.
CreationsOnRecord == CreatedOnce /\ ResultsAreLogged /\ CreatedIsLogged

\* "Each result is reported separately": a creation whose result is "Failed" is not
\* going on.  (TLC refutes this: README.md, section 7.)
FailedIsOver ==
  \A l \in Loops, i \in Numbers : loop[l].results[i] = "failed" => job[<<l, i>>] \notin {"queued", "working"}

\* "Administrative actions" are in the activity log: a restart that begins leaves a
\* row, unless the panel was stopped or could not write it.  (TLC refutes this:
\* README.md, section 7.)
RestartIsLogged ==
  job[Restart] = "working" => 0 \in UnderWay \cup unlogged \/ log[0].ok > 0 \/ log[0].failed
=============================================================================
