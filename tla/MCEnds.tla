------------------------------- MODULE MCEnds -------------------------------
(* What must happen in the end, for each part that has such a promise, under  *)
(* the fairness that its module states: the monitor's supervision             *)
(* (Enforcement), pki_lock (Lifecycle), the limit on sign-ins (Auth), an      *)
(* outage on the screen (Pages), and the services after a backup (Services).  *)
(* They share no state: part says which one moves, and that one is treated    *)
(* fairly.  No symmetry is used.                                              *)
(*                                                                            *)
(* One session; one client and two requests; one administrator under two      *)
(* spellings and one request; two loads and an agent that refuses.            *)
EXTENDS MCEnforcement

CONSTANT none

VARIABLES part,
          row, cert, inline, caCrl, newCrl, crl, main, fresh, step, name, lock, done, existing,
          account, login, attempts, handler, who, given, read, token, overtaken,
          me, valid, page, content, load, latest, version, list, table, outage, crossed,
          agentUnit, vpnUnit, web, running, age, asked, conf, dropin, bound, units, env,
          complete, script, caller, restored, halted

files == <<row, cert, inline, caCrl, newCrl, crl, main, fresh, step, name, lock, done, existing>>
accounts == <<account, login, attempts, handler, who, given, read, token, overtaken>>
tab == <<me, valid, page, content, load, latest, version, list, table, outage, crossed>>
host == <<agentUnit, vpnUnit, web, running, age, asked, conf, dropin, bound, units, env,
          complete, script, caller, restored, halted>>

Files == INSTANCE Lifecycle WITH
  Names <- {"alice"}, Threads <- {"t1", "t2"}, NoThread <- "none", NoName <- "none", pc <- step
Accounts == INSTANCE Auth WITH
  Users <- {"ana", "ANA"}, Lower <- [u \in {"ana", "ANA"} |-> "ana"], Passwords <- {"p"},
  NoPassword <- "none", Tokens <- {"k1"}, NoSession <- none, Requests <- {"r1"},
  Addresses <- {"ip"}, UserLimit <- 1, AddressLimit <- 2, Window <- 1, Lifetime <- 1,
  session <- login, pc <- handler
Tab == INSTANCE Pages WITH
  Loads <- {"l1", "l2"}, MaxVersion <- 1, Outages <- {"down"}, session <- valid, rows <- list
Host == INSTANCE Services WITH
  Limit <- 2, Faults <- FALSE, agent <- agentUnit, vpn <- vpnUnit, pc <- script

\* What does not move is at one of its initial states.
AtRest ==
  /\ part # "monitor" => clients[a].expires_at = 0
  /\ part # "files" => existing = {} /\ name = [t \in {"t1", "t2"} |-> "alice"]
  /\ part # "accounts" => who = [r \in {"r1"} |-> "ana"]
  /\ part # "tab" => latest = "l1"

EndsInit ==
  /\ part \in {"monitor", "files", "accounts", "tab", "host"}
  /\ Init /\ Files!Init /\ Accounts!Init /\ Tab!Init /\ Host!Init
  /\ AtRest

EndsNext ==
  /\ UNCHANGED part
  /\ IF part = "monitor" THEN Next ELSE UNCHANGED vars
  /\ IF part = "files" THEN Files!Next ELSE UNCHANGED files
  /\ IF part = "accounts" THEN Accounts!Next ELSE UNCHANGED accounts
  /\ IF part = "tab" THEN Tab!Patient ELSE UNCHANGED tab
  /\ IF part = "host" THEN Host!Next ELSE UNCHANGED host

\* The fairness of each module, for the part that moves.
MonitorFairness ==
  /\ WF_vars(part = "monitor" /\ Monitor)
  /\ SF_vars(part = "monitor" /\ WatchdogStops)
  /\ \A s \in Sessions : /\ WF_vars(part = "monitor" /\ Hook(s))
                         /\ WF_vars(part = "monitor" /\ Admit(s))
  /\ WF_vars(part = "monitor" /\ PassTime)
  /\ WF_vars(part = "monitor" /\ AgentStart)
FilesFairness ==
  /\ \A t \in {"t1", "t2"} : WF_files(part = "files" /\ Files!Handler(t))
  /\ WF_files(part = "files" /\ Files!AgentStart)
  /\ WF_files(part = "files" /\ Files!Import)
TabFairness ==
  /\ \A i \in {"l1", "l2"} : /\ WF_tab(part = "tab" /\ Tab!Answer(i))
                             /\ WF_tab(part = "tab" /\ Tab!Deliver(i))
  /\ WF_tab(part = "tab" /\ Tab!Quiescent /\ \E i \in {"l1", "l2"} : Tab!Poll(i))

everything == <<part, vars, files, accounts, tab, host>>
EndsSpec ==
  /\ EndsInit /\ [][EndsNext]_everything
  /\ MonitorFairness /\ FilesFairness /\ TabFairness
  /\ WF_accounts(part = "accounts" /\ Accounts!PassTime)
  /\ WF_host(part = "host" /\ Host!Backup) /\ WF_host(part = "host" /\ Host!VpnUp)

-----------------------------------------------------------------------------
\* Every step that holds pki_lock comes to its end, errors and crashes included
\* (Lifecycle; agent.py:165, 205).
LockReleased == Files!LockReleased

\* A lock-out ends with time, whatever is tried meanwhile (Auth; auth.py:50-66).
LockoutEnds == Accounts!LockoutEnds

\* An agent that refuses is reported to an administrator who waits (Pages; app.js:43, 53).
OutageShown == Tab!OutageShown

\* A backup of an installed panel that stopped the services starts all of them again,
\* whether or not it succeeds (Services; backup.sh:9-15).
BackupResumes == Host!BackupResumes
=============================================================================
