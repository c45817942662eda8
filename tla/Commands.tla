------------------------------ MODULE Commands ------------------------------
(***************************************************************************)
(* What an administrator starts: encrypted backups (Backup), the scripts   *)
(* that install, back up and upgrade (Services), and forms that create     *)
(* clients or restart OpenVPN (Operations).  The three share no state, so  *)
(* that one of them moving beside another shows nothing that it does not   *)
(* show alone: part says which one moves.  Operations moves in one of two  *)
(* ways: forms of any size ("bulk"), or of one name each beside a restart  *)
(* of OpenVPN ("single").                                                  *)
(***************************************************************************)
EXTENDS Backup, Naturals

CONSTANTS Limit, Faults, Loops, MaxCount, NoLoop, Restarts

VARIABLES part,
          agent, vpn, web, running, age, asked, conf, dropin, bound, units, env,
          complete, script, caller, restored, halted,
          loop, panel, job, client, log, unlogged

host == <<agent, vpn, web, running, age, asked, conf, dropin, bound, units, env,
          complete, script, caller, restored, halted>>
forms == <<loop, panel, job, client, log, unlogged>>

H == INSTANCE Services WITH pc <- script
O == INSTANCE Operations

\* The watchdog waits a number of ticks; a form creates at least one client.
ServicesAssumption == Limit \in Nat
OperationsAssumption == MaxCount \in Nat \ {0}
ASSUME CommandsAssumed == ServicesAssumption /\ OperationsAssumption

CommandsInit ==
  /\ part \in {"backup", "host", "bulk", "single"}
  /\ Init /\ H!Init /\ O!Init

OneByOne == \A l \in Loops : loop'[l].count <= 1
NoRestart == panel'[O!Restart] = "idle"

CommandsNext ==
  /\ UNCHANGED part
  /\ \/ part = "backup" /\ Next /\ UNCHANGED <<host, forms>>
     \/ part = "host" /\ H!Next /\ UNCHANGED <<vars, forms>>
     \/ part = "bulk" /\ O!Next /\ NoRestart /\ UNCHANGED <<vars, host>>
     \/ part = "single" /\ O!Next /\ OneByOne /\ UNCHANGED <<vars, host>>

CommandsSpec == CommandsInit /\ [][CommandsNext]_<<part, vars, host, forms>>

-----------------------------------------------------------------------------
\* Files, units, scripts, forms, requests and audit rows keep their types.
CommandsTypeOK == TypeOK /\ H!TypeOK /\ O!TypeOK

\* While the archive of an installed panel is made nothing runs that writes to what is
\* archived, restarts asked for before and systemd's own included, unless a rollback failed
\* before (Services; backup.sh:2, 16-19).
BackupOffline == H!BackupOffline

\* An OpenVPN with the panel's configuration never runs without the agent, whichever
\* script is at whichever step, whoever crashes and whatever fails, unless a rollback failed
\* before (Services; README.md:64).
Supervised == H!Supervised

\* After a rollback whose steps succeeded the original VPN is unbound, nobody has stopped it
\* and no monitor would.  After an upgrade that failed the panel stays stopped from that step
\* on, and what fails before the agent's start leaves agent and VPN stopped, until somebody
\* starts them (Services; install.sh:85-97, upgrade.sh:9-25, README.md:134).
FailuresEndWell == H!FailuresEndWell

\* However often the same form is submitted, a name is created once; the results of a
\* bulk creation are complete, and what they say succeeded is in the log as such; and no
\* client comes into being without a trace there, unless the panel was stopped or could
\* not write then (Operations; app.js:103, app.py:75-83, agent.py:165).
CreationsOnRecord == O!CreationsOnRecord
=============================================================================
