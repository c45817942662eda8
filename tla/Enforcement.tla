---------------------------- MODULE Enforcement ----------------------------
(***************************************************************************)
(* How quotas, expiry and suspension are enforced on live VPN sessions.    *)
(*                                                                         *)
(* Five actors share the tables of Accounting:                             *)
(*   - the agent's main thread, the monitor (Agent.monitor): take a status *)
(*     snapshot, account its rows, publish, judge each row's client, kill  *)
(*     the condemned, sleep; any failure ends the round, and a failure     *)
(*     that lasts stops the VPN;                                           *)
(*   - the hook handlers of the agent, called by OpenVPN's scripts when a  *)
(*     client connects (may it?) and disconnects (its final counters);     *)
(*   - one administrator's request at a time (update, kill, reset);        *)
(*   - OpenVPN itself, which is external: it runs one script at a time and *)
(*     answers no management command while one runs;                       *)
(*   - systemd, which restarts the agent and stops the VPN with it.        *)
(*                                                                         *)
(* Durations are counted in ticks: Fresh stands for the 15 s after which   *)
(* the last good snapshot is stale, FailLimit for the 15 s of failure that *)
(* the monitor tolerates.  A step may take any time.                       *)
(***************************************************************************)
EXTENDS Accounting, Integers

CONSTANTS OwnerOf,    \* session -> the common name in its session_key
          Quotas, Expiries,
          Fresh, FailLimit,
          MaxUpload, MaxDownload,  \* bounds of a session's bytes
          MaxTime     \* bound of the clock

ASSUME EnforcementAssumption ==
  /\ OwnerOf \in [Sessions -> Names]
  /\ Quotas \subseteq Nat /\ Expiries \subseteq Nat
  /\ Fresh \in Nat \ {0} /\ FailLimit \in Nat
  /\ MaxUpload \in Nat /\ MaxDownload \in Nat /\ MaxTime \in Nat

VARIABLES
  session,    \* OpenVPN: where each connection stands
  traffic,    \* OpenVPN: the counters it holds for each session
  vpn,        \* the openvpn-server@server unit: "up" or "down"
  agent,      \* the mehrvpn-agent unit: "up" or "down"
  pc,         \* monitor: "poll", "account", "judge" (then kill) or "sleep"
  rows,       \* monitor: the sessions of the snapshot
  snapshot,   \* monitor: the counters in it, of the rows not yet accounted
  todo,       \* monitor: the rows its present loop has not reached
  condemned,  \* monitor: the names it has yet to kill
  okAge,      \* ticks since last_ok, Fresh and beyond being one
  failAge,    \* ticks since failures_since, or NotFailing
  admin,      \* the administrator's request: "idle", "judge" or "kill"
  target,     \* the client of that request
  late,       \* final reports whose hook gave up waiting, still in a handler
  lost,       \* history: sessions whose final report never reached the agent
  steady,     \* history: rows blocked ever since the snapshot was taken
  out,        \* history: names disconnected while blocked, and blocked ever since
  round       \* history: how the last round ended

openvpn == <<session, traffic, vpn>>
monitor == <<pc, rows, snapshot, todo, condemned>>
ages == <<okAge, failAge>>
request == <<admin, target>>
hooks == <<late, lost>>
history == <<steady, out, round>>
vars == <<clients, counters, now, session, traffic, vpn, agent, pc, rows, snapshot, todo,
          condemned, okAge, failAge, admin, target, late, lost, steady, out, round>>

NotFailing == -1
Zero == [upload |-> 0, download |-> 0]
Phases == {"idle", "connecting", "admitted", "live", "closing", "gone"}

TypeOK ==
  /\ AccountingTypeOK
  /\ session \in [Sessions -> Phases]
  /\ traffic \in [Sessions -> [upload : Nat, download : Nat]]
  /\ vpn \in {"up", "down"} /\ agent \in {"up", "down"}
  /\ pc \in {"poll", "account", "judge", "sleep"}
  /\ rows \in SUBSET Sessions /\ todo \in SUBSET rows
  /\ snapshot \in [Sessions -> [upload : Nat, download : Nat]]
  /\ condemned \in SUBSET Names
  /\ okAge \in 0..Fresh /\ failAge \in NotFailing..(FailLimit + 1)
  /\ admin \in {"idle", "judge", "kill"} /\ target \in Names
  /\ late \in SUBSET Sessions /\ lost \in SUBSET Sessions
  /\ steady \in SUBSET Sessions /\ out \in SUBSET Names
  /\ round \in {"ok", "unmonitored", "unenforced"}

-----------------------------------------------------------------------------
(* A client's settings and usage changed: who is still blocked?            *)
StillBlocked ==
  /\ steady' = {s \in steady : ~Allowed(OwnerOf[s])'}
  /\ out' = {n \in out : ~Allowed(n)'}

(***************************************************************************)
(* OpenVPN.                                                                *)
(***************************************************************************)
ScriptRunning == \E s \in Sessions : session[s] \in {"connecting", "admitted", "closing"}
ManagementReady == vpn = "up" /\ ~ScriptRunning

Close(S) == [s \in Sessions |-> IF s \in S /\ session[s] = "live" THEN "closing" ELSE session[s]]
SessionsOf(n) == {s \in Sessions : OwnerOf[s] = n}

\* Without duplicate-cn a new connection first ends the name's older ones.
Connect(s) ==
  /\ ManagementReady
  /\ session[s] = "idle"
  /\ session' = [Close(SessionsOf(OwnerOf[s])) EXCEPT ![s] = "connecting"]
  /\ UNCHANGED <<tables, now, traffic, vpn, agent, monitor, ages, request, hooks, history>>

Admit(s) ==
  /\ session[s] = "admitted"
  /\ session' = [session EXCEPT ![s] = "live"]
  /\ UNCHANGED <<tables, now, traffic, vpn, agent, monitor, ages, request, hooks, history>>

Transfer(s) ==
  /\ session[s] = "live" /\ vpn = "up"
  /\ \/ /\ traffic[s].upload < MaxUpload
        /\ traffic' = [traffic EXCEPT ![s].upload = @ + 1]
     \/ /\ traffic[s].download < MaxDownload
        /\ traffic' = [traffic EXCEPT ![s].download = @ + 1]
  /\ UNCHANGED <<tables, now, session, vpn, agent, monitor, ages, request, hooks, history>>

\* The client leaves, or OpenVPN finds it silent.
Leave(s) ==
  /\ session[s] = "live" /\ ManagementReady
  /\ session' = [session EXCEPT ![s] = "closing"]
  /\ UNCHANGED <<tables, now, traffic, vpn, agent, monitor, ages, request, hooks, history>>

\* An orderly stop closes every session, running the disconnect scripts.
StopVpn ==
  /\ vpn' = "down"
  /\ session' = [s \in Sessions |-> CASE session[s] = "live" -> "closing"
                                      [] session[s] \in {"connecting", "admitted"} -> "gone"
                                      [] OTHER -> session[s]]
  /\ UNCHANGED traffic

VpnCrash ==
  LET cut == {s \in Sessions : session[s] \in {"live", "closing"}}
  IN /\ vpn = "up"
     /\ vpn' = "down"
     /\ session' = [s \in Sessions |-> IF session[s] = "idle" THEN "idle" ELSE "gone"]
     /\ lost' = lost \cup cut
     /\ UNCHANGED <<tables, now, traffic, agent, monitor, ages, request, late, history>>

\* BindsTo and After: the VPN starts only with the agent running.
VpnStart ==
  /\ vpn = "down" /\ agent = "up" /\ ~ScriptRunning
  /\ vpn' = "up"
  /\ UNCHANGED <<tables, now, session, traffic, agent, monitor, ages, request, hooks, history>>

(***************************************************************************)
(* The hook handlers (dispatch with hook=True, called by panel/hook.py).   *)
(***************************************************************************)
\* Mutation of HookCheck: any client with a certificate is let in.
HookCheckFreshOnly(s) ==
  /\ agent = "up" /\ session[s] = "connecting"
  /\ \A t \in Sessions : session[t] # "closing"
  /\ session' = [session EXCEPT ![s] = IF okAge < Fresh THEN "admitted" ELSE "gone"]
  /\ UNCHANGED <<tables, now, traffic, vpn, agent, monitor, ages, request, hooks, history>>

\* The agent's answer is OpenVPN's decision: exit status 0 admits.
HookCheck(s) ==
  /\ agent = "up" /\ session[s] = "connecting"
  /\ \A t \in Sessions : session[t] # "closing"
  /\ session' = [session EXCEPT ![s] =
       IF Allowed(OwnerOf[s]) /\ okAge < Fresh THEN "admitted" ELSE "gone"]
  /\ UNCHANGED <<tables, now, traffic, vpn, agent, monitor, ages, request, hooks, history>>

\* No agent, no answer in time, or an error: the client stays out.
HookRefuses(s) ==
  /\ session[s] = "connecting"
  /\ \A t \in Sessions : session[t] # "closing"
  /\ session' = [session EXCEPT ![s] = "gone"]
  /\ UNCHANGED <<tables, now, traffic, vpn, agent, monitor, ages, request, hooks, history>>

HookFinal(s) ==
  /\ agent = "up" /\ session[s] = "closing"
  /\ Account(OwnerOf[s], s, traffic[s].upload, traffic[s].download)
  /\ session' = [session EXCEPT ![s] = "gone"]
  /\ UNCHANGED <<now, traffic, vpn, agent, monitor, ages, request, hooks, round>>
  /\ StillBlocked

HookFinalLost(s) ==
  /\ \/ /\ session[s] = "closing"
        /\ session' = [session EXCEPT ![s] = "gone"]
        /\ UNCHANGED late
     \/ /\ s \in late
        /\ late' = late \ {s}
        /\ UNCHANGED session
  /\ lost' = lost \cup {s}
  /\ UNCHANGED <<tables, now, traffic, vpn, agent, monitor, ages, request, history>>

\* The script waits 10 s for its answer, the handler 15 s for the database.
HookFinalSlow(s) ==
  /\ agent = "up" /\ session[s] = "closing"
  /\ session' = [session EXCEPT ![s] = "gone"]
  /\ late' = late \cup {s}
  /\ UNCHANGED <<tables, now, traffic, vpn, agent, monitor, ages, request, lost, history>>

HookFinalLate(s) ==
  /\ agent = "up" /\ s \in late
  /\ Account(OwnerOf[s], s, traffic[s].upload, traffic[s].download)
  /\ late' = late \ {s}
  /\ UNCHANGED <<now, openvpn, agent, monitor, ages, request, lost, round>>
  /\ StillBlocked

(***************************************************************************)
(* The monitor.                                                            *)
(***************************************************************************)
MonitorAt(p) == agent = "up" /\ pc = p

\* status 3: one row for each live session.
Poll ==
  /\ MonitorAt("poll") /\ ManagementReady
  /\ rows' = {s \in Sessions : session[s] = "live"}
  /\ snapshot' = [s \in Sessions |-> IF s \in rows' THEN traffic[s] ELSE Zero]
  /\ todo' = rows'
  /\ pc' = "account"
  /\ steady' = {s \in rows' : ~Allowed(OwnerOf[s])}
  /\ UNCHANGED <<tables, now, openvpn, agent, condemned, ages, request, hooks, out, round>>

AccountRow(s) ==
  /\ MonitorAt("account") /\ s \in todo
  /\ Account(OwnerOf[s], s, snapshot[s].upload, snapshot[s].download)
  /\ todo' = todo \ {s}
  /\ snapshot' = [snapshot EXCEPT ![s] = Zero]
  /\ UNCHANGED <<now, openvpn, agent, pc, rows, condemned, ages, request, hooks, round>>
  /\ StillBlocked

\* The snapshot is trusted from here on, whatever becomes of the kills.
Publish ==
  /\ MonitorAt("account") /\ todo = {}
  /\ okAge' = 0 /\ failAge' = NotFailing
  /\ todo' = rows
  /\ condemned' = {}
  /\ pc' = "judge"
  /\ UNCHANGED <<tables, now, openvpn, agent, rows, snapshot, request, hooks, history>>

\* Mutations of Judge: each blocked name replaces the one before; a suspension
\* is left to the update that made it.
JudgeLast(s) ==
  /\ MonitorAt("judge") /\ s \in todo
  /\ todo' = todo \ {s}
  /\ condemned' = IF Allowed(OwnerOf[s]) THEN condemned ELSE {OwnerOf[s]}
  /\ UNCHANGED <<tables, now, openvpn, agent, pc, rows, snapshot, ages, request, hooks, history>>

JudgeUsageOnly(s) ==
  /\ MonitorAt("judge") /\ s \in todo
  /\ todo' = todo \ {s}
  /\ condemned' = IF Expired(clients[OwnerOf[s]]) \/ OverQuota(clients[OwnerOf[s]])
                  THEN condemned \cup {OwnerOf[s]} ELSE condemned
  /\ UNCHANGED <<tables, now, openvpn, agent, pc, rows, snapshot, ages, request, hooks, history>>

Judge(s) ==
  /\ MonitorAt("judge") /\ s \in todo
  /\ todo' = todo \ {s}
  /\ condemned' = IF Allowed(OwnerOf[s]) THEN condemned ELSE condemned \cup {OwnerOf[s]}
  /\ UNCHANGED <<tables, now, openvpn, agent, pc, rows, snapshot, ages, request, hooks, history>>

\* Agent.disconnect: "not found" is as good as a kill.
Disconnect(n) ==
  /\ ManagementReady
  /\ session' = Close(SessionsOf(n))
  /\ out' = IF Allowed(n) THEN out ELSE out \cup {n}
  /\ UNCHANGED <<traffic, vpn, steady, round>>

MonitorKill(n) ==
  /\ MonitorAt("judge") /\ todo = {} /\ n \in condemned
  /\ Disconnect(n)
  /\ condemned' = condemned \ {n}
  /\ UNCHANGED <<tables, now, agent, pc, rows, snapshot, todo, ages, request, hooks>>

Forget == rows' = {} /\ snapshot' = [s \in Sessions |-> Zero] /\ todo' = {} /\ condemned' = {}

EndRound ==
  /\ MonitorAt("judge") /\ todo = {} /\ condemned = {}
  /\ pc' = "sleep" /\ round' = "ok"
  /\ Forget
  /\ UNCHANGED <<tables, now, openvpn, agent, ages, request, hooks, steady, out>>

\* Any exception of the round: no answer, a bad one, a database error.
Fail ==
  /\ agent = "up" /\ pc # "sleep"
  /\ pc' = "sleep"
  /\ round' = IF pc = "judge" THEN "unenforced" ELSE "unmonitored"
  /\ Forget

RoundFails ==
  /\ Fail
  /\ failAge <= FailLimit
  /\ failAge' = IF failAge = NotFailing THEN 0 ELSE failAge
  /\ UNCHANGED <<tables, now, openvpn, agent, okAge, request, hooks, steady, out>>

\* Mutation of WatchdogStops: the count starts again and nothing is stopped.
WatchdogOnlyCounts ==
  /\ Fail
  /\ failAge > FailLimit
  /\ failAge' = 0
  /\ UNCHANGED <<tables, now, openvpn, agent, okAge, request, hooks, steady, out>>

\* The failure lasted: systemctl stop, and a new count from now.
WatchdogStops ==
  /\ Fail
  /\ failAge > FailLimit
  /\ failAge' = 0
  /\ StopVpn
  /\ UNCHANGED <<tables, now, agent, okAge, request, hooks, steady, out>>

\* check=False: a stop that does not succeed goes unnoticed.
WatchdogStopFails ==
  /\ Fail
  /\ failAge > FailLimit
  /\ failAge' = 0
  /\ UNCHANGED <<tables, now, openvpn, agent, okAge, request, hooks, steady, out>>

Wake ==
  /\ MonitorAt("sleep")
  /\ pc' = "poll"
  /\ UNCHANGED <<tables, now, openvpn, agent, rows, snapshot, todo, condemned, ages, request,
                 hooks, history>>

(***************************************************************************)
(* The administrator: dispatch's update, reset, kill and restart.  These   *)
(* clients are provisioned and never revoked, so update's own check of the *)
(* row's state passes.                                                     *)
(***************************************************************************)
AdminUpdate(n) ==
  /\ agent = "up" /\ admin = "idle"
  /\ \E st \in {"active", "suspended"}, q \in Quotas, e \in Expiries : Update(n, st, q, e)
  /\ admin' = "judge" /\ target' = n
  /\ UNCHANGED <<now, openvpn, agent, monitor, ages, hooks, round>>
  /\ StillBlocked

AdminJudge ==
  /\ agent = "up" /\ admin = "judge"
  /\ admin' = IF Allowed(target) THEN "idle" ELSE "kill"
  /\ UNCHANGED <<tables, now, openvpn, agent, monitor, ages, target, hooks, history>>

AdminKillRequest(n) ==
  /\ agent = "up" /\ admin = "idle"
  /\ admin' = "kill" /\ target' = n
  /\ UNCHANGED <<tables, now, openvpn, agent, monitor, ages, hooks, history>>

AdminKill ==
  /\ agent = "up" /\ admin = "kill"
  /\ Disconnect(target)
  /\ admin' = "idle"
  /\ UNCHANGED <<tables, now, agent, monitor, ages, target, hooks>>

AdminKillFails ==
  /\ agent = "up" /\ admin = "kill"
  /\ admin' = "idle"
  /\ UNCHANGED <<tables, now, openvpn, agent, monitor, ages, target, hooks, history>>

AdminReset(n) ==
  /\ agent = "up" /\ admin = "idle"
  /\ Reset(n)
  /\ UNCHANGED <<now, openvpn, agent, monitor, ages, request, hooks, round>>
  /\ StillBlocked

\* systemctl restart: a stop here, VpnStart afterwards.
AdminRestart ==
  /\ agent = "up" /\ admin = "idle" /\ vpn = "up"
  /\ StopVpn
  /\ UNCHANGED <<tables, now, agent, monitor, ages, request, hooks, history>>

(***************************************************************************)
(* systemd: an exception that leaves the main thread, or a kill, ends the  *)
(* agent with its handlers, and BindsTo stops the VPN; the agent restarts  *)
(* with a fresh memory.                                                    *)
(***************************************************************************)
AgentCrash ==
  /\ agent = "up"
  /\ agent' = "down"
  /\ StopVpn
  /\ late' = {} /\ lost' = lost \cup late
  /\ admin' = "idle"
  /\ pc' = "poll" /\ Forget
  /\ okAge' = Fresh /\ failAge' = NotFailing
  /\ steady' = {} /\ round' = "ok"
  /\ UNCHANGED <<tables, now, target, out>>

AgentStart ==
  /\ agent = "down" /\ vpn = "down"
  /\ agent' = "up"
  /\ UNCHANGED <<tables, now, openvpn, monitor, ages, request, hooks, history>>

(***************************************************************************)
(* Time.                                                                   *)
(***************************************************************************)
PassTime ==
  /\ now' = IF now < MaxTime THEN now + 1 ELSE now
  /\ okAge' = IF okAge < Fresh THEN okAge + 1 ELSE okAge
  /\ failAge' = IF failAge \in 0..FailLimit THEN failAge + 1 ELSE failAge
  /\ ages' # ages \/ now' # now
  /\ UNCHANGED <<tables, openvpn, agent, monitor, request, hooks, round>>
  /\ StillBlocked

-----------------------------------------------------------------------------
Init ==
  /\ clients \in [Names -> {Set(NewClient, "active", q, e) : q \in Quotas, e \in Expiries}]
  /\ counters = [s \in Sessions |-> NoCounter]
  /\ now = 0
  /\ session = [s \in Sessions |-> "idle"]
  /\ traffic = [s \in Sessions |-> Zero]
  /\ vpn = "down" /\ agent = "up"
  /\ pc = "poll" /\ rows = {} /\ todo = {} /\ condemned = {}
  /\ snapshot = [s \in Sessions |-> Zero]
  /\ okAge = Fresh /\ failAge = NotFailing
  /\ admin = "idle" /\ target \in Names
  /\ late = {} /\ lost = {} /\ steady = {} /\ out = {} /\ round = "ok"

OpenVPN(s) == Connect(s) \/ Admit(s) \/ Transfer(s) \/ Leave(s)

Hook(s) == HookCheck(s) \/ HookRefuses(s) \/ HookFinal(s) \/ HookFinalLost(s)
             \/ HookFinalSlow(s) \/ HookFinalLate(s)

Monitor ==
  \/ Poll \/ Publish \/ EndRound \/ RoundFails \/ WatchdogStops \/ WatchdogStopFails \/ Wake
  \/ \E s \in Sessions : AccountRow(s) \/ Judge(s)
  \/ \E n \in Names : MonitorKill(n)

Admin ==
  \/ AdminJudge \/ AdminKill \/ AdminKillFails \/ AdminRestart
  \/ \E n \in Names : AdminUpdate(n) \/ AdminKillRequest(n) \/ AdminReset(n)

Systemd == VpnCrash \/ VpnStart \/ AgentCrash \/ AgentStart

Next ==
  \/ \E s \in Sessions : OpenVPN(s) \/ Hook(s)
  \/ Monitor \/ Admin \/ Systemd \/ PassTime

Spec == Init /\ [][Next]_vars

-----------------------------------------------------------------------------
(***************************************************************************)
(* Safety                                                                  *)
(***************************************************************************)

(* No client is charged for bytes its session did not carry: what the      *)
(* tables hold of a session never exceeds what OpenVPN counted, whatever   *)
(* the order in which snapshots and final reports are applied.             *)
NoMore(x, y) == x.upload <= y.upload /\ x.download <= y.download

NeverOvercharged == \A s \in Sessions : NoMore(counters[s], traffic[s])

(* Every byte of a session that is over is accounted, unless its final     *)
(* report was lost or still waits in a handler; in particular a snapshot   *)
(* row applied after the final report takes nothing back.                  *)
Counted(s) == /\ counters[s].upload = traffic[s].upload
              /\ counters[s].download = traffic[s].download

FinalCounted ==
  \A s \in Sessions : session[s] = "gone" /\ s \notin late \cup lost => Counted(s)

(* One good round cuts: when the monitor ends a round without a failure,   *)
(* no session it found live at the beginning is still live if its client   *)
(* was blocked then and ever since, whichever threads ran in between.      *)
CutInRound == pc = "sleep" /\ round = "ok" => \A s \in steady : session[s] # "live"

(* A blocked client that was disconnected stays out: from the kill until   *)
(* its client is allowed again it has no live session, in spite of scripts *)
(* that had asked the agent before.                                        *)
StaysOut == \A n \in out, s \in Sessions : OwnerOf[s] = n => session[s] \notin {"admitted", "live"}

(***************************************************************************)
(* Liveness                                                                *)
(*                                                                         *)
(* The monitor's calls all return (5 s, 15 s and 30 s timeouts), scripts   *)
(* end (10 s), time passes, systemd restarts the agent, and a systemctl    *)
(* stop tried again and again succeeds in the end.  Nothing obliges        *)
(* clients, the administrator, or a kill.                                  *)
(***************************************************************************)
Fairness ==
  /\ WF_vars(Monitor)
  /\ SF_vars(WatchdogStops)
  /\ \A s \in Sessions : WF_vars(Hook(s)) /\ WF_vars(Admit(s))
  /\ WF_vars(PassTime)
  /\ WF_vars(AgentStart)

FairSpec == Spec /\ Fairness

(* Supervision: the VPN never runs on for good without fresh counters.     *)
Supervised == []<>(okAge = 0 \/ vpn = "down")

(* A live session of a blocked client comes to an end, provided that       *)
(* rounds do not fail for ever after their snapshot was accounted.         *)
Blocked(s) == session[s] = "live" /\ ~Allowed(OwnerOf[s])

BlockedIsCut == <>[](round # "unenforced") => \A s \in Sessions : Blocked(s) ~> ~Blocked(s)

(* "Monitoring failure for over 15 seconds stops the VPN" (README.md:179), *)
(* monitoring failure being a round that ends in the handler which reports *)
(* "OpenVPN monitoring unavailable" (panel/agent.py:226).                  *)
FailureStopsVpn == ~<>[](round # "ok" /\ vpn = "up")
=============================================================================
