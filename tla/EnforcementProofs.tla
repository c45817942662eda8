------------------------- MODULE EnforcementProofs -------------------------
(***************************************************************************)
(* Theorems about Enforcement, for every set of clients and of sessions,   *)
(* every quota, expiry and bound.                                          *)
(***************************************************************************)
EXTENDS Enforcement, AccountingProofs

(* Constants have their types.                                             *)
LEMMA ConstantTypes ==
  /\ \A s \in Sessions : OwnerOf[s] \in Names
  /\ Fresh \in Nat /\ Fresh > 0 /\ FailLimit \in Nat
  /\ Quotas \subseteq Nat /\ Expiries \subseteq Nat
BY EnforcementAssumption

(* Everything has its type at first.                                       *)
LEMMA InitialTypes == Init => TypeOK
<1> SUFFICES ASSUME Init PROVE TypeOK
  OBVIOUS
<1>1. clients \in [Names -> ClientRow]
  <2>1. \A q \in Quotas, e \in Expiries : Set(NewClient, "active", q, e) \in ClientRow
    BY ConstantTypes, NewRows, SetType DEF States
  <2> QED BY <2>1 DEF Init
<1>2. counters \in [Sessions -> CounterRow] /\ now \in Nat
  BY DEF Init, NoCounter, CounterRow
<1> QED BY <1>1, <1>2, ConstantTypes
        DEF Init, TypeOK, AccountingTypeOK, Phases, Zero, NotFailing

(* What blocks a client shrinks the histories of the blocked.              *)
LEMMA HistoryTypes ==
  ASSUME TypeOK, StillBlocked
  PROVE  steady' \in SUBSET Sessions /\ out' \in SUBSET Names
BY DEF TypeOK, StillBlocked

(* Type correctness is inductive on its own.                               *)
LEMMA TypeStep == TypeOK /\ [Next]_vars => TypeOK'
<1> SUFFICES ASSUME TypeOK, [Next]_vars PROVE TypeOK'
  OBVIOUS
<1> USE ConstantTypes
    DEF TypeOK, AccountingTypeOK, Phases, tables, openvpn, monitor, ages, request, hooks, history
<1>1. ASSUME NEW s \in Sessions, OpenVPN(s) PROVE TypeOK'
  <2>1. CASE Connect(s) \/ Admit(s) \/ Leave(s)
    BY <2>1 DEF Connect, Admit, Leave, Close
  <2>2. CASE Transfer(s)
    <3>1. /\ [traffic[s] EXCEPT !.upload = @ + 1] \in [upload : Nat, download : Nat]
          /\ [traffic[s] EXCEPT !.download = @ + 1] \in [upload : Nat, download : Nat]
      OBVIOUS
    <3>2. \/ traffic' = [traffic EXCEPT ![s] = [traffic[s] EXCEPT !.upload = @ + 1]]
          \/ traffic' = [traffic EXCEPT ![s] = [traffic[s] EXCEPT !.download = @ + 1]]
      BY <2>2 DEF Transfer
    <3>3. traffic' \in [Sessions -> [upload : Nat, download : Nat]]
      BY <3>1, <3>2
    <3> QED BY <2>2, <3>3 DEF Transfer
  <2> QED BY <1>1, <2>1, <2>2 DEF OpenVPN
<1>2. ASSUME NEW s \in Sessions, Hook(s) PROVE TypeOK'
  <2>1. CASE HookCheck(s) \/ HookRefuses(s) \/ HookFinalLost(s) \/ HookFinalSlow(s)
    BY <2>1 DEF HookCheck, HookRefuses, HookFinalLost, HookFinalSlow
  <2>2. CASE HookFinal(s)
    <3>1. clients' \in [Names -> ClientRow] /\ counters' \in [Sessions -> CounterRow]
      BY <2>2, AccountEffect DEF HookFinal
    <3> QED BY <2>2, <3>1, HistoryTypes DEF HookFinal
  <2>3. CASE HookFinalLate(s)
    <3>1. clients' \in [Names -> ClientRow] /\ counters' \in [Sessions -> CounterRow]
      BY <2>3, AccountEffect DEF HookFinalLate
    <3> QED BY <2>3, <3>1, HistoryTypes DEF HookFinalLate
  <2> QED BY <1>2, <2>1, <2>2, <2>3 DEF Hook
<1>3. CASE Poll \/ Publish \/ EndRound \/ Wake
  BY <1>3 DEF Poll, Publish, EndRound, Wake, MonitorAt, Forget, Zero, NotFailing
<1>4. ASSUME NEW s \in Sessions, AccountRow(s) PROVE TypeOK'
  <2>1. clients' \in [Names -> ClientRow] /\ counters' \in [Sessions -> CounterRow]
    BY <1>4, AccountEffect DEF AccountRow
  <2> QED BY <1>4, <2>1, HistoryTypes DEF AccountRow, Zero
<1>5. ASSUME NEW s \in Sessions, Judge(s) PROVE TypeOK'
  BY <1>5 DEF Judge
<1>6. ASSUME NEW n \in Names, MonitorKill(n) PROVE TypeOK'
  BY <1>6 DEF MonitorKill, Disconnect, Close
<1>7. CASE RoundFails \/ WatchdogStops \/ WatchdogStopFails
  BY <1>7 DEF RoundFails, WatchdogStops, WatchdogStopFails, Fail, Forget, StopVpn, Zero, NotFailing
<1>8. CASE AdminJudge \/ AdminKill \/ AdminKillFails \/ AdminRestart
  BY <1>8 DEF AdminJudge, AdminKill, AdminKillFails, AdminRestart, Disconnect, Close, StopVpn
<1>9. ASSUME NEW n \in Names, AdminUpdate(n) PROVE TypeOK'
  <2>1. clients' \in [Names -> ClientRow] /\ counters' = counters
    BY <1>9, EditType DEF AdminUpdate, States
  <2> QED BY <1>9, <2>1, HistoryTypes DEF AdminUpdate
<1>10. ASSUME NEW n \in Names, AdminReset(n) PROVE TypeOK'
  <2>1. clients' \in [Names -> ClientRow] /\ counters' = counters
    BY <1>10, EditType DEF AdminReset
  <2> QED BY <1>10, <2>1, HistoryTypes DEF AdminReset
<1>11. ASSUME NEW n \in Names, AdminKillRequest(n) PROVE TypeOK'
  BY <1>11 DEF AdminKillRequest
<1>12. CASE Systemd
  BY <1>12 DEF Systemd, VpnCrash, VpnStart, AgentCrash, AgentStart, StopVpn, Forget, Zero, NotFailing
<1>13. CASE PassTime
  BY <1>13, HistoryTypes DEF PassTime, NotFailing
<1>14. CASE UNCHANGED vars
  BY <1>14 DEF vars
<1> QED BY <1>1, <1>2, <1>3, <1>4, <1>5, <1>6, <1>7, <1>8, <1>9, <1>10, <1>11, <1>12, <1>13, <1>14
        DEF Next, Monitor, Admin

(* The tables, the threads and the histories always have their types.      *)
THEOREM TypeCorrect == Spec => []TypeOK
BY InitialTypes, TypeStep, PTL DEF Spec

-----------------------------------------------------------------------------
(* A snapshot never shows more than OpenVPN has counted since.             *)
SnapshotBelow == \A s \in Sessions : NoMore(snapshot[s], traffic[s])

(* A session carries nothing before it is live.                            *)
NothingYet == \A s \in Sessions : session[s] \in {"idle", "connecting", "admitted"} => traffic[s] = Zero

Money == NeverOvercharged /\ SnapshotBelow /\ NothingYet /\ FinalCounted

(* Nothing is counted at first.                                            *)
LEMMA InitialMoney == Init => Money
BY DEF Init, Money, NeverOvercharged, SnapshotBelow, NothingYet, FinalCounted, NoMore, Counted,
       Zero, NoCounter

(* Counters are numbers.                                                   *)
LEMMA CounterTypes ==
  ASSUME TypeOK, NEW s \in Sessions
  PROVE  /\ counters[s].upload \in Nat /\ counters[s].download \in Nat
         /\ traffic[s].upload \in Nat /\ traffic[s].download \in Nat
         /\ snapshot[s].upload \in Nat /\ snapshot[s].download \in Nat
BY DEF TypeOK, AccountingTypeOK, CounterRow

(* Accounting a report of what a session carried, early or late, charges   *)
(* no more than it carried, takes nothing back, and completes the account  *)
(* if the report does.                                                     *)
LEMMA ReportIsSafe ==
  ASSUME TypeOK, NeverOvercharged, NEW s \in Sessions, NEW n \in Names,
         NEW r \in [upload : Nat, download : Nat], NoMore(r, traffic[s]),
         Account(n, s, r.upload, r.download), traffic' = traffic
  PROVE  /\ NeverOvercharged'
         /\ \A z \in Sessions : Counted(z) => Counted(z)'
         /\ r = traffic[s] => Counted(s)'
<1>1. /\ counters'[s].upload = Larger(r.upload, counters[s].upload)
      /\ counters'[s].download = Larger(r.download, counters[s].download)
      /\ \A z \in Sessions \ {s} : counters'[z] = counters[z]
  BY AccountEffect DEF TypeOK
<1>2. /\ counters[s].upload \in Nat /\ counters[s].download \in Nat
      /\ traffic[s].upload \in Nat /\ traffic[s].download \in Nat
      /\ counters[s].upload <= traffic[s].upload /\ counters[s].download <= traffic[s].download
  BY CounterTypes DEF NeverOvercharged, NoMore
<1>3. NoMore(counters[s], traffic[s])' /\ (Counted(s) => Counted(s)') /\ (r = traffic[s] => Counted(s)')
  BY <1>1, <1>2 DEF NoMore, Counted, Larger
<1> QED BY <1>1, <1>3 DEF NeverOvercharged, NoMore, Counted

(* Steps that leave the counters, what was carried and the snapshot alone, *)
(* or forget the snapshot, and let no session go without a trace.          *)
LEMMA MoneyKept ==
  ASSUME TypeOK, Money, counters' = counters, traffic' = traffic,
         snapshot' = snapshot \/ snapshot' = [s \in Sessions |-> Zero],
         \A s \in Sessions :
           /\ session'[s] \in {"idle", "connecting", "admitted"} =>
                session[s] \in {"idle", "connecting", "admitted"}
           /\ session'[s] = "gone" /\ s \notin late' \cup lost' =>
                \/ session[s] = "gone" /\ s \notin late \cup lost
                \/ session[s] \in {"idle", "connecting", "admitted"}
  PROVE  Money'
<1>1. NeverOvercharged'
  BY DEF Money, NeverOvercharged
<1>2. SnapshotBelow'
  <2>1. \A s \in Sessions : NoMore(Zero, traffic[s])
    BY CounterTypes DEF NoMore, Zero
  <2> QED BY <2>1 DEF Money, SnapshotBelow
<1>3. NothingYet'
  BY DEF Money, NothingYet
<1>4. FinalCounted'
  <2> SUFFICES ASSUME NEW s \in Sessions, session'[s] = "gone", s \notin late' \cup lost'
               PROVE  Counted(s)'
    BY DEF FinalCounted
  <2>1. CASE session[s] = "gone" /\ s \notin late \cup lost
    BY <2>1 DEF Money, FinalCounted, Counted
  <2>2. CASE session[s] \in {"idle", "connecting", "admitted"}
    BY <2>2, CounterTypes DEF Money, NothingYet, NeverOvercharged, NoMore, Zero, Counted
  <2> QED BY <2>1, <2>2
<1> QED BY <1>1, <1>2, <1>3, <1>4 DEF Money

(* The account is never too high, and complete when a session is over.     *)
LEMMA MoneyStep == TypeOK /\ Money /\ [Next]_vars => Money'
<1> SUFFICES ASSUME TypeOK, Money, [Next]_vars PROVE Money'
  OBVIOUS
<1> USE ConstantTypes DEF tables, openvpn, monitor, ages, request, hooks, history
<1>1. ASSUME NEW s \in Sessions, Connect(s) \/ Admit(s) \/ Leave(s) PROVE Money'
  BY <1>1, MoneyKept DEF Connect, Admit, Leave, Close, TypeOK
<1>2. ASSUME NEW s \in Sessions, Transfer(s) PROVE Money'
  <2>1. /\ session[s] = "live" /\ session' = session /\ counters' = counters /\ snapshot' = snapshot
        /\ late' = late /\ lost' = lost
        /\ \A z \in Sessions \ {s} : traffic'[z] = traffic[z]
        /\ NoMore(traffic[s], traffic'[s])
    BY <1>2, CounterTypes DEF Transfer, NoMore, TypeOK
  <2>2. traffic'[s].upload \in Nat /\ traffic'[s].download \in Nat
    BY <1>2, TypeStep DEF TypeOK
  <2>3. NeverOvercharged' /\ SnapshotBelow'
    BY <2>1, <2>2, CounterTypes DEF Money, NeverOvercharged, SnapshotBelow, NoMore
  <2>4. NothingYet' /\ FinalCounted'
    BY <2>1 DEF Money, NothingYet, FinalCounted, Counted
  <2> QED BY <2>3, <2>4 DEF Money
<1>3. ASSUME NEW s \in Sessions, HookCheck(s) \/ HookRefuses(s) \/ HookFinalLost(s) \/ HookFinalSlow(s)
      PROVE  Money'
  BY <1>3, MoneyKept DEF HookCheck, HookRefuses, HookFinalLost, HookFinalSlow, TypeOK
<1>4. ASSUME NEW s \in Sessions, HookFinal(s) \/ HookFinalLate(s) PROVE Money'
  <2>1. /\ Account(OwnerOf[s], s, traffic[s].upload, traffic[s].download)
        /\ traffic' = traffic /\ snapshot' = snapshot /\ lost' = lost /\ late \subseteq late' \cup {s}
        /\ \A z \in Sessions \ {s} : session'[z] = session[z]
        /\ session'[s] = session[s] \/ session'[s] = "gone"
    BY <1>4 DEF HookFinal, HookFinalLate, TypeOK
  <2>2. /\ NeverOvercharged' /\ Counted(s)'
        /\ \A z \in Sessions : Counted(z) => Counted(z)'
    <3>1. traffic[s] \in [upload : Nat, download : Nat] /\ NoMore(traffic[s], traffic[s])
      BY DEF TypeOK, NoMore
    <3> QED BY <2>1, <3>1, ReportIsSafe DEF Money
  <2>3. SnapshotBelow' /\ NothingYet'
    BY <2>1 DEF Money, SnapshotBelow, NothingYet
  <2>4. FinalCounted'
    BY <2>1, <2>2 DEF Money, FinalCounted
  <2> QED BY <2>2, <2>3, <2>4 DEF Money
<1>5. CASE Poll
  <2>1. /\ snapshot' = [s \in Sessions |-> IF s \in rows' THEN traffic[s] ELSE Zero]
        /\ counters' = counters /\ traffic' = traffic /\ session' = session
        /\ late' = late /\ lost' = lost
    BY <1>5 DEF Poll
  <2>2. SnapshotBelow'
    BY <2>1, CounterTypes DEF SnapshotBelow, NoMore, Zero
  <2> QED BY <2>1, <2>2 DEF Money, NeverOvercharged, NothingYet, FinalCounted, Counted
<1>6. ASSUME NEW s \in Sessions, AccountRow(s) PROVE Money'
  <2>1. /\ Account(OwnerOf[s], s, snapshot[s].upload, snapshot[s].download)
        /\ snapshot' = [snapshot EXCEPT ![s] = Zero]
        /\ traffic' = traffic /\ session' = session /\ late' = late /\ lost' = lost
    BY <1>6 DEF AccountRow
  <2>2. NeverOvercharged' /\ \A z \in Sessions : Counted(z) => Counted(z)'
    <3>1. snapshot[s] \in [upload : Nat, download : Nat] /\ NoMore(snapshot[s], traffic[s])
      BY DEF TypeOK, Money, SnapshotBelow
    <3> QED BY <2>1, <3>1, ReportIsSafe DEF Money
  <2>3. SnapshotBelow'
    BY <2>1, CounterTypes DEF Money, SnapshotBelow, NoMore, Zero, TypeOK
  <2>4. NothingYet' /\ FinalCounted'
    BY <2>1, <2>2 DEF Money, NothingYet, FinalCounted
  <2> QED BY <2>2, <2>3, <2>4 DEF Money
<1>7. ASSUME NEW s \in Sessions, Judge(s) PROVE Money'
  BY <1>7, MoneyKept DEF Judge
<1>8. CASE Publish \/ EndRound \/ Wake \/ RoundFails \/ WatchdogStopFails
  BY <1>8, MoneyKept DEF Publish, EndRound, Wake, RoundFails, WatchdogStopFails, Fail, Forget
<1>9. CASE WatchdogStops \/ AdminRestart \/ VpnCrash \/ VpnStart \/ AgentCrash \/ AgentStart
  <2>1. ASSUME StopVpn, UNCHANGED counters, UNCHANGED snapshot \/ Forget,
               late' \cup lost' = late \cup lost
        PROVE  Money'
    BY <2>1, MoneyKept DEF StopVpn, Forget, TypeOK, Phases
  <2>2. CASE WatchdogStops \/ AdminRestart
    BY <2>1, <2>2 DEF WatchdogStops, AdminRestart, Fail
  <2>3. CASE AgentCrash
    BY <2>1, <2>3 DEF AgentCrash
  <2>4. CASE VpnCrash
    BY <2>4, MoneyKept DEF VpnCrash, TypeOK, Phases
  <2>5. CASE VpnStart \/ AgentStart
    BY <2>5, MoneyKept DEF VpnStart, AgentStart
  <2> QED BY <1>9, <2>2, <2>3, <2>4, <2>5
<1>10. ASSUME NEW n \in Names, MonitorKill(n) PROVE Money'
  BY <1>10, MoneyKept DEF MonitorKill, Disconnect, Close
<1>11. CASE AdminJudge \/ AdminKill \/ AdminKillFails
  BY <1>11, MoneyKept DEF AdminJudge, AdminKill, AdminKillFails, Disconnect, Close
<1>12. ASSUME NEW n \in Names, AdminUpdate(n) \/ AdminReset(n) \/ AdminKillRequest(n) PROVE Money'
  <2>1. counters' = counters
    BY <1>12 DEF AdminUpdate, AdminReset, AdminKillRequest, Update, Reset
  <2> QED BY <1>12, <2>1, MoneyKept DEF AdminUpdate, AdminReset, AdminKillRequest
<1>13. CASE PassTime \/ UNCHANGED vars
  BY <1>13, MoneyKept DEF PassTime, vars
<1> QED BY <1>1, <1>2, <1>3, <1>4, <1>5, <1>6, <1>7, <1>8, <1>9, <1>10, <1>11, <1>12, <1>13
        DEF Next, OpenVPN, Hook, Monitor, Admin, Systemd

(* No client is ever charged for bytes that its session did not carry      *)
(* (accounting.py 46-59, agent.py 122-125, 218-220).                       *)
THEOREM NeverOverchargedHolds == Spec => []NeverOvercharged
<1>1. Money => NeverOvercharged
  BY DEF Money
<1> QED BY InitialTypes, TypeStep, InitialMoney, MoneyStep, <1>1, PTL DEF Spec

(* What a session that is over carried is accounted, unless its final      *)
(* report was lost or still waits in a handler (agent.py 122-125, 218-220, *)
(* hook.py 13-22).                                                         *)
THEOREM FinalCountedHolds == Spec => []FinalCounted
<1>1. Money => FinalCounted
  BY DEF Money
<1> QED BY InitialTypes, TypeStep, InitialMoney, MoneyStep, <1>1, PTL DEF Spec
-----------------------------------------------------------------------------
(* The histories hold blocked clients only, and the blocked rows of the    *)
(* snapshot are sessions that have been live.                              *)
OutBlocked == \A n \in out : ~Allowed(n)
SteadyBlocked == \A s \in steady : ~Allowed(OwnerOf[s]) /\ session[s] \in {"live", "closing", "gone"}

(* In a round, a blocked row that is still live has yet to be judged, or   *)
(* its client is condemned.                                                *)
InRound ==
  /\ pc = "account" => steady \subseteq rows
  /\ pc = "judge" => \A s \in steady :
                        session[s] = "live" => s \in todo \/ OwnerOf[s] \in condemned

Outside == OutBlocked /\ StaysOut /\ SteadyBlocked
Inside == InRound /\ CutInRound

(* Nothing is blocked that was looked at.                                  *)
LEMMA InitialCut == Init => Outside /\ Inside
BY DEF Init, Outside, Inside, OutBlocked, StaysOut, SteadyBlocked, InRound, CutInRound

(* The histories shrink to who is still blocked.                           *)
Shrinks == \/ StillBlocked
           \/ clients' = clients /\ now' = now /\ steady' \subseteq steady /\ out' \subseteq out

(* A session comes in with its client allowed, and never comes back.       *)
Orderly ==
  \A s \in Sessions :
    /\ session'[s] \in {"admitted", "live"} =>
         session[s] \in {"admitted", "live"} \/ Allowed(OwnerOf[s])'
    /\ session[s] \in {"live", "closing", "gone"} =>
         session'[s] \in {"live", "closing", "gone"} /\ (session'[s] = "live" => session[s] = "live")

(* Steps that cut nobody, but let nobody blocked in either.                *)
LEMMA OutsideKept ==
  ASSUME TypeOK, Outside, Shrinks, Orderly
  PROVE  Outside'
<1>1. /\ steady' \subseteq steady /\ \A s \in steady' : ~Allowed(OwnerOf[s])'
      /\ out' \subseteq out /\ \A n \in out' : ~Allowed(n)'
  <2>1. CASE StillBlocked
    BY <2>1 DEF StillBlocked
  <2>2. CASE clients' = clients /\ now' = now /\ steady' \subseteq steady /\ out' \subseteq out
    BY <2>2, SameAnswer DEF Outside, OutBlocked, SteadyBlocked
  <2> QED BY <2>1, <2>2 DEF Shrinks
<1>2. OutBlocked' /\ SteadyBlocked'
  BY <1>1 DEF Orderly, Outside, OutBlocked, SteadyBlocked, TypeOK
<1>3. StaysOut'
  BY <1>1, ConstantTypes DEF Orderly, Outside, StaysOut
<1> QED BY <1>2, <1>3 DEF Outside

(* Steps that leave the monitor where it is.                               *)
LEMMA InsideKept ==
  ASSUME TypeOK, Inside, UNCHANGED monitor, round' = round, steady' \subseteq steady,
         \A s \in steady' : session'[s] = "live" => session[s] = "live"
  PROVE  Inside'
BY DEF Inside, InRound, CutInRound, monitor

(* OpenVPN executes a kill only while no script runs: nobody who asked the *)
(* agent before is still on the way in.                                    *)
LEMMA DisconnectKept ==
  ASSUME TypeOK, Outside, NEW n \in Names, Disconnect(n), clients' = clients, now' = now
  PROVE  /\ Outside'
         /\ steady' = steady
         /\ \A s \in Sessions : OwnerOf[s] = n => session'[s] # "live"
         /\ \A s \in Sessions : session'[s] = "live" => session[s] = "live"
<1>1. \A s \in Sessions : session[s] \notin {"connecting", "admitted", "closing"}
  BY DEF Disconnect, ManagementReady, ScriptRunning
<1>2. \A s \in Sessions :
        session'[s] = IF OwnerOf[s] = n /\ session[s] = "live" THEN "closing" ELSE session[s]
  BY DEF Disconnect, Close, SessionsOf, TypeOK
<1>3. steady' = steady /\ out' \subseteq out \cup {n} /\ (n \in out' => n \in out \/ ~Allowed(n))
  BY DEF Disconnect
<1>4. OutBlocked' /\ SteadyBlocked'
  BY <1>2, <1>3, SameAnswer DEF Outside, OutBlocked, SteadyBlocked, TypeOK
<1>5. StaysOut'
  BY <1>1, <1>2, <1>3 DEF Outside, StaysOut, TypeOK
<1> QED BY <1>2, <1>3, <1>4, <1>5 DEF Outside

(* A blocked client is cut by the round that saw it, and stays out.        *)
LEMMA CutStep == TypeOK /\ Outside /\ Inside /\ [Next]_vars => Outside' /\ Inside'
<1> SUFFICES ASSUME TypeOK, Outside, Inside, [Next]_vars PROVE Outside' /\ Inside'
  OBVIOUS
<1> USE ConstantTypes DEF tables, openvpn, monitor, ages, request, hooks, history
<1>0. ASSUME Shrinks, Orderly, UNCHANGED monitor, round' = round PROVE Outside' /\ Inside'
  <2>1. steady' \subseteq steady
    BY <1>0 DEF Shrinks, StillBlocked
  <2>2. \A s \in steady' : session'[s] = "live" => session[s] = "live"
    BY <1>0, <2>1 DEF Orderly, Outside, SteadyBlocked, TypeOK
  <2> QED BY <1>0, <2>1, <2>2, OutsideKept, InsideKept
<1>1. ASSUME NEW s \in Sessions, OpenVPN(s) PROVE Outside' /\ Inside'
  <2>1. Shrinks /\ Orderly
    BY <1>1 DEF OpenVPN, Connect, Admit, Transfer, Leave, Close, Shrinks, Orderly, TypeOK
  <2> QED BY <1>0, <1>1, <2>1 DEF OpenVPN, Connect, Admit, Transfer, Leave
<1>2. ASSUME NEW s \in Sessions, Hook(s) PROVE Outside' /\ Inside'
  <2>1. Shrinks
    BY <1>2 DEF Hook, HookCheck, HookRefuses, HookFinal, HookFinalLost, HookFinalSlow,
                HookFinalLate, Shrinks
  <2>2. Orderly
    <3>1. CASE HookCheck(s)
      <4>1. clients' = clients /\ now' = now
        BY <3>1 DEF HookCheck
      <4>2. session' = [session EXCEPT ![s] =
                          IF Allowed(OwnerOf[s]) /\ okAge < Fresh THEN "admitted" ELSE "gone"]
            /\ session[s] = "connecting"
        BY <3>1 DEF HookCheck
      <4> QED BY <4>1, <4>2, SameAnswer DEF Orderly, TypeOK
    <3>2. CASE ~HookCheck(s)
      BY <1>2, <3>2 DEF Hook, HookRefuses, HookFinal, HookFinalLost, HookFinalSlow,
                        HookFinalLate, Orderly, TypeOK
    <3> QED BY <3>1, <3>2
  <2> QED BY <1>0, <1>2, <2>1, <2>2 DEF Hook, HookCheck, HookRefuses, HookFinal, HookFinalLost,
                                        HookFinalSlow, HookFinalLate
<1>3. CASE Poll
  <2>1. Outside'
    BY <1>3, SameAnswer DEF Poll, Outside, OutBlocked, StaysOut, SteadyBlocked, TypeOK
  <2>2. Inside'
    BY <1>3 DEF Poll, Inside, InRound, CutInRound
  <2> QED BY <2>1, <2>2
<1>4. ASSUME NEW s \in Sessions, AccountRow(s) PROVE Outside' /\ Inside'
  <2>1. Shrinks /\ Orderly /\ steady' \subseteq steady
    BY <1>4 DEF AccountRow, Shrinks, Orderly, StillBlocked
  <2>2. Inside'
    BY <1>4, <2>1 DEF AccountRow, MonitorAt, Inside, InRound, CutInRound
  <2> QED BY <2>1, <2>2, OutsideKept
<1>5. CASE Publish
  <2>1. Shrinks /\ Orderly
    BY <1>5 DEF Publish, Shrinks, Orderly
  <2>2. Inside'
    BY <1>5 DEF Publish, MonitorAt, Inside, InRound, CutInRound
  <2> QED BY <2>1, <2>2, OutsideKept
<1>6. ASSUME NEW s \in Sessions, Judge(s) PROVE Outside' /\ Inside'
  <2>1. Shrinks /\ Orderly
    BY <1>6 DEF Judge, Shrinks, Orderly
  <2>2. Inside'
    BY <1>6 DEF Judge, MonitorAt, Inside, InRound, CutInRound, Outside, SteadyBlocked
  <2> QED BY <2>1, <2>2, OutsideKept
<1>7. ASSUME NEW n \in Names, MonitorKill(n) PROVE Outside' /\ Inside'
  <2>1. /\ Outside' /\ steady' = steady
        /\ \A s \in Sessions : OwnerOf[s] = n => session'[s] # "live"
        /\ \A s \in Sessions : session'[s] = "live" => session[s] = "live"
    BY <1>7, DisconnectKept DEF MonitorKill
  <2>2. Inside'
    BY <1>7, <2>1 DEF MonitorKill, MonitorAt, Inside, InRound, CutInRound, TypeOK
  <2> QED BY <2>1, <2>2
<1>8. CASE EndRound
  <2>1. Shrinks /\ Orderly
    BY <1>8 DEF EndRound, Shrinks, Orderly
  <2>2. Inside'
    BY <1>8 DEF EndRound, MonitorAt, Inside, InRound, CutInRound
  <2> QED BY <2>1, <2>2, OutsideKept
<1>9. CASE RoundFails \/ WatchdogStops \/ WatchdogStopFails
  <2>1. Shrinks /\ Orderly
    BY <1>9 DEF RoundFails, WatchdogStops, WatchdogStopFails, StopVpn, Shrinks, Orderly, TypeOK
  <2>2. pc' = "sleep" /\ round' # "ok"
    BY <1>9 DEF RoundFails, WatchdogStops, WatchdogStopFails, Fail
  <2> QED BY <2>1, <2>2, OutsideKept DEF Inside, InRound, CutInRound
<1>10. CASE Wake
  <2>1. Shrinks /\ Orderly
    BY <1>10 DEF Wake, Shrinks, Orderly
  <2> QED BY <1>10, <2>1, OutsideKept DEF Wake, Inside, InRound, CutInRound
<1>11. CASE AdminKill
  <2>1. /\ Outside' /\ steady' = steady /\ UNCHANGED monitor /\ round' = round
        /\ \A s \in Sessions : session'[s] = "live" => session[s] = "live"
    BY <1>11, DisconnectKept DEF AdminKill, Disconnect, TypeOK
  <2> QED BY <2>1, InsideKept DEF TypeOK
<1>12. CASE AdminJudge \/ AdminKillFails \/ AdminRestart
  <2>1. Shrinks /\ Orderly
    BY <1>12 DEF AdminJudge, AdminKillFails, AdminRestart, StopVpn, Shrinks, Orderly, TypeOK
  <2> QED BY <1>0, <1>12, <2>1 DEF AdminJudge, AdminKillFails, AdminRestart
<1>13. ASSUME NEW n \in Names, AdminUpdate(n) \/ AdminReset(n) \/ AdminKillRequest(n)
       PROVE  Outside' /\ Inside'
  <2>1. Shrinks /\ Orderly
    BY <1>13 DEF AdminUpdate, AdminReset, AdminKillRequest, Shrinks, Orderly
  <2> QED BY <1>0, <1>13, <2>1 DEF AdminUpdate, AdminReset, AdminKillRequest
<1>14. CASE VpnCrash \/ VpnStart \/ AgentStart
  <2>1. Shrinks /\ Orderly
    BY <1>14 DEF VpnCrash, VpnStart, AgentStart, Shrinks, Orderly, TypeOK
  <2> QED BY <1>0, <1>14, <2>1 DEF VpnCrash, VpnStart, AgentStart
<1>15. CASE AgentCrash
  <2>1. Shrinks /\ Orderly
    BY <1>15 DEF AgentCrash, StopVpn, Shrinks, Orderly, TypeOK
  <2> QED BY <1>15, <2>1, OutsideKept DEF AgentCrash, Inside, InRound, CutInRound
<1>16. CASE PassTime \/ UNCHANGED vars
  <2>1. Shrinks /\ Orderly
    BY <1>16 DEF PassTime, vars, Shrinks, Orderly
  <2> QED BY <1>0, <1>16, <2>1 DEF PassTime, vars
<1> QED BY <1>1, <1>2, <1>3, <1>4, <1>5, <1>6, <1>7, <1>8, <1>9, <1>10, <1>11, <1>12, <1>13,
           <1>14, <1>15, <1>16 DEF Next, Monitor, Admin, Systemd

(* A round without a failure ends the sessions it found live of every      *)
(* client blocked then and ever since (agent.py 218-224).                  *)
THEOREM CutInRoundHolds == Spec => []CutInRound
<1>1. Inside => CutInRound
  BY DEF Inside
<1> QED BY InitialTypes, TypeStep, InitialCut, CutStep, <1>1, PTL DEF Spec

(* A client disconnected while blocked has no session until it is allowed  *)
(* again, connect scripts in progress included (agent.py 109-121, 185).    *)
THEOREM StaysOutHolds == Spec => []StaysOut
<1>1. Outside => StaysOut
  BY DEF Outside
<1> QED BY InitialTypes, TypeStep, InitialCut, CutStep, <1>1, PTL DEF Spec
=============================================================================
