---------------------------- MODULE BackupProofs ----------------------------
(***************************************************************************)
(* Theorems about Backup, for any number of runs, about Services, and      *)
(* about Operations, for any number of forms and names.                    *)
(***************************************************************************)
EXTENDS Commands, TLAPS

(* A run about to publish has a whole and genuine file.                    *)
Ready == \A r \in Runs : pc[r] = "link" => file[r] = "whole" /\ genuine[r]

(* The run whose file is published has no step left that would change it.  *)
Published ==
  /\ \A r \in Runs : pc[r] = "unlink" => target = r
  /\ target # NoRun => pc[target] \in {"idle", "unlink", "clean"}

(* The partial file is that of a run under way, unless one was killed.     *)
Owned == ~broken => partial = NoRun \/ pc[partial] \in Writing

IInv == TypeOK /\ Ready /\ Published /\ Owned /\ OwnPartial /\ PublishedWhole

(* At first there is no file and no run under way.                         *)
LEMMA InitialInvariant == Init => IInv
BY BackupAssumption
   DEF Init, IInv, TypeOK, Ready, Published, Owned, OwnPartial, PublishedWhole, Writing

(* Each step keeps the invariant: a partial file has one owner, so what a  *)
(* run removes or publishes is its own.                                    *)
LEMMA InvariantStep == IInv /\ [Next]_vars => IInv'
<1> SUFFICES ASSUME IInv, [Next]_vars PROVE IInv'
  OBVIOUS
<1> USE BackupAssumption
    DEF IInv, TypeOK, Ready, Published, Owned, OwnPartial, PublishedWhole, Writing, Go, Finish
<1>1. ASSUME NEW r \in Runs, Refuse(r) PROVE IInv'
  BY <1>1 DEF Refuse
<1>2. ASSUME NEW r \in Runs, Start(r) PROVE IInv'
  BY <1>2 DEF Start
<1>3. ASSUME NEW r \in Runs, Create(r) PROVE IInv'
  BY <1>3 DEF Create
<1>4. ASSUME NEW r \in Runs, CreateFails(r) PROVE IInv'
  BY <1>4 DEF CreateFails
<1>5. ASSUME NEW r \in Runs, Write(r) PROVE IInv'
  BY <1>5 DEF Write
<1>6. ASSUME NEW r \in Runs, Seal(r) PROVE IInv'
  BY <1>6 DEF Seal
<1>7. ASSUME NEW r \in Runs, Link(r) PROVE IInv'
  BY <1>7 DEF Link
<1>8. ASSUME NEW r \in Runs, Unlink(r) PROVE IInv'
  BY <1>8 DEF Unlink
<1>9. ASSUME NEW r \in Runs, Fail(r) PROVE IInv'
  BY <1>9 DEF Fail
<1>10. ASSUME NEW r \in Runs, Clean(r) PROVE IInv'
  BY <1>10 DEF Clean
<1>11. ASSUME NEW r \in Runs, Kill(r) PROVE IInv'
  BY <1>11 DEF Kill
<1>12. CASE Tidy
  BY <1>12 DEF Tidy
<1>13. CASE UNCHANGED vars
  BY <1>13 DEF vars
<1> QED BY <1>1, <1>2, <1>3, <1>4, <1>5, <1>6, <1>7, <1>8, <1>9, <1>10, <1>11, <1>12, <1>13
        DEF Next, Transform

(* The invariant holds in every state.                                     *)
LEMMA Invariant == Spec => []IInv
BY InitialInvariant, InvariantStep, PTL DEF Spec

(* Directory, files and runs always have their types.                      *)
THEOREM TypeCorrect == Spec => []TypeOK
<1>1. IInv => TypeOK
  BY DEF IInv
<1> QED BY <1>1, Invariant, PTL

(* What is published is one run's whole, authenticated output              *)
(* (backup_crypto.py 41-53).                                               *)
THEOREM PublishedWholeHolds == Spec => []PublishedWhole
<1>1. IInv => PublishedWhole
  BY DEF IInv
<1> QED BY <1>1, Invariant, PTL

(* No run removes or takes over another's partial file (20, 52-56).        *)
THEOREM OwnPartialHolds == Spec => []OwnPartial
<1>1. IInv => OwnPartial
  BY DEF IInv
<1> QED BY <1>1, Invariant, PTL

(* Runs that were not killed leave no partial file (54-57).                *)
THEOREM NothingLeftHolds == Spec => []NothingLeft
<1>1. IInv => NothingLeft
  BY DEF IInv, TypeOK, Owned, NothingLeft, Writing
<1> QED BY <1>1, Invariant, PTL

(* What was published is never replaced (51-52).                           *)
THEOREM NeverReplacedHolds == Spec => NeverReplaced
<1>1. [Next]_vars => (target # NoRun => target' = target)
  BY DEF Next, Transform, Refuse, Start, Create, CreateFails, Write, Seal, Link, Unlink, Fail,
         Clean, Kill, Tidy, vars
<1>2. [Next]_vars => [target # NoRun => target' = target]_vars
  BY <1>1
<1> QED BY <1>2, PTL DEF Spec, NeverReplaced

-----------------------------------------------------------------------------
(***************************************************************************)
(* The scripts that install, back up and upgrade (Services), for every     *)
(* patience of the watchdog, with and without faults of systemd.           *)
(***************************************************************************)
(* What is on disk and loaded: nothing of the panel, or all of it; and the *)
(* agent stopped, with nobody who could start it or have it do something.  *)
Plain == conf = "plain" /\ ~dropin /\ ~bound
Installed == conf = "panel" /\ dropin /\ bound
Quiet == agent = "off" /\ ~web /\ ~asked

(* Which of these holds at which step of the scripts; some of it only if   *)
(* no rollback has failed.                                                 *)
Whole == restored # "partly"
FilesOf ==
  /\ ~env \/ script \in {"i env", "i owner", "i conf"} => Plain /\ Quiet
  /\ ~env => script \in {"none", "i env"}
  /\ script \in {"i env", "i owner", "i conf"} => vpn = "on"
  /\ script = "i units" => conf = "panel" /\ ~dropin /\ ~bound /\ Quiet
  /\ script = "i reload" => conf = "panel" /\ dropin /\ ~bound /\ Quiet
  /\ script \in {"i agent", "i socket", "i vpn", "i web", "i health"} => Installed
  /\ script = "r dropin" => conf = "plain"
  /\ script = "r reload" => conf = "plain" /\ ~dropin
  /\ script \in {"r vpn", "r end"} => Plain
  /\ Whole =>
       /\ script \in {"none", "b web", "b vpn", "b agent", "b tar", "c agent", "c vpn", "c web"}
            => Plain \/ Installed
       /\ script \in {"b encrypt", "u web", "u vpn", "u agent", "u copy", "u start", "u socket", "u up", "u panel"}
            => Installed
       /\ script \in {"c agent", "c vpn", "c web"} /\ caller = "upgrade" => Installed

(* What is stopped at which step, and after which failure.                 *)
StoppedAt ==
  /\ script \in {"b tar", "b encrypt", "u copy", "u start"} => Quiet /\ (bound => vpn = "off")
  /\ script \in {"u vpn", "u agent", "u socket", "u up", "u panel"} => ~web
  /\ Whole /\ script \in {"r conf", "r dropin", "r reload", "r vpn", "r end"} => Quiet /\ (bound => vpn = "off")
  /\ Whole /\ script = "r end" => vpn # "off" /\ running = "plain"
  /\ restored = "yes" => script = "none" /\ env /\ Quiet /\ ~bound /\ vpn # "off" /\ running = "plain"
  /\ halted # "no" => script = "none" /\ env
  /\ halted \notin {"no", "u web"} => ~web
  /\ halted \in {"u copy", "u start"} => Quiet /\ (bound \/ Whole => vpn = "off")

(* BindsTo is loaded whenever the panel's configuration runs or could be   *)
(* asked for, and then the agent runs.                                     *)
BoundWhenNeeded ==
  /\ asked => agent = "on"
  /\ Whole => conf = "plain" \/ bound \/ (Quiet /\ vpn = "on")
  /\ Whole /\ vpn \in {"starting", "on"} /\ running = "panel" => bound /\ agent = "on"

HostParts == FilesOf /\ StoppedAt /\ BoundWhenNeeded

\* Every step of the scripts, systemd and the agent keeps the types.
LEMMA HostTypes == Limit \in Nat /\ H!TypeOK /\ [H!Next]_H!vars => H!TypeOK'
<1> SUFFICES ASSUME Limit \in Nat, H!TypeOK, [H!Next]_H!vars PROVE H!TypeOK'
  OBVIOUS
<1>0. 0 \in 0..Limit /\ (age < Limit => age + 1 \in 0..Limit)
  <2>1. age \in 0..Limit
    BY Zenon DEF H!TypeOK
  <2> QED BY <2>1
<1> DEFINE Step == script \in H!Scripts
            Age == age \in 0..Limit
            Kinds == /\ agent \in {"off", "on", "crashed"} /\ vpn \in {"off", "starting", "on", "failed"}
                     /\ running \in {"plain", "panel"} /\ conf \in {"plain", "panel"}
                     /\ caller \in {"admin", "upgrade"}
            Marks == /\ restored \in {"no", "yes", "partly"}
                     /\ halted \in {"no", "u web", "u vpn", "u agent", "u copy", "u start", "u up", "u panel"}
            Switches == /\ web \in BOOLEAN /\ asked \in BOOLEAN /\ dropin \in BOOLEAN /\ bound \in BOOLEAN
                        /\ units \in BOOLEAN /\ env \in BOOLEAN
                        /\ complete \in BOOLEAN
<1>a. Step /\ Age /\ Kinds /\ Marks /\ Switches
  BY DEF H!TypeOK
<1>b. Step' /\ Age' /\ Kinds' /\ Marks' /\ Switches' => H!TypeOK'
  BY DEF H!TypeOK
<1> USE <1>a DEF H!Step, H!units_, H!files, H!history, H!Ended, H!Started, H!Acted
<1>1. CASE H!Install
  <2>1. Step'
    BY <1>1 DEF H!Install, H!InstallStart, H!WriteEnv, H!CreateOwner, H!EditConf, H!WriteUnits,
           H!InstallReload, H!InstallAgent, H!InstallSocket, H!InstallVpn, H!InstallWeb,
           H!InstallDone, H!InstallExits, H!InstallFails, H!StopVpn, H!StartAgent, H!RestartVpn,
           H!StartWeb, H!Scripts
  <2>2. Age'
    BY <1>0, <1>1 DEF H!Install, H!InstallStart, H!WriteEnv, H!CreateOwner, H!EditConf,
           H!WriteUnits, H!InstallReload, H!InstallAgent, H!InstallSocket, H!InstallVpn,
           H!InstallWeb, H!InstallDone, H!InstallExits, H!InstallFails, H!StopVpn, H!StartAgent,
           H!RestartVpn, H!StartWeb
  <2>3. Kinds'
    BY <1>1 DEF H!Install, H!InstallStart, H!WriteEnv, H!CreateOwner, H!EditConf, H!WriteUnits,
           H!InstallReload, H!InstallAgent, H!InstallSocket, H!InstallVpn, H!InstallWeb,
           H!InstallDone, H!InstallExits, H!InstallFails, H!StopVpn, H!StartAgent, H!RestartVpn,
           H!StartWeb
  <2>5. Marks'
    BY <1>1 DEF H!Install, H!InstallStart, H!WriteEnv, H!CreateOwner, H!EditConf, H!WriteUnits,
           H!InstallReload, H!InstallAgent, H!InstallSocket, H!InstallVpn, H!InstallWeb,
           H!InstallDone, H!InstallExits, H!InstallFails, H!StopVpn, H!StartAgent, H!RestartVpn,
           H!StartWeb
  <2>4. Switches'
    <3>1. web' \in BOOLEAN /\ asked' \in BOOLEAN
      BY <1>1 DEF H!Install, H!InstallStart, H!WriteEnv, H!CreateOwner, H!EditConf, H!WriteUnits,
             H!InstallReload, H!InstallAgent, H!InstallSocket, H!InstallVpn, H!InstallWeb, H!InstallDone,
             H!InstallExits, H!InstallFails, H!StopVpn, H!StartAgent, H!RestartVpn, H!StartWeb
    <3>2. dropin' \in BOOLEAN /\ bound' \in BOOLEAN /\ units' \in BOOLEAN /\ env' \in BOOLEAN
      BY <1>1 DEF H!Install, H!InstallStart, H!WriteEnv, H!CreateOwner, H!EditConf, H!WriteUnits,
             H!InstallReload, H!InstallAgent, H!InstallSocket, H!InstallVpn, H!InstallWeb, H!InstallDone,
             H!InstallExits, H!InstallFails, H!StopVpn, H!StartAgent, H!RestartVpn, H!StartWeb
    <3>3. complete' \in BOOLEAN
      BY <1>1 DEF H!Install, H!InstallStart, H!WriteEnv, H!CreateOwner, H!EditConf, H!WriteUnits,
             H!InstallReload, H!InstallAgent, H!InstallSocket, H!InstallVpn, H!InstallWeb, H!InstallDone,
             H!InstallExits, H!InstallFails, H!StopVpn, H!StartAgent, H!RestartVpn, H!StartWeb
    <3> QED BY <3>1, <3>2, <3>3
  <2> QED BY <1>b, <2>1, <2>2, <2>3, <2>4, <2>5
<1>2. CASE H!Rollback
  <2>1. Step'
    BY <1>2 DEF H!Rollback, H!RollbackStop, H!RollbackStopFails, H!RollbackFails, H!RollbackConf, H!RollbackDropin, H!RollbackReload,
           H!RollbackVpn, H!RollbackEnd, H!StopWeb, H!StopAgent, H!RestartVpn, H!Scripts
  <2>2. Age'
    BY <1>0, <1>2 DEF H!Rollback, H!RollbackStop, H!RollbackStopFails, H!RollbackFails, H!RollbackConf, H!RollbackDropin,
           H!RollbackReload, H!RollbackVpn, H!RollbackEnd, H!StopWeb, H!StopAgent, H!RestartVpn
  <2>3. Kinds'
    BY <1>2 DEF H!Rollback, H!RollbackStop, H!RollbackStopFails, H!RollbackFails, H!RollbackConf, H!RollbackDropin, H!RollbackReload,
           H!RollbackVpn, H!RollbackEnd, H!StopWeb, H!StopAgent, H!RestartVpn
  <2>5. Marks'
    BY <1>2 DEF H!Rollback, H!RollbackStop, H!RollbackStopFails, H!RollbackFails, H!RollbackConf, H!RollbackDropin, H!RollbackReload,
           H!RollbackVpn, H!RollbackEnd, H!StopWeb, H!StopAgent, H!RestartVpn
  <2>4. Switches'
    BY ZenonT(60), <1>2 DEF H!Rollback, H!RollbackStop, H!RollbackStopFails, H!RollbackFails, H!RollbackConf, H!RollbackDropin, H!RollbackReload,
           H!RollbackVpn, H!RollbackEnd, H!StopWeb, H!StopAgent, H!RestartVpn
  <2> QED BY <1>b, <2>1, <2>2, <2>3, <2>4, <2>5
<1>3. CASE H!Backup
  <2>1. Step'
    BY <1>3 DEF H!Backup, H!BackupWeb, H!BackupVpn, H!BackupAgent, H!BackupTar, H!BackupEncrypt,
           H!BackupFails, H!ResumeAgent, H!ResumeEnds, H!ResumeVpn, H!ResumeWeb, H!StopWeb,
           H!StopVpn, H!StopAgent, H!StartAgent, H!RestartVpn, H!StartWeb, H!Scripts
  <2>2. Age'
    BY <1>0, <1>3 DEF H!Backup, H!BackupWeb, H!BackupVpn, H!BackupAgent, H!BackupTar,
           H!BackupEncrypt, H!BackupFails, H!ResumeAgent, H!ResumeEnds, H!ResumeVpn, H!ResumeWeb,
           H!StopWeb, H!StopVpn, H!StopAgent, H!StartAgent, H!RestartVpn, H!StartWeb
  <2>3. Kinds'
    BY <1>3 DEF H!Backup, H!BackupWeb, H!BackupVpn, H!BackupAgent, H!BackupTar, H!BackupEncrypt,
           H!BackupFails, H!ResumeAgent, H!ResumeEnds, H!ResumeVpn, H!ResumeWeb, H!StopWeb,
           H!StopVpn, H!StopAgent, H!StartAgent, H!RestartVpn, H!StartWeb
  <2>5. Marks'
    BY <1>3 DEF H!Backup, H!BackupWeb, H!BackupVpn, H!BackupAgent, H!BackupTar, H!BackupEncrypt,
           H!BackupFails, H!ResumeAgent, H!ResumeEnds, H!ResumeVpn, H!ResumeWeb, H!StopWeb,
           H!StopVpn, H!StopAgent, H!StartAgent, H!RestartVpn, H!StartWeb
  <2>4. Switches'
    BY ZenonT(60), <1>3 DEF H!Backup, H!BackupWeb, H!BackupVpn, H!BackupAgent, H!BackupTar, H!BackupEncrypt,
           H!BackupFails, H!ResumeAgent, H!ResumeEnds, H!ResumeVpn, H!ResumeWeb, H!StopWeb,
           H!StopVpn, H!StopAgent, H!StartAgent, H!RestartVpn, H!StartWeb
  <2> QED BY <1>b, <2>1, <2>2, <2>3, <2>4, <2>5
<1>4. CASE H!Upgrade
  <2>1. Step'
    BY <1>4 DEF H!Upgrade, H!UpgradeWeb, H!UpgradeVpn, H!UpgradeAgent, H!UpgradeCopy,
           H!UpgradeFails, H!UpgradeStart, H!UpgradeSocket, H!UpgradeUp, H!UpgradePanel, H!StopWeb,
           H!StopVpn, H!StopAgent, H!StartAgent, H!RestartVpn, H!StartWeb, H!Scripts
  <2>2. Age'
    BY <1>0, <1>4 DEF H!Upgrade, H!UpgradeWeb, H!UpgradeVpn, H!UpgradeAgent, H!UpgradeCopy,
           H!UpgradeFails, H!UpgradeStart, H!UpgradeSocket, H!UpgradeUp, H!UpgradePanel, H!StopWeb,
           H!StopVpn, H!StopAgent, H!StartAgent, H!RestartVpn, H!StartWeb
  <2>3. Kinds'
    BY <1>4 DEF H!Upgrade, H!UpgradeWeb, H!UpgradeVpn, H!UpgradeAgent, H!UpgradeCopy,
           H!UpgradeFails, H!UpgradeStart, H!UpgradeSocket, H!UpgradeUp, H!UpgradePanel, H!StopWeb,
           H!StopVpn, H!StopAgent, H!StartAgent, H!RestartVpn, H!StartWeb
  <2>5. Marks'
    BY <1>4 DEF H!Upgrade, H!UpgradeWeb, H!UpgradeVpn, H!UpgradeAgent, H!UpgradeCopy,
           H!UpgradeFails, H!UpgradeStart, H!UpgradeSocket, H!UpgradeUp, H!UpgradePanel, H!StopWeb,
           H!StopVpn, H!StopAgent, H!StartAgent, H!RestartVpn, H!StartWeb
  <2>4. Switches'
    BY ZenonT(60), <1>4 DEF H!Upgrade, H!UpgradeWeb, H!UpgradeVpn, H!UpgradeAgent, H!UpgradeCopy,
           H!UpgradeFails, H!UpgradeStart, H!UpgradeSocket, H!UpgradeUp, H!UpgradePanel, H!StopWeb,
           H!StopVpn, H!StopAgent, H!StartAgent, H!RestartVpn, H!StartWeb
  <2> QED BY <1>b, <2>1, <2>2, <2>3, <2>4, <2>5
<1>5. ASSUME NEW who \in {"admin", "upgrade"}, H!BackupStart(who) PROVE H!TypeOK'
  <2>1. Step'
    BY <1>5 DEF H!BackupStart, H!Scripts
  <2>2. Age'
    BY <1>0, <1>5 DEF H!BackupStart
  <2>3. Kinds'
    BY <1>5 DEF H!BackupStart
  <2>5. Marks'
    BY <1>5 DEF H!BackupStart
  <2>4. Switches'
    BY ZenonT(60), <1>5 DEF H!BackupStart
  <2> QED BY <1>b, <2>1, <2>2, <2>3, <2>4, <2>5
<1>6. CASE H!VpnUp
  <2>1. Step'
    BY <1>6 DEF H!VpnUp, H!Scripts
  <2>2. Age'
    BY <1>0, <1>6 DEF H!VpnUp
  <2>3. Kinds'
    BY <1>6 DEF H!VpnUp
  <2>5. Marks'
    BY <1>6 DEF H!VpnUp
  <2>4. Switches'
    BY ZenonT(60), <1>6 DEF H!VpnUp
  <2> QED BY <1>b, <2>1, <2>2, <2>3, <2>4, <2>5
<1>7. CASE H!Tick
  <2>1. Step'
    BY <1>7 DEF H!Tick, H!Monitored, H!Waits, H!Scripts
  <2>2. Age'
    BY <1>0, <1>7 DEF H!Tick, H!Monitored, H!Waits
  <2>3. Kinds'
    BY <1>7 DEF H!Tick, H!Monitored, H!Waits
  <2>5. Marks'
    BY <1>7 DEF H!Tick, H!Monitored, H!Waits
  <2>4. Switches'
    BY ZenonT(60), <1>7 DEF H!Tick, H!Monitored, H!Waits
  <2> QED BY <1>b, <2>1, <2>2, <2>3, <2>4, <2>5
<1>8. CASE H!Watchdog
  <2>1. Step'
    BY <1>8 DEF H!Watchdog, H!Monitored, H!Scripts
  <2>2. Age'
    BY <1>0, <1>8 DEF H!Watchdog, H!Monitored
  <2>3. Kinds'
    BY <1>8 DEF H!Watchdog, H!Monitored
  <2>5. Marks'
    BY <1>8 DEF H!Watchdog, H!Monitored
  <2>4. Switches'
    BY ZenonT(60), <1>8 DEF H!Watchdog, H!Monitored
  <2> QED BY <1>b, <2>1, <2>2, <2>3, <2>4, <2>5
<1>9. CASE H!AgentCrash
  <2>1. Step'
    BY <1>9 DEF H!AgentCrash, H!Scripts
  <2>2. Age'
    BY <1>0, <1>9 DEF H!AgentCrash
  <2>3. Kinds'
    BY <1>9 DEF H!AgentCrash
  <2>5. Marks'
    BY <1>9 DEF H!AgentCrash
  <2>4. Switches'
    BY ZenonT(60), <1>9 DEF H!AgentCrash
  <2> QED BY <1>b, <2>1, <2>2, <2>3, <2>4, <2>5
<1>10. CASE H!AgentRestart
  <2>1. Step'
    BY <1>10 DEF H!AgentRestart, H!StartAgent, H!Scripts
  <2>2. Age'
    BY <1>0, <1>10 DEF H!AgentRestart, H!StartAgent
  <2>3. Kinds'
    BY <1>10 DEF H!AgentRestart, H!StartAgent
  <2>5. Marks'
    BY <1>10 DEF H!AgentRestart, H!StartAgent
  <2>4. Switches'
    BY ZenonT(60), <1>10 DEF H!AgentRestart, H!StartAgent
  <2> QED BY <1>b, <2>1, <2>2, <2>3, <2>4, <2>5
<1>11. CASE H!AskRestart
  <2>1. Step'
    BY <1>11 DEF H!AskRestart, H!Scripts
  <2>2. Age'
    BY <1>0, <1>11 DEF H!AskRestart
  <2>3. Kinds'
    BY <1>11 DEF H!AskRestart
  <2>5. Marks'
    BY <1>11 DEF H!AskRestart
  <2>4. Switches'
    BY ZenonT(60), <1>11 DEF H!AskRestart
  <2> QED BY <1>b, <2>1, <2>2, <2>3, <2>4, <2>5
<1>12. CASE H!AgentRestartsVpn
  <2>1. Step'
    BY <1>12 DEF H!AgentRestartsVpn, H!Scripts
  <2>2. Age'
    BY <1>0, <1>12 DEF H!AgentRestartsVpn
  <2>3. Kinds'
    BY <1>12 DEF H!AgentRestartsVpn
  <2>5. Marks'
    BY <1>12 DEF H!AgentRestartsVpn
  <2>4. Switches'
    BY ZenonT(60), <1>12 DEF H!AgentRestartsVpn
  <2> QED BY <1>b, <2>1, <2>2, <2>3, <2>4, <2>5
<1>13. CASE H!AdminStarts
  <2>1. Step'
    BY <1>13 DEF H!AdminStarts, H!RestartVpn, H!Scripts
  <2>2. Age'
    BY <1>0, <1>13 DEF H!AdminStarts, H!RestartVpn
  <2>3. Kinds'
    BY <1>13 DEF H!AdminStarts, H!RestartVpn
  <2>5. Marks'
    BY <1>13 DEF H!AdminStarts, H!RestartVpn
  <2>4. Switches'
    BY ZenonT(60), <1>13 DEF H!AdminStarts, H!RestartVpn
  <2> QED BY <1>b, <2>1, <2>2, <2>3, <2>4, <2>5
<1>15. CASE H!VpnFails
  <2>1. Step'
    BY <1>15 DEF H!VpnFails, H!Scripts
  <2>2. Age'
    BY <1>0, <1>15 DEF H!VpnFails
  <2>3. Kinds'
    BY <1>15 DEF H!VpnFails
  <2>5. Marks'
    BY <1>15 DEF H!VpnFails
  <2>4. Switches'
    BY ZenonT(60), <1>15 DEF H!VpnFails
  <2> QED BY <1>b, <2>1, <2>2, <2>3, <2>4, <2>5
<1>16. CASE H!VpnRetry
  <2>1. Step'
    BY <1>16 DEF H!VpnRetry, H!RestartVpn, H!Scripts
  <2>2. Age'
    BY <1>0, <1>16 DEF H!VpnRetry, H!RestartVpn
  <2>3. Kinds'
    BY <1>16 DEF H!VpnRetry, H!RestartVpn
  <2>5. Marks'
    BY <1>16 DEF H!VpnRetry, H!RestartVpn
  <2>4. Switches'
    BY ZenonT(60), <1>16 DEF H!VpnRetry, H!RestartVpn
  <2> QED BY <1>b, <2>1, <2>2, <2>3, <2>4, <2>5
<1>14. CASE UNCHANGED H!vars
  <2>1. Step'
    BY <1>14 DEF H!vars, H!Scripts
  <2>2. Age'
    BY <1>0, <1>14 DEF H!vars
  <2>3. Kinds'
    BY <1>14 DEF H!vars
  <2>5. Marks'
    BY <1>14 DEF H!vars
  <2>4. Switches'
    BY ZenonT(60), <1>14 DEF H!vars
  <2> QED BY <1>b, <2>1, <2>2, <2>3, <2>4, <2>5
<1> QED BY <1>1, <1>2, <1>3, <1>4, <1>5, <1>6, <1>7,
       <1>8, <1>9, <1>10, <1>11, <1>12, <1>13, <1>14, <1>15, <1>16 DEF H!Next

\* Every step keeps what a script at its place knows of files and services.
LEMMA HostStep == H!TypeOK /\ HostParts /\ [H!Next]_H!vars => HostParts'
<1> SUFFICES ASSUME H!TypeOK, HostParts, [H!Next]_H!vars PROVE HostParts'
  OBVIOUS
<1>0. /\ web \in BOOLEAN /\ asked \in BOOLEAN /\ dropin \in BOOLEAN /\ bound \in BOOLEAN
      /\ units \in BOOLEAN /\ env \in BOOLEAN
  BY DEF H!TypeOK
<1> USE <1>0 DEF HostParts, FilesOf, StoppedAt, BoundWhenNeeded, Plain, Installed, Quiet,
                 Whole,
                 H!Step, H!units_, H!files, H!history, H!Ended, H!Started, H!Acted
<1>1. CASE H!Install
  <2>1. CASE H!InstallStart
    <3>1. FilesOf'
      BY <2>1 DEF H!InstallStart
    <3>2. StoppedAt'
      BY <2>1 DEF H!InstallStart
    <3>3. BoundWhenNeeded'
      BY <2>1 DEF H!InstallStart
    <3> QED BY <3>1, <3>2, <3>3
  <2>2. CASE H!WriteEnv
    <3>1. FilesOf'
      BY <2>2 DEF H!WriteEnv
    <3>2. StoppedAt'
      BY <2>2 DEF H!WriteEnv
    <3>3. BoundWhenNeeded'
      BY <2>2 DEF H!WriteEnv
    <3> QED BY <3>1, <3>2, <3>3
  <2>3. CASE H!CreateOwner
    <3>1. FilesOf'
      BY <2>3 DEF H!CreateOwner
    <3>2. StoppedAt'
      BY <2>3 DEF H!CreateOwner
    <3>3. BoundWhenNeeded'
      BY <2>3 DEF H!CreateOwner
    <3> QED BY <3>1, <3>2, <3>3
  <2>4. CASE H!EditConf
    <3>1. FilesOf'
      BY <2>4 DEF H!EditConf
    <3>2. StoppedAt'
      BY <2>4 DEF H!EditConf
    <3>3. BoundWhenNeeded'
      BY <2>4 DEF H!EditConf
    <3> QED BY <3>1, <3>2, <3>3
  <2>5. CASE H!WriteUnits
    <3>1. FilesOf'
      BY <2>5 DEF H!WriteUnits
    <3>2. StoppedAt'
      BY <2>5 DEF H!WriteUnits
    <3>3. BoundWhenNeeded'
      BY <2>5 DEF H!WriteUnits
    <3> QED BY <3>1, <3>2, <3>3
  <2>6. CASE H!InstallReload
    <3>1. FilesOf'
      BY <2>6 DEF H!InstallReload, H!StopVpn
    <3>2. StoppedAt'
      BY <2>6 DEF H!InstallReload, H!StopVpn
    <3>3. BoundWhenNeeded'
      <4>1. script = "i reload" /\ UNCHANGED <<conf, dropin>> /\ bound' = dropin
        BY <2>6 DEF H!InstallReload
      <4>2. Quiet /\ dropin
        BY <4>1
      <4>3. Whole => running # "panel"
        BY <4>1, <4>2
      <4>4. UNCHANGED <<agent, web, running, asked>> /\ (vpn' = vpn \/ vpn' = "off")
        <5>1. CASE UNCHANGED H!units_
          BY <5>1
        <5>2. CASE H!StopVpn
          BY <5>2 DEF H!StopVpn
        <5> QED BY <5>1, <5>2, <2>6 DEF H!InstallReload
      <4>5. Quiet' /\ bound'
        BY <4>1, <4>2, <4>4
      <4>6. restored' = restored
        BY <2>6 DEF H!InstallReload
      <4> QED BY <4>3, <4>4, <4>5, <4>6
    <3> QED BY <3>1, <3>2, <3>3
  <2>7. CASE H!InstallAgent
    <3>1. FilesOf'
      BY <2>7 DEF H!InstallAgent, H!StartAgent
    <3>2. StoppedAt'
      BY <2>7 DEF H!InstallAgent, H!StartAgent
    <3>3. BoundWhenNeeded'
      BY <2>7 DEF H!InstallAgent, H!StartAgent
    <3> QED BY <3>1, <3>2, <3>3
  <2>8. CASE H!InstallSocket
    <3>1. FilesOf'
      BY <2>8 DEF H!InstallSocket
    <3>2. StoppedAt'
      BY <2>8 DEF H!InstallSocket
    <3>3. BoundWhenNeeded'
      BY <2>8 DEF H!InstallSocket
    <3> QED BY <3>1, <3>2, <3>3
  <2>9. CASE H!InstallVpn
    <3>1. FilesOf'
      BY <2>9 DEF H!InstallVpn, H!RestartVpn
    <3>2. StoppedAt'
      BY <2>9 DEF H!InstallVpn, H!RestartVpn
    <3>3. BoundWhenNeeded'
      BY <2>9 DEF H!InstallVpn, H!RestartVpn
    <3> QED BY <3>1, <3>2, <3>3
  <2>10. CASE H!InstallWeb
    <3>1. FilesOf'
      BY <2>10 DEF H!InstallWeb, H!StartWeb
    <3>2. StoppedAt'
      BY <2>10 DEF H!InstallWeb, H!StartWeb
    <3>3. BoundWhenNeeded'
      BY <2>10 DEF H!InstallWeb, H!StartWeb
    <3> QED BY <3>1, <3>2, <3>3
  <2>11. CASE H!InstallDone
    <3>1. FilesOf'
      BY <2>11 DEF H!InstallDone
    <3>2. StoppedAt'
      BY <2>11 DEF H!InstallDone
    <3>3. BoundWhenNeeded'
      BY <2>11 DEF H!InstallDone
    <3> QED BY <3>1, <3>2, <3>3
  <2>12. CASE H!InstallExits
    <3>1. FilesOf'
      BY <2>12 DEF H!InstallExits
    <3>2. StoppedAt'
      BY <2>12 DEF H!InstallExits
    <3>3. BoundWhenNeeded'
      BY <2>12 DEF H!InstallExits
    <3> QED BY <3>1, <3>2, <3>3
  <2>13. CASE H!InstallFails
    <3>1. FilesOf'
      BY <2>13 DEF H!InstallFails
    <3>2. StoppedAt'
      BY <2>13 DEF H!InstallFails
    <3>3. BoundWhenNeeded'
      BY <2>13 DEF H!InstallFails
    <3> QED BY <3>1, <3>2, <3>3
  <2> QED BY <1>1, <2>1, <2>2, <2>3, <2>4, <2>5, <2>6, <2>7, <2>8, <2>9, <2>10, <2>11, <2>12, <2>13
          DEF H!Install
<1>2. CASE H!Rollback
  <2>1. CASE H!RollbackStop
    <3>1. FilesOf'
      BY <2>1 DEF H!RollbackStop, H!StopAgent
    <3>2. StoppedAt'
      BY <2>1 DEF H!RollbackStop, H!StopAgent
    <3>3. BoundWhenNeeded'
      BY <2>1 DEF H!RollbackStop, H!StopAgent
    <3> QED BY <3>1, <3>2, <3>3
  <2>2. CASE H!RollbackConf
    <3>1. FilesOf'
      BY <2>2 DEF H!RollbackConf
    <3>2. StoppedAt'
      BY <2>2 DEF H!RollbackConf
    <3>3. BoundWhenNeeded'
      BY <2>2 DEF H!RollbackConf
    <3> QED BY <3>1, <3>2, <3>3
  <2>3. CASE H!RollbackDropin
    <3>1. FilesOf'
      BY <2>3 DEF H!RollbackDropin
    <3>2. StoppedAt'
      BY <2>3 DEF H!RollbackDropin
    <3>3. BoundWhenNeeded'
      BY <2>3 DEF H!RollbackDropin
    <3> QED BY <3>1, <3>2, <3>3
  <2>4. CASE H!RollbackReload
    <3>1. FilesOf'
      BY <2>4 DEF H!RollbackReload
    <3>2. StoppedAt'
      BY <2>4 DEF H!RollbackReload
    <3>3. BoundWhenNeeded'
      BY <2>4 DEF H!RollbackReload
    <3> QED BY <3>1, <3>2, <3>3
  <2>5. CASE H!RollbackVpn
    <3>1. FilesOf'
      BY <2>5 DEF H!RollbackVpn, H!RestartVpn
    <3>2. StoppedAt'
      BY <2>5 DEF H!RollbackVpn, H!RestartVpn
    <3>3. BoundWhenNeeded'
      BY <2>5 DEF H!RollbackVpn, H!RestartVpn
    <3> QED BY <3>1, <3>2, <3>3
  <2>6. CASE H!RollbackEnd
    <3>1. FilesOf'
      BY <2>6 DEF H!RollbackEnd
    <3>2. StoppedAt'
      BY <2>6 DEF H!RollbackEnd
    <3>3. BoundWhenNeeded'
      BY <2>6 DEF H!RollbackEnd
    <3> QED BY <3>1, <3>2, <3>3
  <2>7. CASE H!RollbackStopFails
    <3>1. FilesOf'
      BY <2>7 DEF H!RollbackStopFails, H!StopWeb, H!StopAgent
    <3>2. StoppedAt'
      BY <2>7 DEF H!RollbackStopFails, H!StopWeb, H!StopAgent
    <3>3. BoundWhenNeeded'
      <4>1. restored' = "partly"
        BY <2>7 DEF H!RollbackStopFails
      <4>2. asked' => agent' = "on"
        BY <2>7 DEF H!RollbackStopFails, H!StopWeb, H!StopAgent
      <4> QED BY <4>1, <4>2
    <3> QED BY <3>1, <3>2, <3>3
  <2>8. CASE H!RollbackFails
    <3>1. FilesOf'
      BY <2>8 DEF H!RollbackFails
    <3>2. StoppedAt'
      BY <2>8 DEF H!RollbackFails
    <3>3. BoundWhenNeeded'
      BY <2>8 DEF H!RollbackFails
    <3> QED BY <3>1, <3>2, <3>3
  <2> QED BY <1>2, <2>1, <2>2, <2>3, <2>4, <2>5, <2>6, <2>7, <2>8 DEF H!Rollback
<1>3. CASE H!Backup
  <2>1. CASE H!BackupWeb
    <3>1. FilesOf'
      BY <2>1 DEF H!BackupWeb, H!StopWeb
    <3>2. StoppedAt'
      BY <2>1 DEF H!BackupWeb, H!StopWeb
    <3>3. BoundWhenNeeded'
      BY <2>1 DEF H!BackupWeb, H!StopWeb
    <3> QED BY <3>1, <3>2, <3>3
  <2>2. CASE H!BackupVpn
    <3>1. FilesOf'
      BY <2>2 DEF H!BackupVpn, H!StopVpn
    <3>2. StoppedAt'
      BY <2>2 DEF H!BackupVpn, H!StopVpn
    <3>3. BoundWhenNeeded'
      BY <2>2 DEF H!BackupVpn, H!StopVpn
    <3> QED BY <3>1, <3>2, <3>3
  <2>3. CASE H!BackupAgent
    <3>1. FilesOf'
      BY <2>3 DEF H!BackupAgent, H!StopAgent
    <3>2. StoppedAt'
      BY <2>3 DEF H!BackupAgent, H!StopAgent
    <3>3. BoundWhenNeeded'
      BY <2>3 DEF H!BackupAgent, H!StopAgent
    <3> QED BY <3>1, <3>2, <3>3
  <2>4. CASE H!BackupTar
    <3>1. FilesOf'
      BY <2>4 DEF H!BackupTar
    <3>2. StoppedAt'
      BY <2>4 DEF H!BackupTar
    <3>3. BoundWhenNeeded'
      BY <2>4 DEF H!BackupTar
    <3> QED BY <3>1, <3>2, <3>3
  <2>5. CASE H!BackupEncrypt
    <3>1. FilesOf'
      BY <2>5 DEF H!BackupEncrypt
    <3>2. StoppedAt'
      BY <2>5 DEF H!BackupEncrypt
    <3>3. BoundWhenNeeded'
      BY <2>5 DEF H!BackupEncrypt
    <3> QED BY <3>1, <3>2, <3>3
  <2>6. CASE H!BackupFails
    <3>1. FilesOf'
      BY <2>6 DEF H!BackupFails
    <3>2. StoppedAt'
      BY <2>6 DEF H!BackupFails
    <3>3. BoundWhenNeeded'
      BY <2>6 DEF H!BackupFails
    <3> QED BY <3>1, <3>2, <3>3
  <2>7. CASE H!ResumeAgent
    <3>1. FilesOf'
      BY <2>7 DEF H!ResumeAgent, H!StartAgent
    <3>2. StoppedAt'
      BY <2>7 DEF H!ResumeAgent, H!StartAgent
    <3>3. BoundWhenNeeded'
      BY <2>7 DEF H!ResumeAgent, H!StartAgent
    <3> QED BY <3>1, <3>2, <3>3
  <2>8. CASE H!ResumeEnds
    <3>1. FilesOf'
      BY <2>8 DEF H!ResumeEnds
    <3>2. StoppedAt'
      BY <2>8 DEF H!ResumeEnds
    <3>3. BoundWhenNeeded'
      BY <2>8 DEF H!ResumeEnds
    <3> QED BY <3>1, <3>2, <3>3
  <2>9. CASE H!ResumeVpn
    <3>1. FilesOf'
      BY <2>9 DEF H!ResumeVpn, H!RestartVpn
    <3>2. StoppedAt'
      BY <2>9 DEF H!ResumeVpn, H!RestartVpn
    <3>3. BoundWhenNeeded'
      BY <2>9 DEF H!ResumeVpn, H!RestartVpn
    <3> QED BY <3>1, <3>2, <3>3
  <2>10. CASE H!ResumeWeb
    <3>1. FilesOf'
      BY <2>10 DEF H!ResumeWeb, H!StartWeb
    <3>2. StoppedAt'
      BY <2>10 DEF H!ResumeWeb, H!StartWeb
    <3>3. BoundWhenNeeded'
      BY <2>10 DEF H!ResumeWeb, H!StartWeb
    <3> QED BY <3>1, <3>2, <3>3
  <2> QED BY <1>3, <2>1, <2>2, <2>3, <2>4, <2>5, <2>6, <2>7, <2>8, <2>9, <2>10 DEF H!Backup
<1>4. CASE H!Upgrade
  <2>1. CASE H!UpgradeWeb
    <3>1. FilesOf'
      BY <2>1 DEF H!UpgradeWeb, H!StopWeb
    <3>2. StoppedAt'
      BY <2>1 DEF H!UpgradeWeb, H!StopWeb
    <3>3. BoundWhenNeeded'
      BY <2>1 DEF H!UpgradeWeb, H!StopWeb
    <3> QED BY <3>1, <3>2, <3>3
  <2>2. CASE H!UpgradeVpn
    <3>1. FilesOf'
      BY <2>2 DEF H!UpgradeVpn, H!StopVpn
    <3>2. StoppedAt'
      BY <2>2 DEF H!UpgradeVpn, H!StopVpn
    <3>3. BoundWhenNeeded'
      BY <2>2 DEF H!UpgradeVpn, H!StopVpn
    <3> QED BY <3>1, <3>2, <3>3
  <2>3. CASE H!UpgradeAgent
    <3>1. FilesOf'
      BY <2>3 DEF H!UpgradeAgent, H!StopAgent
    <3>2. StoppedAt'
      BY <2>3 DEF H!UpgradeAgent, H!StopAgent
    <3>3. BoundWhenNeeded'
      BY <2>3 DEF H!UpgradeAgent, H!StopAgent
    <3> QED BY <3>1, <3>2, <3>3
  <2>4. CASE H!UpgradeCopy
    <3>1. FilesOf'
      BY <2>4 DEF H!UpgradeCopy
    <3>2. StoppedAt'
      BY <2>4 DEF H!UpgradeCopy
    <3>3. BoundWhenNeeded'
      BY <2>4 DEF H!UpgradeCopy
    <3> QED BY <3>1, <3>2, <3>3
  <2>5. CASE H!UpgradeFails
    <3>1. FilesOf'
      BY <2>5 DEF H!UpgradeFails
    <3>2. StoppedAt'
      BY <2>5 DEF H!UpgradeFails
    <3>3. BoundWhenNeeded'
      BY <2>5 DEF H!UpgradeFails
    <3> QED BY <3>1, <3>2, <3>3
  <2>6. CASE H!UpgradeStart
    <3>1. FilesOf'
      BY <2>6 DEF H!UpgradeStart, H!StartAgent
    <3>2. StoppedAt'
      BY <2>6 DEF H!UpgradeStart, H!StartAgent
    <3>3. BoundWhenNeeded'
      BY <2>6 DEF H!UpgradeStart, H!StartAgent
    <3> QED BY <3>1, <3>2, <3>3
  <2>7. CASE H!UpgradeSocket
    <3>1. FilesOf'
      BY <2>7 DEF H!UpgradeSocket
    <3>2. StoppedAt'
      BY <2>7 DEF H!UpgradeSocket
    <3>3. BoundWhenNeeded'
      BY <2>7 DEF H!UpgradeSocket
    <3> QED BY <3>1, <3>2, <3>3
  <2>8. CASE H!UpgradeUp
    <3>1. FilesOf'
      BY <2>8 DEF H!UpgradeUp, H!RestartVpn
    <3>2. StoppedAt'
      BY <2>8 DEF H!UpgradeUp, H!RestartVpn
    <3>3. BoundWhenNeeded'
      BY <2>8 DEF H!UpgradeUp, H!RestartVpn
    <3> QED BY <3>1, <3>2, <3>3
  <2>9. CASE H!UpgradePanel
    <3>1. FilesOf'
      BY <2>9 DEF H!UpgradePanel, H!StartWeb
    <3>2. StoppedAt'
      BY <2>9 DEF H!UpgradePanel, H!StartWeb
    <3>3. BoundWhenNeeded'
      BY <2>9 DEF H!UpgradePanel, H!StartWeb
    <3> QED BY <3>1, <3>2, <3>3
  <2> QED BY <1>4, <2>1, <2>2, <2>3, <2>4, <2>5, <2>6, <2>7, <2>8, <2>9 DEF H!Upgrade
<1>5. ASSUME NEW who \in {"admin", "upgrade"}, H!BackupStart(who) PROVE HostParts'
  <2>1. FilesOf'
    BY <1>5 DEF H!BackupStart
  <2>2. StoppedAt'
    BY <1>5 DEF H!BackupStart
  <2>3. BoundWhenNeeded'
    BY <1>5 DEF H!BackupStart
  <2> QED BY <2>1, <2>2, <2>3
<1>6. CASE H!VpnUp
  <2>1. FilesOf'
    BY <1>6 DEF H!VpnUp
  <2>2. StoppedAt'
    BY <1>6 DEF H!VpnUp
  <2>3. BoundWhenNeeded'
    BY <1>6 DEF H!VpnUp
  <2> QED BY <2>1, <2>2, <2>3
<1>7. CASE H!Tick
  <2>1. FilesOf'
    BY <1>7 DEF H!Tick, H!Monitored, H!Waits
  <2>2. StoppedAt'
    BY <1>7 DEF H!Tick, H!Monitored, H!Waits
  <2>3. BoundWhenNeeded'
    BY <1>7 DEF H!Tick, H!Monitored, H!Waits
  <2> QED BY <2>1, <2>2, <2>3
<1>8. CASE H!Watchdog
  <2>1. FilesOf'
    BY <1>8 DEF H!Watchdog, H!Monitored
  <2>2. StoppedAt'
    BY <1>8 DEF H!Watchdog, H!Monitored
  <2>3. BoundWhenNeeded'
    BY <1>8 DEF H!Watchdog, H!Monitored
  <2> QED BY <2>1, <2>2, <2>3
<1>9. CASE H!AgentCrash
  <2>1. FilesOf'
    BY <1>9 DEF H!AgentCrash
  <2>2. StoppedAt'
    BY <1>9 DEF H!AgentCrash
  <2>3. BoundWhenNeeded'
    BY <1>9 DEF H!AgentCrash
  <2> QED BY <2>1, <2>2, <2>3
<1>10. CASE H!AgentRestart
  <2>1. FilesOf'
    BY <1>10 DEF H!AgentRestart, H!StartAgent
  <2>2. StoppedAt'
    BY <1>10 DEF H!AgentRestart, H!StartAgent
  <2>3. BoundWhenNeeded'
    BY <1>10 DEF H!AgentRestart, H!StartAgent
  <2> QED BY <2>1, <2>2, <2>3
<1>11. CASE H!AskRestart
  <2>1. FilesOf'
    BY <1>11 DEF H!AskRestart
  <2>2. StoppedAt'
    BY <1>11 DEF H!AskRestart
  <2>3. BoundWhenNeeded'
    BY <1>11 DEF H!AskRestart
  <2> QED BY <2>1, <2>2, <2>3
<1>12. CASE H!AgentRestartsVpn
  <2>1. FilesOf'
    BY <1>12 DEF H!AgentRestartsVpn
  <2>2. StoppedAt'
    BY <1>12 DEF H!AgentRestartsVpn
  <2>3. BoundWhenNeeded'
    BY <1>12 DEF H!AgentRestartsVpn
  <2> QED BY <2>1, <2>2, <2>3
<1>13. CASE H!AdminStarts
  <2>1. FilesOf'
    BY <1>13 DEF H!AdminStarts, H!RestartVpn
  <2>2. StoppedAt'
    BY <1>13 DEF H!AdminStarts, H!RestartVpn
  <2>3. BoundWhenNeeded'
    BY <1>13 DEF H!AdminStarts, H!RestartVpn
  <2> QED BY <2>1, <2>2, <2>3
<1>15. CASE H!VpnFails
  <2>1. FilesOf'
    BY <1>15 DEF H!VpnFails
  <2>2. StoppedAt'
    BY <1>15 DEF H!VpnFails
  <2>3. BoundWhenNeeded'
    BY <1>15 DEF H!VpnFails
  <2> QED BY <2>1, <2>2, <2>3
<1>16. CASE H!VpnRetry
  <2>1. FilesOf'
    BY <1>16 DEF H!VpnRetry, H!RestartVpn
  <2>2. StoppedAt'
    BY <1>16 DEF H!VpnRetry, H!RestartVpn
  <2>3. BoundWhenNeeded'
    BY <1>16 DEF H!VpnRetry, H!RestartVpn
  <2> QED BY <2>1, <2>2, <2>3
<1>14. CASE UNCHANGED H!vars
  <2>1. FilesOf'
    BY <1>14 DEF H!vars
  <2>2. StoppedAt'
    BY <1>14 DEF H!vars
  <2>3. BoundWhenNeeded'
    BY <1>14 DEF H!vars
  <2> QED BY <2>1, <2>2, <2>3
<1> QED BY <1>1, <1>2, <1>3, <1>4, <1>5, <1>6, <1>7,
       <1>8, <1>9, <1>10, <1>11, <1>12, <1>13, <1>14, <1>15, <1>16 DEF H!Next

HostInv == H!TypeOK /\ HostParts

\* Both hold in every state of the host.
LEMMA HostInvariant == CommandsSpec => []HostInv
<1>1. CommandsInit => HostInv
  <2> SUFFICES ASSUME H!Init PROVE HostInv
    BY DEF CommandsInit
  <2>1. H!TypeOK
    <3>1. age \in 0..Limit
      BY CommandsAssumed DEF ServicesAssumption, H!Init
    <3>2. script \in H!Scripts
      BY DEF H!Init, H!Scripts
    <3> QED BY <3>1, <3>2 DEF H!Init, H!TypeOK
  <2>2. FilesOf /\ StoppedAt /\ BoundWhenNeeded
    BY DEF H!Init, FilesOf, StoppedAt, BoundWhenNeeded, Plain, Installed, Quiet, Whole
  <2> QED BY <2>1, <2>2 DEF HostInv, HostParts
<1>2. HostInv /\ [H!Next]_H!vars => HostInv'
  <2>1. Limit \in Nat
    BY CommandsAssumed DEF ServicesAssumption
  <2> QED BY <2>1, HostTypes, HostStep DEF HostInv
<1>3. [CommandsNext]_<<part, vars, host, forms>> => [H!Next]_H!vars
  BY DEF CommandsNext, host, H!vars, H!units_, H!files, H!history
<1> QED BY <1>1, <1>2, <1>3, PTL DEF CommandsSpec

(* While the archive of an installed panel is made nothing runs that       *)
(* writes to what is archived (backup.sh:16-19): BindsTo and what was      *)
(* asked for before included, whatever fails but a rollback before.        *)
THEOREM BackupOfflineHolds == CommandsSpec => []BackupOffline
<1>1. HostInv => BackupOffline
  BY DEF BackupOffline, HostInv, HostParts, FilesOf, StoppedAt, Plain, Installed, Quiet, Whole, H!BackupOffline
<1> QED BY <1>1, HostInvariant, PTL

(* No OpenVPN with the panel's configuration runs without the agent, at    *)
(* any step of any script, whoever crashes and whatever fails but a        *)
(* rollback before.                                                        *)
THEOREM SupervisedHolds == CommandsSpec => []Supervised
<1>1. HostInv => Supervised
  BY DEF Supervised, HostInv, HostParts, BoundWhenNeeded, Whole, H!Supervised
<1> QED BY <1>1, HostInvariant, PTL

(* A rollback whose steps succeed leaves the original VPN unbound, without *)
(* a monitor and not stopped (install.sh:85-97).  An upgrade that fails    *)
(* after it stopped the panel leaves it stopped; one that fails at the     *)
(* copy or at the agent's start leaves the agent stopped, and the VPN but  *)
(* for a rollback that failed before (upgrade.sh).                         *)
THEOREM FailuresEndWellHolds == CommandsSpec => []FailuresEndWell
<1>1. HostInv => FailuresEndWell
  BY DEF HostInv, HostParts, StoppedAt, Quiet, Whole, FailuresEndWell, H!FailuresEndWell, H!RollbackRestores,
         H!HaltedStaysStopped
<1> QED BY <1>1, HostInvariant, PTL

-----------------------------------------------------------------------------
(***************************************************************************)
(* Forms that create clients, and a restart of OpenVPN (Operations), for   *)
(* any number of forms and of names.                                       *)
(***************************************************************************)
Creations == O!Requests \ {O!Restart}
Won(r) == panel[r] = "ok" \/ job[r] = "done"

(* The agent keeps an answer only for a handler that still waits for it.   *)
Awaited == \A r \in O!Requests : job[r] \in {"done", "failed"} => panel[r] = "calling"

(* At most one creation is at work (pki_lock), on a name that had nothing. *)
OneWorks ==
  \A r \in Creations : job[r] = "working" =>
    /\ client[O!Name(r)] = "row"
    /\ \A q \in Creations : job[q] = "working" => q = r

(* A success that is not yet on record is the only one of its name.        *)
OneWins ==
  \A r \in Creations : Won(r) =>
    /\ client[O!Name(r)] = "made" /\ log[O!Name(r)].ok = 0
    /\ \A q \in Creations : O!Name(q) = O!Name(r) /\ Won(q) => q = r

(* A form under way has a name to send next.                               *)
Forward == \A l \in Loops : loop[l].step = "sending" => loop[l].next <= loop[l].count

(* An answer "ok" is on record; so is every result "ok" of a form, and a   *)
(* form has a result of each name before the next.                         *)
Answered == \A r \in Creations : panel[r] = "answered_ok" => log[O!Name(r)].ok > 0
Collected ==
  \A l \in Loops, i \in O!Numbers :
    /\ loop[l].results[i] = "ok" => log[i].ok > 0
    /\ loop[l].step = "sending" /\ i < loop[l].next => loop[l].results[i] # "none"
    /\ loop[l].step = "shown" /\ i <= loop[l].count => loop[l].results[i] # "none"

(* A name that was asked of the agent has left a trace, for good.          *)
Trace(i) == log[i].ok > 0 \/ log[i].failed \/ i \in O!UnderWay \cup unlogged
Traced ==
  /\ \A r \in Creations : job[r] \in {"queued", "working"} => Trace(O!Name(r))
  /\ \A i \in O!Numbers : client[i] = "made" => Trace(i)

RecordParts == Awaited /\ OneWorks /\ OneWins /\ O!CreatedOnce /\ Answered /\ Collected /\ Traced
RecordInv == O!TypeOK /\ Forward /\ RecordParts

(* A creation has a name; the restart has none.                            *)
LEMMA RequestNames ==
  /\ \A r \in Creations : r \in O!Requests /\ O!Name(r) \in O!Numbers /\ r # O!Restart
  /\ \A r \in O!Requests : r = O!Restart \/ r \in Creations
  /\ \A l \in Loops, i \in O!Numbers : <<l, i>> \in Creations /\ O!Name(<<l, i>>) = i
  /\ O!Restart \in O!Requests /\ O!Name(O!Restart) = 0 /\ 0 \notin O!Numbers
BY DEF Creations, O!Requests, O!Restart, O!Name, O!Numbers

(* Between two bounds a number has a successor.                            *)
LEMMA NumberFacts ==
  ASSUME OperationsAssumption
  PROVE  /\ 1 \in O!Numbers /\ 0 \in 0..MaxCount
         /\ \A i \in O!Numbers : i \in Nat /\ i \in 0..MaxCount /\ 1 <= i
         /\ \A i \in O!Numbers, n \in 0..MaxCount :
              i <= n /\ i # n => i + 1 \in O!Numbers /\ i + 1 <= n
BY DEF OperationsAssumption, O!Numbers

(* A name's rows may have one more of either result.                       *)
LEMMA RowTypes ==
  ASSUME NEW e \in [ok : Nat, failed : BOOLEAN]
  PROVE  /\ [e EXCEPT !.ok = @ + 1] \in [ok : Nat, failed : BOOLEAN]
         /\ [e EXCEPT !.failed = TRUE] \in [ok : Nat, failed : BOOLEAN]
<1>1. e.ok \in Nat /\ e.failed \in BOOLEAN /\ e = [ok |-> e.ok, failed |-> e.failed]
  BY Zenon
<1>2. [e EXCEPT !.ok = @ + 1] = [ok |-> e.ok + 1, failed |-> e.failed] /\ e.ok + 1 \in Nat
  BY <1>1
<1>3. ASSUME NEW f \in BOOLEAN PROVE [e EXCEPT !.failed = f] \in [ok : Nat, failed : BOOLEAN]
  BY <1>1
<1>4. TRUE \in BOOLEAN
  OBVIOUS
<1>5. [e EXCEPT !.failed = TRUE] \in [ok : Nat, failed : BOOLEAN]
  BY Zenon, <1>3, <1>4
<1> QED BY <1>1, <1>2, <1>5

(* Forms, requests, names and audit rows keep their types.                 *)
LEMMA RecordTypes == OperationsAssumption /\ O!TypeOK /\ Forward /\ [O!Next]_O!vars => O!TypeOK' /\ Forward'
<1> SUFFICES ASSUME OperationsAssumption, O!TypeOK, Forward, [O!Next]_O!vars
             PROVE O!TypeOK' /\ Forward'
  OBVIOUS
<1>a. /\ 1 \in O!Numbers /\ 0 \in 0..MaxCount
      /\ \A i \in O!Numbers : i \in Nat /\ i \in 0..MaxCount /\ 1 <= i
      /\ \A i \in O!Numbers, n \in 0..MaxCount :
           i <= n /\ i # n => i + 1 \in O!Numbers /\ i + 1 <= n
  BY NumberFacts
<1>b. O!NoForm \in O!Form /\ O!NoForm.step = "idle" /\ O!NoForm.next = 1
  BY <1>a DEF O!NoForm, O!Form
<1> USE RequestNames, <1>a DEF O!TypeOK, Forward
<1>1. ASSUME NEW l \in Loops, O!Post(l) PROVE O!TypeOK' /\ Forward'
  BY <1>1 DEF O!Post, O!agent, O!audit
<1>2. ASSUME NEW l \in Loops, NEW n \in O!Numbers, O!Submit(l, n) PROVE O!TypeOK' /\ Forward'
  <2> DEFINE new == [O!NoForm EXCEPT !.step = "sending", !.count = n]
  <2>1. new \in O!Form /\ new.next <= new.count
    <3>1. n \in 0..MaxCount /\ 1 <= n
      OBVIOUS
    <3>2. new \in O!Form
      BY <1>b, <3>1 DEF O!Form
    <3>3. new.next = 1 /\ new.count = n
      BY <1>b DEF O!Form
    <3> QED BY <3>1, <3>2, <3>3
  <2>2. loop' = [loop EXCEPT ![l] = new] /\ UNCHANGED <<panel, job, client, log, unlogged>>
    BY <1>2 DEF O!Submit, O!agent, O!audit
  <2> HIDE DEF new
  <2> QED BY <2>1, <2>2
<1>3. ASSUME NEW l \in Loops, O!Return(l) PROVE O!TypeOK' /\ Forward'
  <2> DEFINE i == loop[l].next
  <2>1. loop[l] \in O!Form /\ i \in O!Numbers /\ i <= loop[l].count /\ loop[l].count \in 0..MaxCount
    BY <1>3 DEF O!Return, O!Form
  <2>2. PICK out \in {"ok", "failed"}, to \in O!Numbers, at \in {"sending", "shown"} :
          /\ loop' = [loop EXCEPT ![l].results[i] = out, ![l].next = to, ![l].step = at]
          /\ at = "sending" => to <= loop[l].count
    <3>1. CASE i = loop[l].count
      BY <1>3, <2>1, <3>1 DEF O!Return
    <3>2. CASE i # loop[l].count
      <4>1. i + 1 \in O!Numbers /\ i + 1 <= loop[l].count
        BY <2>1, <3>2
      <4> QED BY <1>3, <2>1, <3>2, <4>1 DEF O!Return
    <3> QED BY <3>1, <3>2
  <2> HIDE DEF i
  <2>3. loop' \in [Loops -> O!Form]
    BY <2>1, <2>2 DEF O!Form
  <2>4. UNCHANGED <<job, client, log, unlogged>> /\ panel' = [panel EXCEPT ![<<l, i>>] = "idle"]
    BY <1>3 DEF O!Return, O!agent, O!audit, i
  <2>5. Forward'
    BY <2>2, <2>3 DEF O!Form
  <2>6. panel' \in [O!Requests -> {"idle", "received", "calling", "ok", "failed", "answered_ok", "answered_failed"}]
    BY <2>4
  <2> QED BY <2>3, <2>4, <2>5, <2>6
<1>4. ASSUME NEW l \in Loops, O!Reload(l) PROVE O!TypeOK' /\ Forward'
  BY <1>b, <1>4 DEF O!Reload, O!agent, O!audit
<1>5. ASSUME NEW r \in O!Requests, O!Unheard(r) PROVE O!TypeOK' /\ Forward'
  BY <1>5 DEF O!Unheard, O!agent, O!audit
<1>6. ASSUME NEW r \in O!Requests, O!Deny(r) PROVE O!TypeOK' /\ Forward'
  BY <1>6 DEF O!Deny, O!Step, O!agent, O!audit
<1>7. ASSUME NEW r \in O!Requests, O!Call(r) PROVE O!TypeOK' /\ Forward'
  BY <1>7 DEF O!Call, O!Step, O!audit
<1>8. ASSUME NEW r \in O!Requests, O!NoAgent(r) PROVE O!TypeOK' /\ Forward'
  BY <1>8 DEF O!NoAgent, O!Step, O!agent, O!audit
<1>9. ASSUME NEW r \in O!Requests, O!Hear(r) PROVE O!TypeOK' /\ Forward'
  BY <1>9 DEF O!Hear, O!Step, O!audit
<1>10. ASSUME NEW r \in O!Requests, O!GiveUp(r) PROVE O!TypeOK' /\ Forward'
  BY <1>10 DEF O!GiveUp, O!Step, O!audit
<1>11. ASSUME NEW r \in O!Requests, O!Record(r) PROVE O!TypeOK' /\ Forward'
  <2>1. O!Name(r) \in 0..MaxCount
    OBVIOUS
  <2>2. log' \in [0..MaxCount -> [ok : Nat, failed : BOOLEAN]]
    <3> DEFINE row == log[O!Name(r)]
    <3>0. row \in [ok : Nat, failed : BOOLEAN]
      BY <2>1
    <3>1. PICK new \in [ok : Nat, failed : BOOLEAN] :
            log' = [log EXCEPT ![O!Name(r)] = new] \/ log' = log
      BY Zenon, <1>11, <3>0, RowTypes DEF O!Record
    <3> QED BY <2>1, <3>1
  <2> QED BY <1>11, <2>2 DEF O!Record, O!Step, O!agent
<1>12. ASSUME NEW r \in O!Requests, O!RecordFails(r) PROVE O!TypeOK' /\ Forward'
  <2>1. O!Name(r) \in 0..MaxCount
    OBVIOUS
  <2> QED BY <1>12, <2>1 DEF O!RecordFails, O!Step, O!agent
<1>13. ASSUME NEW r \in O!Requests, O!Begin(r) PROVE O!TypeOK' /\ Forward'
  BY <1>13 DEF O!Begin, O!Ends, O!browser, O!audit
<1>14. ASSUME NEW r \in O!Requests, O!Issue(r) PROVE O!TypeOK' /\ Forward'
  BY <1>14 DEF O!Issue, O!Ends, O!browser, O!audit
<1>15. CASE O!PostRestart
  BY <1>15 DEF O!PostRestart, O!agent, O!audit
<1>16. CASE O!RestartBegins
  BY <1>16 DEF O!RestartBegins, O!browser, O!audit
<1>17. CASE O!RestartEnds
  BY <1>17 DEF O!RestartEnds, O!Ends, O!browser, O!audit
<1>18. CASE O!PanelStops
  <2>1. O!UnderWay \subseteq 0..MaxCount
    BY DEF O!UnderWay
  <2> QED BY <1>18, <2>1 DEF O!PanelStops
<1>19. CASE O!AgentDies
  BY <1>19 DEF O!AgentDies, O!browser, O!audit
<1>20. CASE UNCHANGED O!vars
  BY <1>20 DEF O!vars
<1> QED BY <1>1, <1>2, <1>3, <1>4, <1>5, <1>6, <1>7, <1>8, <1>9, <1>10, <1>11, <1>12, <1>13, <1>14,
           <1>15, <1>16, <1>17, <1>18, <1>19, <1>20
        DEF O!Next, O!Handler

(* What a row does to the counts, and that no "failed" is ever taken back. *)
LEMMA RecordEffect ==
  ASSUME OperationsAssumption, O!TypeOK, NEW r \in O!Requests, O!Record(r)
  PROVE  /\ \/ panel[r] = "ok" /\ panel' = [panel EXCEPT ![r] = "answered_ok"]
            \/ panel[r] = "failed" /\ panel' = [panel EXCEPT ![r] = "answered_failed"]
         /\ \A i \in 0..MaxCount :
              log'[i].ok = IF i = O!Name(r) /\ panel[r] = "ok" THEN log[i].ok + 1 ELSE log[i].ok
         /\ \A i \in 0..MaxCount : log[i].failed => log'[i].failed
         /\ r \in Creations /\ panel[r] = "failed" => log'[O!Name(r)].failed
         /\ UNCHANGED <<loop, job, client, unlogged>>
<1>0. O!Name(r) \in O!Numbers \cup {0} /\ (r \in Creations => r # O!Restart)
  BY RequestNames
<1>1. CASE panel[r] = "ok" /\ log' = [log EXCEPT ![O!Name(r)].ok = @ + 1]
  <2>1. \A i \in 0..MaxCount : log[i] \in [ok : Nat, failed : BOOLEAN]
    BY DEF O!TypeOK
  <2>2. \A i \in 0..MaxCount : /\ log'[i].ok = IF i = O!Name(r) THEN log[i].ok + 1 ELSE log[i].ok
                               /\ log'[i].failed = log[i].failed
    BY <1>1, <2>1 DEF O!TypeOK
  <2> QED BY <1>1, <2>2 DEF O!Record, O!Step, O!agent
<1>2. CASE panel[r] = "failed" /\ log' = [log EXCEPT ![O!Name(r)].failed = TRUE]
  <2> DEFINE n == O!Name(r)
  <2>1. n \in 0..MaxCount => log[n] \in [ok : Nat, failed : BOOLEAN]
    BY DEF O!TypeOK
  <2>2. \A i \in 0..MaxCount : /\ log'[i].ok = log[i].ok
                               /\ i # n => log'[i].failed = log[i].failed
    BY <1>2 DEF O!TypeOK
  <2>3. ASSUME n \in 0..MaxCount, NEW f \in BOOLEAN, log' = [log EXCEPT ![n].failed = f]
        PROVE  log'[n].failed = f
    BY <2>1, <2>3 DEF O!TypeOK
  <2>4. n \in 0..MaxCount => log'[n].failed
    <3>1. TRUE \in BOOLEAN
      OBVIOUS
    <3> QED BY Zenon, <1>2, <2>3, <3>1
  <2>5. r \in Creations => n \in 0..MaxCount
    BY RequestNames, NumberFacts
  <2> QED BY <1>2, <2>2, <2>4, <2>5 DEF O!Record, O!Step, O!agent
<1>3. CASE panel[r] = "failed" /\ r = O!Restart /\ log' = log
  BY <1>0, <1>3 DEF O!Record, O!Step, O!agent, O!TypeOK
<1> QED BY <1>1, <1>2, <1>3 DEF O!Record, O!Step

(* Who wins and who works is decided nowhere but at the agent's work and   *)
(* at the panel's row.                                                     *)
LEMMA Calm ==
  ASSUME OneWorks, OneWins, O!CreatedOnce, UNCHANGED client,
         \A i \in O!Numbers : log'[i].ok = log[i].ok,
         \A r \in Creations : (Won(r)' => Won(r)) /\ (job'[r] = "working" => job[r] = "working")
  PROVE  OneWorks' /\ OneWins' /\ O!CreatedOnce'
<1>1. OneWorks'
  BY DEF OneWorks
<1>2. OneWins'
  <2> SUFFICES ASSUME NEW r \in Creations, Won(r)'
               PROVE  /\ client[O!Name(r)] = "made" /\ log'[O!Name(r)].ok = 0
                      /\ \A q \in Creations : O!Name(q) = O!Name(r) /\ Won(q)' => q = r
    BY DEF OneWins
  <2>1. Won(r) /\ O!Name(r) \in O!Numbers
    BY RequestNames
  <2> QED BY <2>1 DEF OneWins
<1>3. O!CreatedOnce'
  BY DEF O!CreatedOnce
<1> QED BY <1>1, <1>2, <1>3

AgentParts == Awaited /\ OneWorks /\ OneWins /\ O!CreatedOnce

(* Under pki_lock a name is created once, and a success is recorded once.  *)
LEMMA AgentSide ==
  OperationsAssumption /\ O!TypeOK /\ AgentParts /\ [O!Next]_O!vars => AgentParts'
<1> SUFFICES ASSUME OperationsAssumption, O!TypeOK, AgentParts, [O!Next]_O!vars PROVE AgentParts'
  OBVIOUS
<1>a. /\ panel \in [O!Requests -> {"idle", "received", "calling", "ok", "failed", "answered_ok", "answered_failed"}]
      /\ job \in [O!Requests -> {"idle", "queued", "working", "done", "failed"}]
      /\ client \in [O!Numbers -> {"none", "row", "made", "error"}]
  BY DEF O!TypeOK
<1>b. \A r \in Creations : r \in O!Requests /\ O!Name(r) \in O!Numbers /\ r # O!Restart
  BY RequestNames
<1>d. \A i \in O!Numbers : i \in 0..MaxCount /\ log[i].ok \in Nat
  BY NumberFacts DEF O!TypeOK
<1>c. ASSUME UNCHANGED client, \A i \in O!Numbers : log'[i].ok = log[i].ok, Awaited',
             \A r \in Creations : (Won(r)' => Won(r)) /\ (job'[r] = "working" => job[r] = "working")
      PROVE  AgentParts'
  BY <1>c, Calm DEF AgentParts
<1>1. ASSUME NEW l \in Loops, O!Post(l) PROVE AgentParts'
  <2>1. Awaited' /\ UNCHANGED <<client, log>>
    BY <1>a, <1>1 DEF O!Post, O!agent, O!audit, AgentParts, Awaited
  <2>2. \A q \in Creations : (Won(q)' => Won(q)) /\ (job'[q] = "working" => job[q] = "working")
    BY <1>a, <1>b, <1>1 DEF O!Post, O!agent, O!audit, AgentParts, Awaited, Won
  <2> QED BY <1>c, <2>1, <2>2
<1>2. ASSUME NEW l \in Loops, NEW n \in O!Numbers, O!Submit(l, n) PROVE AgentParts'
  <2>1. Awaited' /\ UNCHANGED <<client, log>>
    BY <1>a, <1>2 DEF O!Submit, O!agent, O!audit, AgentParts, Awaited
  <2>2. \A q \in Creations : (Won(q)' => Won(q)) /\ (job'[q] = "working" => job[q] = "working")
    BY <1>a, <1>b, <1>2 DEF O!Submit, O!agent, O!audit, AgentParts, Awaited, Won
  <2> QED BY <1>c, <2>1, <2>2
<1>3. ASSUME NEW l \in Loops, O!Return(l) PROVE AgentParts'
  <2>1. Awaited' /\ UNCHANGED <<client, log>>
    BY <1>a, <1>3 DEF O!Return, O!agent, O!audit, AgentParts, Awaited
  <2>2. \A q \in Creations : (Won(q)' => Won(q)) /\ (job'[q] = "working" => job[q] = "working")
    BY <1>a, <1>b, <1>3 DEF O!Return, O!agent, O!audit, AgentParts, Awaited, Won
  <2> QED BY <1>c, <2>1, <2>2
<1>4. ASSUME NEW l \in Loops, O!Reload(l) PROVE AgentParts'
  <2>1. Awaited' /\ UNCHANGED <<client, log>>
    BY <1>a, <1>4 DEF O!Reload, O!agent, O!audit, AgentParts, Awaited
  <2>2. \A q \in Creations : (Won(q)' => Won(q)) /\ (job'[q] = "working" => job[q] = "working")
    BY <1>a, <1>b, <1>4 DEF O!Reload, O!agent, O!audit, AgentParts, Awaited, Won
  <2> QED BY <1>c, <2>1, <2>2
<1>5. ASSUME NEW r \in O!Requests, O!Unheard(r) PROVE AgentParts'
  <2>1. Awaited' /\ UNCHANGED <<client, log>>
    BY <1>a, <1>5 DEF O!Unheard, O!agent, O!audit, AgentParts, Awaited
  <2>2. \A q \in Creations : (Won(q)' => Won(q)) /\ (job'[q] = "working" => job[q] = "working")
    BY <1>a, <1>b, <1>5 DEF O!Unheard, O!agent, O!audit, AgentParts, Awaited, Won
  <2> QED BY <1>c, <2>1, <2>2
<1>6. ASSUME NEW r \in O!Requests, O!Deny(r) PROVE AgentParts'
  <2>1. Awaited' /\ UNCHANGED <<client, log>>
    BY <1>a, <1>6 DEF O!Deny, O!Step, O!agent, O!audit, AgentParts, Awaited
  <2>2. \A q \in Creations : (Won(q)' => Won(q)) /\ (job'[q] = "working" => job[q] = "working")
    BY <1>a, <1>b, <1>6 DEF O!Deny, O!Step, O!agent, O!audit, AgentParts, Awaited, Won
  <2> QED BY <1>c, <2>1, <2>2
<1>7. ASSUME NEW r \in O!Requests, O!Call(r) PROVE AgentParts'
  <2>1. Awaited' /\ UNCHANGED <<client, log>>
    BY <1>a, <1>7 DEF O!Call, O!Step, O!audit, AgentParts, Awaited
  <2>2. \A q \in Creations : (Won(q)' => Won(q)) /\ (job'[q] = "working" => job[q] = "working")
    BY <1>a, <1>b, <1>7 DEF O!Call, O!Step, O!audit, AgentParts, Awaited, Won
  <2> QED BY <1>c, <2>1, <2>2
<1>8. ASSUME NEW r \in O!Requests, O!NoAgent(r) PROVE AgentParts'
  <2>1. Awaited' /\ UNCHANGED <<client, log>>
    BY <1>a, <1>8 DEF O!NoAgent, O!Step, O!agent, O!audit, AgentParts, Awaited
  <2>2. \A q \in Creations : (Won(q)' => Won(q)) /\ (job'[q] = "working" => job[q] = "working")
    BY <1>a, <1>b, <1>8 DEF O!NoAgent, O!Step, O!agent, O!audit, AgentParts, Awaited, Won
  <2> QED BY <1>c, <2>1, <2>2
<1>9. ASSUME NEW r \in O!Requests, O!Hear(r) PROVE AgentParts'
  <2>1. Awaited' /\ UNCHANGED <<client, log>>
    BY <1>a, <1>9 DEF O!Hear, O!Step, O!audit, AgentParts, Awaited
  <2>2. \A q \in Creations : (Won(q)' => Won(q)) /\ (job'[q] = "working" => job[q] = "working")
    BY <1>a, <1>b, <1>9 DEF O!Hear, O!Step, O!audit, AgentParts, Awaited, Won
  <2> QED BY <1>c, <2>1, <2>2
<1>10. ASSUME NEW r \in O!Requests, O!GiveUp(r) PROVE AgentParts'
  <2>1. Awaited' /\ UNCHANGED <<client, log>>
    BY <1>a, <1>10 DEF O!GiveUp, O!Step, O!audit, AgentParts, Awaited
  <2>2. \A q \in Creations : (Won(q)' => Won(q)) /\ (job'[q] = "working" => job[q] = "working")
    BY <1>a, <1>b, <1>10 DEF O!GiveUp, O!Step, O!audit, AgentParts, Awaited, Won
  <2> QED BY <1>c, <2>1, <2>2
<1>11. ASSUME NEW r \in O!Requests, O!Record(r) PROVE AgentParts'
  <2>a. PICK to \in {"answered_ok", "answered_failed"} :
          /\ panel' = [panel EXCEPT ![r] = to] /\ panel[r] # "calling"
    BY <1>11, RecordEffect
  <2>b. /\ UNCHANGED <<job, client>>
        /\ \A i \in O!Numbers :
             log'[i].ok = IF i = O!Name(r) /\ panel[r] = "ok" THEN log[i].ok + 1 ELSE log[i].ok
    BY <1>d, <1>11, RecordEffect
  <2>1. Awaited' /\ UNCHANGED client
    BY <1>a, <2>a, <2>b DEF AgentParts, Awaited
  <2>2. \A q \in Creations : /\ Won(q)' => Won(q) /\ q # r
                             /\ job'[q] = "working" => job[q] = "working"
    BY <1>a, <1>b, <2>a, <2>b DEF AgentParts, Awaited, Won
  <2>3. CASE r \in Creations /\ panel[r] = "ok"
    <3> DEFINE n == O!Name(r)
    <3>1. n \in O!Numbers /\ client[n] = "made" /\ log[n].ok = 0 /\ Won(r)
      BY <1>b, <2>3 DEF AgentParts, OneWins, Won
    <3>2. log'[n].ok = 1 /\ \A i \in O!Numbers : i # n => log'[i].ok = log[i].ok
      <4>1. log'[n].ok = log[n].ok + 1
        BY <2>b, <2>3, <3>1
      <4>2. log[n].ok = 0
        BY <3>1
      <4>3. log'[n].ok = 1
        BY <4>1, <4>2
      <4>4. ASSUME NEW i \in O!Numbers, i # n PROVE log'[i].ok = log[i].ok
        BY <2>b, <4>4
      <4> QED BY <4>3, <4>4
    <3> HIDE DEF n
    <3>3. OneWorks'
      BY <2>1, <2>2 DEF AgentParts, OneWorks
    <3>4. \A q \in Creations : Won(q)' => O!Name(q) # n
      BY <2>2, <2>3, <3>1 DEF AgentParts, OneWins, n
    <3>5. OneWins'
      BY <1>b, <2>1, <2>2, <3>2, <3>4 DEF AgentParts, OneWins
    <3>6. O!CreatedOnce'
      <4> SUFFICES ASSUME NEW i \in O!Numbers PROVE log'[i].ok <= IF client[i] = "made" THEN 1 ELSE 0
        BY <2>1 DEF O!CreatedOnce
      <4>1. CASE i = n
        <5>1. log'[i].ok = 1 /\ client[i] = "made"
          BY <3>1, <3>2, <4>1
        <5> QED BY <5>1
      <4>2. CASE i # n
        <5>1. log'[i].ok = log[i].ok
          BY <3>2, <4>2
        <5> QED BY <5>1 DEF AgentParts, O!CreatedOnce
      <4> QED BY <4>1, <4>2
    <3> QED BY <2>1, <3>3, <3>5, <3>6 DEF AgentParts
  <2>4. CASE r \notin Creations \/ panel[r] # "ok"
    <3>1. \A i \in O!Numbers : log'[i].ok = log[i].ok
      BY <1>d, <2>b, <2>4, RequestNames
    <3> QED BY <1>c, <2>1, <2>2, <3>1
  <2> QED BY <2>3, <2>4
<1>12. ASSUME NEW r \in O!Requests, O!RecordFails(r) PROVE AgentParts'
  <2>1. Awaited' /\ UNCHANGED <<client, log>>
    BY <1>a, <1>12 DEF O!RecordFails, O!Step, O!agent, AgentParts, Awaited
  <2>2. \A q \in Creations : (Won(q)' => Won(q)) /\ (job'[q] = "working" => job[q] = "working")
    BY <1>a, <1>b, <1>12 DEF O!RecordFails, O!Step, O!agent, AgentParts, Awaited, Won
  <2> QED BY <1>c, <2>1, <2>2
<1>13. ASSUME NEW r \in O!Requests, O!Begin(r) PROVE AgentParts'
  <2>1. r \in Creations /\ O!Name(r) \in O!Numbers
    BY <1>13, RequestNames DEF O!Begin
  <2>2. /\ \A q \in Creations : job[q] # "working"
        /\ UNCHANGED <<panel, log>>
    BY <1>13 DEF O!Begin, O!browser, O!audit, Creations
  <2>3. CASE job' = [job EXCEPT ![r] = "working"] /\ client' = [client EXCEPT ![O!Name(r)] = "row"]
             /\ client[O!Name(r)] = "none"
    <3>1. \A q \in Creations : Won(q)' => Won(q) /\ O!Name(q) # O!Name(r)
      BY <1>a, <1>b, <2>1, <2>2, <2>3 DEF AgentParts, OneWins, Won
    <3>2. Awaited'
      BY <1>a, <2>2, <2>3 DEF AgentParts, Awaited
    <3>3. OneWorks'
      BY <1>a, <1>b, <2>1, <2>2, <2>3 DEF OneWorks
    <3>4. OneWins'
      BY <1>a, <1>b, <2>1, <2>2, <2>3, <3>1 DEF AgentParts, OneWins
    <3>5. O!CreatedOnce'
      BY <1>a, <2>1, <2>2, <2>3 DEF AgentParts, O!CreatedOnce
    <3> QED BY <3>2, <3>3, <3>4, <3>5 DEF AgentParts
  <2>4. CASE O!Ends(r, "failed") /\ UNCHANGED client
    <3>1. Awaited'
      BY <1>a, <2>2, <2>4 DEF AgentParts, Awaited, O!Ends
    <3>2. \A q \in Creations : (Won(q)' => Won(q)) /\ (job'[q] = "working" => job[q] = "working")
      BY <1>a, <1>b, <2>1, <2>2, <2>4 DEF Won, O!Ends
    <3> QED BY <1>c, <2>2, <2>4, <3>1, <3>2
  <2> QED BY <1>13, <2>3, <2>4 DEF O!Begin
<1>14. ASSUME NEW r \in O!Requests, O!Issue(r) PROVE AgentParts'
  <2> DEFINE n == O!Name(r)
  <2>1. r \in Creations /\ n \in O!Numbers /\ r \in O!Requests
    BY <1>14, RequestNames DEF O!Issue
  <2>2. job[r] = "working" /\ UNCHANGED <<panel, log>>
    BY <1>14 DEF O!Issue, O!browser, O!audit
  <2>3. client[n] = "row" /\ \A q \in Creations : job[q] = "working" => q = r
    BY <2>1, <2>2 DEF AgentParts, OneWorks
  <2>4. PICK c \in {"made", "error"}, out \in {"done", "failed", "idle"} :
          /\ client' = [client EXCEPT ![n] = c] /\ job' = [job EXCEPT ![r] = out]
          /\ out = "done" => c = "made" /\ panel[r] = "calling"
          /\ out = "failed" => panel[r] = "calling"
    BY <1>14 DEF O!Issue, O!Ends
  <2> HIDE DEF n
  <2>5. Awaited'
    BY <1>a, <2>1, <2>2, <2>4 DEF AgentParts, Awaited
  <2>6. OneWorks'
    BY <1>a, <1>b, <2>1, <2>2, <2>3, <2>4 DEF OneWorks
  <2>7. \A q \in Creations : Won(q) => O!Name(q) # n
    BY <2>3 DEF AgentParts, OneWins
  <2>8. log[n].ok = 0
    BY <1>d, <2>1, <2>3 DEF AgentParts, O!CreatedOnce
  <2>9. \A q \in Creations : Won(q)' => Won(q) \/ (q = r /\ c = "made")
    <3>1. ASSUME NEW q \in Creations, job'[q] = "done" PROVE job[q] = "done" \/ (q = r /\ c = "made")
      BY <1>a, <1>b, <2>1, <2>4, <3>1
    <3> QED BY <2>2, <3>1 DEF Won
  <2>10. OneWins'
    BY <1>a, <1>b, <2>1, <2>2, <2>4, <2>7, <2>8, <2>9 DEF AgentParts, OneWins, n
  <2>11. O!CreatedOnce'
    <3>1. \A i \in O!Numbers : log[i].ok <= IF client[i] = "made" THEN 1 ELSE 0
      BY DEF AgentParts, O!CreatedOnce
    <3>2. \A i \in O!Numbers : i # n => client'[i] = client[i]
      BY <1>a, <2>1, <2>4
    <3>3. log'[n].ok = 0 /\ \A i \in O!Numbers : log'[i].ok = log[i].ok
      BY <2>2, <2>8
    <3> QED BY <3>1, <3>2, <3>3 DEF O!CreatedOnce
  <2> QED BY <2>5, <2>6, <2>10, <2>11 DEF AgentParts
<1>15. CASE O!PostRestart
  <2>1. Awaited' /\ UNCHANGED <<client, log>>
    BY <1>a, <1>15 DEF O!PostRestart, O!agent, O!audit, AgentParts, Awaited
  <2>2. \A q \in Creations : (Won(q)' => Won(q)) /\ (job'[q] = "working" => job[q] = "working")
    BY <1>a, <1>b, <1>15 DEF O!PostRestart, O!agent, O!audit, AgentParts, Awaited, Won
  <2> QED BY <1>c, <2>1, <2>2
<1>16. CASE O!RestartBegins
  <2>1. Awaited' /\ UNCHANGED <<client, log>>
    BY <1>a, <1>16 DEF O!RestartBegins, O!browser, O!audit, AgentParts, Awaited
  <2>2. \A q \in Creations : (Won(q)' => Won(q)) /\ (job'[q] = "working" => job[q] = "working")
    BY <1>a, <1>b, <1>16 DEF O!RestartBegins, O!browser, O!audit, AgentParts, Awaited, Won
  <2> QED BY <1>c, <2>1, <2>2
<1>17. CASE O!RestartEnds
  <2>1. Awaited' /\ UNCHANGED <<client, log>>
    BY <1>a, <1>17 DEF O!RestartEnds, O!Ends, O!browser, O!audit, AgentParts, Awaited
  <2>2. \A q \in Creations : (Won(q)' => Won(q)) /\ (job'[q] = "working" => job[q] = "working")
    BY <1>a, <1>b, <1>17 DEF O!RestartEnds, O!Ends, O!browser, O!audit, AgentParts, Awaited, Won
  <2> QED BY <1>c, <2>1, <2>2
<1>18. CASE O!PanelStops
  <2>1. Awaited' /\ UNCHANGED <<client, log>>
    BY <1>a, <1>18 DEF O!PanelStops, AgentParts, Awaited
  <2>2. \A q \in Creations : (Won(q)' => Won(q)) /\ (job'[q] = "working" => job[q] = "working")
    BY <1>a, <1>b, <1>18 DEF O!PanelStops, AgentParts, Awaited, Won
  <2> QED BY <1>c, <2>1, <2>2
<1>19. CASE O!AgentDies
  <2>1. Awaited' /\ UNCHANGED <<client, log>>
    BY <1>a, <1>19 DEF O!AgentDies, O!browser, O!audit, AgentParts, Awaited
  <2>2. \A q \in Creations : (Won(q)' => Won(q)) /\ (job'[q] = "working" => job[q] = "working")
    BY <1>a, <1>b, <1>19 DEF O!AgentDies, O!browser, O!audit, AgentParts, Awaited, Won
  <2> QED BY <1>c, <2>1, <2>2
<1>20. CASE UNCHANGED O!vars
  BY <1>20 DEF O!vars, AgentParts, Awaited, OneWorks, OneWins, Won, O!CreatedOnce
<1> QED BY <1>1, <1>2, <1>3, <1>4, <1>5, <1>6, <1>7, <1>8, <1>9, <1>10, <1>11, <1>12, <1>13, <1>14,
           <1>15, <1>16, <1>17, <1>18, <1>19, <1>20
        DEF O!Next, O!Handler

(* What is on record stays on record.                                      *)
LEMMA LogGrows ==
  ASSUME OperationsAssumption, O!TypeOK, [O!Next]_O!vars, NEW i \in O!Numbers
  PROVE  /\ log[i].ok \in Nat /\ (log[i].ok > 0 => log'[i].ok > 0)
         /\ log[i].failed => log'[i].failed
<1>1. i \in 0..MaxCount
  BY NumberFacts
<1>2. log[i].ok \in Nat
  BY <1>1 DEF O!TypeOK
<1>3. CASE UNCHANGED log
  BY <1>2, <1>3
<1>4. ASSUME NEW r \in O!Requests, O!Record(r)
      PROVE  (log[i].ok > 0 => log'[i].ok > 0) /\ (log[i].failed => log'[i].failed)
  <2>1. log'[i].ok = log[i].ok + 1 \/ log'[i].ok = log[i].ok
    BY <1>1, <1>4, RecordEffect
  <2>2. log[i].failed => log'[i].failed
    BY <1>1, <1>4, RecordEffect
  <2>3. log[i].ok > 0 => log'[i].ok > 0
    BY <1>2, <2>1
  <2> QED BY <2>2, <2>3
<1>5. UNCHANGED log \/ \E r \in O!Requests : O!Record(r)
  BY DEF O!Next, O!Handler, O!vars, O!audit, O!Post, O!Submit, O!Return, O!Reload, O!Unheard, O!Deny,
         O!Call, O!NoAgent, O!Hear, O!GiveUp, O!RecordFails, O!Begin, O!Issue, O!PostRestart,
         O!RestartBegins, O!RestartEnds, O!PanelStops, O!AgentDies
<1> QED BY <1>2, <1>3, <1>4, <1>5

(* Only what is on record is answered, collected and shown as created.     *)
LEMMA PanelSide ==
  /\ OperationsAssumption /\ O!TypeOK /\ Forward /\ Answered /\ Collected /\ [O!Next]_O!vars
  => Answered' /\ Collected'
<1> SUFFICES ASSUME OperationsAssumption, O!TypeOK, Forward, Answered, Collected, [O!Next]_O!vars
             PROVE  Answered' /\ Collected'
  OBVIOUS
<1>a. /\ loop \in [Loops -> O!Form]
      /\ panel \in [O!Requests -> {"idle", "received", "calling", "ok", "failed", "answered_ok", "answered_failed"}]
  BY DEF O!TypeOK
<1>b. \A r \in Creations : r \in O!Requests /\ O!Name(r) \in O!Numbers /\ r # O!Restart
  BY RequestNames
<1>c. \A i \in O!Numbers : log[i].ok > 0 => log'[i].ok > 0
  BY LogGrows
<1>d. UNCHANGED loop => Collected'
  BY <1>c DEF Collected
<1>e. (\A r \in Creations : panel'[r] = "answered_ok" => panel[r] = "answered_ok") => Answered'
  BY <1>b, <1>c DEF Answered
<1>1. ASSUME NEW l \in Loops, O!Post(l) PROVE Answered' /\ Collected'
  BY <1>a, <1>b, <1>d, <1>e, <1>1 DEF O!Post, O!agent, O!audit
<1>2. ASSUME NEW l \in Loops, NEW n \in O!Numbers, O!Submit(l, n) PROVE Answered' /\ Collected'
  <2>1. Answered'
    BY <1>e, <1>2 DEF O!Submit
  <2>2. /\ loop'[l].step = "sending" /\ loop'[l].next = 1
        /\ \A i \in O!Numbers : loop'[l].results[i] = "none"
        /\ \A k \in Loops \ {l} : loop'[k] = loop[k]
        /\ UNCHANGED log
    BY <1>a, <1>2 DEF O!Submit, O!NoForm, O!audit
  <2>3. \A i \in O!Numbers : ~ (i < 1)
    BY NumberFacts
  <2>4. Collected'
    BY <2>2, <2>3 DEF Collected
  <2> QED BY <2>1, <2>4
<1>3. ASSUME NEW l \in Loops, O!Return(l) PROVE Answered' /\ Collected'
  <2> DEFINE i == loop[l].next
  <2>1. /\ i \in O!Numbers /\ loop[l].step = "sending" /\ UNCHANGED log
        /\ i <= loop[l].count /\ i \in Nat /\ loop[l].count \in Nat
        /\ <<l, i>> \in Creations /\ O!Name(<<l, i>>) = i
    <3>1. loop[l].step = "sending" /\ UNCHANGED log
      BY <1>3 DEF O!Return, O!audit
    <3>2. i \in O!Numbers /\ loop[l].count \in 0..MaxCount
      BY <1>a DEF O!Form
    <3>3. i <= loop[l].count
      BY <3>1 DEF Forward
    <3>4. i \in Nat /\ loop[l].count \in Nat
      BY <3>2, NumberFacts DEF OperationsAssumption
    <3> QED BY <3>1, <3>2, <3>3, <3>4, RequestNames
  <2>2. Answered'
    <3>1. panel' = [panel EXCEPT ![<<l, i>>] = "idle"]
      BY <1>3 DEF O!Return
    <3> QED BY <1>a, <1>b, <1>e, <3>1
  <2>3. PICK out \in {"ok", "failed"} :
          /\ out = "ok" => panel[<<l, i>>] = "answered_ok"
          /\ loop' = [loop EXCEPT ![l].results[i] = out,
                                  ![l].next = IF i = loop[l].count THEN i ELSE i + 1,
                                  ![l].step = IF i = loop[l].count THEN "shown" ELSE "sending"]
    BY <1>3 DEF O!Return
  <2>4. out = "ok" => log[i].ok > 0
    BY <2>1, <2>3 DEF Answered
  <2> HIDE DEF i
  <2>5. /\ loop'[l].results = [loop[l].results EXCEPT ![i] = out]
        /\ loop'[l].count = loop[l].count
        /\ loop'[l].next = IF i = loop[l].count THEN i ELSE i + 1
        /\ loop'[l].step = IF i = loop[l].count THEN "shown" ELSE "sending"
        /\ \A k \in Loops \ {l} : loop'[k] = loop[k]
        /\ loop[l].results \in [O!Numbers -> {"none", "ok", "failed"}]
    BY <1>a, <2>3 DEF O!Form
  <2>6. \A j \in O!Numbers :
          /\ loop'[l].results[j] = "ok" => log[j].ok > 0
          /\ j < i \/ j = i => loop'[l].results[j] # "none"
    <3>1. \A j \in O!Numbers : /\ loop[l].results[j] = "ok" => log[j].ok > 0
                               /\ j < i => loop[l].results[j] # "none"
      BY <2>1 DEF Collected, i
    <3> QED BY <2>1, <2>4, <2>5, <3>1
  <2>7. \A j \in O!Numbers : /\ loop'[l].step = "sending" /\ j < loop'[l].next => j < i \/ j = i
                             /\ loop'[l].step = "shown" /\ j <= loop'[l].count => j < i \/ j = i
    <3> SUFFICES ASSUME NEW j \in O!Numbers
                 PROVE  /\ loop'[l].step = "sending" /\ j < loop'[l].next => j < i \/ j = i
                        /\ loop'[l].step = "shown" /\ j <= loop'[l].count => j < i \/ j = i
      OBVIOUS
    <3>1. j \in Nat
      BY NumberFacts
    <3> QED BY <2>1, <2>5, <3>1
  <2>8. Collected'
    BY <2>1, <2>5, <2>6, <2>7 DEF Collected
  <2> QED BY <2>2, <2>8
<1>4. ASSUME NEW l \in Loops, O!Reload(l) PROVE Answered' /\ Collected'
  <2>1. Answered'
    BY <1>e, <1>4 DEF O!Reload
  <2>2. /\ loop'[l].step = "idle"
        /\ \A i \in O!Numbers : loop'[l].results[i] = "none"
        /\ \A k \in Loops \ {l} : loop'[k] = loop[k]
        /\ UNCHANGED log
    BY <1>a, <1>4 DEF O!Reload, O!NoForm, O!audit
  <2>3. Collected'
    BY <2>2 DEF Collected
  <2> QED BY <2>1, <2>3
<1>5. ASSUME NEW r \in O!Requests, O!Unheard(r) PROVE Answered' /\ Collected'
  BY <1>a, <1>b, <1>d, <1>e, <1>5 DEF O!Unheard, O!agent, O!audit
<1>6. ASSUME NEW r \in O!Requests, O!Deny(r) PROVE Answered' /\ Collected'
  BY <1>a, <1>b, <1>d, <1>e, <1>6 DEF O!Deny, O!Step, O!agent, O!audit
<1>7. ASSUME NEW r \in O!Requests, O!Call(r) PROVE Answered' /\ Collected'
  BY <1>a, <1>b, <1>d, <1>e, <1>7 DEF O!Call, O!Step, O!audit
<1>8. ASSUME NEW r \in O!Requests, O!NoAgent(r) PROVE Answered' /\ Collected'
  BY <1>a, <1>b, <1>d, <1>e, <1>8 DEF O!NoAgent, O!Step, O!agent, O!audit
<1>9. ASSUME NEW r \in O!Requests, O!Hear(r) PROVE Answered' /\ Collected'
  BY <1>a, <1>b, <1>d, <1>e, <1>9 DEF O!Hear, O!Step, O!audit
<1>10. ASSUME NEW r \in O!Requests, O!GiveUp(r) PROVE Answered' /\ Collected'
  BY <1>a, <1>b, <1>d, <1>e, <1>10 DEF O!GiveUp, O!Step, O!audit
<1>11. ASSUME NEW r \in O!Requests, O!Record(r) PROVE Answered' /\ Collected'
  <2>1. UNCHANGED loop
    BY <1>11 DEF O!Record
  <2>2. \A i \in 0..MaxCount :
          log'[i].ok = IF i = O!Name(r) /\ panel[r] = "ok" THEN log[i].ok + 1 ELSE log[i].ok
    BY <1>11, RecordEffect
  <2>3. r \in Creations /\ panel[r] = "ok" => log'[O!Name(r)].ok > 0
    <3> SUFFICES ASSUME r \in Creations, panel[r] = "ok" PROVE log'[O!Name(r)].ok > 0
      OBVIOUS
    <3>1. O!Name(r) \in O!Numbers /\ O!Name(r) \in 0..MaxCount
      BY <1>b, NumberFacts
    <3>2. log[O!Name(r)].ok \in Nat /\ log'[O!Name(r)].ok = log[O!Name(r)].ok + 1
      BY <2>2, <3>1, LogGrows
    <3> QED BY <3>2
  <2>4. \A q \in Creations : panel'[q] = "answered_ok" => panel[q] = "answered_ok" \/ (q = r /\ panel[r] = "ok")
    BY <1>a, <1>b, <1>11, RecordEffect
  <2>5. Answered'
    BY <1>b, <1>c, <2>3, <2>4 DEF Answered
  <2> QED BY <1>d, <2>1, <2>5
<1>12. ASSUME NEW r \in O!Requests, O!RecordFails(r) PROVE Answered' /\ Collected'
  BY <1>a, <1>b, <1>d, <1>e, <1>12 DEF O!RecordFails, O!Step, O!agent
<1>13. ASSUME NEW r \in O!Requests, O!Begin(r) PROVE Answered' /\ Collected'
  BY <1>a, <1>b, <1>d, <1>e, <1>13 DEF O!Begin, O!Ends, O!browser, O!audit
<1>14. ASSUME NEW r \in O!Requests, O!Issue(r) PROVE Answered' /\ Collected'
  BY <1>a, <1>b, <1>d, <1>e, <1>14 DEF O!Issue, O!Ends, O!browser, O!audit
<1>15. CASE O!PostRestart
  BY <1>a, <1>b, <1>d, <1>e, <1>15 DEF O!PostRestart, O!agent, O!audit
<1>16. CASE O!RestartBegins
  BY <1>a, <1>b, <1>d, <1>e, <1>16 DEF O!RestartBegins, O!browser, O!audit
<1>17. CASE O!RestartEnds
  BY <1>a, <1>b, <1>d, <1>e, <1>17 DEF O!RestartEnds, O!Ends, O!browser, O!audit
<1>18. CASE O!PanelStops
  BY <1>a, <1>b, <1>d, <1>e, <1>18 DEF O!PanelStops
<1>19. CASE O!AgentDies
  BY <1>a, <1>b, <1>d, <1>e, <1>19 DEF O!AgentDies, O!browser, O!audit
<1>20. CASE UNCHANGED O!vars
  BY <1>d, <1>e, <1>20 DEF O!vars
<1> QED BY <1>1, <1>2, <1>3, <1>4, <1>5, <1>6, <1>7, <1>8, <1>9, <1>10, <1>11, <1>12, <1>13, <1>14,
           <1>15, <1>16, <1>17, <1>18, <1>19, <1>20
        DEF O!Next, O!Handler

Going == {"calling", "ok", "failed"}

(* A trace stays: who is under way leaves a row, or is known to have none. *)
LEMMA TraceStays ==
  ASSUME OperationsAssumption, O!TypeOK, [O!Next]_O!vars, NEW i \in O!Numbers, Trace(i)
  PROVE  Trace(i)'
<1>1. (log[i].ok > 0 => log'[i].ok > 0) /\ (log[i].failed => log'[i].failed)
  BY LogGrows
<1>2. /\ panel \in [O!Requests -> {"idle", "received", "calling", "ok", "failed", "answered_ok", "answered_failed"}]
      /\ O!Restart \notin Creations
  BY RequestNames DEF O!TypeOK
<1>3. \A q \in Creations : q \in O!Requests /\ q # O!Restart
  BY RequestNames
<1>4. unlogged \subseteq unlogged'
  BY DEF O!Next, O!Handler, O!vars, O!audit, O!Post, O!Submit, O!Return, O!Reload, O!Unheard, O!Deny,
         O!Call, O!NoAgent, O!Hear, O!GiveUp, O!Record, O!RecordFails, O!Begin, O!Issue,
         O!PostRestart, O!RestartBegins, O!RestartEnds, O!PanelStops, O!AgentDies
<1>5. ASSUME NEW q \in Creations, O!Name(q) = i, panel[q] \in Going PROVE Trace(i)'
  <2>0. q \in O!Requests /\ q # O!Restart
    BY <1>3
  <2>1. CASE panel'[q] \in Going
    <3>1. i \in O!UnderWay'
      BY <1>5, <2>0, <2>1 DEF O!UnderWay, Going
    <3> QED BY <3>1 DEF Trace
  <2>2. ASSUME NEW r \in O!Requests, O!Record(r), r = q PROVE Trace(i)'
    <3>1. CASE panel[q] = "failed"
      <4>1. log'[i].failed
        BY <1>5, <2>2, <3>1, RecordEffect
      <4> QED BY <4>1 DEF Trace
    <3>2. CASE panel[q] = "ok"
      <4>1. i \in 0..MaxCount /\ log[i].ok \in Nat
        BY LogGrows, NumberFacts
      <4>2. log'[i].ok = log[i].ok + 1
        BY <1>5, <2>2, <3>2, <4>1, RecordEffect
      <4>3. log'[i].ok > 0
        BY <4>1, <4>2
      <4> QED BY <4>3 DEF Trace
    <3> QED BY <2>2, <3>1, <3>2, RecordEffect
  <2>3. ASSUME NEW r \in O!Requests, O!RecordFails(r), r = q PROVE Trace(i)'
    BY <1>5, <2>3 DEF O!RecordFails, Trace
  <2>4. CASE O!PanelStops
    <3>1. i \in O!UnderWay
      BY <1>5, <2>0 DEF O!UnderWay, Going
    <3> QED BY <2>4, <3>1 DEF O!PanelStops, Trace
  <2>5. ASSUME NEW r \in O!Requests, O!Record(r) \/ O!RecordFails(r), r # q PROVE panel'[q] \in Going
    BY <1>2, <1>5, <2>0, <2>5 DEF O!Record, O!RecordFails, O!Step
  <2>6. ASSUME NEW l \in Loops, O!Post(l) \/ O!Return(l) \/ O!Reload(l) \/ \E n \in O!Numbers : O!Submit(l, n)
        PROVE  panel'[q] \in Going
    BY <1>2, <1>5, <2>0, <2>6 DEF O!Post, O!Return, O!Reload, O!Submit, Going
  <2>7. ASSUME NEW r \in O!Requests,
               \/ O!Unheard(r) \/ O!Deny(r) \/ O!Call(r) \/ O!NoAgent(r) \/ O!Hear(r) \/ O!GiveUp(r)
               \/ O!Begin(r) \/ O!Issue(r)
        PROVE  panel'[q] \in Going
    BY <1>2, <1>5, <2>0, <2>7
       DEF O!Unheard, O!Deny, O!Call, O!NoAgent, O!Hear, O!GiveUp, O!Begin, O!Issue, O!Step, Going
  <2>8. O!PostRestart \/ O!RestartBegins \/ O!RestartEnds \/ O!AgentDies \/ UNCHANGED O!vars
        => panel'[q] \in Going
    BY <1>2, <1>5, <2>0
       DEF O!PostRestart, O!RestartBegins, O!RestartEnds, O!AgentDies, O!vars, Going
  <2> QED BY <2>1, <2>2, <2>3, <2>4, <2>5, <2>6, <2>7, <2>8 DEF O!Next, O!Handler
<1>6. CASE i \in O!UnderWay
  <2>1. PICK q \in O!Requests : O!Name(q) = i /\ panel[q] \in Going
    BY <1>6 DEF O!UnderWay, Going
  <2>2. q \in Creations
    BY <2>1, RequestNames
  <2> QED BY <1>5, <2>1, <2>2
<1> QED BY <1>1, <1>4, <1>6 DEF Trace

(* No client without a trace: what the agent was asked leaves one before   *)
(* it makes a client, whether or not anybody still waits for it.           *)
LEMMA TracedStep == OperationsAssumption /\ O!TypeOK /\ Traced /\ [O!Next]_O!vars => Traced'
<1> SUFFICES ASSUME OperationsAssumption, O!TypeOK, Traced, [O!Next]_O!vars PROVE Traced'
  OBVIOUS
<1>a. \A i \in O!Numbers : Trace(i) => Trace(i)'
  BY TraceStays
<1>b. /\ panel \in [O!Requests -> {"idle", "received", "calling", "ok", "failed", "answered_ok", "answered_failed"}]
      /\ job \in [O!Requests -> {"idle", "queued", "working", "done", "failed"}]
      /\ client \in [O!Numbers -> {"none", "row", "made", "error"}]
  BY DEF O!TypeOK
<1>c. \A r \in Creations : r \in O!Requests /\ O!Name(r) \in O!Numbers /\ r # O!Restart
  BY RequestNames
<1> DEFINE Asked(r) == job[r] \in {"queued", "working"}
           Asked1(r) == job'[r] \in {"queued", "working"}
           Made(i) == client[i] = "made"
           Made1(i) == client'[i] = "made"
<1>d. ASSUME \A r \in Creations : Asked1(r) => Asked(r), \A i \in O!Numbers : Made1(i) => Made(i)
      PROVE  Traced'
  BY <1>a, <1>c, <1>d DEF Traced
<1>1. ASSUME NEW r \in O!Requests, O!Call(r) PROVE Traced'
  <2>1. O!Name(r) \in O!UnderWay'
    BY <1>b, <1>1 DEF O!Call, O!Step, O!UnderWay
  <2>2. \A q \in Creations : Asked1(q) => Asked(q) \/ q = r
    BY <1>b, <1>c, <1>1 DEF O!Call
  <2>3. client' = client /\ Trace(O!Name(r))'
    BY <1>1, <2>1 DEF O!Call, Trace
  <2> QED BY <1>a, <1>c, <2>2, <2>3 DEF Traced
<1>2. ASSUME NEW r \in O!Requests, O!Issue(r) PROVE Traced'
  <2>1. r \in Creations /\ Asked(r) /\ O!Name(r) \in O!Numbers
    BY <1>2, RequestNames DEF O!Issue
  <2>2. \A q \in Creations : Asked1(q) => Asked(q)
    BY <1>b, <1>c, <1>2 DEF O!Issue, O!Ends
  <2>3. \A i \in O!Numbers : Made1(i) => Made(i) \/ i = O!Name(r)
    BY <1>b, <1>2, <2>1 DEF O!Issue
  <2>4. Trace(O!Name(r))
    BY <2>1 DEF Traced
  <2> QED BY <1>a, <1>c, <2>1, <2>2, <2>3, <2>4 DEF Traced
<1>3. ASSUME NEW l \in Loops, O!Post(l) \/ O!Return(l) \/ O!Reload(l) \/ \E n \in O!Numbers : O!Submit(l, n)
      PROVE  Traced'
  <2>1. UNCHANGED <<job, client>>
    BY <1>3 DEF O!Post, O!Return, O!Reload, O!Submit, O!agent
  <2> QED BY <1>d, <2>1
<1>4. ASSUME NEW r \in O!Requests,
             O!Unheard(r) \/ O!Deny(r) \/ O!NoAgent(r) \/ O!Record(r) \/ O!RecordFails(r)
      PROVE  Traced'
  <2>1. UNCHANGED <<job, client>>
    BY <1>4 DEF O!Unheard, O!Deny, O!NoAgent, O!Record, O!RecordFails, O!agent
  <2> QED BY <1>d, <2>1
<1>5. ASSUME NEW r \in O!Requests, O!Hear(r) \/ O!GiveUp(r) \/ O!Begin(r) PROVE Traced'
  <2>1. \A q \in Creations : Asked1(q) => Asked(q)
    BY <1>b, <1>c, <1>5 DEF O!Hear, O!GiveUp, O!Begin, O!Ends
  <2>2. \A i \in O!Numbers : Made1(i) => Made(i)
    BY <1>b, <1>5 DEF O!Hear, O!GiveUp, O!Begin
  <2> QED BY <1>d, <2>1, <2>2
<1>6. CASE O!RestartBegins \/ O!RestartEnds
  <2>1. \A q \in Creations : Asked1(q) => Asked(q)
    BY <1>b, <1>c, <1>6 DEF O!RestartBegins, O!RestartEnds, O!Ends
  <2>2. UNCHANGED client
    BY <1>6 DEF O!RestartBegins, O!RestartEnds
  <2> QED BY <1>d, <2>1, <2>2
<1>7. CASE O!PostRestart \/ O!PanelStops \/ O!AgentDies \/ UNCHANGED O!vars
  <2>1. \A q \in Creations : Asked1(q) => Asked(q)
    BY <1>b, <1>c, <1>7 DEF O!PostRestart, O!PanelStops, O!AgentDies, O!vars, O!agent
  <2>2. UNCHANGED client
    BY <1>7 DEF O!PostRestart, O!PanelStops, O!AgentDies, O!vars, O!agent
  <2> QED BY <1>d, <2>1, <2>2
<1> QED BY <1>1, <1>2, <1>3, <1>4, <1>5, <1>6, <1>7 DEF O!Next, O!Handler

\* They hold in every state of the forms and of who answers them.
LEMMA RecordInvariant == CommandsSpec => []RecordInv
<1> USE CommandsAssumed
<1>1. CommandsInit => RecordInv
  <2> SUFFICES ASSUME O!Init PROVE RecordInv
    BY DEF CommandsInit
  <2>1. O!NoForm \in O!Form /\ O!NoForm.step = "idle" /\ \A i \in O!Numbers : O!NoForm.results[i] = "none"
    BY NumberFacts DEF O!NoForm, O!Form
  <2>2. \A i \in 0..MaxCount : log[i].ok = 0
    BY DEF O!Init
  <2>3. log \in [0..MaxCount -> [ok : Nat, failed : BOOLEAN]]
    <3>1. ASSUME NEW f \in BOOLEAN PROVE [ok |-> 0, failed |-> f] \in [ok : Nat, failed : BOOLEAN]
      OBVIOUS
    <3>2. FALSE \in BOOLEAN
      OBVIOUS
    <3>3. [ok |-> 0, failed |-> FALSE] \in [ok : Nat, failed : BOOLEAN]
      BY Zenon, <3>1, <3>2
    <3> QED BY Zenon, <3>3 DEF O!Init
  <2>4. O!TypeOK
    BY <2>1, <2>3 DEF O!Init, O!TypeOK
  <2>5. Forward /\ Collected
    BY <2>1 DEF O!Init, Forward, Collected
  <2>6. Awaited /\ OneWorks /\ OneWins /\ Answered /\ Traced
    BY RequestNames DEF O!Init, Awaited, OneWorks, OneWins, Won, Answered, Traced
  <2>7. O!CreatedOnce
    BY <2>2, NumberFacts DEF O!Init, O!CreatedOnce
  <2> QED BY <2>4, <2>5, <2>6, <2>7 DEF RecordInv, RecordParts
<1>2. RecordInv /\ [O!Next]_O!vars => RecordInv'
  BY RecordTypes, AgentSide, PanelSide, TracedStep DEF RecordInv, RecordParts, AgentParts
<1>3. [CommandsNext]_<<part, vars, host, forms>> => [O!Next]_O!vars
  BY DEF CommandsNext, forms, O!vars
<1> QED BY <1>1, <1>2, <1>3, PTL DEF CommandsSpec

(* However often a form is submitted, whoever gives up, stops or dies:     *)
(* a name is created once, what a form shows as created is on record, and  *)
(* no client comes into being without a trace (app.js:103, app.py:75-83,   *)
(* agent.py:165).                                                          *)
THEOREM CreationsOnRecordHolds == CommandsSpec => []CreationsOnRecord
<1> USE CommandsAssumed
<1>1. RecordInv => CreationsOnRecord
  <2> SUFFICES ASSUME RecordInv PROVE O!ResultsAreLogged /\ O!CreatedIsLogged
    BY DEF RecordInv, RecordParts, CreationsOnRecord, O!CreationsOnRecord
  <2>1. O!ResultsAreLogged
    <3> SUFFICES ASSUME NEW l \in Loops, loop[l].step = "shown", NEW i \in 1..loop[l].count
                 PROVE  /\ loop[l].results[i] # "none"
                        /\ loop[l].results[i] = "ok" => log[i].ok > 0
      BY DEF O!ResultsAreLogged
    <3>1. i \in O!Numbers /\ i <= loop[l].count
      BY DEF RecordInv, O!TypeOK, O!Form, O!Numbers, OperationsAssumption
    <3> QED BY <3>1 DEF RecordInv, RecordParts, Collected
  <2>2. O!CreatedIsLogged
    BY DEF RecordInv, RecordParts, Traced, Trace, O!CreatedIsLogged
  <2> QED BY <2>1, <2>2
<1> QED BY <1>1, RecordInvariant, PTL

(* Backups move in it as they do alone, so what was proved of Backup holds *)
(* beside scripts and forms; all of it keeps its types.                    *)
THEOREM CommandsTypesHold == CommandsSpec => []CommandsTypeOK
<1>1. CommandsInit => Init
  BY DEF CommandsInit
<1>2. [CommandsNext]_<<part, vars, host, forms>> => [Next]_vars
  BY DEF CommandsNext, vars
<1>3. CommandsSpec => Spec
  BY <1>1, <1>2, PTL DEF CommandsSpec, Spec
<1>4. TypeOK /\ HostInv /\ RecordInv => CommandsTypeOK
  BY DEF HostInv, RecordInv, CommandsTypeOK
<1> QED BY <1>3, <1>4, TypeCorrect, HostInvariant, RecordInvariant, PTL
=============================================================================
