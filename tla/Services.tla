------------------------------ MODULE Services ------------------------------
(***************************************************************************)
(* The services and the three scripts that stop and start them: install.sh *)
(* with its rollback, backup.sh and upgrade.sh, against systemd's BindsTo, *)
(* the agent's watchdog, crashes and restarts asked for in the panel.      *)
(*                                                                         *)
(* One script runs at a time; `pc` is its next step, and every step may     *)
(* fail.  What a step does not do to services, configuration or unit files *)
(* is left out.                                                            *)
(***************************************************************************)
EXTENDS Naturals

CONSTANTS Limit,    \* ticks of failed monitoring before the watchdog acts
          Faults    \* whether systemd may fail: a crashed agent, a VPN that does not come up,
                    \* steps of the rollback and of the trap

VARIABLES agent, vpn, web,
          running,    \* the configuration OpenVPN was started with
          age,        \* ticks since the monitor's last success, up to Limit
          asked,      \* a restart asked for in the panel, still to be made by the agent
          conf,       \* server.conf
          dropin,     \* the unit's drop-in with BindsTo, on disk
          bound,      \* ... as systemd has loaded it
          units,      \* the unit files of agent and panel
          env,        \* panel.env, the mark of an installation
          complete,   \* history: install.sh came to its end
          pc,         \* the next step of the running script
          caller,     \* who runs backup.sh
          restored,   \* history: "yes" once rolled back, until a script or an administrator
                      \* acts; "partly", for good, if a step of the rollback failed
          halted      \* history: the step at which an upgrade failed, until somebody starts anything

units_ == <<agent, vpn, web, running, age, asked>>
files == <<conf, dropin, bound, units, env>>
history == <<complete, restored, halted>>
vars == <<units_, files, history, pc, caller>>

Init ==
  /\ agent = "off" /\ vpn = "on" /\ web = FALSE /\ running = "plain" /\ age = 0 /\ asked = FALSE
  /\ conf = "plain" /\ dropin = FALSE /\ bound = FALSE /\ units = FALSE /\ env = FALSE
  /\ complete = FALSE /\ restored = "no" /\ halted = "no"
  /\ pc = "none" /\ caller = "admin"

-----------------------------------------------------------------------------
\* systemctl.
StartAgent == agent' = "on" /\ age' = 0 /\ UNCHANGED <<vpn, web, running, asked>>
StopAgent(w) ==
  /\ agent' = "off" /\ asked' = FALSE /\ web' = w
  /\ vpn' = IF bound THEN "off" ELSE vpn
  /\ UNCHANGED <<running, age>>
StopVpn == vpn' = "off" /\ UNCHANGED <<agent, web, running, age, asked>>
RestartVpn ==
  /\ vpn' = "starting" /\ running' = conf
  /\ agent' = IF bound THEN "on" ELSE agent
  /\ age' = IF agent' = agent THEN age ELSE 0
  /\ UNCHANGED <<web, asked>>
StopWeb == web' = FALSE /\ UNCHANGED <<agent, vpn, running, age, asked>>
\* The panel's unit wants the agent.
StartWeb ==
  /\ web' = TRUE /\ agent' = "on" /\ age' = IF agent = "on" THEN age ELSE 0
  /\ UNCHANGED <<vpn, running, asked>>

Step(from, to) == pc = from /\ pc' = to
\* A start that was waited for is over, and did not fail.
Ended == vpn # "starting"
Started == vpn \notin {"starting", "failed"}
Acted == restored' = (IF restored = "partly" THEN restored ELSE "no") /\ halted' = "no"

-----------------------------------------------------------------------------
\* install.sh, over a working OpenVPN whose configuration nobody has adapted.
InstallStart ==
  /\ ~env /\ vpn = "on" /\ conf = "plain"
  /\ Step("none", "i env")
  /\ UNCHANGED <<units_, files, history, caller>>
WriteEnv ==
  /\ Step("i env", "i owner") /\ env' = TRUE
  /\ UNCHANGED <<units_, conf, dropin, bound, units, history, caller>>
CreateOwner ==
  /\ Step("i owner", "i conf")
  /\ UNCHANGED <<units_, files, history, caller>>
EditConf ==
  /\ Step("i conf", "i units") /\ conf' = "panel"
  /\ UNCHANGED <<units_, dropin, bound, units, env, history, caller>>
\* A variant that a property must tell apart: no BindsTo.
WriteUnitsOnly ==
  /\ Step("i units", "i reload") /\ units' = TRUE
  /\ UNCHANGED <<units_, conf, dropin, bound, env, history, caller>>
WriteUnits ==
  /\ Step("i units", "i reload") /\ units' = TRUE /\ dropin' = TRUE
  /\ UNCHANGED <<units_, conf, bound, env, history, caller>>
\* systemd may stop at once what is now bound to a service that does not run.
InstallReload ==
  /\ Step("i reload", "i agent") /\ bound' = dropin
  /\ UNCHANGED units_ \/ StopVpn
  /\ UNCHANGED <<conf, dropin, units, env, history, caller>>
InstallAgent ==
  /\ Step("i agent", "i socket") /\ StartAgent
  /\ UNCHANGED <<files, history, caller>>
InstallSocket ==
  /\ Step("i socket", "i vpn")
  /\ UNCHANGED <<units_, files, history, caller>>
InstallVpn ==
  /\ Step("i vpn", "i web") /\ RestartVpn
  /\ UNCHANGED <<files, history, caller>>
InstallWeb ==
  /\ Started /\ Step("i web", "i health") /\ StartWeb
  /\ UNCHANGED <<files, history, caller>>
InstallDone ==
  /\ vpn = "on" /\ Step("i health", "none") /\ complete' = TRUE
  /\ UNCHANGED <<units_, files, restored, halted, caller>>

\* A step fails: before the trap the script just ends, after it it rolls back.
InstallExits ==
  /\ pc \in {"i env", "i owner"} /\ pc' = "none"
  /\ UNCHANGED <<units_, files, history, caller>>
InstallFails ==
  /\ pc \in {"i conf", "i units", "i reload", "i agent", "i socket", "i vpn", "i web", "i health"}
  /\ Ended /\ pc' = "r stop"
  /\ UNCHANGED <<units_, files, history, caller>>

\* A variant that properties must tell apart: the monitor is stopped last.
RollbackStopLate ==
  /\ Step("r stop", "r conf")
  /\ UNCHANGED <<units_, files, history, caller>>
RollbackStop ==
  /\ Step("r stop", "r conf") /\ StopAgent(FALSE)
  /\ UNCHANGED <<files, history, caller>>
\* `|| true`: the rollback goes on with what could not be stopped.
RollbackStopFails ==
  /\ Faults /\ Step("r stop", "r conf") /\ restored' = "partly"
  /\ StopWeb \/ StopAgent(web) \/ UNCHANGED units_
  /\ UNCHANGED <<files, complete, halted, caller>>
RollbackConf ==
  /\ Step("r conf", "r dropin") /\ conf' = "plain"
  /\ UNCHANGED <<units_, dropin, bound, units, env, history, caller>>
RollbackDropin ==
  /\ Step("r dropin", "r reload") /\ dropin' = FALSE
  /\ UNCHANGED <<units_, conf, bound, units, env, history, caller>>
RollbackReload ==
  /\ Step("r reload", "r vpn") /\ bound' = dropin
  /\ UNCHANGED <<units_, conf, dropin, units, env, history, caller>>
RollbackVpn ==
  /\ Step("r vpn", "r end") /\ RestartVpn
  /\ UNCHANGED <<files, history, caller>>
\* `|| true` again: whether or not OpenVPN came up.
RollbackEnd ==
  /\ Ended /\ Step("r end", "none") /\ restored' = (IF restored = "partly" THEN restored ELSE "yes")
  /\ UNCHANGED <<units_, files, complete, halted, caller>>
\* cp, rm or daemon-reload fails: `set -e` ends the trap.
RollbackFails ==
  /\ Faults /\ pc \in {"r conf", "r dropin", "r reload"} /\ pc' = "none" /\ restored' = "partly"
  /\ UNCHANGED <<units_, files, complete, halted, caller>>

-----------------------------------------------------------------------------
\* backup.sh, by itself or as the first step of upgrade.sh.
BackupStart(who) ==
  /\ env /\ Step("none", "b web") /\ caller' = who
  /\ Acted
  /\ UNCHANGED <<units_, files, complete>>
BackupWeb ==
  /\ units /\ Step("b web", "b vpn") /\ StopWeb
  /\ UNCHANGED <<files, history, caller>>
BackupVpn ==
  /\ Step("b vpn", "b agent") /\ StopVpn
  /\ UNCHANGED <<files, history, caller>>
\* A variant that a property must tell apart: the agent is left alone.
BackupAgentNot ==
  /\ Step("b agent", "b tar")
  /\ UNCHANGED <<units_, files, history, caller>>
BackupAgent ==
  /\ Step("b agent", "b tar") /\ StopAgent(FALSE)
  /\ UNCHANGED <<files, history, caller>>
BackupTar ==
  /\ dropin /\ Step("b tar", "b encrypt")
  /\ UNCHANGED <<units_, files, history, caller>>
BackupEncrypt ==
  /\ Step("b encrypt", "c agent")
  /\ UNCHANGED <<units_, files, history, caller>>
\* A variant that a property must tell apart: no trap.
BackupFailsBare ==
  /\ pc \in {"b web", "b vpn", "b agent", "b tar", "b encrypt"}
  /\ pc' = "none" /\ caller' = "admin"
  /\ UNCHANGED <<units_, files, history>>
\* The trap resumes the services; an upgrade ends with its backup.
BackupFails ==
  /\ pc \in {"b web", "b vpn", "b agent", "b tar", "b encrypt"}
  /\ pc' = "c agent" /\ caller' = "admin"
  /\ UNCHANGED <<units_, files, history>>

ResumeAgent ==
  /\ units /\ Step("c agent", "c vpn")
  /\ IF agent = "on" THEN UNCHANGED units_ ELSE StartAgent
  /\ UNCHANGED <<files, history, caller>>
\* A `systemctl start` fails, the first one for sure if there is no unit, and `set -e`
\* ends the trap and the upgrade.
ResumeEnds ==
  /\ (pc = "c agent" /\ ~units) \/ (Faults /\ Ended /\ pc \in {"c agent", "c vpn", "c web"})
  /\ pc' = "none" /\ caller' = "admin"
  /\ UNCHANGED <<units_, files, history>>
ResumeVpn ==
  /\ Step("c vpn", "c web") /\ (IF vpn = "on" THEN UNCHANGED units_ ELSE RestartVpn)
  /\ UNCHANGED <<files, history, caller>>
ResumeWeb ==
  /\ Started /\ pc = "c web" /\ StartWeb
  /\ pc' = IF caller = "upgrade" THEN "u web" ELSE "none"
  /\ UNCHANGED <<files, history, caller>>

-----------------------------------------------------------------------------
\* upgrade.sh after its backup.
UpgradeWeb ==
  /\ Step("u web", "u vpn") /\ StopWeb
  /\ UNCHANGED <<files, history, caller>>
UpgradeVpn ==
  /\ Step("u vpn", "u agent") /\ StopVpn
  /\ UNCHANGED <<files, history, caller>>
\* A variant that a property must tell apart: the agent is left alone.
UpgradeAgentNot ==
  /\ Step("u agent", "u copy")
  /\ UNCHANGED <<units_, files, history, caller>>
UpgradeAgent ==
  /\ Step("u agent", "u copy") /\ StopAgent(FALSE)
  /\ UNCHANGED <<files, history, caller>>
UpgradeCopy ==
  /\ Step("u copy", "u start")
  /\ UNCHANGED <<units_, files, history, caller>>
\* No trap here: the services stay as the steps before have left them.
UpgradeFails ==
  /\ pc \in {"u web", "u vpn", "u agent", "u copy", "u start", "u up", "u panel"}
  /\ Ended /\ pc' = "none" /\ halted' = pc
  /\ UNCHANGED <<units_, files, complete, restored, caller>>
UpgradeStart ==
  /\ Step("u start", "u socket") /\ StartAgent
  /\ UNCHANGED <<files, history, caller>>
UpgradeSocket ==
  /\ Step("u socket", "u up")
  /\ UNCHANGED <<units_, files, history, caller>>
UpgradeUp ==
  /\ Step("u up", "u panel") /\ (IF vpn = "on" THEN UNCHANGED units_ ELSE RestartVpn)
  /\ UNCHANGED <<files, history, caller>>
UpgradePanel ==
  /\ Started /\ Step("u panel", "none") /\ StartWeb
  /\ UNCHANGED <<files, history, caller>>

-----------------------------------------------------------------------------
\* OpenVPN comes up: faster than a tick.
VpnUp ==
  /\ vpn = "starting" /\ vpn' = "on"
  /\ UNCHANGED <<agent, web, running, age, asked, files, history, pc, caller>>

\* Or it does not; then systemd may try again, as the unit says.
VpnFails ==
  /\ Faults /\ vpn = "starting" /\ vpn' = "failed"
  /\ UNCHANGED <<agent, web, running, age, asked, files, history, pc, caller>>
VpnRetry ==
  /\ vpn = "failed" /\ RestartVpn
  /\ UNCHANGED <<files, history, pc, caller>>

Monitored == vpn = "on" /\ running = "panel"

\* Scripts pass time only where they wait: for input, archives, downloads, the socket.
Waits == {"none", "i env", "i owner", "i socket", "i health", "b tar", "b encrypt", "u copy", "u socket"}
Tick ==
  /\ Ended /\ pc \in Waits
  /\ age' = IF agent # "on" \/ Monitored THEN 0 ELSE IF age < Limit THEN age + 1 ELSE age
  /\ UNCHANGED <<agent, vpn, web, running, asked, files, history, pc, caller>>

\* The monitor's watchdog.
Watchdog ==
  /\ agent = "on" /\ age = Limit /\ ~Monitored
  /\ vpn' = "off" /\ age' = 0
  /\ UNCHANGED <<agent, web, running, asked, files, history, pc, caller>>

AgentCrash ==
  /\ Faults /\ agent = "on"
  /\ agent' = "crashed" /\ asked' = FALSE /\ vpn' = IF bound THEN "off" ELSE vpn
  /\ UNCHANGED <<web, running, age, files, history, pc, caller>>
AgentRestart ==
  /\ agent = "crashed" /\ StartAgent
  /\ UNCHANGED <<files, history, pc, caller>>

AskRestart ==
  /\ web /\ agent = "on" /\ asked' = TRUE
  /\ UNCHANGED <<agent, vpn, web, running, age, files, history, pc, caller>>
AgentRestartsVpn ==
  /\ asked /\ asked' = FALSE
  /\ vpn' = "starting" /\ running' = conf
  /\ UNCHANGED <<agent, web, age, files, history, pc, caller>>

\* "Start it from systemd", after the VPN was stopped or did not come up.
AdminStarts ==
  /\ pc = "none" /\ vpn \in {"off", "failed"} /\ RestartVpn
  /\ Acted
  /\ UNCHANGED <<files, complete, pc, caller>>

Install ==
  \/ InstallStart \/ WriteEnv \/ CreateOwner \/ EditConf \/ WriteUnits \/ InstallReload \/ InstallAgent
  \/ InstallSocket \/ InstallVpn \/ InstallWeb \/ InstallDone \/ InstallExits \/ InstallFails
Rollback ==
  \/ RollbackStop \/ RollbackStopFails \/ RollbackFails \/ RollbackConf \/ RollbackDropin \/ RollbackReload \/ RollbackVpn \/ RollbackEnd
Backup ==
  \/ BackupWeb \/ BackupVpn \/ BackupAgent \/ BackupTar \/ BackupEncrypt \/ BackupFails
  \/ ResumeAgent \/ ResumeEnds \/ ResumeVpn \/ ResumeWeb
Upgrade ==
  \/ UpgradeWeb \/ UpgradeVpn \/ UpgradeAgent \/ UpgradeCopy \/ UpgradeFails
  \/ UpgradeStart \/ UpgradeSocket \/ UpgradeUp \/ UpgradePanel

Next ==
  \/ Install \/ Rollback \/ Backup \/ Upgrade
  \/ \E who \in {"admin", "upgrade"} : BackupStart(who)
  \/ VpnUp \/ VpnFails \/ VpnRetry \/ Tick \/ Watchdog \/ AgentCrash \/ AgentRestart
  \/ AskRestart \/ AgentRestartsVpn \/ AdminStarts

Spec == Init /\ [][Next]_vars

\* Scripts and systemd go on.
FairSpec == Spec /\ WF_vars(Backup) /\ WF_vars(VpnUp)

-----------------------------------------------------------------------------
Scripts == {"none", "i env", "i owner", "i conf", "i units", "i reload", "i agent", "i socket", "i vpn",
            "i web", "i health", "r stop", "r conf", "r dropin", "r reload", "r vpn", "r end",
            "b web", "b vpn", "b agent", "b tar", "b encrypt", "c agent", "c vpn", "c web",
            "u web", "u vpn", "u agent", "u copy", "u start", "u socket", "u up", "u panel"}

TypeOK ==
  /\ agent \in {"off", "on", "crashed"} /\ vpn \in {"off", "starting", "on", "failed"} /\ running \in {"plain", "panel"}
  /\ age \in 0..Limit /\ conf \in {"plain", "panel"} /\ caller \in {"admin", "upgrade"} /\ pc \in Scripts
  /\ web \in BOOLEAN /\ asked \in BOOLEAN /\ dropin \in BOOLEAN /\ bound \in BOOLEAN /\ units \in BOOLEAN
  /\ env \in BOOLEAN /\ complete \in BOOLEAN /\ restored \in {"no", "yes", "partly"}
  /\ halted \in {"no", "u web", "u vpn", "u agent", "u copy", "u start", "u up", "u panel"}

\* "Offline-consistent": while the archive of an installed panel is made nothing runs that
\* writes to what is archived, restarts asked for before and systemd's own included
\* (backup.sh:2, 16-19).  After a rollback there is no drop-in and no archive: tar fails;
\* after one that failed itself there may be one that systemd has not loaded.
BackupOffline ==
  pc \in {"b tar", "b encrypt"} /\ dropin /\ restored # "partly" => vpn = "off" /\ agent = "off" /\ ~web

\* An OpenVPN with the panel's configuration never runs without the agent, whichever
\* script is at whichever step, whoever crashes and whatever fails but a rollback
\* (README.md:64).
Supervised ==
  vpn \in {"starting", "on"} /\ running = "panel" /\ restored # "partly" => agent = "on"

\* Whatever step of the installation failed, a rollback whose own steps do not fail leaves the
\* original VPN unbound, and no monitor that would stop it: nobody has stopped it, it runs
\* unless OpenVPN itself did not come up (install.sh:85-97).
RollbackRestores ==
  restored = "yes" => vpn # "off" /\ running = "plain" /\ agent = "off" /\ ~bound /\ ~web

\* An upgrade that failed once the panel was stopped leaves it stopped, and one that failed
\* before it started the agent again, its files half replaced, leaves the agent stopped and
\* the VPN, but for a rollback that failed before, until somebody starts it (upgrade.sh:9-25,
\* README.md:134).
HaltedStaysStopped ==
  /\ halted \notin {"no", "u web"} => ~web
  /\ halted \in {"u copy", "u start"} => agent = "off" /\ (restored # "partly" => vpn = "off")

\* A script that fails leaves the services as it says.
FailuresEndWell == RollbackRestores /\ HaltedStaysStopped

\* A backup of an installed panel that stopped the services starts all of them again,
\* whether or not it succeeds, if they can be started.
BackupResumes == pc = "b tar" /\ dropin ~> agent = "on" /\ vpn = "on" /\ web

\* BackupOffline and Supervised after a rollback that failed, too.  (TLC refutes both:
\* README.md, section 7.)
OfflineAlways == pc \in {"b tar", "b encrypt"} /\ dropin => vpn = "off" /\ agent = "off" /\ ~web
SupervisedAlways == vpn \in {"starting", "on"} /\ running = "panel" => agent = "on"

\* A failed upgrade leaves everything stopped, whichever its step.  (TLC refutes this:
\* README.md, section 7.)
FailedStaysStopped == halted # "no" => vpn = "off" /\ agent = "off" /\ ~web

\* A rolled-back VPN runs.  (TLC refutes this: README.md, section 7.)
RestoredRuns == restored = "yes" => vpn = "on"

\* "MehrVPN is already installed": what install.sh finds to be an installation is one.
\* (TLC refutes this: README.md, section 7.)
EnvIsInstalled == env /\ pc = "none" => complete

\* "otherwise it would stop the restored VPN": no script over, the monitor does not stop
\* an OpenVPN that never had its management socket.  (TLC refutes this: README.md, section 7.)
PlainIsLeftAlone == [][vpn = "on" /\ running = "plain" /\ pc = "none" => vpn' # "off"]_vars

\* "Start it from the panel or systemd": a start that is under way is not undone by the agent.
\* (TLC refutes this: README.md, section 7.)
StartedComesUp == [][vpn = "starting" /\ agent = "on" /\ agent' = "on" /\ pc = "none" => vpn' # "off"]_vars
=============================================================================
