# MehrVPN in TLA+

This directory holds a verification development of MehrVPN, a web panel for one
OpenVPN server: TLA+ models of its parts, TLC configurations that check them on
small instances, and proofs, checked by TLAPS, of the theorems that hold for
every instance.  Paths below are relative to the repository.

## 1. The system

Four kinds of process share a host.

| Part | Source | State it keeps | Operations |
|---|---|---|---|
| Accounting tables | `panel/accounting.py`, `panel/core.py` | SQLite `clients` (state, quota, expiry, usage) and `counters` (one row per VPN session) | `add`, `update`, `account`, `reset`, `allowed`, `list`; each one `BEGIN IMMEDIATE` transaction |
| Agent: monitor | `panel/agent.py` `monitor` | `live`, `last_ok`, `failures_since`, `error` | every ~2 s: status snapshot, account rows, publish, judge, kill; watchdog that stops the VPN |
| Agent: hook handlers | `panel/agent.py` `dispatch(hook=True)`, `panel/hook.py` | none of their own | `check` (may this client connect?), `disconnect` (final counters) |
| Agent: control handlers | `panel/agent.py` `dispatch` | `pki_lock`, EasyRSA PKI, deployed `crl.pem` | create, update, reset, kill, revoke, restart; list, metrics, server, config only read |
| Agent: start-up | `panel/agent.py` `import_clients` | the same tables | import of the certificates that existed before |
| OpenVPN | external | sessions with their counters | runs the two scripts, one at a time; answers `status` and `kill` |
| systemd | `scripts/*.service`, `install.sh` drop-in | unit states | restarts the agent; `BindsTo` stops the VPN with it |
| Web panel | `panel/app.py`, `panel/auth.py`, `panel/cli.py` | SQLite `admins`, `sessions`, `attempts`, `audit`, `shares`, `settings` | sign-in, password change, administrators, client operations by RPC, one-time download links |
| Backups | `panel/backup_crypto.py`, `scripts/backup.sh` | the `.partial` file, the published file | encrypt, decrypt, stop and resume services |
| Installer, upgrade | `install.sh`, `scripts/upgrade.sh` | configuration, unit files | install with rollback, upgrade |
| Browser interface | `panel/static/app.js` | per tab `me`, `csrf`, `page`, `clientRows`, `auditRows`, `refreshSerial`, one `<dialog>`; the cookie, shared by the tabs | loads and polling, forms, confirmations, toggles, profiles, bulk creation, "Load older" |

The parts meet in few places: the agent's database (monitor, hooks and control
handlers, each in its own thread), the management socket (monitor and control
handlers towards OpenVPN), the hook socket (OpenVPN's scripts towards the
agent), the control socket (panel towards agent), the CRL file (agent towards
OpenVPN), the panel's own database (web requests among themselves), the answers
that the browser awaits one by one while its page, its dialog and its cookie
change under it, and the units that three scripts, systemd, the watchdog and the
panel all stop and start.

What is hard, and where: three threads of the agent interleave between
transactions; OpenVPN's reports arrive late, twice, out of order or never; a
policy decision is stale when it takes effect; the monitor may fail at any of
its steps; the agent may die between two transactions or two file operations;
external commands fail half-way; the panel gives up requests that the agent
completes; and nothing in the browser is re-read after an `await`.  `PROJECT.json` lists the hazards line by
line with the properties that would catch each of them.

What makes each part correct:

* *Accounting*: every byte a session reports is charged exactly once, to its
  owner, whatever the order of reports and resets; only the administrator lets
  a blocked client in again.
* *Enforcement*: nobody is charged for bytes not carried; what is not lost is
  counted; a good round cuts everyone who was blocked during it; whoever was
  cut while blocked stays out; the VPN does not run unsupervised.
* *Lifecycle*: a revocation that was committed is effective and for good; the
  CRL that OpenVPN reads never loses a name; the lock is always released.
* *Panel*: sessions follow passwords; one owner; nothing is created twice, and
  what was done is on record; a link is good for one download in its lifetime, and
  for none once its client's profile is out of reach.
* *Backups*: what is published is whole and is never replaced.
* *Services*: nothing writes during an archive; no VPN with the panel's configuration
  runs unsupervised; an original VPN that was restored is neither bound nor watched;
  a failed backup starts the services again, a failed upgrade leaves stopped what it
  has stopped and not started yet.
* *Interface*: late answers of a load change neither the page nor, but for one known
  request, the list to something else; what is sent is what was agreed to, in the name
  that is shown; an untouched expiry keeps access as it was.

Not all of what one would want to say here is true of the code: a late "Load older"
does change the page, a late profile the dialog, a form another field, an update a
revoked row, and a rollback that fails itself leaves more or less anything running.
Section 3 (findings) and section 7 list what TLC refutes.

## 2. Modules

| Module | Models | Kind |
|---|---|---|
| `Accounting` | the two tables and their transactions | library of actions |
| `AccountingProofs` | lemmas about those transactions, used by the proofs of both specifications | proofs |
| `Ledger` (`MCLedger`) | `Accounting` under arbitrary use, with histories of reports and of baselines | specification |
| `LedgerProofs` | theorems about `Ledger` | proofs |
| `Enforcement` (`MCEnforcement`) | monitor, hooks, control requests, OpenVPN, systemd and time over `Accounting` | specification |
| `EnforcementProofs` | theorems about `Enforcement` | proofs |
| `Lifecycle` (`MCLifecycle`) | create, update, revoke, import over the PKI, the CRL and the rows' states | specification |
| `LifecycleProofs` | theorems about `Lifecycle` and `Waits` | proofs |
| `Auth` | administrators' accounts, sign-in, sessions, throttling, console commands | specification |
| `AuthProofs` | theorems about `Auth` and `Shares` | proofs |
| `Backup` | runs of `backup_crypto.transform` towards one target | specification |
| `BackupProofs` | theorems about `Backup`, `Services` and `Operations` | proofs |
| `Access` | what a client's right to connect may do over time | abstract specification |
| `Waits` | the agent's locks, OpenVPN's scripts and who waits for whom | specification |
| `Operations` | bulk creation in the browser, the panel's handlers and audit rows, the agent behind its timeouts | specification |
| `Shares` | one-time download links | specification |
| `Services` | install, rollback, backup and upgrade against systemd and the watchdog | specification |
| `Pages` | `loadPage`, polling, late answers, signing in and out, of one tab | specification |
| `PagesProofs` | theorems about `Pages`, `Dialogs`, `AuditList` and `Fields` | proofs |
| `Tabs` (`MCTabs`) | several tabs with one cookie | specification |
| `TabsProofs` | theorems about `Tabs` | proofs |
| `Dialogs` | the one dialog and the handlers behind it | specification |
| `AuditList` | the audit page and "Load older" | specification |
| `Fields` | the expiry through the edit form's local time | specification |
| `Panel` (`MCPanel`) | the web panel: `Auth` and `Shares` | composition |
| `Commands` (`MCCommands`) | what an administrator starts: `Backup`, `Services` and `Operations` | composition |
| `Agent` (`MCAgent`) | the agent: `Lifecycle` and `Waits` | composition |
| `Tab` (`MCPages`) | one tab of the browser: `Pages`, `AuditList`, `Dialogs` and `Fields` | composition |
| `MCLedger`, `MCEnforcement`, `MCLifecycle`, `MCTabs` | instances of one specification for TLC | model checking |
| `MCPanel`, `MCCommands`, `MCAgent`, `MCPages` | instances of the compositions | model checking |
| `MCEnds` | instances of the specifications that promise something of the end, with their fairness | model checking |

A composition extends the first of its specifications, takes the others by `INSTANCE`
(`S` for `Shares`, `H` for `Services`, `O` for `Operations`, `W` for `Waits`, `A` for
`AuditList`, `D` for `Dialogs`, `F` for `Fields`), declares their constants and variables,
and states as ASSUMEs what the proofs need of the constants.  Its variable `part` keeps
its value and says which of them moves; the others stay at an initial state.  They share
no variable, so letting two of them move in turns would only multiply the states: each
property speaks of one part, and holds in the product if and only if it holds when that
part moves alone.  `MCEnds` is built in the same way, with the fairness of each module
conditioned on `part`.

### Accounting and Ledger

`clients` and `counters` are the two tables; a missing row is the value
`NoClient` or `NoCounter` (the program deletes no row of either).  Each action
is one transaction.  `ClientState` is `core.client_state` and `Allowed` is
`Accounting.allowed`; `expires_at` NULL or 0 is `Never`, `quota_bytes` 0 is
`Unlimited`.  `Account` is `account`: the new counters are the larger of old and
reported in each direction, and the client is charged the difference, if it has
a row.  Text columns and time stamps are left out.

`Ledger` adds two histories no action reads: the set of reports accepted for
each session, and each session's counters at the moment its owner's usage began
(reset, or a report for a name without a row).  Between the second and the
counters lie the bytes to be on record (`Uploaded`, `Downloaded`): `UsageConserved`
says that usage is their number.

### Enforcement

The monitor is a loop with the steps of `Agent.monitor`: `Poll` (status 3),
`AccountRow` (one transaction per row, in any order), `Publish` (`last_ok`,
`failures_since = None`), `Judge` (one `allowed` per row), `MonitorKill` (one
command per condemned name), `EndRound`, `Wake`.  Any step may raise:
`RoundFails`, and beyond the limit `WatchdogStops` or, since `check=False`
ignores an unsuccessful `systemctl stop`, `WatchdogStopFails`.  An exception
that leaves the handler is `AgentCrash`, which takes the handlers' threads and
memory with it and, by `BindsTo`, stops the VPN.

OpenVPN is external and single-threaded: `ManagementReady` says that it answers
commands only while no script runs.  A session goes through `idle`,
`connecting` (the connect script asks), `admitted` (it exited with 0), `live`,
`closing` (the disconnect script runs) and `gone`; session keys carry the
owner's name, so an owner is a constant of the session.  Final reports may
reach the agent, be lost, or outlive their script in a handler (`late`).

Time is counted in ticks.  `okAge` is the age of `last_ok` up to `Fresh`,
`failAge` that of `failures_since` up to just beyond `FailLimit`; steps take any
time.  The wall clock is assumed not to step back.

### Lifecycle and Access

Each request is a thread with the step it is at; `create` and `revoke` wait for
`pki_lock`, `update` reads and writes in two transactions without it.  EasyRSA
may fail at each command with its effect done or not.  `crl.pem.new` and the
deployed `crl.pem` are separate files: `shutil.copyfile` empties the first
(`CopyCrl`) and then fills it (`FillCrl`), so a crash can leave it empty, and
`os.replace` (`DeployCrl`) is one step.  `Crash` loses
threads and lock and keeps files and committed rows; `AgentStart` runs
`import_clients`, one transaction at a time, before any request is served.

`Access` is the promise made to an administrator: a client is unknown, then
closed or open, then withdrawn for good.  `Lifecycle` is shown to implement it
with the mapping `access`: withdrawn when the name is on the deployed CRL, open
when the row is active.

### Auth

A sign-in is `Admit` (first transaction: count, record, read the account),
`Verify` (argon2, outside any transaction) and `Open` (second transaction:
clear the name's attempts, delete old sessions, insert one).  Any other request
is `Enter` (`auth.session`: is there a row, is it young enough, is the account
enabled *now*) and then one transaction: `Logout`, `ChangePassword`,
`SaveAdmin`, or `End` for a handler that touches none of these tables, refuses
or fails.  `CreateOwner` and `ResetPassword` are `panel.cli`, another process on
the same database.  `Save` is what the three writers of an account have in
common: the row and the deletion of its sessions in one transaction.  Rows of
`attempts` and `sessions` are kept by age (`Recorded` are a subject's rows within the
window, `Count` their number); `WebRestart` loses handlers only.
`given` and `overtaken`, in a session, are histories that no guard reads.

### Backup

Each run of `transform` is a thread of steps: the check for the target
(`Start`, `Refuse`), the exclusive creation of `<target>.partial` (`Create`), the
chunks (`Write`), `finalize` with the tag and the flush (`Seal`), `os.link` (`Link`),
`unlink` (`Unlink`).  Any of them may raise (`Fail`, then `Clean`, which removes the
partial file by its path), and a run may be killed without a clean-up (`Kill`).
`Tidy` is the administrator, who removes what killed runs left when none is under
way.  A directory entry is the run that made the file, so a hard link is a second
entry for the same run.  The directory's own durability is not modelled.

### Waits

A thread of the agent is the list of what it has yet to do: transactions (`Begin`
is `BEGIN IMMEDIATE`, `Commit`), `pki_lock` (held to the end of the list, as
`with` does), EasyRSA, management commands (`Connect` takes the lock and the
connection, `Replied` gives both back) and `systemctl` (`Stop`, `Stopped`).
OpenVPN does one thing at a time: a `kill` runs the disconnect scripts of the
sessions it ends before it is answered, and each script waits for a hook handler
(`Call`, `Answered`), that is, for a thread that needs the database.  `WaitsFor` is whom a party waits
for, `Ahead` two such steps; `NoCircle` follows the chain to its end.  `Fails` is any
exception or timeout; `GivesUp` a script that has waited 10 s, whose handler goes on.

### Operations

A submitted form is a loop of requests with the same prefix (`Post`, `Return`); a
single creation is a loop of one.  The panel's handler receives, calls the agent
and writes its audit row; the agent's job runs on when the panel has given up
(`rpc`'s timeout, a restarted panel, a closed connection).  `restart` is the one
request whose failure is not written down.  Names are numbers because all forms
have one prefix: two forms stand for two administrators, or one who submits twice.

### Shares

Handlers of `share` and `download_share` are threads; `Take` is the one transaction that
looks a token up and deletes it, `Read` the agent's `config`, which gives the profile
of a client whose row is open (neither `revoking` nor `revoked`) and whose file is there.
`Revoke`, `RevokeCommit` and `RevokeRemove` are the agent's revocation (first
transaction, second transaction, removal of the file) under `pki_lock`, which may stop
in between (`RevokeFails`).  `UpdateRead` and `UpdateWrite` are the two transactions of
`update`, without the lock: the second may open a row that was closed after the first,
as in finding 2, and then the link gives the profile again until the file is removed.
`Barred` is therefore when the agent will not give it any more: there is no file, or the
row is closed and nobody has read it open before (`editing`).  `OneDownloadInItsLife`
speaks of links opened in that situation; `RevokedForGood` (section 7) is the promise
that does not hold.  Ages are ticks up to `Life` (300 s).  A token is known to a holder
from the moment its answer was sent.

### Services

`pc` is the next step of the one script that runs: `i` install.sh, `r` its
`rollback`, `b` backup.sh, `c` the `resume` of its exit trap, `u` upgrade.sh after its
backup.  Each step is one `systemctl` command or one group of file operations, and any
of them may fail, but for the wait for the agent's socket.  Before install.sh's trap it
just ends (`InstallExits`), after it it rolls back (`InstallFails`), backup.sh resumes
(`BackupFails`).  upgrade.sh has no trap: it ends and leaves the services as they are
(`UpgradeFails`; `halted` says at which step).  In the rollback, what could not be stopped
is ignored (`RollbackStopFails`), as is a VPN that does not come up (`RollbackEnd`), and
anything else ends the trap (`RollbackFails`); a failing start ends the trap of backup.sh
(`ResumeEnds`).  `restored` is "yes" after a rollback whose steps succeeded, until
a script or an administrator acts, and "partly" for good after one of which a step
failed: then the drop-in, the configuration and what systemd has loaded may disagree, and
only `HaltedStaysStopped` still says something.

`bound` is the drop-in as systemd has loaded it, `running` the configuration OpenVPN was
started with: only with the panel's has it a management socket that can be monitored.
OpenVPN may not come up (`VpnFails`) and systemd may try again (`VpnRetry`; OpenVPN's own
unit is external).  The agent may crash and be restarted, the panel may ask for a restart
that the agent makes later, and the watchdog counts ticks of failed monitoring, which
pass only where a script waits.  The constant `Faults` allows what systemd does wrong (a
crash, a start or a step of rollback or trap that fails).

### Pages, Tabs, Dialogs, AuditList, Fields

One browser, seen from five sides; each leaves out what the others model.

*Pages*: a load is a chain of requests under one serial number (`refreshSerial`): the
page's own data and, on the dashboard, the client list and the log.  `Superseded` is
the guard after each `await`; `clientRows` is written before it (`FillRecent`), which
the history `crossed` records.  `Poll` is the ten-second timer.  The client list is a
version number, a screen the name of what is on it; the log that "Load older" has put
there (`AppendAudit`, without a guard) is a screen of its own, "older".

*Tabs*: a request takes the cookie when it is sent, its answer's `Set-Cookie` takes
effect when it is received, and the handler in the tab goes on after that.  A
session's CSRF token is identified with its session.

*Dialogs*: a task is a handler at one of its awaits, with what it had read before.
The dialog's `close` event is queued (`closing`) and ends the confirmation that is open
when it arrives.  A client is its state; others change it while a dialog is open.

*AuditList*: the log's row ids, the page's list, and requests whose answers come in any
order.  An answer to "Load older" adds to whatever the list is by then.

*Fields*: `localDate` and `new Date` over zones that put their clocks forward or back;
a repeated local time is read as the first, a skipped one with the offset before.

## 3. Runs

`tlc -config X.cfg M`, for the module and the configuration that `PROJECT.json`
gives for each run.  All passing runs explore their state space completely.

| Run | Module | Instance | Properties |
|---|---|---|---|
| `ledger` | `MCLedger` | 2 clients, 2 sessions, three reports (an early one, a late one, one ahead in one direction and behind in the other), quotas none and 2, expiry none and 1 | `HighWater`, `UsageConserved`, `BlockedStaysBlocked` |
| `counted` | `MCEnforcement` | 1 client, 2 sessions that carry up to one byte, quota 1 | `NeverOvercharged`, `FinalCounted` |
| `cut` | `MCEnforcement` | 2 clients with a session each, expiry, no traffic | `CutInRound`, `StaysOut` |
| `enforced` | `MCEnds` | monitor: 1 client, 1 session, one byte, quota 1, with and without expiry | `Supervised`, `BlockedIsCut` |
| | | files: 1 client, 2 requests | `LockReleased` |
| | | accounts: two names equal but for case, 1 request | `LockoutEnds` |
| | | tab: an agent that refuses, an administrator who waits | `OutageShown` |
| | | host: the scripts, no faults of systemd | `BackupResumes` |
| `auth` | `MCPanel` | accounts: 2 administrators, 2 passwords, 1 token, 2 requests, 1 address; limits 1 and 2 | `Throttled`, `OneOwner`, `SessionsFollowPassword` |
| | | links: 2 clients that are edited and revoked, 2 links, 2 handlers, a lifetime of 1 | `OneDownloadInItsLife` |
| `backup` | `MCCommands` | backup: 3 runs towards one target | `PublishedWhole`, `NothingLeft`, `NeverReplaced` |
| | | host: the scripts, faults; the watchdog after 2 ticks | `BackupOffline`, `Supervised`, `FailuresEndWell` |
| | | bulk: 2 forms of up to 2 names; single: of one name each, beside a restart of OpenVPN | `CreationsOnRecord` |
| `lifecycle` | `MCAgent` | files: 2 clients, 2 concurrent requests | `RevokedIsDenied`, `ActiveWasIssued`, `ImplementsAccess` |
| | | waits: monitor, 2 requests, 2 hook handlers, 2 sessions | `NoCircle` |
| `pages` | `MCPages` | pages: 2 requests in flight, 2 changes to the clients, both kinds of outage | `ContentFollowsPage`, `TableMovesForward` |
| | | log: pages of 2, a log of up to 6, 2 requests | `HeadMovesForward` |
| | | patient: a log of up to 6, one request at a time | `LogIsComplete` |
| | | dialogs: 1 client, 2 handlers, 1 change by somebody else | `AsAgreed`, `PendingEnds` |
| | | form: 72 moments in 4 zones, minutes of 3 s, hours of 4 min | `EditKeepsExpiry` |
| `tabs` | `MCTabs` | 2 tabs, 2 administrators, 2 sign-ins, 2 requests | `ActsAsShown` |
| `unenforced` | `MCEnforcement` | as the monitor in `enforced`, upload instead of expiry; fairness | finding 1 |
| `revoked_row` | `MCLifecycle` | 1 client, 2 requests | finding 2 |
| `import` | `MCLifecycle` | 1 client | finding 3 |

`auth`, `backup`, `lifecycle` and `pages` also check the type invariants of their
compositions (`PanelTypeOK`, `CommandsTypeOK`, `AgentTypeOK`, `TabTypeOK`); those of `Ledger`,
`Enforcement` and `Tabs` are proved, as are `ChargedExactly`, `CrlOnlyGrows`,
`OwnPartial`, `LoginShown` and `ShowsItsToken`, for every instance (section 4).
Every other safety and action property of the table is checked here and proved there.

**Bounds.**  Every bound is a constant that only a guard of the environment
reads (`MaxUpload`, `MaxDownload`, `MaxTime`) or a parameter of the code made
small (`Fresh` 3 s, `FailLimit` 15 s, `UserLimit` 5, `AddressLimit` 30, `Window`
900 s, `Lifetime` 8 h).  Two of each actor are enough for the hazards: each is
about two parties (two reports of one session, a snapshot row and a final
report, two requests for one client, a sign-in and a password change), and the
theorems of section 4 hold for every number of them.  One byte is enough where
the question is whether a byte is lost or counted twice; three different reports
are needed where their order matters (`ledger`).  In `counted` the quota of 1 is
reached by the first byte, so blocking and killing happen; `FailLimit` 0 lets the
watchdog stop the VPN at the first tick after a failure, and `Fresh` 1 makes a
snapshot stale after one.  Of the files in `lifecycle` both a certificate that exists before
the panel and one that does not are initial states of each client.  In `auth` a
single token is enough because a deleted row frees it; the address's limit
exceeds the user's, so each of the two limits is the one that refuses.

In `lifecycle` two requests meet at each of the agent's locks, and a hook handler that
outlived its script meets the next one.  In `backup` a `Limit` of 2 tells a start that
comes in time from one that does not.  In `pages` the dialogs need one client only: what
`AsAgreed` and `PendingEnds` compare is the operation, not whose it is, and a second
handler stands for any other dialog that comes in between; every moment of three hours
on either side of each change of the clocks is an initial state of the form; the log of
the patient reader can be three whole pages long.

**Symmetry and views.**  Symmetry is used in safety runs only, over sets whose
members no definition tells apart.  `cut` has a view without the counters and
histories of traffic, which it has none of; `MCPanel` has one that hides what a
handler that has ended was about, the client of a link that is too old, and the row of a
client whose profile is gone: nothing that a property depends on reads them any more.

**Fairness.**  The monitor goes on (its calls have timeouts of 5, 15 and 30 s);
scripts end (`hook.py` gives up after 10 s); time passes; systemd restarts a dead
agent (`Restart=on-failure`); a handler that holds `pki_lock` goes on (EasyRSA is
cut off after 85 s).  Only `WatchdogStops` is strongly fair: `systemctl stop` is
tried again in every round and is assumed not to fail for ever.  Nothing is
assumed of clients, administrators, kills, or rounds: a round may fail always.
In `Enforcement`, `Supervised` therefore says that the watchdog works without any good round.
`BlockedIsCut` needs, besides, that rounds do not fail for ever *after* their
snapshot; finding 1 is what happens if they do.  `OutageShown` assumes an administrator who
waits for each page, the timer, and a panel that answers; `BackupResumes` that a
script that runs goes on and that the three services can be started (`Faults` is FALSE); `LockoutEnds` that time passes.

**Findings.**

1. `unenforced`: `monitor` clears `failures_since` as soon as the snapshot is
   accounted (`panel/agent.py:222`), before it judges and kills.  Rounds that fail
   there fail for ever without the watchdog counting them, while the VPN stays up
   and blocked sessions run on; `README.md:179` promises that monitoring failure
   for over 15 seconds stops the VPN.
2. `revoked_row`: `update` checks the row's state and writes it in two
   transactions without `pki_lock` (`panel/agent.py:178-184`).  A revocation between
   them is overwritten: the row says active although the certificate is on the
   CRL.  The CRL still keeps the client out (`RevokedIsDenied` holds).  Until the
   profile is removed a download link works again as well (`RevokedForGood`, section 7).
3. `import`: a crash between the two transactions of `import_clients`
   (`panel/agent.py:84-85`) leaves an existing client provisional; the next start
   finds the name known, and nothing but revocation leads out of the state.

Section 7 lists promises that TLC refutes as well and that have no run of their own.

**Mutants.**  For each property of a passing run `PROJECT.json` names a plausible
bug, written next to the definition it changes (`LatestWins`, `JudgeLast`,
`FillCrlOnly`, `ChangePasswordOnly`, ...), with which the property fails.

## 4. Proofs

`tlapm M.tla` checks a module of proofs.  The theorems hold for every set of
clients, sessions, requests, administrators and every value of the bounds; they
assume what the modules' ASSUMEs say: `NoName`, `NoThread`, `NoSession`,
`NoPassword`, `NoRun` and, in `Tabs`, `None` are not among the values they stand beside, quotas, expiries, limits
and bounds are naturals, `Fresh` and `Lifetime` are not 0, a session has one owner,
and lower-casing is a function on names.

The theorems about the parts of a composition are about its own specification
(`PanelSpec`, `CommandsSpec`, `AgentSpec`, `TabSpec`), that is, exactly what the runs
check.  What they assume of the constants are the ASSUMEs of the compositions, which TLC
evaluates in every run:

| Theorems about | assume |
|---|---|
| `Shares` | `None` is no client and no link, `Life` is a natural (`SharesAssumption`) |
| `Services` | `Limit` is a natural (`ServicesAssumption`) |
| `Operations` | forms have room for at least one name (`OperationsAssumption`) |
| `Waits` | `Free` and OpenVPN are no threads, hook handlers are not the others (`WaitsAssumption`) |
| `Dialogs` | `MaxOthers` is a natural, `None` is no handler (`DialogsAssumption`) |
| `AuditList` | a page has at least one entry, the screen has room for one page, `MaxLog` is a natural (`AuditAssumption`) |
| `Fields` | a minute has at least one second; each zone changes its clock at a full minute, by its old and by its new time (`FieldsAssumption`) |

The last is what browsers do: `getTimezoneOffset`, of which `localDate` makes the
field, counts whole minutes.  `EditKeepsExpiry` fails without it.

`AccountingProofs` states what the transactions do to the tables
(`AccountEffect`, `EditType`) and when the policy's answer stays the same
(`SameAnswer`), once for both specifications built on them.

* `LedgerProofs`: types; `HighWater`, inductive with the types because the
  largest of a set with one more member is the larger of the old largest and the
  new one (`LargestOfMore`); `ChargedExactly` from what a report does
  (`ReportEffect`) and from the other steps charging nobody;
  `BlockedStaysBlocked` because with the same settings more usage and more time
  never turn "blocked" into "allowed" (`AllowedIsMonotone`).  `UsageConserved` from
  `Conservation`: a baseline is never above its counters (`BaseBelowCounters`), a
  session without a row has none (`UnknownUnused`), and there are finitely many
  bytes to count (`FinitelyMany`); then a report adds as many bytes to `Bytes` as
  it charges, and a reset empties both.
* `EnforcementProofs`, in two parts.  `Money` strengthens the two accounting
  properties: what the monitor holds of a session (`SnapshotBelow`) is at most what
  OpenVPN counted, a session that has not been live carried nothing
  (`NothingYet`), so a report, however late, raises the counters to at most the
  traffic (`ReportIsSafe`).  `Outside` and `Inside` strengthen the two policy
  properties: a client that is `out` is blocked (`OutBlocked`), a session that is
  `steady` belongs to a blocked client (`SteadyBlocked`), and at each point of the
  round every steady session that is still live is yet to be judged or is
  condemned (`InRound`): hence none is live at the end of a good round.
* `LifecycleProofs`, about `Lifecycle`: one inductive invariant `IInv`: at most one request is past
  the lock (`Locked`); OpenVPN's list and the copy on its way there hold only names
  of the authority's list, and that only names of revoked certificates (`Lists`); a
  client that was revoked, or is being imported, has a row (`Rows`); and what each
  request knows of its client's row, certificate and list before each of its steps
  (`Steady`).  `CrlOnlyGrows` follows since, when it is deployed,
  the copy equals the authority's list, which contains the deployed one;
  `AccessImplemented` shows that
  each handler step is a step of `Access` for one client (`OneClient`,
  `Deployment`) or a stutter.
  About `Waits`, `WaitsInv`: `pki_lock` comes first in a thread's list or not at all, and a hook
  handler only writes a row (`Todos`); who holds a lock is at a step that uses it
  (`Holders`).  So a writer waits for nobody, a hook handler at most for a writer, OpenVPN
  for a hook handler, the holder of the management socket for OpenVPN, and `NoCircle`
  follows.
* `AuthProofs`: `OneOwner` is inductive with the types: every write of an account
  keeps the owner column and leaves the owner enabled, or makes the only owner
  (`Guarded`).  `SessionsFollowPassword` needs `ReadsHold`: what a sign-in has read
  is still the account's password unless the account was saved meanwhile, or was
  not there.  `Throttled` is inductive with `FiniteRecords`: an attempt adds one row
  (`Recording`) and is recorded below the limit only, a success deletes rows
  (`Clearing`), and growing older maps the rows that remain one to one to earlier ones
  (`Ageing`), so that there cannot be more of them.
  About `Shares`, `LinksInv`: a handler past `Take` holds a link that has lost its row and has not
  brought its profile yet (`Holding`), no two hold the same (`OneHolder`), a link that
  brought its profile is in the audit log and has no row (`Spent`), one that was
  once too old has no row that could still be taken (`Lapsed`), and whoever opened one
  too late is still waiting for the agent, which stays `Barred`.
* `BackupProofs`: one inductive invariant: a partial file belongs to the run at
  work on it (`OwnPartial`, `Owned`), a run about to link has a whole genuine file
  (`Ready`), and the run whose file is published has no step left that writes to it
  (`Published`).  About `Services`, `HostInv`: for each step of each script, which files
  are there (`FilesOf`), which units are stopped (`StoppedAt`), and that the drop-in
  is loaded wherever the VPN may run with the panel's configuration
  (`BoundWhenNeeded`), which is why stopping or losing the agent takes the VPN with it.
  Part of it holds only while no rollback has failed (`Whole`).
  About `Operations`, `RecordInv`: an answer is kept only while its handler waits
  (`Awaited`), one creation is at work (`OneWorks`), of the requests for a name one
  wins (`OneWins`) and creates it once (`CreatedOnce`), a form's requests are made in
  order (`Forward`), what a form collected was answered, and what was answered is on
  record (`Collected`, `Answered`), and every client leaves a trace (`Traced`): an audit row,
  a handler that has yet to write one, or one that could not (`unlogged`).

* `PagesProofs`: one inductive invariant of the types, `ContentFollowsPage` (of the
  screens that `loadPage` makes),
  `LoginShown` and two more.  `Placed`: the client table is on the screen of a polled
  page only (the dashboard, the clients), and requests for rows belong to the
  dashboard, which is the chosen page if the latest load makes one.  `Current`: the
  rows and the answers are not newer than the agent's clients, and unless a superseded
  dashboard wrote rows in between (`crossed`) the table, where there is one, shows the rows, and an answer to
  the latest load is at least as new as them.  `TableMovesForward` is a step property that follows from it.
  About `Dialogs`, `DialogsInv`: while a handler waits, its question is on the screen
  or its dialog is being closed (`Question`), it says what the handler will send
  (`Agreement`), and no second one waits (`OneWaits`).  About `AuditList`, `ListInv`:
  a page that may still be shown is no older than the one on the screen (`Newer`);
  and for the administrator who waits for each answer `Orderly`: the list has no gaps,
  and it is a number of whole pages or ends where the log does.  About `Fields`,
  `FieldsInv`, from `MinuteOf` (which full minute a moment is in) and `SavedMoment`
  (which moment the field stands for: the minute's first, of two alike the earlier).
* `TabsProofs`: tokens do not change hands (`Given`): wherever a CSRF token is kept,
  in a tab or in a request, it was given out to the administrator shown beside it.
  The panel accepts a change only with the token of the cookie's session, so the
  cookie that went with it is of the same administrator (`ActsAsShown`).

The type invariant of a composition holds because each of its parts behaves as its own
specification says (`PanelSpec => Spec` and the like), so what was proved of the first
part carries over, and the invariants above contain the types of the others; `Waits` and
`AuditList` need, besides, that no thread's list is longer than five steps (`Short`) and
no answer longer than a page (`Sizes`).

**Model-checked only.**  Liveness (`BlockedIsCut`, `LockReleased`,
`LockoutEnds`, `BackupResumes`, `OutageShown`, and `Supervised` of `Enforcement`), which the proof system
cannot handle, and the findings.  Every safety and action property of a passing run is
stated by a theorem.

## 5. Not modelled

* *Vendored OpenVPN installer*: third-party, pinned and run once.
* *QR codes, exports, static pages, host metrics*: formatting without state.
* *Of the interface*: the forms for administrators, settings and one's password (one
  request each, modelled at the server in `Auth`), translations, themes, charts.
* *Of the scripts*: TLS, nginx, packages, permissions; what an upgrade copies.
* Within the modelled parts: text columns, time stamps, JSON framing, socket
  permissions, the audit rows (written, never read by a decision), permissions
  other than the owner's.  The wall clock does not step back, which is listed among
  the hazards as not covered; so is an interrupted creation, of which the documentation
  promises nothing.  Session keys are distinct.

## 6. Plan

What could follow: `Enforcement` with a clock that steps back and with `Waits`'s locks
in place of atomic management commands; `Operations` over `Lifecycle` in place of its
own small agent; that requests and scripts of `Waits` and the forms of `Operations` come
to an end; runs for the promises of section 7; `Enforcement`'s
use of the tables as a refinement of `Ledger`.

## 7. Promises that do not hold

Each of these is a definition of the module named, which no run claims.  TLC refutes it
on an instance of that module with the constants of section 3: a configuration that
names the module's `Spec`, those constants and the definition shows the trace.

| Definition | Module | What happens |
|---|---|---|
| `OutageShown`, with `Outages` `{"hung"}` | `Pages` | An agent that takes requests and does not answer is never reported: each load is superseded by the next poll before its 503 arrives, since the panel's timeout towards the agent is as long as the polling period (`app.js:43`). |
| `OlderFollowsPage` | `Pages` | "Load older" has neither a serial number nor a guard: its late answer puts the log on the screen of another page (`app.js:99`). |
| `TableNeverGoesBack` | `Pages` | A superseded dashboard's client list is written to `clientRows` before the guard, and the next search shows it (`app.js:47`). |
| `SessionsAreCurrent` | `Auth` | A sign-in that verified the old password before a password change opens its session after it (`auth.py:69`). |
| `SuspendedUntilEnabled` | `Dialogs` | The edit form sends the state it was opened with (`app.js:103`), so saving a note undoes a suspension made meanwhile. |
| `LabelIsHonoured` | `Dialogs` | The toggle acts by `clientRows` at the click, its label is older (`app.js:97`): "Suspend access" can enable access, without the confirmation. |
| `ProfileIsItsClients` | `Dialogs`, 2 clients | A profile that arrives late is shown, ready to copy, in the dialog of another client (`app.js:65`). |
| `FailedIsOver` | `Operations` | What the panel gave up is reported as failed and created all the same (`core.py:49`). |
| `RestartIsLogged` | `Operations`, `Restarts` | A restart whose answer is late is made and not written to the audit log (`app.py:355`). |
| `SpentByDownload` | `Shares` | A link is used up although nothing was downloaded (`app.py:282`). |
| `RevokedForGood` | `Shares` | An update that read the row before a revocation opens it again, and a link opened before the profile is removed, or after a revocation that failed, gives it (`agent.py:178-184`). |
| `OfflineAlways`, `SupervisedAlways` | `Services`, `Faults` | A rollback that ends at a failing step leaves a drop-in, a configuration and a loaded unit that do not fit together; a backup then does not stop what is not bound, and the VPN runs with the panel's configuration without the agent (`install.sh:85-97`). |
| `RestoredRuns` | `Services`, `Faults` | The rollback's `restart` is followed by `\|\| true`: it ends as usual when the original VPN does not come up (`install.sh:95`). |
| `FailedStaysStopped` | `Services` | An upgrade that fails at its first steps, or once it has started the agent, leaves services running (`upgrade.sh:9-25`). |
| `EnvIsInstalled` | `Services` | A stopped or rolled-back installation counts as installed (`install.sh:78`). |
| `PlainIsLeftAlone` | `Services` | `upgrade.sh`, which the installer then advises, starts the monitor beside the restored VPN, and its watchdog stops it (`backup.sh:9`). |
| `StartedComesUp` | `Services` | The watchdog stops a VPN that is being started (`agent.py:231`). |
| `LoadsOlder` | `AuditList` | Two clicks on "Load older" show the same entries twice (`app.js:99`). |
