------------------------------- MODULE Shares -------------------------------
(***************************************************************************)
(* One-time download links: made for a client by an administrator, good    *)
(* for one download within their lifetime, while the client may be edited  *)
(* and revoked and the agent or the panel may fail at any moment.          *)
(*                                                                         *)
(* Handlers of the panel are threads; each reads the profile from the      *)
(* agent either before it makes a link or after it has used one up.  The   *)
(* agent gives it by the row and the file of the client, which a           *)
(* revocation takes away one after the other while updates write the row.  *)
(***************************************************************************)
EXTENDS Naturals

CONSTANTS Clients, Links, Threads, Life, None

VARIABLES share,      \* the rows of the table: the client and the age, by token
          known,      \* the tokens that were given to an administrator, and so to a holder
          row,        \* the agent's rows of the clients: edited and read while "open"
          profile,    \* the clients whose inline profile is in EasyRSA's directory
          editing,    \* the clients of whom an update is under way that has read an open row
          revocation, \* the revocation that holds pki_lock, and where it is
          thread,     \* the handlers
          logged,     \* the audit rows "share.download", by token
          delivered,  \* history: how often the profile went out, by token
          lapsed      \* history: the tokens that were ever too old

pki == <<row, profile, editing, revocation>>
vars == <<share, known, pki, thread, logged, delivered, lapsed>>

NoShare == [client |-> None, age |-> 0]
Unlocked == [client |-> None, step |-> "none"]
Free == [step |-> "free", client |-> None, link |-> None, late |-> FALSE]

Init ==
  /\ share = [k \in Links |-> NoShare] /\ known = {} /\ lapsed = {}
  /\ row = [n \in Clients |-> "open"] /\ profile = Clients /\ editing = {} /\ revocation = Unlocked
  /\ thread = [t \in Threads |-> Free]
  /\ logged = {} /\ delivered = [k \in Links |-> 0]

history == <<delivered, lapsed>>
Move(t, step) == thread' = [thread EXCEPT ![t].step = step]
Done(t) == thread' = [thread EXCEPT ![t] = Free]

-----------------------------------------------------------------------------
\* An administrator asks for a link.
ShareEnter(t, n) ==
  /\ thread[t] = Free
  /\ thread' = [thread EXCEPT ![t] = [Free EXCEPT !.step = "share asks", !.client = n]]
  /\ UNCHANGED <<share, known, pki, logged, history>>

\* The link's row, under a token never used before; rows that are too old go.
ShareInsert(t, k) ==
  /\ thread[t].step = "share read"
  /\ k \notin lapsed \cup known /\ share[k] = NoShare
  /\ \A s \in Threads : thread[s].link # k
  /\ share' = [j \in Links |->
                 IF j = k THEN [client |-> thread[t].client, age |-> 0]
                 ELSE IF share[j].age > Life THEN NoShare ELSE share[j]]
  /\ thread' = [thread EXCEPT ![t].step = "share done", ![t].link = k]
  /\ UNCHANGED <<known, pki, logged, history>>

\* Its audit row, and the answer with the link.
ShareAnswer(t) ==
  /\ thread[t].step = "share done"
  /\ known' = known \cup {thread[t].link} /\ Done(t)
  /\ UNCHANGED <<share, pki, logged, history>>

-----------------------------------------------------------------------------
\* The agent refuses this client, now and for good: no file, or a row that no update under
\* way will open again.
Barred(n) == n \notin profile \/ (row[n] # "open" /\ n \notin editing)

Good(k) == share[k] # NoShare /\ share[k].age < Life
DownloadEnter(t, k) == [Free EXCEPT !.step = "asks", !.client = share[k].client, !.link = k,
                                    !.late = Barred(share[k].client) \/ k \in lapsed]

\* A variant that a property must tell apart: the row is looked at, and deleted by nobody.
TakeLeaving(t, k) ==
  /\ thread[t] = Free /\ k \in known /\ Good(k)
  /\ thread' = [thread EXCEPT ![t] = DownloadEnter(t, k)]
  /\ UNCHANGED <<share, known, pki, logged, history>>

\* The holder opens the link: one transaction finds its row and deletes it.
Take(t, k) ==
  /\ thread[t] = Free /\ k \in known /\ Good(k)
  /\ share' = [share EXCEPT ![k] = NoShare]
  /\ thread' = [thread EXCEPT ![t] = DownloadEnter(t, k)]
  /\ UNCHANGED <<known, pki, logged, history>>

\* The agent answers with the profile of a client whose row is open and whose file is there.
Read(t) ==
  /\ thread[t].step \in {"share asks", "asks"}
  /\ thread[t].client \in profile /\ row[thread[t].client] = "open"
  /\ Move(t, IF thread[t].step = "asks" THEN "read" ELSE "share read")
  /\ UNCHANGED <<share, known, pki, logged, history>>

\* The audit row is written first ...
Log(t) ==
  /\ thread[t].step = "read"
  /\ logged' = logged \cup {thread[t].link} /\ Move(t, "logged")
  /\ UNCHANGED <<share, known, pki, history>>

\* ... and then the profile goes out.
Deliver(t) ==
  /\ thread[t].step = "logged"
  /\ delivered' = [delivered EXCEPT ![thread[t].link] = @ + 1] /\ Done(t)
  /\ UNCHANGED <<share, known, pki, logged, lapsed>>

\* The agent refuses or is away, a row cannot be written, or the panel is stopped.
Fail(t) ==
  /\ thread[t] # Free /\ Done(t)
  /\ UNCHANGED <<share, known, pki, logged, history>>

-----------------------------------------------------------------------------
\* revoke, under pki_lock, of a client in any state: its first transaction ...
Revoke(n) ==
  /\ revocation = Unlocked /\ revocation' = [client |-> n, step |-> "working"]
  /\ row' = [row EXCEPT ![n] = "revoking"]
  /\ UNCHANGED <<profile, editing, share, known, thread, logged, history>>

\* ... EasyRSA, the CRL and its second transaction ...
RevokeCommit ==
  /\ revocation.step = "working" /\ revocation' = [revocation EXCEPT !.step = "removing"]
  /\ row' = [row EXCEPT ![revocation.client] = "revoked"]
  /\ UNCHANGED <<profile, editing, share, known, thread, logged, history>>

\* ... and the file.
RevokeRemove ==
  /\ revocation.step = "removing" /\ revocation' = Unlocked
  /\ profile' = profile \ {revocation.client}
  /\ UNCHANGED <<row, editing, share, known, thread, logged, history>>

\* EasyRSA fails, a file cannot be written or removed, or the agent is stopped.
RevokeFails ==
  /\ revocation # Unlocked /\ revocation' = Unlocked
  /\ UNCHANGED <<row, profile, editing, share, known, thread, logged, history>>

\* A variant that a property must tell apart: any row may be edited.
UpdateReadAny(n) ==
  /\ editing' = editing \cup {n}
  /\ UNCHANGED <<row, profile, revocation, share, known, thread, logged, history>>

\* update reads the row in one transaction ...
UpdateRead(n) ==
  /\ row[n] = "open" /\ editing' = editing \cup {n}
  /\ UNCHANGED <<row, profile, revocation, share, known, thread, logged, history>>

\* ... and sets the state in another, whatever it is by then; others may be under way.
UpdateWrite(n) ==
  /\ n \in editing /\ editing' \in {editing, editing \ {n}}
  /\ row' = [row EXCEPT ![n] = "open"]
  /\ UNCHANGED <<profile, revocation, share, known, thread, logged, history>>

\* It sets no state, or fails.
UpdateEnds(n) ==
  /\ n \in editing /\ editing' = editing \ {n}
  /\ UNCHANGED <<row, profile, revocation, share, known, thread, logged, history>>

-----------------------------------------------------------------------------
\* Time passes; ages beyond the lifetime are alike.
Tick ==
  /\ share' = [k \in Links |-> IF share[k] = NoShare \/ share[k].age > Life THEN share[k]
                               ELSE [share[k] EXCEPT !.age = @ + 1]]
  /\ lapsed' = lapsed \cup {k \in Links : share'[k] # NoShare /\ share'[k].age >= Life}
  /\ UNCHANGED <<known, pki, thread, logged, delivered>>

Next ==
  \/ \E t \in Threads :
       \/ ShareAnswer(t) \/ Read(t) \/ Log(t) \/ Deliver(t) \/ Fail(t)
       \/ \E n \in Clients : ShareEnter(t, n)
       \/ \E k \in Links : ShareInsert(t, k) \/ Take(t, k)
  \/ \E n \in Clients : Revoke(n) \/ UpdateRead(n) \/ UpdateWrite(n) \/ UpdateEnds(n)
  \/ RevokeCommit \/ RevokeRemove \/ RevokeFails
  \/ Tick

Spec == Init /\ [][Next]_vars

-----------------------------------------------------------------------------
Share == [client : Clients \cup {None}, age : 0..(Life + 1)]
Thread == [step : {"free", "share asks", "share read", "share done", "asks", "read", "logged"},
           client : Clients \cup {None}, link : Links \cup {None}, late : BOOLEAN]
Revocation == [client : Clients \cup {None}, step : {"none", "working", "removing"}]

TypeOK ==
  /\ share \in [Links -> Share]
  /\ known \subseteq Links /\ lapsed \subseteq Links
  /\ row \in [Clients -> {"open", "revoking", "revoked"}]
  /\ profile \subseteq Clients /\ editing \subseteq Clients
  /\ revocation \in Revocation
  /\ thread \in [Threads -> Thread]
  /\ logged \subseteq Links /\ delivered \in [Links -> Nat]

Fetching(k) == {t \in Threads : thread[t].link = k /\ thread[t].step \in {"asks", "read", "logged"}}

\* A link is good for one download at most, however many of its holders open it at
\* once, and none goes out that is not in the log (app.py:276-285).
OneDownload == \A k \in Links : delivered[k] <= 1 /\ (delivered[k] = 1 => k \in logged /\ Fetching(k) = {})

\* Who opens a link when its lifetime is over, its row still there or not, does not get the
\* profile; nor does who opens it when its client has no file any more, or when a revocation
\* has begun, come to its end or failed, and no update is under way that read the row before
\* (app.py:279-283, agent.py:98-100, 177-187, 194-210).
LateGivesNothing == \A t \in Threads : thread[t].late => thread[t].step \in {"free", "asks"}

\* A link is good for one download, and only within its lifetime.
OneDownloadInItsLife == OneDownload /\ LateGivesNothing

\* A revocation closes the links of its client for good, updates under way or not.
\* (TLC refutes this: README.md, section 7.)
RevokedForGood == [][\A n \in Clients : row[n] # "open" => row'[n] # "open"]_vars

\* "Confirm one successful download consumes the token": a link whose lifetime is not
\* over is good, is being used, or has brought its profile.  (TLC refutes this: README.md,
\* section 7.)
SpentByDownload ==
  \A k \in known \ lapsed : share[k] # NoShare \/ Fetching(k) # {} \/ delivered[k] = 1
=============================================================================
