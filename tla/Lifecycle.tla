----------------------------- MODULE Lifecycle -----------------------------
(***************************************************************************)
(* The life of a client's certificate: creation, editing, revocation and   *)
(* import, as the agent's request handlers and its start-up run them over  *)
(* the EasyRSA PKI, the deployed CRL and the state column of the table.    *)
(*                                                                         *)
(* Each request runs in a thread of its own (ThreadingUnixStreamServer).   *)
(* create and revoke hold pki_lock; update does not.  Every database       *)
(* transaction, EasyRSA command and file replacement is a step; EasyRSA is *)
(* external and may fail or be cut off after 85 s, before or after it has  *)
(* changed the PKI.  The agent may die between any two steps and lose its  *)
(* threads and its lock, never a file or a committed row.                  *)
(***************************************************************************)
EXTENDS Naturals

CONSTANTS Names, Threads, NoThread, NoName

ASSUME LifecycleAssumption == NoThread \notin Threads /\ NoName \notin Names

VARIABLES
  row,      \* clients.state of each name, "none" without a row
  cert,     \* easy-rsa/pki/index.txt and issued/: "none", "valid" or "revoked"
  inline,   \* whether inline/private/<name>.inline exists
  caCrl,    \* the names revoked in easy-rsa/pki/crl.pem
  newCrl,   \* the names revoked in crl.pem.new, none while it is absent or empty
  crl,      \* the names revoked in the crl.pem that OpenVPN verifies
  main,     \* the agent's main thread: "down", "import" or "serving"
  fresh,    \* main: the name import_clients has added but not activated
  pc, name, \* each request's next step, and the client it is about
  lock,     \* the thread that holds pki_lock
  done,     \* history: the clients some revocation was committed for
  existing  \* history: the clients issued before the panel was installed

files == <<cert, inline, caCrl, newCrl, crl>>
vars == <<row, cert, inline, caCrl, newCrl, crl, main, fresh, pc, name, lock, done, existing>>

Editable == {"active", "suspended"}
RowStates == {"none", "provisioning", "revoking", "revoked", "error"} \cup Editable
CreateSteps == {"add", "build", "activate", "verify", "undo"}
RevokeSteps == {"mark", "revoke", "gencrl", "copy", "fill", "deploy", "commit", "unlink"}
Critical == CreateSteps \cup RevokeSteps
Steps == {"idle", "create", "revocation", "write"} \cup Critical

TypeOK ==
  /\ row \in [Names -> RowStates]
  /\ cert \in [Names -> {"none", "valid", "revoked"}]
  /\ inline \in [Names -> BOOLEAN]
  /\ caCrl \in SUBSET Names /\ newCrl \in SUBSET Names /\ crl \in SUBSET Names
  /\ main \in {"down", "import", "serving"}
  /\ fresh \in Names \cup {NoName}
  /\ pc \in [Threads -> Steps]
  /\ name \in [Threads -> Names]
  /\ lock \in Threads \cup {NoThread}
  /\ done \in SUBSET Names /\ existing \in SUBSET Names

-----------------------------------------------------------------------------
(* Requests.                                                               *)
At(t, step) == main = "serving" /\ pc[t] = step
Go(t, step) == pc' = [pc EXCEPT ![t] = step]
SetRow(n, st) == row' = [row EXCEPT ![n] = st]

\* Leaving the "with self.pki_lock" block, with a result or an exception.
Leave(t) == Go(t, "idle") /\ lock' = NoThread

Request(t, n, first) ==
  /\ At(t, "idle")
  /\ Go(t, first) /\ name' = [name EXCEPT ![t] = n]
  /\ UNCHANGED <<row, files, main, fresh, lock, done, existing>>

Acquire(t) ==
  /\ lock = NoThread
  /\ \/ At(t, "create") /\ Go(t, "add")
     \/ At(t, "revocation") /\ Go(t, "mark")
  /\ lock' = t
  /\ UNCHANGED <<row, files, main, fresh, name, done, existing>>

(***************************************************************************)
(* create                                                                  *)
(***************************************************************************)
\* A certificate or a row of that name refuses it; neither is marked "error".
CreateRefused(t) ==
  /\ At(t, "add")
  /\ cert[name[t]] = "valid" \/ row[name[t]] # "none"
  /\ Leave(t)
  /\ UNCHANGED <<row, files, main, fresh, name, done, existing>>

\* Mutation of CreateAdd: the row starts out active.
CreateAddActive(t) ==
  /\ At(t, "add")
  /\ cert[name[t]] # "valid" /\ row[name[t]] = "none"
  /\ SetRow(name[t], "active")
  /\ Go(t, "build")
  /\ UNCHANGED <<files, main, fresh, name, lock, done, existing>>

CreateAdd(t) ==
  /\ At(t, "add")
  /\ cert[name[t]] # "valid" /\ row[name[t]] = "none"
  /\ SetRow(name[t], "provisioning")
  /\ Go(t, "build")
  /\ UNCHANGED <<files, main, fresh, name, lock, done, existing>>

CreateBuild(t) ==
  /\ At(t, "build")
  /\ cert' = [cert EXCEPT ![name[t]] = "valid"]
  /\ inline' = [inline EXCEPT ![name[t]] = TRUE]
  /\ Go(t, "activate")
  /\ UNCHANGED <<row, caCrl, newCrl, crl, main, fresh, name, lock, done, existing>>

\* build-client-full fails, with or without having issued.
CreateBuildFails(t) ==
  /\ At(t, "build")
  /\ \/ UNCHANGED <<cert, inline>>
     \/ /\ cert' = [cert EXCEPT ![name[t]] = "valid"]
        /\ \E b \in BOOLEAN : inline' = [inline EXCEPT ![name[t]] = b]
  /\ Go(t, "undo")
  /\ UNCHANGED <<row, caCrl, newCrl, crl, main, fresh, name, lock, done, existing>>

CreateActivate(t) ==
  /\ At(t, "activate")
  /\ SetRow(name[t], "active")
  /\ Go(t, "verify")
  /\ UNCHANGED <<files, main, fresh, name, lock, done, existing>>

\* Agent.config: a profile must be there to hand out.
Available(n) == row[n] \in Editable /\ inline[n]

CreateVerify(t) ==
  /\ At(t, "verify")
  /\ Available(name[t])
  /\ Leave(t)
  /\ UNCHANGED <<row, files, main, fresh, name, done, existing>>

\* Activation or assembly raises: an incomplete profile, a database error.
CreateFails(t) ==
  /\ At(t, "activate") \/ At(t, "verify")
  /\ Go(t, "undo")
  /\ UNCHANGED <<row, files, main, fresh, name, lock, done, existing>>

\* Mutation of CreateUndo: a state that no other code knows.
CreateUndoFailed(t) ==
  /\ At(t, "undo")
  /\ SetRow(name[t], "failed")
  /\ Leave(t)
  /\ UNCHANGED <<files, main, fresh, name, done, existing>>

\* The except clause; its own transaction may fail too.
CreateUndo(t) ==
  /\ At(t, "undo")
  /\ SetRow(name[t], "error") \/ UNCHANGED row
  /\ Leave(t)
  /\ UNCHANGED <<files, main, fresh, name, done, existing>>

(***************************************************************************)
(* update: the row is read in one transaction and written in another.      *)
(***************************************************************************)
UpdateRead(t, n) ==
  /\ row[n] \in Editable
  /\ Request(t, n, "write")

UpdateWrite(t) ==
  /\ At(t, "write")
  /\ (\E st \in Editable : SetRow(name[t], st)) \/ UNCHANGED row
  /\ Go(t, "idle")
  /\ UNCHANGED <<files, main, fresh, name, lock, done, existing>>

(***************************************************************************)
(* revoke                                                                  *)
(***************************************************************************)
\* Unknown names raise; every other state may be revoked, again if need be.
RevokeRefused(t) ==
  /\ At(t, "mark")
  /\ row[name[t]] = "none"
  /\ Leave(t)
  /\ UNCHANGED <<row, files, main, fresh, name, done, existing>>

\* A certificate that is no longer valid in the index is not revoked twice.
RevokeMark(t) ==
  /\ At(t, "mark")
  /\ row[name[t]] # "none"
  /\ SetRow(name[t], "revoking")
  /\ Go(t, IF cert[name[t]] = "valid" THEN "revoke" ELSE "gencrl")
  /\ UNCHANGED <<files, main, fresh, name, lock, done, existing>>

RevokeCert(t) ==
  /\ At(t, "revoke")
  /\ cert' = [cert EXCEPT ![name[t]] = "revoked"]
  /\ Go(t, "gencrl")
  /\ UNCHANGED <<row, inline, caCrl, newCrl, crl, main, fresh, name, lock, done, existing>>

RevokedCerts == {n \in Names : cert[n] = "revoked"}

\* Mutation of GenCrl: only the certificate at hand is listed.
GenCrlOfOne(t) ==
  /\ At(t, "gencrl")
  /\ caCrl' = {name[t]}
  /\ Go(t, "copy")
  /\ UNCHANGED <<row, cert, inline, newCrl, crl, main, fresh, name, lock, done, existing>>

GenCrl(t) ==
  /\ At(t, "gencrl")
  /\ caCrl' = RevokedCerts
  /\ Go(t, "copy")
  /\ UNCHANGED <<row, cert, inline, newCrl, crl, main, fresh, name, lock, done, existing>>

\* copyfile opens crl.pem.new for writing, which empties it, then fills it.
CopyCrl(t) ==
  /\ At(t, "copy")
  /\ newCrl' = {}
  /\ Go(t, "fill")
  /\ UNCHANGED <<row, cert, inline, caCrl, crl, main, fresh, name, lock, done, existing>>

\* Mutation of FillCrl: the copy never replaces the deployed list.
FillCrlOnly(t) ==
  /\ At(t, "fill")
  /\ newCrl' = caCrl
  /\ Go(t, "commit")
  /\ UNCHANGED <<row, cert, inline, caCrl, crl, main, fresh, name, lock, done, existing>>

FillCrl(t) ==
  /\ At(t, "fill")
  /\ newCrl' = caCrl
  /\ Go(t, "deploy")
  /\ UNCHANGED <<row, cert, inline, caCrl, crl, main, fresh, name, lock, done, existing>>

\* os.replace moves the file: OpenVPN reads the old list or the new one.
DeployCrl(t) ==
  /\ At(t, "deploy")
  /\ crl' = newCrl /\ newCrl' = {}
  /\ Go(t, "commit")
  /\ UNCHANGED <<row, cert, inline, caCrl, main, fresh, name, lock, done, existing>>

RevokeCommit(t) ==
  /\ At(t, "commit")
  /\ SetRow(name[t], "revoked")
  /\ done' = done \cup {name[t]}
  /\ Go(t, "unlink")
  /\ UNCHANGED <<files, main, fresh, name, lock, existing>>

\* The key and the profile go, and the client is disconnected.
RevokeUnlink(t) ==
  /\ At(t, "unlink")
  /\ inline' = [inline EXCEPT ![name[t]] = FALSE]
  /\ Leave(t)
  /\ UNCHANGED <<row, cert, caCrl, newCrl, crl, main, fresh, name, done, existing>>

\* Mutation of RevokeFails: the exception skips the release of the lock.
RevokeFailsLocked(t) ==
  /\ main = "serving" /\ pc[t] \in RevokeSteps
  /\ Go(t, "idle")
  /\ UNCHANGED <<row, files, main, fresh, name, lock, done, existing>>

\* A step raises and the request with it; EasyRSA may have done its part.
RevokeFails(t) ==
  /\ main = "serving" /\ pc[t] \in RevokeSteps
  /\ \/ UNCHANGED <<cert, caCrl>>
     \/ pc[t] = "revoke" /\ cert' = [cert EXCEPT ![name[t]] = "revoked"] /\ UNCHANGED caCrl
     \/ pc[t] = "gencrl" /\ caCrl' = RevokedCerts /\ UNCHANGED cert
  /\ Leave(t)
  /\ UNCHANGED <<row, inline, newCrl, crl, main, fresh, name, done, existing>>

-----------------------------------------------------------------------------
(***************************************************************************)
(* The agent's life.  import_clients adds a certificate the panel does not *)
(* know and activates it in a second transaction; only then is a socket    *)
(* opened.                                                                 *)
(***************************************************************************)
AgentStart ==
  /\ main = "down"
  /\ main' = "import"
  /\ UNCHANGED <<row, files, fresh, pc, name, lock, done, existing>>

Unknown == {n \in Names : cert[n] = "valid" /\ row[n] = "none"}

ImportAdd(n) ==
  /\ main = "import" /\ fresh = NoName /\ n \in Unknown
  /\ SetRow(n, "provisioning")
  /\ fresh' = n
  /\ UNCHANGED <<files, main, pc, name, lock, done, existing>>

ImportActivate ==
  /\ main = "import" /\ fresh # NoName
  /\ SetRow(fresh, "active")
  /\ fresh' = NoName
  /\ UNCHANGED <<files, main, pc, name, lock, done, existing>>

Serve ==
  /\ main = "import" /\ fresh = NoName /\ Unknown = {}
  /\ main' = "serving"
  /\ UNCHANGED <<row, files, fresh, pc, name, lock, done, existing>>

Crash ==
  /\ main # "down"
  /\ main' = "down" /\ fresh' = NoName
  /\ pc' = [t \in Threads |-> "idle"] /\ lock' = NoThread
  /\ UNCHANGED <<row, files, name, done, existing>>

\* The server may hold certificates issued before the panel was installed.
Init ==
  /\ row = [n \in Names |-> "none"]
  /\ cert \in [Names -> {"none", "valid"}]
  /\ inline = [n \in Names |-> cert[n] = "valid"]
  /\ caCrl = {} /\ newCrl = {} /\ crl = {}
  /\ main = "down" /\ fresh = NoName
  /\ pc = [t \in Threads |-> "idle"]
  /\ name \in [Threads -> Names]
  /\ lock = NoThread /\ done = {}
  /\ existing = {n \in Names : cert[n] = "valid"}

Create(t) == CreateRefused(t) \/ CreateAdd(t) \/ CreateBuild(t) \/ CreateBuildFails(t)
               \/ CreateActivate(t) \/ CreateVerify(t) \/ CreateFails(t) \/ CreateUndo(t)

Revoke(t) == RevokeRefused(t) \/ RevokeMark(t) \/ RevokeCert(t) \/ GenCrl(t) \/ CopyCrl(t)
               \/ FillCrl(t) \/ DeployCrl(t) \/ RevokeCommit(t) \/ RevokeUnlink(t) \/ RevokeFails(t)

Arrive(t) == \E n \in Names : Request(t, n, "create") \/ Request(t, n, "revocation") \/ UpdateRead(t, n)

Handler(t) == Acquire(t) \/ Create(t) \/ UpdateWrite(t) \/ Revoke(t)

Import == ImportActivate \/ Serve \/ \E n \in Names : ImportAdd(n)

Next == (\E t \in Threads : Arrive(t) \/ Handler(t)) \/ AgentStart \/ Import \/ Crash

Spec == Init /\ [][Next]_vars

-----------------------------------------------------------------------------
(***************************************************************************)
(* Safety                                                                  *)
(***************************************************************************)

(* Revocation is permanent where it counts: once it was committed, the     *)
(* client's certificate is not valid and OpenVPN's list has it, through    *)
(* crashes, retries, failed revocations of others and racing requests.     *)
Denied(n) == cert[n] # "valid" /\ (cert[n] = "revoked" => n \in crl)

RevokedIsDenied == \A n \in done : Denied(n)

(* The list OpenVPN reads never loses a name: no revocation deploys a copy *)
(* that another one, or one cut short, has emptied or left behind.         *)
CrlOnlyGrows == [][crl \subseteq crl']_vars

(* The panel shows no client as usable that was never issued anything.     *)
ActiveWasIssued == \A n \in Names : row[n] \in Editable => cert[n] # "none"

(* The right to connect, as the two gates of OpenVPN see it: the CRL at    *)
(* the TLS handshake, the row's state in the connect hook.  Whatever the   *)
(* handlers interleave to, it obeys Access: withdrawn is for good.         *)
access ==
  [n \in Names |->
     IF n \in crl THEN "withdrawn"
     ELSE IF row[n] = "none" THEN "unknown"
     ELSE IF row[n] = "active" /\ cert[n] # "none" THEN "open"
     ELSE "closed"]

Promise == INSTANCE Access WITH Names <- Names, access <- access
ImplementsAccess == Promise!Spec

(***************************************************************************)
(* Liveness: EasyRSA and the database answer or time out (85 s, 15 s), so  *)
(* every handler goes on; systemd restarts a dead agent after 3 s.         *)
(***************************************************************************)
FairSpec == Spec /\ (\A t \in Threads : WF_vars(Handler(t))) /\ WF_vars(AgentStart) /\ WF_vars(Import)

(* pki_lock is never held for ever, whichever step of whichever request    *)
(* raises: every later creation and revocation would hang.                 *)
LockReleased == []<>(lock = NoThread)

-----------------------------------------------------------------------------
(***************************************************************************)
(* Two statements of the documentation that the code does not keep.        *)
(***************************************************************************)

(* "Permanent revocation of the certificate cannot be undone" (README.md   *)
(* 31, in Persian): a revoked client is never shown in another state,      *)
(* unless it is being revoked again.                                       *)
RevokedStaysRevoked ==
  [][\A n \in Names : row[n] = "revoked" => row'[n] \in {"revoked", "revoking"}]_vars

(* "Valid existing clients enter the panel" (README.md 53, in Persian):    *)
(* when the agent serves, a client it is not creating itself is past the   *)
(* provisional state that nothing but revocation leads out of.             *)
ExistingAreImported ==
  main = "serving" => \A n \in existing : row[n] # "provisioning"
=============================================================================
