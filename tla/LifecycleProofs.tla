-------------------------- MODULE LifecycleProofs --------------------------
(***************************************************************************)
(* Theorems about Lifecycle, for every set of clients and of requests, and *)
(* about Waits, for every set of handlers and hooks.                       *)
(***************************************************************************)
EXTENDS Agent, SequenceTheorems, TLAPS

(* Only the holder of pki_lock is inside a create or a revoke.             *)
Locked == \A t \in Threads : pc[t] \in Critical => lock = t

(* Every name on a list was revoked, and every name on OpenVPN's list, or  *)
(* on its way there, is on the authority's.                                *)
Lists == crl \subseteq caCrl /\ newCrl \subseteq caCrl /\ caCrl \subseteq RevokedCerts

(* A client that was revoked, or is being imported, has a row.             *)
Rows == /\ \A n \in Names : cert[n] = "revoked" \/ n \in done => row[n] # "none"
        /\ fresh # NoName => row[fresh] # "none" /\ cert[fresh] # "none"

(* What a request knows of its client before each of its steps.            *)
Known(t) ==
  LET n == name[t]
  IN /\ pc[t] = "build" => cert[n] = "none" /\ n \notin done
     /\ pc[t] \in {"write", "activate"} => cert[n] # "none"
     /\ pc[t] \in {"write", "build", "activate", "verify", "undo"} => row[n] # "none"
     /\ pc[t] \in RevokeSteps \ {"mark"} => row[n] # "none"
     /\ pc[t] = "revoke" => cert[n] = "valid"
     /\ pc[t] \in {"gencrl", "copy", "fill", "deploy", "commit"} => cert[n] # "valid"
     /\ pc[t] \in {"copy", "fill", "deploy"} => (cert[n] = "revoked" => n \in caCrl)
     /\ pc[t] = "deploy" => newCrl = caCrl
     /\ pc[t] = "commit" => Denied(n)

Steady == \A t \in Threads : Known(t)

IInv == TypeOK /\ Locked /\ Lists /\ Rows /\ Steady /\ RevokedIsDenied /\ ActiveWasIssued

(* The invariant holds at first: there is no row, no list and no request.  *)
LEMMA InitialInvariant == Init => IInv
BY LifecycleAssumption
   DEF Init, IInv, TypeOK, Locked, Lists, Rows, Steady, Known, RevokedIsDenied, ActiveWasIssued,
       RowStates, Editable, Steps, Critical, CreateSteps, RevokeSteps

(* A new row state keeps the type of the table.                            *)
LEMMA TypeStep == TypeOK /\ [Next]_vars => TypeOK'
<1> SUFFICES ASSUME TypeOK, [Next]_vars PROVE TypeOK'
  OBVIOUS
<1> USE DEF TypeOK, At, Go, SetRow, Leave, files, RowStates, Editable, Steps, Critical, CreateSteps,
            RevokeSteps, RevokedCerts
<1>1. ASSUME NEW t \in Threads, NEW n \in Names, NEW step \in Steps, Request(t, n, step)
      PROVE TypeOK'
  BY <1>1 DEF Request
<1>2. ASSUME NEW t \in Threads, Acquire(t) \/ UpdateWrite(t) PROVE TypeOK'
  BY <1>2 DEF Acquire, UpdateWrite
<1>3. ASSUME NEW t \in Threads, Create(t) PROVE TypeOK'
  <2>1. CASE CreateRefused(t) \/ CreateAdd(t) \/ CreateVerify(t) \/ CreateFails(t) \/ CreateUndo(t)
    BY <2>1 DEF CreateRefused, CreateAdd, CreateVerify, CreateFails, CreateUndo
  <2>2. CASE CreateBuild(t) \/ CreateActivate(t)
    BY <2>2 DEF CreateBuild, CreateActivate
  <2>3. CASE CreateBuildFails(t)
    <3>1. inline' \in [Names -> BOOLEAN]
      BY <2>3, Zenon DEF CreateBuildFails
    <3> QED BY <2>3, <3>1 DEF CreateBuildFails
  <2> QED BY <1>3, <2>1, <2>2, <2>3 DEF Create
<1>4. ASSUME NEW t \in Threads, Revoke(t) PROVE TypeOK'
  <2>1. CASE RevokeRefused(t) \/ RevokeMark(t) \/ RevokeCert(t) \/ GenCrl(t)
    BY <2>1 DEF RevokeRefused, RevokeMark, RevokeCert, GenCrl
  <2>2. CASE CopyCrl(t) \/ FillCrl(t) \/ DeployCrl(t) \/ RevokeCommit(t)
    BY <2>2 DEF CopyCrl, FillCrl, DeployCrl, RevokeCommit
  <2>3. CASE RevokeUnlink(t) \/ RevokeFails(t)
    BY <2>3 DEF RevokeUnlink, RevokeFails
  <2> QED BY <1>4, <2>1, <2>2, <2>3 DEF Revoke
<1>5. CASE AgentStart \/ Import \/ Crash
  BY <1>5 DEF AgentStart, Import, ImportAdd, ImportActivate, Serve, Crash, Unknown
<1>6. CASE UNCHANGED vars
  BY <1>6 DEF vars
<1>7. ASSUME NEW t \in Threads, Arrive(t) PROVE TypeOK'
  BY <1>1, <1>7 DEF Arrive, UpdateRead
<1> QED BY <1>2, <1>3, <1>4, <1>5, <1>6, <1>7 DEF Next, Handler

-----------------------------------------------------------------------------
(* The holder of the lock is alone inside create and revoke.               *)
LEMMA Alone ==
  ASSUME Locked, NEW t \in Threads, pc[t] \in Critical
  PROVE  \A u \in Threads : pc[u] \in Critical => u = t
BY DEF Locked

(* pki_lock excludes: it is taken on the way in, and only its holder, or a *)
(* crash that ends every thread, gives it back.                            *)
LEMMA LockedStep == TypeOK /\ Locked /\ [Next]_vars => Locked'
<1> SUFFICES ASSUME TypeOK, Locked, [Next]_vars PROVE Locked'
  OBVIOUS
<1> USE DEF TypeOK, Locked, At, Go, Leave, Critical, CreateSteps, RevokeSteps, Steps
<1>1. ASSUME NEW t \in Threads, Arrive(t) PROVE Locked'
  BY <1>1 DEF Arrive, Request, UpdateRead
<1>2. ASSUME NEW t \in Threads, Acquire(t) \/ UpdateWrite(t) PROVE Locked'
  BY LifecycleAssumption, <1>2 DEF Acquire, UpdateWrite
<1>3. ASSUME NEW t \in Threads, Create(t) PROVE Locked'
  BY <1>3 DEF Create, CreateRefused, CreateAdd, CreateBuild, CreateBuildFails, CreateActivate,
              CreateVerify, CreateFails, CreateUndo
<1>4. ASSUME NEW t \in Threads, Revoke(t) PROVE Locked'
  BY <1>4 DEF Revoke, RevokeRefused, RevokeMark, RevokeCert, GenCrl, CopyCrl, FillCrl, DeployCrl,
              RevokeCommit, RevokeUnlink, RevokeFails
<1>5. CASE AgentStart \/ Import \/ Crash
  BY <1>5 DEF AgentStart, Import, ImportAdd, ImportActivate, Serve, Crash
<1>6. CASE UNCHANGED vars
  BY <1>6 DEF vars
<1> QED BY <1>1, <1>2, <1>3, <1>4, <1>5, <1>6 DEF Next, Handler

(* The invariant is inductive.  Under the lock a request works alone: what *)
(* it knows of its client is changed by its own steps only, and updates    *)
(* touch neither the PKI nor a row's existence.                            *)
LEMMA InvariantStep == IInv /\ [Next]_vars => IInv'
<1> SUFFICES ASSUME IInv, [Next]_vars PROVE IInv'
  OBVIOUS
<1> DEFINE Rest == Lists /\ Rows /\ Steady /\ RevokedIsDenied /\ ActiveWasIssued
<1>0. /\ TypeOK /\ Locked /\ TypeOK' /\ Locked'
      /\ \A t \in Threads : pc[t] \in Critical =>
             \A u \in Threads : pc[u] \in Critical => u = t
  BY TypeStep, LockedStep, Alone DEF IInv
<1> SUFFICES Rest'
  BY <1>0 DEF IInv
<1> USE DEF IInv, TypeOK, Lists, Rows, Steady, Known, RevokedIsDenied, ActiveWasIssued, Denied,
            At, Go, SetRow, Leave, files, RevokedCerts, RowStates, Editable, Steps, Critical,
            CreateSteps, RevokeSteps
<1>1. ASSUME NEW t \in Threads, Arrive(t) PROVE Rest'
  BY <1>0, <1>1 DEF Arrive, Request, UpdateRead
<1>2. ASSUME NEW t \in Threads, Acquire(t) \/ UpdateWrite(t) PROVE Rest'
  BY <1>0, <1>2 DEF Acquire, UpdateWrite
<1>3. ASSUME NEW t \in Threads, Create(t) PROVE Rest'
  <2>1. CASE CreateRefused(t) \/ CreateVerify(t) \/ CreateFails(t)
    BY <1>0, <2>1 DEF CreateRefused, CreateVerify, CreateFails
  <2>2. CASE CreateAdd(t)
    BY <1>0, <2>2 DEF CreateAdd
  <2>3. CASE CreateBuild(t)
    BY <1>0, <2>3 DEF CreateBuild
  <2>4. CASE CreateBuildFails(t)
    BY <1>0, <2>4 DEF CreateBuildFails
  <2>5. CASE CreateActivate(t)
    BY <1>0, <2>5 DEF CreateActivate
  <2>6. CASE CreateUndo(t)
    BY <1>0, <2>6 DEF CreateUndo
  <2> QED BY <1>3, <2>1, <2>2, <2>3, <2>4, <2>5, <2>6 DEF Create
<1>4. ASSUME NEW t \in Threads, Revoke(t) PROVE Rest'
  <2>1. CASE RevokeRefused(t)
    BY <1>0, <2>1 DEF RevokeRefused
  <2>2. CASE RevokeMark(t)
    BY <1>0, <2>2 DEF RevokeMark
  <2>3. CASE RevokeCert(t)
    BY <1>0, <2>3 DEF RevokeCert
  <2>4. CASE GenCrl(t)
    BY <1>0, <2>4 DEF GenCrl
  <2>5. CASE CopyCrl(t)
    BY <1>0, <2>5 DEF CopyCrl
  <2>6. CASE FillCrl(t)
    BY <1>0, <2>6 DEF FillCrl
  <2>7. CASE DeployCrl(t)
    BY <1>0, <2>7 DEF DeployCrl
  <2>8. CASE RevokeCommit(t)
    BY <1>0, <2>8 DEF RevokeCommit
  <2>9. CASE RevokeUnlink(t)
    BY <1>0, <2>9 DEF RevokeUnlink
  <2>10. CASE RevokeFails(t)
    BY <1>0, <2>10 DEF RevokeFails
  <2> QED BY <1>4, <2>1, <2>2, <2>3, <2>4, <2>5, <2>6, <2>7, <2>8, <2>9, <2>10 DEF Revoke
<1>5. CASE AgentStart \/ Crash
  BY <1>0, <1>5 DEF AgentStart, Crash
<1>6. CASE Import
  BY <1>0, <1>6 DEF Import, ImportAdd, ImportActivate, Serve, Unknown
<1>7. CASE UNCHANGED vars
  BY <1>0, <1>7 DEF vars
<1> QED BY <1>1, <1>2, <1>3, <1>4, <1>5, <1>6, <1>7 DEF Next, Handler

(* The invariant is one.                                                   *)
LEMMA Invariant == Spec => []IInv
BY InitialInvariant, InvariantStep, PTL DEF Spec

(* The rows, files and requests always have their types.                   *)
THEOREM TypeCorrect == Spec => []TypeOK
<1>1. IInv => TypeOK
  BY DEF IInv
<1> QED BY Invariant, <1>1, PTL

(* A committed revocation is effective and for good, whatever fails, dies  *)
(* or runs at the same time (agent.py 194-211).                            *)
THEOREM RevokedIsDeniedHolds == Spec => []RevokedIsDenied
<1>1. IInv => RevokedIsDenied
  BY DEF IInv
<1> QED BY Invariant, <1>1, PTL

(* No client is active or suspended that no certificate was issued for     *)
(* (agent.py 164-184, 84-85).                                              *)
THEOREM ActiveWasIssuedHolds == Spec => []ActiveWasIssued
<1>1. IInv => ActiveWasIssued
  BY DEF IInv
<1> QED BY Invariant, <1>1, PTL

(* OpenVPN's revocation list never loses a name (agent.py 201-205).        *)
THEOREM CrlOnlyGrowsHolds == Spec => CrlOnlyGrows
<1>1. IInv /\ [Next]_vars => [crl \subseteq crl']_vars
  <2> SUFFICES ASSUME IInv, Next PROVE crl \subseteq crl'
    BY DEF vars
  <2>1. ASSUME NEW t \in Threads, DeployCrl(t) PROVE crl \subseteq crl'
    BY <2>1 DEF IInv, Steady, Known, Lists, DeployCrl, At
  <2>2. ASSUME NEW t \in Threads, Revoke(t), ~DeployCrl(t) PROVE crl' = crl
    BY <2>2 DEF Revoke, RevokeRefused, RevokeMark, RevokeCert, GenCrl, CopyCrl, FillCrl,
                RevokeCommit, RevokeUnlink, RevokeFails, files
  <2>3. ASSUME NEW t \in Threads, Create(t) PROVE crl' = crl
    BY <2>3 DEF Create, CreateRefused, CreateAdd, CreateBuild, CreateBuildFails, CreateActivate,
                CreateVerify, CreateFails, CreateUndo, files
  <2>4. ASSUME NEW t \in Threads, Arrive(t) \/ Acquire(t) \/ UpdateWrite(t) PROVE crl' = crl
    BY <2>4 DEF Arrive, Request, UpdateRead, Acquire, UpdateWrite, files
  <2>5. ASSUME AgentStart \/ Import \/ Crash PROVE crl' = crl
    BY <2>5 DEF AgentStart, Import, ImportAdd, ImportActivate, Serve, Crash, files
  <2> QED BY <2>1, <2>2, <2>3, <2>4, <2>5 DEF Next, Handler
<1> QED BY Invariant, <1>1, PTL DEF Spec, CrlOnlyGrows

-----------------------------------------------------------------------------
(* Who has no row is on no list: "unknown" means that there is no row.     *)
LEMMA UnknownHasNoRow ==
  ASSUME IInv, NEW n \in Names
  PROVE  /\ access[n] \in {"unknown", "closed", "open", "withdrawn"}
         /\ access[n] = "unknown" <=> row[n] = "none"
         /\ access[n] = "withdrawn" <=> n \in crl
BY DEF access, IInv, Rows, Lists, RevokedCerts

(* A step that leaves the list alone and changes one client's row or       *)
(* certificate, without giving up its row, keeps the promise.              *)
LEMMA OneClient ==
  ASSUME IInv, NEW n \in Names, crl' = crl,
         \A m \in Names \ {n} : row'[m] = row[m] /\ cert'[m] = cert[m],
         row[n] = "none" => row'[n] # "active",
         row'[n] = "none" => row[n] = "none"
  PROVE  [Promise!Next]_access
<1>1. \A m \in Names \ {n} : access'[m] = access[m]
  BY DEF access
<1>2. access \in [Names -> Promise!Rights] /\ access' = [access EXCEPT ![n] = access'[n]]
  <2>1. access \in [Names -> Promise!Rights] /\ access' \in [Names -> Promise!Rights]
    BY DEF access, Promise!Rights
  <2> HIDE DEF access
  <2> QED BY <1>1, <2>1
<1>3. \/ access'[n] = access[n]
      \/ access[n] = "unknown" /\ access'[n] = "closed"
      \/ access[n] = "closed" /\ access'[n] = "open"
      \/ access[n] = "open" /\ access'[n] = "closed"
  <2>1. n \in crl => row[n] # "none"
    BY DEF IInv, Lists, Rows, RevokedCerts
  <2> QED BY <2>1 DEF access
<1>4. CASE access'[n] = access[n]
  BY <1>2, <1>4
<1>5. CASE access'[n] # access[n]
  BY <1>2, <1>3, <1>5 DEF Promise!Next, Promise!Know, Promise!Open, Promise!Close, Promise!Turn
<1> QED BY <1>4, <1>5

(* Deploying a list withdraws those it adds, who all have a row.           *)
LEMMA Deployment ==
  ASSUME IInv, NEW t \in Threads, DeployCrl(t)
  PROVE  Promise!Next
<1> DEFINE S == newCrl \ crl
<1>1. /\ crl \subseteq crl' /\ crl' = crl \cup S /\ row' = row /\ cert' = cert
      /\ S \subseteq Names
  BY DEF IInv, TypeOK, Steady, Known, Lists, DeployCrl, At
<1>2. \A n \in S : row[n] # "none" /\ n \notin crl
  BY DEF IInv, TypeOK, Lists, Rows, RevokedCerts
<1>3. \A n \in S : access[n] \in {"closed", "open"}
  BY <1>1, <1>2, UnknownHasNoRow
<1>4. access' = [n \in Names |-> IF n \in S THEN "withdrawn" ELSE access[n]]
  BY <1>1 DEF access
<1> QED BY <1>1, <1>3, <1>4 DEF Promise!Next, Promise!Withdraw

(* Nothing is known of any client at first.                                *)
LEMMA InitialPromise == Init => Promise!Init
BY DEF Init, Promise!Init, access

(* Every step keeps the promise or leaves the right to connect alone.      *)
LEMMA PromiseStep == IInv /\ [Next]_vars => [Promise!Next]_access
<1> SUFFICES ASSUME IInv, [Next]_vars PROVE [Promise!Next]_access
  OBVIOUS
<1>1. ASSUME crl' = crl, row' = row, cert' = cert PROVE access' = access
  BY <1>1 DEF access
<1>2. ASSUME NEW t \in Threads, Arrive(t) \/ Acquire(t) PROVE access' = access
  BY <1>1, <1>2 DEF Arrive, Request, UpdateRead, Acquire, files
<1>3. ASSUME NEW t \in Threads, UpdateWrite(t) \/ Create(t) PROVE [Promise!Next]_access
  <2> DEFINE n == name[t]
  <2>1. n \in Names /\ crl' = crl
    BY <1>3 DEF IInv, TypeOK, UpdateWrite, Create, CreateRefused, CreateAdd, CreateBuild,
                CreateBuildFails, CreateActivate, CreateVerify, CreateFails, CreateUndo, files
  <2>2. \A m \in Names \ {n} : row'[m] = row[m] /\ cert'[m] = cert[m]
    BY <1>3 DEF IInv, TypeOK, SetRow, UpdateWrite, Create, CreateRefused, CreateAdd, CreateBuild,
                CreateBuildFails, CreateActivate, CreateVerify, CreateFails, CreateUndo, files
  <2>3. (row[n] = "none" => row'[n] # "active") /\ (row'[n] = "none" => row[n] = "none")
    BY <1>3, <2>1 DEF IInv, TypeOK, Steady, Known, At, SetRow, Editable, UpdateWrite, Create,
                CreateRefused, CreateAdd, CreateBuild, CreateBuildFails, CreateActivate,
                CreateVerify, CreateFails, CreateUndo, files
  <2> QED BY <2>1, <2>2, <2>3, OneClient
<1>4. ASSUME NEW t \in Threads, Revoke(t) PROVE [Promise!Next]_access
  <2>1. CASE DeployCrl(t)
    BY <2>1, Deployment
  <2>2. CASE ~DeployCrl(t)
    <3> DEFINE n == name[t]
    <3>1. n \in Names /\ crl' = crl
      BY <1>4, <2>2 DEF IInv, TypeOK, Revoke, RevokeRefused, RevokeMark, RevokeCert, GenCrl,
                  CopyCrl, FillCrl, RevokeCommit, RevokeUnlink, RevokeFails, files
    <3>2. \A m \in Names \ {n} : row'[m] = row[m] /\ cert'[m] = cert[m]
      BY <1>4, <2>2 DEF IInv, TypeOK, SetRow, Revoke, RevokeRefused, RevokeMark, RevokeCert,
                  GenCrl, CopyCrl, FillCrl, RevokeCommit, RevokeUnlink, RevokeFails, files
    <3>3. (row[n] = "none" => row'[n] # "active") /\ (row'[n] = "none" => row[n] = "none")
      BY <1>4, <2>2, <3>1 DEF IInv, TypeOK, SetRow, Revoke, RevokeRefused, RevokeMark,
                  RevokeCert, GenCrl, CopyCrl, FillCrl, RevokeCommit, RevokeUnlink, RevokeFails,
                  files
    <3> QED BY <3>1, <3>2, <3>3, OneClient
  <2> QED BY <2>1, <2>2
<1>5. CASE AgentStart \/ Serve \/ Crash
  BY <1>1, <1>5 DEF AgentStart, Serve, Crash, files
<1>6. ASSUME NEW n \in Names, ImportAdd(n) PROVE [Promise!Next]_access
  <2>1. row' = [row EXCEPT ![n] = "provisioning"] /\ crl' = crl /\ cert' = cert
    BY <1>6 DEF ImportAdd, SetRow, files
  <2> QED BY <2>1, OneClient DEF IInv, TypeOK
<1>7. CASE ImportActivate
  <2>1. /\ fresh \in Names /\ row[fresh] # "none"
        /\ row' = [row EXCEPT ![fresh] = "active"] /\ crl' = crl /\ cert' = cert
    BY <1>7 DEF ImportActivate, SetRow, files, IInv, TypeOK, Rows
  <2> QED BY <2>1, OneClient DEF IInv, TypeOK
<1>8. CASE UNCHANGED vars
  BY <1>1, <1>8 DEF vars
<1> QED BY <1>2, <1>3, <1>4, <1>5, <1>6, <1>7, <1>8 DEF Next, Handler, Import

(* The agent's handlers implement Access: whatever they interleave to, the *)
(* right to connect is closed and opened, and withdrawn for good.          *)
THEOREM AccessImplemented == Spec => ImplementsAccess
BY Invariant, InitialPromise, PromiseStep, PTL DEF Spec, ImplementsAccess, Promise!Spec
-----------------------------------------------------------------------------
(***************************************************************************)
(* The agent's threads and what they wait for (Waits), for any number of   *)
(* requests, of hook handlers and of sessions.                             *)
(***************************************************************************)
(* pki_lock is only taken first and for something, and a hook handler only *)
(* writes a row.                                                           *)
PkiFirst(list) ==
  /\ \A k \in 2..Len(list) : list[k] # "pki"
  /\ list # <<>> /\ Head(list) = "pki" => Len(list) # 1
OnlyWrites(list) == \A k \in 1..Len(list) : list[k] = "db"

Todos ==
  /\ todo \in [W!Workers -> Seq(W!Steps)]
  /\ \A t \in W!Workers : PkiFirst(todo[t])
  /\ \A h \in Hooks : OnlyWrites(todo[h])

(* Who holds a lock is at a step that uses it, and is never before         *)
(* pki_lock while it holds something.                                      *)
Holders ==
  /\ db # W!Free => db \in W!Workers /\ W!At(db, {"db"})
  /\ management # W!Free => management \in W!Workers /\ W!At(management, {"status", "kill"})
  /\ pki # W!Free => pki \in W!Workers /\ W!Busy(pki) /\ ~W!At(pki, {"pki"})
  /\ script \in Hooks \cup {W!Free}

\* A thread that goes on keeps the shape of its list.
LEMMA TailOfList ==
  ASSUME NEW list \in Seq(W!Steps), list # <<>>
  PROVE  /\ Tail(list) \in Seq(W!Steps)
         /\ PkiFirst(list) => PkiFirst(Tail(list)) /\ (Tail(list) # <<>> => Head(Tail(list)) # "pki")
         /\ OnlyWrites(list) => OnlyWrites(Tail(list))
         /\ Len(list) = 1 <=> Tail(list) = <<>>
<1>1. /\ Tail(list) \in Seq(W!Steps) /\ Len(Tail(list)) = Len(list) - 1
      /\ \A k \in 1..Len(Tail(list)) : Tail(list)[k] = list[k + 1]
  BY HeadTailProperties
<1>2. Len(list) \in Nat \ {0} /\ Len(Tail(list)) \in Nat
  BY <1>1, EmptySeq, LenProperties
<1>3. Tail(list) # <<>> => Len(Tail(list)) \in Nat \ {0} /\ Head(Tail(list)) = Tail(list)[1]
  BY <1>1, EmptySeq
<1>4. Len(list) = 1 <=> Tail(list) = <<>>
  <2>1. Len(Tail(list)) = 0 <=> Tail(list) = <<>>
    <3>1. Len(<<>>) = 0
      OBVIOUS
    <3>2. Tail(list) # <<>> => Len(Tail(list)) # 0
      BY <1>3
    <3> QED BY <3>1, <3>2
  <2>2. Len(list) = 1 <=> Len(Tail(list)) = 0
    BY <1>1, <1>2
  <2> QED BY <2>1, <2>2
<1>5. PkiFirst(list) => PkiFirst(Tail(list)) /\ (Tail(list) # <<>> => Head(Tail(list)) # "pki")
  <2> SUFFICES ASSUME PkiFirst(list)
               PROVE  PkiFirst(Tail(list)) /\ (Tail(list) # <<>> => Head(Tail(list)) # "pki")
    OBVIOUS
  <2>1. \A k \in 1..Len(Tail(list)) : Tail(list)[k] # "pki"
    BY <1>1, <1>2 DEF PkiFirst
  <2> QED BY <2>1, <1>2, <1>3 DEF PkiFirst
<1>6. OnlyWrites(list) => OnlyWrites(Tail(list))
  BY <1>1, <1>2 DEF OnlyWrites
<1> QED BY <1>1, <1>4, <1>5, <1>6

\* A list of writes only begins with one.
LEMMA HeadOfWrites ==
  ASSUME NEW list \in Seq(W!Steps), list # <<>>, OnlyWrites(list)
  PROVE  Head(list) = "db"
<1>1. Len(list) \in Nat \ {0} /\ Head(list) = list[1]
  BY EmptySeq
<1> QED BY <1>1 DEF OnlyWrites

\* So does a thread that stops the VPN.
LEMMA StoppedList ==
  ASSUME NEW list \in Seq(W!Steps), list # <<>>, PkiFirst(list)
  PROVE  LET l == <<"stopped">> \o Tail(list)
         IN  l \in Seq(W!Steps) /\ PkiFirst(l) /\ l # <<>> /\ Head(l) = "stopped"
<1> DEFINE l == <<"stopped">> \o Tail(list)
<1>1. /\ Tail(list) \in Seq(W!Steps) /\ Len(Tail(list)) = Len(list) - 1
      /\ \A k \in 1..Len(Tail(list)) : Tail(list)[k] = list[k + 1]
  BY HeadTailProperties
<1>2. <<"stopped">> \in Seq(W!Steps) /\ Len(<<"stopped">>) = 1 /\ <<"stopped">>[1] = "stopped"
  BY DEF W!Steps
<1>3. /\ l \in Seq(W!Steps) /\ Len(l) = 1 + Len(Tail(list))
      /\ \A k \in 1..(1 + Len(Tail(list))) : l[k] = IF k <= 1 THEN <<"stopped">>[k] ELSE Tail(list)[k - 1]
  BY <1>1, <1>2, ConcatProperties
<1>4. Len(list) \in Nat \ {0} /\ Len(Tail(list)) \in Nat
  BY <1>1, EmptySeq
<1> HIDE DEF l
<1>5. l[1] = "stopped" /\ l # <<>>
  <2>1. Len(<<>>) = 0
    OBVIOUS
  <2> QED BY <1>2, <1>3, <1>4, <2>1
<1>6. Head(l) = "stopped"
  BY <1>3, <1>5
<1>7. \A k \in 2..Len(l) : l[k] # "pki"
  <2> SUFFICES ASSUME NEW k \in 2..Len(l) PROVE l[k] # "pki"
    OBVIOUS
  <2>1. k - 1 \in 1..Len(Tail(list)) /\ k \in 1..(1 + Len(Tail(list))) /\ ~(k <= 1) /\ k \in 2..Len(list)
    BY <1>1, <1>3, <1>4
  <2>2. l[k] = Tail(list)[k - 1] /\ Tail(list)[k - 1] = list[(k - 1) + 1]
    BY <1>1, <1>3, <2>1
  <2> QED BY <2>1, <2>2 DEF PkiFirst
<1> QED BY <1>3, <1>5, <1>6, <1>7 DEF PkiFirst, l

\* The lists threads start with have that shape.
LEMMA ArrivingLists ==
  /\ \A list \in W!Rounds \cup W!Requests : list \in Seq(W!Steps) /\ PkiFirst(list)
  /\ W!Hook \in Seq(W!Steps) /\ PkiFirst(W!Hook) /\ OnlyWrites(W!Hook)
  /\ <<>> \in Seq(W!Steps) /\ PkiFirst(<<>>) /\ OnlyWrites(<<>>)
<1>1. \A list \in W!Rounds : list \in Seq(W!Steps) /\ PkiFirst(list)
  <2>1. <<"status", "db">> \in Seq(W!Steps) /\ PkiFirst(<<"status", "db">>)
    BY DEF W!Steps, PkiFirst
  <2>2. <<"status", "db", "kill">> \in Seq(W!Steps) /\ PkiFirst(<<"status", "db", "kill">>)
    BY DEF W!Steps, PkiFirst
  <2>3. <<"stop">> \in Seq(W!Steps) /\ PkiFirst(<<"stop">>)
    BY DEF W!Steps, PkiFirst
  <2> QED BY <2>1, <2>2, <2>3 DEF W!Rounds
<1>2. \A list \in W!Requests : list \in Seq(W!Steps) /\ PkiFirst(list)
  <2>1. <<"db">> \in Seq(W!Steps) /\ PkiFirst(<<"db">>)
    BY DEF W!Steps, PkiFirst
  <2>2. <<"db", "kill">> \in Seq(W!Steps) /\ PkiFirst(<<"db", "kill">>)
    BY DEF W!Steps, PkiFirst
  <2>3. <<"kill">> \in Seq(W!Steps) /\ PkiFirst(<<"kill">>)
    BY DEF W!Steps, PkiFirst
  <2>4. <<"stop">> \in Seq(W!Steps) /\ PkiFirst(<<"stop">>)
    BY DEF W!Steps, PkiFirst
  <2>5. <<"pki", "db", "easyrsa", "db">> \in Seq(W!Steps) /\ PkiFirst(<<"pki", "db", "easyrsa", "db">>)
    BY DEF W!Steps, PkiFirst
  <2>6. <<"pki", "db", "easyrsa", "db", "kill">> \in Seq(W!Steps) /\ PkiFirst(<<"pki", "db", "easyrsa", "db", "kill">>)
    BY DEF W!Steps, PkiFirst
  <2> QED BY <2>1, <2>2, <2>3, <2>4, <2>5, <2>6 DEF W!Requests
<1>3. W!Hook \in Seq(W!Steps) /\ PkiFirst(W!Hook) /\ OnlyWrites(W!Hook)
  BY DEF W!Hook, W!Steps, PkiFirst, OnlyWrites
<1>4. <<>> \in Seq(W!Steps) /\ PkiFirst(<<>>) /\ OnlyWrites(<<>>)
  BY DEF PkiFirst, OnlyWrites
<1> QED BY <1>1, <1>2, <1>3, <1>4

(* A step of a thread, OpenVPN or a script takes a list that is in order   *)
(* to one that is, for each thread.                                        *)
WaitsInv == Todos /\ Holders

\* A step of one thread that leaves pki_lock alone keeps it with its holder.
LEMMA AdvanceKeeps ==
  ASSUME WaitsInv, NEW t \in W!Workers, W!Busy(t), W!Advance(t)
  PROVE  /\ Todos'
         /\ pki' # W!Free => pki' \in W!Workers /\ W!Busy(pki)' /\ ~W!At(pki, {"pki"})'
         /\ \A u \in W!Workers \ {t} : todo'[u] = todo[u]
<1> USE DEF WaitsInv, Todos
<1>1. /\ todo[t] \in Seq(W!Steps) /\ todo[t] # <<>>
      /\ todo' = [todo EXCEPT ![t] = Tail(todo[t])]
      /\ pki' = IF pki = t /\ Len(todo[t]) = 1 THEN W!Free ELSE pki
  BY DEF W!Busy, W!Advance
<1>2. /\ Tail(todo[t]) \in Seq(W!Steps) /\ PkiFirst(Tail(todo[t]))
      /\ Tail(todo[t]) # <<>> => Head(Tail(todo[t])) # "pki"
      /\ t \in Hooks => OnlyWrites(Tail(todo[t]))
      /\ Len(todo[t]) = 1 <=> Tail(todo[t]) = <<>>
  BY <1>1, TailOfList
<1>3. \A u \in W!Workers : todo'[u] = IF u = t THEN Tail(todo[t]) ELSE todo[u]
  BY <1>1
<1>4. Todos'
  <2>1. todo' \in [W!Workers -> Seq(W!Steps)]
    BY <1>1, <1>2
  <2>2. \A u \in W!Workers : PkiFirst(todo'[u])
    BY <1>2, <1>3
  <2>3. \A h \in Hooks : OnlyWrites(todo'[h])
    BY <1>2, <1>3 DEF W!Workers
  <2> QED BY <2>1, <2>2, <2>3
<1>5. pki' # W!Free => pki' \in W!Workers /\ W!Busy(pki)' /\ ~W!At(pki, {"pki"})'
  <2> SUFFICES ASSUME pki' # W!Free
               PROVE  pki' \in W!Workers /\ W!Busy(pki)' /\ ~W!At(pki, {"pki"})'
    OBVIOUS
  <2>1. pki' = pki /\ pki \in W!Workers /\ W!Busy(pki) /\ ~W!At(pki, {"pki"})
    BY <1>1 DEF Holders
  <2>2. CASE pki = t
    BY <1>1, <1>2, <1>3, <2>1, <2>2 DEF W!Busy, W!At
  <2>3. CASE pki # t
    BY <1>3, <2>1, <2>3 DEF W!Busy, W!At
  <2> QED BY <2>2, <2>3
<1> QED BY <1>3, <1>4, <1>5

\* A thread that fails gives its locks back.
LEMMA AbortKeeps ==
  ASSUME WaitsAssumption, WaitsInv, NEW t \in W!Workers, W!Abort(t)
  PROVE  WaitsInv'
<1> USE DEF WaitsInv, Todos
<1>1. \A u \in W!Workers : todo'[u] = IF u = t THEN <<>> ELSE todo[u]
  BY DEF W!Abort
<1>2. Todos'
  <2>1. todo' \in [W!Workers -> Seq(W!Steps)]
    BY ArrivingLists DEF W!Abort
  <2>2. \A u \in W!Workers : PkiFirst(todo'[u])
    BY <1>1, ArrivingLists
  <2>3. \A h \in Hooks : OnlyWrites(todo'[h])
    BY <1>1, ArrivingLists DEF W!Workers
  <2> QED BY <2>1, <2>2, <2>3
<1>3. Holders'
  BY <1>1 DEF W!Abort, Holders, W!Busy, W!At, W!openvpn
<1> QED BY <1>2, <1>3

\* A thread that starts holds nothing.
LEMMA ArriveKeeps ==
  ASSUME WaitsInv, NEW t \in W!Workers, ~W!Busy(t),
         NEW list \in Seq(W!Steps), PkiFirst(list), t \in Hooks => OnlyWrites(list),
         todo' = [todo EXCEPT ![t] = list], UNCHANGED W!locks, script' \in Hooks \cup {W!Free}
  PROVE  WaitsInv'
<1> USE DEF WaitsInv, Todos
<1>1. \A u \in W!Workers : todo'[u] = IF u = t THEN list ELSE todo[u]
  OBVIOUS
<1>2. Todos'
  <2>1. \A h \in Hooks : OnlyWrites(todo'[h])
    BY <1>1 DEF W!Workers
  <2> QED BY <1>1, <2>1
<1>3. Holders'
  BY <1>1 DEF Holders, W!Busy, W!At, W!locks
<1> QED BY <1>2, <1>3

\* Every step of the threads and of OpenVPN keeps the invariant of the locks.
LEMMA WaitsStep == WaitsAssumption /\ WaitsInv /\ [W!Next]_W!vars => WaitsInv'
<1> SUFFICES ASSUME WaitsAssumption, WaitsInv, [W!Next]_W!vars PROVE WaitsInv'
  OBVIOUS
<1> USE DEF W!locks, W!openvpn
<1>1. ASSUME NEW t \in W!Workers, W!Thread(t) PROVE WaitsInv'
  <2>1. CASE W!Begin(t)
    BY <1>1, <2>1 DEF W!Begin, WaitsInv, Todos, Holders, W!Busy, W!At
  <2>2. CASE W!Commit(t)
    <3>1. W!Advance(t) /\ W!Busy(t) /\ db' = W!Free /\ UNCHANGED <<management, script>>
      BY <2>2 DEF W!Commit, W!At
    <3>2. management # t
      BY <1>1, <2>2 DEF WaitsAssumption, W!Commit, WaitsInv, Holders, W!At
    <3>3. /\ Todos'
          /\ pki' # W!Free => pki' \in W!Workers /\ W!Busy(pki)' /\ ~W!At(pki, {"pki"})'
          /\ \A u \in W!Workers \ {t} : todo'[u] = todo[u]
      BY <1>1, <3>1, AdvanceKeeps
    <3>4. /\ db' # W!Free => db' \in W!Workers /\ W!At(db, {"db"})'
          /\ management' # W!Free => management' \in W!Workers /\ W!At(management, {"status", "kill"})'
          /\ script' \in Hooks \cup {W!Free}
      BY <1>1, <3>1, <3>2, <3>3 DEF WaitsInv, Holders, W!Busy, W!At
    <3> QED BY <3>3, <3>4 DEF WaitsInv, Holders
  <2>3. CASE W!TakePki(t)
    <3>1. /\ todo[t] \in Seq(W!Steps) /\ todo[t] # <<>> /\ Head(todo[t]) = "pki" /\ PkiFirst(todo[t])
          /\ todo' = [todo EXCEPT ![t] = Tail(todo[t])] /\ pki' = t
          /\ UNCHANGED <<db, management, script>>
      BY <1>1, <2>3 DEF W!TakePki, W!At, W!Busy, WaitsInv, Todos
    <3>2. /\ Tail(todo[t]) \in Seq(W!Steps) /\ PkiFirst(Tail(todo[t]))
          /\ Tail(todo[t]) # <<>> => Head(Tail(todo[t])) # "pki"
      BY <3>1, TailOfList
    <3>3. Tail(todo[t]) # <<>>
      BY <3>1, TailOfList DEF PkiFirst
    <3>4. \A u \in W!Workers : todo'[u] = IF u = t THEN Tail(todo[t]) ELSE todo[u]
      BY <3>1 DEF WaitsInv, Todos
    <3>5. Todos'
      <4>1. t \in Hooks => OnlyWrites(Tail(todo[t]))
        BY <3>1, TailOfList DEF WaitsInv, Todos
      <4>2. \A h \in Hooks : OnlyWrites(todo'[h])
        BY <3>4, <4>1 DEF WaitsInv, Todos, W!Workers
      <4>3. \A u \in W!Workers : PkiFirst(todo'[u])
        BY <3>2, <3>4 DEF WaitsInv, Todos
      <4>4. todo' \in [W!Workers -> Seq(W!Steps)]
        BY <3>1, <3>2 DEF WaitsInv, Todos
      <4> QED BY <4>2, <4>3, <4>4 DEF Todos
    <3>6. db # t /\ management # t
      BY <1>1, <3>1 DEF WaitsAssumption, WaitsInv, Holders, W!At
    <3>7. Holders'
      BY <1>1, <3>1, <3>2, <3>3, <3>4, <3>6 DEF WaitsInv, Holders, W!Busy, W!At
    <3> QED BY <3>5, <3>7 DEF WaitsInv
  <2>4. CASE W!EasyRsa(t)
    <3>1. W!Advance(t) /\ W!Busy(t) /\ UNCHANGED <<db, management, script>>
      BY <2>4 DEF W!EasyRsa, W!At
    <3>2. db # t /\ management # t
      BY <1>1, <2>4 DEF WaitsAssumption, W!EasyRsa, WaitsInv, Holders, W!At
    <3>3. /\ Todos'
          /\ pki' # W!Free => pki' \in W!Workers /\ W!Busy(pki)' /\ ~W!At(pki, {"pki"})'
          /\ \A u \in W!Workers \ {t} : todo'[u] = todo[u]
      BY <1>1, <3>1, AdvanceKeeps
    <3>4. /\ db' # W!Free => db' \in W!Workers /\ W!At(db, {"db"})'
          /\ management' # W!Free => management' \in W!Workers /\ W!At(management, {"status", "kill"})'
          /\ script' \in Hooks \cup {W!Free}
      BY <1>1, <3>1, <3>2, <3>3 DEF WaitsInv, Holders, W!Busy, W!At
    <3> QED BY <3>3, <3>4 DEF WaitsInv, Holders
  <2>5. CASE W!Connect(t)
    BY <1>1, <2>5 DEF W!Connect, WaitsInv, Todos, Holders, W!Busy, W!At
  <2>6. CASE W!Replied(t)
    <3>1. W!Advance(t) /\ W!Busy(t) /\ management' = W!Free /\ UNCHANGED <<db, script>>
      BY <2>6 DEF W!Replied, W!At
    <3>2. db # t
      BY <1>1, <2>6 DEF WaitsAssumption, W!Replied, WaitsInv, Holders, W!At
    <3>3. /\ Todos'
          /\ pki' # W!Free => pki' \in W!Workers /\ W!Busy(pki)' /\ ~W!At(pki, {"pki"})'
          /\ \A u \in W!Workers \ {t} : todo'[u] = todo[u]
      BY <1>1, <3>1, AdvanceKeeps
    <3>4. /\ db' # W!Free => db' \in W!Workers /\ W!At(db, {"db"})'
          /\ management' # W!Free => management' \in W!Workers /\ W!At(management, {"status", "kill"})'
          /\ script' \in Hooks \cup {W!Free}
      BY <1>1, <3>1, <3>2, <3>3 DEF WaitsInv, Holders, W!Busy, W!At
    <3> QED BY <3>3, <3>4 DEF WaitsInv, Holders
  <2>7. CASE W!Stop(t)
    <3> DEFINE list == <<"stopped">> \o Tail(todo[t])
    <3>1. /\ todo[t] \in Seq(W!Steps) /\ todo[t] # <<>> /\ Head(todo[t]) = "stop" /\ PkiFirst(todo[t])
          /\ todo' = [todo EXCEPT ![t] = list]
          /\ UNCHANGED <<db, pki, management, script>>
      BY <1>1, <2>7 DEF W!Stop, W!At, W!Busy, WaitsInv, Todos
    <3>2. list \in Seq(W!Steps) /\ PkiFirst(list) /\ list # <<>> /\ Head(list) = "stopped"
      BY <3>1, StoppedList
    <3>3. \A u \in W!Workers : todo'[u] = IF u = t THEN list ELSE todo[u]
      BY <3>1 DEF WaitsInv, Todos
    <3>4. t \notin Hooks
      BY <3>1, HeadOfWrites DEF WaitsInv, Todos
    <3>5. Todos'
      BY <3>1, <3>2, <3>3, <3>4 DEF WaitsInv, Todos, W!Workers
    <3>6. db # t /\ management # t
      BY <1>1, <3>1 DEF WaitsAssumption, WaitsInv, Holders, W!At
    <3>7. Holders'
      <4> HIDE DEF list
      <4> QED BY <3>1, <3>2, <3>3, <3>6 DEF WaitsInv, Holders, W!Busy, W!At
    <3> QED BY <3>5, <3>7 DEF WaitsInv
  <2>8. CASE W!Stopped(t)
    <3>1. W!Advance(t) /\ W!Busy(t) /\ UNCHANGED <<db, management, script>>
      BY <2>8 DEF W!Stopped, W!At
    <3>2. db # t /\ management # t
      BY <1>1, <2>8 DEF WaitsAssumption, W!Stopped, WaitsInv, Holders, W!At
    <3>3. /\ Todos'
          /\ pki' # W!Free => pki' \in W!Workers /\ W!Busy(pki)' /\ ~W!At(pki, {"pki"})'
          /\ \A u \in W!Workers \ {t} : todo'[u] = todo[u]
      BY <1>1, <3>1, AdvanceKeeps
    <3>4. /\ db' # W!Free => db' \in W!Workers /\ W!At(db, {"db"})'
          /\ management' # W!Free => management' \in W!Workers /\ W!At(management, {"status", "kill"})'
          /\ script' \in Hooks \cup {W!Free}
      BY <1>1, <3>1, <3>2, <3>3 DEF WaitsInv, Holders, W!Busy, W!At
    <3> QED BY <3>3, <3>4 DEF WaitsInv, Holders
  <2>9. CASE W!Disconnected(t)
    BY <1>1, <2>9, AbortKeeps DEF W!Disconnected
  <2> QED BY <1>1, <2>1, <2>2, <2>3, <2>4, <2>5, <2>6, <2>7, <2>8, <2>9 DEF W!Thread
<1>2. ASSUME NEW t \in W!Workers, W!Fails(t) PROVE WaitsInv'
  BY <1>2, AbortKeeps DEF W!Fails
<1>3. ASSUME NEW list \in W!Rounds, W!Arrive(Monitor, list) PROVE WaitsInv'
  <2>1. Monitor \in W!Workers /\ Monitor \notin Hooks
    BY DEF WaitsAssumption, W!Workers
  <2>2. script' \in Hooks \cup {W!Free}
    BY <1>3 DEF W!Arrive, WaitsInv, Holders
  <2> QED BY <1>3, <2>1, <2>2, ArrivingLists, ArriveKeeps DEF W!Arrive
<1>4. ASSUME NEW t \in Handlers, NEW list \in W!Requests, W!Arrive(t, list) PROVE WaitsInv'
  <2>1. t \in W!Workers /\ t \notin Hooks
    BY DEF WaitsAssumption, W!Workers
  <2>2. script' \in Hooks \cup {W!Free}
    BY <1>4 DEF W!Arrive, WaitsInv, Holders
  <2> QED BY <1>4, <2>1, <2>2, ArrivingLists, ArriveKeeps DEF W!Arrive
<1>5. ASSUME NEW s \in Sessions, NEW h \in Hooks, W!Call(s, h) PROVE WaitsInv'
  <2>1. h \in W!Workers
    BY DEF W!Workers
  <2>2. /\ ~W!Busy(h) /\ todo' = [todo EXCEPT ![h] = W!Hook]
        /\ UNCHANGED W!locks /\ script' \in Hooks \cup {W!Free}
    BY <1>5 DEF W!Call
  <2> QED BY <2>1, <2>2, ArrivingLists, ArriveKeeps
<1>6. UNCHANGED <<todo, db, pki, management>> /\ script' \in {script, W!Free} => WaitsInv'
  BY DEF WaitsInv, Todos, Holders, W!Busy, W!At
<1>7. CASE W!Serve \/ W!Killed \/ W!ClientDone \/ W!Answered \/ W!GivesUp
  BY <1>6, <1>7 DEF W!Serve, W!Killed, W!ClientDone, W!Answered, W!GivesUp
<1>8. ASSUME NEW s \in Sessions, W!Client(s) PROVE WaitsInv'
  BY <1>6, <1>8 DEF W!Client
<1>9. CASE UNCHANGED W!vars
  BY <1>6, <1>9 DEF W!vars
<1> QED BY <1>1, <1>2, <1>3, <1>4, <1>5, <1>7, <1>8, <1>9 DEF W!Next

\* At first nobody has anything to do, and nobody holds anything.
LEMMA WaitsInit == AgentInit => WaitsInv
<1>1. W!Init => Todos
  BY ArrivingLists DEF W!Init, Todos, W!Workers
<1>2. W!Init => Holders
  BY DEF W!Init, Holders
<1> QED BY <1>1, <1>2 DEF AgentInit, WaitsInv

\* In a state of the invariant nobody waits, in the end, for himself.
LEMMA WaitsEnd == WaitsAssumption /\ WaitsInv => W!NoCircle
<1> SUFFICES ASSUME WaitsAssumption, WaitsInv PROVE W!NoCircle
  OBVIOUS
<1>1. W!WaitsFor(W!Free) = W!Free
  BY DEF WaitsAssumption, W!WaitsFor
<1>2. /\ db \in W!Workers \cup {W!Free} /\ management \in W!Workers \cup {W!Free}
      /\ pki \in W!Workers \cup {W!Free} /\ script \in Hooks \cup {W!Free}
  BY DEF WaitsInv, Holders
<1>3. W!WaitsFor(db) = W!Free
  BY <1>1, <1>2 DEF WaitsAssumption, WaitsInv, Holders, W!WaitsFor, W!At
<1>4. W!WaitsFor(script) \in {db, W!Free}
  <2> SUFFICES ASSUME script # W!Free PROVE W!WaitsFor(script) \in {db, W!Free}
    BY <1>1
  <2>1. script \in W!Workers /\ (W!Busy(script) => Head(todo[script]) = "db")
    BY <1>2, HeadOfWrites DEF WaitsInv, Todos, W!Workers, W!Busy
  <2> QED BY <2>1 DEF WaitsAssumption, W!WaitsFor, W!At
<1>5. W!WaitsFor(W!OpenVpn) = script
  BY DEF WaitsAssumption, W!WaitsFor
<1>6. management # W!Free => W!WaitsFor(management) = W!OpenVpn
  BY DEF WaitsAssumption, WaitsInv, Holders, W!WaitsFor, W!At
<1>7. ASSUME NEW a \in W!Workers, ~W!At(a, {"pki"})
      PROVE  W!WaitsFor(a) \in {db, management, W!OpenVpn, W!Free}
  BY <1>7 DEF WaitsAssumption, W!WaitsFor
<1>8. ASSUME NEW a \in W!Workers, W!At(a, {"pki"})
      PROVE  W!WaitsFor(a) = pki
  BY <1>8 DEF WaitsAssumption, W!WaitsFor, W!At
<1>9. pki # W!Free => W!WaitsFor(pki) \in {db, management, W!OpenVpn, W!Free}
  BY <1>7 DEF WaitsInv, Holders
<1>10. ASSUME NEW a \in W!Workers PROVE W!WaitsFor(a) \in {db, management, W!OpenVpn, W!Free, pki}
  BY <1>7, <1>8
<1> DEFINE w(a) == W!WaitsFor(a)
<1>11. w(w(W!Free)) = W!Free /\ w(w(db)) = W!Free /\ w(w(script)) = W!Free
  BY <1>1, <1>3, <1>4
<1>12. w(w(w(W!OpenVpn))) = W!Free
  BY <1>5, <1>11
<1>13. w(w(w(w(management)))) = W!Free /\ w(w(w(w(W!OpenVpn)))) = W!Free
  BY <1>1, <1>6, <1>12
<1>14. w(w(w(w(w(pki))))) = W!Free
  BY <1>1, <1>3, <1>9, <1>13
<1>15. ASSUME NEW a \in W!Workers PROVE w(w(w(w(w(w(a)))))) = W!Free
  BY <1>1, <1>3, <1>10, <1>13, <1>14
<1>16. w(w(w(w(w(w(W!OpenVpn)))))) = W!Free
  BY <1>1, <1>12
<1> QED BY <1>15, <1>16 DEF W!NoCircle, W!Ahead, W!Parties

(* Whoever waits, waits in the end for somebody who does not: the writer   *)
(* of a row waits for nobody, a hook handler at most for him, OpenVPN at   *)
(* most for a hook handler, the holder of the management socket for        *)
(* OpenVPN, the holder of pki_lock at most for that one (agent.py:24, 165, *)
(* 205, core.py:49, hook.py:15).                                           *)
THEOREM NoCircleHolds == AgentSpec => []NoCircle
<1>1. AgentInit => WaitsInv
  BY WaitsInit
<1>2. WaitsInv /\ [AgentNext]_<<part, vars, waiting>> => WaitsInv'
  <2>1. [AgentNext]_<<part, vars, waiting>> => [W!Next]_W!vars
    BY DEF AgentNext, waiting, W!vars
  <2> QED BY <2>1, WaitsAssumed, WaitsStep
<1>3. WaitsInv => NoCircle
  BY WaitsAssumed, WaitsEnd DEF NoCircle
<1> QED BY <1>1, <1>2, <1>3, PTL DEF AgentSpec

(* No list is longer than a request's, and the connection, OpenVPN and its *)
(* sessions are at one of their states.                                    *)
Short == \A t \in W!Workers : Len(todo[t]) <= 5
Talk ==
  /\ reply \in {"none", "taken", "done", "closed"}
  /\ event \in {"none", "kill", "stop", "client"}
  /\ session \in [Sessions -> {"out", "connecting", "in", "closing"}]

\* What threads start with is short.
LEMMA ArrivingShort ==
  /\ \A list \in W!Rounds \cup W!Requests : Len(list) <= 5
  /\ Len(W!Hook) <= 5 /\ Len(<<>>) <= 5
<1>1. Len(<<"status", "db">>) <= 5 /\ Len(<<"status", "db", "kill">>) <= 5 /\ Len(<<"stop">>) <= 5
  OBVIOUS
<1>2. \A list \in W!Rounds : Len(list) <= 5
  BY <1>1, Zenon DEF W!Rounds
<1>3. /\ Len(<<"db">>) <= 5 /\ Len(<<"db", "kill">>) <= 5 /\ Len(<<"kill">>) <= 5
      /\ Len(<<"pki", "db", "easyrsa", "db">>) <= 5
      /\ Len(<<"pki", "db", "easyrsa", "db", "kill">>) <= 5
      /\ Len(<<>>) <= 5
  OBVIOUS
<1>4. \A list \in W!Requests : Len(list) <= 5
  BY <1>1, <1>3, Zenon DEF W!Requests
<1> QED BY <1>2, <1>3, <1>4 DEF W!Hook

\* A list that loses its first step, or has it replaced, is no longer than before.
LEMMA TailIsShort ==
  ASSUME NEW list \in Seq(W!Steps), list # <<>>, Len(list) <= 5
  PROVE  Len(Tail(list)) <= 5 /\ Len(<<"stopped">> \o Tail(list)) <= 5
<1>1. Tail(list) \in Seq(W!Steps) /\ Len(Tail(list)) = Len(list) - 1
  BY HeadTailProperties
<1>2. Len(list) \in Nat
  BY LenProperties
<1>3. <<"stopped">> \in Seq(W!Steps) /\ Len(<<"stopped">>) = 1
  BY DEF W!Steps
<1>4. Len(<<"stopped">> \o Tail(list)) = 1 + Len(Tail(list))
  BY <1>1, <1>3, ConcatProperties
<1> QED BY <1>1, <1>2, <1>4

\* Every step keeps the lists short.
LEMMA ShortStep == Todos /\ Short /\ [W!Next]_W!vars => Short'
<1> SUFFICES ASSUME Todos, Short, [W!Next]_W!vars PROVE Short'
  OBVIOUS
<1> USE DEF W!openvpn, W!locks
<1>a. ASSUME NEW t \in W!Workers, NEW list, todo' = [todo EXCEPT ![t] = list], Len(list) <= 5
      PROVE  Short'
  BY <1>a DEF Todos, Short
<1>b. UNCHANGED todo => Short'
  BY DEF Short
<1>c. ASSUME NEW t \in W!Workers, W!Busy(t)
      PROVE  Len(Tail(todo[t])) <= 5 /\ Len(<<"stopped">> \o Tail(todo[t])) <= 5
  BY <1>c, TailIsShort DEF W!Busy, Todos, Short
<1>1. ASSUME NEW t \in W!Workers, W!Thread(t) \/ W!Fails(t) PROVE Short'
  <2>1. CASE W!Begin(t) \/ W!Connect(t)
    BY <1>b, <2>1 DEF W!Begin, W!Connect
  <2>2. CASE W!Commit(t) \/ W!TakePki(t) \/ W!EasyRsa(t) \/ W!Replied(t) \/ W!Stopped(t)
    <3>1. W!Busy(t) /\ todo' = [todo EXCEPT ![t] = Tail(todo[t])]
      BY <2>2 DEF W!Commit, W!TakePki, W!EasyRsa, W!Replied, W!Stopped, W!Advance, W!At
    <3> QED BY <1>1, <1>a, <1>c, <3>1
  <2>3. CASE W!Stop(t)
    <3>1. W!Busy(t) /\ todo' = [todo EXCEPT ![t] = <<"stopped">> \o Tail(todo[t])]
      BY <2>3 DEF W!Stop, W!At
    <3> QED BY <1>1, <1>a, <1>c, <3>1
  <2>4. CASE W!Disconnected(t) \/ W!Fails(t)
    <3>1. todo' = [todo EXCEPT ![t] = <<>>]
      BY <2>4 DEF W!Disconnected, W!Fails, W!Abort
    <3> QED BY <1>1, <1>a, <3>1, ArrivingShort
  <2> QED BY <1>1, <2>1, <2>2, <2>3, <2>4 DEF W!Thread
<1>2. ASSUME NEW list \in W!Rounds, W!Arrive(Monitor, list) PROVE Short'
  BY <1>2, <1>a, ArrivingShort DEF W!Arrive, W!Workers
<1>3. ASSUME NEW t \in Handlers, NEW list \in W!Requests, W!Arrive(t, list) PROVE Short'
  BY <1>3, <1>a, ArrivingShort DEF W!Arrive, W!Workers
<1>4. ASSUME NEW s \in Sessions, NEW h \in Hooks, W!Call(s, h) PROVE Short'
  BY <1>4, <1>a, ArrivingShort DEF W!Call, W!Workers
<1>5. ASSUME NEW s \in Sessions, W!Client(s) PROVE Short'
  BY <1>5, <1>b DEF W!Client
<1>6. CASE W!Serve \/ W!Killed \/ W!ClientDone \/ W!Answered \/ W!GivesUp
  BY <1>6, <1>b DEF W!Serve, W!Killed, W!ClientDone, W!Answered, W!GivesUp
<1>7. CASE UNCHANGED W!vars
  BY <1>7, <1>b DEF W!vars
<1> QED BY <1>1, <1>2, <1>3, <1>4, <1>5, <1>6, <1>7 DEF W!Next

\* Every step takes the connection, OpenVPN and its sessions to such a state.
LEMMA TalkStep == Talk /\ [W!Next]_W!vars => Talk'
<1> SUFFICES ASSUME Talk, [W!Next]_W!vars PROVE Talk'
  OBVIOUS
<1> USE DEF W!openvpn, W!locks, Talk
<1>1. ASSUME NEW t \in W!Workers, W!Thread(t) \/ W!Fails(t) PROVE Talk'
  <2>1. CASE W!Begin(t) \/ W!Commit(t) \/ W!TakePki(t) \/ W!EasyRsa(t)
    BY <2>1 DEF W!Begin, W!Commit, W!TakePki, W!EasyRsa
  <2>2. CASE W!Connect(t) \/ W!Replied(t)
    BY <2>2 DEF W!Connect, W!Replied
  <2>3. CASE W!Stop(t)
    BY <2>3 DEF W!Stop
  <2>4. CASE W!Stopped(t)
    BY <2>4 DEF W!Stopped
  <2>5. CASE W!Disconnected(t) \/ W!Fails(t)
    BY <2>5 DEF W!Disconnected, W!Fails, W!Abort
  <2> QED BY <1>1, <2>1, <2>2, <2>3, <2>4, <2>5 DEF W!Thread
<1>2. ASSUME NEW t, NEW list, W!Arrive(t, list) PROVE Talk'
  BY <1>2 DEF W!Arrive
<1>3. ASSUME NEW s \in Sessions, NEW h \in Hooks, W!Call(s, h) PROVE Talk'
  BY <1>3 DEF W!Call
<1>4. ASSUME NEW s \in Sessions, W!Client(s) PROVE Talk'
  BY <1>4 DEF W!Client
<1>5. CASE W!Serve
  BY <1>5 DEF W!Serve
<1>6. CASE W!Killed \/ W!ClientDone \/ W!Answered \/ W!GivesUp
  BY <1>6 DEF W!Killed, W!ClientDone, W!Answered, W!GivesUp
<1>7. CASE UNCHANGED W!vars
  BY <1>7 DEF W!vars
<1> QED BY <1>1, <1>2, <1>3, <1>4, <1>5, <1>6, <1>7 DEF W!Next

(* The agent's files behave as Lifecycle says, so what was proved of them  *)
(* holds beside its threads; files, threads and OpenVPN keep their types.  *)
THEOREM AgentTypesHold == AgentSpec => []AgentTypeOK
<1> DEFINE Inv == WaitsInv /\ Short /\ Talk
<1>1. AgentInit => Inv
  <2>1. AgentInit => Short
    BY ArrivingShort DEF AgentInit, W!Init, Short
  <2>2. AgentInit => Talk
    BY DEF AgentInit, W!Init, Talk
  <2> QED BY <2>1, <2>2, WaitsInit
<1>2. Inv /\ [AgentNext]_<<part, vars, waiting>> => Inv'
  <2>1. [AgentNext]_<<part, vars, waiting>> => [W!Next]_W!vars
    BY DEF AgentNext, waiting, W!vars
  <2>2. Inv /\ [W!Next]_W!vars => Inv'
    BY WaitsAssumed, WaitsStep, ShortStep, TalkStep DEF WaitsInv
  <2> QED BY <2>1, <2>2
<1>3. AgentSpec => Spec
  <2>1. AgentInit => Init
    BY DEF AgentInit
  <2>2. [AgentNext]_<<part, vars, waiting>> => [Next]_vars
    BY DEF AgentNext, vars
  <2> QED BY <2>1, <2>2, PTL DEF AgentSpec, Spec
<1>4. TypeOK /\ Inv => AgentTypeOK
  <2> SUFFICES ASSUME TypeOK, Inv PROVE W!TypeOK
    BY DEF AgentTypeOK
  <2>1. \A t \in W!Workers : todo[t] \in Seq(W!Steps)
    BY DEF WaitsInv, Todos
  <2>2. \A t \in W!Workers : Len(todo[t]) <= 5 /\ \A k \in 1..Len(todo[t]) : todo[t][k] \in W!Steps
    BY <2>1, ElementOfSeq DEF Short
  <2>3. /\ {db, pki, management} \subseteq W!Workers \cup {W!Free} /\ script \in Hooks \cup {W!Free}
        /\ db # W!Free => W!At(db, {"db"})
        /\ management # W!Free => W!At(management, {"status", "kill"})
    BY DEF WaitsInv, Holders
  <2> QED BY <2>2, <2>3 DEF W!TypeOK, Talk
<1>5. AgentSpec => []Inv
  BY <1>1, <1>2, PTL DEF AgentSpec
<1> QED BY <1>3, <1>4, <1>5, TypeCorrect, PTL
=============================================================================
