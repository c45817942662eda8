-------------------------------- MODULE Auth --------------------------------
(***************************************************************************)
(* Administrators' accounts, sign-in, sessions and throttling              *)
(* (panel/auth.py, the account handlers of panel/app.py, panel/cli.py).    *)
(*                                                                         *)
(* Handlers run in a pool of threads.  Each "with transaction" block is    *)
(* one BEGIN IMMEDIATE transaction and one step; what a handler does       *)
(* between two of them (argon2, the reply) leaves the others free to run.  *)
(* The console commands work on the same database in a process of their    *)
(* own.  A restart of the web service loses the handlers, never a row.     *)
(*                                                                         *)
(* Rows are kept with their age in ticks; a tick is longer than a sign-in. *)
(* Sign-in reads the clock once, before its first transaction: its second  *)
(* one may use the time of a tick ago.                                     *)
(***************************************************************************)
EXTENDS Naturals, FiniteSets

CONSTANTS Users, Passwords, NoPassword, Tokens, NoSession, Requests,
          Addresses,      \* where sign-ins come from
          Lower,          \* username.lower(), under which attempts are counted
          UserLimit, AddressLimit,   \* 5 and 30
          Window,         \* attempts this old still count: 900 s
          Lifetime        \* sessions this old are over: 8 h

Subjects == {Lower[u] : u \in Users} \cup Addresses

\* given and overtaken are histories of how the session came to be.
Session == [user : Users, age : 0..Lifetime, given : Passwords, overtaken : BOOLEAN]

ASSUME AuthAssumption ==
  /\ NoSession \notin Session
  /\ NoPassword \notin Passwords
  /\ Lower \in [Users -> Users] /\ Users \cap Addresses = {}
  /\ UserLimit \in Nat /\ AddressLimit \in Nat /\ Window \in Nat
  /\ Lifetime \in Nat \ {0}

VARIABLES
  account,   \* admins: password (NoPassword without a row), owner, enabled
  session,   \* sessions: token -> its row, or NoSession
  attempts,  \* attempts: subject -> age -> number of rows
  pc,        \* each handler: "idle", "verify", "open" or "act"
  who,       \* the username it signs in, or acts for
  given,     \* sign-in: the password it was given
  read,      \* sign-in: the account as its first transaction read it
  token,     \* other handlers: the session they came with
  overtaken  \* history: the sign-ins whose account was saved meanwhile

vars == <<account, session, attempts, pc, who, given, read, token, overtaken>>
handlers == <<pc, who, given, read, token>>

Account == [password : Passwords \cup {NoPassword}, owner : BOOLEAN, enabled : BOOLEAN]
NoAccount == [password |-> NoPassword, owner |-> FALSE, enabled |-> FALSE]

Known(u) == account[u].password # NoPassword
Limit(subject) == IF subject \in Addresses THEN AddressLimit ELSE UserLimit

TypeOK ==
  /\ account \in [Users -> Account]
  /\ session \in [Tokens -> Session \cup {NoSession}]
  /\ attempts \in [Subjects -> [0..Window -> Nat]]
  /\ pc \in [Requests -> {"idle", "verify", "open", "act"}]
  /\ who \in [Requests -> Users]
  /\ given \in [Requests -> Passwords]
  /\ read \in [Requests -> Account]
  /\ token \in [Requests -> Tokens]
  /\ overtaken \in SUBSET Requests

-----------------------------------------------------------------------------
Go(r, step) == pc' = [pc EXCEPT ![r] = step]

\* The subject's rows within the window, each with its age, and their number.
Recorded(subject) == UNION {{age} \X (1 .. attempts[subject][age]) : age \in 0..Window}
Count(subject) == Cardinality(Recorded(subject))

SessionsOf(u) == {k \in Tokens : session[k] # NoSession /\ session[k].user = u}
Over == {k \in Tokens : session[k] # NoSession /\ session[k].age = Lifetime}
Without(S) == [k \in Tokens |-> IF k \in S THEN NoSession ELSE session[k]]

(***************************************************************************)
(* Sign-in: count and record, then compare, then open.                     *)
(***************************************************************************)
\* Mutations of Admit: the address's limit is not looked at; an attempt is
\* recorded although it is refused.
AdmitByName(r, u, p, ip) ==
  /\ pc[r] = "idle"
  /\ Count(Lower[u]) < Limit(Lower[u])
  /\ attempts' = [subject \in Subjects |->
       IF subject \in {Lower[u], ip} THEN [attempts[subject] EXCEPT ![0] = @ + 1]
       ELSE attempts[subject]]
  /\ read' = [read EXCEPT ![r] = account[u]]
  /\ who' = [who EXCEPT ![r] = u] /\ given' = [given EXCEPT ![r] = p]
  /\ Go(r, "verify")
  /\ overtaken' = overtaken \ {r}
  /\ UNCHANGED <<account, session, token>>

AdmitRecordingAll(r, u, p, ip) ==
  LET subjects == {Lower[u], ip}
      admitted == \A subject \in subjects : Count(subject) < Limit(subject)
  IN /\ pc[r] = "idle"
     /\ attempts' = [subject \in Subjects |->
          IF subject \in subjects /\ attempts[subject][0] <= Limit(subject)
          THEN [attempts[subject] EXCEPT ![0] = @ + 1] ELSE attempts[subject]]
     /\ read' = [read EXCEPT ![r] = account[u]]
     /\ who' = [who EXCEPT ![r] = u] /\ given' = [given EXCEPT ![r] = p]
     /\ Go(r, IF admitted THEN "verify" ELSE "idle")
     /\ overtaken' = overtaken \ {r}
     /\ UNCHANGED <<account, session, token>>

\* A refusal rolls everything back and changes nothing.
Admit(r, u, p, ip) ==
  LET subjects == {Lower[u], ip}
  IN /\ pc[r] = "idle"
     /\ \A subject \in subjects : Count(subject) < Limit(subject)
     /\ attempts' = [subject \in Subjects |->
          IF subject \in subjects THEN [attempts[subject] EXCEPT ![0] = @ + 1]
          ELSE attempts[subject]]
     /\ read' = [read EXCEPT ![r] = account[u]]
     /\ who' = [who EXCEPT ![r] = u] /\ given' = [given EXCEPT ![r] = p]
     /\ Go(r, "verify")
     /\ overtaken' = overtaken \ {r}
     /\ UNCHANGED <<account, session, token>>

\* Without a row the password is compared with the dummy's, and fails.
Verify(r) ==
  /\ pc[r] = "verify"
  /\ Go(r, IF read[r].password = given[r] /\ read[r].enabled THEN "open" ELSE "idle")
  /\ UNCHANGED <<account, session, attempts, who, given, read, token, overtaken>>

\* Success clears the name's attempts, not the address's, and the sessions
\* that were over when it began.
Open(r, k, age, ended) ==
  /\ pc[r] = "open" /\ Without(ended)[k] = NoSession
  /\ attempts' = [attempts EXCEPT ![Lower[who[r]]] = [a \in 0..Window |-> 0]]
  /\ session' = [Without(ended) EXCEPT ![k] =
       [user |-> who[r], age |-> age, given |-> given[r], overtaken |-> r \in overtaken]]
  /\ Go(r, "idle")
  /\ UNCHANGED <<account, who, given, read, token, overtaken>>

(***************************************************************************)
(* Requests of a session.                                                  *)
(***************************************************************************)
\* auth.session: the row, its age and the account, as they are now.
Enter(r, k) ==
  /\ pc[r] = "idle"
  /\ session[k] # NoSession /\ session[k].age < Lifetime
  /\ account[session[k].user].enabled
  /\ who' = [who EXCEPT ![r] = session[k].user] /\ token' = [token EXCEPT ![r] = k]
  /\ Go(r, "act")
  /\ UNCHANGED <<account, session, attempts, given, read, overtaken>>

\* A handler that touches none of these tables, refuses to, or fails: then its
\* transaction is rolled back.
End(r) ==
  /\ pc[r] # "idle"
  /\ Go(r, "idle")
  /\ UNCHANGED <<account, session, attempts, who, given, read, token, overtaken>>

Logout(r) ==
  /\ pc[r] = "act"
  /\ session' = Without({token[r]})
  /\ Go(r, "idle")
  /\ UNCHANGED <<account, attempts, who, given, read, token, overtaken>>

\* Every write of an account ends the account's sessions with it.
Save(u, row) ==
  /\ account' = [account EXCEPT ![u] = row]
  /\ session' = Without(SessionsOf(u))
  /\ overtaken' = overtaken \cup {r \in Requests : pc[r] \in {"verify", "open"} /\ who[r] = u}

\* Mutation of ChangePassword: the sessions stay.
ChangePasswordOnly(r, current, new) ==
  /\ pc[r] = "act"
  /\ account[who[r]].password = current
  /\ account' = [account EXCEPT ![who[r]].password = new]
  /\ Go(r, "idle")
  /\ UNCHANGED <<session, attempts, who, given, read, token, overtaken>>

\* The current password is compared inside the transaction that replaces it.
ChangePassword(r, current, new) ==
  /\ pc[r] = "act"
  /\ account[who[r]].password = current
  /\ Save(who[r], [account[who[r]] EXCEPT !.password = new])
  /\ Go(r, "idle")
  /\ UNCHANGED <<attempts, who, given, read, token>>

\* Mutation of SaveAdmin: the owner's account is like any other.
SaveAnyAdmin(r, u, p, enabled) ==
  /\ pc[r] = "act" /\ account[who[r]].owner
  /\ p # NoPassword \/ Known(u)
  /\ Save(u, [account[u] EXCEPT !.password = IF p = NoPassword THEN @ ELSE p, !.enabled = enabled])
  /\ Go(r, "idle")
  /\ UNCHANGED <<attempts, who, given, read, token>>

\* NoPassword: the form's field is empty and the old password stays.
SaveAdmin(r, u, p, enabled) ==
  /\ pc[r] = "act" /\ account[who[r]].owner   \* no statement changes this column
  /\ ~account[u].owner
  /\ p # NoPassword \/ Known(u)
  /\ Save(u, [account[u] EXCEPT !.password = IF p = NoPassword THEN @ ELSE p, !.enabled = enabled])
  /\ Go(r, "idle")
  /\ UNCHANGED <<attempts, who, given, read, token>>

(***************************************************************************)
(* The console: panel.cli owner and reset-password.                        *)
(***************************************************************************)
\* Mutation of CreateOwner: the column has no default.
CreateOwnerBare(u, p) ==
  /\ \A x \in Users : ~account[x].owner
  /\ ~Known(u)
  /\ account' = [account EXCEPT ![u] = [password |-> p, owner |-> TRUE]]
  /\ UNCHANGED <<session, attempts, handlers, overtaken>>

CreateOwner(u, p) ==
  /\ \A x \in Users : ~account[x].owner
  /\ ~Known(u)
  /\ account' = [account EXCEPT ![u] = [password |-> p, owner |-> TRUE, enabled |-> TRUE]]
  /\ UNCHANGED <<session, attempts, handlers, overtaken>>

ResetPassword(u, p) ==
  /\ Known(u)
  /\ Save(u, [account[u] EXCEPT !.password = p])
  /\ UNCHANGED <<attempts, handlers>>

(***************************************************************************)
(* Time and restarts.                                                      *)
(***************************************************************************)
\* Attempts beyond the window are deleted before anything counts them.
PassTime ==
  /\ attempts' = [subject \in Subjects |->
       [age \in 0..Window |-> IF age = 0 THEN 0 ELSE attempts[subject][age - 1]]]
  /\ session' = [k \in Tokens |->
       IF session[k] # NoSession /\ session[k].age < Lifetime THEN [session[k] EXCEPT !.age = @ + 1]
       ELSE session[k]]
  /\ UNCHANGED <<account, handlers, overtaken>>

WebRestart ==
  /\ pc' = [r \in Requests |-> "idle"]
  /\ UNCHANGED <<account, session, attempts, who, given, read, token, overtaken>>

Init ==
  /\ account = [u \in Users |-> NoAccount]
  /\ session = [k \in Tokens |-> NoSession]
  /\ attempts = [subject \in Subjects |-> [age \in 0..Window |-> 0]]
  /\ pc = [r \in Requests |-> "idle"]
  /\ who \in [Requests -> Users] /\ given \in [Requests -> Passwords]
  /\ read = [r \in Requests |-> NoAccount]
  /\ token \in [Requests -> Tokens]
  /\ overtaken = {}

SignIn(r) ==
  \/ \E u \in Users, p \in Passwords, ip \in Addresses : Admit(r, u, p, ip)
  \/ Verify(r)
  \/ \E k \in Tokens, age \in 0..1, ended \in SUBSET Over : Open(r, k, age, ended)

Serve(r) ==
  \/ \E k \in Tokens : Enter(r, k)
  \/ End(r) \/ Logout(r)
  \/ \E current, new \in Passwords : ChangePassword(r, current, new)
  \/ \E u \in Users, p \in Passwords \cup {NoPassword}, enabled \in BOOLEAN : SaveAdmin(r, u, p, enabled)

Console == \E u \in Users, p \in Passwords : CreateOwner(u, p) \/ ResetPassword(u, p)

Next == (\E r \in Requests : SignIn(r) \/ Serve(r)) \/ Console \/ PassTime \/ WebRestart

Spec == Init /\ [][Next]_vars

-----------------------------------------------------------------------------
(* No subject ever has more sign-ins recorded within the window than its   *)
(* limit, however many handlers count, compare and clear at the same time. *)
Throttled == \A subject \in Subjects : Count(subject) <= Limit(subject)

(* There is one owner at most, and nothing but the console's first command *)
(* makes one: it is never disabled, demoted or replaced.                   *)
OneOwner ==
  /\ \A u, x \in Users : account[u].owner /\ account[x].owner => u = x
  /\ \A u \in Users : account[u].owner => Known(u) /\ account[u].enabled

(* A session was opened with the password its account still has, unless    *)
(* the account was saved while the sign-in was under way: whoever saves an *)
(* account ends all that was opened before.                                *)
SessionsFollowPassword ==
  \A k \in Tokens :
    session[k] # NoSession /\ ~session[k].overtaken =>
      account[session[k].user].password = session[k].given

(* A lock-out ends with time, whatever is tried meanwhile.                 *)
LockoutEnds == \A subject \in Subjects : []<>(Count(subject) < Limit(subject))

FairSpec == Spec /\ WF_vars(PassTime)

(* No session has another password than its account has now, a sign-in     *)
(* that was under way when it was saved included.  (TLC refutes this:      *)
(* README.md, section 7.)                                                  *)
SessionsAreCurrent ==
  \A k \in Tokens : session[k] # NoSession => account[session[k].user].password = session[k].given
=============================================================================
