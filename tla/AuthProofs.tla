----------------------------- MODULE AuthProofs -----------------------------
(***************************************************************************)
(* Theorems about Auth, for every set of administrators, passwords,        *)
(* sessions and handlers and all limits, and about Shares, for every set   *)
(* of clients, links and threads and any lifetime.                         *)
(***************************************************************************)
EXTENDS Panel, FiniteSetTheorems, TLAPS

(* Rows of attempts keep their type when one is added or all grow older.   *)
LEMMA AttemptTypes ==
  ASSUME TypeOK, NEW subject \in Subjects
  PROVE  /\ [attempts[subject] EXCEPT ![0] = @ + 1] \in [0..Window -> Nat]
         /\ [age \in 0..Window |-> 0] \in [0..Window -> Nat]
         /\ [age \in 0..Window |-> IF age = 0 THEN 0 ELSE attempts[subject][age - 1]]
              \in [0..Window -> Nat]
BY AuthAssumption DEF TypeOK

(* A new password, or a new setting, leaves an account.                    *)
LEMMA RowType ==
  ASSUME NEW saved \in Account, NEW p \in Passwords \cup {NoPassword}, NEW enabled \in BOOLEAN
  PROVE  /\ [saved EXCEPT !.password = p] \in Account
         /\ [saved EXCEPT !.password = p].password = p
         /\ [saved EXCEPT !.password = p].owner = saved.owner
         /\ [saved EXCEPT !.password = p].enabled = saved.enabled
         /\ [saved EXCEPT !.password = p, !.enabled = enabled] \in Account
         /\ saved.password \in Passwords \cup {NoPassword}
BY DEF Account

(* Deleting sessions leaves sessions.                                      *)
LEMMA WithoutType ==
  ASSUME TypeOK, NEW over \in SUBSET Tokens
  PROVE  /\ Without(over) \in [Tokens -> Session \cup {NoSession}]
         /\ \A k \in Tokens : Without(over)[k] = IF k \in over THEN NoSession ELSE session[k]
BY DEF TypeOK, Without

(* A saved account is an account, and its sessions are gone.               *)
LEMMA SaveEffect ==
  ASSUME TypeOK, NEW u \in Users, NEW saved \in Account, Save(u, saved)
  PROVE  /\ account' \in [Users -> Account]
         /\ account'[u] = saved /\ \A x \in Users \ {u} : account'[x] = account[x]
         /\ session' \in [Tokens -> Session \cup {NoSession}]
         /\ overtaken' \in SUBSET Requests
BY WithoutType DEF TypeOK, Save, SessionsOf

(* Type correctness is inductive on its own.                               *)
LEMMA TypeStep == TypeOK /\ [Next]_vars => TypeOK'
<1> SUFFICES ASSUME TypeOK, [Next]_vars PROVE TypeOK'
  OBVIOUS
<1> USE AuthAssumption DEF TypeOK, Go, handlers
<1>1. ASSUME NEW r \in Requests, NEW u \in Users, NEW p \in Passwords, NEW ip \in Addresses,
             Admit(r, u, p, ip)
      PROVE  TypeOK'
  <2>1. attempts' \in [Subjects -> [0..Window -> Nat]]
    BY <1>1, AttemptTypes DEF Admit
  <2> QED BY <1>1, <2>1 DEF Admit
<1>2. ASSUME NEW r \in Requests, Verify(r) \/ End(r) PROVE TypeOK'
  BY <1>2 DEF Verify, End
<1>3. ASSUME NEW r \in Requests, NEW k \in Tokens, NEW age \in 0..1, NEW ended \in SUBSET Over,
             Open(r, k, age, ended)
      PROVE  TypeOK'
  <2>1. attempts' \in [Subjects -> [0..Window -> Nat]]
    BY <1>3, AttemptTypes DEF Open
  <2>2. [user |-> who[r], age |-> age, given |-> given[r], overtaken |-> r \in overtaken] \in Session
    BY DEF Session
  <2>3. session' \in [Tokens -> Session \cup {NoSession}]
    BY <1>3, <2>2, WithoutType DEF Open, Over
  <2> QED BY <1>3, <2>1, <2>3 DEF Open
<1>4. ASSUME NEW r \in Requests, NEW k \in Tokens, Enter(r, k) PROVE TypeOK'
  BY <1>4 DEF Enter, Session
<1>5. ASSUME NEW r \in Requests, Logout(r) PROVE TypeOK'
  BY <1>5, WithoutType DEF Logout
<1>6. ASSUME NEW r \in Requests, NEW current \in Passwords, NEW new \in Passwords,
             ChangePassword(r, current, new)
      PROVE  TypeOK'
  <2>1. [account[who[r]] EXCEPT !.password = new] \in Account
    BY RowType
  <2> QED BY <1>6, <2>1, SaveEffect DEF ChangePassword
<1>7. ASSUME NEW r \in Requests, NEW u \in Users, NEW p \in Passwords \cup {NoPassword},
             NEW enabled \in BOOLEAN, SaveAdmin(r, u, p, enabled)
      PROVE  TypeOK'
  <2> DEFINE saved == [account[u] EXCEPT !.password = IF p = NoPassword THEN @ ELSE p,
                                         !.enabled = enabled]
  <2>1. saved \in Account
    <3>1. account[u] \in Account
      OBVIOUS
    <3> QED BY <3>1, RowType
  <2> QED BY <1>7, <2>1, SaveEffect DEF SaveAdmin
<1>8. ASSUME NEW u \in Users, NEW p \in Passwords, CreateOwner(u, p) PROVE TypeOK'
  BY <1>8 DEF CreateOwner, Account
<1>9. ASSUME NEW u \in Users, NEW p \in Passwords, ResetPassword(u, p) PROVE TypeOK'
  <2>1. [account[u] EXCEPT !.password = p] \in Account
    BY RowType
  <2> QED BY <1>9, <2>1, SaveEffect DEF ResetPassword
<1>10. CASE PassTime
  <2>1. attempts' \in [Subjects -> [0..Window -> Nat]]
    BY <1>10, AttemptTypes DEF PassTime
  <2>2. \A k \in Tokens : session[k] # NoSession /\ session[k].age < Lifetime =>
                            [session[k] EXCEPT !.age = @ + 1] \in Session
    BY DEF Session
  <2>3. session' \in [Tokens -> Session \cup {NoSession}]
    BY <1>10, <2>2 DEF PassTime
  <2> QED BY <1>10, <2>1, <2>3 DEF PassTime
<1>11. CASE WebRestart \/ UNCHANGED vars
  BY <1>11 DEF WebRestart, vars
<1> QED BY <1>1, <1>2, <1>3, <1>4, <1>5, <1>6, <1>7, <1>8, <1>9, <1>10, <1>11
        DEF Next, SignIn, Serve, Console

(* Everything has its type at first.                                       *)
LEMMA InitialTypes == Init => TypeOK
BY AuthAssumption DEF Init, TypeOK, Account, NoAccount

(* Accounts, sessions, attempts and handlers always have their types.      *)
THEOREM TypeCorrect == Spec => []TypeOK
BY InitialTypes, TypeStep, PTL DEF Spec

-----------------------------------------------------------------------------
(* The rows of two accounts, and what a step may make of them.             *)
Guarded == \A u \in Users :
  account'[u] # account[u] =>
    \/ account'[u].owner = account[u].owner /\ account'[u].password # NoPassword
         /\ (account[u].owner => account'[u].enabled = account[u].enabled)
    \/ /\ \A x \in Users : ~account[x].owner /\ (x # u => account'[x] = account[x])
       /\ account'[u].owner /\ account'[u].enabled /\ account'[u].password # NoPassword

(* OneOwner is inductive: saving keeps the owner column and leaves the     *)
(* owner's row alone, and the console's check is part of its transaction.  *)
LEMMA OwnerStep == TypeOK /\ OneOwner /\ [Next]_vars => OneOwner'
<1> SUFFICES ASSUME TypeOK, OneOwner, [Next]_vars PROVE OneOwner'
  OBVIOUS
<1> USE AuthAssumption
<1>0. ASSUME Guarded PROVE OneOwner'
  BY <1>0 DEF Guarded, OneOwner, Known
<1>1. CASE UNCHANGED account
  BY <1>1, <1>0 DEF Guarded
<1>2. ASSUME NEW r \in Requests, NEW current \in Passwords, NEW new \in Passwords,
             ChangePassword(r, current, new)
      PROVE  OneOwner'
  <2> DEFINE saved == [account[who[r]] EXCEPT !.password = new]
  <2>1. /\ who[r] \in Users /\ saved \in Account /\ saved.password = new
        /\ saved.owner = account[who[r]].owner /\ saved.enabled = account[who[r]].enabled
    <3>1. who[r] \in Users /\ account[who[r]] \in Account
      BY DEF TypeOK
    <3> QED BY <3>1, RowType
  <2>2. Save(who[r], saved)
    BY <1>2 DEF ChangePassword
  <2>3. account'[who[r]] = saved /\ \A x \in Users \ {who[r]} : account'[x] = account[x]
    BY <2>1, <2>2, SaveEffect
  <2>4. new # NoPassword
    OBVIOUS
  <2>5. Guarded
    BY <2>1, <2>3, <2>4 DEF Guarded
  <2> QED BY <1>0, <2>5
<1>3. ASSUME NEW r \in Requests, NEW u \in Users, NEW p \in Passwords \cup {NoPassword},
             NEW enabled \in BOOLEAN, SaveAdmin(r, u, p, enabled)
      PROVE  OneOwner'
  <2> DEFINE saved == [account[u] EXCEPT !.password = IF p = NoPassword THEN @ ELSE p,
                                         !.enabled = enabled]
  <2>1. account[u] \in Account /\ ~account[u].owner /\ (p # NoPassword \/ Known(u))
    BY <1>3 DEF TypeOK, SaveAdmin
  <2>2. /\ saved \in Account /\ saved.password # NoPassword /\ saved.owner = account[u].owner
    BY <2>1, RowType DEF Account, Known
  <2>3. Save(u, saved)
    BY <1>3 DEF SaveAdmin
  <2> QED BY <1>0, <2>1, <2>2, <2>3, SaveEffect DEF Guarded
<1>4. ASSUME NEW u \in Users, NEW p \in Passwords, CreateOwner(u, p) PROVE OneOwner'
  BY <1>0, <1>4 DEF Guarded, CreateOwner, TypeOK
<1>5. ASSUME NEW u \in Users, NEW p \in Passwords, ResetPassword(u, p) PROVE OneOwner'
  <2> DEFINE saved == [account[u] EXCEPT !.password = p]
  <2>1. /\ saved \in Account /\ saved.password = p
        /\ saved.owner = account[u].owner /\ saved.enabled = account[u].enabled
    <3>1. account[u] \in Account
      BY DEF TypeOK
    <3> QED BY <3>1, RowType
  <2>2. Save(u, saved)
    BY <1>5 DEF ResetPassword
  <2> QED BY <1>0, <2>1, <2>2, SaveEffect DEF Guarded
<1>6. ASSUME NEW r \in Requests, Verify(r) \/ End(r) \/ Logout(r) PROVE OneOwner'
  BY <1>1, <1>6 DEF Verify, End, Logout
<1>7. ASSUME NEW r \in Requests, NEW k \in Tokens, NEW age \in 0..1, NEW ended \in SUBSET Over,
             Open(r, k, age, ended) \/ Enter(r, k)
      PROVE  OneOwner'
  BY <1>1, <1>7 DEF Open, Enter
<1>8. ASSUME NEW r \in Requests, NEW u \in Users, NEW p \in Passwords, NEW ip \in Addresses,
             Admit(r, u, p, ip)
      PROVE  OneOwner'
  BY <1>1, <1>8 DEF Admit
<1>9. CASE PassTime \/ WebRestart \/ UNCHANGED vars
  BY <1>1, <1>9 DEF PassTime, WebRestart, vars
<1> QED BY <1>2, <1>3, <1>4, <1>5, <1>6, <1>7, <1>8, <1>9 DEF Next, SignIn, Serve, Console

(* There is one owner at most, and it stays enabled (app.py 301-316,       *)
(* cli.py 21-28).                                                          *)
THEOREM OneOwnerHolds == Spec => []OneOwner
<1>1. Init => OneOwner
  BY DEF Init, OneOwner, NoAccount
<1> QED BY InitialTypes, TypeStep, <1>1, OwnerStep, PTL DEF Spec

-----------------------------------------------------------------------------
(* What a sign-in read is what the account still is, unless it was saved   *)
(* meanwhile, or only created; a sign-in about to open was given it.       *)
ReadsHold ==
  \A r \in Requests :
    /\ pc[r] \in {"verify", "open"} /\ r \notin overtaken =>
         read[r].password \in {account[who[r]].password, NoPassword}
    /\ pc[r] = "open" => given[r] = read[r].password

(* Saving ends the account's sessions and overtakes its sign-ins.          *)
LEMMA SaveKeeps ==
  ASSUME TypeOK, SessionsFollowPassword, ReadsHold, NEW u \in Users, NEW saved \in Account,
         Save(u, saved), UNCHANGED <<who, given, read>>,
         \A r \in Requests : pc'[r] = pc[r] \/ pc'[r] = "idle"
  PROVE  SessionsFollowPassword' /\ ReadsHold'
<1>1. \A x \in Users \ {u} : account'[x] = account[x]
  BY SaveEffect
<1>2. SessionsFollowPassword'
  <2>1. \A k \in Tokens : session'[k] = IF session[k] # NoSession /\ session[k].user = u
                                        THEN NoSession ELSE session[k]
    BY WithoutType DEF Save, SessionsOf
  <2>2. \A k \in Tokens : session[k] # NoSession => session[k].user \in Users
    BY DEF TypeOK, Session
  <2> QED BY <1>1, <2>1, <2>2 DEF SessionsFollowPassword
<1>3. ReadsHold'
  BY <1>1 DEF ReadsHold, Save, TypeOK
<1> QED BY <1>2, <1>3

(* SessionsFollowPassword is inductive with what sign-ins have read.       *)
LEMMA SessionStep ==
  TypeOK /\ SessionsFollowPassword /\ ReadsHold /\ [Next]_vars => SessionsFollowPassword' /\ ReadsHold'
<1> SUFFICES ASSUME TypeOK, SessionsFollowPassword, ReadsHold, [Next]_vars
             PROVE  SessionsFollowPassword' /\ ReadsHold'
  OBVIOUS
<1> USE AuthAssumption DEF Go, handlers
<1>1. ASSUME NEW r \in Requests, NEW u \in Users, NEW p \in Passwords, NEW ip \in Addresses,
             Admit(r, u, p, ip)
      PROVE  SessionsFollowPassword' /\ ReadsHold'
  BY <1>1 DEF Admit, SessionsFollowPassword, ReadsHold, TypeOK
<1>2. ASSUME NEW r \in Requests, Verify(r) \/ End(r) PROVE SessionsFollowPassword' /\ ReadsHold'
  BY <1>2 DEF Verify, End, SessionsFollowPassword, ReadsHold, TypeOK
<1>3. ASSUME NEW r \in Requests, NEW k \in Tokens, NEW age \in 0..1, NEW ended \in SUBSET Over,
             Open(r, k, age, ended)
      PROVE  SessionsFollowPassword' /\ ReadsHold'
  <2> DEFINE new == [user |-> who[r], age |-> age, given |-> given[r], overtaken |-> r \in overtaken]
  <2>1. /\ session'[k] = new
        /\ \A x \in Tokens \ {k} : session'[x] \in {session[x], NoSession}
        /\ account' = account
    BY <1>3, WithoutType DEF Open, Over, TypeOK
  <2>2. r \notin overtaken => account[who[r]].password = given[r]
    <3>1. pc[r] = "open" /\ given[r] = read[r].password /\ given[r] # NoPassword
      BY <1>3 DEF Open, ReadsHold, TypeOK
    <3> QED BY <3>1 DEF ReadsHold
  <2>3. new.user = who[r] /\ new.given = given[r] /\ (~new.overtaken => r \notin overtaken)
    BY Zenon
  <2>4. ASSUME NEW x \in Tokens, session'[x] # NoSession, ~session'[x].overtaken
        PROVE  account'[session'[x].user].password = session'[x].given
    <3>1. CASE x = k
      BY <2>1, <2>2, <2>3, <2>4, <3>1, Zenon
    <3>2. CASE x # k
      BY <2>1, <2>4, <3>2 DEF SessionsFollowPassword
    <3> QED BY <3>1, <3>2
  <2>5. SessionsFollowPassword'
    BY <2>4 DEF SessionsFollowPassword
  <2>6. ReadsHold'
    BY <1>3 DEF Open, ReadsHold, TypeOK
  <2> QED BY <2>5, <2>6
<1>4. ASSUME NEW r \in Requests, NEW k \in Tokens, Enter(r, k)
      PROVE  SessionsFollowPassword' /\ ReadsHold'
  BY <1>4 DEF Enter, SessionsFollowPassword, ReadsHold, TypeOK
<1>5. ASSUME NEW r \in Requests, Logout(r) PROVE SessionsFollowPassword' /\ ReadsHold'
  <2>1. \A x \in Tokens : session'[x] \in {session[x], NoSession}
    BY <1>5, WithoutType DEF Logout, TypeOK
  <2> QED BY <1>5, <2>1 DEF Logout, SessionsFollowPassword, ReadsHold, TypeOK
<1>6. ASSUME NEW r \in Requests, NEW current \in Passwords, NEW new \in Passwords,
             ChangePassword(r, current, new)
      PROVE  SessionsFollowPassword' /\ ReadsHold'
  <2>1. who[r] \in Users /\ [account[who[r]] EXCEPT !.password = new] \in Account
    BY RowType DEF TypeOK
  <2> QED BY <1>6, <2>1, SaveKeeps DEF ChangePassword, TypeOK
<1>7. ASSUME NEW r \in Requests, NEW u \in Users, NEW p \in Passwords \cup {NoPassword},
             NEW enabled \in BOOLEAN, SaveAdmin(r, u, p, enabled)
      PROVE  SessionsFollowPassword' /\ ReadsHold'
  <2> DEFINE saved == [account[u] EXCEPT !.password = IF p = NoPassword THEN @ ELSE p,
                                         !.enabled = enabled]
  <2>1. saved \in Account
    <3>1. account[u] \in Account
      BY DEF TypeOK
    <3> QED BY <3>1, RowType
  <2> QED BY <1>7, <2>1, SaveKeeps DEF SaveAdmin, TypeOK
<1>8. ASSUME NEW u \in Users, NEW p \in Passwords, CreateOwner(u, p)
      PROVE  SessionsFollowPassword' /\ ReadsHold'
  <2>1. \A x \in Users : account[x].password = account'[x].password \/ account[x].password = NoPassword
    BY <1>8 DEF CreateOwner, Known, TypeOK
  <2>2. \A k \in Tokens : session[k] # NoSession =>
          session[k].given # NoPassword /\ session[k].user \in Users
    BY DEF TypeOK, Session
  <2>3. SessionsFollowPassword'
    BY <1>8, <2>1, <2>2 DEF CreateOwner, SessionsFollowPassword
  <2>4. ReadsHold'
    BY <1>8, <2>1 DEF CreateOwner, ReadsHold, TypeOK
  <2> QED BY <2>3, <2>4
<1>9. ASSUME NEW u \in Users, NEW p \in Passwords, ResetPassword(u, p)
      PROVE  SessionsFollowPassword' /\ ReadsHold'
  <2>1. [account[u] EXCEPT !.password = p] \in Account
    BY RowType DEF TypeOK
  <2> QED BY <1>9, <2>1, SaveKeeps DEF ResetPassword
<1>10. CASE PassTime
  <2>1. \A k \in Tokens : session'[k] # NoSession =>
          /\ session[k] # NoSession /\ session'[k].user = session[k].user
          /\ session'[k].given = session[k].given /\ session'[k].overtaken = session[k].overtaken
    BY <1>10 DEF PassTime, TypeOK, Session
  <2> QED BY <1>10, <2>1 DEF PassTime, SessionsFollowPassword, ReadsHold
<1>11. CASE WebRestart \/ UNCHANGED vars
  BY <1>11 DEF WebRestart, vars, SessionsFollowPassword, ReadsHold
<1> QED BY <1>1, <1>2, <1>3, <1>4, <1>5, <1>6, <1>7, <1>8, <1>9, <1>10, <1>11
        DEF Next, SignIn, Serve, Console

(* Whoever saves an account ends every session opened before; only a       *)
(* sign-in under way at that moment can open one afterwards with what it   *)
(* had read (auth.py 49-74, app.py 175-187, 301-316, cli.py 21-28).        *)
THEOREM SessionsFollowPasswordHolds == Spec => []SessionsFollowPassword
<1>1. Init => SessionsFollowPassword /\ ReadsHold
  BY DEF Init, SessionsFollowPassword, ReadsHold
<1> QED BY InitialTypes, TypeStep, <1>1, SessionStep, PTL DEF Spec

-----------------------------------------------------------------------------
(* The rows of attempts: what recording one, clearing them and growing     *)
(* older makes of a subject's rows within the window.                      *)
FiniteRecords == \A subject \in Subjects : IsFiniteSet(Recorded(subject))

\* What is a row of a subject within the window, now.
LEMMA RowsOf ==
  ASSUME NEW subject, NEW entry
  PROVE  entry \in Recorded(subject) <=>
           \E age \in 0..Window : \E i \in 1 .. attempts[subject][age] : entry = <<age, i>>
BY DEF Recorded

\* The same after a step.
LEMMA RowsOfNext ==
  ASSUME NEW subject, NEW entry
  PROVE  entry \in Recorded(subject)' <=>
           \E age \in 0..Window : \E i \in 1 .. attempts'[subject][age] : entry = <<age, i>>
BY DEF Recorded

\* Recording an attempt adds one row to its subject's.
LEMMA Recording ==
  ASSUME TypeOK, NEW subject \in Subjects, IsFiniteSet(Recorded(subject)),
         attempts'[subject] = [attempts[subject] EXCEPT ![0] = @ + 1]
  PROVE  IsFiniteSet(Recorded(subject)') /\ Count(subject)' = Count(subject) + 1
<1> DEFINE new == <<0, attempts[subject][0] + 1>>
<1>1. /\ Window \in Nat /\ 0 \in 0..Window /\ attempts[subject] \in [0..Window -> Nat]
      /\ \A age \in 0..Window :
           attempts'[subject][age] = IF age = 0 THEN attempts[subject][0] + 1
                                     ELSE attempts[subject][age]
  BY AuthAssumption DEF TypeOK
<1>2. Recorded(subject)' = Recorded(subject) \cup {new}
  <2>1. ASSUME NEW entry PROVE entry \in Recorded(subject)' <=> entry \in Recorded(subject) \cup {new}
    BY <1>1, RowsOf, RowsOfNext
  <2> QED BY <2>1
<1>3. new \notin Recorded(subject)
  BY <1>1, RowsOf
<1> QED BY <1>2, <1>3, FS_AddElement DEF Count

\* A subject whose rows are deleted counts none.
LEMMA Clearing ==
  ASSUME NEW subject \in Subjects, \A age \in 0..Window : attempts'[subject][age] = 0
  PROVE  IsFiniteSet(Recorded(subject)') /\ Count(subject)' = 0
<1>1. Recorded(subject)' = {}
  BY DEF Recorded
<1> QED BY <1>1, FS_EmptySet DEF Count

\* Growing older maps the rows that remain to the rows they were.
LEMMA Ageing ==
  ASSUME TypeOK, NEW subject \in Subjects, IsFiniteSet(Recorded(subject)),
         attempts'[subject] = [age \in 0..Window |-> IF age = 0 THEN 0 ELSE attempts[subject][age - 1]]
  PROVE  IsFiniteSet(Recorded(subject)') /\ Count(subject)' <= Count(subject)
<1> DEFINE before == [entry \in Recorded(subject)' |-> <<entry[1] - 1, entry[2]>>]
<1>1. /\ Window \in Nat /\ attempts[subject] \in [0..Window -> Nat]
      /\ \A age \in 0..Window :
           attempts'[subject][age] = IF age = 0 THEN 0 ELSE attempts[subject][age - 1]
  BY AuthAssumption DEF TypeOK
<1>2. \A entry \in Recorded(subject)' :
        \E age \in 1..Window : \E i \in 1 .. attempts[subject][age - 1] : entry = <<age, i>>
  <2> SUFFICES ASSUME NEW entry \in Recorded(subject)'
               PROVE  \E age \in 1..Window : \E i \in 1 .. attempts[subject][age - 1] : entry = <<age, i>>
    OBVIOUS
  <2>1. PICK age \in 0..Window : \E i \in 1 .. attempts'[subject][age] : entry = <<age, i>>
    BY DEF Recorded
  <2>2. age # 0
    BY <1>1, <2>1
  <2> QED BY <1>1, <2>1, <2>2
<1>3. \A entry \in Recorded(subject)' : before[entry] \in Recorded(subject)
  <2> SUFFICES ASSUME NEW entry \in Recorded(subject)' PROVE <<entry[1] - 1, entry[2]>> \in Recorded(subject)
    OBVIOUS
  <2>1. PICK age \in 1..Window : \E i \in 1 .. attempts[subject][age - 1] : entry = <<age, i>>
    BY <1>2
  <2>2. PICK i \in 1 .. attempts[subject][age - 1] : entry = <<age, i>>
    BY <2>1
  <2>3. age - 1 \in 0..Window /\ entry[1] = age /\ entry[2] = i
    BY <1>1, <2>2
  <2> QED BY <2>2, <2>3, RowsOf
<1>4. \A entry, other \in Recorded(subject)' : before[entry] = before[other] => entry = other
  <2> SUFFICES ASSUME NEW entry \in Recorded(subject)', NEW other \in Recorded(subject)',
                      <<entry[1] - 1, entry[2]>> = <<other[1] - 1, other[2]>>
               PROVE  entry = other
    OBVIOUS
  <2>1. PICK age \in 1..Window, i \in Nat : entry = <<age, i>>
    BY <1>1, <1>2
  <2>2. PICK age2 \in 1..Window, i2 \in Nat : other = <<age2, i2>>
    BY <1>1, <1>2
  <2> QED BY <1>1, <2>1, <2>2
<1>5. before \in Injection(Recorded(subject)', Recorded(subject))
  BY <1>3, <1>4 DEF Injection, IsInjective
<1> HIDE DEF before
<1> QED BY <1>5, FS_Injection DEF Count

(* Throttled is inductive: every attempt is counted in the transaction     *)
(* that finds room for it, and only growing older or a success removes it. *)
LEMMA ThrottledStep ==
  TypeOK /\ FiniteRecords /\ Throttled /\ [Next]_vars => FiniteRecords' /\ Throttled'
<1> SUFFICES ASSUME TypeOK, FiniteRecords, Throttled, [Next]_vars,
                    NEW subject \in Subjects
             PROVE  IsFiniteSet(Recorded(subject)') /\ Count(subject)' <= Limit(subject)
  BY DEF FiniteRecords, Throttled, Limit
<1>0. /\ IsFiniteSet(Recorded(subject)) /\ Count(subject) <= Limit(subject)
      /\ Count(subject) \in Nat /\ Limit(subject) \in Nat
  BY FS_CardinalityType, AuthAssumption DEF FiniteRecords, Throttled, Count, Limit
<1>1. ASSUME attempts'[subject] = attempts[subject]
      PROVE  IsFiniteSet(Recorded(subject)') /\ Count(subject)' <= Limit(subject)
  <2>1. Recorded(subject)' = Recorded(subject)
    BY <1>1 DEF Recorded
  <2> QED BY <1>0, <2>1 DEF Count
<1>2. ASSUME NEW r \in Requests, NEW u \in Users, NEW p \in Passwords, NEW ip \in Addresses,
             Admit(r, u, p, ip)
      PROVE  IsFiniteSet(Recorded(subject)') /\ Count(subject)' <= Limit(subject)
  <2>1. CASE subject \in {Lower[u], ip}
    <3>1. Count(subject) < Limit(subject)
      BY <1>2, <2>1 DEF Admit
    <3>2. attempts'[subject] = [attempts[subject] EXCEPT ![0] = @ + 1]
      BY <1>2, <2>1 DEF Admit
    <3>3. IsFiniteSet(Recorded(subject)') /\ Count(subject)' = Count(subject) + 1
      BY <1>0, <3>2, Recording
    <3> QED BY <1>0, <3>1, <3>3
  <2>2. CASE subject \notin {Lower[u], ip}
    BY <1>1, <1>2, <2>2 DEF Admit
  <2> QED BY <2>1, <2>2
<1>3. ASSUME NEW r \in Requests, NEW k \in Tokens, NEW age \in 0..1, NEW ended \in SUBSET Over,
             Open(r, k, age, ended)
      PROVE  IsFiniteSet(Recorded(subject)') /\ Count(subject)' <= Limit(subject)
  <2>1. CASE subject = Lower[who[r]]
    <3>1. \A a \in 0..Window : attempts'[subject][a] = 0
      BY <1>3, <2>1 DEF Open, TypeOK
    <3> QED BY <1>0, <3>1, Clearing
  <2>2. CASE subject # Lower[who[r]]
    BY <1>1, <1>3, <2>2 DEF Open, TypeOK
  <2> QED BY <2>1, <2>2
<1>4. CASE PassTime
  <2>1. attempts'[subject]
          = [age \in 0..Window |-> IF age = 0 THEN 0 ELSE attempts[subject][age - 1]]
    BY <1>4 DEF PassTime
  <2>2. IsFiniteSet(Recorded(subject)') /\ Count(subject)' <= Count(subject)
    BY <1>0, <2>1, Ageing
  <2>3. Count(subject)' \in Nat
    BY <2>2, FS_CardinalityType DEF Count
  <2> QED BY <1>0, <2>2, <2>3
<1>5. CASE UNCHANGED attempts
  BY <1>1, <1>5
<1>6. ASSUME \/ \E r \in Requests : Verify(r) \/ Serve(r)
             \/ Console \/ WebRestart \/ UNCHANGED vars
      PROVE  UNCHANGED attempts
  BY <1>6 DEF Verify, Serve, Enter, End, Logout, ChangePassword, SaveAdmin, Console, CreateOwner,
              ResetPassword, WebRestart, vars
<1> QED BY <1>2, <1>3, <1>4, <1>5, <1>6 DEF Next, SignIn

(* Within the window no name and no address ever has more sign-ins on      *)
(* record than its limit, whatever runs at the same time (auth.py 50-66).  *)
THEOREM ThrottledHolds == Spec => []Throttled
<1>1. Init => FiniteRecords /\ Throttled
  <2> SUFFICES ASSUME Init, NEW subject \in Subjects
               PROVE  IsFiniteSet(Recorded(subject)) /\ Count(subject) <= Limit(subject)
    BY DEF FiniteRecords, Throttled
  <2>1. Recorded(subject) = {}
    BY DEF Init, Recorded
  <2> QED BY <2>1, FS_EmptySet, AuthAssumption DEF Count, Limit
<1> QED BY InitialTypes, TypeStep, <1>1, ThrottledStep, PTL DEF Spec

-----------------------------------------------------------------------------
(***************************************************************************)
(* The other tables of the panel: one-time download links (Shares), for    *)
(* every set of clients, tokens and handlers and every lifetime.           *)
(***************************************************************************)
(* A thread's record keeps its type when the fields that steps set change. *)
LEMMA ThreadType ==
  ASSUME NEW h \in S!Thread, NEW n \in Clients \cup {None}, NEW k \in Links \cup {None},
         NEW late \in BOOLEAN,
         NEW step \in {"free", "share asks", "share read", "share done", "asks", "read", "logged"}
  PROVE  /\ S!Free \in S!Thread
         /\ [h EXCEPT !.step = step] \in S!Thread
         /\ [h EXCEPT !.step = step, !.link = k] \in S!Thread
         /\ [S!Free EXCEPT !.step = step, !.client = n] \in S!Thread
         /\ [S!Free EXCEPT !.step = step, !.client = n, !.link = k, !.late = late] \in S!Thread
BY DEF S!Thread, S!Free

(* Who holds what: a token is with one handler at most; one that a handler *)
(* has just made is known to nobody, one that it has taken is known, has   *)
(* lost its row and has not brought its profile yet; a handler is late     *)
(* only while the agent refuses its client for good.                       *)
Holding(h) ==
  /\ h.step \in {"free", "share asks", "share read"} => h.link = None
  /\ h.step = "share done" => h.link \in Links \ known
  /\ h.step \in {"asks", "read", "logged"} =>
       h.link \in known /\ share[h.link] = S!NoShare /\ delivered[h.link] = 0
  /\ h.step = "logged" => h.link \in logged
  /\ h.late => h.step = "asks" /\ S!Barred(h.client)

OneHolder ==
  \A t, o \in Threads : thread[t].link # None /\ thread[t].link = thread[o].link => t = o

(* A token that has brought its profile is spent and in the log; a row     *)
(* that was once too old is too old.                                       *)
Spent == \A k \in Links :
  delivered[k] = 0 \/ (delivered[k] = 1 /\ k \in known \cap logged /\ share[k] = S!NoShare)
Lapsed == \A k \in Links : k \in lapsed => share[k] = S!NoShare \/ share[k].age >= Life

LinksInv ==
  S!TypeOK /\ (\A t \in Threads : Holding(thread[t])) /\ OneHolder /\ Spent /\ Lapsed

\* No step of the handlers, the holders or time breaks the invariant of the links.
LEMMA LinksStep == SharesAssumption /\ LinksInv /\ [S!Next]_S!vars => LinksInv'
<1> SUFFICES ASSUME SharesAssumption, LinksInv, [S!Next]_S!vars PROVE LinksInv'
  OBVIOUS
<1> USE DEF SharesAssumption, LinksInv, S!history, S!Move, S!Done, S!pki
<1>0. UNCHANGED <<row, profile, editing, revocation>> => \A n : S!Barred(n) => S!Barred(n)'
  BY DEF S!Barred
<1>1. ASSUME NEW t \in Threads, NEW n \in Clients, S!ShareEnter(t, n) PROVE LinksInv'
  <2> DEFINE new == [S!Free EXCEPT !.step = "share asks", !.client = n]
  <2>1. new \in S!Thread /\ new.step = "share asks" /\ new.link = None /\ ~new.late
    BY DEF S!Thread, S!Free
  <2>2. thread' = [thread EXCEPT ![t] = new] /\ UNCHANGED <<share, known, S!pki, logged, delivered, lapsed>>
    BY <1>1 DEF S!ShareEnter
  <2> HIDE DEF new
  <2>3. S!TypeOK'
    BY <2>1, <2>2 DEF S!TypeOK
  <2>4. \A o \in Threads : Holding(thread[o])'
    BY <1>0, <2>1, <2>2 DEF Holding, S!TypeOK
  <2> QED BY <2>1, <2>2, <2>3, <2>4 DEF S!TypeOK, OneHolder, Spent, Lapsed
<1>2. ASSUME NEW t \in Threads, NEW k \in Links, S!ShareInsert(t, k) PROVE LinksInv'
  <2> DEFINE new == [thread[t] EXCEPT !.step = "share done", !.link = k]
             made == [client |-> thread[t].client, age |-> 0]
  <2>1. /\ new \in S!Thread /\ new.step = "share done" /\ new.link = k /\ new.late = thread[t].late
        /\ made \in S!Share /\ made.age = 0
    <3>1. thread[t] \in S!Thread /\ thread[t].client \in Clients \cup {None}
      BY DEF S!Thread, S!TypeOK
    <3>2. new \in S!Thread /\ new.step = "share done" /\ new.link = k /\ new.late = thread[t].late
      BY <3>1 DEF S!Thread
    <3>3. made \in S!Share /\ made.age = 0
      BY <3>1 DEF S!Share
    <3> QED BY <3>2, <3>3
  <2>2. /\ thread' = [thread EXCEPT ![t] = new] /\ UNCHANGED <<known, S!pki, logged, delivered, lapsed>>
        /\ \A j \in Links : share'[j] = IF j = k THEN made
                                        ELSE IF share[j].age > Life THEN S!NoShare ELSE share[j]
        /\ k \notin lapsed \cup known /\ share[k] = S!NoShare /\ thread[t].step = "share read"
        /\ \A o \in Threads : thread[o].link # k
    BY <1>2 DEF S!ShareInsert, S!TypeOK, S!Thread
  <2>3. S!NoShare \in S!Share /\ share' \in [Links -> S!Share]
    BY <1>2, <2>1, <2>2 DEF S!ShareInsert, S!TypeOK, S!NoShare, S!Share
  <2> HIDE DEF new, made
  <2>4. S!TypeOK'
    BY <2>1, <2>2, <2>3 DEF S!TypeOK
  <2>5. \A o \in Threads : Holding(thread[o])'
    BY <1>0, <2>1, <2>2 DEF Holding, S!TypeOK
  <2>6. OneHolder'
    BY <2>1, <2>2 DEF OneHolder, S!TypeOK
  <2> QED BY <2>1, <2>2, <2>4, <2>5, <2>6 DEF Spent, Lapsed
<1>3. ASSUME NEW t \in Threads, S!ShareAnswer(t) \/ S!Fail(t) PROVE LinksInv'
  <2>1. S!Free \in S!Thread /\ S!Free.step = "free" /\ S!Free.link = None /\ ~S!Free.late
    BY DEF S!Thread, S!Free
  <2>2. /\ thread' = [thread EXCEPT ![t] = S!Free] /\ UNCHANGED <<share, S!pki, logged, delivered, lapsed>>
        /\ known' = known \/ (known' = known \cup {thread[t].link} /\ thread[t].step = "share done")
    BY <1>3 DEF S!ShareAnswer, S!Fail
  <2>3. known \subseteq known' /\ known' \subseteq Links
    BY <1>0, <2>2 DEF Holding, S!TypeOK
  <2>4. S!TypeOK'
    BY <2>1, <2>2, <2>3 DEF S!TypeOK
  <2>5. ASSUME NEW o \in Threads PROVE Holding(thread[o])'
    BY <1>0, <2>1, <2>2, <2>3 DEF Holding, OneHolder, S!TypeOK
  <2>6. OneHolder'
    BY <2>1, <2>2 DEF OneHolder, S!TypeOK
  <2> QED BY <2>2, <2>3, <2>4, <2>5, <2>6 DEF Spent, Lapsed
<1>4. ASSUME NEW t \in Threads, NEW k \in Links, S!Take(t, k) PROVE LinksInv'
  <2> DEFINE new == S!DownloadEnter(t, k)
  <2>1. /\ share[k] # S!NoShare /\ share[k].age < Life /\ k \in known /\ k \notin lapsed
        /\ thread[t] = S!Free
    BY <1>4 DEF S!Take, S!Good, Lapsed, S!TypeOK, S!Share
  <2>2. /\ new \in S!Thread /\ new.step = "asks" /\ new.link = k
        /\ new.late => S!Barred(new.client)
    BY <2>1 DEF S!DownloadEnter, S!Thread, S!Free, S!TypeOK, S!Share
  <2>3. /\ thread' = [thread EXCEPT ![t] = new] /\ share' = [share EXCEPT ![k] = S!NoShare]
        /\ UNCHANGED <<known, S!pki, logged, delivered, lapsed>>
    BY <1>4 DEF S!Take
  <2>4. \A o \in Threads : thread[o].link # k
    BY <1>0, <2>1 DEF Holding, S!TypeOK, S!Thread
  <2>5. S!NoShare \in S!Share
    BY DEF S!NoShare, S!Share
  <2> HIDE DEF new
  <2>6. S!TypeOK'
    BY <2>2, <2>3, <2>5 DEF S!TypeOK
  <2>7. delivered[k] = 0
    BY <2>1 DEF Spent
  <2>8. \A o \in Threads : Holding(thread[o])'
    BY <1>0, <2>1, <2>2, <2>3, <2>7 DEF Holding, S!TypeOK
  <2>9. OneHolder'
    BY <2>2, <2>3, <2>4 DEF OneHolder, S!TypeOK
  <2> QED BY <2>3, <2>6, <2>8, <2>9 DEF Spent, Lapsed, S!TypeOK
<1>5. ASSUME NEW t \in Threads, S!Read(t) \/ S!Log(t) PROVE LinksInv'
  <2> DEFINE new == [thread[t] EXCEPT !.step = thread'[t].step]
  <2>1. /\ thread' = [thread EXCEPT ![t] = new] /\ new \in S!Thread
        /\ new.link = thread[t].link /\ ~new.late
        /\ \/ thread[t].step = "share asks" /\ new.step = "share read"
           \/ thread[t].step = "asks" /\ new.step = "read"
           \/ thread[t].step = "read" /\ new.step = "logged" /\ thread[t].link \in logged'
        /\ logged' = logged \/ (logged' = logged \cup {thread[t].link} /\ thread[t].step = "read")
        /\ UNCHANGED <<share, known, S!pki, delivered, lapsed>>
    <3>1. thread[t] \in S!Thread /\ Holding(thread[t]) /\ thread \in [Threads -> S!Thread]
      BY DEF S!TypeOK
    <3>2. \A step \in {"share read", "read", "logged"} :
            /\ [thread[t] EXCEPT !.step = step] \in S!Thread
            /\ [thread[t] EXCEPT !.step = step].step = step
            /\ [thread[t] EXCEPT !.step = step].link = thread[t].link
            /\ [thread[t] EXCEPT !.step = step].late = thread[t].late
      BY <3>1 DEF S!Thread
    <3>3. CASE S!Read(t)
      <4>1. ~thread[t].late /\ thread[t].step \in {"share asks", "asks"}
        BY <3>1, <3>3 DEF S!Read, S!Barred, Holding
      <4>2. /\ thread' = [thread EXCEPT ![t].step = IF thread[t].step = "asks" THEN "read" ELSE "share read"]
            /\ UNCHANGED <<share, known, S!pki, logged, delivered, lapsed>>
        BY <3>3 DEF S!Read
      <4>3. thread'[t].step = IF thread[t].step = "asks" THEN "read" ELSE "share read"
        BY <3>1, <4>2 DEF S!Thread
      <4> QED BY <3>1, <3>2, <4>1, <4>2, <4>3
    <3>4. CASE S!Log(t)
      <4>1. ~thread[t].late /\ thread[t].step = "read"
        BY <3>1, <3>4 DEF S!Log, Holding
      <4>2. /\ thread' = [thread EXCEPT ![t].step = "logged"]
            /\ logged' = logged \cup {thread[t].link}
            /\ UNCHANGED <<share, known, S!pki, delivered, lapsed>>
        BY <3>4 DEF S!Log
      <4>3. thread'[t].step = "logged"
        BY <3>1, <4>2 DEF S!Thread
      <4> QED BY <3>1, <3>2, <4>1, <4>2, <4>3
    <3> QED BY <1>5, <3>3, <3>4
  <2> HIDE DEF new
  <2>2. logged \subseteq logged' /\ logged' \subseteq Links
    BY <1>0, <2>1 DEF Holding, S!TypeOK
  <2>3. S!TypeOK'
    BY <2>1, <2>2 DEF S!TypeOK
  <2>4. \A o \in Threads : Holding(thread[o])'
    BY <1>0, <2>1, <2>2 DEF Holding, S!TypeOK
  <2>5. OneHolder'
    BY <2>1 DEF OneHolder, S!TypeOK
  <2> QED BY <2>1, <2>2, <2>3, <2>4, <2>5 DEF Spent, Lapsed
<1>6. ASSUME NEW t \in Threads, S!Deliver(t) PROVE LinksInv'
  <2> DEFINE k == thread[t].link
  <2>1. S!Free \in S!Thread /\ S!Free.step = "free" /\ S!Free.link = None /\ ~S!Free.late
    BY DEF S!Thread, S!Free
  <2>2. /\ thread' = [thread EXCEPT ![t] = S!Free] /\ UNCHANGED <<share, known, S!pki, logged, lapsed>>
        /\ delivered' = [delivered EXCEPT ![k] = @ + 1]
        /\ k \in known \cap logged /\ k \in Links /\ share[k] = S!NoShare /\ delivered[k] = 0
        /\ k # None
    BY <1>6 DEF S!Deliver, Holding, S!TypeOK
  <2>3. \A o \in Threads : o # t => thread[o].link # k
    BY <2>2 DEF OneHolder
  <2> HIDE DEF k
  <2>4. S!TypeOK'
    BY <2>1, <2>2 DEF S!TypeOK
  <2>5. \A o \in Threads : Holding(thread[o])'
    BY <1>0, <2>1, <2>2, <2>3 DEF Holding, S!TypeOK
  <2>6. OneHolder'
    BY <2>1, <2>2 DEF OneHolder, S!TypeOK
  <2> QED BY <2>2, <2>4, <2>5, <2>6 DEF Spent, Lapsed, S!TypeOK
<1>7. ASSUME S!RevokeCommit \/ S!RevokeRemove \/ S!RevokeFails
               \/ \E n \in Clients : S!Revoke(n) \/ S!UpdateRead(n) \/ S!UpdateWrite(n) \/ S!UpdateEnds(n)
      PROVE  LinksInv'
  <2>1. UNCHANGED <<share, known, thread, logged, delivered, lapsed>>
    BY <1>7 DEF S!Revoke, S!RevokeCommit, S!RevokeRemove, S!RevokeFails, S!UpdateRead, S!UpdateWrite,
                S!UpdateEnds
  <2>2. /\ row' \in [Clients -> {"open", "revoking", "revoked"}]
        /\ profile' \subseteq Clients /\ editing' \subseteq Clients
        /\ revocation' \in S!Revocation
    <3>1. CASE \E n \in Clients : S!Revoke(n)
      BY <3>1 DEF S!Revoke, S!Revocation, S!TypeOK
    <3>2. CASE S!RevokeCommit
      BY <3>2 DEF S!RevokeCommit, S!Revocation, S!TypeOK
    <3>3. CASE S!RevokeRemove \/ S!RevokeFails
      BY <3>3 DEF S!RevokeRemove, S!RevokeFails, S!Unlocked, S!Revocation, S!TypeOK
    <3>4. CASE \E n \in Clients : S!UpdateRead(n) \/ S!UpdateWrite(n) \/ S!UpdateEnds(n)
      BY <3>4 DEF S!UpdateRead, S!UpdateWrite, S!UpdateEnds, S!Barred, S!TypeOK
    <3> QED BY <1>7, <3>1, <3>2, <3>3, <3>4
  <2>3. ASSUME NEW n, S!Barred(n) PROVE S!Barred(n)'
    <3>1. CASE n \in Clients
      BY <1>7, <2>3, <3>1 DEF S!Revoke, S!RevokeCommit, S!RevokeRemove, S!RevokeFails, S!UpdateRead,
                              S!UpdateWrite, S!UpdateEnds, S!Barred, S!TypeOK
    <3>2. CASE n \notin Clients
      BY <2>2, <3>2 DEF S!Barred
    <3> QED BY <3>1, <3>2
  <2> QED BY <2>1, <2>2, <2>3 DEF S!TypeOK, Holding, OneHolder, Spent, Lapsed
<1>8. CASE S!Tick
  <2>1. /\ \A k \in Links : /\ share'[k] \in S!Share
                            /\ share[k] = S!NoShare => share'[k] = S!NoShare
                            /\ share[k].age <= share'[k].age
    BY <1>8 DEF S!Tick, S!TypeOK, S!Share
  <2>2. /\ lapsed' = lapsed \cup {k \in Links : share'[k] # S!NoShare /\ share'[k].age >= Life}
        /\ UNCHANGED <<known, S!pki, thread, logged, delivered>>
        /\ share' \in [Links -> S!Share]
    BY <1>8, <2>1 DEF S!Tick
  <2>3. S!TypeOK'
    BY <2>2 DEF S!TypeOK
  <2>4. \A o \in Threads : Holding(thread[o])'
    BY <1>0, <2>1, <2>2 DEF Holding, S!TypeOK
  <2>5. Lapsed'
    BY <2>1, <2>2 DEF Lapsed, S!TypeOK, S!Share
  <2> QED BY <2>1, <2>2, <2>3, <2>4, <2>5 DEF OneHolder, Spent
<1>9. CASE UNCHANGED S!vars
  BY <1>0, <1>9 DEF S!vars, S!TypeOK, Holding, OneHolder, Spent, Lapsed
<1> QED BY <1>1, <1>2, <1>3, <1>4, <1>5, <1>6, <1>7, <1>8, <1>9 DEF S!Next

\* The invariant holds in every state of the panel.
LEMMA LinksInvariant == PanelSpec => []LinksInv
<1>1. PanelInit => LinksInv
  <2> SUFFICES ASSUME S!Init PROVE LinksInv
    BY DEF PanelInit
  <2>1. S!NoShare \in S!Share
    BY SharesAssumed DEF SharesAssumption, S!NoShare, S!Share
  <2>2. S!Free \in S!Thread /\ S!Free.step = "free" /\ S!Free.link = None /\ ~S!Free.late
    BY DEF S!Thread, S!Free
  <2>3. S!TypeOK
    BY <2>1, <2>2 DEF S!Init, S!TypeOK, S!Unlocked, S!Revocation
  <2> QED BY <2>2, <2>3 DEF S!Init, LinksInv, Holding, OneHolder, Spent, Lapsed
<1>2. LinksInv /\ [PanelNext]_<<part, vars, links>> => LinksInv'
  <2>1. [PanelNext]_<<part, vars, links>> => [S!Next]_S!vars
    BY DEF PanelNext, links, S!vars, S!pki
  <2> QED BY <2>1, LinksStep, SharesAssumed
<1> QED BY <1>1, <1>2, PTL DEF PanelSpec

(* A download link brings its profile once at most, with its row in the    *)
(* log, and nothing to who opens it after its lifetime, after the file was *)
(* removed, or while the row is closed and no update that could open it    *)
(* again is under way (app.py 276-285, agent.py 98-100, 177-210).          *)
THEOREM OneDownloadInItsLifeHolds == PanelSpec => []OneDownloadInItsLife
<1>1. LinksInv => OneDownloadInItsLife
  <2> SUFFICES ASSUME LinksInv PROVE S!OneDownload /\ S!LateGivesNothing
    BY DEF OneDownloadInItsLife, S!OneDownloadInItsLife
  <2>1. S!LateGivesNothing
    BY DEF LinksInv, S!LateGivesNothing, Holding
  <2>2. \A k \in Links : delivered[k] <= 1 /\ (delivered[k] = 1 => k \in logged)
    <3> SUFFICES ASSUME NEW k \in Links PROVE delivered[k] <= 1 /\ (delivered[k] = 1 => k \in logged)
      OBVIOUS
    <3>1. delivered[k] = 0 \/ (delivered[k] = 1 /\ k \in logged)
      BY DEF LinksInv, Spent
    <3> QED BY <3>1
  <2>3. \A k \in Links : delivered[k] = 1 => S!Fetching(k) = {}
    <3> SUFFICES ASSUME NEW k \in Links, delivered[k] = 1, NEW t \in Threads, thread[t].link = k,
                        thread[t].step \in {"asks", "read", "logged"}
                 PROVE  FALSE
      BY DEF S!Fetching
    <3>1. delivered[thread[t].link] = 0
      BY DEF LinksInv, Holding
    <3> QED BY <3>1
  <2> QED BY <2>1, <2>2, <2>3 DEF S!OneDownload
<1> QED BY <1>1, LinksInvariant, PTL

(* The panel behaves as its accounts do alone, so what was proved of Auth  *)
(* holds in it; all its tables keep their types.                           *)
THEOREM PanelTypesHold == PanelSpec => []PanelTypeOK
<1>1. PanelInit => Init
  BY DEF PanelInit
<1>2. [PanelNext]_<<part, vars, links>> => [Next]_vars
  BY DEF PanelNext, vars
<1>3. PanelSpec => Spec
  BY <1>1, <1>2, PTL DEF PanelSpec, Spec
<1>4. TypeOK /\ LinksInv => PanelTypeOK
  BY DEF LinksInv, PanelTypeOK
<1> QED BY <1>3, <1>4, TypeCorrect, LinksInvariant, PTL
=============================================================================
