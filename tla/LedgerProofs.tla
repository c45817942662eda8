---------------------------- MODULE LedgerProofs ----------------------------
(***************************************************************************)
(* Theorems about Ledger, for every set of clients, sessions and reports.  *)
(***************************************************************************)
EXTENDS Ledger, AccountingProofs, FiniteSetTheorems

(* Type correctness is inductive on its own.                               *)
LEMMA TypeStep == LedgerTypeOK /\ [Next]_vars => LedgerTypeOK'
<1> SUFFICES ASSUME LedgerTypeOK, [Next]_vars PROVE LedgerTypeOK'
  OBVIOUS
<1> USE LedgerAssumption DEF LedgerTypeOK, AccountingTypeOK
<1>1. ASSUME NEW n \in Names, AddClient(n) PROVE LedgerTypeOK'
  <2>1. PICK q \in Quotas, e \in Expiries : Add(n, q, e)
    BY <1>1 DEF AddClient
  <2>2. Set(NewClient, "provisioning", q, e) \in ClientRow
    BY SetType, NewRows DEF States
  <2> QED BY <1>1, <2>1, <2>2 DEF AddClient, Add
<1>2. ASSUME NEW n \in Names, UpdateClient(n) PROVE LedgerTypeOK'
  <2>1. PICK st \in Written, q \in Quotas, e \in Expiries : Update(n, st, q, e)
    BY <1>2 DEF UpdateClient
  <2>2. Set(clients[n], st, q, e) \in ClientRow
    BY SetType
  <2> QED BY <1>2, <2>1, <2>2 DEF UpdateClient, Update
<1>3. ASSUME NEW n \in Names, ResetUsage(n) PROVE LedgerTypeOK'
  <2>1. clients' \in [Names -> ClientRow]
    BY <1>3 DEF ResetUsage, Reset, ClientRow
  <2>2. base' \in [Sessions -> [upload : Nat, download : Nat]]
    BY <1>3 DEF ResetUsage, Totals, CounterRow
  <2> QED BY <1>3, <2>1, <2>2 DEF ResetUsage, Reset
<1>4. ASSUME NEW n \in Names, NEW s \in Sessions, NEW r \in Reports, Report(n, s, r)
      PROVE LedgerTypeOK'
  <2>1. r.upload \in Nat /\ r.download \in Nat
    BY DEF CounterRow
  <2>2. clients' \in [Names -> ClientRow] /\ counters' \in [Sessions -> CounterRow]
    BY <1>4, <2>1, AccountEffect DEF Report
  <2>5. reports' \in [Sessions -> SUBSET Reports]
    BY <1>4 DEF Report
  <2>6. base' \in [Sessions -> [upload : Nat, download : Nat]]
    BY <1>4, <2>2 DEF Report, Totals, CounterRow
  <2>7. now' \in Nat
    BY <1>4 DEF Report
  <2> QED BY <2>2, <2>5, <2>6, <2>7
<1>5. CASE PassTime
  BY <1>5 DEF PassTime, Tick, tables
<1>6. CASE UNCHANGED vars
  BY <1>6 DEF vars
<1> QED BY <1>1, <1>2, <1>3, <1>4, <1>5, <1>6 DEF Next

(* The empty tables have their types.                                      *)
LEMMA InitialTypes == Init => LedgerTypeOK
BY DEF Init, LedgerTypeOK, AccountingTypeOK, EmptyTables, ClientRow, CounterRow,
       NoClient, NewClient, NoCounter, Totals, Never, Unlimited

(* The tables and the histories always have their types.                   *)
THEOREM TypeCorrect == Spec => []LedgerTypeOK
BY InitialTypes, TypeStep, PTL DEF Spec

-----------------------------------------------------------------------------
(* The larger of a set's largest element and a new element is the largest  *)
(* of the set with it.                                                     *)
LEMMA LargestOfMore ==
  ASSUME NEW S, NEW v \in Nat, NEW x \in Nat, S \subseteq Nat, IsLargest(v, S)
  PROVE  IsLargest(Larger(x, v), S \cup {x})
BY DEF IsLargest, Larger

(* HighWater is inductive relative to the types: a report can only raise   *)
(* the counters of its session, to itself, and nothing else touches them.  *)
LEMMA HighWaterStep == LedgerTypeOK /\ HighWater /\ [Next]_vars => HighWater'
<1> SUFFICES ASSUME LedgerTypeOK, HighWater, [Next]_vars PROVE HighWater'
  OBVIOUS
<1>1. CASE UNCHANGED <<counters, reports>>
  BY <1>1 DEF HighWater
<1>2. ASSUME NEW n \in Names, NEW s \in Sessions, NEW r \in Reports, Report(n, s, r)
      PROVE HighWater'
  <2> DEFINE ups(S) == {x.upload : x \in S}
             downs(S) == {x.download : x \in S}
  <2>1. /\ reports[s] \in SUBSET Reports /\ r \in [upload : Nat, download : Nat]
        /\ ups(reports[s]) \subseteq Nat /\ downs(reports[s]) \subseteq Nat
        /\ counters[s].upload \in Nat /\ counters[s].download \in Nat
    BY LedgerAssumption DEF LedgerTypeOK, AccountingTypeOK, CounterRow
  <2>2. /\ reports'[s] = reports[s] \cup {r}
        /\ counters'[s].upload = Larger(r.upload, counters[s].upload)
        /\ counters'[s].download = Larger(r.download, counters[s].download)
        /\ \A t \in Sessions \ {s} : counters'[t] = counters[t] /\ reports'[t] = reports[t]
    BY <1>2 DEF Report, Account, LedgerTypeOK, AccountingTypeOK
  <2>3. /\ ups(reports'[s]) = ups(reports[s]) \cup {r.upload}
        /\ downs(reports'[s]) = downs(reports[s]) \cup {r.download}
    BY <2>2
  <2>4. IsLargest(counters[s].upload, ups(reports[s])) /\ IsLargest(counters[s].download, downs(reports[s]))
    BY DEF HighWater
  <2>5. IsLargest(counters'[s].upload, ups(reports'[s]))
    BY <2>1, <2>2, <2>3, <2>4, LargestOfMore
  <2>6. IsLargest(counters'[s].download, downs(reports'[s]))
    BY <2>1, <2>2, <2>3, <2>4, LargestOfMore
  <2>7. ASSUME NEW t \in Sessions \ {s}
        PROVE /\ IsLargest(counters'[t].upload, ups(reports'[t]))
              /\ IsLargest(counters'[t].download, downs(reports'[t]))
    BY <2>2, <2>7 DEF HighWater
  <2> QED BY <2>5, <2>6, <2>7 DEF HighWater
<1>3. ASSUME NEW n \in Names, AddClient(n) \/ UpdateClient(n) \/ ResetUsage(n)
      PROVE UNCHANGED <<counters, reports>>
  BY <1>3 DEF AddClient, Add, UpdateClient, Update, ResetUsage, Reset
<1>4. PassTime \/ UNCHANGED vars => UNCHANGED <<counters, reports>>
  BY DEF PassTime, Tick, tables, vars
<1> QED BY <1>1, <1>2, <1>3, <1>4 DEF Next

(* Replays and reordering never change what is recorded of a session.      *)
THEOREM HighWaterHolds == Spec => []HighWater
<1>1. Init => HighWater
  BY DEF Init, EmptyTables, NoCounter, HighWater, IsLargest
<1>2. Spec => [](LedgerTypeOK /\ HighWater)
  <2>1. Init => LedgerTypeOK
    BY InitialTypes
  <2> QED BY <1>1, <2>1, TypeStep, HighWaterStep, PTL DEF Spec
<1> QED BY <1>2, PTL

-----------------------------------------------------------------------------
(* What one report does to the rows, in a form the later proofs can cite.  *)
LEMMA ReportEffect ==
  ASSUME LedgerTypeOK, NEW n \in Names, NEW s \in Sessions, NEW r \in Reports, Report(n, s, r)
  PROVE  /\ \A m \in Names \ {n} : clients'[m] = clients[m]
         /\ counters'[s].name = n
         /\ Settings(clients'[n]) = Settings(clients[n])
         /\ clients'[n].upload >= clients[n].upload
         /\ clients'[n].download >= clients[n].download
         /\ \/ clients' = clients
            \/ /\ clients'[n].upload - clients[n].upload = counters'[s].upload - counters[s].upload
               /\ clients'[n].download - clients[n].download = counters'[s].download - counters[s].download
<1> DEFINE up == Larger(r.upload, counters[s].upload)
           down == Larger(r.download, counters[s].download)
<1>1. /\ counters[s].upload \in Nat /\ up \in Nat /\ up >= counters[s].upload
      /\ counters[s].download \in Nat /\ down \in Nat /\ down >= counters[s].download
  BY LargerFacts, LedgerAssumption DEF LedgerTypeOK, AccountingTypeOK, CounterRow
<1>2. counters'[s] = [name |-> n, upload |-> up, download |-> down]
  BY DEF Report, Account, LedgerTypeOK, AccountingTypeOK
<1>3. clients \in [Names -> ClientRow]
  BY DEF LedgerTypeOK, AccountingTypeOK
<1>4. \/ clients' = clients
      \/ clients' = [clients EXCEPT ![n].upload = @ + (up - counters[s].upload),
                                    ![n].download = @ + (down - counters[s].download)]
  BY DEF Report, Account
<1> HIDE DEF up, down
<1>5. CASE clients' = clients
  BY <1>2, <1>3, <1>5 DEF ClientRow
<1>6. CASE clients' = [clients EXCEPT ![n].upload = @ + (up - counters[s].upload),
                                      ![n].download = @ + (down - counters[s].download)]
  <2>1. /\ clients'[n].upload = clients[n].upload + (up - counters[s].upload)
        /\ clients'[n].download = clients[n].download + (down - counters[s].download)
        /\ Settings(clients'[n]) = Settings(clients[n])
        /\ \A m \in Names \ {n} : clients'[m] = clients[m]
    BY <1>3, <1>6 DEF ClientRow, Settings
  <2> QED BY <1>1, <1>2, <1>3, <2>1 DEF ClientRow
<1> QED BY <1>4, <1>5, <1>6

(* No other step raises a usage: rows are new, kept, or set to zero.       *)
LEMMA OtherStepsDoNotCharge ==
  ASSUME LedgerTypeOK, NEW m \in Names,
         \/ \E n \in Names : AddClient(n) \/ UpdateClient(n) \/ ResetUsage(n)
         \/ PassTime
  PROVE  NotCharged(m)
<1> USE DEF NotCharged, LedgerTypeOK, AccountingTypeOK, ClientRow
<1>1. clients[m].upload \in Nat /\ clients[m].download \in Nat
  OBVIOUS
<1>2. ASSUME NEW n \in Names, AddClient(n) PROVE NotCharged(m)
  <2>1. PICK q \in Quotas, e \in Expiries : Add(n, q, e)
    BY <1>2 DEF AddClient
  <2>2. /\ Set(NewClient, "provisioning", q, e).upload = 0
        /\ Set(NewClient, "provisioning", q, e).download = 0
    BY DEF Set, NewClient
  <2> QED BY <1>1, <2>1, <2>2 DEF Add
<1>3. ASSUME NEW n \in Names, UpdateClient(n) PROVE NotCharged(m)
  <2>1. PICK st \in Written, q \in Quotas, e \in Expiries : Update(n, st, q, e)
    BY <1>3 DEF UpdateClient
  <2>2. /\ Set(clients[n], st, q, e).upload = clients[n].upload
        /\ Set(clients[n], st, q, e).download = clients[n].download
    BY SetType, LedgerAssumption
  <2> QED BY <1>1, <2>1, <2>2 DEF Update
<1>4. ASSUME NEW n \in Names, ResetUsage(n) PROVE NotCharged(m)
  BY <1>1, <1>4 DEF ResetUsage, Reset
<1>5. ASSUME PassTime PROVE NotCharged(m)
  BY <1>1, <1>5 DEF PassTime, Tick, tables
<1> QED BY <1>2, <1>3, <1>4, <1>5

(* A client is charged exactly what one session of its own gained.         *)
THEOREM ChargedExactlyHolds == Spec => ChargedExactly
<1>1. LedgerTypeOK /\ [Next]_vars
        => [\A n \in Names : NotCharged(n) \/ ChargedFromOneSession(n)]_vars
  <2> SUFFICES ASSUME LedgerTypeOK, Next, NEW m \in Names
               PROVE  NotCharged(m) \/ ChargedFromOneSession(m)
    OBVIOUS
  <2> USE DEF NotCharged, LedgerTypeOK, AccountingTypeOK, ClientRow
  <2>1. ASSUME NEW n \in Names, NEW s \in Sessions, NEW r \in Reports, Report(n, s, r)
        PROVE  NotCharged(m) \/ ChargedFromOneSession(m)
    BY <2>1, ReportEffect DEF ChargedFromOneSession
  <2> QED BY <2>1, OtherStepsDoNotCharge DEF Next
<1> QED BY <1>1, TypeCorrect, PTL DEF Spec, ChargedExactly

(* Whoever is allowed stays so at an earlier time and with less usage.     *)
LEMMA AllowedIsMonotone ==
  ASSUME LedgerTypeOK, LedgerTypeOK', NEW n \in Names, Allowed(n)',
         Settings(clients'[n]) = Settings(clients[n]), now <= now',
         clients[n].upload <= clients'[n].upload, clients[n].download <= clients'[n].download
  PROVE  Allowed(n)
BY DEF Allowed, Known, ClientState, Expired, OverQuota, Settings, LedgerTypeOK,
       AccountingTypeOK, ClientRow, Never, Unlimited

(* Only the administrator lets a blocked client in again.                  *)
THEOREM BlockedStaysBlockedHolds == Spec => BlockedStaysBlocked
<1> DEFINE Kept(n) == ~Allowed(n) /\ Allowed(n)' => DecidedByAdministrator(n)
<1>1. LedgerTypeOK /\ LedgerTypeOK' /\ [Next]_vars => [\A n \in Names : Kept(n)]_vars
  <2> SUFFICES ASSUME LedgerTypeOK, LedgerTypeOK', Next, NEW m \in Names, Allowed(m)',
                      ~DecidedByAdministrator(m)
               PROVE  Allowed(m)
    OBVIOUS
  <2>0. /\ Settings(clients'[m]) = Settings(clients[m])
        /\ ~(clients'[m].upload = 0 /\ clients'[m].download = 0)
    BY DEF DecidedByAdministrator
  <2>1. ASSUME NEW n \in Names, NEW s \in Sessions, NEW r \in Reports, Report(n, s, r)
        PROVE  Allowed(m)
    <3>1. clients[m].upload <= clients'[m].upload /\ clients[m].download <= clients'[m].download
      <4>1. CASE m = n
        BY <2>1, <4>1, ReportEffect DEF LedgerTypeOK, AccountingTypeOK, ClientRow
      <4>2. CASE m # n
        BY <2>1, <4>2, ReportEffect DEF LedgerTypeOK, AccountingTypeOK, ClientRow
      <4> QED BY <4>1, <4>2
    <3>2. now <= now'
      BY <2>1 DEF Report, LedgerTypeOK, AccountingTypeOK
    <3> QED BY <2>0, <3>1, <3>2, AllowedIsMonotone
  <2>2. ASSUME NEW n \in Names, AddClient(n) \/ UpdateClient(n) \/ ResetUsage(n)
        PROVE  /\ clients[m].upload = clients'[m].upload
               /\ clients[m].download = clients'[m].download
               /\ now' = now
    <3> USE DEF LedgerTypeOK, AccountingTypeOK, ClientRow
    <3>1. CASE AddClient(n)
      BY <2>0, <3>1 DEF AddClient, Add, Set, NewClient, Known, Settings
    <3>2. CASE UpdateClient(n)
      <4>1. PICK st \in Written, q \in Quotas, e \in Expiries : Update(n, st, q, e)
        BY <3>2 DEF UpdateClient
      <4>2. /\ Set(clients[n], st, q, e).upload = clients[n].upload
            /\ Set(clients[n], st, q, e).download = clients[n].download
        BY SetType, LedgerAssumption
      <4> QED BY <3>2, <4>1, <4>2 DEF UpdateClient, Update
    <3>3. CASE ResetUsage(n)
      BY <2>0, <3>3 DEF ResetUsage, Reset, Known
    <3> QED BY <2>2, <3>1, <3>2, <3>3
  <2>3. ASSUME \E n \in Names : AddClient(n) \/ UpdateClient(n) \/ ResetUsage(n)
        PROVE  Allowed(m)
    <3>1. /\ clients[m].upload <= clients'[m].upload /\ clients[m].download <= clients'[m].download
          /\ now <= now'
      BY <2>2, <2>3 DEF LedgerTypeOK, AccountingTypeOK, ClientRow
    <3> QED BY <2>0, <3>1, AllowedIsMonotone
  <2>4. ASSUME PassTime PROVE Allowed(m)
    <3>1. clients' = clients /\ now <= now'
      BY <2>4 DEF PassTime, Tick, tables, LedgerTypeOK, AccountingTypeOK
    <3>2. clients[m].upload <= clients'[m].upload /\ clients[m].download <= clients'[m].download
      BY <3>1 DEF LedgerTypeOK, AccountingTypeOK, ClientRow
    <3> QED BY <2>0, <3>1, <3>2, AllowedIsMonotone
  <2> QED BY <2>1, <2>3, <2>4 DEF Next
<1> QED BY <1>1, TypeCorrect, PTL DEF Spec, BlockedStaysBlocked

-----------------------------------------------------------------------------
(* What conservation needs to be inductive: usage counts from a base that  *)
(* the counters never fall below; a session that nobody owns has reported  *)
(* nothing; a client without a row has used nothing; and a client's bytes  *)
(* are finitely many, though its sessions need not be.                     *)
BaseBelowCounters ==
  \A s \in Sessions :
    /\ base[s].upload <= counters[s].upload /\ base[s].download <= counters[s].download
    /\ counters[s].name = NoName =>
         /\ counters[s].upload = 0 /\ counters[s].download = 0
         /\ base[s].upload = 0 /\ base[s].download = 0

UnknownUnused ==
  \A n \in Names : ~Known(n) => clients[n].upload = 0 /\ clients[n].download = 0

FinitelyMany == \A n \in Names : IsFiniteSet(Uploaded(n)) /\ IsFiniteSet(Downloaded(n))

Conservation ==
  LedgerTypeOK /\ BaseBelowCounters /\ UnknownUnused /\ FinitelyMany /\ UsageConserved

(* The bytes of a session beyond its old counter are new, and as many as   *)
(* the counter rose.                                                       *)
LEMMA BytesAdded ==
  ASSUME NEW A, IsFiniteSet(A), NEW s, NEW old \in Nat, NEW new \in Nat, old <= new,
         A \cap Bytes(s, old, new) = {}
  PROVE  /\ IsFiniteSet(A \cup Bytes(s, old, new))
         /\ Cardinality(A \cup Bytes(s, old, new)) = Cardinality(A) + (new - old)
<1> DEFINE I == (old + 1) .. new
           B == Bytes(s, old, new)
<1>1. IsFiniteSet(I) /\ Cardinality(I) = new - old
  <2>1. old + 1 \in Int /\ new \in Int
    OBVIOUS
  <2>2. IsFiniteSet(I) /\ Cardinality(I) = IF old + 1 > new THEN 0 ELSE new - (old + 1) + 1
    BY <2>1, FS_Interval
  <2> QED BY <2>2
<1>2. IsFiniteSet({s}) /\ Cardinality({s}) = 1
  BY FS_Singleton
<1>3. B = {s} \X I
  BY DEF Bytes
<1>4. Cardinality(A) \in Nat
  BY FS_CardinalityType
<1> HIDE DEF I
<1>5. IsFiniteSet(B) /\ Cardinality(B) = Cardinality({s}) * Cardinality(I)
  <2>1. /\ IsFiniteSet({s} \X I)
        /\ Cardinality({s} \X I) = Cardinality({s}) * Cardinality(I)
    BY <1>1, <1>2, FS_Product
  <2> QED BY <1>3, <2>1
<1>6. Cardinality(B) = new - old
  BY <1>1, <1>2, <1>5
<1> HIDE DEF B
<1>7. /\ IsFiniteSet(A \cup B)
      /\ Cardinality(A \cup B) = Cardinality(A) + Cardinality(B) - Cardinality(A \cap B)
  BY <1>5, FS_Union
<1>8. Cardinality(A \cap B) = 0
  BY FS_EmptySet DEF B
<1>9. Cardinality(A \cup B) = Cardinality(A) + (new - old)
  BY <1>4, <1>6, <1>7, <1>8
<1> QED BY <1>7, <1>9 DEF B

(* A report of a known client's session adds to the client's bytes those   *)
(* between the old counters and the new ones, and no byte to another's; a  *)
(* report for a name without a row adds none.                              *)
LEMMA ReportBytes ==
  ASSUME Conservation, LedgerTypeOK', NEW n \in Names, NEW s \in Sessions, NEW r \in Reports,
         Report(n, s, r)
  PROVE  /\ Known(n) =>
              /\ Uploaded(n)' = Uploaded(n) \cup
                   Bytes(s, counters[s].upload, counters'[s].upload)
              /\ Downloaded(n)' = Downloaded(n) \cup
                   Bytes(s, counters[s].download, counters'[s].download)
         /\ ~Known(n) => Uploaded(n)' \subseteq Uploaded(n) /\ Downloaded(n)' \subseteq Downloaded(n)
         /\ \A m \in Names \ {n} : Uploaded(m)' = Uploaded(m) /\ Downloaded(m)' = Downloaded(m)
<1>1. /\ counters[s].upload <= counters'[s].upload /\ counters[s].download <= counters'[s].download
      /\ counters[s].name \in {n, NoName} /\ counters'[s].name = n
      /\ \A z \in Sessions \ {s} : counters'[z] = counters[z] /\ base'[z] = base[z]
      /\ base'[s] = IF Known(n) THEN base[s] ELSE Totals(counters'[s])
  <2>1. r.upload \in Nat /\ r.download \in Nat
    BY LedgerAssumption
  <2>2. /\ \A z \in Sessions \ {s} : counters'[z] = counters[z]
        /\ counters'[s].upload = Larger(r.upload, counters[s].upload)
        /\ counters'[s].download = Larger(r.download, counters[s].download)
    BY <2>1, AccountEffect DEF Report, Conservation, LedgerTypeOK
  <2>3. counters[s].upload \in Nat /\ counters[s].download \in Nat
    BY DEF Conservation, LedgerTypeOK, AccountingTypeOK, CounterRow
  <2>4. counters[s].upload <= counters'[s].upload /\ counters[s].download <= counters'[s].download
    BY <2>1, <2>2, <2>3, LargerFacts
  <2>5. counters[s].name \in {n, NoName} /\ counters'[s].name = n
    BY ReportEffect DEF Conservation, Report, Account
  <2>6. base' = IF Known(n) THEN base ELSE [base EXCEPT ![s] = Totals(counters'[s])]
    BY DEF Report
  <2> QED BY <2>2, <2>4, <2>5, <2>6 DEF Conservation, LedgerTypeOK
<1>2. /\ \A z \in Sessions : /\ counters[z].upload \in Nat /\ counters[z].download \in Nat
                             /\ base[z].upload \in Nat /\ base[z].download \in Nat
                             /\ counters[z].name \in Names \cup {NoName}
      /\ counters'[s].upload \in Nat /\ counters'[s].download \in Nat
      /\ base[s].upload <= counters[s].upload /\ base[s].download <= counters[s].download
      /\ counters[s].name = NoName =>
           /\ counters[s].upload = 0 /\ counters[s].download = 0
           /\ base[s].upload = 0 /\ base[s].download = 0
  BY DEF Conservation, BaseBelowCounters, LedgerTypeOK, AccountingTypeOK, CounterRow
<1>3. ASSUME Known(n)
      PROVE  /\ Uploaded(n)' = Uploaded(n) \cup
                  Bytes(s, counters[s].upload, counters'[s].upload)
             /\ Downloaded(n)' = Downloaded(n) \cup
                  Bytes(s, counters[s].download, counters'[s].download)
  <2>1. base'[s] = base[s] /\ SessionsOf(n)' = SessionsOf(n) \cup {s}
    BY <1>1, <1>3 DEF SessionsOf
  <2>2. Uploaded(n)' = Uploaded(n) \cup Bytes(s, counters[s].upload, counters'[s].upload)
    BY <1>1, <1>2, <2>1, NoNameAssumption DEF Uploaded, SessionsOf, Bytes
  <2>3. Downloaded(n)' = Downloaded(n) \cup
                           Bytes(s, counters[s].download, counters'[s].download)
    BY <1>1, <1>2, <2>1, NoNameAssumption DEF Downloaded, SessionsOf, Bytes
  <2> QED BY <2>2, <2>3
<1>4. ASSUME ~Known(n)
      PROVE  Uploaded(n)' \subseteq Uploaded(n) /\ Downloaded(n)' \subseteq Downloaded(n)
  BY <1>1, <1>2, <1>4 DEF Uploaded, Downloaded, SessionsOf, Totals, Bytes
<1>5. ASSUME NEW m \in Names \ {n}
      PROVE  Uploaded(m)' = Uploaded(m) /\ Downloaded(m)' = Downloaded(m)
  <2>1. SessionsOf(m)' = SessionsOf(m) /\ s \notin SessionsOf(m)
    BY <1>1, <1>5, NoNameAssumption DEF SessionsOf
  <2>2. \A z \in SessionsOf(m) : counters'[z] = counters[z] /\ base'[z] = base[z]
    BY <1>1, <2>1 DEF SessionsOf
  <2> QED BY <2>1, <2>2 DEF Uploaded, Downloaded
<1> QED BY <1>3, <1>4, <1>5

(* No byte beyond a session's counters has been charged to anyone.         *)
LEMMA BytesBeyond ==
  ASSUME LedgerTypeOK, NEW n \in Names, NEW s \in Sessions, NEW up \in Nat, NEW down \in Nat
  PROVE  /\ Uploaded(n) \cap Bytes(s, counters[s].upload, up) = {}
         /\ Downloaded(n) \cap Bytes(s, counters[s].download, down) = {}
BY DEF Uploaded, Downloaded, Bytes, LedgerTypeOK, AccountingTypeOK, CounterRow

(* A report keeps the books: what a known client's counters gained, its    *)
(* usage gains.                                                            *)
LEMMA ReportConserves ==
  ASSUME Conservation, LedgerTypeOK', NEW n \in Names, NEW s \in Sessions, NEW r \in Reports,
         Report(n, s, r)
  PROVE  Conservation'
<1>1. LedgerTypeOK /\ AccountingTypeOK /\ AccountingTypeOK'
  BY DEF Conservation, LedgerTypeOK
<1>2. /\ \A m \in Names \ {n} : clients'[m] = clients[m]
      /\ counters'[s].name = n
      /\ \A z \in Sessions \ {s} : counters'[z] = counters[z] /\ base'[z] = base[z]
      /\ base'[s] = IF Known(n) THEN base[s] ELSE Totals(counters'[s])
      /\ Known(n)' = Known(n)
  BY <1>1, ReportEffect DEF Report, Account, Known, Settings, LedgerTypeOK, AccountingTypeOK
<1>3. /\ counters[s].upload \in Nat /\ counters'[s].upload \in Nat
      /\ counters[s].download \in Nat /\ counters'[s].download \in Nat
      /\ counters[s].upload <= counters'[s].upload
      /\ counters[s].download <= counters'[s].download
      /\ clients[n].upload \in Nat /\ clients[n].download \in Nat
  <2>1. /\ counters[s].upload \in Nat /\ counters[s].download \in Nat
        /\ r.upload \in Nat /\ r.download \in Nat
    BY <1>1, LedgerAssumption DEF AccountingTypeOK, CounterRow
  <2>2. /\ counters'[s].upload = Larger(r.upload, counters[s].upload)
        /\ counters'[s].download = Larger(r.download, counters[s].download)
    BY <1>1, <2>1, AccountEffect DEF Report
  <2>3. clients[n].upload \in Nat /\ clients[n].download \in Nat
    BY <1>1 DEF AccountingTypeOK, ClientRow
  <2> QED BY <2>1, <2>2, <2>3, LargerFacts
<1>4. BaseBelowCounters'
  <2>1. /\ base[s].upload <= counters[s].upload /\ base[s].download <= counters[s].download
        /\ base[s].upload \in Nat /\ base[s].download \in Nat
    BY <1>1 DEF Conservation, BaseBelowCounters, LedgerTypeOK
  <2>2. /\ base'[s].upload <= counters'[s].upload /\ base'[s].download <= counters'[s].download
        /\ counters'[s].name # NoName
    BY <1>2, <1>3, <2>1, NoNameAssumption DEF Totals
  <2> QED BY <1>2, <2>2 DEF Conservation, BaseBelowCounters
<1>5. UnknownUnused'
  <2>1. ~Known(n) => clients' = clients
    BY DEF Report, Account
  <2> QED BY <1>1, <1>2, <2>1 DEF Conservation, UnknownUnused, Known
<1>6. /\ IsFiniteSet(Uploaded(n)') /\ clients'[n].upload = Cardinality(Uploaded(n)')
      /\ IsFiniteSet(Downloaded(n)') /\ clients'[n].download = Cardinality(Downloaded(n)')
  <2>1. /\ IsFiniteSet(Uploaded(n)) /\ clients[n].upload = Cardinality(Uploaded(n))
        /\ IsFiniteSet(Downloaded(n)) /\ clients[n].download = Cardinality(Downloaded(n))
    BY DEF Conservation, FinitelyMany, UsageConserved
  <2>2. CASE Known(n)
    <3> DEFINE up == Bytes(s, counters[s].upload, counters'[s].upload)
               down == Bytes(s, counters[s].download, counters'[s].download)
    <3>1. Uploaded(n)' = Uploaded(n) \cup up /\ Downloaded(n)' = Downloaded(n) \cup down
      BY <2>2, ReportBytes
    <3>2. Uploaded(n) \cap up = {} /\ Downloaded(n) \cap down = {}
      BY <1>1, <1>3, BytesBeyond
    <3>3. /\ IsFiniteSet(Uploaded(n) \cup up)
          /\ Cardinality(Uploaded(n) \cup up)
               = Cardinality(Uploaded(n)) + (counters'[s].upload - counters[s].upload)
      BY <1>3, <2>1, <3>2, BytesAdded
    <3>4. /\ IsFiniteSet(Downloaded(n) \cup down)
          /\ Cardinality(Downloaded(n) \cup down)
               = Cardinality(Downloaded(n)) + (counters'[s].download - counters[s].download)
      BY <1>3, <2>1, <3>2, BytesAdded
    <3>5. clients' = [clients EXCEPT ![n].upload = @ + (counters'[s].upload - counters[s].upload),
                                     ![n].download = @ + (counters'[s].download - counters[s].download)]
      BY <1>1, <2>2 DEF Report, Account, AccountingTypeOK
    <3>6. /\ clients'[n].upload = clients[n].upload + (counters'[s].upload - counters[s].upload)
          /\ clients'[n].download = clients[n].download + (counters'[s].download - counters[s].download)
      BY <1>1, <3>5 DEF AccountingTypeOK, ClientRow
    <3> QED BY <2>1, <3>1, <3>3, <3>4, <3>6
  <2>3. CASE ~Known(n)
    <3>1. clients'[n] = clients[n] /\ clients[n].upload = 0 /\ clients[n].download = 0
      BY <2>3 DEF Report, Account, Conservation, UnknownUnused
    <3>2. Uploaded(n) = {} /\ Downloaded(n) = {}
      BY <2>1, <3>1, FS_EmptySet
    <3>3. Uploaded(n)' = {} /\ Downloaded(n)' = {}
      BY <2>3, <3>2, ReportBytes
    <3> QED BY <3>1, <3>3, FS_EmptySet
  <2> QED BY <2>2, <2>3
<1>7. ASSUME NEW m \in Names \ {n}
      PROVE  /\ IsFiniteSet(Uploaded(m)') /\ clients'[m].upload = Cardinality(Uploaded(m)')
             /\ IsFiniteSet(Downloaded(m)') /\ clients'[m].download = Cardinality(Downloaded(m)')
  <2>1. Uploaded(m)' = Uploaded(m) /\ Downloaded(m)' = Downloaded(m) /\ clients'[m] = clients[m]
    BY <1>2, ReportBytes
  <2> QED BY <2>1 DEF Conservation, FinitelyMany, UsageConserved
<1>8. FinitelyMany' /\ UsageConserved'
  BY <1>6, <1>7 DEF FinitelyMany, UsageConserved
<1> QED BY <1>4, <1>5, <1>8 DEF Conservation

(* Conservation is inductive.                                              *)
LEMMA ConservationStep == Conservation /\ [Next]_vars => Conservation'
<1> SUFFICES ASSUME Conservation, [Next]_vars PROVE Conservation'
  OBVIOUS
<1>1. LedgerTypeOK /\ LedgerTypeOK' /\ AccountingTypeOK /\ AccountingTypeOK'
  BY TypeStep DEF Conservation, LedgerTypeOK
\* A step that leaves the counters, the bases and every usage alone.
<1>2. ASSUME counters' = counters, base' = base,
             \A m \in Names : /\ clients'[m].upload = clients[m].upload
                              /\ clients'[m].download = clients[m].download
                              /\ clients'[m].state = "none" => clients[m].state = "none"
      PROVE  Conservation'
  <2>1. BaseBelowCounters' /\ UnknownUnused'
    <3>1. BaseBelowCounters'
      BY <1>2 DEF Conservation, BaseBelowCounters
    <3>2. UnknownUnused'
      BY <1>2 DEF Conservation, UnknownUnused, Known
    <3> QED BY <3>1, <3>2
  <2>2. ASSUME NEW m \in Names
        PROVE  /\ IsFiniteSet(Uploaded(m)') /\ clients'[m].upload = Cardinality(Uploaded(m)')
               /\ IsFiniteSet(Downloaded(m)') /\ clients'[m].download = Cardinality(Downloaded(m)')
    <3>1. Uploaded(m)' = Uploaded(m) /\ Downloaded(m)' = Downloaded(m)
      BY <1>2 DEF Uploaded, Downloaded, SessionsOf
    <3>2. /\ IsFiniteSet(Uploaded(m)) /\ clients[m].upload = Cardinality(Uploaded(m))
          /\ IsFiniteSet(Downloaded(m)) /\ clients[m].download = Cardinality(Downloaded(m))
      BY DEF Conservation, FinitelyMany, UsageConserved
    <3>3. clients'[m].upload = clients[m].upload /\ clients'[m].download = clients[m].download
      BY <1>2
    <3> QED BY <3>1, <3>2, <3>3
  <2>3. FinitelyMany' /\ UsageConserved'
    BY <2>2 DEF FinitelyMany, UsageConserved
  <2> QED BY <1>1, <2>1, <2>3 DEF Conservation
<1>3. ASSUME NEW n \in Names, AddClient(n) PROVE Conservation'
  <2>1. PICK q \in Quotas, e \in Expiries : Add(n, q, e)
    BY <1>3 DEF AddClient
  <2>2. clients[n].upload = 0 /\ clients[n].download = 0
    BY <2>1 DEF Add, Conservation, UnknownUnused
  <2>3. /\ Set(NewClient, "provisioning", q, e).upload = 0
        /\ Set(NewClient, "provisioning", q, e).download = 0
        /\ Set(NewClient, "provisioning", q, e).state = "provisioning"
    BY DEF Set, NewClient
  <2>4. \A m \in Names : /\ clients'[m].upload = clients[m].upload
                         /\ clients'[m].download = clients[m].download
                         /\ clients'[m].state = "none" => clients[m].state = "none"
    BY <1>1, <2>1, <2>2, <2>3 DEF Add, Known, AccountingTypeOK
  <2> QED BY <1>2, <1>3, <2>1, <2>4 DEF AddClient, Add
<1>4. ASSUME NEW n \in Names, UpdateClient(n) PROVE Conservation'
  <2>1. PICK st \in Written, q \in Quotas, e \in Expiries : Update(n, st, q, e)
    BY <1>4 DEF UpdateClient
  <2>2. /\ Set(clients[n], st, q, e).upload = clients[n].upload
        /\ Set(clients[n], st, q, e).download = clients[n].download
        /\ Set(clients[n], st, q, e).state = st
    BY <1>1, SetType, LedgerAssumption DEF AccountingTypeOK
  <2>3. st # "none"
    BY LedgerAssumption DEF States
  <2>4. \A m \in Names : /\ clients'[m].upload = clients[m].upload
                         /\ clients'[m].download = clients[m].download
                         /\ clients'[m].state = "none" => clients[m].state = "none"
    BY <1>1, <2>1, <2>2, <2>3 DEF Update, Known, AccountingTypeOK
  <2> QED BY <1>2, <1>4, <2>1, <2>4 DEF UpdateClient, Update
<1>5. ASSUME NEW n \in Names, ResetUsage(n) PROVE Conservation'
  <2>1. /\ counters' = counters
        /\ \A s \in Sessions :
             /\ counters[s].name # n => base'[s] = base[s]
             /\ counters[s].name = n => /\ base'[s].upload = counters[s].upload
                                        /\ base'[s].download = counters[s].download
    BY <1>5 DEF ResetUsage, Reset, Totals
  <2>2. /\ clients'[n].upload = 0 /\ clients'[n].download = 0 /\ Known(n)' = Known(n)
        /\ \A m \in Names \ {n} : clients'[m] = clients[m]
    <3>1. CASE Known(n)
      <4>1. clients' = [clients EXCEPT ![n] = [clients[n] EXCEPT !.upload = 0, !.download = 0]]
        BY <1>1, <1>5, <3>1 DEF ResetUsage, Reset, AccountingTypeOK, ClientRow
      <4> QED BY <1>1, <4>1 DEF Known, AccountingTypeOK, ClientRow
    <3>2. CASE ~Known(n)
      BY <1>5, <3>2 DEF ResetUsage, Reset, Known, Conservation, UnknownUnused
    <3> QED BY <3>1, <3>2
  <2>3. BaseBelowCounters' /\ UnknownUnused'
    <3>1. BaseBelowCounters'
      <4> SUFFICES ASSUME NEW s \in Sessions
                   PROVE  /\ base'[s].upload <= counters'[s].upload
                          /\ base'[s].download <= counters'[s].download
                          /\ counters'[s].name = NoName =>
                               /\ counters'[s].upload = 0 /\ counters'[s].download = 0
                               /\ base'[s].upload = 0 /\ base'[s].download = 0
        BY DEF BaseBelowCounters
      <4>1. counters[s].upload \in Nat /\ counters[s].download \in Nat
        BY <1>1 DEF AccountingTypeOK, CounterRow
      <4>2. /\ base[s].upload <= counters[s].upload /\ base[s].download <= counters[s].download
            /\ counters[s].name = NoName =>
                 /\ counters[s].upload = 0 /\ counters[s].download = 0
                 /\ base[s].upload = 0 /\ base[s].download = 0
        BY DEF Conservation, BaseBelowCounters
      <4> QED BY <2>1, <4>1, <4>2, NoNameAssumption
    <3>2. UnknownUnused'
      BY <2>2 DEF Conservation, UnknownUnused, Known
    <3> QED BY <3>1, <3>2
  <2>4. Uploaded(n)' = {} /\ Downloaded(n)' = {}
    <3>1. \A s \in SessionsOf(n)' :
            /\ (base'[s].upload + 1) .. counters'[s].upload = {}
            /\ (base'[s].download + 1) .. counters'[s].download = {}
      BY <1>1, <2>1 DEF SessionsOf, AccountingTypeOK, CounterRow
    <3> QED BY <3>1 DEF Uploaded, Downloaded, Bytes
  <2>5. ASSUME NEW m \in Names \ {n}
        PROVE  Uploaded(m)' = Uploaded(m) /\ Downloaded(m)' = Downloaded(m)
    <3>1. SessionsOf(m)' = SessionsOf(m) /\ \A s \in SessionsOf(m) : base'[s] = base[s]
      BY <2>1, <2>5 DEF SessionsOf
    <3> QED BY <2>1, <3>1 DEF Uploaded, Downloaded
  <2>6. FinitelyMany' /\ UsageConserved'
    BY <2>2, <2>4, <2>5, FS_EmptySet DEF Conservation, FinitelyMany, UsageConserved
  <2> QED BY <1>1, <2>3, <2>6 DEF Conservation
<1>6. ASSUME PassTime \/ UNCHANGED vars PROVE Conservation'
  BY <1>2, <1>6 DEF PassTime, Tick, tables, vars, Known
<1> QED BY <1>1, <1>3, <1>4, <1>5, <1>6, ReportConserves DEF Next

(* Every client is charged each byte of its sessions once, from the moment *)
(* it became known or was last reset, and no other.                        *)
THEOREM UsageConservedHolds == Spec => []UsageConserved
<1>1. Init => Conservation
  <2> SUFFICES ASSUME Init PROVE Conservation
    OBVIOUS
  <2>1. LedgerTypeOK
    BY InitialTypes
  <2>2. BaseBelowCounters /\ UnknownUnused
    BY DEF Init, EmptyTables, NoCounter, NoClient, NewClient, Totals, BaseBelowCounters, UnknownUnused
  <2>3. \A n \in Names : Uploaded(n) = {} /\ Downloaded(n) = {}
    BY NoNameAssumption DEF Init, EmptyTables, NoCounter, Uploaded, Downloaded, SessionsOf, Bytes
  <2>4. FinitelyMany /\ UsageConserved
    BY <2>3, FS_EmptySet DEF Init, EmptyTables, NoClient, NewClient, FinitelyMany, UsageConserved
  <2> QED BY <2>1, <2>2, <2>4 DEF Conservation
<1>2. Conservation => UsageConserved
  BY DEF Conservation
<1> QED BY <1>1, <1>2, ConservationStep, PTL DEF Spec
=============================================================================
