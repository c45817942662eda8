-------------------------- MODULE AccountingProofs --------------------------
(***************************************************************************)
(* Lemmas about the tables of Accounting and their transactions, for the   *)
(* proofs about the specifications built on them.                          *)
(***************************************************************************)
EXTENDS Accounting, TLAPS

(* Larger is the maximum of two naturals.                                  *)
LEMMA LargerFacts ==
  ASSUME NEW a \in Nat, NEW b \in Nat
  PROVE  /\ Larger(a, b) \in Nat
         /\ Larger(a, b) >= a
         /\ Larger(a, b) >= b
         /\ Larger(a, b) \in {a, b}
BY DEF Larger

(* Writing a row's settings leaves a row, and its usage.                   *)
LEMMA SetType ==
  ASSUME NEW row \in ClientRow, NEW st \in States, NEW q \in Nat, NEW e \in Nat
  PROVE  /\ Set(row, st, q, e) \in ClientRow
         /\ Set(row, st, q, e).upload = row.upload
         /\ Set(row, st, q, e).download = row.download
         /\ Set(row, st, q, e).state = st
BY DEF Set, ClientRow

(* A new row is a row.                                                     *)
LEMMA NewRows == NewClient \in ClientRow /\ NoClient \in ClientRow
BY DEF NewClient, NoClient, ClientRow, States, Never, Unlimited

(* account raises the session's counters to the report, where it exceeds   *)
(* them, touches no other session's, and leaves tables of their types.     *)
LEMMA AccountEffect ==
  ASSUME AccountingTypeOK, NEW n \in Names, NEW s \in Sessions, NEW up \in Nat, NEW down \in Nat,
         Account(n, s, up, down)
  PROVE  /\ clients' \in [Names -> ClientRow]
         /\ counters' \in [Sessions -> CounterRow]
         /\ counters'[s].upload = Larger(up, counters[s].upload)
         /\ counters'[s].download = Larger(down, counters[s].download)
         /\ \A z \in Sessions \ {s} : counters'[z] = counters[z]
<1> DEFINE new == [name |-> n, upload |-> Larger(up, counters[s].upload),
                   download |-> Larger(down, counters[s].download)]
<1>1. counters[s].upload \in Nat /\ counters[s].download \in Nat
  BY DEF AccountingTypeOK, CounterRow
<1>2. /\ new.upload \in Nat /\ new.upload >= counters[s].upload
      /\ new.download \in Nat /\ new.download >= counters[s].download
      /\ new.upload = Larger(up, counters[s].upload)
      /\ new.download = Larger(down, counters[s].download)
  BY <1>1, LargerFacts
<1>3. counters' = [counters EXCEPT ![s] = new] /\ new \in CounterRow
  BY <1>2 DEF Account, CounterRow
<1>4. \/ clients' = clients
      \/ clients' = [clients EXCEPT ![n].upload = @ + (new.upload - counters[s].upload),
                                    ![n].download = @ + (new.download - counters[s].download)]
  BY DEF Account
<1> HIDE DEF new
<1>5. /\ new.upload - counters[s].upload \in Nat
      /\ new.download - counters[s].download \in Nat
  BY <1>1, <1>2
<1>6. clients' \in [Names -> ClientRow]
  BY <1>4, <1>5 DEF AccountingTypeOK, ClientRow
<1>7. counters' \in [Sessions -> CounterRow] /\ counters'[s] = new
  BY <1>3 DEF AccountingTypeOK
<1>8. \A z \in Sessions \ {s} : counters'[z] = counters[z]
  BY <1>3 DEF AccountingTypeOK
<1> QED BY <1>2, <1>6, <1>7, <1>8

(* update and reset leave rows.                                            *)
LEMMA EditType ==
  ASSUME AccountingTypeOK, NEW n \in Names
  PROVE  /\ Reset(n) => clients' \in [Names -> ClientRow] /\ counters' = counters
         /\ \A st \in States, q \in Nat, e \in Nat :
              Update(n, st, q, e) => clients' \in [Names -> ClientRow] /\ counters' = counters
<1>1. ASSUME Reset(n) PROVE clients' \in [Names -> ClientRow] /\ counters' = counters
  <2>1. [clients[n] EXCEPT !.upload = 0, !.download = 0] \in ClientRow
    BY DEF AccountingTypeOK, ClientRow
  <2>2. \/ clients' = clients
        \/ clients' = [clients EXCEPT ![n] = [clients[n] EXCEPT !.upload = 0, !.download = 0]]
    BY <1>1 DEF Reset, AccountingTypeOK, ClientRow
  <2> QED BY <1>1, <2>1, <2>2 DEF AccountingTypeOK, Reset
<1>2. ASSUME NEW st \in States, NEW q \in Nat, NEW e \in Nat, Update(n, st, q, e)
      PROVE  clients' \in [Names -> ClientRow] /\ counters' = counters
  <2>1. Set(clients[n], st, q, e) \in ClientRow
    BY SetType DEF AccountingTypeOK
  <2> QED BY <1>2, <2>1 DEF AccountingTypeOK, Update
<1> QED BY <1>1, <1>2

(* Who is allowed depends on the clients' rows and on the clock alone.     *)
LEMMA SameAnswer ==
  ASSUME clients' = clients, now' = now
  PROVE  \A n : Allowed(n)' = Allowed(n)
BY DEF Allowed, Known, ClientState, Expired, OverQuota, Never, Unlimited
=============================================================================
