----------------------------- MODULE Accounting -----------------------------
(***************************************************************************)
(* The agent's durable tables (panel/accounting.py): one row per client    *)
(* and one row of counters per VPN session.  Every operation below is one  *)
(* BEGIN IMMEDIATE transaction of the program, so it is one atomic action. *)
(* An operation that raises rolls its transaction back and changes         *)
(* nothing: it is simply not enabled here.                                 *)
(*                                                                         *)
(* A row that does not exist is the value NoClient, or NoCounter: the      *)
(* program never deletes a row of either table.                            *)
(***************************************************************************)
EXTENDS Naturals

CONSTANTS Names,     \* certificate common names
          Sessions,  \* values of session_key: "name|remote|since"
          NoName     \* the owner of a session without a row

ASSUME NoNameAssumption == NoName \notin Names

VARIABLES clients,   \* table clients:  name -> row
          counters,  \* table counters: session -> row
          now        \* time.time()

tables == <<clients, counters>>

States == {"provisioning", "active", "suspended", "revoking", "revoked", "error"}
Never == 0   \* expires_at: NULL and 0 both mean "no expiry"
Unlimited == 0   \* quota_bytes: 0 means "no quota"

ClientRow == [state : States \cup {"none"}, quota_bytes : Nat, expires_at : Nat,
              upload : Nat, download : Nat]
CounterRow == [name : Names \cup {NoName}, upload : Nat, download : Nat]

NewClient == [state |-> "provisioning", quota_bytes |-> Unlimited,
              expires_at |-> Never, upload |-> 0, download |-> 0]
NoClient == [NewClient EXCEPT !.state = "none"]
NoCounter == [name |-> NoName, upload |-> 0, download |-> 0]

Known(n) == clients[n].state # "none"

AccountingTypeOK ==
  /\ clients \in [Names -> ClientRow]
  /\ counters \in [Sessions -> CounterRow]
  /\ now \in Nat

EmptyTables ==
  /\ clients = [n \in Names |-> NoClient]
  /\ counters = [s \in Sessions |-> NoCounter]

(***************************************************************************)
(* core.client_state: what the policy makes of a row.                      *)
(***************************************************************************)
Expired(row) == row.expires_at # Never /\ row.expires_at <= now
\* Mutation of OverQuota: equality instead of >=.
OverQuotaExactly(row) == row.quota_bytes # Unlimited /\ row.upload + row.download = row.quota_bytes
OverQuota(row) == row.quota_bytes # Unlimited /\ row.upload + row.download >= row.quota_bytes

ClientState(row) ==
  IF row.state # "active" THEN row.state
  ELSE IF Expired(row) THEN "expired"
  ELSE IF OverQuota(row) THEN "quota"
  ELSE "active"

\* Accounting.allowed: an unknown client is not allowed.
Allowed(n) == Known(n) /\ ClientState(clients[n]) = "active"

(***************************************************************************)
(* The transactions.                                                       *)
(***************************************************************************)
\* The row's settings, as add and update write them.
Set(row, st, q, e) == [row EXCEPT !.state = st, !.quota_bytes = q, !.expires_at = e]

\* name is the primary key: adding it twice raises.
Add(n, q, e) ==
  /\ ~Known(n)
  /\ clients' = [clients EXCEPT ![n] = Set(NewClient, "provisioning", q, e)]
  /\ UNCHANGED counters

\* A field that is not among the caller's changes is passed as it stands.
Update(n, st, q, e) ==
  /\ Known(n)
  /\ clients' = [clients EXCEPT ![n] = Set(clients[n], st, q, e)]
  /\ UNCHANGED counters

\* Mutation of Larger: the report at hand wins, however old.
LatestWins(a, b) == a

Larger(a, b) == IF a >= b THEN a ELSE b

\* Mutations of Account: the whole counters are charged at every report;
\* the session's counters add up.
AccountWhole(n, s, up, down) ==
  /\ counters[s].name \in {n, NoName}
  /\ counters' = [counters EXCEPT ![s] = [name |-> n, upload |-> Larger(up, @.upload),
                                          download |-> Larger(down, @.download)]]
  /\ clients' = IF Known(n) THEN [clients EXCEPT ![n].upload = @ + up, ![n].download = @ + down]
                ELSE clients

AccountAdded(n, s, up, down) ==
  /\ counters[s].name \in {n, NoName}
  /\ counters' = [counters EXCEPT ![s] = [name |-> n, upload |-> @.upload + up,
                                          download |-> @.download + down]]
  /\ clients' = IF Known(n) THEN [clients EXCEPT ![n].upload = @ + up, ![n].download = @ + down]
                ELSE clients

\* One report of a session: a row of a status snapshot, or the final counters
\* of the disconnect hook.  The client is charged the increase alone.
Account(n, s, up, down) ==
  LET old == counters[s]
      new == [name |-> n, upload |-> Larger(up, old.upload),
                          download |-> Larger(down, old.download)]
  IN /\ old.name \in {n, NoName}
     /\ counters' = [counters EXCEPT ![s] = new]
     /\ clients' =
          IF Known(n)
          THEN [clients EXCEPT ![n].upload = @ + (new.upload - old.upload),
                               ![n].download = @ + (new.download - old.download)]
          ELSE clients

\* The counters of the sessions stay: only what is reported later counts.
Reset(n) ==
  /\ clients' = IF Known(n) THEN [clients EXCEPT ![n].upload = 0, ![n].download = 0]
                ELSE clients
  /\ UNCHANGED counters

Tick ==
  /\ now' = now + 1
  /\ UNCHANGED tables
=============================================================================
