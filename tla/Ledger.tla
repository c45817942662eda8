------------------------------- MODULE Ledger -------------------------------
(***************************************************************************)
(* The accounting tables under arbitrary use: any report of any session,   *)
(* in any order and any number of times, between any administrative        *)
(* changes.  Two history variables say what was reported and from where a  *)
(* client's present usage counts; no action reads them.                    *)
(***************************************************************************)
EXTENDS Accounting, Integers, FiniteSets

CONSTANTS Reports,    \* the counters a report may carry
          Quotas,     \* values of quota_bytes
          Expiries,   \* values of expires_at
          Written,    \* the states an update may write
          MaxTime     \* bound of the clock

ASSUME LedgerAssumption ==
  /\ Reports \subseteq [upload : Nat, download : Nat]
  /\ Quotas \subseteq Nat
  /\ Expiries \subseteq Nat
  /\ Written \subseteq States
  /\ MaxTime \in Nat

VARIABLES reports,  \* history: session -> the reports accepted for it
          base      \* history: session -> its counters where its owner's usage began

vars == <<clients, counters, now, reports, base>>

LedgerTypeOK ==
  /\ AccountingTypeOK
  /\ reports \in [Sessions -> SUBSET Reports]
  /\ base \in [Sessions -> [upload : Nat, download : Nat]]

Totals(counter) == [upload |-> counter.upload, download |-> counter.download]

Init ==
  /\ EmptyTables
  /\ now = 0
  /\ reports = [s \in Sessions |-> {}]
  /\ base = [s \in Sessions |-> Totals(NoCounter)]

AddClient(n) ==
  /\ \E q \in Quotas, e \in Expiries : Add(n, q, e)
  /\ UNCHANGED <<now, reports, base>>

UpdateClient(n) ==
  /\ \E st \in Written, q \in Quotas, e \in Expiries : Update(n, st, q, e)
  /\ UNCHANGED <<now, reports, base>>

\* Bytes reported for a name without a row are charged to nobody, then or later.
Report(n, s, r) ==
  /\ Account(n, s, r.upload, r.download)
  /\ reports' = [reports EXCEPT ![s] = @ \cup {r}]
  /\ base' = IF Known(n) THEN base ELSE [base EXCEPT ![s] = Totals(counters'[s])]
  /\ UNCHANGED now

ResetUsage(n) ==
  /\ Reset(n)
  /\ base' = [s \in Sessions |-> IF counters[s].name = n THEN Totals(counters[s]) ELSE base[s]]
  /\ UNCHANGED <<now, reports>>

PassTime ==
  /\ now < MaxTime
  /\ Tick
  /\ UNCHANGED <<reports, base>>

Next ==
  \/ \E n \in Names : AddClient(n) \/ UpdateClient(n) \/ ResetUsage(n)
  \/ \E n \in Names, s \in Sessions, r \in Reports : Report(n, s, r)
  \/ PassTime

Spec == Init /\ [][Next]_vars

-----------------------------------------------------------------------------
(***************************************************************************)
(* Properties                                                              *)
(***************************************************************************)

(* Replays and reordering do no harm: whatever the order in which the      *)
(* snapshots and the final report of a session reach the table, and        *)
(* however often, its counters are the largest of the reports.             *)
IsLargest(v, S) == (\A x \in S : x <= v) /\ (v = 0 \/ v \in S)

HighWater ==
  \A s \in Sessions :
    /\ IsLargest(counters[s].upload, {r.upload : r \in reports[s]})
    /\ IsLargest(counters[s].download, {r.download : r \in reports[s]})

(* Conservation: a client's usage is the number of the bytes that the      *)
(* counters of its sessions gained since the client was reset or became    *)
(* known, the i-th byte of session s being <<s, i>>.  Nothing is charged   *)
(* twice, to the wrong client, or forgotten, and a reset forgets exactly   *)
(* what was reported before it.                                            *)
SessionsOf(n) == {s \in Sessions : counters[s].name = n}
Bytes(s, from, to) == {s} \X ((from + 1) .. to)
Uploaded(n) == UNION {Bytes(s, base[s].upload, counters[s].upload) : s \in SessionsOf(n)}
Downloaded(n) == UNION {Bytes(s, base[s].download, counters[s].download) : s \in SessionsOf(n)}

UsageConserved ==
  \A n \in Names : /\ clients[n].upload = Cardinality(Uploaded(n))
                   /\ clients[n].download = Cardinality(Downloaded(n))

(* A client's usage grows only by what the counters of one session of its  *)
(* own gain in the same transaction, direction by direction.               *)
ChargedFromOneSession(n) ==
  \E s \in Sessions :
    /\ counters'[s].name = n
    /\ clients'[n].upload - clients[n].upload = counters'[s].upload - counters[s].upload
    /\ clients'[n].download - clients[n].download = counters'[s].download - counters[s].download

NotCharged(n) ==
  clients'[n].upload <= clients[n].upload /\ clients'[n].download <= clients[n].download

ChargedExactly == [][\A n \in Names : NotCharged(n) \/ ChargedFromOneSession(n)]_vars

(* A client the policy blocks (suspended, expired, over quota, not         *)
(* provisioned) is let in again only by a decision of the administrator,   *)
(* a change of its settings or a reset: no report, however stale, and no   *)
(* passage of time unblocks it.                                            *)
Settings(row) == <<row.state, row.quota_bytes, row.expires_at>>

DecidedByAdministrator(n) ==
  \/ Settings(clients[n]) # Settings(clients'[n])
  \/ clients'[n].upload = 0 /\ clients'[n].download = 0

BlockedStaysBlocked ==
  [][\A n \in Names : ~Allowed(n) /\ Allowed(n)' => DecidedByAdministrator(n)]_vars
=============================================================================
