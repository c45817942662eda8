------------------------------- MODULE Panel -------------------------------
(***************************************************************************)
(* The panel's own tables: accounts, sessions and attempts (Auth), and     *)
(* download links (Shares).  The two share no state, so that one of them   *)
(* moving beside the other shows nothing that it does not show alone: part *)
(* says which one moves.                                                   *)
(***************************************************************************)
EXTENDS Auth

CONSTANTS Clients, Links, Threads, Life, None

VARIABLES part, share, known, row, profile, editing, revocation, thread, logged, delivered, lapsed

links == <<share, known, row, profile, editing, revocation, thread, logged, delivered, lapsed>>

S == INSTANCE Shares

\* None is neither a client nor a token; a lifetime is a number of ticks.
SharesAssumption == None \notin Clients \cup Links /\ Life \in Nat
ASSUME SharesAssumed == SharesAssumption

PanelInit == part \in {"accounts", "links"} /\ Init /\ S!Init

PanelNext ==
  /\ UNCHANGED part
  /\ \/ part = "accounts" /\ Next /\ UNCHANGED links
     \/ part = "links" /\ S!Next /\ UNCHANGED vars

PanelSpec == PanelInit /\ [][PanelNext]_<<part, vars, links>>

-----------------------------------------------------------------------------
\* Accounts, sessions, attempts, links, their holders and handlers keep their types.
PanelTypeOK == TypeOK /\ S!TypeOK

\* A link is good for one download at most, and none goes out that is not in the log; it
\* gives nothing to who opens it after its lifetime, or while a revocation has closed the
\* client's row and no update of it is under way that read it before, or after the profile
\* was removed (Shares; app.py:276-285, agent.py:98-100, 177-187, 194-210).
OneDownloadInItsLife == S!OneDownloadInItsLife
=============================================================================
