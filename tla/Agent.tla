------------------------------- MODULE Agent -------------------------------
(***************************************************************************)
(* The agent: what its requests do to rows, certificates and revocation    *)
(* lists (Lifecycle), and what its threads wait for (Waits).  The two are  *)
(* models of the same threads at different grain and share no state: part  *)
(* says which one moves.                                                   *)
(***************************************************************************)
EXTENDS Lifecycle

CONSTANTS Monitor, Handlers, Hooks, Sessions

VARIABLES part, todo, db, pki, management, reply, event, script, session

waiting == <<todo, db, pki, management, reply, event, script, session>>

W == INSTANCE Waits

\* Nobody and OpenVPN are no threads of the agent, and hook handlers serve nothing else.
WaitsAssumption ==
  /\ W!Free \notin W!Workers /\ W!OpenVpn \notin W!Workers \cup {W!Free}
  /\ Hooks \cap (Handlers \cup {Monitor}) = {}
ASSUME WaitsAssumed == WaitsAssumption

AgentInit ==
  /\ part \in {"files", "waits"} /\ Init /\ W!Init
  /\ part = "waits" => existing = {} /\ name = [t \in Threads |-> CHOOSE n \in Names : TRUE]

AgentNext ==
  /\ UNCHANGED part
  /\ \/ part = "files" /\ Next /\ UNCHANGED waiting
     \/ part = "waits" /\ W!Next /\ UNCHANGED vars

AgentSpec == AgentInit /\ [][AgentNext]_<<part, vars, waiting>>

-----------------------------------------------------------------------------
\* Rows, certificates, lists, threads, locks, OpenVPN and its scripts keep their types.
AgentTypeOK == TypeOK /\ W!TypeOK

\* Nobody waits for somebody who, directly or through others, waits for him (Waits;
\* agent.py:24, 165, 205, core.py:49, hook.py:15).
NoCircle == W!NoCircle
=============================================================================
