--------------------------- MODULE MCEnforcement ---------------------------
(* Enforcement on two sessions: of one client, or of a client each.        *)
EXTENDS Enforcement, TLC

CONSTANTS a, b, s1, s2

OneSession == s1 :> a
OneOwner == s1 :> a @@ s2 :> a
TwoOwners == s1 :> a @@ s2 :> b
Symmetry == Permutations(Sessions)

\* What the sessions carried and how their final reports fared is written but
\* not read where there is no traffic.
NoTraffic == MaxUpload = 0 /\ MaxDownload = 0
Enforced == <<clients, now, session, vpn, agent, pc, rows, todo, condemned, okAge, failAge, admin,
              target, steady, out, round,
              IF NoTraffic THEN <<>> ELSE <<counters, traffic, snapshot, late, lost>>>>
=============================================================================
