------------------------------ MODULE MCPanel ------------------------------
(* Two administrators, whose names differ in more than case; two clients,    *)
(* two links and two handlers: one link opened twice at once, or two links   *)
(* with different ages.                                                      *)
EXTENDS Panel, TLC

CONSTANTS u1, u2

Same == u1 :> u1 @@ u2 :> u2
\* What a handler that has ended was about is not read again.
Locals(r) ==
  CASE pc[r] = "idle" -> <<"idle">>
    [] pc[r] \in {"verify", "open"} -> <<pc[r], who[r], given[r], read[r], r \in overtaken>>
    [] pc[r] = "act" -> <<"act", who[r], token[r]>>
\* Nor is the client of a row that is too old, or of a handler past its question to the
\* agent, nor the row of a client without a file.
OpenRow(k) == IF share[k].age < Life THEN share[k] ELSE <<share[k].age>>
Handler(t) ==
  IF thread[t].step \in {"share asks", "share read", "asks"} THEN thread[t]
  ELSE [thread[t] EXCEPT !.client = None]
RowOf(n) == IF n \in profile THEN <<row[n], n \in editing>> ELSE <<"gone">>
Relevant ==
  <<part, account, session, attempts, [r \in Requests |-> Locals(r)],
    [k \in Links |-> OpenRow(k)], [t \in Threads |-> Handler(t)], [n \in Clients |-> RowOf(n)],
    revocation, known, logged, delivered, lapsed>>
Symmetry ==
  Permutations(Requests) \cup Permutations(Passwords)
    \cup Permutations(Clients) \cup Permutations(Links) \cup Permutations(Threads)
=============================================================================
