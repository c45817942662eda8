------------------------------- MODULE Access -------------------------------
(***************************************************************************)
(* What the panel promises about a client's right to connect: it is        *)
(* unknown, then closed and open as the administrator decides, until it is *)
(* withdrawn, which is for good.  Clients may be withdrawn together: one   *)
(* new CRL can carry the revocations of several.                           *)
(***************************************************************************)
CONSTANT Names
VARIABLE access

Rights == {"unknown", "closed", "open", "withdrawn"}

Init == access = [n \in Names |-> "unknown"]

Turn(n, from, to) ==
  /\ access[n] = from
  /\ access' = [access EXCEPT ![n] = to]

Know(n) == Turn(n, "unknown", "closed")
Open(n) == Turn(n, "closed", "open")
Close(n) == Turn(n, "open", "closed")

Withdraw(S) ==
  /\ \A n \in S : access[n] \in {"closed", "open"}
  /\ access' = [n \in Names |-> IF n \in S THEN "withdrawn" ELSE access[n]]

Next ==
  \/ \E n \in Names : Know(n) \/ Open(n) \/ Close(n)
  \/ \E S \in SUBSET Names : Withdraw(S)

Spec == Init /\ [][Next]_access
=============================================================================
