------------------------------ MODULE MCLedger ------------------------------
(* Ledger on two clients and two sessions.                                 *)
EXTENDS Ledger, TLC

(* An early and a late snapshot, and one that is ahead in one direction    *)
(* and behind in the other.                                                *)
MCReports == {[upload |-> 1, download |-> 0], [upload |-> 0, download |-> 1],
              [upload |-> 2, download |-> 0]}
Symmetry == Permutations(Names) \cup Permutations(Sessions)
=============================================================================
