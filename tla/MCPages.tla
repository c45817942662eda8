------------------------------ MODULE MCPages ------------------------------
(* Two requests in flight and two changes of the clients: enough for a late  *)
(* answer of either kind to meet a newer one.  Answers of two entries, a log *)
(* that fills two of them and more.  Two handlers on one client and one      *)
(* change by somebody else: enough for one handler to wait behind a dialog   *)
(* that the other replaces.  Minutes of three seconds and hours of four      *)
(* minutes; one zone without a change, one on either side of Greenwich that  *)
(* puts its clock back, and one that puts it forward, each at a full hour.   *)
EXTENDS Tab, TLC

CONSTANTS l1, l2

TwoLoads == {l1, l2}
BothOutages == {"down", "hung"}
ThreeHours == 1..72
FourZones == {[at |-> 0, before |-> 0, after |-> 0], [at |-> 36, before |-> 24, after |-> 12],
              [at |-> 24, before |-> -12, after |-> -24], [at |-> 36, before |-> 12, after |-> 24]}
Alike == Permutations(TwoLoads)
=============================================================================
