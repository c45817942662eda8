------------------------------- MODULE MCTabs -------------------------------
(* Two tabs, two administrators, two requests at a time and two sign-ins:   *)
(* a tab's request can meet the cookie of the other's newer sign-in.        *)
EXTENDS Tabs, TLC
CONSTANTS tab1, tab2, u1, u2, k1, k2, r1, r2
TwoTabs == {tab1, tab2}
TwoUsers == {u1, u2}
TwoTokens == {k1, k2}
TwoRequests == {r1, r2}
Alike == Permutations(TwoTabs) \cup Permutations(TwoUsers)
           \cup Permutations(TwoTokens) \cup Permutations(TwoRequests)
=============================================================================
