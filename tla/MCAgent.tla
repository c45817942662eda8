------------------------------ MODULE MCAgent ------------------------------
(* Two clients and two requests at a time; two requests beside the monitor,  *)
(* and a late hook handler beside the one that OpenVPN waits for.            *)
EXTENDS Agent, TLC

Symmetry == Permutations(Threads) \cup Permutations(Hooks)
=============================================================================
