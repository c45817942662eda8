---------------------------- MODULE MCLifecycle ----------------------------
(* Lifecycle with two clients and two requests at a time.                  *)
EXTENDS Lifecycle, TLC
Symmetry == Permutations(Threads)
=============================================================================
