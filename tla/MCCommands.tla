----------------------------- MODULE MCCommands -----------------------------
(* Three runs of the encryption on one target; a watchdog that acts after    *)
(* two ticks of failed monitoring (one would not tell a start in time from a *)
(* late one); two forms of up to two names each with the same prefix, or of  *)
(* one name beside a restart of OpenVPN.                                     *)
EXTENDS Commands, TLC

Symmetry == Permutations(Loops)
=============================================================================
