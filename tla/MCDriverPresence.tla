-------------------------- MODULE MCDriverPresence --------------------------
(* Model values for TLC. *)
EXTENDS DriverPresence, TLC

CONSTANTS c1, c2, k1, k2

Symmetry == Permutations(Conns) \cup Permutations(Calls)
=============================================================================
