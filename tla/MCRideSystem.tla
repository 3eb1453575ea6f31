---------------------------- MODULE MCRideSystem ----------------------------
(* RideSystem and RidePromises on small instances: model values and their symmetry. *)
EXTENDS RidePromises, TLC

CONSTANTS t1, t2, d1, d2, p1, p2

Symmetry == Permutations(Drivers) \cup Permutations(Reqs)
=============================================================================
