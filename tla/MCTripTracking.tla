---------------------------- MODULE MCTripTracking ----------------------------
(***************************************************************************)
(* The instance TLC checks: one driver, who may accept, release and accept *)
(* again, two handlers at a time, and two changes of the ride.             *)
(***************************************************************************)
EXTENDS TripTracking, TLC

CONSTANTS d1, h1, h2

MCDrivers == {d1}
MCHandlers == {h1, h2}
MCForced == {"IN_PROGRESS"}
MCSymmetry == Permutations(MCHandlers)

=============================================================================
