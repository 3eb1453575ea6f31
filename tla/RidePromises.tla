---------------------------- MODULE RidePromises ----------------------------
(***************************************************************************)
(* What a comment of the ride code promises, stated as it stands and       *)
(* without the history variable RideSystem uses to set outdated writes     *)
(* apart: interleavings of RideSystem break it, and a run records how.     *)
(* The README lists further promises of comments that do not hold.         *)
(***************************************************************************)
EXTENDS RideSystem

\* ride-marketplace.ts:16-19, "claimRide flips the trip out of an open status
\* inside a single conditional update, so two drivers can never both get the
\* same passenger".
PassengerHasOneDriver ==
  \A t \in Trips : status[t] \in ActiveStatuses =>
    \A q, r \in RowsIn(t, {"ACCEPTED"}) : q = r
=============================================================================
