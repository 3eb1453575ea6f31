-------------------------- MODULE MCDeliveryService --------------------------
(***************************************************************************)
(* DeliveryService with the sets TLC explores.  A behaviour is either      *)
(* about the riders of a delivery or about its payment, chosen at the      *)
(* start: the two meet only in the cash collected at the door.             *)
(***************************************************************************)
EXTENDS DeliveryService

CONSTANTS d1, x1, r1, r2, f1, f2, a1, a2

VARIABLE about

Riding == UNCHANGED payVars /\ \A c \in Callers : job'[c].method = "NONE"
Paying == UNCHANGED rowVars /\ \A c \in Callers : job'[c].rider = None

MCInit == Init /\ about \in {"riders", "payment"}

MCNext ==
  /\ Next
  /\ (about = "riders" => Riding) /\ (about = "payment" => Paying)
  /\ UNCHANGED about

MCSpec == MCInit /\ [][MCNext]_<<vars, about>> /\ Fairness
=============================================================================
