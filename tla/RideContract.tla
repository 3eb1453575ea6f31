---------------------------- MODULE RideContract ----------------------------
(***************************************************************************)
(* What the ride service promises its passengers and drivers, whatever     *)
(* rows, offers, sweeps and queries it takes: a ride has one driver at a   *)
(* time, a driver one ride, another driver comes in only after the ride    *)
(* was given back to the pool, a started ride can only be completed, by    *)
(* the driver who has it, and what is over stays over.  A ride on which a  *)
(* write relied on an outdated read, or that staff forced to a status, is  *)
(* void: nothing is promised of it.                                        *)
(***************************************************************************)
CONSTANTS Trips, Drivers

VARIABLE ride   \* per trip: where it stands, and with whom

Stages == {"none", "waiting", "taken", "started", "completed", "calledOff", "void"}

Init == ride = [t \in Trips |-> [at |-> "none", by |-> {}]]

Move(t, at, by) == ride' = [ride EXCEPT ![t] = [at |-> at, by |-> by]]

Request(t) == ride[t].at = "none" /\ Move(t, "waiting", {})

\* d has no other ride.
Take(t, d) ==
  /\ ride[t].at = "waiting"
  /\ \A u \in Trips : ride[u].at \in {"taken", "started"} => d \notin ride[u].by
  /\ Move(t, "taken", {d})

GiveBack(t) == ride[t].at = "taken" /\ Move(t, "waiting", {})

Start(t) == ride[t].at = "taken" /\ Move(t, "started", ride[t].by)

Complete(t) == ride[t].at \in {"taken", "started"} /\ Move(t, "completed", ride[t].by)

CallOff(t) == ride[t].at \in {"waiting", "taken"} /\ Move(t, "calledOff", {})

Void(t) == Move(t, "void", {})

Next ==
  \E t \in Trips :
    \/ Request(t) \/ (\E d \in Drivers : Take(t, d)) \/ GiveBack(t)
    \/ Start(t) \/ Complete(t) \/ CallOff(t) \/ Void(t)

Spec == Init /\ [][Next]_ride

-----------------------------------------------------------------------------

TypeOK == ride \in [Trips -> [at : Stages, by : SUBSET Drivers]]

\* No driver has two rides under way.
OneRideEach ==
  \A t, u \in Trips :
    t # u /\ {ride[t].at, ride[u].at} \subseteq {"taken", "started"} =>
      ride[t].by \cap ride[u].by = {}
=============================================================================
