-------------------------- MODULE DeliveryContract --------------------------
(***************************************************************************)
(* What the parcel side promises the customer who orders a delivery,       *)
(* whatever requests, timers, rows and references it takes: an order that  *)
(* is on its way is not called off, and calling it off takes it away from  *)
(* every rider; it is settled only with money that was received, and stays *)
(* settled.  Whether and by whom it is served is left open, since staff    *)
(* may offer any order again.  An order on which two requests overlapped   *)
(* is void: nothing is promised of it.                                     *)
(***************************************************************************)
CONSTANTS
  Deliveries, Riders,
  Reported     \* the stages staff and riders may report

VARIABLE order   \* per delivery: how far it is, who may carry it, what it owes

Stages == {"none", "open", "gone", "calledOff", "void"}
Bills == {"none", "due", "failed", "paid"}

Nothing(at) == [at |-> at, with |-> {}, bill |-> "none", received |-> FALSE]

Init == order = [d \in Deliveries |-> Nothing("none")]

Exists(d) == order[d].at \notin {"none", "void"}
Becomes(d, o) == order' = [order EXCEPT ![d] = o]

Place(d, bill) ==
  /\ order[d].at = "none" /\ bill \in {"none", "due"}
  /\ Becomes(d, [Nothing("open") EXCEPT !.bill = bill])

\* A rider is asked, or takes the order, or does not want it.
Offer(d, x) == Exists(d) /\ Becomes(d, [order[d] EXCEPT !.with = @ \cup {x}])
Take(d, x) == Exists(d) /\ Becomes(d, [order[d] EXCEPT !.with = @ \cup {x}, !.at = "open"])
Decline(d, x) == Exists(d) /\ Becomes(d, [order[d] EXCEPT !.with = @ \ {x}])

\* Dispatched, again perhaps.
Serve(d) == Exists(d) /\ Becomes(d, [order[d] EXCEPT !.at = "open"])

Report(d, at) == Exists(d) /\ at \in Reported /\ Becomes(d, [order[d] EXCEPT !.at = at])

\* The parcel, and the cash for it.
HandOver(d) ==
  Exists(d) /\ "gone" \in Reported /\ Becomes(d, [order[d] EXCEPT !.at = "gone", !.received = TRUE])

CallOff(d) == order[d].at = "open" /\ Becomes(d, [order[d] EXCEPT !.at = "calledOff", !.with = {}])

Bill(d) == Exists(d) /\ order[d].bill = "none" /\ Becomes(d, [order[d] EXCEPT !.bill = "due"])

\* The provider has charged the customer.
Receive(d) == Exists(d) /\ Becomes(d, [order[d] EXCEPT !.received = TRUE])

Refuse(d) ==
  Exists(d) /\ order[d].bill \in {"due", "failed"} /\ Becomes(d, [order[d] EXCEPT !.bill = "failed"])

Settle(d) ==
  /\ Exists(d) /\ order[d].bill # "none" /\ order[d].received
  /\ Becomes(d, [order[d] EXCEPT !.bill = "paid"])

Void(d) == Becomes(d, Nothing("void"))

Next ==
  \E d \in Deliveries :
    \/ (\E bill \in Bills : Place(d, bill)) \/ Serve(d) \/ (\E at \in Stages : Report(d, at))
    \/ \E x \in Riders : Offer(d, x) \/ Take(d, x) \/ Decline(d, x)
    \/ HandOver(d) \/ CallOff(d) \/ Bill(d) \/ Receive(d) \/ Refuse(d) \/ Settle(d) \/ Void(d)

Spec == Init /\ [][Next]_order

-----------------------------------------------------------------------------

TypeOK ==
  order \in [Deliveries -> [at : Stages, with : SUBSET Riders, bill : Bills, received : BOOLEAN]]

\* What is settled has been received.
SettledIsReceived == \A d \in Deliveries : order[d].bill = "paid" => order[d].received
=============================================================================
