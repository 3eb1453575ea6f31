--------------------------- MODULE DeliveryService ---------------------------
(***************************************************************************)
(* The parcel side: modules/deliveries, the delivery part of               *)
(* modules/dispatch, the riders' switch, and the payment of a delivery     *)
(* (the Payment rows of modules/payments).                                 *)
(*                                                                         *)
(* Unlike a ride, a delivery is dispatched once, when it is created or     *)
(* when its timer fires, and again only by an operator; no offer expires   *)
(* by itself, and accept, reject and status changes test nothing.          *)
(*                                                                         *)
(* A single Prisma call, nested writes included, is one step; so is the    *)
(* transaction of a cancellation, which only writes.                       *)
(***************************************************************************)
EXTENDS Naturals, FiniteSets

CONSTANTS
  Deliveries,  \* deliveries that may be created
  Riders,      \* riders with a known position
  Rows,        \* BOUND: DeliveryAssignment rows ever created
  Refs,        \* BOUND: Paystack references ever made
  Actors,      \* BOUND: requests (webhook deliveries included) served at a time
  Patched,     \* BOUND: statuses a PATCH writes in this instance
  Chosen,      \* BOUND: payment methods customers choose in this instance
  Faults,      \* may queries fail and the process restart?
  None         \* no delivery, rider or reference

Statuses == {"REQUESTED", "ASSIGNING", "ASSIGNED", "PICKING_UP", "IN_TRANSIT", "ARRIVED",
             "DELIVERED", "CANCELLED", "FAILED", "DRAFT"}
Cancellable == {"DRAFT", "REQUESTED", "ASSIGNING", "ASSIGNED", "PICKING_UP"}
RowStatuses == {"OFFERED", "ACCEPTED", "REJECTED", "EXPIRED"}
\* WALLET and MTN_MOMO are not collected by this code; OTHER stands for them.
Methods == {"CASH", "PAYSTACK", "OTHER"}

ASSUME NoneAssumption == None \notin Deliveries \cup Riders \cup Rows \cup Refs \cup Actors
ASSUME ActorsAssumption == Actors \cap Deliveries = {}
ASSUME PatchedAssumption == Patched \subseteq Statuses
ASSUME ChosenAssumption == Chosen \subseteq Methods
ASSUME FaultsAssumption == Faults \in BOOLEAN

VARIABLES
  status,     \* Delivery.status, NONE before creation
  payment,    \* the delivery's Payment: method, status, providerRef
  row,        \* DeliveryAssignment
  rstat,      \* RiderProfile.status
  online,     \* RiderProfile.isOnline
  charge,     \* external: Paystack references, the delivery they are for, paid or not
  job,        \* requests in service, and for each delivery its own dispatch
  disturbed,  \* history: deliveries on which two requests overlapped
  handed,     \* history: deliveries that were reported as delivered
  lost        \* history: deliveries whose dispatch a failure or restart has lost

rowVars == <<row, rstat, online>>
payVars == <<payment, charge>>
histVars == <<disturbed, handed, lost>>
vars == <<status, payment, row, rstat, online, charge, job, disturbed, handed, lost>>

Callers == Actors \cup Deliveries
NoPayment == [method |-> "NONE", st |-> "NONE", ref |-> None]
NoRow == [delivery |-> None, rider |-> None, st |-> "NONE"]
NoCharge == [of |-> None, st |-> "none"]
NoJob == [pc |-> "idle", on |-> None, rider |-> None, rows |-> {}, method |-> "NONE", ref |-> None,
          seen |-> "none"]
JobPCs == {"idle", "created", "timer", "delivery", "riders", "insert", "assigning", "done",
           "collect", "cancel", "upsert", "checkout", "keep", "ask", "mark"}

PaymentRows == [method : Methods, st : {"PENDING", "PAID", "FAILED"}, ref : Refs \cup {None}]
AssignmentRows == [delivery : Deliveries, rider : Riders, st : RowStatuses]
Charges == [of : Deliveries, st : {"none", "pending", "success"}]
Jobs == [pc : JobPCs, on : Deliveries \cup {None}, rider : Riders \cup {None}, rows : SUBSET Rows,
         method : Methods \cup {"NONE"}, ref : Refs \cup {None}, seen : {"none", "pending", "success"}]

\* Every row has its type, or does not exist yet.
TypeOK ==
  /\ status \in [Deliveries -> Statuses \cup {"NONE"}]
  /\ payment \in [Deliveries -> PaymentRows \cup {NoPayment}]
  /\ row \in [Rows -> AssignmentRows \cup {NoRow}]
  /\ rstat \in [Riders -> {"ACTIVE", "OFFLINE", "ON_DELIVERY"}]
  /\ online \in [Riders -> BOOLEAN]
  /\ charge \in [Refs -> Charges \cup {NoCharge}]
  /\ job \in [Callers -> Jobs]
  /\ disturbed \in SUBSET Deliveries /\ handed \in SUBSET Deliveries /\ lost \in SUBSET Deliveries

Init ==
  /\ status = [d \in Deliveries |-> "NONE"]
  /\ payment = [d \in Deliveries |-> NoPayment]
  /\ row = [r \in Rows |-> NoRow]
  /\ rstat = [x \in Riders |-> "OFFLINE"]
  /\ online = [x \in Riders |-> FALSE]
  /\ charge = [f \in Refs |-> NoCharge]
  /\ job = [c \in Callers |-> NoJob]
  /\ disturbed = {} /\ handed = {} /\ lost = {}

At(c, pc) == job[c].pc = pc
Goto(c, j) == job' = [job EXCEPT ![c] = j]
Reply(a) == Goto(a, NoJob)

\* d is used while another caller is in the middle of something about it.
Touch(c, d) ==
  disturbed' = IF \E b \in Callers \ {c} : job[b].on = d /\ ~At(b, "timer")
                 THEN disturbed \cup {d} ELSE disturbed

\* A request about d, past its checks.
Begin(a, d, j) == At(a, "idle") /\ Goto(a, [j EXCEPT !.on = d]) /\ Touch(a, d)

-----------------------------------------------------------------------------
(* POST /deliveries, and the dispatch it fires and forgets *)

\* The insert, with a Payment when a method was chosen; the event comes next.
Create(a, d, method) ==
  /\ status[d] = "NONE"
  /\ status' = [status EXCEPT ![d] = "REQUESTED"]
  /\ payment' = IF method = "NONE" THEN payment
                ELSE [payment EXCEPT ![d] = [method |-> method, st |-> "PENDING", ref |-> None]]
  /\ Begin(a, d, [NoJob EXCEPT !.pc = "created"])
  /\ UNCHANGED <<rowVars, charge, handed, lost>>

\* Mutant: a scheduled delivery is left to nobody.
CreateReplyNoTimer(a) ==
  LET d == job[a].on IN
  /\ At(a, "created")
  /\ \E pc \in {"timer", "delivery"} :
       job' = [job EXCEPT ![a] = NoJob,
                          ![d] = IF pc = "timer" THEN NoJob ELSE [NoJob EXCEPT !.pc = pc, !.on = d]]
  /\ UNCHANGED <<status, rowVars, payVars, histVars>>

\* Now, or in a setTimeout until scheduledFor (at most 2^31 - 1 ms).
CreateReply(a) ==
  LET d == job[a].on IN
  /\ At(a, "created")
  /\ \E pc \in {"timer", "delivery"} :
       job' = [job EXCEPT ![a] = NoJob, ![d] = [NoJob EXCEPT !.pc = pc, !.on = d]]
  /\ UNCHANGED <<status, rowVars, payVars, histVars>>

TimerFires(d) ==
  /\ At(d, "timer") /\ Goto(d, [job[d] EXCEPT !.pc = "delivery"])
  /\ Touch(d, d)
  /\ UNCHANGED <<status, rowVars, payVars, handed, lost>>

\* dispatchDelivery (by d itself) and POST /dispatch/deliveries/:id/assign (by an
\* operator): the delivery exists, that is all that is asked of it.
ReadDelivery(c) ==
  /\ At(c, "delivery") /\ Goto(c, [job[c] EXCEPT !.pc = "riders"])
  /\ UNCHANGED <<status, rowVars, payVars, histVars>>

Assign(a, d) ==
  /\ status[d] # "NONE"
  /\ Begin(a, d, [NoJob EXCEPT !.pc = "riders"])
  /\ UNCHANGED <<status, rowVars, payVars, handed, lost>>

\* An operator is answered; the dispatch of a new delivery is over.
EndDispatch(c) == Goto(c, [NoJob EXCEPT !.pc = IF c \in Actors THEN "idle" ELSE "done"])

\* The best-ranked of the available riders, whoever that is.
PickRider(c) ==
  LET free == {x \in Riders : online[x] /\ rstat[x] = "ACTIVE"} IN
  /\ At(c, "riders")
  /\ IF free = {} THEN EndDispatch(c)
                  ELSE \E x \in free : Goto(c, [job[c] EXCEPT !.pc = "insert", !.rider = x])
  /\ UNCHANGED <<status, rowVars, payVars, histVars>>

\* A query of c rejects: the rest of what it was doing is not done.
Drop(c) ==
  /\ Goto(c, NoJob)
  /\ lost' = IF c \in Deliveries THEN lost \cup {c}
             ELSE IF At(c, "created") THEN lost \cup {job[c].on} ELSE lost

\* BOUND: without a row left the insert counts as a failed query.
InsertRow(c) ==
  /\ At(c, "insert")
  /\ \/ \E r \in Rows :
          /\ row[r] = NoRow
          /\ row' = [row EXCEPT ![r] = [delivery |-> job[c].on, rider |-> job[c].rider, st |-> "OFFERED"]]
          /\ Goto(c, [job[c] EXCEPT !.pc = "assigning"])
          /\ UNCHANGED lost
     \/ NoRow \notin {row[r] : r \in Rows} /\ Drop(c) /\ UNCHANGED row
  /\ UNCHANGED <<status, rstat, online, payVars, disturbed, handed>>

MarkAssigning(c) ==
  /\ At(c, "assigning")
  /\ status' = [status EXCEPT ![job[c].on] = "ASSIGNING"]
  /\ EndDispatch(c)
  /\ UNCHANGED <<rowVars, payVars, histVars>>

-----------------------------------------------------------------------------
(* Riders: accept, reject, availability *)

\* One nested update of row, delivery and rider: whatever they are, whoever asks.
Accept(r) ==
  LET d == row[r].delivery IN
  /\ row[r] # NoRow
  /\ row' = [row EXCEPT ![r].st = "ACCEPTED"]
  /\ status' = [status EXCEPT ![d] = "ASSIGNED"]
  /\ rstat' = [rstat EXCEPT ![row[r].rider] = "ON_DELIVERY"]
  /\ Touch(None, d)
  /\ UNCHANGED <<online, payVars, job, handed, lost>>

Reject(r) ==
  /\ row[r] # NoRow
  /\ row' = [row EXCEPT ![r].st = "REJECTED"]
  /\ Touch(None, row[r].delivery)
  /\ UNCHANGED <<status, rstat, online, payVars, job, handed, lost>>

SetAvailability(x, on) ==
  /\ online' = [online EXCEPT ![x] = on]
  /\ rstat' = [rstat EXCEPT ![x] = IF on THEN "ACTIVE" ELSE "OFFLINE"]
  /\ UNCHANGED <<status, row, payVars, job, histVars>>

-----------------------------------------------------------------------------
(* PATCH /deliveries/:id/status and POST /deliveries/:id/cancel *)

\* Any status over any other.
Patch(a, d, s) ==
  /\ status[d] # "NONE"
  /\ status' = [status EXCEPT ![d] = s]
  /\ IF s = "DELIVERED" THEN Begin(a, d, [NoJob EXCEPT !.pc = "collect"])
                        ELSE At(a, "idle") /\ Touch(None, d) /\ UNCHANGED job
  /\ handed' = IF s = "DELIVERED" THEN handed \cup {d} ELSE handed
  /\ UNCHANGED <<rowVars, payVars, lost>>

\* The rider has the cash.
Collect(a) ==
  LET d == job[a].on IN
  /\ At(a, "collect")
  /\ payment' = IF payment[d].method = "CASH" THEN [payment EXCEPT ![d].st = "PAID"] ELSE payment
  /\ Reply(a)
  /\ UNCHANGED <<status, rowVars, charge, histVars>>

\* Mutant: offers that nobody has answered yet are left alone.
CancelReadAccepted(a, d) ==
  /\ status[d] \in Cancellable
  /\ Begin(a, d, [NoJob EXCEPT !.pc = "cancel",
                               !.rows = {r \in Rows : row[r].delivery = d /\ row[r].st = "ACCEPTED"}])
  /\ UNCHANGED <<status, rowVars, payVars, handed, lost>>

\* By its customer, the rider of an open row, or staff.
CancelRead(a, d) ==
  /\ status[d] \in Cancellable
  /\ Begin(a, d, [NoJob EXCEPT !.pc = "cancel",
                               !.rows = {r \in Rows : row[r].delivery = d /\ row[r].st \in {"OFFERED", "ACCEPTED"}}])
  /\ UNCHANGED <<status, rowVars, payVars, handed, lost>>

\* Mutant: the riders are not released.
CancelTxRowsOnly(a) ==
  /\ At(a, "cancel")
  /\ row' = [r \in Rows |-> IF r \in job[a].rows THEN [row[r] EXCEPT !.st = "EXPIRED"] ELSE row[r]]
  /\ status' = [status EXCEPT ![job[a].on] = "CANCELLED"]
  /\ Reply(a)
  /\ UNCHANGED <<rstat, online, payVars, histVars>>

\* The transaction: the rows of the snapshot and their riders, whatever they are by now.
CancelTx(a) ==
  LET freed == {row[r].rider : r \in job[a].rows} IN
  /\ At(a, "cancel")
  /\ row' = [r \in Rows |-> IF r \in job[a].rows THEN [row[r] EXCEPT !.st = "EXPIRED"] ELSE row[r]]
  /\ rstat' = [x \in Riders |-> IF x \in freed THEN "ACTIVE" ELSE rstat[x]]
  /\ status' = [status EXCEPT ![job[a].on] = "CANCELLED"]
  /\ Reply(a)
  /\ UNCHANGED <<online, payVars, histVars>>

-----------------------------------------------------------------------------
(* POST /payments/initialize, /payments/verify/:reference, /payments/webhook *)

\* Mutant: a payment that is complete may be started again.
InitializeReadAny(a, d, method) ==
  /\ status[d] # "NONE"
  /\ Begin(a, d, [NoJob EXCEPT !.pc = "upsert", !.method = method])
  /\ UNCHANGED <<status, rowVars, payVars, handed, lost>>

InitializeRead(a, d, method) ==
  /\ status[d] # "NONE" /\ payment[d].st # "PAID"
  /\ Begin(a, d, [NoJob EXCEPT !.pc = "upsert", !.method = method])
  /\ UNCHANGED <<status, rowVars, payVars, handed, lost>>

\* A method, and for Paystack a new reference; the status of an existing row stays.
\* (Other methods get a reference no lookup by provider finds.)
Upsert(a) ==
  LET d == job[a].on
      kept == IF payment[d] = NoPayment THEN "PENDING" ELSE payment[d].st
      With(f) == payment' = [payment EXCEPT ![d] = [method |-> job[a].method, st |-> kept, ref |-> f]]
  IN
  /\ At(a, "upsert")
  /\ IF job[a].method = "PAYSTACK"
       THEN \E f \in Refs :
              /\ charge[f] = NoCharge /\ With(f)
              /\ charge' = [charge EXCEPT ![f] = [of |-> d, st |-> "none"]]
              /\ Goto(a, [job[a] EXCEPT !.pc = "checkout", !.ref = f])
       ELSE With(None) /\ Reply(a) /\ UNCHANGED charge
  /\ UNCHANGED <<status, rowVars, histVars>>

\* initializePaystackTransaction, then its reference once more, by the payment's id.
Checkout(a) ==
  /\ At(a, "checkout")
  /\ charge' = [charge EXCEPT ![job[a].ref].st = "pending"]
  /\ Goto(a, [job[a] EXCEPT !.pc = "keep"])
  /\ UNCHANGED <<status, payment, rowVars, histVars>>

KeepReference(a) ==
  /\ At(a, "keep")
  /\ payment' = [payment EXCEPT ![job[a].on].ref = job[a].ref]
  /\ Reply(a)
  /\ UNCHANGED <<status, charge, rowVars, histVars>>

\* External: the customer pays at the provider's page, or never does.
CustomerPays(f) ==
  /\ charge[f].st = "pending" /\ charge' = [charge EXCEPT ![f].st = "success"]
  /\ UNCHANGED <<status, payment, rowVars, job, histVars>>

\* markPaystackPayment: the payment that has this reference now (webhooks and
\* verifications of older ones find none).
ConfirmRead(a, d) ==
  /\ payment[d].method = "PAYSTACK" /\ payment[d].ref # None
  /\ Begin(a, d, [NoJob EXCEPT !.pc = "ask", !.ref = payment[d].ref])
  /\ UNCHANGED <<status, rowVars, payVars, handed, lost>>

\* verifyPaystackTransaction, which throws when there is no such transaction yet.
ConfirmAsk(a) ==
  LET seen == charge[job[a].ref].st IN
  /\ At(a, "ask")
  /\ Goto(a, IF seen = "none" THEN NoJob ELSE [job[a] EXCEPT !.pc = "mark", !.seen = seen])
  /\ UNCHANGED <<status, rowVars, payVars, histVars>>

\* Mutant: that the transaction exists is taken for its success.
ConfirmMarkAny(a) ==
  /\ At(a, "mark")
  /\ payment' = [payment EXCEPT ![job[a].on].st = "PAID"]
  /\ Reply(a)
  /\ UNCHANGED <<status, rowVars, charge, histVars>>

\* By id, whatever the payment is by now.
ConfirmMark(a) ==
  /\ At(a, "mark")
  /\ payment' = [payment EXCEPT ![job[a].on].st = IF job[a].seen = "success" THEN "PAID" ELSE "FAILED"]
  /\ Reply(a)
  /\ UNCHANGED <<status, rowVars, charge, histVars>>

-----------------------------------------------------------------------------

\* Deliveries created, and not yet dispatched.
Undispatched == {d \in Deliveries : status[d] # "NONE" /\ ~At(d, "done")}

Fails(c) ==
  /\ Faults /\ job[c].pc \notin {"idle", "timer", "done"} /\ Drop(c)
  /\ UNCHANGED <<status, rowVars, payVars, disturbed, handed>>

\* A restart: requests, dispatches and timers are gone.
Crash ==
  /\ Faults
  /\ job' = [c \in Callers |-> IF c \in Deliveries /\ At(c, "done") THEN job[c] ELSE NoJob]
  /\ lost' = lost \cup Undispatched
  /\ UNCHANGED <<status, rowVars, payVars, disturbed, handed>>

Dispatching(c) == ReadDelivery(c) \/ PickRider(c) \/ InsertRow(c) \/ MarkAssigning(c)

Requests(a) ==
  \/ \E d \in Deliveries :
       \/ \E m \in Chosen \cup {"NONE"} : Create(a, d, m)
       \/ Assign(a, d) \/ CancelRead(a, d) \/ ConfirmRead(a, d)
       \/ \E s \in Patched : Patch(a, d, s)
       \/ \E m \in Chosen : InitializeRead(a, d, m)
  \/ CreateReply(a) \/ Dispatching(a) \/ Collect(a) \/ CancelTx(a)
  \/ Upsert(a) \/ Checkout(a) \/ KeepReference(a) \/ ConfirmAsk(a) \/ ConfirmMark(a)

RiderSteps ==
  \/ \E r \in Rows : Accept(r) \/ Reject(r)
  \/ \E x \in Riders, on \in BOOLEAN : SetAvailability(x, on)

Next ==
  \/ \E a \in Actors : Requests(a)
  \/ \E d \in Deliveries : TimerFires(d) \/ Dispatching(d)
  \/ RiderSteps
  \/ \E f \in Refs : CustomerPays(f)
  \/ \E c \in Callers : Fails(c)
  \/ Crash

Spec == Init /\ [][Next]_vars

\* Settled queries resume their handlers and a timer fires; nobody has to do anything.
Fairness ==
  /\ \A a \in Actors : WF_vars(CreateReply(a))
  /\ \A d \in Deliveries : WF_vars(TimerFires(d) \/ Dispatching(d))

FairSpec == Spec /\ Fairness

-----------------------------------------------------------------------------

\* "Release the rider ... so they can take new jobs" (cancelDelivery): a rider is
\* ON_DELIVERY only for an accepted job, or one that was rejected after it was accepted.
BusyRiderHasJob ==
  \A x \in Riders : rstat[x] = "ON_DELIVERY" =>
    \E r \in Rows : row[r].rider = x /\ row[r].st \in {"ACCEPTED", "REJECTED"}

\* "... and expire any open offers" (cancelDelivery): a cancellation that nothing
\* overlapped leaves no row of the delivery open.
CancelClosesRows ==
  [][\A a \in Actors : CancelTx(a) /\ job[a].on \notin disturbed =>
       \A r \in Rows : row'[r].delivery = job[a].on =>
         row'[r].st \notin {"OFFERED", "ACCEPTED"}]_vars

\* Whatever is confirmed, retried or started again: a delivery is PAID only if it was
\* handed over or Paystack has charged the customer for it (markPaystackPayment).
PaidIsEarned ==
  \A d \in Deliveries : payment[d].st = "PAID" =>
    d \in handed \/ \E f \in Refs : charge[f] = [of |-> d, st |-> "success"]

\* A delivery once PAID is never unpaid again by requests that follow each other.
PaidStays ==
  [][\A d \in Deliveries \ disturbed : payment[d].st = "PAID" => payment'[d].st = "PAID"]_vars

\* Every delivery is dispatched, now or by its timer, unless a failure or a restart
\* has lost its dispatch (POST /deliveries).
DispatchIsTried ==
  \A d \in Deliveries : status[d] # "NONE" ~> (At(d, "done") \/ d \in lost)

\* How far a delivery is: what CANCELLABLE_STATUSES lists may still be called off.
Stage(st) ==
  CASE st = "NONE" -> "none"
    [] st \in Cancellable -> "open"
    [] st = "CANCELLED" -> "calledOff"
    [] OTHER -> "gone"

Billed(st) ==
  CASE st = "NONE" -> "none" [] st = "PENDING" -> "due" [] st = "FAILED" -> "failed" [] st = "PAID" -> "paid"

Asked(d) == {row[r].rider : r \in {r \in Rows : row[r].delivery = d /\ row[r].st \in {"OFFERED", "ACCEPTED"}}}
Received(d) == d \in handed \/ \E f \in Refs : charge[f] = [of |-> d, st |-> "success"]

\* Every delivery as DeliveryContract sees it.
Order(d) == [at |-> Stage(status[d]), with |-> Asked(d), bill |-> Billed(payment[d].st), received |-> Received(d)]
Voided == [at |-> "void", with |-> {}, bill |-> "none", received |-> FALSE]
standing == [d \in Deliveries |-> IF d \in disturbed THEN Voided ELSE Order(d)]

\* The handlers keep the contract of a delivery on which no two of them overlap, although each
\* writes what it read some awaits ago and none names the status it expects: one that is on its
\* way is not cancelled ("Delivery can no longer be cancelled", cancelDelivery), one that is
\* cancelled has no rider, and money received is not forgotten.
Contract == INSTANCE DeliveryContract WITH order <- standing, Reported <- {Stage(s) : s \in Patched}
KeepsDeliveryContract == Contract!Spec
=============================================================================
