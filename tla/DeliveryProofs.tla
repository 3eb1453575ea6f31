---------------------------- MODULE DeliveryProofs ----------------------------
(***************************************************************************)
(* DeliveryService, for any deliveries, riders, rows and references: its   *)
(* types; a delivery is paid only for cash handed over or a charge that    *)
(* succeeded, and stays paid; a busy rider has a job; a cancellation       *)
(* closes what was open; and it keeps DeliveryContract.                    *)
(***************************************************************************)
EXTENDS DeliveryService, TLAPS

\* What a request in service has found or made stays there while it is served.
JobFits(j, rows, payments, charges) ==
  /\ j.pc \notin {"idle", "done"} => j.on \in Deliveries
  /\ j.pc = "insert" => j.rider \in Riders
  /\ j.pc = "upsert" => j.method \in Methods
  /\ j.pc \in {"checkout", "keep", "ask", "mark"} => payments[j.on] # NoPayment /\ j.ref \in Refs
  /\ j.pc = "checkout" => charges[j.ref] # NoCharge
  /\ \A r \in j.rows : rows[r] # NoRow

Tables ==
  /\ status \in [Deliveries -> Statuses \cup {"NONE"}]
  /\ payment \in [Deliveries -> PaymentRows \cup {NoPayment}]
  /\ row \in [Rows -> AssignmentRows \cup {NoRow}]
  /\ rstat \in [Riders -> {"ACTIVE", "OFFLINE", "ON_DELIVERY"}]
  /\ online \in [Riders -> BOOLEAN]
  /\ charge \in [Refs -> Charges \cup {NoCharge}]
  /\ disturbed \in SUBSET Deliveries /\ handed \in SUBSET Deliveries /\ lost \in SUBSET Deliveries

TypeInv ==
  /\ Tables
  /\ job \in [Callers -> Jobs]
  /\ \A c \in Callers : JobFits(job[c], row, payment, charge)

\* No step deletes a row.
Kept ==
  /\ \A r \in Rows : row[r] # NoRow => row'[r] # NoRow
  /\ \A d \in Deliveries : payment[d] # NoPayment => payment'[d] # NoPayment
  /\ \A f \in Refs : charge[f] # NoCharge => charge'[f] # NoCharge

\* The rows that do not exist are none of the tables'.
LEMMA Absent == NoPayment \notin PaymentRows /\ NoRow \notin AssignmentRows /\ NoCharge \notin Charges
BY NoneAssumption DEF NoPayment, PaymentRows, Methods, NoRow, AssignmentRows, NoCharge, Charges, RowStatuses

\* A request that is over, and a dispatch that is done, fit any tables.
LEMMA IdleFits ==
  ASSUME NEW rows, NEW payments, NEW charges, NEW pc \in {"idle", "done"}
  PROVE  [NoJob EXCEPT !.pc = pc] \in Jobs /\ JobFits([NoJob EXCEPT !.pc = pc], rows, payments, charges)
BY DEF NoJob, Jobs, JobPCs, JobFits

LEMMA NoJobFits ==
  ASSUME NEW rows, NEW payments, NEW charges
  PROVE  NoJob \in Jobs /\ JobFits(NoJob, rows, payments, charges)
BY DEF NoJob, Jobs, JobPCs, JobFits

\* A job that fitted still does when no row was deleted.
LEMMA StillFits ==
  ASSUME TypeInv, Kept, NEW c \in Callers
  PROVE  JobFits(job[c], row', payment', charge')
<1>1. job[c] \in Jobs /\ JobFits(job[c], row, payment, charge)
  BY DEF TypeInv
<1>2. job[c].rows \in SUBSET Rows
  BY <1>1 DEF Jobs
<1>3. job[c].pc \in {"checkout", "keep", "ask", "mark"} => job[c].on \in Deliveries
  BY <1>1 DEF JobFits
<1> QED BY <1>1, <1>2, <1>3 DEF JobFits, Kept

\* A step that moves one job and keeps the tables.
LEMMA OneMoves ==
  ASSUME TypeInv, Tables', Kept, NEW c \in Callers, NEW j \in Jobs,
         Goto(c, j), JobFits(j, row', payment', charge')
  PROVE  TypeInv'
<1>1. job' \in [Callers -> Jobs] /\ \A b \in Callers : job'[b] = IF b = c THEN j ELSE job[b]
  BY DEF Goto, TypeInv
<1>2. \A b \in Callers : JobFits(job'[b], row', payment', charge')
  BY <1>1, StillFits
<1> QED BY <1>1, <1>2 DEF TypeInv

LEMMA NoneMoves ==
  ASSUME TypeInv, Tables', Kept, UNCHANGED job
  PROVE  TypeInv'
BY StillFits DEF TypeInv

\* What is known of a job by where it stands.
LEMMA JobFacts ==
  ASSUME TypeInv, NEW c \in Callers
  PROVE  /\ job[c] \in Jobs /\ job[c].rows \in SUBSET Rows
         /\ job[c].pc \notin {"idle", "done"} => job[c].on \in Deliveries
         /\ job[c].pc = "insert" => job[c].rider \in Riders
         /\ job[c].pc = "upsert" => job[c].method \in Methods
         /\ job[c].pc \in {"checkout", "keep", "ask", "mark"} =>
              payment[job[c].on] # NoPayment /\ job[c].ref \in Refs
         /\ job[c].pc = "checkout" => charge[job[c].ref] # NoCharge
         /\ \A r \in job[c].rows : row[r] # NoRow
<1>1. job[c] \in Jobs /\ JobFits(job[c], row, payment, charge)
  BY DEF TypeInv
<1> QED BY <1>1 DEF Jobs, JobFits

\* Begin's job, made of a job that would fit with d.
LEMMA Begins ==
  ASSUME TypeInv, NEW a \in Actors, NEW d \in Deliveries, NEW j \in Jobs, Begin(a, d, j)
  PROVE  /\ Goto(a, [j EXCEPT !.on = d]) /\ [j EXCEPT !.on = d] \in Jobs
         /\ disturbed' \in SUBSET Deliveries
BY DEF Begin, Touch, TypeInv, Tables, Jobs

LEMMA DispatchTyped ==
  ASSUME TypeInv, NEW c \in Callers, Dispatching(c)
  PROVE  TypeInv'
<1> USE DEF At, rowVars, payVars, histVars
<1>1. CASE ReadDelivery(c)
  <2> DEFINE j == [job[c] EXCEPT !.pc = "riders"]
  <2>1. j \in Jobs /\ JobFits(j, row, payment, charge)
    BY <1>1, JobFacts DEF ReadDelivery, Jobs, JobPCs, JobFits
  <2>2. Tables' /\ Kept /\ Goto(c, j)
    BY <1>1 DEF ReadDelivery, TypeInv, Tables, Kept
  <2> HIDE DEF j
  <2> QED BY <1>1, <2>1, <2>2, OneMoves DEF ReadDelivery
<1>2. CASE PickRider(c)
  <2>1. PICK j \in Jobs : Goto(c, j) /\ JobFits(j, row, payment, charge)
    <3>1. CASE EndDispatch(c)
      BY <3>1, IdleFits DEF EndDispatch
    <3>2. CASE \E x \in Riders : Goto(c, [job[c] EXCEPT !.pc = "insert", !.rider = x])
      <4>1. PICK x \in Riders : Goto(c, [job[c] EXCEPT !.pc = "insert", !.rider = x])
        BY <3>2
      <4> DEFINE j == [job[c] EXCEPT !.pc = "insert", !.rider = x]
      <4>2. j \in Jobs /\ JobFits(j, row, payment, charge)
        BY <1>2, JobFacts DEF PickRider, Jobs, JobPCs, JobFits
      <4> HIDE DEF j
      <4> QED BY <4>1, <4>2 DEF j
    <3> QED BY <1>2, <3>1, <3>2 DEF PickRider
  <2>2. Tables' /\ Kept
    BY <1>2 DEF PickRider, TypeInv, Tables, Kept
  <2> QED BY <1>2, <2>1, <2>2, OneMoves DEF PickRider
<1>3. CASE InsertRow(c)
  <2>1. Tables' /\ Kept
    BY <1>3, JobFacts DEF InsertRow, Drop, TypeInv, Tables, Kept, AssignmentRows, RowStatuses, Callers
  <2>2. CASE Drop(c)
    BY <2>1, <2>2, NoJobFits, OneMoves DEF Drop
  <2>3. CASE Goto(c, [job[c] EXCEPT !.pc = "assigning"])
    <3> DEFINE j == [job[c] EXCEPT !.pc = "assigning"]
    <3>1. j \in Jobs /\ JobFits(j, row', payment', charge')
      BY <1>3, <2>1, JobFacts DEF InsertRow, Jobs, JobPCs, JobFits, Kept
    <3>2. Goto(c, j)
      BY <2>3
    <3> HIDE DEF j
    <3> QED BY <2>1, <3>1, <3>2, OneMoves
  <2> QED BY <1>3, <2>2, <2>3 DEF InsertRow
<1>4. CASE MarkAssigning(c)
  <2>1. Tables' /\ Kept
    BY <1>4, JobFacts DEF MarkAssigning, TypeInv, Tables, Kept, Statuses
  <2> QED BY <1>4, <2>1, IdleFits, OneMoves DEF MarkAssigning, EndDispatch
<1> QED BY <1>1, <1>2, <1>3, <1>4 DEF Dispatching

\* The first step of every request.
LEMMA BeginTyped ==
  ASSUME TypeInv, NEW a \in Actors, NEW d \in Deliveries
  PROVE  /\ \A m \in Chosen \cup {"NONE"} : Create(a, d, m) => TypeInv'
         /\ Assign(a, d) => TypeInv'
         /\ CancelRead(a, d) => TypeInv'
         /\ ConfirmRead(a, d) => TypeInv'
         /\ \A m \in Chosen : InitializeRead(a, d, m) => TypeInv'
         /\ \A s \in Patched : Patch(a, d, s) => TypeInv'
<1> USE DEF rowVars, payVars, histVars
<1>1. ASSUME NEW m \in Chosen \cup {"NONE"}, Create(a, d, m) PROVE TypeInv'
  <2> DEFINE j == [NoJob EXCEPT !.pc = "created"]
  <2> DEFINE k == [j EXCEPT !.on = d]
  <2>1. j \in Jobs /\ Begin(a, d, j)
    BY <1>1 DEF Create, NoJob, Jobs, JobPCs
  <2>2. k \in Jobs /\ Goto(a, k) /\ disturbed' \in SUBSET Deliveries
    BY <2>1, Begins
  <2>3. Tables' /\ Kept
    <3>1. payment' \in [Deliveries -> PaymentRows \cup {NoPayment}]
      BY <1>1, ChosenAssumption DEF Create, TypeInv, Tables, PaymentRows
    <3>2. Kept
      BY <1>1, ChosenAssumption DEF Create, TypeInv, Tables, Kept, Methods, NoPayment
    <3> QED BY <1>1, <2>2, <3>1, <3>2 DEF Create, TypeInv, Tables, Statuses
  <2>4. JobFits(k, row', payment', charge')
    BY <1>1, <2>3, Absent DEF Create, JobFits, NoJob, Tables, Kept, NoRow, NoPayment
  <2> HIDE DEF j, k
  <2> QED BY <2>2, <2>3, <2>4, OneMoves DEF Callers
<1>2. ASSUME TRUE, Assign(a, d) PROVE TypeInv'
  <2> DEFINE j == [NoJob EXCEPT !.pc = "riders"]
  <2> DEFINE k == [j EXCEPT !.on = d]
  <2>1. j \in Jobs /\ Begin(a, d, j)
    BY <1>2 DEF Assign, NoJob, Jobs, JobPCs
  <2>2. k \in Jobs /\ Goto(a, k) /\ disturbed' \in SUBSET Deliveries
    BY <2>1, Begins
  <2>3. Tables' /\ Kept
    BY <1>2, <2>2, Absent DEF Assign, TypeInv, Tables, Kept
  <2>4. JobFits(k, row', payment', charge')
    BY <1>2, <2>3, Absent DEF Assign, JobFits, NoJob, Tables, Kept, NoRow, NoPayment
  <2> HIDE DEF j, k
  <2> QED BY <2>2, <2>3, <2>4, OneMoves DEF Callers
<1>3. ASSUME TRUE, CancelRead(a, d) PROVE TypeInv'
  <2> DEFINE j == [NoJob EXCEPT !.pc = "cancel", !.rows = {r \in Rows : row[r].delivery = d /\ row[r].st \in {"OFFERED", "ACCEPTED"}}]
  <2> DEFINE k == [j EXCEPT !.on = d]
  <2>1. j \in Jobs /\ Begin(a, d, j)
    BY <1>3 DEF CancelRead, NoJob, Jobs, JobPCs
  <2>2. k \in Jobs /\ Goto(a, k) /\ disturbed' \in SUBSET Deliveries
    BY <2>1, Begins
  <2>3. Tables' /\ Kept
    BY <1>3, <2>2, Absent DEF CancelRead, TypeInv, Tables, Kept
  <2>4. JobFits(k, row', payment', charge')
    BY <1>3, <2>3, Absent DEF CancelRead, JobFits, NoJob, Tables, Kept, NoRow, NoPayment
  <2> HIDE DEF j, k
  <2> QED BY <2>2, <2>3, <2>4, OneMoves DEF Callers
<1>4. ASSUME TRUE, ConfirmRead(a, d) PROVE TypeInv'
  <2> DEFINE j == [NoJob EXCEPT !.pc = "ask", !.ref = payment[d].ref]
  <2> DEFINE k == [j EXCEPT !.on = d]
  <2>0. payment[d].ref \in Refs
    BY <1>4 DEF ConfirmRead, TypeInv, Tables, PaymentRows, NoPayment
  <2>1. j \in Jobs /\ Begin(a, d, j)
    BY <1>4, <2>0 DEF ConfirmRead, NoJob, Jobs, JobPCs
  <2>2. k \in Jobs /\ Goto(a, k) /\ disturbed' \in SUBSET Deliveries
    BY <2>1, Begins
  <2>3. Tables' /\ Kept
    BY <1>4, <2>2, Absent DEF ConfirmRead, TypeInv, Tables, Kept
  <2>4. JobFits(k, row', payment', charge')
    BY <1>4, <2>0, <2>3 DEF ConfirmRead, JobFits, NoJob, NoPayment
  <2> HIDE DEF j, k
  <2> QED BY <2>2, <2>3, <2>4, OneMoves DEF Callers
<1>5. ASSUME NEW m \in Chosen, InitializeRead(a, d, m) PROVE TypeInv'
  <2> DEFINE j == [NoJob EXCEPT !.pc = "upsert", !.method = m]
  <2> DEFINE k == [j EXCEPT !.on = d]
  <2>1. j \in Jobs /\ Begin(a, d, j)
    BY <1>5, ChosenAssumption DEF InitializeRead, NoJob, Jobs, JobPCs
  <2>2. k \in Jobs /\ Goto(a, k) /\ disturbed' \in SUBSET Deliveries
    BY <2>1, Begins
  <2>3. Tables' /\ Kept
    BY <1>5, <2>2, Absent DEF InitializeRead, TypeInv, Tables, Kept
  <2>4. JobFits(k, row', payment', charge')
    BY <1>5, <2>3, Absent, ChosenAssumption DEF InitializeRead, JobFits, NoJob, Tables, Kept, NoRow, NoPayment
  <2> HIDE DEF j, k
  <2> QED BY <2>2, <2>3, <2>4, OneMoves DEF Callers
<1>6. ASSUME NEW s \in Patched, Patch(a, d, s) PROVE TypeInv'
  <2> DEFINE j == [NoJob EXCEPT !.pc = "collect"]
  <2> DEFINE k == [j EXCEPT !.on = d]
  <2>1. Tables' /\ Kept
    BY <1>6, PatchedAssumption DEF Patch, Begin, Touch, TypeInv, Tables, Kept
  <2>2. CASE s = "DELIVERED"
    <3>1. j \in Jobs /\ Begin(a, d, j)
      BY <1>6, <2>2 DEF Patch, NoJob, Jobs, JobPCs
    <3>2. k \in Jobs /\ Goto(a, k)
      BY <3>1, Begins
    <3>3. JobFits(k, row', payment', charge')
      BY DEF JobFits, NoJob
    <3> HIDE DEF j, k
    <3> QED BY <2>1, <3>2, <3>3, OneMoves DEF Callers
  <2>3. CASE s # "DELIVERED"
    BY <1>6, <2>1, <2>3, NoneMoves DEF Patch
  <2> QED BY <2>2, <2>3
<1> QED BY <1>1, <1>2, <1>3, <1>4, <1>5, <1>6

\* The later steps of requests other than dispatches.
LEMMA RequestTyped ==
  ASSUME TypeInv, NEW a \in Actors,
         CreateReply(a) \/ Collect(a) \/ CancelTx(a) \/ Upsert(a) \/ Checkout(a) \/ KeepReference(a)
           \/ ConfirmAsk(a) \/ ConfirmMark(a)
  PROVE  TypeInv'
<1> USE DEF At, Reply, rowVars, payVars, histVars
<1>c. a \in Callers
  BY DEF Callers
<1>1. CASE CreateReply(a)
  <2> DEFINE d == job[a].on
  <2>1. d \in Deliveries /\ d # a /\ d \in Callers
    BY <1>1, <1>c, JobFacts, ActorsAssumption DEF CreateReply, Callers
  <2>2. PICK pc \in {"timer", "delivery"} :
          job' = [job EXCEPT ![a] = NoJob, ![d] = [NoJob EXCEPT !.pc = pc, !.on = d]]
    BY <1>1 DEF CreateReply
  <2>3. Tables' /\ Kept
    BY <1>1 DEF CreateReply, TypeInv, Tables, Kept
  <2> DEFINE j == [NoJob EXCEPT !.pc = pc, !.on = d]
  <2>4. j \in Jobs /\ JobFits(j, row', payment', charge')
    BY <2>1 DEF NoJob, Jobs, JobPCs, JobFits
  <2>5. \A b \in Callers : job'[b] = IF b = a THEN NoJob ELSE IF b = d THEN j ELSE job[b]
    BY <2>1, <2>2 DEF TypeInv
  <2>6. \A b \in Callers : job'[b] \in Jobs /\ JobFits(job'[b], row', payment', charge')
    <3> HIDE DEF j
    <3> QED BY <2>3, <2>4, <2>5, NoJobFits, StillFits, JobFacts
  <2>7. job' \in [Callers -> Jobs]
    <3>1. job' = [b \in Callers |-> job'[b]]
      BY <2>2 DEF TypeInv
    <3> QED BY <2>6, <3>1
  <2> QED BY <2>3, <2>6, <2>7 DEF TypeInv
<1>2. CASE Collect(a)
  <2>1. Tables' /\ Kept
    BY <1>2, <1>c, JobFacts DEF Collect, TypeInv, Tables, Kept, PaymentRows, NoPayment
  <2> QED BY <1>2, <1>c, <2>1, NoJobFits, OneMoves DEF Collect
<1>3. CASE CancelTx(a)
  <2>1. row' \in [Rows -> AssignmentRows \cup {NoRow}] /\ \A r \in Rows : row[r] # NoRow => row'[r] # NoRow
    BY <1>3, <1>c, JobFacts, Absent DEF CancelTx, TypeInv, Tables, AssignmentRows, RowStatuses
  <2>2. Tables' /\ Kept
    BY <1>3, <1>c, <2>1, JobFacts DEF CancelTx, TypeInv, Tables, Kept, Statuses
  <2> QED BY <1>3, <1>c, <2>2, NoJobFits, OneMoves DEF CancelTx
<1>4. CASE Upsert(a)
  <2> DEFINE d == job[a].on
  <2>1. d \in Deliveries /\ job[a].method \in Methods /\ job[a] \in Jobs
    BY <1>4, <1>c, JobFacts DEF Upsert
  <2>2. ASSUME NEW f \in Refs \cup {None}, NEW st \in {"PENDING", "PAID", "FAILED"},
               payment' = [payment EXCEPT ![d] = [method |-> job[a].method, st |-> st, ref |-> f]]
        PROVE  /\ payment' \in [Deliveries -> PaymentRows \cup {NoPayment}]
               /\ payment'[d] # NoPayment
               /\ \A e \in Deliveries : payment[e] # NoPayment => payment'[e] # NoPayment
    BY <2>1, <2>2, Absent DEF TypeInv, Tables, PaymentRows
  <2>3. (IF payment[d] = NoPayment THEN "PENDING" ELSE payment[d].st) \in {"PENDING", "PAID", "FAILED"}
    BY <2>1 DEF TypeInv, Tables, PaymentRows
  <2>4. CASE job[a].method = "PAYSTACK"
    <3>1. PICK f \in Refs :
            /\ charge[f] = NoCharge
            /\ charge' = [charge EXCEPT ![f] = [of |-> d, st |-> "none"]]
            /\ payment' = [payment EXCEPT ![d] = [method |-> job[a].method,
                             st |-> IF payment[d] = NoPayment THEN "PENDING" ELSE payment[d].st, ref |-> f]]
            /\ Goto(a, [job[a] EXCEPT !.pc = "checkout", !.ref = f])
      BY <1>4, <2>4 DEF Upsert
    <3> DEFINE j == [job[a] EXCEPT !.pc = "checkout", !.ref = f]
    <3>2. charge' \in [Refs -> Charges \cup {NoCharge}] /\ charge'[f] # NoCharge
          /\ \A g \in Refs : charge[g] # NoCharge => charge'[g] # NoCharge
      BY <2>1, <3>1, Absent DEF TypeInv, Tables, Charges
    <3>3. Tables' /\ Kept /\ payment'[d] # NoPayment
      BY <1>4, <2>2, <2>3, <3>1, <3>2 DEF Upsert, TypeInv, Tables, Kept
    <3>4. j \in Jobs /\ JobFits(j, row', payment', charge')
      BY <1>4, <1>c, <2>1, <3>2, <3>3, JobFacts DEF Upsert, Jobs, JobPCs, JobFits, Kept
    <3> HIDE DEF j
    <3> QED BY <1>c, <3>1, <3>3, <3>4, OneMoves DEF j
  <2>5. CASE job[a].method # "PAYSTACK"
    <3>1. Tables' /\ Kept
      BY <1>4, <2>2, <2>3, <2>5 DEF Upsert, TypeInv, Tables, Kept
    <3> QED BY <1>4, <1>c, <2>5, <3>1, NoJobFits, OneMoves DEF Upsert
  <2> QED BY <2>4, <2>5
<1>5. CASE Checkout(a)
  <2> DEFINE j == [job[a] EXCEPT !.pc = "keep"]
  <2>1. Tables' /\ Kept
    BY <1>5, <1>c, JobFacts, Absent DEF Checkout, TypeInv, Tables, Kept, Charges
  <2>2. j \in Jobs /\ JobFits(j, row', payment', charge')
    BY <1>5, <1>c, <2>1, JobFacts DEF Checkout, Jobs, JobPCs, JobFits, Kept
  <2>3. Goto(a, j)
    BY <1>5 DEF Checkout
  <2> HIDE DEF j
  <2> QED BY <1>c, <2>1, <2>2, <2>3, OneMoves
<1>6. CASE KeepReference(a)
  <2>1. Tables' /\ Kept
    BY <1>6, <1>c, JobFacts, Absent DEF KeepReference, TypeInv, Tables, Kept, PaymentRows
  <2> QED BY <1>6, <1>c, <2>1, NoJobFits, OneMoves DEF KeepReference
<1>7. CASE ConfirmAsk(a)
  <2> DEFINE j == [job[a] EXCEPT !.pc = "mark", !.seen = charge[job[a].ref].st]
  <2>1. Tables' /\ Kept
    BY <1>7 DEF ConfirmAsk, TypeInv, Tables, Kept
  <2>2. CASE Goto(a, NoJob)
    BY <1>c, <2>1, <2>2, NoJobFits, OneMoves
  <2>3. CASE Goto(a, j)
    <3>1. charge[job[a].ref].st \in {"none", "pending", "success"}
      BY <1>7, <1>c, JobFacts DEF ConfirmAsk, TypeInv, Tables, Charges, NoCharge
    <3>2. j \in Jobs /\ JobFits(j, row', payment', charge')
      BY <1>7, <1>c, <2>1, <3>1, JobFacts DEF ConfirmAsk, Jobs, JobPCs, JobFits, Kept
    <3> HIDE DEF j
    <3> QED BY <1>c, <2>1, <2>3, <3>2, OneMoves
  <2> QED BY <1>7, <2>2, <2>3 DEF ConfirmAsk
<1>8. CASE ConfirmMark(a)
  <2>1. Tables' /\ Kept
    BY <1>8, <1>c, JobFacts, Absent DEF ConfirmMark, TypeInv, Tables, Kept, PaymentRows
  <2> QED BY <1>8, <1>c, <2>1, NoJobFits, OneMoves DEF ConfirmMark
<1> QED BY <1>1, <1>2, <1>3, <1>4, <1>5, <1>6, <1>7, <1>8

\* Riders, customers, timers, failures and restarts.
LEMMA OthersTyped ==
  ASSUME TypeInv,
         RiderSteps \/ (\E d \in Deliveries : TimerFires(d)) \/ (\E f \in Refs : CustomerPays(f))
           \/ (\E c \in Callers : Fails(c)) \/ Crash
  PROVE  TypeInv'
<1> USE DEF At, rowVars, payVars, histVars
<1>1. ASSUME NEW r \in Rows, Accept(r) PROVE TypeInv'
  <2>1. row[r] \in AssignmentRows
    BY <1>1 DEF Accept, TypeInv, Tables
  <2>2. Tables' /\ Kept
    BY <1>1, <2>1, Absent DEF Accept, Touch, TypeInv, Tables, Kept, AssignmentRows, RowStatuses, Statuses
  <2> QED BY <1>1, <2>2, NoneMoves DEF Accept
<1>2. ASSUME NEW r \in Rows, Reject(r) PROVE TypeInv'
  <2>1. row[r] \in AssignmentRows
    BY <1>2 DEF Reject, TypeInv, Tables
  <2>2. Tables' /\ Kept
    BY <1>2, <2>1, Absent DEF Reject, Touch, TypeInv, Tables, Kept, AssignmentRows, RowStatuses
  <2> QED BY <1>2, <2>2, NoneMoves DEF Reject
<1>3. ASSUME NEW x \in Riders, NEW on \in BOOLEAN, SetAvailability(x, on) PROVE TypeInv'
  <2>1. Tables' /\ Kept
    BY <1>3 DEF SetAvailability, TypeInv, Tables, Kept
  <2> QED BY <1>3, <2>1, NoneMoves DEF SetAvailability
<1>4. ASSUME NEW d \in Deliveries, TimerFires(d) PROVE TypeInv'
  <2> DEFINE j == [job[d] EXCEPT !.pc = "delivery"]
  <2>1. Tables' /\ Kept
    BY <1>4 DEF TimerFires, Touch, TypeInv, Tables, Kept
  <2>2. j \in Jobs /\ JobFits(j, row', payment', charge') /\ Goto(d, j) /\ d \in Callers
    BY <1>4, <2>1, JobFacts DEF TimerFires, Jobs, JobPCs, JobFits, Kept, Callers
  <2> HIDE DEF j
  <2> QED BY <2>1, <2>2, OneMoves
<1>5. ASSUME NEW f \in Refs, CustomerPays(f) PROVE TypeInv'
  <2>1. charge[f] \in Charges
    BY <1>5 DEF CustomerPays, TypeInv, Tables, NoCharge
  <2>2. Tables' /\ Kept
    BY <1>5, <2>1, Absent DEF CustomerPays, TypeInv, Tables, Kept, Charges
  <2> QED BY <1>5, <2>2, NoneMoves DEF CustomerPays
<1>6. ASSUME NEW c \in Callers, Fails(c) PROVE TypeInv'
  <2>1. Tables' /\ Kept /\ Goto(c, NoJob)
    BY <1>6, JobFacts DEF Fails, Drop, TypeInv, Tables, Kept, Callers
  <2> QED BY <2>1, NoJobFits, OneMoves
<1>7. CASE Crash
  <2>1. Tables' /\ Kept
    BY <1>7 DEF Crash, Undispatched, TypeInv, Tables, Kept
  <2>2. job' \in [Callers -> Jobs]
    BY <1>7, NoJobFits, JobFacts DEF Crash
  <2>3. ASSUME NEW c \in Callers PROVE JobFits(job'[c], row', payment', charge')
    BY <1>7, <2>1, NoJobFits, StillFits DEF Crash
  <2> QED BY <2>1, <2>2, <2>3 DEF TypeInv
<1> QED BY <1>1, <1>2, <1>3, <1>4, <1>5, <1>6, <1>7 DEF RiderSteps

LEMMA InitTyped == Init => TypeInv
BY NoJobFits DEF Init, TypeInv, Tables, Callers

LEMMA NextTyped == TypeInv /\ [Next]_vars => TypeInv'
<1> SUFFICES ASSUME TypeInv, [Next]_vars PROVE TypeInv'
  OBVIOUS
<1>1. ASSUME NEW a \in Actors, Requests(a) PROVE TypeInv'
  BY <1>1, BeginTyped, RequestTyped, DispatchTyped DEF Requests, Callers
<1>2. ASSUME NEW d \in Deliveries, Dispatching(d) PROVE TypeInv'
  BY <1>2, DispatchTyped DEF Callers
<1>3. CASE UNCHANGED vars
  <2>1. Tables' /\ Kept /\ UNCHANGED job
    BY <1>3 DEF vars, TypeInv, Tables, Kept
  <2> QED BY <2>1, NoneMoves
<1> QED BY <1>1, <1>2, <1>3, OthersTyped DEF Next

\* The tables hold only rows of their type, however requests, timers, failures and
\* restarts interleave (schema.prisma).
THEOREM DeliveriesTyped == Spec => []TypeOK
<1>1. TypeInv => TypeOK
  BY DEF TypeInv, Tables, TypeOK
<1> QED BY <1>1, InitTyped, NextTyped, PTL DEF Spec

-----------------------------------------------------------------------------

\* What a request has found out about a charge or a handover is still so, and nobody
\* has opened the checkout of a reference it is about to open.
Backed(j, charges, given) ==
  /\ j.pc \in {"checkout", "keep", "ask", "mark"} => charges[j.ref].of = j.on
  /\ j.pc = "checkout" => charges[j.ref].st = "none"
  /\ j.pc = "mark" /\ j.seen = "success" => charges[j.ref].st = "success"
  /\ j.pc = "collect" => j.on \in given

\* A payment's reference is of its delivery; it is PAID with a reason.
Earned(d, payments, charges, given) ==
  /\ payments[d].ref # None => charges[payments[d].ref].of = d
  /\ payments[d].st = "PAID" =>
       d \in given \/ \E f \in Refs : charges[f] = [of |-> d, st |-> "success"]

EarnInv ==
  /\ TypeInv
  /\ \A c \in Callers : Backed(job[c], charge, handed)
  /\ \A b, c \in Callers :
       b # c /\ job[b].pc = "checkout" /\ job[c].pc = "checkout" => job[b].ref # job[c].ref
  /\ \A d \in Deliveries : Earned(d, payment, charge, handed)

LEMMA IdleBacked ==
  ASSUME NEW charges, NEW given, NEW pc \in {"idle", "done"}
  PROVE  Backed([NoJob EXCEPT !.pc = pc], charges, given) /\ [NoJob EXCEPT !.pc = pc].pc = pc
BY DEF NoJob, Backed

LEMMA NoJobBacked ==
  ASSUME NEW charges, NEW given
  PROVE  Backed(NoJob, charges, given) /\ NoJob.pc = "idle"
BY DEF NoJob, Backed

\* A step that leaves the charges alone.
LEMMA Quiet ==
  ASSUME EarnInv, TypeInv', charge' = charge, handed \subseteq handed',
         \A d \in Deliveries : payment'[d] = payment[d] \/ Earned(d, payment', charge, handed'),
         \A c \in Callers : \/ job'[c] = job[c]
                            \/ Backed(job'[c], charge, handed') /\ job'[c].pc # "checkout"
  PROVE  EarnInv'
<1>1. \A c \in Callers : Backed(job'[c], charge', handed')
  BY DEF EarnInv, Backed
<1>2. \A d \in Deliveries : Earned(d, payment', charge', handed')
  BY DEF EarnInv, Earned
<1>3. \A b, c \in Callers :
        b # c /\ job'[b].pc = "checkout" /\ job'[c].pc = "checkout" => job'[b].ref # job'[c].ref
  BY DEF EarnInv
<1> QED BY <1>1, <1>2, <1>3 DEF EarnInv

LEMMA OneBacked ==
  ASSUME TypeInv, NEW c \in Callers, NEW j, Goto(c, j), NEW given,
         Backed(j, charge, given), j.pc # "checkout"
  PROVE  \A b \in Callers : job'[b] = job[b] \/ (Backed(job'[b], charge, given) /\ job'[b].pc # "checkout")
<1>1. \A b \in Callers : job'[b] = IF b = c THEN j ELSE job[b]
  BY DEF Goto, TypeInv
<1> QED BY <1>1

\* The same, by a step of one job that leaves the payments alone.
LEMMA QuietJob ==
  ASSUME EarnInv, TypeInv', charge' = charge, handed' = handed, payment' = payment,
         NEW c \in Callers, NEW j, Goto(c, j), Backed(j, charge, handed), j.pc # "checkout"
  PROVE  EarnInv'
<1>1. \A b \in Callers : job'[b] = IF b = c THEN j ELSE job[b]
  BY DEF Goto, EarnInv, TypeInv
<1> QED BY <1>1, Quiet

LEMMA DispatchEarns ==
  ASSUME EarnInv, TypeInv', NEW c \in Callers, Dispatching(c)
  PROVE  EarnInv'
<1> USE DEF At, rowVars, payVars, histVars
<1>1. CASE ReadDelivery(c)
  BY <1>1, QuietJob, JobFacts DEF ReadDelivery, EarnInv, Backed, Jobs
<1>2. CASE PickRider(c)
  <2>1. CASE EndDispatch(c)
    BY <1>2, <2>1, IdleBacked, QuietJob DEF PickRider, EndDispatch
  <2>2. CASE \E x \in Riders : Goto(c, [job[c] EXCEPT !.pc = "insert", !.rider = x])
    BY <1>2, <2>2, QuietJob, JobFacts DEF PickRider, EarnInv, Backed, Jobs
  <2> QED BY <1>2, <2>1, <2>2 DEF PickRider
<1>3. CASE InsertRow(c)
  <2>1. CASE Drop(c)
    BY <1>3, <2>1, NoJobBacked, QuietJob DEF InsertRow, Drop
  <2>2. CASE Goto(c, [job[c] EXCEPT !.pc = "assigning"])
    BY <1>3, <2>2, QuietJob, JobFacts DEF InsertRow, EarnInv, Backed, Jobs
  <2> QED BY <1>3, <2>1, <2>2 DEF InsertRow
<1>4. CASE MarkAssigning(c)
  BY <1>4, IdleBacked, QuietJob DEF MarkAssigning, EndDispatch
<1> QED BY <1>1, <1>2, <1>3, <1>4 DEF Dispatching

\* Only two of the first steps touch what the invariant speaks of.
LEMMA BeginEarns ==
  ASSUME EarnInv, TypeInv', NEW a \in Actors, NEW d \in Deliveries
  PROVE  /\ \A m \in Chosen \cup {"NONE"} : Create(a, d, m) => EarnInv'
         /\ Assign(a, d) => EarnInv'
         /\ CancelRead(a, d) => EarnInv'
         /\ ConfirmRead(a, d) => EarnInv'
         /\ \A m \in Chosen : InitializeRead(a, d, m) => EarnInv'
         /\ \A s \in Patched : Patch(a, d, s) => EarnInv'
<1> USE DEF rowVars, payVars, histVars
<1>c. a \in Callers
  BY DEF Callers
<1>t. TypeInv
  BY DEF EarnInv
<1>1. ASSUME NEW m \in Chosen \cup {"NONE"}, Create(a, d, m) PROVE EarnInv'
  <2>1. \A b \in Callers : job'[b] = job[b] \/ (Backed(job'[b], charge, handed') /\ job'[b].pc # "checkout")
    <3> DEFINE j == [[NoJob EXCEPT !.pc = "created"] EXCEPT !.on = d]
    <3>1. Goto(a, j)
      BY <1>1 DEF Create, Begin
    <3>2. Backed(j, charge, handed') /\ j.pc # "checkout"
      BY DEF NoJob, Backed
    <3> HIDE DEF j
    <3> QED BY <1>c, <1>t, <3>1, <3>2, OneBacked
  <2>2. \A e \in Deliveries : payment'[e] = payment[e] \/ Earned(e, payment', charge, handed')
    BY <1>1 DEF Create, TypeInv, Tables, EarnInv, Earned
  <2> QED BY <1>1, <2>1, <2>2, Quiet DEF Create
<1>2. ASSUME Assign(a, d) PROVE EarnInv'
  BY <1>2, <1>c, QuietJob DEF Assign, Begin, NoJob, Backed
<1>3. ASSUME CancelRead(a, d) PROVE EarnInv'
  BY <1>3, <1>c, QuietJob DEF CancelRead, Begin, NoJob, Backed
<1>4. ASSUME ConfirmRead(a, d) PROVE EarnInv'
  <2>1. charge[payment[d].ref].of = d
    BY <1>4 DEF ConfirmRead, EarnInv, Earned
  <2> QED BY <1>4, <1>c, <2>1, QuietJob DEF ConfirmRead, Begin, NoJob, Backed
<1>5. ASSUME NEW m \in Chosen, InitializeRead(a, d, m) PROVE EarnInv'
  BY <1>5, <1>c, QuietJob DEF InitializeRead, Begin, NoJob, Backed
<1>6. ASSUME NEW s \in Patched, Patch(a, d, s) PROVE EarnInv'
  <2>1. \A b \in Callers : job'[b] = job[b] \/ (Backed(job'[b], charge, handed') /\ job'[b].pc # "checkout")
    <3> DEFINE j == [[NoJob EXCEPT !.pc = "collect"] EXCEPT !.on = d]
    <3>1. UNCHANGED job \/ (Goto(a, j) /\ d \in handed')
      BY <1>6 DEF Patch, Begin
    <3>2. d \in handed' => Backed(j, charge, handed') /\ j.pc # "checkout"
      BY DEF NoJob, Backed
    <3> HIDE DEF j
    <3> QED BY <1>c, <1>t, <3>1, <3>2, OneBacked
  <2>2. handed \subseteq handed'
    BY <1>6 DEF Patch
  <2> QED BY <1>6, <2>1, <2>2, Quiet DEF Patch
<1> QED BY <1>1, <1>2, <1>3, <1>4, <1>5, <1>6

\* Collect and ConfirmMark are the steps that may set PAID, Upsert and Checkout those that
\* change a charge.
LEMMA RequestEarns ==
  ASSUME EarnInv, TypeInv', NEW a \in Actors,
         CreateReply(a) \/ Collect(a) \/ CancelTx(a) \/ Upsert(a) \/ Checkout(a) \/ KeepReference(a)
           \/ ConfirmAsk(a) \/ ConfirmMark(a)
  PROVE  EarnInv'
<1> USE DEF At, Reply, rowVars, payVars, histVars
<1>c. a \in Callers
  BY DEF Callers
<1>t. TypeInv
  BY DEF EarnInv
<1>b. Backed(job[a], charge, handed) /\ job[a] \in Jobs
  BY <1>c, <1>t DEF EarnInv, TypeInv
<1>1. CASE CreateReply(a)
  <2>1. \A b \in Callers : job'[b] = job[b] \/ (Backed(job'[b], charge, handed') /\ job'[b].pc # "checkout")
    <3> DEFINE j(pc) == [[NoJob EXCEPT !.pc = pc] EXCEPT !.on = job[a].on]
    <3>1. PICK pc \in {"timer", "delivery"} : job' = [job EXCEPT ![a] = NoJob, ![job[a].on] = j(pc)]
      BY <1>1 DEF CreateReply
    <3>2. Backed(j(pc), charge, handed') /\ j(pc).pc # "checkout"
      BY DEF NoJob, Backed
    <3>3. \A b \in Callers : job'[b] \in {job[b], NoJob, j(pc)}
      <4> HIDE DEF j
      <4> QED BY <1>t, <3>1 DEF TypeInv
    <3> HIDE DEF j
    <3> QED BY <3>2, <3>3, NoJobBacked
  <2> QED BY <1>1, <2>1, Quiet DEF CreateReply
<1>2. CASE Collect(a)
  <2>1. \A b \in Callers : job'[b] = job[b] \/ (Backed(job'[b], charge, handed') /\ job'[b].pc # "checkout")
    BY <1>2, <1>t, <1>c, NoJobBacked, OneBacked DEF Collect
  <2>2. \A e \in Deliveries : payment'[e] = payment[e] \/ Earned(e, payment', charge, handed')
    <3>1. job[a].on \in handed /\ job[a].on \in Deliveries
      BY <1>2, <1>b, <1>c, <1>t, JobFacts DEF Collect, Backed
    <3>2. Earned(job[a].on, payment, charge, handed)
      BY <3>1 DEF EarnInv
    <3>3. payment[job[a].on].method = "CASH" => payment[job[a].on] \in PaymentRows
      BY <1>t, <3>1 DEF TypeInv, Tables, NoPayment
    <3> QED BY <1>2, <1>t, <3>1, <3>2, <3>3 DEF Collect, TypeInv, Tables, Earned, PaymentRows
  <2> QED BY <1>2, <2>1, <2>2, Quiet DEF Collect
<1>3. CASE CancelTx(a)
  BY <1>3, <1>c, NoJobBacked, QuietJob DEF CancelTx
<1>6. CASE KeepReference(a)
  <2>1. \A b \in Callers : job'[b] = job[b] \/ (Backed(job'[b], charge, handed') /\ job'[b].pc # "checkout")
    BY <1>6, <1>t, <1>c, NoJobBacked, OneBacked DEF KeepReference
  <2>2. \A e \in Deliveries : payment'[e] = payment[e] \/ Earned(e, payment', charge, handed')
    <3>1. charge[job[a].ref].of = job[a].on /\ job[a].on \in Deliveries /\ payment[job[a].on] # NoPayment
      BY <1>6, <1>b, <1>c, <1>t, JobFacts DEF KeepReference, Backed
    <3>2. Earned(job[a].on, payment, charge, handed) /\ payment[job[a].on] \in PaymentRows
      BY <1>t, <3>1 DEF EarnInv, TypeInv, Tables
    <3> QED BY <1>6, <1>t, <3>1, <3>2 DEF KeepReference, TypeInv, Tables, Earned, PaymentRows
  <2> QED BY <1>6, <2>1, <2>2, Quiet DEF KeepReference
<1>7. CASE ConfirmAsk(a)
  <2> DEFINE j == [job[a] EXCEPT !.pc = "mark", !.seen = charge[job[a].ref].st]
  <2>1. CASE Goto(a, NoJob)
    BY <1>7, <1>c, <2>1, NoJobBacked, QuietJob DEF ConfirmAsk
  <2>2. CASE Goto(a, j)
    <3>1. Backed(j, charge, handed) /\ j.pc # "checkout"
      BY <1>7, <1>b DEF ConfirmAsk, Backed, Jobs
    <3> HIDE DEF j
    <3> QED BY <1>7, <1>c, <2>2, <3>1, QuietJob DEF ConfirmAsk
  <2> QED BY <1>7, <2>1, <2>2 DEF ConfirmAsk
<1>8. CASE ConfirmMark(a)
  <2>1. \A b \in Callers : job'[b] = job[b] \/ (Backed(job'[b], charge, handed') /\ job'[b].pc # "checkout")
    BY <1>8, <1>t, <1>c, NoJobBacked, OneBacked DEF ConfirmMark
  <2>2. \A e \in Deliveries : payment'[e] = payment[e] \/ Earned(e, payment', charge, handed')
    <3>1. /\ job[a].on \in Deliveries /\ payment[job[a].on] # NoPayment /\ job[a].ref \in Refs
          /\ charge[job[a].ref].of = job[a].on
          /\ job[a].seen = "success" => charge[job[a].ref].st = "success"
      BY <1>8, <1>b, <1>c, <1>t, JobFacts DEF ConfirmMark, Backed
    <3>2. job[a].seen = "success" => charge[job[a].ref] = [of |-> job[a].on, st |-> "success"]
      <4>1. charge[job[a].ref] = NoCharge \/ charge[job[a].ref] \in Charges
        BY <1>t, <3>1 DEF TypeInv, Tables
      <4> QED BY <3>1, <4>1 DEF NoCharge, Charges
    <3>3. Earned(job[a].on, payment, charge, handed) /\ payment[job[a].on] \in PaymentRows
      BY <1>t, <3>1 DEF EarnInv, TypeInv, Tables
    <3> QED BY <1>8, <1>t, <3>1, <3>2, <3>3 DEF ConfirmMark, TypeInv, Tables, Earned, PaymentRows
  <2> QED BY <1>8, <2>1, <2>2, Quiet DEF ConfirmMark
<1>4. CASE Upsert(a)
  <2> DEFINE d == job[a].on
             kept == IF payment[d] = NoPayment THEN "PENDING" ELSE payment[d].st
  <2>1. d \in Deliveries /\ Earned(d, payment, charge, handed)
    BY <1>4, <1>c, <1>t, JobFacts DEF Upsert, EarnInv
  <2>2. kept = "PAID" => payment[d].st = "PAID"
    OBVIOUS
  <2>3. CASE job[a].method = "PAYSTACK"
    <3>1. PICK f \in Refs :
            /\ charge[f] = NoCharge
            /\ charge' = [charge EXCEPT ![f] = [of |-> d, st |-> "none"]]
            /\ payment' = [payment EXCEPT ![d] = [method |-> job[a].method, st |-> kept, ref |-> f]]
            /\ Goto(a, [job[a] EXCEPT !.pc = "checkout", !.ref = f])
      BY <1>4, <2>3 DEF Upsert
    <3> HIDE DEF kept
    <3>2. /\ charge'[f].of = d /\ charge'[f].st = "none"
          /\ \A g \in Refs \ {f} : charge'[g] = charge[g]
      BY <1>t, <3>1 DEF TypeInv, Tables
    \* Nobody else had the new reference: the charge did not exist.
    <3>3. \A g \in Refs : charge[g] # NoCharge => g # f
      BY <3>1
    <3>4. \A c \in Callers : job'[c] = IF c = a THEN [job[a] EXCEPT !.pc = "checkout", !.ref = f] ELSE job[c]
      BY <1>t, <3>1 DEF Goto, TypeInv
    <3>5. ASSUME NEW c \in Callers, c # a, job[c].pc \in {"checkout", "keep", "ask", "mark"}
          PROVE  job[c].ref \in Refs \ {f}
      <4>1. charge[job[c].ref].of = job[c].on /\ job[c].on \in Deliveries /\ job[c].ref \in Refs
        BY <1>t, <3>5, JobFacts DEF EarnInv, Backed
      <4> QED BY <3>1, <4>1, NoneAssumption DEF NoCharge
    <3>6. \A c \in Callers : Backed(job'[c], charge', handed')
      <4>1. CASE UNCHANGED handed
        <5>1. ASSUME NEW c \in Callers, c # a PROVE Backed(job[c], charge', handed')
          BY <3>2, <3>5, <4>1, <5>1 DEF EarnInv, Backed
        <5>2. Backed([job[a] EXCEPT !.pc = "checkout", !.ref = f], charge', handed')
          BY <1>b, <3>2 DEF Backed, Jobs
        <5> QED BY <3>4, <5>1, <5>2
      <4> QED BY <1>4, <4>1 DEF Upsert
    <3>7. \A b, c \in Callers :
            b # c /\ job'[b].pc = "checkout" /\ job'[c].pc = "checkout" => job'[b].ref # job'[c].ref
      <4>1. job'[a].ref = f
        BY <1>b, <1>c, <3>4 DEF Jobs
      <4> QED BY <1>c, <3>4, <3>5, <4>1 DEF EarnInv
    <3>8. \A e \in Deliveries : Earned(e, payment', charge', handed')
      <4>1. ASSUME NEW e \in Deliveries PROVE Earned(e, payment, charge', handed)
        <5>1. payment[e].ref # None => payment[e].ref \in Refs
          BY <1>t DEF TypeInv, Tables, PaymentRows, NoPayment
        <5>2. Earned(e, payment, charge, handed)
          BY DEF EarnInv
        <5> QED BY <3>1, <3>2, <5>1, <5>2, NoneAssumption DEF Earned, NoCharge
      <4>2. payment'[d].ref = f /\ payment'[d].st = kept /\ \A e \in Deliveries \ {d} : payment'[e] = payment[e]
        BY <1>t, <2>1, <3>1 DEF TypeInv, Tables
      <4>3. handed' = handed
        BY <1>4 DEF Upsert
      <4> QED BY <2>1, <2>2, <3>2, <4>1, <4>2, <4>3 DEF Earned
    <3> QED BY <3>6, <3>7, <3>8 DEF EarnInv
  <2>4. CASE job[a].method # "PAYSTACK"
    <3>1. payment' = [payment EXCEPT ![d] = [method |-> job[a].method, st |-> kept, ref |-> None]]
          /\ charge' = charge /\ Goto(a, NoJob) /\ handed' = handed
      BY <1>4, <2>4 DEF Upsert
    <3> HIDE DEF kept
    <3>2. \A e \in Deliveries : payment'[e] = payment[e] \/ Earned(e, payment', charge, handed')
      BY <1>t, <2>1, <2>2, <3>1 DEF TypeInv, Tables, Earned
    <3>3. \A b \in Callers : job'[b] = job[b] \/ (Backed(job'[b], charge, handed') /\ job'[b].pc # "checkout")
      BY <1>c, <1>t, <3>1, NoJobBacked, OneBacked
    <3> QED BY <3>1, <3>2, <3>3, Quiet
  <2> QED BY <2>3, <2>4
<1>5. CASE Checkout(a)
  <2> DEFINE f == job[a].ref
  <2>1. f \in Refs /\ charge[f].st = "none" /\ handed' = handed /\ payment' = payment
    BY <1>5, <1>b, <1>c, <1>t, JobFacts DEF Checkout, Backed
  <2>2. /\ charge'[f].of = charge[f].of
        /\ \A g \in Refs \ {f} : charge'[g] = charge[g]
    <3>1. charge[f] \in Charges
      BY <1>5, <1>c, <1>t, <2>1, JobFacts DEF Checkout, TypeInv, Tables
    <3> QED BY <1>5, <1>t, <2>1, <3>1 DEF Checkout, TypeInv, Tables, Charges
  <2>3. \A c \in Callers : job'[c] = IF c = a THEN [job[a] EXCEPT !.pc = "keep"] ELSE job[c]
    BY <1>5, <1>t DEF Checkout, Goto, TypeInv
  <2>4. ASSUME NEW c \in Callers PROVE Backed(job'[c], charge', handed')
    <3>1. CASE c = a
      <4>1. Backed([job[a] EXCEPT !.pc = "keep"], charge', handed')
        BY <1>5, <1>b, <2>2 DEF Checkout, Backed, Jobs
      <4> QED BY <2>3, <3>1, <4>1
    <3>2. CASE c # a
      <4>1. Backed(job[c], charge, handed) /\ (job[c].pc = "checkout" => job[c].ref # f)
        BY <1>5, <1>c, <3>2 DEF Checkout, EarnInv
      <4>2. job[c].pc \in {"checkout", "keep", "ask", "mark"} => job[c].ref \in Refs
        BY <1>t, JobFacts
      <4>3. Backed(job[c], charge', handed')
        BY <2>1, <2>2, <4>1, <4>2 DEF Backed
      <4> QED BY <2>3, <3>2, <4>3
    <3> QED BY <3>1, <3>2
  <2>5. \A b, c \in Callers :
          b # c /\ job'[b].pc = "checkout" /\ job'[c].pc = "checkout" => job'[b].ref # job'[c].ref
    <3>1. job'[a].pc = "keep"
      BY <1>b, <1>c, <2>3 DEF Jobs
    <3> QED BY <2>3, <3>1 DEF EarnInv
  <2>6. ASSUME NEW e \in Deliveries PROVE Earned(e, payment', charge', handed')
    <3>1. Earned(e, payment, charge, handed)
      BY DEF EarnInv
    <3>2. payment[e].ref # None => payment[e].ref \in Refs
      BY <1>t DEF TypeInv, Tables, PaymentRows, NoPayment
    <3> QED BY <2>1, <2>2, <3>1, <3>2 DEF Earned
  <2> QED BY <2>4, <2>5, <2>6 DEF EarnInv
<1> QED BY <1>1, <1>2, <1>3, <1>4, <1>5, <1>6, <1>7, <1>8

LEMMA OthersEarn ==
  ASSUME EarnInv, TypeInv',
         RiderSteps \/ (\E d \in Deliveries : TimerFires(d)) \/ (\E f \in Refs : CustomerPays(f))
           \/ (\E c \in Callers : Fails(c)) \/ Crash
  PROVE  EarnInv'
<1> USE DEF At, rowVars, payVars, histVars
<1>t. TypeInv
  BY DEF EarnInv
<1>1. CASE RiderSteps
  <2>1. UNCHANGED <<payment, charge, job, handed>>
    BY <1>1 DEF RiderSteps, Accept, Reject, SetAvailability
  <2> QED BY <2>1, Quiet
<1>2. ASSUME NEW d \in Deliveries, TimerFires(d) PROVE EarnInv'
  BY <1>2, <1>t, QuietJob, JobFacts DEF TimerFires, EarnInv, Backed, Jobs, Callers
<1>3. ASSUME NEW f \in Refs, CustomerPays(f) PROVE EarnInv'
  <2>1. charge[f] \in Charges /\ charge[f].st = "pending"
    BY <1>3, <1>t DEF CustomerPays, TypeInv, Tables, NoCharge
  <2>2. /\ charge'[f] = [of |-> charge[f].of, st |-> "success"]
        /\ \A g \in Refs \ {f} : charge'[g] = charge[g]
        /\ UNCHANGED <<payment, job, handed>>
    BY <1>3, <1>t, <2>1 DEF CustomerPays, TypeInv, Tables, Charges
  <2>3. ASSUME NEW c \in Callers PROVE Backed(job'[c], charge', handed')
    <3>1. Backed(job[c], charge, handed)
      BY DEF EarnInv
    <3>2. job[c].pc \in {"checkout", "keep", "ask", "mark"} => job[c].ref \in Refs
      BY <1>t, JobFacts
    <3> QED BY <2>1, <2>2, <3>1, <3>2 DEF Backed
  <2>4. ASSUME NEW e \in Deliveries PROVE Earned(e, payment', charge', handed')
    <3>1. Earned(e, payment, charge, handed)
      BY DEF EarnInv
    <3>2. payment[e].ref # None => payment[e].ref \in Refs
      BY <1>t DEF TypeInv, Tables, PaymentRows, NoPayment
    <3> QED BY <2>1, <2>2, <3>1, <3>2 DEF Earned
  <2> QED BY <2>2, <2>3, <2>4 DEF EarnInv
<1>4. ASSUME NEW c \in Callers, Fails(c) PROVE EarnInv'
  BY <1>4, NoJobBacked, QuietJob DEF Fails, Drop
<1>5. CASE Crash
  <2>1. \A c \in Callers : job'[c] \in {job[c], NoJob}
    BY <1>5 DEF Crash
  <2> QED BY <1>5, <2>1, NoJobBacked, Quiet DEF Crash
<1> QED BY <1>1, <1>2, <1>3, <1>4, <1>5

LEMMA InitEarns == Init => EarnInv
<1> SUFFICES ASSUME Init PROVE EarnInv
  OBVIOUS
<1>1. \A c \in Callers : job[c] = NoJob
  BY DEF Init
<1>2. \A d \in Deliveries : Earned(d, payment, charge, handed)
  BY DEF Init, NoPayment, Earned
<1>3. NoJob.pc # "checkout"
  BY DEF NoJob
<1> QED BY <1>1, <1>2, <1>3, InitTyped, NoJobBacked DEF EarnInv

LEMMA NextEarns == EarnInv /\ [Next]_vars => EarnInv'
<1> SUFFICES ASSUME EarnInv, [Next]_vars PROVE EarnInv'
  OBVIOUS
<1>t. TypeInv'
  BY NextTyped DEF EarnInv
<1>1. ASSUME NEW a \in Actors, Requests(a) PROVE EarnInv'
  BY <1>1, <1>t, BeginEarns, RequestEarns, DispatchEarns DEF Requests, Callers
<1>2. ASSUME NEW d \in Deliveries, Dispatching(d) PROVE EarnInv'
  BY <1>2, <1>t, DispatchEarns DEF Callers
<1>3. CASE UNCHANGED vars
  BY <1>3, <1>t, Quiet DEF vars
<1> QED BY <1>1, <1>2, <1>3, <1>t, OthersEarn DEF Next

\* However often a payment is started again, retried, confirmed or collected, a delivery
\* is PAID only if it was handed over or Paystack has charged the customer for it
\* (markPaystackPayment, updateDeliveryStatus).
THEOREM PaymentsEarned == Spec => []PaidIsEarned
<1>1. EarnInv => PaidIsEarned
  BY DEF EarnInv, Earned, PaidIsEarned
<1> QED BY <1>1, InitEarns, NextEarns, PTL DEF Spec

-----------------------------------------------------------------------------
(* Riders: what makes a rider busy is a row, and only a cancellation, which frees
   the rider, closes it.                                                            *)

LEMMA RiderKept ==
  ASSUME TypeInv, BusyRiderHasJob,
         UNCHANGED rstat,
         \A r \in Rows : row[r].st \in {"ACCEPTED", "REJECTED"} =>
           row'[r].rider = row[r].rider /\ row'[r].st \in {"ACCEPTED", "REJECTED"}
  PROVE  BusyRiderHasJob'
BY DEF BusyRiderHasJob

LEMMA RequestBusy ==
  ASSUME TypeInv, BusyRiderHasJob, NEW a \in Actors, Requests(a)
  PROVE  BusyRiderHasJob'
<1> USE DEF rowVars, payVars, histVars
<1>1. CASE CancelTx(a)
  <2>1. /\ row' = [r \in Rows |-> IF r \in job[a].rows THEN [row[r] EXCEPT !.st = "EXPIRED"] ELSE row[r]]
        /\ rstat' = [x \in Riders |-> IF x \in {row[r].rider : r \in job[a].rows} THEN "ACTIVE" ELSE rstat[x]]
    BY <1>1 DEF CancelTx
  <2> SUFFICES ASSUME NEW x \in Riders, rstat'[x] = "ON_DELIVERY"
               PROVE  \E r \in Rows : row'[r].rider = x /\ row'[r].st \in {"ACCEPTED", "REJECTED"}
    BY DEF BusyRiderHasJob
  <2>2. rstat[x] = "ON_DELIVERY" /\ x \notin {row[r].rider : r \in job[a].rows}
    BY <2>1
  <2>3. PICK r \in Rows : row[r].rider = x /\ row[r].st \in {"ACCEPTED", "REJECTED"}
    BY <2>2 DEF BusyRiderHasJob
  <2>4. row'[r] = row[r]
    BY <2>1, <2>2, <2>3
  <2> QED BY <2>3, <2>4
<1>2. CASE InsertRow(a)
  <2>1. UNCHANGED rstat /\ \A r \in Rows : row[r] # NoRow => row'[r] = row[r]
    BY <1>2 DEF InsertRow, TypeInv, Tables
  <2>2. NoRow.st = "NONE"
    BY DEF NoRow
  <2> QED BY <2>1, <2>2, RiderKept
<1>3. CASE ~CancelTx(a) /\ ~InsertRow(a)
  <2>1. UNCHANGED <<row, rstat>>
    BY <1>3 DEF Requests, Create, Assign, CancelRead, ConfirmRead, Patch, InitializeRead, CreateReply,
       Dispatching, ReadDelivery, PickRider, MarkAssigning, Collect, Upsert, Checkout, KeepReference,
       ConfirmAsk, ConfirmMark
  <2> QED BY <2>1, RiderKept
<1> QED BY <1>1, <1>2, <1>3

LEMMA NextBusy == TypeInv /\ BusyRiderHasJob /\ [Next]_vars => BusyRiderHasJob'
<1> SUFFICES ASSUME TypeInv, BusyRiderHasJob, [Next]_vars PROVE BusyRiderHasJob'
  OBVIOUS
<1> USE DEF rowVars, payVars, histVars
<1>1. ASSUME NEW r \in Rows, Accept(r) PROVE BusyRiderHasJob'
  <2>1. row[r] \in AssignmentRows
    BY <1>1 DEF Accept, TypeInv, Tables
  <2>2. /\ row'[r].st = "ACCEPTED" /\ row'[r].rider = row[r].rider
        /\ \A s \in Rows \ {r} : row'[s] = row[s]
        /\ \A x \in Riders \ {row[r].rider} : rstat'[x] = rstat[x]
    BY <1>1, <2>1 DEF Accept, TypeInv, Tables, AssignmentRows
  <2> QED BY <2>2 DEF BusyRiderHasJob
<1>2. ASSUME NEW r \in Rows, Reject(r) PROVE BusyRiderHasJob'
  <2>1. row[r] \in AssignmentRows
    BY <1>2 DEF Reject, TypeInv, Tables
  <2>2. /\ row'[r].st = "REJECTED" /\ row'[r].rider = row[r].rider
        /\ \A s \in Rows \ {r} : row'[s] = row[s]
        /\ UNCHANGED rstat
    BY <1>2, <2>1 DEF Reject, TypeInv, Tables, AssignmentRows
  <2> QED BY <2>2, RiderKept
<1>3. ASSUME NEW x \in Riders, NEW on \in BOOLEAN, SetAvailability(x, on) PROVE BusyRiderHasJob'
  <2>1. UNCHANGED row /\ rstat'[x] # "ON_DELIVERY" /\ \A y \in Riders \ {x} : rstat'[y] = rstat[y]
    BY <1>3 DEF SetAvailability, TypeInv, Tables
  <2> QED BY <2>1 DEF BusyRiderHasJob
<1>4. ASSUME NEW d \in Deliveries, Dispatching(d) PROVE BusyRiderHasJob'
  <2>1. UNCHANGED rstat /\ \A r \in Rows : row[r] # NoRow => row'[r] = row[r]
    BY <1>4 DEF Dispatching, ReadDelivery, PickRider, InsertRow, MarkAssigning, TypeInv, Tables
  <2>2. NoRow.st = "NONE"
    BY DEF NoRow
  <2> QED BY <2>1, <2>2, RiderKept
<1>5. CASE \/ \E d \in Deliveries : TimerFires(d)
           \/ \E f \in Refs : CustomerPays(f)
           \/ \E c \in Callers : Fails(c)
           \/ Crash \/ UNCHANGED vars
  <2>1. UNCHANGED <<row, rstat>>
    BY <1>5 DEF TimerFires, CustomerPays, Fails, Crash, vars
  <2> QED BY <2>1, RiderKept
<1> QED BY <1>1, <1>2, <1>3, <1>4, <1>5, RequestBusy DEF Next, RiderSteps

\* "Release the rider ... so they can take new jobs" (cancelDelivery): for any riders and
\* deliveries, no rider stays ON_DELIVERY whose job was cancelled, though the transaction
\* writes a snapshot of the rows and tests none of them.
THEOREM BusyRidersHaveJobs == Spec => []BusyRiderHasJob
<1>1. Init => BusyRiderHasJob
  BY DEF Init, BusyRiderHasJob
<1> QED BY <1>1, InitTyped, NextTyped, NextBusy, PTL DEF Spec

-----------------------------------------------------------------------------
(* What a request has read stays true on a delivery that nothing else uses.         *)

OpenRows(d, rows) == {r \in Rows : rows[r].delivery = d /\ rows[r].st \in {"OFFERED", "ACCEPTED"}}

\* Two callers are on one delivery only if it is disturbed (a timer is not yet a caller).
Apart ==
  \A b, c \in Callers :
    /\ b # c /\ job[b].on \in Deliveries /\ job[b].on = job[c].on
    /\ job[b].pc # "timer" /\ job[c].pc # "timer"
    => job[b].on \in disturbed

\* What j has read of a delivery that is its own still holds.
Fresh(j, payments, rows, others) ==
  j.on \in Deliveries \ others =>
    /\ j.pc = "cancel" => OpenRows(j.on, rows) \subseteq j.rows
    /\ j.pc = "upsert" => payments[j.on].st # "PAID"
    /\ j.pc \in {"checkout", "keep", "ask", "mark"} => payments[j.on].ref = j.ref
    /\ j.pc \in {"ask", "mark"} => payments[j.on].method = "PAYSTACK"
    /\ j.pc = "mark" /\ j.seen # "success" => payments[j.on].st # "PAID"

\* Nothing is known of a delivery before it is created.
Known ==
  /\ \A c \in Callers : job[c].on \in Deliveries => status[job[c].on] # "NONE"
  /\ \A d \in Deliveries : status[d] = "NONE" => payment[d] = NoPayment

\* What Paystack is known to have paid is the charge the payment names.
Charged(d, payments, charges) ==
  payments[d].method = "PAYSTACK" /\ payments[d].st = "PAID" =>
    payments[d].ref \in Refs /\ charges[payments[d].ref].st = "success"

FreshInv ==
  /\ Apart /\ Known
  /\ \A d \in Deliveries \ disturbed : Charged(d, payment, charge)
  /\ \A c \in Callers : Fresh(job[c], payment, row, disturbed)

\* What a step must do to keep all this: no table changes under a request that goes on
\* and is alone on its delivery.
LEMMA FreshKept ==
  ASSUME FreshInv, Apart', disturbed \subseteq disturbed',
         \A d \in Deliveries : status'[d] = "NONE" => status[d] = "NONE" /\ payment'[d] = payment[d],
         \A b \in Callers :
           \/ job'[b] = job[b]
           \/ /\ job'[b].on \in Deliveries => status'[job'[b].on] # "NONE"
              /\ Fresh(job'[b], payment', row', disturbed'),
         \A f \in Refs : charge[f].st = "success" => charge'[f].st = "success",
         \A d \in Deliveries \ disturbed' : payment'[d] = payment[d] \/ Charged(d, payment', charge'),
         \A b \in Callers, d \in Deliveries \ disturbed' :
           job'[b] = job[b] /\ job[b].on = d /\ job[b].pc # "timer" =>
             payment'[d] = payment[d] /\ OpenRows(d, row') \subseteq OpenRows(d, row)
  PROVE  FreshInv'
<1>1. Known'
  BY DEF FreshInv, Known
<1>2. \A d \in Deliveries \ disturbed' : Charged(d, payment', charge')
  BY DEF FreshInv, Charged
<1>3. \A b \in Callers : Fresh(job'[b], payment', row', disturbed')
  BY DEF FreshInv, Fresh
<1> QED BY <1>1, <1>2, <1>3 DEF FreshInv

\* One caller moves: it was on the delivery before, or leaves it, or finds it unused.
LEMMA ApartKept ==
  ASSUME Apart, disturbed \subseteq disturbed', NEW c \in Callers,
         \A b \in Callers \ {c} : job'[b] = job[b],
         job'[c].on \in Deliveries /\ job'[c].pc # "timer" =>
           \/ job'[c].on = job[c].on /\ job[c].pc # "timer"
           \/ \A b \in Callers \ {c} :
                job[b].on = job'[c].on /\ job[b].pc # "timer" => job'[c].on \in disturbed'
  PROVE  Apart'
BY DEF Apart

\* A request that begins has its job, marks the delivery if it is not alone, and leaves
\* those that wait there.
LEMMA BeginAlone ==
  ASSUME TypeInv, Apart, NEW a \in Actors, NEW d \in Deliveries, NEW j \in Jobs, Begin(a, d, j)
  PROVE  /\ job'[a] = [j EXCEPT !.on = d] /\ job'[a].on = d /\ job'[a].pc = j.pc
         /\ \A b \in Callers \ {a} : job'[b] = job[b]
         /\ disturbed \subseteq disturbed'
         /\ \A b \in Callers \ {a} : job[b].on = d /\ job[b].pc # "timer" => d \in disturbed'
         /\ Apart'
         /\ job[a].pc = "idle"
<1>1. /\ job'[a] = [j EXCEPT !.on = d] /\ \A b \in Callers \ {a} : job'[b] = job[b]
      /\ job[a].pc = "idle" /\ a \in Callers
  BY DEF Begin, Goto, At, TypeInv, Callers
<1>2. job'[a].on = d /\ job'[a].pc = j.pc
  BY <1>1 DEF Jobs
<1>3. /\ disturbed \subseteq disturbed'
      /\ \A b \in Callers \ {a} : job[b].on = d /\ job[b].pc # "timer" => d \in disturbed'
  BY DEF Begin, Touch, At, TypeInv, Tables
<1>4. Apart'
  BY <1>1, <1>2, <1>3, ApartKept
<1> QED BY <1>1, <1>2, <1>3, <1>4

\* A caller at work on d: everybody else there has disturbed it.
LEMMA AtWork ==
  ASSUME FreshInv, NEW c \in Callers, job[c].on \in Deliveries, job[c].pc # "timer",
         NEW b \in Callers \ {c}, job[b].on = job[c].on, job[b].pc # "timer"
  PROVE  job[c].on \in disturbed
BY DEF FreshInv, Apart

LEMMA BeginFresh ==
  ASSUME EarnInv, FreshInv, NEW a \in Actors, NEW d \in Deliveries,
         \/ \E m \in Chosen \cup {"NONE"} : Create(a, d, m)
         \/ Assign(a, d) \/ CancelRead(a, d) \/ ConfirmRead(a, d)
         \/ \E s \in Patched : Patch(a, d, s)
         \/ \E m \in Chosen : InitializeRead(a, d, m)
  PROVE  FreshInv'
<1> USE DEF rowVars, payVars, histVars
<1>t. TypeInv
  BY DEF EarnInv
<1>k. Apart /\ Known
  BY DEF FreshInv
<1>n. NoJob.on = None /\ None \notin Deliveries
  BY NoneAssumption DEF NoJob
\* A request that begins on an existing delivery and writes nothing yet.
<1>b. ASSUME NEW j \in Jobs, Begin(a, d, j), status'[d] # "NONE",
             \A e \in Deliveries : status'[e] = "NONE" => status[e] = "NONE",
             UNCHANGED <<payment, row, charge>>,
             Fresh([j EXCEPT !.on = d], payment, row, disturbed')
      PROVE  FreshInv'
  BY <1>b, <1>t, <1>k, BeginAlone, FreshKept
<1>1. ASSUME NEW m \in Chosen \cup {"NONE"}, Create(a, d, m) PROVE FreshInv'
  <2>1. PICK j \in Jobs : Begin(a, d, j) /\ j.pc = "created"
    BY <1>1 DEF Create, NoJob, Jobs, JobPCs
  <2>2. /\ status[d] = "NONE" /\ status'[d] = "REQUESTED" /\ UNCHANGED <<row, charge>>
        /\ \A e \in Deliveries \ {d} : status'[e] = status[e] /\ payment'[e] = payment[e]
    BY <1>1, <1>t DEF Create, TypeInv, Tables
  <2>3. payment'[d].st # "PAID"
    BY <1>1, <1>t, <2>2 DEF Create, TypeInv, Tables, FreshInv, Known, NoPayment
  <2>4. \A b \in Callers : job[b].on # d
    BY <2>2 DEF FreshInv, Known
  <2>b. /\ job'[a].on = d /\ job'[a].pc = "created"
        /\ \A b \in Callers \ {a} : job'[b] = job[b]
        /\ disturbed \subseteq disturbed' /\ Apart'
    <3>1. TypeInv /\ Apart /\ j \in Jobs /\ Begin(a, d, j)
      BY <1>t, <1>k, <2>1
    <3>2. job'[a].on = d /\ job'[a].pc = "created"
      <4>1. job'[a] = [j EXCEPT !.on = d]
        BY <3>1, BeginAlone
      <4> QED BY <2>1, <4>1 DEF Jobs
    <3>3. \A b \in Callers \ {a} : job'[b] = job[b]
      BY <3>1, BeginAlone
    <3>4. disturbed \subseteq disturbed'
      BY <3>1, BeginAlone
    <3>5. Apart'
      BY <3>1, BeginAlone
    <3> QED BY <2>1, <3>2, <3>3, <3>4, <3>5
  <2>5. Fresh(job'[a], payment', row', disturbed')
    BY <2>b DEF Fresh
  <2>6. Charged(d, payment', charge')
    BY <2>3 DEF Charged
  <2>7. /\ \A e \in Deliveries : status'[e] = "NONE" => status[e] = "NONE" /\ payment'[e] = payment[e]
        /\ \A e \in Deliveries \ disturbed' : payment'[e] = payment[e] \/ Charged(e, payment', charge')
        /\ \A b \in Callers, e \in Deliveries \ disturbed' :
             job'[b] = job[b] /\ job[b].on = e /\ job[b].pc # "timer" =>
               payment'[e] = payment[e] /\ OpenRows(e, row') \subseteq OpenRows(e, row)
    BY <2>2, <2>4, <2>6
  <2> QED BY <2>2, <2>b, <2>5, <2>7, FreshKept
<1>2. CASE Assign(a, d)
  <2> DEFINE j == [NoJob EXCEPT !.pc = "riders"]
  <2>1. j \in Jobs /\ Begin(a, d, j) /\ [j EXCEPT !.on = d].pc = "riders"
    BY <1>2 DEF Assign, NoJob, Jobs, JobPCs
  <2> HIDE DEF j
  <2>2. Fresh([j EXCEPT !.on = d], payment, row, disturbed')
    BY <2>1 DEF Fresh
  <2> QED BY <1>2, <1>b, <2>1, <2>2 DEF Assign
<1>3. CASE CancelRead(a, d)
  <2> DEFINE j == [NoJob EXCEPT !.pc = "cancel", !.rows = OpenRows(d, row)]
  <2>1. /\ j \in Jobs /\ Begin(a, d, j) /\ [j EXCEPT !.on = d].pc = "cancel"
        /\ [j EXCEPT !.on = d].rows = OpenRows(d, row) /\ [j EXCEPT !.on = d].on = d
    BY <1>3 DEF CancelRead, OpenRows, NoJob, Jobs, JobPCs
  <2> HIDE DEF j
  <2>2. Fresh([j EXCEPT !.on = d], payment, row, disturbed')
    BY <2>1 DEF Fresh
  <2>3. status[d] # "NONE" /\ UNCHANGED <<status, payment, row, charge>>
    BY <1>3 DEF CancelRead, Cancellable
  <2> QED BY <1>b, <2>1, <2>2, <2>3
<1>4. CASE ConfirmRead(a, d)
  <2> DEFINE j == [NoJob EXCEPT !.pc = "ask", !.ref = payment[d].ref]
  <2>1. payment[d].ref \in Refs /\ payment[d].method = "PAYSTACK"
    BY <1>4, <1>t DEF ConfirmRead, TypeInv, Tables, PaymentRows, NoPayment
  <2>2. /\ j \in Jobs /\ Begin(a, d, j) /\ [j EXCEPT !.on = d].pc = "ask"
        /\ [j EXCEPT !.on = d].ref = payment[d].ref /\ [j EXCEPT !.on = d].on = d
    BY <1>4, <2>1 DEF ConfirmRead, NoJob, Jobs, JobPCs
  <2> HIDE DEF j
  <2>3. Fresh([j EXCEPT !.on = d], payment, row, disturbed')
    BY <2>1, <2>2 DEF Fresh
  <2>4. status[d] # "NONE" /\ UNCHANGED <<status, payment, row, charge>>
    BY <1>4, <1>k, <2>1 DEF ConfirmRead, Known, NoPayment
  <2> QED BY <1>b, <2>2, <2>3, <2>4
<1>5. ASSUME NEW m \in Chosen, InitializeRead(a, d, m) PROVE FreshInv'
  <2> DEFINE j == [NoJob EXCEPT !.pc = "upsert", !.method = m]
  <2>1. /\ j \in Jobs /\ Begin(a, d, j) /\ [j EXCEPT !.on = d].pc = "upsert"
        /\ [j EXCEPT !.on = d].on = d
    BY <1>5, ChosenAssumption DEF InitializeRead, NoJob, Jobs, JobPCs
  <2> HIDE DEF j
  <2>2. Fresh([j EXCEPT !.on = d], payment, row, disturbed')
    BY <1>5, <2>1 DEF Fresh, InitializeRead
  <2> QED BY <1>5, <1>b, <2>1, <2>2 DEF InitializeRead
<1>6. ASSUME NEW s \in Patched, Patch(a, d, s) PROVE FreshInv'
  <2>1. /\ status'[d] = s /\ s # "NONE" /\ \A e \in Deliveries \ {d} : status'[e] = status[e]
        /\ UNCHANGED <<payment, row, charge>>
    BY <1>6, <1>t, PatchedAssumption DEF Patch, TypeInv, Tables, Statuses
  <2>2. CASE s = "DELIVERED"
    <3> DEFINE j == [NoJob EXCEPT !.pc = "collect"]
    <3>1. j \in Jobs /\ Begin(a, d, j) /\ [j EXCEPT !.on = d].pc = "collect"
      BY <1>6, <2>2 DEF Patch, NoJob, Jobs, JobPCs
    <3> HIDE DEF j
    <3>2. Fresh([j EXCEPT !.on = d], payment, row, disturbed')
      BY <3>1 DEF Fresh
    <3> QED BY <1>b, <2>1, <3>1, <3>2
  <2>3. CASE s # "DELIVERED"
    <3>1. UNCHANGED job /\ disturbed \subseteq disturbed'
      BY <1>6, <2>3 DEF Patch, Touch
    <3>2. Apart'
      BY <1>k, <3>1 DEF Apart
    <3> QED BY <2>1, <3>1, <3>2, FreshKept
  <2> QED BY <2>2, <2>3
<1> QED BY <1>1, <1>2, <1>3, <1>4, <1>5, <1>6

\* A caller at work on d moves on or is over, and writes only what is of d.
LEMMA WorkFresh ==
  ASSUME TypeInv, FreshInv, NEW c \in Callers, NEW j, Goto(c, j),
         job[c].on \in Deliveries, job[c].pc # "timer", j.pc # job[c].pc,
         j.on \in Deliveries => j.on = job[c].on,
         disturbed' = disturbed,
         \A d \in Deliveries : status'[d] = "NONE" => status[d] = "NONE",
         \A d \in Deliveries \ {job[c].on} :
           payment'[d] = payment[d] /\ OpenRows(d, row') \subseteq OpenRows(d, row),
         \A f \in Refs : charge[f].st = "success" => charge'[f].st = "success",
         Fresh(j, payment', row', disturbed),
         job[c].on \notin disturbed =>
           payment'[job[c].on] = payment[job[c].on] \/ Charged(job[c].on, payment', charge')
  PROVE  FreshInv'
<1>1. job'[c] = j /\ \A b \in Callers \ {c} : job'[b] = job[b]
  BY DEF Goto, TypeInv
<1>2. Apart'
  BY <1>1, ApartKept DEF FreshInv
<1>3. status[job[c].on] # "NONE"
  BY DEF FreshInv, Known
<1>4. \A b \in Callers, d \in Deliveries \ disturbed' :
        job'[b] = job[b] /\ job[b].on = d /\ job[b].pc # "timer" =>
          payment'[d] = payment[d] /\ OpenRows(d, row') \subseteq OpenRows(d, row)
  <2> SUFFICES ASSUME NEW b \in Callers, job'[b] = job[b], job[b].on \in Deliveries \ disturbed,
                      job[b].pc # "timer", job[b].on = job[c].on
               PROVE  FALSE
    OBVIOUS
  <2>1. b # c
    BY <1>1
  <2> QED BY <2>1, AtWork
<1>5. \A d \in Deliveries : status'[d] = "NONE" => status[d] = "NONE" /\ payment'[d] = payment[d]
  BY <1>3
<1>6. \A b \in Callers :
        \/ job'[b] = job[b]
        \/ /\ job'[b].on \in Deliveries => status'[job'[b].on] # "NONE"
           /\ Fresh(job'[b], payment', row', disturbed')
  BY <1>1, <1>3
<1> QED BY <1>2, <1>4, <1>5, <1>6, FreshKept

\* What an idle job has read.
LEMMA IdleFresh ==
  ASSUME NEW payments, NEW rows, NEW others, NEW pc \in {"idle", "done"}
  PROVE  /\ Fresh([NoJob EXCEPT !.pc = pc], payments, rows, others)
         /\ [NoJob EXCEPT !.pc = pc].on \notin Deliveries /\ [NoJob EXCEPT !.pc = pc].pc = pc
         /\ Fresh(NoJob, payments, rows, others)
         /\ NoJob.on \notin Deliveries /\ NoJob.pc = "idle"
BY NoneAssumption DEF NoJob, Fresh

LEMMA DispatchFresh ==
  ASSUME EarnInv, FreshInv, NEW c \in Callers, Dispatching(c)
  PROVE  FreshInv'
<1> USE DEF At, rowVars, payVars, histVars
<1>t. TypeInv
  BY DEF EarnInv
<1>1. /\ job[c].pc \in {"delivery", "riders", "insert", "assigning"}
      /\ job[c].on \in Deliveries /\ job[c] \in Jobs
  BY <1>t, JobFacts DEF Dispatching, ReadDelivery, PickRider, InsertRow, MarkAssigning
<1>2. ASSUME UNCHANGED <<status, row, payment, charge, disturbed>>, NEW j, Goto(c, j),
             j.pc # job[c].pc, j.on \in Deliveries => j.on = job[c].on,
             Fresh(j, payment, row, disturbed)
      PROVE  FreshInv'
  BY <1>1, <1>2, <1>t, WorkFresh
<1>3. CASE ReadDelivery(c)
  <2> DEFINE j == [job[c] EXCEPT !.pc = "riders"]
  <2>1. j.pc = "riders" /\ j.on = job[c].on
    BY <1>1 DEF Jobs
  <2>2. Goto(c, j) /\ Fresh(j, payment, row, disturbed)
    BY <1>3, <2>1 DEF ReadDelivery, Fresh
  <2> HIDE DEF j
  <2> QED BY <1>2, <1>3, <2>1, <2>2 DEF ReadDelivery
<1>4. CASE PickRider(c)
  <2>1. UNCHANGED <<status, row, payment, charge, disturbed>> /\ job[c].pc = "riders"
    BY <1>4 DEF PickRider
  <2>2. CASE EndDispatch(c)
    <3>1. PICK pc \in {"idle", "done"} : Goto(c, [NoJob EXCEPT !.pc = pc])
      BY <2>2 DEF EndDispatch
    <3> QED BY <1>2, <2>1, <3>1, IdleFresh
  <2>3. ASSUME NEW x \in Riders, Goto(c, [job[c] EXCEPT !.pc = "insert", !.rider = x])
        PROVE  FreshInv'
    <3> DEFINE j == [job[c] EXCEPT !.pc = "insert", !.rider = x]
    <3>1. j.pc = "insert" /\ j.on = job[c].on
      BY <1>1 DEF Jobs
    <3>2. Fresh(j, payment, row, disturbed) /\ Goto(c, j)
      BY <2>3, <3>1 DEF Fresh
    <3> HIDE DEF j
    <3> QED BY <1>2, <2>1, <3>1, <3>2
  <2> QED BY <1>4, <2>2, <2>3 DEF PickRider
<1>5. CASE InsertRow(c)
  <2>1. CASE Drop(c) /\ UNCHANGED row
    <3>1. UNCHANGED <<status, row, payment, charge, disturbed>> /\ Goto(c, NoJob) /\ job[c].pc = "insert"
      BY <1>5, <2>1 DEF InsertRow, Drop
    <3> QED BY <1>2, <3>1, IdleFresh
  <2>2. ASSUME NEW r \in Rows, row[r] = NoRow,
               row' = [row EXCEPT ![r] = [delivery |-> job[c].on, rider |-> job[c].rider, st |-> "OFFERED"]],
               Goto(c, [job[c] EXCEPT !.pc = "assigning"])
        PROVE  FreshInv'
    <3> DEFINE j == [job[c] EXCEPT !.pc = "assigning"]
    <3>1. j.pc = "assigning" /\ j.on = job[c].on
      BY <1>1 DEF Jobs
    <3>2. Fresh(j, payment, row', disturbed) /\ Goto(c, j)
      BY <2>2, <3>1 DEF Fresh
    <3>3. \A d \in Deliveries \ {job[c].on} : OpenRows(d, row') \subseteq OpenRows(d, row)
      <4>1. /\ row'[r].delivery = job[c].on /\ \A s \in Rows \ {r} : row'[s] = row[s]
        BY <2>2, <1>t DEF TypeInv, Tables
      <4> QED BY <4>1 DEF OpenRows
    <3>4. UNCHANGED <<status, payment, charge, disturbed>> /\ job[c].pc = "insert"
      BY <1>5 DEF InsertRow
    <3> HIDE DEF j
    <3> QED BY <1>1, <1>t, <3>1, <3>2, <3>3, <3>4, WorkFresh
  <2> QED BY <1>5, <2>1, <2>2 DEF InsertRow
<1>6. CASE MarkAssigning(c)
  <2>1. /\ \A d \in Deliveries : status'[d] = "NONE" => status[d] = "NONE"
        /\ UNCHANGED <<row, payment, charge, disturbed>> /\ job[c].pc = "assigning"
    BY <1>6, <1>t DEF MarkAssigning, TypeInv, Tables
  <2>2. PICK pc \in {"idle", "done"} : Goto(c, [NoJob EXCEPT !.pc = pc])
    BY <1>6 DEF MarkAssigning, EndDispatch
  <2> QED BY <1>1, <1>t, <2>1, <2>2, IdleFresh, WorkFresh
<1> QED BY <1>3, <1>4, <1>5, <1>6 DEF Dispatching

\* What has been charged stays charged: a new reference has no charge yet, and a
\* checkout that is opened is one nobody has paid at.
LEMMA ChargesStay ==
  ASSUME EarnInv, NEW a \in Actors, Upsert(a) \/ Checkout(a), NEW f \in Refs, charge[f].st = "success"
  PROVE  charge'[f].st = "success"
<1>t. TypeInv /\ a \in Callers
  BY DEF EarnInv, Callers
<1>1. CASE Upsert(a)
  <2>1. NoCharge.st = "none"
    BY DEF NoCharge
  <2> QED BY <1>1, <1>t, <2>1 DEF Upsert, TypeInv, Tables
<1>2. CASE Checkout(a)
  <2>1. job[a].pc = "checkout" /\ charge[job[a].ref].st = "none"
    BY <1>2, <1>t DEF Checkout, At, EarnInv, Backed
  <2> QED BY <1>2, <1>t, <2>1 DEF Checkout, TypeInv, Tables
<1> QED BY <1>1, <1>2

LEMMA RequestFresh ==
  ASSUME EarnInv, FreshInv, NEW a \in Actors,
         CreateReply(a) \/ Collect(a) \/ CancelTx(a) \/ Upsert(a) \/ Checkout(a) \/ KeepReference(a)
           \/ ConfirmAsk(a) \/ ConfirmMark(a)
  PROVE  FreshInv'
<1> USE DEF At, Reply, rowVars, payVars, histVars
<1>t. TypeInv /\ a \in Callers
  BY DEF EarnInv, Callers
<1>1. /\ job[a].pc \in {"created", "collect", "cancel", "upsert", "checkout", "keep", "ask", "mark"}
      /\ job[a].on \in Deliveries /\ job[a] \in Jobs
      /\ Fresh(job[a], payment, row, disturbed)
  BY <1>t, JobFacts DEF CreateReply, Collect, CancelTx, Upsert, Checkout, KeepReference, ConfirmAsk,
     ConfirmMark, FreshInv
<1> DEFINE d == job[a].on
<1>2. CASE CreateReply(a)
  <2> DEFINE j(pc) == [NoJob EXCEPT !.pc = pc, !.on = d]
  <2>1. PICK pc \in {"timer", "delivery"} : job' = [job EXCEPT ![a] = NoJob, ![d] = j(pc)]
    BY <1>2 DEF CreateReply
  <2>2. j(pc).pc = pc /\ j(pc).on = d
    BY DEF NoJob
  <2>3. d # a /\ d \in Callers
    BY <1>1, ActorsAssumption DEF Callers
  <2> HIDE DEF j
  <2>4. /\ job'[a] = NoJob /\ job'[d] = j(pc)
        /\ \A b \in Callers \ {a, d} : job'[b] = job[b]
    BY <1>t, <2>1, <2>3 DEF TypeInv
  <2>5. UNCHANGED <<status, row, payment, charge, disturbed>> /\ job[a].pc = "created"
    BY <1>2 DEF CreateReply
  <2>6. Apart'
    <3>1. \A b \in Callers \ {a, d} : job[b].on = d /\ job[b].pc # "timer" => d \in disturbed
      BY <1>1, <1>t, <2>5, AtWork
    <3> QED BY <1>1, <2>2, <2>3, <2>4, <2>5, <3>1, IdleFresh DEF FreshInv, Apart
  <2>7. Fresh(j(pc), payment, row, disturbed) /\ status[d] # "NONE"
    BY <1>1, <1>t, <2>2 DEF Fresh, FreshInv, Known
  <2>8. \A b \in Callers :
           \/ job'[b] = job[b]
           \/ /\ job'[b].on \in Deliveries => status'[job'[b].on] # "NONE"
              /\ Fresh(job'[b], payment', row', disturbed')
    BY <2>2, <2>4, <2>5, <2>7, IdleFresh
  <2> QED BY <2>5, <2>6, <2>8, FreshKept
<1>3. CASE Collect(a)
  <2>1. /\ UNCHANGED <<status, row, charge, disturbed>> /\ Goto(a, NoJob)
        /\ \A e \in Deliveries \ {d} : payment'[e] = payment[e]
        /\ payment'[d] = payment[d] \/ payment'[d].method = "CASH"
    BY <1>3, <1>1, <1>t DEF Collect, TypeInv, Tables, PaymentRows, NoPayment
  <2>2. payment'[d] = payment[d] \/ Charged(d, payment', charge')
    BY <2>1 DEF Charged
  <2> QED BY <1>1, <1>t, <2>1, <2>2, IdleFresh, WorkFresh
<1>4. CASE CancelTx(a)
  <2>1. /\ UNCHANGED <<payment, charge, disturbed>> /\ Goto(a, NoJob)
        /\ \A e \in Deliveries : status'[e] = "NONE" => status[e] = "NONE"
        /\ \A r \in Rows : row'[r] = row[r] \/ row'[r] = [row[r] EXCEPT !.st = "EXPIRED"]
    BY <1>4, <1>1, <1>t DEF CancelTx, TypeInv, Tables
  <2>2. \A e \in Deliveries : OpenRows(e, row') \subseteq OpenRows(e, row)
    <3>1. \A r \in Rows : [row[r] EXCEPT !.st = "EXPIRED"].st = "EXPIRED"
      BY <1>t DEF TypeInv, Tables, AssignmentRows, NoRow
    <3>2. \A r \in Rows : row'[r] = row[r] \/ row'[r].st = "EXPIRED"
      BY <2>1, <3>1
    <3> QED BY <3>2 DEF OpenRows
  <2> QED BY <1>1, <1>t, <2>1, <2>2, IdleFresh, WorkFresh
<1>5. CASE Upsert(a)
  <2> DEFINE kept == IF payment[d] = NoPayment THEN "PENDING" ELSE payment[d].st
  <2>1. PICK f \in Refs \cup {None} :
          payment' = [payment EXCEPT ![d] = [method |-> job[a].method, st |-> kept, ref |-> f]]
          /\ \/ Goto(a, [job[a] EXCEPT !.pc = "checkout", !.ref = f])
             \/ Goto(a, NoJob)
    BY <1>5 DEF Upsert
  <2>2. /\ UNCHANGED <<status, row, disturbed>> /\ job[a].pc = "upsert"
        /\ \A g \in Refs : charge[g].st = "success" => charge'[g].st = "success"
    BY <1>5, ChargesStay DEF Upsert
  <2>3. d \notin disturbed => kept # "PAID"
    BY <1>1, <2>2 DEF Fresh
  <2> HIDE DEF kept
  <2>4. /\ payment'[d].ref = f /\ payment'[d].st = kept
        /\ \A e \in Deliveries \ {d} : payment'[e] = payment[e]
    BY <1>1, <1>t, <2>1 DEF TypeInv, Tables
  <2>5. d \notin disturbed => Charged(d, payment', charge')
    BY <2>3, <2>4 DEF Charged
  <2>6. CASE Goto(a, NoJob)
    BY <1>1, <1>t, <2>2, <2>4, <2>5, <2>6, IdleFresh, WorkFresh
  <2>7. CASE Goto(a, [job[a] EXCEPT !.pc = "checkout", !.ref = f])
    <3> DEFINE j == [job[a] EXCEPT !.pc = "checkout", !.ref = f]
    <3>1. j.pc = "checkout" /\ j.ref = f /\ j.on = d
      BY <1>1 DEF Jobs
    <3>2. Fresh(j, payment', row', disturbed) /\ Goto(a, j)
      BY <2>4, <2>7, <3>1 DEF Fresh
    <3> HIDE DEF j
    <3> QED BY <1>1, <1>t, <2>2, <2>4, <2>5, <3>1, <3>2, WorkFresh
  <2> QED BY <2>1, <2>6, <2>7
<1>6. CASE Checkout(a)
  <2> DEFINE j == [job[a] EXCEPT !.pc = "keep"]
  <2>1. /\ UNCHANGED <<status, row, payment, disturbed>> /\ job[a].pc = "checkout" /\ Goto(a, j)
        /\ \A g \in Refs : charge[g].st = "success" => charge'[g].st = "success"
    BY <1>6, ChargesStay DEF Checkout
  <2>2. j.pc = "keep" /\ j.ref = job[a].ref /\ j.on = d
    BY <1>1 DEF Jobs
  <2> HIDE DEF j
  <2>3. Fresh(j, payment, row, disturbed)
    BY <1>1, <2>1, <2>2 DEF Fresh
  <2> QED BY <1>1, <1>t, <2>1, <2>2, <2>3, WorkFresh
<1>7. CASE KeepReference(a)
  <2>1. /\ UNCHANGED <<status, row, charge, disturbed>> /\ job[a].pc = "keep" /\ Goto(a, NoJob)
        /\ payment' = [payment EXCEPT ![d].ref = job[a].ref]
    BY <1>7 DEF KeepReference
  <2>2. d \notin disturbed => payment'[d] = payment[d]
    <3>1. d \notin disturbed => payment[d].ref = job[a].ref
      BY <1>1, <2>1 DEF Fresh
    <3>2. payment[d] \in PaymentRows
      BY <1>t, <2>1, JobFacts DEF TypeInv, Tables
    <3> QED BY <1>1, <1>t, <2>1, <3>1, <3>2 DEF TypeInv, Tables, PaymentRows
  <2>3. \A e \in Deliveries \ {d} : payment'[e] = payment[e]
    BY <2>1, <1>t DEF TypeInv, Tables
  <2> QED BY <1>1, <1>t, <2>1, <2>2, <2>3, IdleFresh, WorkFresh
<1>8. CASE ConfirmAsk(a)
  <2>1. UNCHANGED <<status, row, payment, charge, disturbed>> /\ job[a].pc = "ask"
    BY <1>8 DEF ConfirmAsk
  <2>2. CASE Goto(a, NoJob)
    BY <1>1, <1>t, <2>1, <2>2, IdleFresh, WorkFresh
  <2>3. CASE Goto(a, [job[a] EXCEPT !.pc = "mark", !.seen = charge[job[a].ref].st])
    <3> DEFINE j == [job[a] EXCEPT !.pc = "mark", !.seen = charge[job[a].ref].st]
    <3>1. j.pc = "mark" /\ j.ref = job[a].ref /\ j.on = d /\ j.seen = charge[job[a].ref].st
      BY <1>1 DEF Jobs
    <3> HIDE DEF j
    <3>2. d \notin disturbed => Charged(d, payment, charge) /\ payment[d].ref = job[a].ref
                                /\ payment[d].method = "PAYSTACK"
      BY <1>1, <2>1 DEF FreshInv, Fresh
    <3>3. Fresh(j, payment, row, disturbed)
      BY <3>1, <3>2 DEF Fresh, Charged
    <3>4. Goto(a, j)
      BY <2>3 DEF j
    <3> QED BY <1>1, <1>t, <2>1, <3>1, <3>3, <3>4, WorkFresh
  <2> QED BY <1>8, <2>2, <2>3 DEF ConfirmAsk
<1>9. CASE ConfirmMark(a)
  <2>1. /\ UNCHANGED <<status, row, charge, disturbed>> /\ job[a].pc = "mark" /\ Goto(a, NoJob)
        /\ payment' = [payment EXCEPT ![d].st = IF job[a].seen = "success" THEN "PAID" ELSE "FAILED"]
    BY <1>9 DEF ConfirmMark
  <2>2. /\ payment'[d].ref = payment[d].ref /\ payment'[d].method = payment[d].method
        /\ job[a].seen # "success" => payment'[d].st # "PAID"
        /\ job[a].ref \in Refs
    <3>1. payment[d] \in PaymentRows /\ job[a].ref \in Refs
      BY <1>t, <2>1, JobFacts DEF TypeInv, Tables
    <3> QED BY <1>1, <1>t, <2>1, <3>1 DEF TypeInv, Tables, PaymentRows
  <2>3. \A e \in Deliveries \ {d} : payment'[e] = payment[e]
    BY <2>1, <1>t DEF TypeInv, Tables
  <2>4. job[a].seen = "success" => charge[job[a].ref].st = "success"
    BY <1>t, <2>1 DEF EarnInv, Backed
  <2>5. d \notin disturbed => Charged(d, payment', charge')
    BY <1>1, <2>1, <2>2, <2>4 DEF Fresh, Charged
  <2> QED BY <1>1, <1>t, <2>1, <2>3, <2>5, IdleFresh, WorkFresh
<1> QED BY <1>2, <1>3, <1>4, <1>5, <1>6, <1>7, <1>8, <1>9

\* A delivery dispatches itself and no other.
Own == \A d \in Deliveries : job[d].on \in {d, None}

LEMMA NextOwn == TypeInv /\ Own /\ [Next]_vars => Own'
<1> SUFFICES ASSUME TypeInv, Own, [Next]_vars PROVE Own'
  OBVIOUS
<1> USE DEF At, Reply
<1>n. NoJob.on = None /\ \A d \in Deliveries : d \in Callers /\ d \notin Actors /\ job[d] \in Jobs
  BY ActorsAssumption, JobFacts DEF NoJob, Callers
<1>1. ASSUME NEW c \in Callers, NEW j, Goto(c, j), j.on \in {job[c].on, None} \/ c \in Actors
      PROVE  Own'
  <2>1. job'[c] = j /\ \A b \in Callers \ {c} : job'[b] = job[b]
    BY <1>1 DEF Goto, TypeInv
  <2> QED BY <1>1, <1>n, <2>1 DEF Own
<1>2. ASSUME NEW c \in Callers, Dispatching(c) \/ Fails(c) \/ (c \in Deliveries /\ TimerFires(c))
      PROVE  Own'
  <2>1. job[c] \in Jobs
    BY JobFacts
  <2>2. PICK j : Goto(c, j) /\ j.on \in {job[c].on, None}
    <3>1. \A pc : [job[c] EXCEPT !.pc = pc].on = job[c].on /\ [NoJob EXCEPT !.pc = pc].on = None
      BY <2>1 DEF Jobs, NoJob
    <3>2. \A x : [job[c] EXCEPT !.pc = "insert", !.rider = x].on = job[c].on
      BY <2>1 DEF Jobs
    <3> QED BY <1>2, <1>n, <3>1, <3>2 DEF Dispatching, ReadDelivery, PickRider, InsertRow, MarkAssigning,
         EndDispatch, Drop, Fails, TimerFires
  <2> QED BY <1>1, <2>2
<1>3. ASSUME NEW a \in Actors, Requests(a) PROVE Own'
  <2>1. CASE CreateReply(a)
    <3> DEFINE j(pc) == [NoJob EXCEPT !.pc = pc, !.on = job[a].on]
    <3>1. PICK pc : job' = [job EXCEPT ![a] = NoJob, ![job[a].on] = j(pc)]
      BY <2>1 DEF CreateReply
    <3>2. j(pc).on = job[a].on
      BY DEF NoJob
    <3> HIDE DEF j
    <3> QED BY <1>n, <3>1, <3>2 DEF Own, TypeInv
  <2>2. CASE UNCHANGED job
    BY <2>2 DEF Own
  <2>3. (\E j : Goto(a, j)) => Own'
    BY <1>1 DEF Callers
  <2> QED BY <1>2, <1>3, <2>1, <2>2, <2>3 DEF Requests, Callers, Create, Begin, Assign, CancelRead, ConfirmRead,
       Patch, InitializeRead, Collect, CancelTx, Upsert, Checkout, KeepReference, ConfirmAsk, ConfirmMark
<1>4. CASE Crash
  BY <1>4, <1>n DEF Crash, Own
<1>5. CASE UNCHANGED job
  BY <1>5 DEF Own
<1> QED BY <1>2, <1>3, <1>4, <1>5 DEF Next, Callers, RiderSteps, Accept, Reject, SetAvailability,
     CustomerPays, vars

LEMMA OthersFresh ==
  ASSUME EarnInv, FreshInv, Own,
         RiderSteps \/ (\E d \in Deliveries : TimerFires(d)) \/ (\E f \in Refs : CustomerPays(f))
           \/ (\E c \in Callers : Fails(c)) \/ Crash
  PROVE  FreshInv'
<1> USE DEF At, rowVars, payVars, histVars
<1>t. TypeInv
  BY DEF EarnInv
<1>a. None \notin Callers
  BY NoneAssumption DEF Callers
<1>1. ASSUME NEW r \in Rows, Accept(r) \/ Reject(r) PROVE FreshInv'
  <2> DEFINE d == row[r].delivery
  <2>1. row[r] \in AssignmentRows
    BY <1>1, <1>t DEF Accept, Reject, TypeInv, Tables
  <2>2. /\ UNCHANGED <<payment, charge, job>> /\ Touch(None, d)
        /\ \A e \in Deliveries : status'[e] = "NONE" => status[e] = "NONE"
        /\ \A s \in Rows \ {r} : row'[s] = row[s]
        /\ row'[r].delivery = d
    BY <1>1, <1>t, <2>1 DEF Accept, Reject, TypeInv, Tables, AssignmentRows
  <2>3. /\ disturbed \subseteq disturbed'
        /\ \A b \in Callers : job[b].on = d /\ job[b].pc # "timer" => d \in disturbed'
    BY <1>a, <2>2 DEF Touch
  <2>4. \A e \in Deliveries \ {d} : OpenRows(e, row') \subseteq OpenRows(e, row)
    BY <2>2 DEF OpenRows
  <2>5. Apart'
    BY <2>2, <2>3 DEF FreshInv, Apart
  <2>6. \A b \in Callers, e \in Deliveries \ disturbed' :
          job'[b] = job[b] /\ job[b].on = e /\ job[b].pc # "timer" =>
            payment'[e] = payment[e] /\ OpenRows(e, row') \subseteq OpenRows(e, row)
    BY <2>2, <2>3, <2>4
  <2> QED BY <2>2, <2>3, <2>5, <2>6, FreshKept
\* The riders' switch, and a customer who pays.
<1>2. CASE \/ \E x \in Riders, on \in BOOLEAN : SetAvailability(x, on)
           \/ \E f \in Refs : CustomerPays(f)
  <2>1. /\ UNCHANGED <<status, row, payment, job, disturbed>>
        /\ \A f \in Refs : charge[f].st = "success" => charge'[f].st = "success"
    BY <1>2, <1>t DEF SetAvailability, CustomerPays, TypeInv, Tables
  <2>2. Apart'
    BY <2>1 DEF FreshInv, Apart
  <2> QED BY <2>1, <2>2, FreshKept
<1>3. ASSUME NEW d \in Deliveries, TimerFires(d) PROVE FreshInv'
  <2> DEFINE j == [job[d] EXCEPT !.pc = "delivery"]
  <2>1. d \in Callers /\ job[d] \in Jobs /\ job[d].on \in Deliveries /\ job[d].pc = "timer"
    BY <1>3, <1>t, JobFacts DEF TimerFires, Callers
  <2>2. j.pc = "delivery" /\ j.on = job[d].on
    BY <2>1 DEF Jobs
  <2> HIDE DEF j
  <2>3. UNCHANGED <<status, row, payment, charge>> /\ Goto(d, j) /\ Touch(d, d)
    BY <1>3 DEF TimerFires, j
  <2>4. job'[d] = j /\ \A b \in Callers \ {d} : job'[b] = job[b]
    BY <1>t, <2>1, <2>3 DEF Goto, TypeInv
  <2>5. /\ disturbed \subseteq disturbed'
        /\ \A b \in Callers \ {d} : job[b].on = d /\ job[b].pc # "timer" => d \in disturbed'
    BY <2>3 DEF Touch
  <2>6. job[d].on = d
    BY <2>1, NoneAssumption DEF Own
  <2>7. Apart'
    BY <2>2, <2>4, <2>5, <2>6, <2>1, ApartKept DEF FreshInv
  <2>8. Fresh(j, payment, row, disturbed') /\ status[j.on] # "NONE"
    BY <2>1, <2>2 DEF Fresh, FreshInv, Known
  <2> QED BY <2>1, <2>3, <2>4, <2>5, <2>7, <2>8, FreshKept
<1>4. CASE (\E c \in Callers : Fails(c)) \/ Crash
  <2>1. /\ UNCHANGED <<status, row, payment, charge, disturbed>>
        /\ \A b \in Callers : job'[b] = job[b] \/ job'[b] = NoJob
    BY <1>4, <1>t DEF Fails, Drop, Goto, Crash, TypeInv
  <2>2. Apart'
    BY <2>1, IdleFresh DEF FreshInv, Apart
  <2> QED BY <2>1, <2>2, IdleFresh, FreshKept
<1> QED BY <1>1, <1>2, <1>3, <1>4 DEF RiderSteps

LEMMA InitFresh == Init => FreshInv /\ Own
<1> SUFFICES ASSUME Init PROVE FreshInv /\ Own
  OBVIOUS
<1>1. \A c \in Callers : job[c] = NoJob
  BY DEF Init
<1>2. \A d \in Deliveries : payment[d] = NoPayment /\ NoPayment.st = "NONE"
  BY DEF Init, NoPayment
<1>3. NoJob.on = None /\ Deliveries \subseteq Callers
  BY DEF NoJob, Callers
<1> QED BY <1>1, <1>2, <1>3, IdleFresh DEF FreshInv, Apart, Known, Charged, Own

LEMMA NextFresh == EarnInv /\ FreshInv /\ Own /\ [Next]_vars => FreshInv' /\ Own'
<1> SUFFICES ASSUME EarnInv, FreshInv, Own, [Next]_vars PROVE FreshInv'
  BY NextOwn DEF EarnInv
<1>1. ASSUME NEW a \in Actors, Requests(a) PROVE FreshInv'
  BY <1>1, BeginFresh, RequestFresh, DispatchFresh DEF Requests, Callers
<1>2. ASSUME NEW d \in Deliveries, Dispatching(d) PROVE FreshInv'
  BY <1>2, DispatchFresh DEF Callers
<1>3. CASE UNCHANGED vars
  BY <1>3 DEF vars, FreshInv, Apart, Known
<1> QED BY <1>1, <1>2, <1>3, OthersFresh DEF Next

\* "... and expire any open offers" (cancelDelivery): for any number of rows, requests and
\* deliveries, a cancellation that nothing overlapped leaves no row of its delivery open.
\* The transaction closes the rows it has read before; no other caller can have added or
\* reopened one meanwhile without being on the delivery too (Apart, Fresh).
THEOREM CancellationsCloseRows == Spec => CancelClosesRows
<1>1. ASSUME TypeInv, FreshInv, [Next]_vars, NEW a \in Actors, CancelTx(a), job[a].on \notin disturbed,
             NEW r \in Rows, row'[r].delivery = job[a].on
      PROVE  row'[r].st \notin {"OFFERED", "ACCEPTED"}
  <2>1. a \in Callers /\ job[a].pc = "cancel" /\ job[a].on \in Deliveries
    BY <1>1, JobFacts DEF CancelTx, At, Callers
  <2>2. OpenRows(job[a].on, row) \subseteq job[a].rows
    BY <1>1, <2>1 DEF FreshInv, Fresh
  <2>3. row' = [s \in Rows |-> IF s \in job[a].rows THEN [row[s] EXCEPT !.st = "EXPIRED"] ELSE row[s]]
    BY <1>1 DEF CancelTx
  <2>4. [row[r] EXCEPT !.st = "EXPIRED"].st = "EXPIRED"
    BY <1>1 DEF TypeInv, Tables, AssignmentRows, NoRow
  <2> QED BY <1>1, <2>2, <2>3, <2>4 DEF OpenRows
<1>2. EarnInv /\ FreshInv /\ [Next]_vars =>
        [\A a \in Actors : CancelTx(a) /\ job[a].on \notin disturbed =>
           \A r \in Rows : row'[r].delivery = job[a].on =>
             row'[r].st \notin {"OFFERED", "ACCEPTED"}]_vars
  BY <1>1 DEF EarnInv
<1> QED BY <1>2, InitEarns, NextEarns, InitFresh, NextFresh, PTL DEF Spec, CancelClosesRows

\* A delivery once PAID stays PAID through any number of confirmations, retries, collections
\* and new payments that follow each other: what ConfirmMark writes by id was read of the
\* charge that paid it.
THEOREM PaidDeliveriesStay == Spec => PaidStays
<1>1. ASSUME EarnInv, FreshInv, [Next]_vars, NEW d \in Deliveries \ disturbed, payment[d].st = "PAID"
      PROVE  payment'[d].st = "PAID"
  <2>t. TypeInv /\ payment[d] \in PaymentRows
    BY <1>1 DEF EarnInv, TypeInv, Tables, NoPayment
  <2>1. ASSUME NEW a \in Actors, NEW m \in Chosen \cup {"NONE"}, NEW e \in Deliveries, Create(a, e, m)
        PROVE  payment'[d] = payment[d]
    <3>1. e # d
      BY <1>1, <2>1 DEF Create, FreshInv, Known, NoPayment
    <3> QED BY <2>1, <2>t, <3>1 DEF Create, TypeInv, Tables
  <2>2. ASSUME NEW a \in Actors, Collect(a) PROVE payment'[d].st = "PAID"
    BY <1>1, <2>2, <2>t DEF Collect, TypeInv, Tables, PaymentRows
  <2>3. ASSUME NEW a \in Actors, Upsert(a) PROVE payment'[d].st = "PAID"
    <3>1. PICK f \in Refs \cup {None}, st \in {"PENDING", payment[d].st} :
            payment' = [payment EXCEPT ![job[a].on] = [method |-> job[a].method, st |-> st, ref |-> f]]
            \/ job[a].on # d
      BY <2>3 DEF Upsert
    <3>2. job[a].pc = "upsert" /\ a \in Callers
      BY <2>3 DEF Upsert, At, Callers
    <3>3. job[a].on # d
      BY <1>1, <3>2 DEF FreshInv, Fresh
    <3> QED BY <1>1, <2>3, <2>t, <3>3 DEF Upsert, TypeInv, Tables
  <2>4. ASSUME NEW a \in Actors, KeepReference(a) PROVE payment'[d].st = "PAID"
    BY <1>1, <2>4, <2>t DEF KeepReference, TypeInv, Tables, PaymentRows
  <2>5. ASSUME NEW a \in Actors, ConfirmMark(a) PROVE payment'[d].st = "PAID"
    <3>1. job[a].pc = "mark" /\ a \in Callers
      BY <2>5 DEF ConfirmMark, At, Callers
    <3>2. job[a].on = d => job[a].seen = "success"
      BY <1>1, <3>1 DEF FreshInv, Fresh
    <3> QED BY <1>1, <2>5, <2>t, <3>2 DEF ConfirmMark, TypeInv, Tables, PaymentRows
  <2>6. CASE UNCHANGED payment
    BY <1>1, <2>6
  <2>7. ASSUME NEW c \in Callers, Dispatching(c) PROVE UNCHANGED payment
    BY <2>7 DEF Dispatching, ReadDelivery, PickRider, InsertRow, MarkAssigning, payVars
  <2>8. ASSUME NEW a \in Actors, Requests(a) PROVE payment'[d].st = "PAID"
    BY <1>1, <2>8, <2>1, <2>2, <2>3, <2>4, <2>5, <2>6, <2>7 DEF Requests, Callers, payVars, Assign,
       CancelRead, ConfirmRead, Patch, InitializeRead, CreateReply, CancelTx, Checkout, ConfirmAsk
  <2>9. CASE RiderSteps \/ (\E e \in Deliveries : TimerFires(e)) \/ (\E f \in Refs : CustomerPays(f))
             \/ (\E c \in Callers : Fails(c)) \/ Crash \/ UNCHANGED vars
    BY <2>6, <2>9 DEF RiderSteps, Accept, Reject, SetAvailability, TimerFires, CustomerPays, Fails,
       Crash, vars, payVars
  <2> QED BY <1>1, <2>6, <2>7, <2>8, <2>9 DEF Next, Callers
<1>2. EarnInv /\ FreshInv /\ [Next]_vars =>
        [\A d \in Deliveries \ disturbed : payment[d].st = "PAID" => payment'[d].st = "PAID"]_vars
  BY <1>1
<1> QED BY <1>2, InitEarns, NextEarns, InitFresh, NextFresh, PTL DEF Spec, PaidStays

-----------------------------------------------------------------------------
(* The contract: every step is one of its steps, about one delivery.              *)

Orders == [at : {"none", "open", "calledOff", "gone"}, with : SUBSET Riders,
           bill : {"none", "due", "failed", "paid"}, received : BOOLEAN]
ReportedStages == {Stage(s) : s \in Patched}

\* What may become of an order v, the contract's steps but Void in terms of the order alone.
SamePay(v, w) == w.bill = v.bill /\ w.received = v.received
SameWay(v, w) == w.at = v.at /\ w.with = v.with
Moves(v, w) ==
  \/ w = v
  \/ v.at = "none" /\ w.at = "open" /\ w.with = {} /\ w.bill \in {"none", "due"} /\ w.received = FALSE
  \/ v.at # "none" /\ SamePay(v, w) /\ w.with = v.with /\ w.at \in ReportedStages \cup {"open"}
  \/ v.at # "none" /\ w.bill = v.bill /\ w.with = v.with /\ w.at = "gone" /\ w.received = TRUE
       /\ "gone" \in ReportedStages
  \/ v.at # "none" /\ SamePay(v, w) /\ \E x \in Riders :
       \/ w.with = v.with \cup {x} /\ w.at \in {v.at, "open"}
       \/ w.with = v.with \ {x} /\ w.at = v.at
  \/ v.at = "open" /\ SamePay(v, w) /\ w.with = {} /\ w.at = "calledOff"
  \/ v.at # "none" /\ SameWay(v, w) /\
       \/ v.bill = "none" /\ w.bill = "due" /\ w.received = v.received
       \/ w.bill = v.bill /\ w.received = TRUE
       \/ v.bill \in {"due", "failed"} /\ w.bill = "failed" /\ w.received = v.received
       \/ v.bill # "none" /\ v.received = TRUE /\ w.bill = "paid" /\ w.received = TRUE

LEMMA OrdersTyped == TypeInv => \A d \in Deliveries : Order(d) \in Orders
<1> SUFFICES ASSUME TypeInv, NEW d \in Deliveries PROVE Order(d) \in Orders
  OBVIOUS
<1>1. Stage(status[d]) \in {"none", "open", "calledOff", "gone"}
  BY DEF Stage
<1>2. payment[d].st \in {"NONE", "PENDING", "PAID", "FAILED"}
  BY DEF TypeInv, Tables, PaymentRows, NoPayment
<1>3. Billed(payment[d].st) \in {"none", "due", "failed", "paid"}
  BY <1>2 DEF Billed
<1>4. Asked(d) \in SUBSET Riders
  <2>1. \A r \in Rows : row[r].st \in {"OFFERED", "ACCEPTED"} => row[r].rider \in Riders
    BY DEF TypeInv, Tables, AssignmentRows, NoRow
  <2> QED BY <2>1 DEF Asked
<1>5. Received(d) \in BOOLEAN
  BY DEF Received
<1> QED BY <1>1, <1>3, <1>4, <1>5 DEF Order, Orders

LEMMA OrdersStayTyped == TypeInv' => (\A d \in Deliveries : Order(d) \in Orders)'
BY OrdersTyped, PTL

LEMMA ContractMoves ==
  ASSUME NEW d \in Deliveries, NEW v \in Orders, NEW w \in Orders, standing[d] = v,
         standing' = [standing EXCEPT ![d] = w], Moves(v, w)
  PROVE  [Contract!Next]_standing
<1> USE DEF Contract!Becomes, Contract!Exists
<1>1. v.at # "void" /\ w = [at |-> w.at, with |-> w.with, bill |-> w.bill, received |-> w.received]
      /\ w.at \in Contract!Stages /\ w.bill \in Contract!Bills
  BY DEF Orders, Contract!Stages, Contract!Bills
<1>2. CASE w = v
  <2>1. standing' = standing
    BY <1>2 DEF standing
  <2> QED BY <2>1
<1>3. CASE v.at = "none" /\ w.at = "open" /\ w.with = {} /\ w.bill \in {"none", "due"} /\ w.received = FALSE
  <2> DEFINE o == Contract!Nothing("open")
  <2>o. o \in Orders /\ o.at = "open" /\ o.with = {} /\ o.bill = "none" /\ o.received = FALSE
    BY DEF Contract!Nothing, Orders
  <2> HIDE DEF o
  <2>1. w = [o EXCEPT !.bill = w.bill]
    BY <1>1, <1>3, <2>o DEF Orders
  <2>2. Contract!Place(d, w.bill)
    BY <1>1, <1>3, <2>1 DEF Contract!Place, o
  <2> QED BY <1>1, <2>2 DEF Contract!Next
<1>4. CASE v.at # "none" /\ SamePay(v, w) /\ w.with = v.with /\ w.at \in ReportedStages \cup {"open"}
  <2>1. w = [v EXCEPT !.at = w.at]
    BY <1>1, <1>4 DEF SamePay, Orders
  <2>2. Contract!Serve(d) \/ Contract!Report(d, w.at)
    BY <1>1, <1>4, <2>1 DEF Contract!Serve, Contract!Report, ReportedStages
  <2> QED BY <1>1, <2>2 DEF Contract!Next
<1>5. CASE v.at # "none" /\ w.bill = v.bill /\ w.with = v.with /\ w.at = "gone" /\ w.received = TRUE
             /\ "gone" \in ReportedStages
  <2>1. w = [v EXCEPT !.at = "gone", !.received = TRUE]
    BY <1>1, <1>5 DEF Orders
  <2>2. Contract!HandOver(d)
    BY <1>1, <1>5, <2>1 DEF Contract!HandOver, ReportedStages
  <2> QED BY <2>2 DEF Contract!Next
<1>6. ASSUME v.at # "none", SamePay(v, w), NEW x \in Riders,
             \/ w.with = v.with \cup {x} /\ w.at \in {v.at, "open"}
             \/ w.with = v.with \ {x} /\ w.at = v.at
      PROVE  [Contract!Next]_standing
  <2>1. CASE w.with = v.with \cup {x} /\ w.at = v.at
    <3>1. w = [v EXCEPT !.with = @ \cup {x}]
      BY <1>1, <1>6, <2>1 DEF SamePay, Orders
    <3>2. Contract!Offer(d, x)
      BY <1>1, <1>6, <3>1 DEF Contract!Offer
    <3> QED BY <3>2 DEF Contract!Next
  <2>2. CASE w.with = v.with \cup {x} /\ w.at = "open"
    <3>1. w = [v EXCEPT !.with = @ \cup {x}, !.at = "open"]
      BY <1>1, <1>6, <2>2 DEF SamePay, Orders
    <3>2. Contract!Take(d, x)
      BY <1>1, <1>6, <3>1 DEF Contract!Take
    <3> QED BY <3>2 DEF Contract!Next
  <2>3. CASE w.with = v.with \ {x} /\ w.at = v.at
    <3>1. w = [v EXCEPT !.with = @ \ {x}]
      BY <1>1, <1>6, <2>3 DEF SamePay, Orders
    <3>2. Contract!Decline(d, x)
      BY <1>1, <1>6, <3>1 DEF Contract!Decline
    <3> QED BY <3>2 DEF Contract!Next
  <2> QED BY <1>6, <2>1, <2>2, <2>3
<1>7. CASE v.at = "open" /\ SamePay(v, w) /\ w.with = {} /\ w.at = "calledOff"
  <2>1. w = [v EXCEPT !.at = "calledOff", !.with = {}]
    BY <1>1, <1>7 DEF SamePay, Orders
  <2>2. Contract!CallOff(d)
    BY <1>7, <2>1 DEF Contract!CallOff
  <2> QED BY <2>2 DEF Contract!Next
<1>8. CASE v.at # "none" /\ SameWay(v, w) /\ v.bill = "none" /\ w.bill = "due" /\ w.received = v.received
  <2>1. w = [v EXCEPT !.bill = "due"]
    BY <1>1, <1>8 DEF SameWay, Orders
  <2>2. Contract!Bill(d)
    BY <1>1, <1>8, <2>1 DEF Contract!Bill
  <2> QED BY <2>2 DEF Contract!Next
<1>9. CASE v.at # "none" /\ SameWay(v, w) /\ w.bill = v.bill /\ w.received = TRUE
  <2>1. w = [v EXCEPT !.received = TRUE]
    BY <1>1, <1>9 DEF SameWay, Orders
  <2>2. Contract!Receive(d)
    BY <1>1, <1>9, <2>1 DEF Contract!Receive
  <2> QED BY <2>2 DEF Contract!Next
<1>10. CASE v.at # "none" /\ SameWay(v, w) /\ v.bill \in {"due", "failed"} /\ w.bill = "failed"
              /\ w.received = v.received
  <2>1. w = [v EXCEPT !.bill = "failed"]
    BY <1>1, <1>10 DEF SameWay, Orders
  <2>2. Contract!Refuse(d)
    BY <1>1, <1>10, <2>1 DEF Contract!Refuse
  <2> QED BY <2>2 DEF Contract!Next
<1>11. CASE v.at # "none" /\ SameWay(v, w) /\ v.bill # "none" /\ v.received = TRUE /\ w.bill = "paid" /\ w.received = TRUE
  <2>1. w = [v EXCEPT !.bill = "paid"]
    BY <1>1, <1>11 DEF SameWay, Orders
  <2>2. Contract!Settle(d)
    BY <1>1, <1>11, <2>1 DEF Contract!Settle
  <2> QED BY <2>2 DEF Contract!Next
<1> QED BY <1>2, <1>3, <1>4, <1>5, <1>6, <1>7, <1>8, <1>9, <1>10, <1>11 DEF Moves

\* A step is about one delivery, which it may void.
LEMMA AboutOne ==
  ASSUME TypeInv, TypeInv', NEW d \in Deliveries, disturbed' \in {disturbed, disturbed \cup {d}},
         \A e \in Deliveries \ {d} : Order(e)' = Order(e),
         d \notin disturbed' => Moves(Order(d), Order(d)')
  PROVE  [Contract!Next]_standing
<1>1. standing' = [standing EXCEPT ![d] = standing'[d]]
  BY DEF standing
<1>2. CASE d \in disturbed
  <2>1. standing' = standing
    BY <1>2 DEF standing
  <2> QED BY <2>1
<1>3. CASE d \notin disturbed /\ d \in disturbed'
  <2>1. standing'[d] = Contract!Nothing("void")
    BY <1>3 DEF standing, Voided, Contract!Nothing
  <2>2. Contract!Void(d)
    BY <1>1, <2>1 DEF Contract!Void, Contract!Becomes
  <2> QED BY <2>2 DEF Contract!Next
<1>4. CASE d \notin disturbed'
  <2>1. standing[d] = Order(d) /\ standing'[d] = Order(d)'
    BY <1>4 DEF standing
  <2>2. Order(d) \in Orders /\ Order(d)' \in Orders
    BY OrdersTyped, OrdersStayTyped
  <2> QED BY <1>1, <1>4, <2>1, <2>2, ContractMoves
<1> QED BY <1>2, <1>3, <1>4

\* Nothing is kept of a delivery before it is created (payments: Known).
Unborn ==
  \A d \in Deliveries : status[d] = "NONE" =>
    /\ d \notin handed
    /\ \A r \in Rows : row[r].delivery # d
    /\ \A f \in Refs : charge[f].of # d

\* What a cancellation has read of its delivery: that it may be called off, and whose rows.
Callable ==
  \A c \in Callers : job[c].pc = "cancel" =>
    /\ job[c].on \notin disturbed => status[job[c].on] \in Cancellable
    /\ \A r \in job[c].rows : row[r].delivery = job[c].on

ContractInv == Unborn /\ Callable

LEMMA RowsOfOthers == NoRow.delivery = None /\ NoRow.st = "NONE" /\ NoCharge.of = None
                      /\ None \notin Deliveries
BY NoneAssumption DEF NoRow, NoCharge

\* Rows are never given to another delivery, nor charges.
LEMMA ForGood ==
  ASSUME TypeInv, [Next]_vars
  PROVE  /\ \A r \in Rows : row[r] # NoRow => row'[r].delivery = row[r].delivery
         /\ \A d \in Deliveries : status'[d] = "NONE" => status[d] = "NONE"
<1> USE DEF rowVars, payVars, histVars
<1>1. CASE UNCHANGED <<row, status>>
  BY <1>1
<1>2. ASSUME NEW c \in Callers, InsertRow(c) \/ MarkAssigning(c)
      PROVE  /\ \A r \in Rows : row[r] # NoRow => row'[r].delivery = row[r].delivery
             /\ \A d \in Deliveries : status'[d] = "NONE" => status[d] = "NONE"
  BY <1>2 DEF InsertRow, MarkAssigning, TypeInv, Tables
<1>3. ASSUME NEW a \in Actors, NEW d \in Deliveries,
             \/ \E s \in Patched : Patch(a, d, s)
             \/ \E m \in Chosen \cup {"NONE"} : Create(a, d, m)
      PROVE  UNCHANGED row /\ \A e \in Deliveries : status'[e] = "NONE" => status[e] = "NONE"
  BY <1>3, PatchedAssumption DEF Patch, Create, TypeInv, Tables, Statuses
<1>4. ASSUME NEW r \in Rows, Accept(r) \/ Reject(r)
      PROVE  /\ \A s \in Rows : row[s] # NoRow => row'[s].delivery = row[s].delivery
             /\ \A d \in Deliveries : status'[d] = "NONE" => status[d] = "NONE"
  <2>1. row[r] \in AssignmentRows
    BY <1>4 DEF Accept, Reject, TypeInv, Tables
  <2> QED BY <1>4, <2>1 DEF Accept, Reject, TypeInv, Tables, AssignmentRows
<1>5. ASSUME NEW a \in Actors, CancelTx(a)
      PROVE  /\ \A s \in Rows : row[s] # NoRow => row'[s].delivery = row[s].delivery
             /\ \A d \in Deliveries : status'[d] = "NONE" => status[d] = "NONE"
  <2>1. \A s \in Rows : row[s] # NoRow => [row[s] EXCEPT !.st = "EXPIRED"].delivery = row[s].delivery
    BY DEF TypeInv, Tables, AssignmentRows
  <2> QED BY <1>5, <2>1 DEF CancelTx, TypeInv, Tables
<1>6. ASSUME NEW a \in Actors, Requests(a)
      PROVE  /\ \A r \in Rows : row[r] # NoRow => row'[r].delivery = row[r].delivery
             /\ \A d \in Deliveries : status'[d] = "NONE" => status[d] = "NONE"
  <2>1. CASE \/ \E d \in Deliveries : \/ \E s \in Patched : Patch(a, d, s)
                                     \/ \E m \in Chosen \cup {"NONE"} : Create(a, d, m)
    BY <1>3, <2>1
  <2>2. CASE InsertRow(a) \/ MarkAssigning(a)
    BY <1>2, <2>2 DEF Callers
  <2>3. CASE CancelTx(a)
    BY <1>5, <2>3
  <2>4. CASE UNCHANGED <<row, status>>
    BY <1>1, <2>4
  <2> QED BY <1>6, <2>1, <2>2, <2>3, <2>4 DEF Requests, Dispatching, ReadDelivery, PickRider, Assign,
     CancelRead, ConfirmRead, InitializeRead, CreateReply, Collect, Upsert, Checkout,
     KeepReference, ConfirmAsk, ConfirmMark
<1> QED BY <1>1, <1>2, <1>4, <1>6 DEF Next, Callers, Dispatching, ReadDelivery, PickRider, TimerFires,
     RiderSteps, SetAvailability, CustomerPays, Fails, Crash, vars

LEMMA NextUnborn == TypeInv /\ Known /\ Unborn /\ [Next]_vars => Unborn'
<1> SUFFICES ASSUME TypeInv, Known, Unborn, [Next]_vars, NEW d \in Deliveries, status'[d] = "NONE"
             PROVE  /\ d \notin handed'
                    /\ \A r \in Rows : row'[r].delivery # d
                    /\ \A f \in Refs : charge'[f].of # d
  BY DEF Unborn
<1> USE DEF rowVars, payVars, histVars
<1>1. /\ status[d] = "NONE" /\ d \notin handed
      /\ \A r \in Rows : row[r].delivery # d
      /\ \A f \in Refs : charge[f].of # d
      /\ \A c \in Callers : job[c].on # d
  BY ForGood DEF Unborn, Known
<1>2. d \notin handed'
  BY <1>1 DEF Next, Requests, Dispatching, RiderSteps, Create, CreateReply, TimerFires, ReadDelivery, Assign,
     PickRider, InsertRow, MarkAssigning, Accept, Reject, SetAvailability, Patch, Collect, CancelRead,
     CancelTx, InitializeRead, Upsert, Checkout, KeepReference, CustomerPays, ConfirmRead, ConfirmAsk,
     ConfirmMark, Fails, Crash, vars
<1>3. \A r \in Rows : row'[r].delivery # d
  <2>1. \A r \in Rows : row[r] # NoRow => row'[r].delivery # d
    BY <1>1, ForGood
  <2>2. ASSUME NEW r \in Rows, row[r] = NoRow, row'[r] # row[r] PROVE row'[r].delivery # d
    <3>1. ASSUME NEW c \in Callers, InsertRow(c) PROVE row'[r].delivery # d
      BY <1>1, <2>2, <3>1 DEF InsertRow, TypeInv, Tables
    <3>2. ASSUME NEW s \in Rows, Accept(s) \/ Reject(s) PROVE FALSE
      BY <2>2, <3>2 DEF Accept, Reject, TypeInv, Tables
    <3>3. ASSUME NEW a \in Actors, CancelTx(a) PROVE FALSE
      BY <2>2, <3>3, JobFacts DEF CancelTx, Callers
    <3>4. CASE UNCHANGED row
      BY <2>2, <3>4
    <3>5. ASSUME NEW a \in Actors, Requests(a) PROVE row'[r].delivery # d
      BY <3>1, <3>3, <3>4, <3>5 DEF Requests, Callers, Dispatching, ReadDelivery, PickRider, MarkAssigning,
         Create, Assign, CancelRead, ConfirmRead, Patch, InitializeRead, CreateReply, Collect, Upsert,
         Checkout, KeepReference, ConfirmAsk, ConfirmMark
    <3> QED BY <3>1, <3>2, <3>4, <3>5 DEF Next, Callers, Dispatching, ReadDelivery, PickRider,
         MarkAssigning, TimerFires, RiderSteps, SetAvailability, CustomerPays, Fails, Crash, vars
  <2> QED BY <1>1, <2>1, <2>2
<1>4. \A f \in Refs : charge'[f].of # d
  <2>1. ASSUME NEW a \in Actors, Upsert(a) PROVE \A f \in Refs : charge'[f].of # d
    <3>1. CASE UNCHANGED charge
      BY <1>1, <3>1
    <3>2. ASSUME NEW g \in Refs, charge' = [charge EXCEPT ![g] = [of |-> job[a].on, st |-> "none"]]
          PROVE  \A f \in Refs : charge'[f].of # d
      BY <1>1, <3>2 DEF Callers, TypeInv, Tables
    <3> QED BY <2>1, <3>1, <3>2 DEF Upsert
  <2>2. ASSUME NEW g \in Refs, NEW st, charge[g] # NoCharge, charge' = [charge EXCEPT ![g].st = st]
        PROVE  \A f \in Refs : charge'[f].of # d
    BY <1>1, <2>2 DEF TypeInv, Tables, Charges
  <2>3. ASSUME NEW a \in Actors, Checkout(a) PROVE \A f \in Refs : charge'[f].of # d
    BY <2>2, <2>3, JobFacts DEF Checkout, At, Callers
  <2>4. ASSUME NEW f \in Refs, CustomerPays(f) PROVE \A g \in Refs : charge'[g].of # d
    <3>1. charge[f] # NoCharge /\ charge' = [charge EXCEPT ![f].st = "success"]
      BY <2>4 DEF CustomerPays, NoCharge
    <3> QED BY <2>2, <3>1
  <2>5. CASE UNCHANGED charge
    BY <1>1, <2>5
  <2>6. ASSUME NEW a \in Actors, Requests(a) PROVE \A f \in Refs : charge'[f].of # d
    BY <2>1, <2>3, <2>5, <2>6 DEF Requests, Dispatching, ReadDelivery, PickRider, InsertRow, MarkAssigning,
       Create, Assign, CancelRead, ConfirmRead, Patch, InitializeRead, CreateReply, Collect, CancelTx,
       KeepReference, ConfirmAsk, ConfirmMark
  <2> QED BY <2>4, <2>5, <2>6 DEF Next, Dispatching, ReadDelivery, PickRider, InsertRow, MarkAssigning,
       TimerFires, RiderSteps, Accept, Reject, SetAvailability, Fails, Crash, vars
<1> QED BY <1>2, <1>3, <1>4

\* Only CancelRead begins a cancellation.
LEMMA NoNewCancel ==
  ASSUME TypeInv, [Next]_vars, NEW c \in Callers, job'[c] # job[c], job'[c].pc = "cancel"
  PROVE  \E d \in Deliveries : c \in Actors /\ CancelRead(c, d)
<1> USE DEF At, Reply
<1>n. NoJob.pc = "idle"
  BY DEF NoJob
<1>1. ASSUME NEW b \in Callers, NEW j, Goto(b, j), j.pc # "cancel" PROVE FALSE
  BY <1>1 DEF Goto, TypeInv
<1>2. ASSUME NEW b \in Callers, Dispatching(b) \/ Fails(b) \/ (b \in Deliveries /\ TimerFires(b))
      PROVE  FALSE
  <2>1. job[b] \in Jobs
    BY JobFacts
  <2>2. PICK j : Goto(b, j) /\ j.pc # "cancel"
    <3>1. \A pc : [job[b] EXCEPT !.pc = pc].pc = pc /\ [NoJob EXCEPT !.pc = pc].pc = pc
      BY <2>1 DEF Jobs, NoJob
    <3>2. \A x : [job[b] EXCEPT !.pc = "insert", !.rider = x].pc = "insert"
      BY <2>1 DEF Jobs
    <3>3. CASE EndDispatch(b) \/ Drop(b)
      BY <1>n, <3>1, <3>3 DEF EndDispatch, Drop
    <3>4. CASE \E pc \in {"riders", "assigning", "delivery"} : Goto(b, [job[b] EXCEPT !.pc = pc])
      BY <3>1, <3>4
    <3>5. CASE \E x : Goto(b, [job[b] EXCEPT !.pc = "insert", !.rider = x])
      BY <3>2, <3>5
    <3> QED BY <1>2, <3>3, <3>4, <3>5 DEF Dispatching, ReadDelivery, PickRider, InsertRow, MarkAssigning,
         Fails, TimerFires
  <2> QED BY <1>1, <2>2
<1>3. ASSUME NEW a \in Actors, NEW d \in Deliveries, NEW j \in Jobs, Begin(a, d, j), j.pc # "cancel"
      PROVE  FALSE
  <2>1. [j EXCEPT !.on = d].pc # "cancel"
    BY <1>3 DEF Jobs
  <2> QED BY <1>1, <1>3, <2>1 DEF Begin, Callers
<1>4. ASSUME NEW a \in Actors, NEW d \in Deliveries,
             \/ \E m \in Chosen \cup {"NONE"} : Create(a, d, m)
             \/ Assign(a, d) \/ ConfirmRead(a, d)
             \/ \E s \in Patched : Patch(a, d, s)
             \/ \E m \in Chosen : InitializeRead(a, d, m)
      PROVE  FALSE
  <2>1. ASSUME NEW pc \in JobPCs PROVE [NoJob EXCEPT !.pc = pc] \in Jobs /\ [NoJob EXCEPT !.pc = pc].pc = pc
    BY DEF NoJob, Jobs
  <2>2. ASSUME NEW m \in Methods
        PROVE  /\ [NoJob EXCEPT !.pc = "upsert", !.method = m] \in Jobs
               /\ [NoJob EXCEPT !.pc = "upsert", !.method = m].pc = "upsert"
    BY DEF NoJob, Jobs, JobPCs
  <2>3. ASSUME NEW f \in Refs \cup {None}
        PROVE  /\ [NoJob EXCEPT !.pc = "ask", !.ref = f] \in Jobs
               /\ [NoJob EXCEPT !.pc = "ask", !.ref = f].pc = "ask"
    BY DEF NoJob, Jobs, JobPCs
  <2>4. payment[d].ref \in Refs \cup {None} /\ {"created", "riders", "collect"} \subseteq JobPCs
    BY DEF TypeInv, Tables, PaymentRows, NoPayment, JobPCs
  <2>5. CASE Assign(a, d) \/ \E m \in Chosen \cup {"NONE"} : Create(a, d, m)
    BY <1>3, <2>1, <2>4, <2>5 DEF Assign, Create
  <2>6. CASE ConfirmRead(a, d) \/ \E m \in Chosen : InitializeRead(a, d, m)
    BY <1>3, <2>2, <2>3, <2>4, <2>6, ChosenAssumption DEF ConfirmRead, InitializeRead
  <2>7. ASSUME NEW s \in Patched, Patch(a, d, s) PROVE FALSE
    BY <1>3, <2>1, <2>4, <2>7 DEF Patch
  <2> QED BY <1>4, <2>5, <2>6, <2>7
<1>5. ASSUME NEW a \in Actors,
             \/ CreateReply(a) \/ Collect(a) \/ CancelTx(a) \/ Upsert(a) \/ Checkout(a) \/ KeepReference(a)
             \/ ConfirmAsk(a) \/ ConfirmMark(a)
      PROVE  FALSE
  <2>1. a \in Callers /\ job[a] \in Jobs
    BY JobFacts DEF Callers
  <2>2. CASE CreateReply(a)
    <3>1. PICK pc \in {"timer", "delivery"} :
            job' = [job EXCEPT ![a] = NoJob, ![job[a].on] = [NoJob EXCEPT !.pc = pc, !.on = job[a].on]]
      BY <2>2 DEF CreateReply
    <3>2. [NoJob EXCEPT !.pc = pc, !.on = job[a].on].pc = pc
      BY DEF NoJob
    <3> QED BY <1>n, <3>1, <3>2 DEF TypeInv
  <2>3. CASE ~CreateReply(a)
    <3>1. \A f : [job[a] EXCEPT !.pc = "checkout", !.ref = f].pc = "checkout"
      BY <2>1 DEF Jobs
    <3>2. [job[a] EXCEPT !.pc = "keep"].pc = "keep"
          /\ \A x : [job[a] EXCEPT !.pc = "mark", !.seen = x].pc = "mark"
      BY <2>1 DEF Jobs
    <3>3. PICK j : Goto(a, j) /\ j.pc # "cancel"
      BY <1>5, <1>n, <2>3, <3>1, <3>2 DEF Collect, CancelTx, Upsert, Checkout, KeepReference,
         ConfirmAsk, ConfirmMark
    <3> QED BY <1>1, <2>1, <3>3
  <2> QED BY <2>2, <2>3
<1>6. ASSUME NEW a \in Actors, NEW d \in Deliveries, CancelRead(a, d) PROVE a = c
  BY <1>6 DEF CancelRead, Begin, Goto, TypeInv
<1>7. CASE Crash
  BY <1>7, <1>n DEF Crash
<1>8. CASE UNCHANGED job
  BY <1>8
<1>9. ASSUME NEW a \in Actors, Requests(a) PROVE \E d \in Deliveries : c \in Actors /\ CancelRead(c, d)
  BY <1>2, <1>4, <1>5, <1>6, <1>9 DEF Requests, Callers
<1> QED BY <1>2, <1>7, <1>8, <1>9 DEF Next, Callers, RiderSteps, Accept, Reject, SetAvailability,
     CustomerPays, vars

\* Overlaps are never forgotten.
LEMMA DisturbedGrows == ASSUME [Next]_vars PROVE disturbed \subseteq disturbed'
<1>1. ASSUME NEW c, NEW d, Touch(c, d) PROVE disturbed \subseteq disturbed'
  BY <1>1 DEF Touch
<1>2. ASSUME NEW a, NEW d, NEW j, Begin(a, d, j) PROVE disturbed \subseteq disturbed'
  BY <1>1, <1>2 DEF Begin
<1>3. ASSUME NEW a, NEW d,
             \/ \E m \in Chosen \cup {"NONE"} : Create(a, d, m)
             \/ Assign(a, d) \/ CancelRead(a, d) \/ ConfirmRead(a, d)
             \/ \E s \in Patched : Patch(a, d, s)
             \/ \E m \in Chosen : InitializeRead(a, d, m)
      PROVE  disturbed \subseteq disturbed'
  BY <1>1, <1>2, <1>3 DEF Create, Assign, CancelRead, ConfirmRead, Patch, InitializeRead
<1>4. CASE UNCHANGED disturbed
  BY <1>4
<1>5. ASSUME NEW a, Requests(a) PROVE disturbed \subseteq disturbed'
  BY <1>3, <1>4, <1>5 DEF Requests, Dispatching, ReadDelivery, PickRider, InsertRow, MarkAssigning,
     CreateReply, Collect, CancelTx, Upsert, Checkout, KeepReference, ConfirmAsk, ConfirmMark, histVars
<1>6. ASSUME RiderSteps PROVE disturbed \subseteq disturbed'
  BY <1>1, <1>4, <1>6 DEF RiderSteps, Accept, Reject, SetAvailability, histVars
<1>7. ASSUME NEW d \in Deliveries, TimerFires(d) PROVE disturbed \subseteq disturbed'
  BY <1>1, <1>7 DEF TimerFires
<1> QED BY <1>4, <1>5, <1>6, <1>7 DEF Next, Dispatching, ReadDelivery, PickRider, InsertRow, MarkAssigning,
     CustomerPays, Fails, Crash, vars, histVars

\* Whoever changes the status of a delivery that is being cancelled disturbs it.
LEMMA StatusGuarded ==
  ASSUME TypeInv, FreshInv, [Next]_vars, NEW c \in Callers, job[c].pc = "cancel", job'[c] = job[c],
         job[c].on \notin disturbed'
  PROVE  status'[job[c].on] = status[job[c].on]
<1> DEFINE d == job[c].on
<1>1. d \in Deliveries /\ c # None
  BY JobFacts, NoneAssumption DEF Callers
<1>2. disturbed \subseteq disturbed'
  BY DisturbedGrows
<1>3. CASE UNCHANGED status
  BY <1>3
<1>4. ASSUME NEW a \in Actors, NEW m, NEW e \in Deliveries, Create(a, e, m) PROVE status'[d] = status[d]
  <2>1. e # d
    BY <1>1, <1>4 DEF Create, FreshInv, Known
  <2> QED BY <1>1, <1>4, <2>1 DEF Create, TypeInv, Tables
<1>5. ASSUME NEW b \in Callers, MarkAssigning(b) PROVE status'[d] = status[d]
  <2>1. job[b].pc = "assigning"
    BY <1>5 DEF MarkAssigning, At
  <2>2. job[b].on # d
    BY <1>1, <1>2, <2>1, AtWork
  <2> QED BY <1>1, <1>5, <2>2 DEF MarkAssigning, TypeInv, Tables
<1>6. ASSUME NEW a \in Actors, CancelTx(a) PROVE status'[d] = status[d]
  <2>1. a \in Callers /\ a # c
    <3>1. a \in Callers /\ job'[a] = NoJob /\ job[a].pc = "cancel" /\ NoJob.pc = "idle"
      BY <1>6 DEF CancelTx, Reply, Goto, At, TypeInv, Callers, NoJob
    <3> QED BY <3>1
  <2>2. job[a].on # d
    BY <1>1, <1>2, <1>6, <2>1, AtWork DEF CancelTx, At
  <2> QED BY <1>1, <1>6, <2>2 DEF CancelTx, TypeInv, Tables
<1>7. ASSUME NEW r \in Rows, Accept(r) PROVE status'[d] = status[d]
  <2>1. row[r].delivery # d
    BY <1>1, <1>7 DEF Accept, Touch, At
  <2> QED BY <1>1, <1>7, <2>1 DEF Accept, TypeInv, Tables
<1>8. ASSUME NEW a \in Actors, NEW s \in Patched, NEW e \in Deliveries, Patch(a, e, s)
      PROVE  status'[d] = status[d]
  <2>1. job[a].pc = "idle"
    BY <1>8 DEF Patch, Begin, At
  <2>2. e # d
    BY <1>1, <1>8, <2>1 DEF Patch, Begin, Touch, At
  <2> QED BY <1>1, <1>8, <2>2 DEF Patch, TypeInv, Tables
<1>9. ASSUME NEW a \in Actors, Requests(a) PROVE status'[d] = status[d]
  <2> HIDE DEF d
  <2>1. CASE \E e \in Deliveries : \/ \E s \in Patched : Patch(a, e, s)
                                  \/ \E m \in Chosen \cup {"NONE"} : Create(a, e, m)
    BY <1>4, <1>8, <2>1
  <2>2. CASE MarkAssigning(a) \/ CancelTx(a)
    BY <1>5, <1>6, <2>2 DEF Callers
  <2> QED BY <1>3, <1>9, <2>1, <2>2 DEF Requests, Dispatching, ReadDelivery, PickRider, InsertRow,
     Assign, CancelRead, ConfirmRead, InitializeRead, CreateReply, Collect, Upsert, Checkout,
     KeepReference, ConfirmAsk, ConfirmMark
<1> QED BY <1>3, <1>5, <1>7, <1>9 DEF Next, Callers, Dispatching, ReadDelivery, PickRider, InsertRow,
     TimerFires, RiderSteps, Reject, SetAvailability, CustomerPays, Fails, Crash, vars

LEMMA NextCallable == TypeInv /\ FreshInv /\ Callable /\ [Next]_vars => Callable'
<1> SUFFICES ASSUME TypeInv, FreshInv, Callable, [Next]_vars, NEW c \in Callers, job'[c].pc = "cancel"
             PROVE  /\ job'[c].on \notin disturbed' => status'[job'[c].on] \in Cancellable
                    /\ \A r \in job'[c].rows : row'[r].delivery = job'[c].on
  BY DEF Callable
<1>1. CASE job'[c] = job[c]
  <2>1. disturbed \subseteq disturbed'
    BY DisturbedGrows
  <2>2. \A r \in job[c].rows : row'[r].delivery = row[r].delivery
    BY ForGood, JobFacts
  <2> QED BY <1>1, <2>1, <2>2, StatusGuarded DEF Callable
<1>2. CASE job'[c] # job[c]
  <2>1. PICK d \in Deliveries : c \in Actors /\ CancelRead(c, d)
    BY <1>2, NoNewCancel
  <2>2. job'[c].on = d /\ \A r \in job'[c].rows : row[r].delivery = d
    <3> DEFINE open == {r \in Rows : row[r].delivery = d /\ row[r].st \in {"OFFERED", "ACCEPTED"}}
               j == [NoJob EXCEPT !.pc = "cancel", !.rows = open]
    <3>1. j \in Jobs /\ [j EXCEPT !.on = d].on = d /\ [j EXCEPT !.on = d].rows = open
      BY DEF NoJob, Jobs, JobPCs
    <3>2. Goto(c, [j EXCEPT !.on = d])
      BY <2>1 DEF CancelRead, Begin
    <3> HIDE DEF j
    <3>3. job'[c] = [j EXCEPT !.on = d]
      BY <3>2 DEF Goto, TypeInv
    <3> QED BY <3>1, <3>3
  <2>3. UNCHANGED <<status, row>> /\ status[d] \in Cancellable
    BY <2>1 DEF CancelRead, rowVars
  <2> QED BY <2>2, <2>3
<1> QED BY <1>1, <1>2

\* What an order shows, and when it does not change.
LEMMA OrderShows ==
  ASSUME NEW d \in Deliveries
  PROVE  /\ Order(d).at = Stage(status[d]) /\ Order(d).with = Asked(d)
         /\ Order(d).bill = Billed(payment[d].st) /\ Order(d).received = Received(d)
         /\ Order(d)'.at = Stage(status'[d]) /\ Order(d)'.with = Asked(d)'
         /\ Order(d)'.bill = Billed(payment'[d].st) /\ Order(d)'.received = Received(d)'
         /\ status[d] # "NONE" => Order(d).at # "none"
BY DEF Order, Stage

LEMMA SameAsked ==
  ASSUME NEW d \in Deliveries,
         \A r \in Rows : row'[r] = row[r] \/ (row[r].delivery # d /\ row'[r].delivery # d)
  PROVE  Asked(d)' = Asked(d)
BY DEF Asked

LEMMA SameReceived ==
  ASSUME NEW d \in Deliveries, d \in handed' <=> d \in handed,
         \A f \in Refs : charge'[f] = [of |-> d, st |-> "success"] <=> charge[f] = [of |-> d, st |-> "success"]
  PROVE  Received(d)' = Received(d)
BY DEF Received

LEMMA SameOrder ==
  ASSUME NEW d \in Deliveries, status'[d] = status[d], payment'[d].st = payment[d].st,
         Asked(d)' = Asked(d), Received(d)' = Received(d)
  PROVE  Order(d)' = Order(d)
BY DEF Order

\* A step that no order shows.
LEMMA QuietContract ==
  ASSUME TypeInv, TypeInv', UNCHANGED <<status, row, handed>>,
         \A d \in Deliveries : payment'[d].st = payment[d].st,
         \A f \in Refs : charge'[f] = charge[f] \/ (charge'[f].st # "success" /\ charge[f].st # "success"),
         disturbed' = disturbed \/ \E d \in Deliveries : disturbed' = disturbed \cup {d}
  PROVE  [Contract!Next]_standing
<1>1. ASSUME NEW d \in Deliveries PROVE Order(d)' = Order(d)
  <2>1. Asked(d)' = Asked(d)
    BY SameAsked
  <2>2. \A f \in Refs : charge'[f] = [of |-> d, st |-> "success"] <=> charge[f] = [of |-> d, st |-> "success"]
    <3>1. [of |-> d, st |-> "success"].st = "success"
      OBVIOUS
    <3> QED BY <3>1
  <2>3. Received(d)' = Received(d)
    BY <2>2, SameReceived
  <2> QED BY <2>1, <2>3, SameOrder
<1>2. CASE disturbed' = disturbed
  <2>1. standing' = standing
    BY <1>1, <1>2 DEF standing
  <2> QED BY <2>1
<1>3. ASSUME NEW d \in Deliveries, disturbed' = disturbed \cup {d} PROVE [Contract!Next]_standing
  <2>1. Moves(Order(d), Order(d)')
    BY <1>1 DEF Moves
  <2> QED BY <1>1, <1>3, <2>1, AboutOne
<1> QED BY <1>2, <1>3

LEMMA TouchesOne ==
  ASSUME NEW c, NEW d \in Deliveries, Touch(c, d)
  PROVE  disturbed' \in {disturbed, disturbed \cup {d}}
BY DEF Touch

LEMMA BeginContract ==
  ASSUME EarnInv, TypeInv', FreshInv, Unborn, NEW a \in Actors, NEW d \in Deliveries,
         \/ \E m \in Chosen \cup {"NONE"} : Create(a, d, m)
         \/ Assign(a, d) \/ CancelRead(a, d) \/ ConfirmRead(a, d)
         \/ \E s \in Patched : Patch(a, d, s)
         \/ \E m \in Chosen : InitializeRead(a, d, m)
  PROVE  [Contract!Next]_standing
<1> USE DEF rowVars, payVars
<1>t. TypeInv
  BY DEF EarnInv
<1>0. disturbed' \in {disturbed, disturbed \cup {d}}
  BY TouchesOne DEF Create, Assign, CancelRead, ConfirmRead, Patch, InitializeRead, Begin
<1>1. CASE Assign(a, d) \/ CancelRead(a, d) \/ ConfirmRead(a, d) \/ \E m \in Chosen : InitializeRead(a, d, m)
  <2>1. UNCHANGED <<status, row, handed, payment, charge>>
    BY <1>1 DEF Assign, CancelRead, ConfirmRead, InitializeRead
  <2> QED BY <1>0, <1>t, <2>1, QuietContract
<1>2. ASSUME NEW m \in Chosen \cup {"NONE"}, Create(a, d, m) PROVE [Contract!Next]_standing
  <2>1. UNCHANGED <<row, handed, charge>>
    BY <1>2 DEF Create
  <2>2. \A e \in Deliveries : Asked(e)' = Asked(e) /\ Received(e)' = Received(e)
    BY <2>1, SameAsked, SameReceived
  <2>3. \A e \in Deliveries \ {d} : status'[e] = status[e] /\ payment'[e] = payment[e]
    BY <1>2, <1>t DEF Create, TypeInv, Tables
  <2>4. \A e \in Deliveries \ {d} : Order(e)' = Order(e)
    BY <2>2, <2>3, SameOrder
  <2>5. status[d] = "NONE" /\ status'[d] = "REQUESTED" /\ payment[d] = NoPayment
        /\ payment'[d].st \in {"NONE", "PENDING"}
    BY <1>2, <1>t DEF Create, TypeInv, Tables, FreshInv, Known, NoPayment
  <2>6. Asked(d) = {} /\ Received(d) = FALSE
    BY <2>5 DEF Unborn, Asked, Received
  <2>7. Moves(Order(d), Order(d)')
    BY <2>2, <2>5, <2>6, OrderShows DEF Moves, Stage, Billed, NoPayment, Cancellable
  <2> QED BY <1>0, <1>t, <2>4, <2>7, AboutOne
<1>3. ASSUME NEW s \in Patched, Patch(a, d, s) PROVE [Contract!Next]_standing
  <2>1. /\ UNCHANGED <<row, charge, payment>> /\ status[d] # "NONE" /\ status'[d] = s
        /\ \A e \in Deliveries \ {d} : status'[e] = status[e]
        /\ handed' = IF s = "DELIVERED" THEN handed \cup {d} ELSE handed
    BY <1>3, <1>t DEF Patch, TypeInv, Tables
  <2>2. ASSUME NEW e \in Deliveries
        PROVE  Asked(e)' = Asked(e) /\ (e # d \/ s # "DELIVERED" => Received(e)' = Received(e))
    <3>1. e # d \/ s # "DELIVERED" => (e \in handed' <=> e \in handed)
      BY <2>1
    <3>2. Asked(e)' = Asked(e)
      BY <2>1, SameAsked
    <3>3. e # d \/ s # "DELIVERED" => Received(e)' = Received(e)
      BY <2>1, <3>1, SameReceived
    <3> QED BY <3>2, <3>3
  <2>3. \A e \in Deliveries \ {d} : Order(e)' = Order(e)
    BY <2>1, <2>2, SameOrder
  <2>4. Stage(s) \in ReportedStages
    BY DEF ReportedStages
  <2>5. Moves(Order(d), Order(d)')
    <3>1. CASE s = "DELIVERED"
      <4>1. Stage(s) = "gone" /\ Received(d)' = TRUE
        BY <2>1, <3>1 DEF Stage, Cancellable, Received
      <4>2. Order(d)'.received = TRUE
        BY <4>1, OrderShows, Zenon
      <4>3. Order(d)'.at = "gone" /\ "gone" \in ReportedStages
        BY <2>1, <2>4, <4>1, OrderShows
      <4>4. Order(d)'.with = Order(d).with /\ Order(d)'.bill = Order(d).bill /\ Order(d).at # "none"
        BY <2>1, <2>2, OrderShows
      <4> QED BY <4>2, <4>3, <4>4 DEF Moves
    <3>2. CASE s # "DELIVERED"
      BY <2>1, <2>2, <2>4, <3>2, OrderShows DEF Moves, SamePay
    <3> QED BY <3>1, <3>2
  <2> QED BY <1>0, <1>t, <2>3, <2>5, AboutOne
<1> QED BY <1>1, <1>2, <1>3

LEMMA DispatchContract ==
  ASSUME EarnInv, TypeInv', FreshInv, NEW c \in Callers, Dispatching(c)
  PROVE  [Contract!Next]_standing
<1> USE DEF rowVars, payVars, histVars
<1>t. TypeInv
  BY DEF EarnInv
<1>d. PICK d \in Deliveries : d = job[c].on
  BY <1>t, JobFacts DEF Dispatching, ReadDelivery, PickRider, InsertRow, MarkAssigning, At
<1>1. CASE ReadDelivery(c) \/ PickRider(c) \/ UNCHANGED <<status, row, handed, payment, charge, disturbed>>
  <2>1. UNCHANGED <<status, row, handed, payment, charge, disturbed>>
    BY <1>1 DEF ReadDelivery, PickRider
  <2> QED BY <1>t, <2>1, QuietContract
<1>2. CASE InsertRow(c)
  <2>1. d \in Deliveries /\ status[d] # "NONE" /\ job[c].rider \in Riders
        /\ UNCHANGED <<status, handed, payment, charge, disturbed>>
    BY <1>2, <1>t, <1>d, JobFacts DEF InsertRow, At, FreshInv, Known
  <2>2. CASE UNCHANGED row
    BY <1>1, <2>1, <2>2
  <2>3. ASSUME NEW r \in Rows, row[r] = NoRow,
               row' = [row EXCEPT ![r] = [delivery |-> d, rider |-> job[c].rider, st |-> "OFFERED"]]
        PROVE  [Contract!Next]_standing
    <3>1. /\ row'[r].delivery = d /\ row'[r].rider = job[c].rider /\ row'[r].st = "OFFERED"
          /\ \A s \in Rows \ {r} : row'[s] = row[s]
          /\ row[r].delivery \notin Deliveries
      BY <1>t, <2>3, RowsOfOthers DEF TypeInv, Tables
    <3>2. \A e \in Deliveries : Received(e)' = Received(e)
      BY <2>1, SameReceived
    <3>3. \A e \in Deliveries \ {d} : Asked(e)' = Asked(e)
      BY <3>1, SameAsked
    <3>4. \A e \in Deliveries \ {d} : Order(e)' = Order(e)
      BY <2>1, <3>2, <3>3, SameOrder
    <3>5. Asked(d)' = Asked(d) \cup {job[c].rider}
      <4>1. OpenRows(d, row') = OpenRows(d, row) \cup {r}
        BY <2>1, <3>1 DEF OpenRows
      <4>2. \A s \in OpenRows(d, row) : row'[s] = row[s]
        BY <2>1, <3>1 DEF OpenRows
      <4>3. Asked(d) = {row[s].rider : s \in OpenRows(d, row)}
            /\ Asked(d)' = {row'[s].rider : s \in OpenRows(d, row')}
        BY DEF Asked, OpenRows
      <4> QED BY <3>1, <4>1, <4>2, <4>3
    <3>6. Moves(Order(d), Order(d)')
      BY <2>1, <3>2, <3>5, OrderShows DEF Moves, SamePay
    <3> QED BY <1>t, <2>1, <3>4, <3>6, AboutOne
  <2> QED BY <1>2, <1>d, <2>2, <2>3 DEF InsertRow
<1>3. CASE MarkAssigning(c)
  <2>1. d \in Deliveries /\ status[d] # "NONE" /\ UNCHANGED <<row, handed, payment, charge, disturbed>>
    BY <1>3, <1>t, <1>d, JobFacts DEF MarkAssigning, At, FreshInv, Known
  <2>2. status'[d] = "ASSIGNING" /\ \A e \in Deliveries \ {d} : status'[e] = status[e]
    BY <1>3, <1>t, <1>d, <2>1 DEF MarkAssigning, TypeInv, Tables
  <2>3. \A e \in Deliveries : Asked(e)' = Asked(e) /\ Received(e)' = Received(e)
    BY <2>1, SameAsked, SameReceived
  <2>4. \A e \in Deliveries \ {d} : Order(e)' = Order(e)
    BY <2>1, <2>2, <2>3, SameOrder
  <2>5. Moves(Order(d), Order(d)')
    BY <2>1, <2>2, <2>3, OrderShows DEF Moves, SamePay, Stage, Cancellable
  <2> QED BY <1>t, <2>1, <2>4, <2>5, AboutOne
<1> QED BY <1>1, <1>2, <1>3 DEF Dispatching

\* What is owed changes, of one delivery.
LEMMA PayContract ==
  ASSUME TypeInv, TypeInv', NEW d \in Deliveries, status[d] # "NONE",
         UNCHANGED <<status, row, handed, disturbed>>,
         \A e \in Deliveries \ {d} : payment'[e] = payment[e],
         \A f \in Refs : charge'[f] = charge[f] \/ (charge'[f].st # "success" /\ charge[f].st # "success"),
         \/ payment'[d].st = payment[d].st
         \/ payment[d].st = "NONE" /\ payment'[d].st = "PENDING"
         \/ payment[d].st # "NONE" /\ Received(d) /\ payment'[d].st = "PAID"
         \/ payment[d].st # "NONE" /\ (d \notin disturbed => payment[d].st # "PAID") /\ payment'[d].st = "FAILED"
  PROVE  [Contract!Next]_standing
<1>1. ASSUME NEW e \in Deliveries PROVE Asked(e)' = Asked(e) /\ Received(e)' = Received(e)
  <2>1. \A f \in Refs : charge'[f] = [of |-> e, st |-> "success"] <=> charge[f] = [of |-> e, st |-> "success"]
    <3>1. [of |-> e, st |-> "success"].st = "success"
      OBVIOUS
    <3> QED BY <3>1
  <2> QED BY <2>1, SameAsked, SameReceived
<1>2. \A e \in Deliveries \ {d} : Order(e)' = Order(e)
  BY <1>1, SameOrder
<1>3. ASSUME d \notin disturbed' PROVE Moves(Order(d), Order(d)')
  <2>1. SameWay(Order(d), Order(d)') /\ Order(d).at # "none"
    BY <1>1, OrderShows DEF SameWay
  <2>2. Order(d)'.received = Order(d).received
    BY <1>1, OrderShows
  <2>3. payment[d].st \in {"NONE", "PENDING", "PAID", "FAILED"}
    BY DEF TypeInv, Tables, PaymentRows, NoPayment
  <2>4. Received(d) => Order(d).received = TRUE
    BY OrderShows, Zenon DEF Received
  <2>5. CASE payment'[d].st = payment[d].st
    <3>1. Order(d)' = Order(d)
      BY <1>1, <2>5, SameOrder
    <3> QED BY <3>1 DEF Moves
  <2>6. CASE payment[d].st = "NONE" /\ payment'[d].st = "PENDING"
    <3>1. Order(d).bill = "none" /\ Order(d)'.bill = "due"
      BY <2>6, OrderShows DEF Billed
    <3> QED BY <2>1, <2>2, <3>1 DEF Moves
  <2>7. CASE payment[d].st # "NONE" /\ Received(d) /\ payment'[d].st = "PAID"
    <3>1. Order(d).bill # "none" /\ Order(d)'.bill = "paid"
      BY <2>3, <2>7, OrderShows DEF Billed
    <3> QED BY <2>1, <2>2, <2>4, <2>7, <3>1 DEF Moves
  <2>8. CASE payment[d].st # "NONE" /\ payment[d].st # "PAID" /\ payment'[d].st = "FAILED"
    <3>1. Order(d).bill \in {"due", "failed"} /\ Order(d)'.bill = "failed"
      BY <2>3, <2>8, OrderShows DEF Billed
    <3> QED BY <2>1, <2>2, <3>1 DEF Moves
  <2> QED BY <1>3, <2>5, <2>6, <2>7, <2>8
<1> QED BY <1>2, <1>3, AboutOne

LEMMA RequestContract ==
  ASSUME EarnInv, TypeInv', FreshInv, Callable, NEW a \in Actors,
         CreateReply(a) \/ Collect(a) \/ CancelTx(a) \/ Upsert(a) \/ Checkout(a) \/ KeepReference(a)
           \/ ConfirmAsk(a) \/ ConfirmMark(a)
  PROVE  [Contract!Next]_standing
<1> USE DEF At, rowVars, payVars, histVars
<1>c. a \in Callers /\ TypeInv /\ Backed(job[a], charge, handed) /\ Fresh(job[a], payment, row, disturbed)
  BY DEF EarnInv, FreshInv, Callers
<1>d. PICK d \in Deliveries : d = job[a].on
  BY <1>c, JobFacts DEF CreateReply, Collect, CancelTx, Upsert, Checkout, KeepReference, ConfirmAsk, ConfirmMark
<1>e. status[d] # "NONE"
  BY <1>c, <1>d DEF FreshInv, Known
<1>1. CASE CreateReply(a) \/ ConfirmAsk(a)
  <2>1. UNCHANGED <<status, row, handed, payment, charge, disturbed>>
    BY <1>1 DEF CreateReply, ConfirmAsk
  <2> QED BY <1>c, <2>1, QuietContract
<1>2. CASE Collect(a)
  <2>1. UNCHANGED <<status, row, handed, charge, disturbed>> /\ d \in handed
    BY <1>2, <1>c, <1>d DEF Collect, Backed
  <2>2. Received(d)
    BY <2>1 DEF Received
  <2>3. CASE payment' = payment
    BY <1>c, <1>e, <2>1, <2>3, PayContract
  <2>4. CASE payment[d].method = "CASH" /\ payment' = [payment EXCEPT ![d].st = "PAID"]
    <3>1. payment[d].st # "NONE" /\ payment'[d].st = "PAID"
          /\ \A e \in Deliveries \ {d} : payment'[e] = payment[e]
      BY <1>c, <2>4 DEF TypeInv, Tables, PaymentRows, NoPayment
    <3> QED BY <1>c, <1>e, <2>1, <2>2, <3>1, PayContract
  <2> QED BY <1>2, <1>d, <2>3, <2>4 DEF Collect
<1>3. CASE CancelTx(a)
  <2>1. UNCHANGED <<handed, payment, charge, disturbed>> /\ job[a].pc = "cancel"
        /\ status'[d] = "CANCELLED" /\ \A e \in Deliveries \ {d} : status'[e] = status[e]
    BY <1>3, <1>c, <1>d DEF CancelTx, TypeInv, Tables
  <2>2. \A r \in Rows : IF r \in job[a].rows THEN row'[r] = [row[r] EXCEPT !.st = "EXPIRED"]
                                             ELSE row'[r] = row[r]
    BY <1>3 DEF CancelTx
  <2>3. ASSUME NEW r \in job[a].rows
        PROVE  row[r].delivery = d /\ row'[r].delivery = d /\ row'[r].st = "EXPIRED"
    <3>1. r \in Rows /\ row[r] \in AssignmentRows
      BY <1>c, JobFacts DEF TypeInv, Tables
    <3>2. row[r].delivery = d
      BY <1>c, <1>d, <2>1 DEF Callable
    <3>3. row'[r] = [row[r] EXCEPT !.st = "EXPIRED"]
      BY <2>2, <3>1
    <3> QED BY <3>1, <3>2, <3>3 DEF AssignmentRows
  <2>4. ASSUME NEW e \in Deliveries \ {d} PROVE Order(e)' = Order(e)
    <3>1. Asked(e)' = Asked(e)
      BY <2>2, <2>3, SameAsked
    <3>2. Received(e)' = Received(e)
      BY <2>1, SameReceived
    <3> QED BY <2>1, <3>1, <3>2, SameOrder
  <2>5. ASSUME d \notin disturbed' PROVE Moves(Order(d), Order(d)')
    <3>1. status[d] \in Cancellable
      BY <1>c, <1>d, <2>1, <2>5 DEF Callable
    <3>2. OpenRows(d, row) \subseteq job[a].rows
      BY <1>c, <1>d, <2>1, <2>5 DEF Fresh
    <3>3. \A r \in Rows : row'[r].delivery = d => row'[r].st \notin {"OFFERED", "ACCEPTED"}
      BY <2>2, <2>3, <3>2 DEF OpenRows
    <3>4. Asked(d)' = {}
      BY <3>3 DEF Asked
    <3>5. Received(d)' = Received(d)
      BY <2>1, SameReceived
    <3>6. Order(d).at = "open" /\ Order(d)'.at = "calledOff"
      BY <1>e, <2>1, <3>1, OrderShows DEF Stage, Cancellable
    <3>7. Order(d)'.with = {} /\ SamePay(Order(d), Order(d)')
      BY <2>1, <3>4, <3>5, OrderShows DEF SamePay
    <3> QED BY <3>6, <3>7 DEF Moves
  <2> QED BY <1>c, <2>1, <2>4, <2>5, AboutOne
<1>4. CASE Upsert(a)
  <2>1. UNCHANGED <<status, row, handed, disturbed>>
    BY <1>4 DEF Upsert
  <2>2. /\ payment'[d].st = (IF payment[d] = NoPayment THEN "PENDING" ELSE payment[d].st)
        /\ \A e \in Deliveries \ {d} : payment'[e] = payment[e]
    <3>1. PICK f \in Refs \cup {None} :
            payment' = [payment EXCEPT ![d] =
              [method |-> job[a].method, ref |-> f,
               st |-> IF payment[d] = NoPayment THEN "PENDING" ELSE payment[d].st]]
      BY <1>4, <1>d DEF Upsert
    <3> QED BY <1>c, <3>1 DEF TypeInv, Tables
  <2>3. \A f \in Refs : charge'[f] = charge[f] \/ (charge'[f].st # "success" /\ charge[f].st # "success")
    <3>1. CASE UNCHANGED charge
      BY <3>1
    <3>2. ASSUME NEW f \in Refs, charge[f] = NoCharge, charge' = [charge EXCEPT ![f] = [of |-> d, st |-> "none"]]
          PROVE  \A g \in Refs : charge'[g] = charge[g] \/ (charge'[g].st # "success" /\ charge[g].st # "success")
      BY <1>c, <3>2 DEF TypeInv, Tables, NoCharge
    <3> QED BY <1>4, <1>d, <3>1, <3>2 DEF Upsert
  <2>4. payment[d] = NoPayment => payment[d].st = "NONE"
    BY DEF NoPayment
  <2> QED BY <1>c, <1>e, <2>1, <2>2, <2>3, <2>4, PayContract
<1>5. CASE Checkout(a)
  <2>1. UNCHANGED <<status, row, handed, payment, disturbed>>
        /\ charge' = [charge EXCEPT ![job[a].ref].st = "pending"] /\ job[a].pc = "checkout"
    BY <1>5 DEF Checkout
  <2>2. job[a].ref \in Refs /\ charge[job[a].ref].st = "none"
    BY <1>c, <2>1, JobFacts DEF Backed
  <2>3. \A f \in Refs : charge'[f] = charge[f] \/ (charge'[f].st # "success" /\ charge[f].st # "success")
    BY <1>c, <2>1, <2>2 DEF TypeInv, Tables, Charges, NoCharge
  <2> QED BY <1>c, <2>1, <2>3, QuietContract
<1>6. CASE KeepReference(a)
  <2>1. UNCHANGED <<status, row, handed, charge, disturbed>>
        /\ payment' = [payment EXCEPT ![d].ref = job[a].ref]
    BY <1>6, <1>d DEF KeepReference
  <2>2. \A e \in Deliveries : payment'[e].st = payment[e].st
    BY <1>c, <2>1 DEF TypeInv, Tables, PaymentRows, NoPayment
  <2> QED BY <1>c, <2>1, <2>2, QuietContract
<1>7. CASE ConfirmMark(a)
  <2>1. UNCHANGED <<status, row, handed, charge, disturbed>> /\ job[a].pc = "mark"
        /\ payment' = [payment EXCEPT ![d].st = IF job[a].seen = "success" THEN "PAID" ELSE "FAILED"]
    BY <1>7, <1>d DEF ConfirmMark
  <2>2. payment[d] # NoPayment /\ job[a].ref \in Refs
    BY <1>c, <1>d, <2>1, JobFacts
  <2>3. payment[d].st # "NONE" /\ payment'[d].st = (IF job[a].seen = "success" THEN "PAID" ELSE "FAILED")
        /\ \A e \in Deliveries \ {d} : payment'[e] = payment[e]
    BY <1>c, <2>1, <2>2 DEF TypeInv, Tables, PaymentRows
  <2>4. job[a].seen = "success" => Received(d)
    <3>1. job[a].seen = "success" => charge[job[a].ref].of = d /\ charge[job[a].ref].st = "success"
      BY <1>c, <1>d, <2>1 DEF Backed
    <3>2. job[a].seen = "success" => charge[job[a].ref] = [of |-> d, st |-> "success"]
      BY <1>c, <2>2, <3>1 DEF TypeInv, Tables, Charges, NoCharge
    <3> QED BY <2>2, <3>2 DEF Received
  <2>5. job[a].seen # "success" /\ d \notin disturbed => payment[d].st # "PAID"
    BY <1>c, <1>d, <2>1 DEF Fresh
  <2> QED BY <1>c, <1>e, <2>1, <2>3, <2>4, <2>5, PayContract
<1> QED BY <1>1, <1>2, <1>3, <1>4, <1>5, <1>6, <1>7

LEMMA OthersContract ==
  ASSUME EarnInv, TypeInv', FreshInv, Own, Unborn,
         RiderSteps \/ (\E d \in Deliveries : TimerFires(d)) \/ (\E f \in Refs : CustomerPays(f))
           \/ (\E c \in Callers : Fails(c)) \/ Crash
  PROVE  [Contract!Next]_standing
<1> USE DEF rowVars, payVars, histVars
<1>t. TypeInv
  BY DEF EarnInv
<1>0. CASE UNCHANGED <<status, row, handed, payment, charge, disturbed>>
  BY <1>0, <1>t, QuietContract
<1>1. ASSUME NEW d \in Deliveries, TimerFires(d) PROVE [Contract!Next]_standing
  <2>1. UNCHANGED <<status, row, handed, payment, charge>>
    BY <1>1 DEF TimerFires
  <2>2. disturbed' \in {disturbed, disturbed \cup {d}}
    BY <1>1, TouchesOne DEF TimerFires
  <2> QED BY <1>t, <2>1, <2>2, QuietContract
<1>2. ASSUME NEW r \in Rows, Accept(r) \/ Reject(r) PROVE [Contract!Next]_standing
  <2>1. row[r] \in AssignmentRows
    BY <1>2, <1>t DEF Accept, Reject, TypeInv, Tables
  <2>2. PICK d \in Deliveries, x \in Riders : d = row[r].delivery /\ x = row[r].rider
    BY <2>1 DEF AssignmentRows
  <2>3. disturbed' \in {disturbed, disturbed \cup {d}}
    BY <1>2, <2>2, TouchesOne DEF Accept, Reject
  <2>4. status[d] # "NONE" /\ UNCHANGED <<handed, payment, charge>>
    BY <1>2, <2>2 DEF Accept, Reject, Unborn
  <2>5. \A s \in Rows \ {r} : row'[s] = row[s]
    BY <1>2, <1>t DEF Accept, Reject, TypeInv, Tables
  <2>6. row'[r].delivery = d /\ row'[r].rider = x /\ row'[r].st = (IF Accept(r) THEN "ACCEPTED" ELSE row'[r].st)
    BY <1>2, <1>t, <2>1, <2>2 DEF Accept, Reject, TypeInv, Tables, AssignmentRows
  <2>7. \A e \in Deliveries \ {d} : status'[e] = status[e]
    BY <1>2, <1>t, <2>2 DEF Accept, Reject, TypeInv, Tables
  <2>8. ASSUME NEW e \in Deliveries \ {d} PROVE Order(e)' = Order(e)
    <3>1. Asked(e)' = Asked(e)
      BY <2>2, <2>5, <2>6, SameAsked
    <3>2. Received(e)' = Received(e)
      BY <2>4, SameReceived
    <3> QED BY <2>4, <2>7, <3>1, <3>2, SameOrder
  <2>9. SamePay(Order(d), Order(d)') /\ Order(d).at # "none"
    BY <2>4, SameReceived, OrderShows DEF SamePay
  <2>10. Asked(d) = {row[s].rider : s \in OpenRows(d, row)}
         /\ Asked(d)' = {row'[s].rider : s \in OpenRows(d, row')}
    BY DEF Asked, OpenRows
  <2>11. CASE Accept(r)
    <3>1. OpenRows(d, row') = OpenRows(d, row) \cup {r}
      BY <2>5, <2>6, <2>11 DEF OpenRows
    <3>2. \A s \in Rows : row'[s].rider = row[s].rider
      BY <2>2, <2>5, <2>6
    <3>3. OpenRows(d, row) \subseteq Rows
      BY DEF OpenRows
    <3>4. Asked(d)' = Asked(d) \cup {x}
      BY <2>2, <2>10, <3>1, <3>2, <3>3
    <3>5. status'[d] = "ASSIGNED"
      BY <1>t, <2>2, <2>11 DEF Accept, TypeInv, Tables
    <3>6. Order(d)'.at = "open" /\ Order(d)'.with = Order(d).with \cup {x}
      BY <3>4, <3>5, OrderShows DEF Stage, Cancellable
    <3> QED BY <1>t, <2>3, <2>8, <2>9, <3>6, AboutOne DEF Moves
  <2>12. CASE Reject(r)
    <3>1. OpenRows(d, row') = OpenRows(d, row) \ {r} /\ UNCHANGED status
      <4>1. row'[r].st = "REJECTED" /\ UNCHANGED status
        BY <1>t, <2>1, <2>12 DEF Reject, TypeInv, Tables, AssignmentRows
      <4> QED BY <2>5, <4>1 DEF OpenRows
    <3>2. \A s \in Rows : row'[s].rider = row[s].rider
      BY <2>2, <2>5, <2>6
    <3>3. OpenRows(d, row) \subseteq Rows
      BY DEF OpenRows
    <3>4. Order(d)'.at = Order(d).at
      BY <3>1, OrderShows
    <3>5. CASE \E s \in OpenRows(d, row) \ {r} : row[s].rider = x
      <4>1. Asked(d)' = Asked(d)
        BY <2>2, <2>10, <3>1, <3>2, <3>3, <3>5
      <4>2. Received(d)' = Received(d)
        BY <2>4, SameReceived
      <4>3. Order(d)' = Order(d)
        BY <2>4, <3>1, <4>1, <4>2, SameOrder
      <4> QED BY <1>t, <2>3, <2>8, <4>3, AboutOne DEF Moves
    <3>6. CASE ~\E s \in OpenRows(d, row) \ {r} : row[s].rider = x
      <4>1. Asked(d)' = Asked(d) \ {x}
        BY <2>2, <2>10, <3>1, <3>2, <3>3, <3>6
      <4>2. Order(d)'.with = Order(d).with \ {x}
        BY <4>1, OrderShows
      <4> QED BY <1>t, <2>3, <2>8, <2>9, <3>4, <4>2, AboutOne DEF Moves
    <3> QED BY <3>5, <3>6
  <2> QED BY <1>2, <2>11, <2>12
<1>3. ASSUME NEW f \in Refs, CustomerPays(f) PROVE [Contract!Next]_standing
  <2>1. charge[f] \in Charges /\ UNCHANGED <<status, payment, row, handed, disturbed>>
    BY <1>3, <1>t DEF CustomerPays, TypeInv, Tables, NoCharge
  <2>2. PICK d \in Deliveries : d = charge[f].of
    BY <2>1 DEF Charges
  <2>3. charge'[f] = [of |-> d, st |-> "success"] /\ \A g \in Refs \ {f} : charge'[g] = charge[g]
    BY <1>3, <1>t, <2>1, <2>2 DEF CustomerPays, TypeInv, Tables, Charges
  <2>4. status[d] # "NONE"
    BY <2>2 DEF Unborn
  <2>5. ASSUME NEW e \in Deliveries \ {d} PROVE Order(e)' = Order(e)
    <3>1. Asked(e)' = Asked(e)
      BY <2>1, SameAsked
    <3>2. charge'[f] # [of |-> e, st |-> "success"] /\ charge[f] # [of |-> e, st |-> "success"]
      BY <2>2, <2>3
    <3>3. Received(e)' = Received(e)
      BY <2>1, <2>3, <3>2, SameReceived
    <3> QED BY <2>1, <3>1, <3>3, SameOrder
  <2>6. Moves(Order(d), Order(d)')
    <3>1. SameWay(Order(d), Order(d)') /\ Order(d)'.bill = Order(d).bill /\ Order(d).at # "none"
      BY <2>1, <2>4, SameAsked, OrderShows DEF SameWay
    <3>2. Received(d)' = TRUE
      BY <2>3 DEF Received
    <3>3. Order(d)'.received = TRUE
      BY <3>2, OrderShows, Zenon
    <3> QED BY <3>1, <3>3 DEF Moves
  <2> QED BY <1>t, <2>1, <2>5, <2>6, AboutOne
<1> QED BY <1>0, <1>1, <1>2, <1>3 DEF RiderSteps, SetAvailability, Fails, Crash

LEMMA NextContract ==
  EarnInv /\ FreshInv /\ Own /\ ContractInv /\ [Next]_vars => [Contract!Next]_standing
<1> SUFFICES ASSUME EarnInv, FreshInv, Own, Unborn, Callable, [Next]_vars PROVE [Contract!Next]_standing
  BY DEF ContractInv
<1>1. TypeInv'
  BY NextTyped DEF EarnInv
<1>2. ASSUME NEW a \in Actors, Requests(a) PROVE [Contract!Next]_standing
  BY <1>1, <1>2, BeginContract, DispatchContract, RequestContract DEF Requests, Callers
<1>3. CASE UNCHANGED vars
  BY <1>1, <1>3, QuietContract DEF vars, EarnInv
<1> QED BY <1>1, <1>2, <1>3, DispatchContract, OthersContract DEF Next, Callers

LEMMA InitContract == Init => ContractInv /\ Contract!Init
<1> SUFFICES ASSUME Init PROVE ContractInv /\ Contract!Init
  OBVIOUS
<1>1. Unborn
  BY RowsOfOthers DEF Init, Unborn
<1>2. Callable
  BY DEF Init, Callable, NoJob
<1>3. ASSUME NEW d \in Deliveries PROVE Order(d) = Contract!Nothing("none")
  <2>1. Asked(d) = {}
    BY RowsOfOthers DEF Init, Asked
  <2>2. Received(d) = FALSE
    BY RowsOfOthers DEF Init, Received
  <2>3. Stage(status[d]) = "none" /\ Billed(payment[d].st) = "none"
    <3>1. status[d] = "NONE" /\ payment[d].st = "NONE"
      BY DEF Init, NoPayment
    <3> QED BY <3>1 DEF Stage, Billed, Cancellable
  <2> QED BY <2>1, <2>2, <2>3 DEF Order, Contract!Nothing
<1>4. Contract!Init
  BY <1>3 DEF Init, standing, Contract!Init
<1> QED BY <1>1, <1>2, <1>4 DEF ContractInv

LEMMA ContractHolds == Spec => [](EarnInv /\ FreshInv /\ Own /\ ContractInv)
<1>1. Init => EarnInv /\ FreshInv /\ Own /\ ContractInv
  BY InitEarns, InitFresh, InitContract
<1>2. EarnInv /\ FreshInv /\ Own /\ ContractInv /\ [Next]_vars
        => EarnInv' /\ FreshInv' /\ Own' /\ ContractInv'
  BY NextEarns, NextFresh, NextUnborn, NextCallable DEF ContractInv, EarnInv, FreshInv
<1> QED BY <1>1, <1>2, PTL DEF Spec

\* Every step of the parcel side (modules/deliveries, dispatch, payments), whatever it interleaves
\* with, is a step of the contract or none: a delivery on which no two requests overlapped is called
\* off only before it is under way, which leaves it no rider, and is settled only with money received,
\* for good.
THEOREM DeliveryContractKept == Spec => KeepsDeliveryContract
<1>1. Init => Contract!Init
  BY InitContract
<1> QED BY <1>1, ContractHolds, NextContract, PTL DEF Spec, KeepsDeliveryContract, Contract!Spec

-----------------------------------------------------------------------------
(* What the contract itself comes to, for the deliveries as they stand. *)

Sound(o) ==
  /\ o \in [at : Contract!Stages, with : SUBSET Riders, bill : Contract!Bills, received : BOOLEAN]
  /\ o.bill = "paid" => o.received = TRUE

AllSound == \A d \in Deliveries : Sound(standing[d])

LEMMA SoundOrders == AllSound /\ [Contract!Next]_standing => AllSound'
<1> SUFFICES ASSUME \A d \in Deliveries : Sound(standing[d]), [Contract!Next]_standing
             PROVE  \A d \in Deliveries : Sound(standing'[d])
  BY DEF AllSound
<1>1. ASSUME NEW d \in Deliveries, NEW o, Sound(o), Contract!Becomes(d, o)
      PROVE  \A e \in Deliveries : Sound(standing'[e])
  <2>1. \A e \in Deliveries : standing'[e] = IF e = d THEN o ELSE standing[e]
    BY <1>1 DEF Contract!Becomes, standing
  <2> QED BY <1>1, <2>1
<1>2. ASSUME NEW d \in Deliveries, NEW at \in Contract!Stages
      PROVE  Sound(Contract!Nothing(at)) /\ Sound([standing[d] EXCEPT !.at = at])
             /\ Sound([standing[d] EXCEPT !.at = at, !.with = {}])
             /\ Sound([standing[d] EXCEPT !.at = at, !.received = TRUE])
             /\ \A bill \in {"none", "due"} : Sound([Contract!Nothing(at) EXCEPT !.bill = bill])
  BY <1>2 DEF Sound, Contract!Nothing, Contract!Bills
<1>3. ASSUME NEW d \in Deliveries, NEW x \in Riders
      PROVE  Sound([standing[d] EXCEPT !.with = @ \cup {x}]) /\ Sound([standing[d] EXCEPT !.with = @ \ {x}])
             /\ Sound([standing[d] EXCEPT !.with = @ \cup {x}, !.at = "open"])
  BY <1>3 DEF Sound, Contract!Stages
<1>4. ASSUME NEW d \in Deliveries
      PROVE  /\ \A bill \in {"due", "failed"} : Sound([standing[d] EXCEPT !.bill = bill])
             /\ Sound([standing[d] EXCEPT !.received = TRUE])
             /\ standing[d].received => Sound([standing[d] EXCEPT !.bill = "paid"])
  BY <1>4 DEF Sound, Contract!Bills
<1>5. {"none", "open", "gone", "calledOff", "void"} = Contract!Stages
  BY DEF Contract!Stages
<1>6. ASSUME NEW d \in Deliveries,
             \/ (\E bill \in Contract!Bills : Contract!Place(d, bill)) \/ Contract!Serve(d)
             \/ (\E at \in Contract!Stages : Contract!Report(d, at))
             \/ Contract!HandOver(d) \/ Contract!CallOff(d) \/ Contract!Void(d)
      PROVE  \A e \in Deliveries : Sound(standing'[e])
  BY <1>1, <1>2, <1>5, <1>6 DEF Contract!Place, Contract!Serve, Contract!Report, Contract!HandOver,
     Contract!CallOff, Contract!Void
<1>7. ASSUME NEW d \in Deliveries, NEW x \in Riders,
             Contract!Offer(d, x) \/ Contract!Take(d, x) \/ Contract!Decline(d, x)
      PROVE  \A e \in Deliveries : Sound(standing'[e])
  BY <1>1, <1>3, <1>7 DEF Contract!Offer, Contract!Take, Contract!Decline
<1>8. ASSUME NEW d \in Deliveries,
             Contract!Bill(d) \/ Contract!Receive(d) \/ Contract!Refuse(d) \/ Contract!Settle(d)
      PROVE  \A e \in Deliveries : Sound(standing'[e])
  BY <1>1, <1>4, <1>8 DEF Contract!Bill, Contract!Receive, Contract!Refuse, Contract!Settle
<1>9. CASE UNCHANGED standing
  BY <1>9
<1> QED BY <1>6, <1>7, <1>8, <1>9 DEF Contract!Next

\* Whoever keeps the contract settles no order unpaid.
LEMMA SettledHolds == Contract!Spec => []Contract!SettledIsReceived
<1>1. Contract!Init => AllSound
  BY DEF AllSound, Contract!Init, Contract!Nothing, Contract!Stages, Contract!Bills, Sound
<1>2. AllSound => Contract!SettledIsReceived
  BY DEF AllSound, Sound, Contract!SettledIsReceived
<1> QED BY <1>1, <1>2, SoundOrders, PTL DEF Contract!Spec

\* A delivery no two requests overlapped on is never settled without the parcel handed over or the
\* customer charged (markPaystackPayment, PATCH /deliveries/:id/status): it follows from the contract.
THEOREM SettledDeliveriesReceived == Spec => []Contract!SettledIsReceived
BY DeliveryContractKept, SettledHolds DEF KeepsDeliveryContract

===============================================================================
