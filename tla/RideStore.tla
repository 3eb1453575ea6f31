------------------------------ MODULE RideStore ------------------------------
(***************************************************************************)
(* The PostgreSQL rows the ride side of the API shares between all its     *)
(* handlers: RideTrip, RideAssignment and DriverProfile, the clock those   *)
(* rows are compared with, and the marker that a trip has been settled.    *)
(* A Prisma call is one atomic step.  So is an interactive transaction:    *)
(* those of claim and release start by locking the trip they decide on,    *)
(* that of cancel only writes, and of the settlement the ride side sees no *)
(* more than that the driver is free again.                                *)
(*                                                                         *)
(* Times are kept as the classes the code distinguishes.  A trip's age is  *)
(* that of its pickup time (scheduledFor, or createdAt): in the future,    *)
(* due, past OPEN_REQUEST_MAX_AGE_MS, past AUTO_CLOSE_LOOKBACK_MS.  An     *)
(* assignment's clock is 0 before expiresAt, 1 after it, 2 once            *)
(* REOFFER_COOLDOWN_MS have passed since offeredAt.                        *)
(***************************************************************************)
EXTENDS Naturals, FiniteSets

CONSTANTS
  Trips,          \* ids of ride trips (rows of RideTrip)
  Drivers,        \* ids of driver profiles
  None,           \* no trip / no driver
  MaxRows,        \* BOUND: assignments ever created
  OnlineAtStart   \* drivers already online and free when a behaviour starts

ASSUME NoneAssumption == None \notin Trips \cup Drivers
ASSUME IdsAssumption == Trips \cap Drivers = {}   \* ids of different tables
ASSUME MaxRowsAssumption == MaxRows \in Nat \ {0}
ASSUME OnlineAssumption == OnlineAtStart \subseteq Drivers

VARIABLES
  status,    \* RideTrip.status; "NONE" before the row exists
  age,       \* how far the trip's pickup time lies in the past
  rows,      \* RideAssignment, in the order of offeredAt
  dstat,     \* DriverProfile.status
  online,    \* DriverProfile.isOnline
  settled,   \* trips with a TRIP-SETTLE ledger row
  tainted    \* history: trips written on the strength of a read that no
             \* longer held, or forced to a status by PATCH /status; and
             \* drivers a switch has put back ON_TRIP on such a read

store == <<status, age, rows, dstat, online, settled, tainted>>

RowIds == 1 .. MaxRows

OpenStatuses == {"REQUESTED", "ASSIGNING"}
ReleasableStatuses == {"ASSIGNED", "DRIVER_ARRIVING", "ARRIVED"}
ActiveStatuses == ReleasableStatuses \cup {"IN_PROGRESS"}
CancellableStatuses == OpenStatuses \cup ReleasableStatuses
FinalStatuses == {"COMPLETED", "CANCELLED", "FAILED"}
TripStatuses == OpenStatuses \cup ActiveStatuses \cup FinalStatuses

RowStatuses == {"OFFERED", "ACCEPTED", "REJECTED", "EXPIRED", "COMPLETED"}

\* OFFLINE stands for PENDING_KYC, too, the status of a new profile: the handlers only
\* ask whether a driver is ACTIVE or ON_TRIP.  Nothing in src/ writes SUSPENDED, so that
\* the refusal of a suspended driver (claimRide) never applies.
DriverStatuses == {"ACTIVE", "OFFLINE", "ON_TRIP"}

Ages == {"future", "due", "stale", "ancient"}

NoRow == [trip |-> None, driver |-> None, st |-> "NONE", clock |-> 0]
Rows == [trip : Trips, driver : Drivers, st : RowStatuses, clock : 0 .. 2] \cup {NoRow}

StoreTypeOK ==
  /\ status \in [Trips -> TripStatuses \cup {"NONE"}]
  /\ age \in [Trips -> Ages]
  /\ rows \in [RowIds -> Rows]
  /\ dstat \in [Drivers -> DriverStatuses]
  /\ online \in [Drivers -> BOOLEAN]
  /\ settled \in SUBSET Trips
  /\ tainted \in SUBSET (Trips \cup Drivers)

StoreInit ==
  /\ status = [t \in Trips |-> "NONE"]
  /\ age = [t \in Trips |-> "due"]
  /\ rows = [r \in RowIds |-> NoRow]
  /\ dstat = [d \in Drivers |-> IF d \in OnlineAtStart THEN "ACTIVE" ELSE "OFFLINE"]
  /\ online = [d \in Drivers |-> d \in OnlineAtStart]
  /\ settled = {}
  /\ tainted = {}

-----------------------------------------------------------------------------
(* Queries. *)

IsOpen(t) == status[t] \in OpenStatuses

\* The assignments of trip t whose status is one of sts.
RowsIn(t, sts) == {r \in RowIds : rows[r].trip = t /\ rows[r].st \in sts}

\* Offers the driver can still answer in time: OFFERED with expiresAt > now.
LiveOffers(t) == {r \in RowsIn(t, {"OFFERED"}) : rows[r].clock = 0}

\* { the driver's most recent assignment for t }, or {}.
LatestRow(t, d) ==
  {r \in RowIds : /\ rows[r].trip = t /\ rows[r].driver = d
                  /\ \A q \in RowIds : rows[q].trip = t /\ rows[q].driver = d => q <= r}

\* What the driver is committed to: ACCEPTED assignments of active trips.
ActiveRowsOf(d) ==
  {r \in RowIds : /\ rows[r].st = "ACCEPTED" /\ rows[r].driver = d
                  /\ status[rows[r].trip] \in ActiveStatuses}

-----------------------------------------------------------------------------
(* Updates. *)

\* The id the next insert into RideAssignment gets.
NextRow(r) == rows[r].st = "NONE" /\ \A q \in RowIds : q < r => rows[q].st # "NONE"

NewRow(t, d, st, clock) == [trip |-> t, driver |-> d, st |-> st, clock |-> clock]

\* rows after updateMany({where: S, data: {status: st}}).
Restate(S, st) ==
  [r \in RowIds |-> IF r \in S /\ rows[r].st # "NONE" THEN [rows[r] EXCEPT !.st = st]
                                                     ELSE rows[r]]

\* tainted after a write on x that relies on the condition held.
TaintUnless(x, held) == IF held THEN tainted ELSE tainted \cup {x}

-----------------------------------------------------------------------------
(* The passing of time. *)

\* Assignments reach expiresAt, and the end of the re-offer cooldown, in the
\* order they were offered.
Lapse(r) ==
  /\ rows[r].st # "NONE" /\ rows[r].clock < 2
  /\ \A q \in RowIds : q < r => rows[q].clock > rows[r].clock
  /\ rows' = [rows EXCEPT ![r].clock = @ + 1]
  /\ UNCHANGED <<status, age, dstat, online, settled, tainted>>

\* The pickup time, the 30-minute and the 6-hour mark pass.
NextAge(a) == CASE a = "future" -> "due" [] a = "due" -> "stale" [] OTHER -> "ancient"

GrowOld(t) ==
  /\ status[t] # "NONE" /\ age[t] # "ancient"
  /\ age' = [age EXCEPT ![t] = NextAge(@)]
  /\ UNCHANGED <<status, rows, dstat, online, settled, tainted>>
=============================================================================
