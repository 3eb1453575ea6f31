---------------------------- MODULE RideRequests ----------------------------
(***************************************************************************)
(* The HTTP handlers that move a ride: rides.routes/rides.service (create, *)
(* arrived, start, complete, status, cancel), ride-dispatch.routes with    *)
(* claimRide and releaseRide (claim, accept, reject, release, assign), and *)
(* the availability switch of drivers.routes.                              *)
(*                                                                         *)
(* A handler is a chain of actions, one per await that matters: a first    *)
(* action reads and checks, the later ones write.  What a handler keeps    *)
(* from its reads is in req[p].  Reads whose outcome only feeds a status   *)
(* event, a notification or the response are left out, and so are requests *)
(* refused before they write.  Reads that follow each other and are checked*)
(* again by the write are taken together.                                  *)
(***************************************************************************)
EXTENDS DispatchService

CONSTANTS
  Ops,     \* BOUND: the kinds of operations a run lets happen; of the switch, "beacon"
           \* is what the phone of a driver who is online repeats on its GPS fixes
  Forced   \* BOUND: the statuses staff force on a trip

AllOps == {"create", "schedule", "claim", "reject", "release", "cancel", "progress",
           "status", "availability", "beacon", "assign", "sweep", "time", "fault", "crash"}

ASSUME OpsAssumption == Ops \subseteq AllOps
ASSUME ForcedAssumption == Forced \subseteq TripStatuses

VARIABLE req    \* req[p]: the request p is serving

ReqPCs == {"idle", "redispatch", "claim", "reject", "release", "cancel", "write",
           "settle", "finish", "availability", "pending", "handOver", "assign"}
AboutATrip == ReqPCs \ {"idle", "availability", "pending", "handOver"}
Requests ==
  {r \in [pc : ReqPCs,
          trip : Trips \cup {None},
          driver : Drivers \cup {None},
          row : {0} \cup RowIds,                      \* the assignment acted on
          had : {"NONE", "ACCEPTED", "COMPLETED"},    \* its status as read
          to : TripStatuses \cup DriverStatuses \cup {"NONE"},  \* status to write
          snap : SUBSET RowIds,                       \* assignments as read
          skip : BOOLEAN] :                           \* skipReofferCooldown
     /\ r.pc \in AboutATrip => r.trip \in Trips
     /\ r.pc \in {"claim", "release", "availability", "pending"} => r.driver \in Drivers
     /\ r.pc = "write" => r.to \in TripStatuses
     /\ r.pc = "availability" => r.to \in DriverStatuses}
NoRequest == [pc |-> "idle", trip |-> None, driver |-> None, row |-> 0, had |-> "NONE",
              to |-> "NONE", snap |-> {}, skip |-> FALSE]

vars == <<store, dispatchVars, req>>

RequestsTypeOK == req \in [Reqs -> Requests]
RequestsInit == req = [p \in Reqs |-> NoRequest]

\* p takes up a request; the dispatch its last one fired is over.
Idle(p) == req[p].pc = "idle" /\ Quiet(p)
Goto(p, r) == req' = [req EXCEPT ![p] = r]
Reply(p) == Goto(p, NoRequest)

-----------------------------------------------------------------------------
(* POST /rides, for now or (BOUND: not for a moment long past) for later. *)

CreateRide(p, t, a) ==
  /\ Idle(p) /\ status[t] = "NONE"
  /\ (IF a = "due" THEN "create" ELSE "schedule") \in Ops
  /\ status' = [status EXCEPT ![t] = "REQUESTED"]
  /\ age' = [age EXCEPT ![t] = a]
  /\ IF a = "due" THEN Goto(p, [NoRequest EXCEPT !.pc = "redispatch", !.trip = t])
                  ELSE UNCHANGED req
  /\ UNCHANGED <<rows, dstat, online, settled, tainted, dispatchVars>>

\* void dispatchRide(...) at the end of create and of release.
FireDispatch(p) ==
  /\ req[p].pc = "redispatch"
  /\ CallDispatch({req[p].trip}, p, req[p].skip, None)
  /\ Reply(p)
  /\ UNCHANGED <<store, sweep>>

-----------------------------------------------------------------------------
(* claimRide: POST trips/:id/claim (r = 0) and assignments/:id/accept.       *)

ClaimRead(p, t, d, r) ==
  /\ "claim" \in Ops /\ Idle(p) /\ status[t] # "NONE"
  /\ r # 0 => rows[r].trip = t /\ rows[r].driver = d
  /\ ActiveRowsOf(d) = {}       \* else 409, or the ride the driver is on already
  /\ Goto(p, [NoRequest EXCEPT !.pc = "claim", !.trip = t, !.driver = d, !.row = r,
                               !.snap = ActiveRowsOf(d)])
  /\ UNCHANGED <<store, dispatchVars>>

\* The row the transaction accepts: the named or latest one of the driver, of
\* whatever status, or a new one.
ClaimedRow(t, d, named, r) ==
  IF named # 0 THEN r = named
  ELSE IF LatestRow(t, d) # {} THEN r \in LatestRow(t, d)
  ELSE NextRow(r)

\* Mutant: the trip is updated without testing its status.
ClaimTxBlind(p, r) ==
  LET t == req[p].trip
      d == req[p].driver
  IN
  /\ req[p].pc = "claim" /\ ClaimedRow(t, d, req[p].row, r)
  /\ status' = [status EXCEPT ![t] = "ASSIGNED"]
  /\ rows' = [Restate(RowsIn(t, {"OFFERED"}), "EXPIRED") EXCEPT
                ![r] = NewRow(t, d, "ACCEPTED", IF rows[r].st = "NONE" THEN 1 ELSE rows[r].clock)]
  /\ dstat' = [dstat EXCEPT ![d] = "ON_TRIP"]
  /\ tainted' = TaintUnless(t, ActiveRowsOf(d) = req[p].snap)
  /\ Reply(p)
  /\ UNCHANGED <<age, online, settled, dispatchVars>>

\* The transaction: the update of an open trip is the lock.  The busy check is not
\* repeated in it: the driver may have got another ride since.
ClaimTx(p, r) ==
  LET t == req[p].trip
      d == req[p].driver
  IN
  /\ req[p].pc = "claim" /\ IsOpen(t) /\ ClaimedRow(t, d, req[p].row, r)
  /\ status' = [status EXCEPT ![t] = "ASSIGNED"]
  /\ rows' = [Restate(RowsIn(t, {"OFFERED"}), "EXPIRED") EXCEPT
                ![r] = NewRow(t, d, "ACCEPTED", IF rows[r].st = "NONE" THEN 1 ELSE rows[r].clock)]
  /\ dstat' = [dstat EXCEPT ![d] = "ON_TRIP"]
  /\ tainted' = TaintUnless(t, ActiveRowsOf(d) = req[p].snap)
  /\ Reply(p)
  /\ UNCHANGED <<age, online, settled, dispatchVars>>

\* 409: taken or cancelled.  BOUND: also when MaxRows assignments are used up.
ClaimRefused(p) ==
  /\ req[p].pc = "claim"
  /\ IsOpen(req[p].trip) =>
       \A r \in RowIds : ~ClaimedRow(req[p].trip, req[p].driver, req[p].row, r)
  /\ Reply(p)
  /\ UNCHANGED <<store, dispatchVars>>

-----------------------------------------------------------------------------
(* POST assignments/:id/reject *)

RejectRead(p, r) ==
  /\ "reject" \in Ops /\ Idle(p) /\ rows[r].st # "NONE"
  /\ IF rows[r].st = "OFFERED"
       THEN /\ Goto(p, [NoRequest EXCEPT !.pc = "reject", !.trip = rows[r].trip, !.row = r])
            /\ NoDispatch
       ELSE /\ CallDispatch({rows[r].trip}, p, FALSE, None)
            /\ UNCHANGED req
  /\ UNCHANGED <<store, sweep>>

\* The update names the id only: it overwrites whatever the row is by now.
RejectWrite(p) ==
  LET r == req[p].row IN
  /\ req[p].pc = "reject"
  /\ rows' = Restate({r}, "REJECTED")
  /\ tainted' = TaintUnless(req[p].trip, rows[r].st = "OFFERED")
  /\ CallDispatch({req[p].trip}, p, FALSE, None)
  /\ Reply(p)
  /\ UNCHANGED <<status, age, dstat, online, settled, sweep>>

-----------------------------------------------------------------------------
(* releaseRide: POST trips/:id/release.  Other outcomes of the read write    *)
(* nothing: refused, or already released.                                    *)

ReleaseRead(p, t, d) ==
  /\ "release" \in Ops /\ Idle(p) /\ status[t] \in ReleasableStatuses
  /\ \E r \in LatestRow(t, d) :
       /\ rows[r].st = "ACCEPTED"
       /\ Goto(p, [NoRequest EXCEPT !.pc = "release", !.trip = t, !.driver = d, !.row = r])
  /\ UNCHANGED <<store, dispatchVars>>

\* Mutant: the driver is not made available again.
ReleaseTxKeepsDriver(p) ==
  LET t == req[p].trip
      r == req[p].row
  IN
  /\ req[p].pc = "release"
  /\ IF status[t] \in ReleasableStatuses
       THEN /\ status' = [status EXCEPT ![t] = "REQUESTED"]
            /\ rows' = Restate({r} \cap RowsIn(t, {"ACCEPTED"}), "REJECTED")
            /\ tainted' = TaintUnless(t, rows[r].st = "ACCEPTED")
            /\ Goto(p, [NoRequest EXCEPT !.pc = "redispatch", !.trip = t, !.skip = TRUE])
       ELSE Reply(p) /\ UNCHANGED <<status, rows, tainted>>
  /\ UNCHANGED <<age, dstat, online, settled, dispatchVars>>

\* The trip update tests the trip's status, not who holds the trip.
ReleaseTx(p) ==
  LET t == req[p].trip
      r == req[p].row
  IN
  /\ req[p].pc = "release"
  /\ IF status[t] \in ReleasableStatuses
       THEN /\ status' = [status EXCEPT ![t] = "REQUESTED"]
            /\ rows' = Restate({r} \cap RowsIn(t, {"ACCEPTED"}), "REJECTED")
            /\ dstat' = [dstat EXCEPT ![req[p].driver] = "ACTIVE"]
            /\ tainted' = TaintUnless(t, rows[r].st = "ACCEPTED")
            /\ Goto(p, [NoRequest EXCEPT !.pc = "redispatch", !.trip = t, !.skip = TRUE])
       ELSE Reply(p) /\ UNCHANGED <<status, rows, dstat, tainted>>
  /\ UNCHANGED <<age, online, settled, dispatchVars>>

-----------------------------------------------------------------------------
(* cancelRide: POST rides/:id/cancel by passenger, staff or a driver with a  *)
(* pending or accepted assignment.                                           *)

CancelRead(p, t) ==
  /\ "cancel" \in Ops /\ Idle(p) /\ status[t] \in CancellableStatuses
  /\ Goto(p, [NoRequest EXCEPT !.pc = "cancel", !.trip = t,
                               !.snap = RowsIn(t, {"OFFERED", "ACCEPTED"})])
  /\ UNCHANGED <<store, dispatchVars>>

\* All three updates name ids only; every driver of the snapshot is freed.
CancelTx(p) ==
  LET t == req[p].trip
      snap == req[p].snap
  IN
  /\ req[p].pc = "cancel"
  /\ rows' = Restate(snap, "EXPIRED")
  /\ dstat' = [d \in Drivers |-> IF \E r \in snap : rows[r].driver = d THEN "ACTIVE" ELSE dstat[d]]
  /\ status' = [status EXCEPT ![t] = "CANCELLED"]
  /\ tainted' = TaintUnless(t, /\ status[t] \in CancellableStatuses
                               /\ RowsIn(t, {"OFFERED", "ACCEPTED"}) \subseteq snap)
  /\ Reply(p)
  /\ UNCHANGED <<age, online, settled, dispatchVars>>

-----------------------------------------------------------------------------
(* updateDriverRideStatus (arrived, start, complete) and updateRideStatus    *)
(* (PATCH rides/:id/status, which checks nothing).                           *)

AllowedFrom(to) ==
  CASE to = "ARRIVED" -> ReleasableStatuses
    [] to = "IN_PROGRESS" -> ActiveStatuses
    [] to = "COMPLETED" -> ActiveStatuses \cup {"COMPLETED"}

ProgressRead(p, t, d, to) ==
  /\ "progress" \in Ops /\ Idle(p) /\ status[t] \in AllowedFrom(to)
  /\ \E r \in RowsIn(t, {"ACCEPTED", "COMPLETED"}) :
       /\ rows[r].driver = d
       /\ Goto(p, [NoRequest EXCEPT !.pc = "write", !.trip = t, !.row = r,
                                    !.had = rows[r].st, !.to = to])
  /\ UNCHANGED <<store, dispatchVars>>

PatchRead(p, t, to) ==
  /\ "status" \in Ops /\ Idle(p) /\ status[t] # "NONE"
  /\ Goto(p, [NoRequest EXCEPT !.pc = "write", !.trip = t, !.to = to])
  /\ UNCHANGED <<store, dispatchVars>>

\* Mutant: the assignment is closed without waiting for the settlement.
WriteStatusUnsettled(p) ==
  LET t == req[p].trip
      to == req[p].to
  IN
  /\ req[p].pc = "write"
  /\ status' = [status EXCEPT ![t] = to]
  /\ tainted' = TaintUnless(t, /\ req[p].row # 0
                               /\ rows[req[p].row].st = req[p].had
                               /\ status[t] \in AllowedFrom(to))
  /\ IF to = "COMPLETED" THEN Goto(p, [req[p] EXCEPT !.pc = "finish"]) ELSE Reply(p)
  /\ UNCHANGED <<age, rows, dstat, online, settled, dispatchVars>>

\* update({id}) after the checks of the read, and the status event that follows it.
WriteStatus(p) ==
  LET t == req[p].trip
      to == req[p].to
  IN
  /\ req[p].pc = "write"
  /\ status' = [status EXCEPT ![t] = to]
  /\ tainted' = TaintUnless(t, /\ req[p].row # 0
                               /\ rows[req[p].row].st = req[p].had
                               /\ status[t] \in AllowedFrom(to))
  /\ IF to = "COMPLETED" THEN Goto(p, [req[p] EXCEPT !.pc = "settle"]) ELSE Reply(p)
  /\ UNCHANGED <<age, rows, dstat, online, settled, dispatchVars>>

\* settleRideTrip, as far as rides are concerned: only with an ACCEPTED assignment
\* (should there be several, the one answered last), whose driver is freed.
Settle(p) ==
  LET t == req[p].trip IN
  /\ req[p].pc = "settle"
  /\ \/ /\ t \notin settled
        /\ \E r \in RowsIn(t, {"ACCEPTED"}) : dstat' = [dstat EXCEPT ![rows[r].driver] = "ACTIVE"]
        /\ settled' = settled \cup {t}
     \/ /\ t \in settled \/ RowsIn(t, {"ACCEPTED"}) = {}
        /\ UNCHANGED <<dstat, settled>>
  /\ IF req[p].had = "ACCEPTED" THEN Goto(p, [req[p] EXCEPT !.pc = "finish"]) ELSE Reply(p)
  /\ UNCHANGED <<status, age, rows, online, tainted, dispatchVars>>

FinishRow(p) ==
  /\ req[p].pc = "finish"
  /\ rows' = Restate({req[p].row}, "COMPLETED")
  /\ Reply(p)
  /\ UNCHANGED <<status, age, dstat, online, settled, tainted, dispatchVars>>

-----------------------------------------------------------------------------
(* PATCH drivers/me/availability *)

ToggleRead(p, d, on) ==
  /\ Idle(p) /\ ("availability" \in Ops \/ ("beacon" \in Ops /\ on /\ online[d]))
  /\ Goto(p, [NoRequest EXCEPT !.pc = "availability", !.driver = d,
        !.to = IF ~on THEN "OFFLINE" ELSE IF dstat[d] = "ON_TRIP" THEN "ON_TRIP" ELSE "ACTIVE"])
  /\ UNCHANGED <<store, dispatchVars>>

\* The status is written as it was read, whatever it is by now: the beacon a driver's
\* phone sends on a GPS fix can put a driver whose ride is over back ON_TRIP.
ToggleWrite(p) ==
  LET d == req[p].driver
      on == req[p].to # "OFFLINE"
  IN
  /\ req[p].pc = "availability"
  /\ dstat' = [dstat EXCEPT ![d] = req[p].to]
  /\ online' = [online EXCEPT ![d] = on]
  /\ tainted' = IF req[p].to = "ON_TRIP" THEN TaintUnless(d, dstat[d] = "ON_TRIP")
                                        ELSE tainted \ {d}
  /\ IF on THEN Reply(p) ELSE Goto(p, [NoRequest EXCEPT !.pc = "pending", !.driver = d])
  /\ UNCHANGED <<status, age, rows, settled, dispatchVars>>

\* Going offline: the driver's pending offers ...
PendingRead(p) ==
  LET pending == {r \in RowIds : rows[r].st = "OFFERED" /\ rows[r].driver = req[p].driver} IN
  /\ req[p].pc = "pending"
  /\ IF pending = {} THEN Reply(p)
     ELSE Goto(p, [NoRequest EXCEPT !.pc = "handOver", !.snap = pending])
  /\ UNCHANGED <<store, dispatchVars>>

\* ... expire, and their rides move on.
HandOver(p) ==
  LET snap == req[p].snap IN
  /\ req[p].pc = "handOver"
  /\ rows' = Restate({r \in snap : rows[r].st = "OFFERED"}, "EXPIRED")
  /\ CallDispatch({t \in Trips : \E r \in snap : rows[r].trip = t}, p, FALSE, None)
  /\ Reply(p)
  /\ UNCHANGED <<status, age, dstat, online, settled, tainted, sweep>>

-----------------------------------------------------------------------------
(* POST trips/:id/assign by an operator, for the best driver (g = None) or   *)
(* for driver g.                                                             *)

AssignRead(p, t, g) ==
  LET pending == RowsIn(t, {"OFFERED"}) IN
  /\ "assign" \in Ops /\ Idle(p) /\ status[t] # "NONE"
  /\ IF pending = {}
       THEN CallDispatch({t}, p, TRUE, g) /\ UNCHANGED req
       ELSE /\ Goto(p, [NoRequest EXCEPT !.pc = "assign", !.trip = t, !.driver = g, !.snap = pending])
            /\ NoDispatch
  /\ UNCHANGED <<store, sweep>>

AssignExpire(p) ==
  LET snap == req[p].snap IN
  /\ req[p].pc = "assign"
  /\ rows' = Restate({r \in snap : rows[r].st = "OFFERED"}, "EXPIRED")
  /\ CallDispatch({req[p].trip}, p, TRUE, req[p].driver)
  /\ Reply(p)
  /\ UNCHANGED <<status, age, dstat, online, settled, tainted, sweep>>

-----------------------------------------------------------------------------
(* A query of the handler rejects (500): what it wrote stays written. *)
RequestFails(p) ==
  /\ req[p].pc # "idle"
  /\ Reply(p)
  /\ UNCHANGED <<store, dispatchVars>>

RequestStep(p) ==
  \/ FireDispatch(p) \/ (\E r \in RowIds : ClaimTx(p, r)) \/ ClaimRefused(p)
  \/ RejectWrite(p) \/ ReleaseTx(p) \/ CancelTx(p)
  \/ WriteStatus(p) \/ Settle(p) \/ FinishRow(p)
  \/ ToggleWrite(p) \/ PendingRead(p) \/ HandOver(p) \/ AssignExpire(p)

RequestBegin(p) ==
  \/ \E t \in Trips : \/ \E a \in {"due", "future"} : CreateRide(p, t, a)
                      \/ CancelRead(p, t)
                      \/ \E to \in Forced : PatchRead(p, t, to)
                      \/ \E g \in Drivers \cup {None} : AssignRead(p, t, g)
  \/ \E t \in Trips, d \in Drivers :
       \/ \E r \in {0} \cup RowIds : ClaimRead(p, t, d, r)
       \/ ReleaseRead(p, t, d)
       \/ \E to \in {"ARRIVED", "IN_PROGRESS", "COMPLETED"} : ProgressRead(p, t, d, to)
  \/ \E r \in RowIds : RejectRead(p, r)
  \/ \E d \in Drivers, on \in BOOLEAN : ToggleRead(p, d, on)
=============================================================================
