----------------------------- MODULE RideProofs -----------------------------
(* Theorems about RideSystem, for any trips, drivers, requests and bounds. *)
EXTENDS RideSystem, TLAPS

-----------------------------------------------------------------------------
(* Typing of the shared operators. *)

LEMMA RestateTyped ==
  ASSUME StoreTypeOK, NEW S, NEW st \in RowStatuses
  PROVE  Restate(S, st) \in [RowIds -> Rows]
BY DEF StoreTypeOK, Restate, Rows, NoRow

LEMMA EndCallTyped ==
  ASSUME DispatchTypeOK, NEW t \in Trips, NEW c \in Callers, EndCall(t, c)
  PROVE  /\ inFlight' \in SUBSET Trips
         /\ disp' \in [Trips -> [Callers -> Calls]]
BY DEF DispatchTypeOK, EndCall, NoCall, Calls, CallPCs

LEMMA GoOnTyped ==
  ASSUME DispatchTypeOK, NEW t \in Trips, NEW c \in Callers, NEW call \in Calls,
         GoOn(t, c, call)
  PROVE  /\ inFlight' \in SUBSET Trips
         /\ disp' \in [Trips -> [Callers -> Calls]]
BY DEF DispatchTypeOK, GoOn

LEMMA CallDispatchTyped ==
  ASSUME DispatchTypeOK, NEW S \in SUBSET Trips, NEW c \in Callers,
         NEW skip \in BOOLEAN, NEW target \in Drivers \cup {None},
         CallDispatch(S, c, skip, target)
  PROVE  /\ inFlight' \in SUBSET Trips
         /\ disp' \in [Trips -> [Callers -> Calls]]
BY DEF DispatchTypeOK, CallDispatch, NoCall, Calls, CallPCs

LEMMA TaintTyped ==
  ASSUME StoreTypeOK, NEW x \in Trips \cup Drivers, NEW held
  PROVE  TaintUnless(x, held) \in SUBSET (Trips \cup Drivers)
BY DEF StoreTypeOK, TaintUnless

LEMMA GotoTyped ==
  ASSUME RequestsTypeOK, NEW p \in Reqs, NEW r \in Requests, Goto(p, r)
  PROVE  RequestsTypeOK'
BY DEF RequestsTypeOK, Goto

LEMMA ReplyTyped ==
  ASSUME RequestsTypeOK, NEW p \in Reqs, Reply(p)
  PROVE  RequestsTypeOK'
BY DEF RequestsTypeOK, Goto, Reply, NoRequest, Requests, ReqPCs, AboutATrip

-----------------------------------------------------------------------------

LEMMA TypeInit == Init => TypeOK
BY NoneAssumption, MaxRowsAssumption, OnlineAssumption
DEF Init, TypeOK, StoreInit, DispatchInit, RequestsInit, StoreTypeOK, DispatchTypeOK,
    RequestsTypeOK, AboutATrip, NoRow, Rows, NoCall, Calls, CallPCs, NoSweep, Sweeps, SweepPCs,
    NoRequest, Requests, ReqPCs, Ages, DriverStatuses

LEMMA DispatchStepTyped ==
  ASSUME TypeOK, NEW t \in Trips, NEW c \in Callers, DispatchStep(t, c), UNCHANGED req
  PROVE  TypeOK'
<1> DEFINE CallsTyped == /\ inFlight' \in SUBSET Trips
                         /\ disp' \in [Trips -> [Callers -> Calls]]
<1>a. /\ StoreTypeOK /\ DispatchTypeOK /\ RequestsTypeOK
      /\ disp[t][c] \in Calls
  BY DEF TypeOK, DispatchTypeOK
<1>b. RequestsTypeOK'
  BY <1>a DEF RequestsTypeOK
<1>c. ASSUME EndCall(t, c) PROVE CallsTyped
  BY <1>a, <1>c, EndCallTyped
<1>d. ASSUME CallsTyped, UNCHANGED <<store, sweep>> PROVE TypeOK'
  BY <1>a, <1>b, <1>d DEF TypeOK, store, StoreTypeOK, DispatchTypeOK
<1>1. CASE ReadTrip(t, c)
  <2>1. CASE IsOpen(t) /\ age[t] # "future"
    <3>1. [disp[t][c] EXCEPT !.pc = "offers", !.seen = status[t]] \in Calls
      BY <1>a, <2>1 DEF Calls, CallPCs, IsOpen
    <3> QED
      BY <1>1, <2>1, <3>1, <1>a, <1>d, GoOnTyped DEF ReadTrip
  <2> QED
    BY <1>1, <2>1, <1>c, <1>d DEF ReadTrip
<1>2. CASE ReadOffers(t, c)
  <2> DEFINE may == IF disp[t][c].target = None THEN Askable(t, disp[t][c].skip)
                                                ELSE {disp[t][c].target}
  <2>1. CASE LiveOffers(t) = {}
    <3>1. may \in SUBSET Drivers
      BY <1>a DEF Askable, Calls
    <3>2. [disp[t][c] EXCEPT !.pc = "drivers", !.may = may] \in Calls
      BY <1>a, <3>1 DEF Calls, CallPCs
    <3> QED
      BY <1>2, <2>1, <3>2, <1>a, <1>d, GoOnTyped DEF ReadOffers
  <2> QED
    BY <1>2, <2>1, <1>c, <1>d DEF ReadOffers
<1>3. CASE PickDriver(t, c)
  <2>1. ASSUME NEW d \in disp[t][c].may,
               GoOn(t, c, [disp[t][c] EXCEPT !.pc = "create", !.may = {}, !.driver = d])
        PROVE  CallsTyped
    <3>1. [disp[t][c] EXCEPT !.pc = "create", !.may = {}, !.driver = d] \in Calls
      BY <1>a DEF Calls, CallPCs
    <3> QED
      BY <2>1, <3>1, <1>a, GoOnTyped
  <2> QED
    BY <1>3, <2>1, <1>c, <1>d DEF PickDriver
<1>4. CASE CreateOffer(t, c)
  <2>1. CallsTyped
    <3>1. [disp[t][c] EXCEPT !.pc = "mark"] \in Calls
      BY <1>a DEF Calls, CallPCs
    <3> QED
      BY <1>4, <3>1, <1>a, <1>c, GoOnTyped DEF CreateOffer
  <2>2. rows' \in [RowIds -> Rows]
    BY <1>4, <1>a DEF CreateOffer, StoreTypeOK, NewRow, Rows, RowStatuses, Calls
  <2> QED
    BY <1>4, <1>a, <1>b, <2>1, <2>2 DEF CreateOffer, TypeOK, StoreTypeOK, DispatchTypeOK
<1>5. CASE CreateOfferFails(t, c)
  BY <1>5, <1>c, <1>d DEF CreateOfferFails
<1>6. CASE MarkAssigning(t, c)
  <2>1. tainted' \in SUBSET (Trips \cup Drivers)
    BY <1>6, <1>a, TaintTyped DEF MarkAssigning
  <2>2. status' \in [Trips -> TripStatuses \cup {"NONE"}]
    BY <1>6, <1>a DEF MarkAssigning, StoreTypeOK, TripStatuses, OpenStatuses
  <2>3. CallsTyped
    <3>1. [disp[t][c] EXCEPT !.pc = "event"] \in Calls
      BY <1>a DEF Calls, CallPCs
    <3> QED
      BY <1>6, <3>1, <1>a, GoOnTyped DEF MarkAssigning
  <2> QED
    BY <1>6, <1>a, <1>b, <2>1, <2>2, <2>3 DEF MarkAssigning, TypeOK, StoreTypeOK, DispatchTypeOK
<1>7. CASE RecordEvent(t, c)
  BY <1>7, <1>c, <1>d DEF RecordEvent
<1> QED
  BY <1>1, <1>2, <1>3, <1>4, <1>5, <1>6, <1>7 DEF DispatchStep

LEMMA SweepStepTyped ==
  ASSUME TypeOK, SweepStep, UNCHANGED req
  PROVE  TypeOK'
<1> USE DEF TypeOK
<1>1. CASE SweepBegin
  BY <1>1 DEF SweepBegin, NoSweep, store, StoreTypeOK, DispatchTypeOK, RequestsTypeOK, Sweeps, SweepPCs
<1>2. CASE SweepExpireEnds
  BY <1>2 DEF SweepExpireEnds, store, StoreTypeOK, DispatchTypeOK, RequestsTypeOK, Sweeps, SweepPCs
<1>3. CASE SweepReadWaiting
  BY <1>3 DEF SweepReadWaiting, store, StoreTypeOK, DispatchTypeOK, RequestsTypeOK, Sweeps, SweepPCs
<1>4. CASE SweepReadStale
  BY <1>4 DEF SweepReadStale, store, StoreTypeOK, DispatchTypeOK, RequestsTypeOK, Sweeps, SweepPCs
<1>5. CASE SweepCloseRows
  BY <1>5, RestateTyped DEF SweepCloseRows, StoreTypeOK, DispatchTypeOK, RequestsTypeOK,
     Sweeps, SweepPCs, RowStatuses
<1>6. CASE SweepEnd
  BY <1>6 DEF SweepEnd, NoSweep, store, StoreTypeOK, DispatchTypeOK, RequestsTypeOK, Sweeps, SweepPCs
<1>7. ASSUME NEW r \in RowIds, SweepExpire(r) PROVE TypeOK'
  <2>1. rows' \in [RowIds -> Rows]
    BY <1>7, RestateTyped DEF SweepExpire, StoreTypeOK, RowStatuses
  <2>2. sweep' \in Sweeps
    <3>1. rows[r].st = "OFFERED" => rows[r].trip \in Trips
      BY DEF StoreTypeOK, Rows, NoRow
    <3>2. CASE rows[r].st = "OFFERED"
      <4>1. sweep' = [sweep EXCEPT !.rows = sweep.rows \ {r}, !.trips = sweep.trips \cup {rows[r].trip}]
        BY <1>7, <3>2 DEF SweepExpire
      <4>2. /\ sweep \in Sweeps
            /\ sweep.rows \ {r} \in SUBSET RowIds
            /\ sweep.trips \cup {rows[r].trip} \in SUBSET Trips
        BY <3>1, <3>2 DEF DispatchTypeOK, Sweeps
      <4> QED
        BY <4>1, <4>2 DEF Sweeps
    <3>3. CASE rows[r].st # "OFFERED"
      BY <1>7, <3>3 DEF SweepExpire, DispatchTypeOK, Sweeps
    <3> QED
      BY <3>2, <3>3
  <2> QED
    BY <1>7, <2>1, <2>2 DEF SweepExpire, StoreTypeOK, DispatchTypeOK, RequestsTypeOK
<1>8. ASSUME NEW t \in Trips, SweepDispatch(t) PROVE TypeOK'
  <2>1. /\ inFlight' \in SUBSET Trips
        /\ disp' \in [Trips -> [Callers -> Calls]]
    <3>1. CASE CallDispatch({t}, Sweeper, FALSE, None)
      BY <3>1, CallDispatchTyped, {t} \in SUBSET Trips, Sweeper \in Callers DEF Callers
    <3>2. CASE NoDispatch
      BY <3>2 DEF NoDispatch, DispatchTypeOK
    <3> QED
      BY <1>8, <3>1, <3>2 DEF SweepDispatch
  <2>2. sweep' \in Sweeps
    BY <1>8 DEF SweepDispatch, DispatchTypeOK, Sweeps
  <2> QED
    BY <1>8, <2>1, <2>2 DEF SweepDispatch, store, StoreTypeOK, DispatchTypeOK, RequestsTypeOK
<1>9. ASSUME NEW t \in Trips, SweepClose(t) PROVE TypeOK'
  <2>1. status' \in [Trips -> TripStatuses \cup {"NONE"}]
    BY <1>9 DEF SweepClose, StoreTypeOK, TripStatuses, FinalStatuses
  <2>2. sweep' \in Sweeps
    <3>1. CASE IsOpen(t)
      <4>1. sweep' = [sweep EXCEPT !.pc = "closeRows", !.trips = sweep.trips \ {t}, !.cur = t]
        BY <1>9, <3>1 DEF SweepClose
      <4>2. sweep \in Sweeps /\ sweep.trips \ {t} \in SUBSET Trips
        BY DEF DispatchTypeOK, Sweeps
      <4> QED
        BY <4>1, <4>2 DEF Sweeps, SweepPCs
    <3>2. CASE ~IsOpen(t)
      BY <1>9, <3>2 DEF SweepClose, DispatchTypeOK, Sweeps
    <3> QED
      BY <3>1, <3>2
  <2> QED
    BY <1>9, <2>1, <2>2 DEF SweepClose, StoreTypeOK, DispatchTypeOK, RequestsTypeOK
<1> QED
  BY <1>1, <1>2, <1>3, <1>4, <1>5, <1>6, <1>7, <1>8, <1>9 DEF SweepStep

LEMMA NoDispatchTyped ==
  ASSUME DispatchTypeOK, UNCHANGED dispatchVars
  PROVE  DispatchTypeOK'
BY DEF DispatchTypeOK, dispatchVars

LEMMA StoreUnchangedTyped ==
  ASSUME StoreTypeOK, UNCHANGED store
  PROVE  StoreTypeOK'
BY DEF StoreTypeOK, store

\* A handler that calls dispatchRide for some trips and does not touch the sweep.
LEMMA CallDispatchTypeOK ==
  ASSUME DispatchTypeOK, NEW S \in SUBSET Trips, NEW p \in Reqs,
         NEW skip \in BOOLEAN, NEW target \in Drivers \cup {None},
         CallDispatch(S, p, skip, target), UNCHANGED sweep
  PROVE  DispatchTypeOK'
<1>1. p \in Callers
  BY DEF Callers
<1> QED
  BY <1>1, CallDispatchTyped DEF DispatchTypeOK

LEMMA RequestBeginTyped ==
  ASSUME TypeOK, NEW p \in Reqs, RequestBegin(p)
  PROVE  TypeOK'
<1> USE DEF TypeOK
<1>1. ASSUME NEW t \in Trips, NEW a \in {"due", "future"}, CreateRide(p, t, a)
      PROVE  TypeOK'
  <2>1. StoreTypeOK'
    BY <1>1 DEF CreateRide, StoreTypeOK, TripStatuses, OpenStatuses, Ages
  <2>2. RequestsTypeOK'
    <3>1. [NoRequest EXCEPT !.pc = "redispatch", !.trip = t] \in Requests
      BY DEF NoRequest, Requests, ReqPCs, AboutATrip
    <3> QED
      BY <1>1, <3>1, GotoTyped DEF CreateRide, RequestsTypeOK
  <2> QED
    BY <1>1, <2>1, <2>2, NoDispatchTyped DEF CreateRide
<1>2. ASSUME NEW t \in Trips, CancelRead(p, t) PROVE TypeOK'
  <2>1. [NoRequest EXCEPT !.pc = "cancel", !.trip = t,
                          !.snap = RowsIn(t, {"OFFERED", "ACCEPTED"})] \in Requests
    BY DEF NoRequest, Requests, ReqPCs, AboutATrip, RowsIn
  <2> QED
    BY <1>2, <2>1, GotoTyped, NoDispatchTyped, StoreUnchangedTyped DEF CancelRead
<1>3. ASSUME NEW t \in Trips, NEW to \in Forced, PatchRead(p, t, to) PROVE TypeOK'
  <2>1. [NoRequest EXCEPT !.pc = "write", !.trip = t, !.to = to] \in Requests
    BY ForcedAssumption DEF NoRequest, Requests, ReqPCs, AboutATrip
  <2> QED
    BY <1>3, <2>1, GotoTyped, NoDispatchTyped, StoreUnchangedTyped DEF PatchRead
<1>4. ASSUME NEW t \in Trips, NEW g \in Drivers \cup {None}, AssignRead(p, t, g)
      PROVE  TypeOK'
  <2>1. CASE RowsIn(t, {"OFFERED"}) = {}
    <3>1. DispatchTypeOK'
      BY <1>4, <2>1, CallDispatchTypeOK, {t} \in SUBSET Trips DEF AssignRead
    <3> QED
      BY <1>4, <2>1, <3>1, StoreUnchangedTyped DEF AssignRead, RequestsTypeOK
  <2>2. CASE RowsIn(t, {"OFFERED"}) # {}
    <3>1. [NoRequest EXCEPT !.pc = "assign", !.trip = t, !.driver = g,
                            !.snap = RowsIn(t, {"OFFERED"})] \in Requests
      BY DEF NoRequest, Requests, ReqPCs, AboutATrip, RowsIn
    <3>2. RequestsTypeOK' /\ UNCHANGED dispatchVars
      BY <1>4, <2>2, <3>1, GotoTyped DEF AssignRead, NoDispatch, dispatchVars
    <3> QED
      BY <1>4, <3>2, NoDispatchTyped, StoreUnchangedTyped DEF AssignRead
  <2> QED
    BY <2>1, <2>2
<1>5. ASSUME NEW t \in Trips, NEW d \in Drivers, NEW r \in {0} \cup RowIds,
             ClaimRead(p, t, d, r)
      PROVE  TypeOK'
  <2>1. [NoRequest EXCEPT !.pc = "claim", !.trip = t, !.driver = d, !.row = r,
                           !.snap = ActiveRowsOf(d)] \in Requests
    BY DEF NoRequest, Requests, ReqPCs, AboutATrip, ActiveRowsOf
  <2> QED
    BY <1>5, <2>1, GotoTyped, NoDispatchTyped, StoreUnchangedTyped DEF ClaimRead
<1>6. ASSUME NEW t \in Trips, NEW d \in Drivers, ReleaseRead(p, t, d) PROVE TypeOK'
  <2>1. PICK r \in RowIds :
          Goto(p, [NoRequest EXCEPT !.pc = "release", !.trip = t, !.driver = d, !.row = r])
    BY <1>6 DEF ReleaseRead, LatestRow
  <2>2. [NoRequest EXCEPT !.pc = "release", !.trip = t, !.driver = d, !.row = r] \in Requests
    BY DEF NoRequest, Requests, ReqPCs, AboutATrip
  <2> QED
    BY <1>6, <2>1, <2>2, GotoTyped, NoDispatchTyped, StoreUnchangedTyped DEF ReleaseRead
<1>7. ASSUME NEW t \in Trips, NEW d \in Drivers,
             NEW to \in {"ARRIVED", "IN_PROGRESS", "COMPLETED"}, ProgressRead(p, t, d, to)
      PROVE  TypeOK'
  <2>1. PICK r \in RowIds :
          /\ rows[r].st \in {"ACCEPTED", "COMPLETED"}
          /\ Goto(p, [NoRequest EXCEPT !.pc = "write", !.trip = t, !.row = r,
                                       !.had = rows[r].st, !.to = to])
    BY <1>7 DEF ProgressRead, RowsIn
  <2>2. [NoRequest EXCEPT !.pc = "write", !.trip = t, !.row = r,
                          !.had = rows[r].st, !.to = to] \in Requests
    BY <2>1 DEF NoRequest, Requests, ReqPCs, AboutATrip, TripStatuses, ActiveStatuses,
       ReleasableStatuses, FinalStatuses
  <2> QED
    BY <1>7, <2>1, <2>2, GotoTyped, NoDispatchTyped, StoreUnchangedTyped DEF ProgressRead
<1>8. ASSUME NEW r \in RowIds, RejectRead(p, r) PROVE TypeOK'
  <2>1. rows[r].trip \in Trips
    BY <1>8 DEF RejectRead, StoreTypeOK, Rows, NoRow
  <2>2. CASE rows[r].st = "OFFERED"
    <3>1. [NoRequest EXCEPT !.pc = "reject", !.trip = rows[r].trip, !.row = r] \in Requests
      BY <2>1 DEF NoRequest, Requests, ReqPCs, AboutATrip
    <3>2. RequestsTypeOK' /\ UNCHANGED dispatchVars
      BY <1>8, <2>2, <3>1, GotoTyped DEF RejectRead, NoDispatch, dispatchVars
    <3> QED
      BY <1>8, <3>2, NoDispatchTyped, StoreUnchangedTyped DEF RejectRead
  <2>3. CASE rows[r].st # "OFFERED"
    <3>1. DispatchTypeOK'
      BY <1>8, <2>1, <2>3, CallDispatchTypeOK, {rows[r].trip} \in SUBSET Trips DEF RejectRead
    <3> QED
      BY <1>8, <2>3, <3>1, StoreUnchangedTyped DEF RejectRead, RequestsTypeOK
  <2> QED
    BY <2>2, <2>3
<1>9. ASSUME NEW d \in Drivers, NEW on \in BOOLEAN, ToggleRead(p, d, on) PROVE TypeOK'
  <2> DEFINE to == IF ~on THEN "OFFLINE" ELSE IF dstat[d] = "ON_TRIP" THEN "ON_TRIP" ELSE "ACTIVE"
  <2>1. [NoRequest EXCEPT !.pc = "availability", !.driver = d, !.to = to] \in Requests
    BY DEF NoRequest, Requests, ReqPCs, AboutATrip, DriverStatuses
  <2> QED
    BY <1>9, <2>1, GotoTyped, NoDispatchTyped, StoreUnchangedTyped DEF ToggleRead
<1> QED
  BY <1>1, <1>2, <1>3, <1>4, <1>5, <1>6, <1>7, <1>8, <1>9 DEF RequestBegin

LEMMA RequestStepTyped ==
  ASSUME TypeOK, NEW p \in Reqs, RequestStep(p)
  PROVE  TypeOK'
<1> USE DEF TypeOK
<1>a. req[p] \in Requests
  BY DEF RequestsTypeOK
<1>1. CASE FireDispatch(p)
  <2>1. req[p].trip \in Trips /\ req[p].skip \in BOOLEAN
    BY <1>1, <1>a DEF FireDispatch, Requests, AboutATrip, ReqPCs
  <2>2. DispatchTypeOK'
    BY <1>1, <2>1, CallDispatchTypeOK, {req[p].trip} \in SUBSET Trips DEF FireDispatch
  <2> QED
    BY <1>1, <2>2, ReplyTyped, StoreUnchangedTyped DEF FireDispatch
<1>2. ASSUME NEW r \in RowIds, ClaimTx(p, r) PROVE TypeOK'
  <2>1. req[p].trip \in Trips /\ req[p].driver \in Drivers
    BY <1>2, <1>a DEF ClaimTx, Requests, AboutATrip, ReqPCs
  <2> DEFINE clock == IF rows[r].st = "NONE" THEN 1 ELSE rows[r].clock
  <2>2. rows' \in [RowIds -> Rows]
    <3>1. Restate(RowsIn(req[p].trip, {"OFFERED"}), "EXPIRED") \in [RowIds -> Rows]
      BY RestateTyped DEF RowStatuses
    <3>2. clock \in 0 .. 2
      BY DEF StoreTypeOK, Rows, NoRow
    <3>3. NewRow(req[p].trip, req[p].driver, "ACCEPTED", clock) \in Rows
      BY <2>1, <3>2 DEF NewRow, Rows, RowStatuses
    <3> QED
      BY <1>2, <3>1, <3>3 DEF ClaimTx
  <2>3. status' \in [Trips -> TripStatuses \cup {"NONE"}]
    BY <1>2 DEF ClaimTx, StoreTypeOK, TripStatuses, ActiveStatuses, ReleasableStatuses
  <2>4. dstat' \in [Drivers -> DriverStatuses]
    BY <1>2 DEF ClaimTx, StoreTypeOK, DriverStatuses
  <2>5. tainted' \in SUBSET (Trips \cup Drivers)
    BY <1>2, <2>1, TaintTyped DEF ClaimTx
  <2>6. StoreTypeOK'
    BY <1>2, <2>2, <2>3, <2>4, <2>5 DEF ClaimTx, StoreTypeOK
  <2> QED
    BY <1>2, <2>6, ReplyTyped, NoDispatchTyped DEF ClaimTx
<1>3. CASE ClaimRefused(p)
  BY <1>3, ReplyTyped, NoDispatchTyped, StoreUnchangedTyped DEF ClaimRefused
<1>4. CASE RejectWrite(p)
  <2>1. req[p].trip \in Trips
    BY <1>4, <1>a DEF RejectWrite, Requests, AboutATrip, ReqPCs
  <2>2. rows' \in [RowIds -> Rows] /\ tainted' \in SUBSET (Trips \cup Drivers)
    BY <1>4, <2>1, RestateTyped, TaintTyped DEF RejectWrite, RowStatuses
  <2>3. DispatchTypeOK'
    BY <1>4, <2>1, CallDispatchTypeOK, {req[p].trip} \in SUBSET Trips DEF RejectWrite
  <2> QED
    BY <1>4, <2>2, <2>3, ReplyTyped DEF RejectWrite, StoreTypeOK
<1>5. CASE ReleaseTx(p)
  <2>1. req[p].trip \in Trips
    BY <1>5, <1>a DEF ReleaseTx, Requests, AboutATrip, ReqPCs
  <2>2. CASE status[req[p].trip] \in ReleasableStatuses
    <3>1. rows' \in [RowIds -> Rows] /\ tainted' \in SUBSET (Trips \cup Drivers)
      BY <1>5, <2>1, <2>2, RestateTyped, TaintTyped DEF ReleaseTx, RowStatuses
    <3>2. /\ status' \in [Trips -> TripStatuses \cup {"NONE"}]
          /\ dstat' \in [Drivers -> DriverStatuses]
      BY <1>5, <2>2 DEF ReleaseTx, StoreTypeOK, TripStatuses, OpenStatuses, DriverStatuses
    <3>3. [NoRequest EXCEPT !.pc = "redispatch", !.trip = req[p].trip, !.skip = TRUE] \in Requests
      BY <2>1 DEF NoRequest, Requests, ReqPCs, AboutATrip
    <3>4. RequestsTypeOK'
      BY <1>5, <2>2, <3>3, GotoTyped DEF ReleaseTx
    <3> QED
      BY <1>5, <3>1, <3>2, <3>4, NoDispatchTyped DEF ReleaseTx, StoreTypeOK
  <2>3. CASE status[req[p].trip] \notin ReleasableStatuses
    BY <1>5, <2>3, ReplyTyped, NoDispatchTyped DEF ReleaseTx, StoreTypeOK
  <2> QED
    BY <2>2, <2>3
<1>6. CASE CancelTx(p)
  <2>1. req[p].trip \in Trips
    BY <1>6, <1>a DEF CancelTx, Requests, AboutATrip, ReqPCs
  <2>2. rows' \in [RowIds -> Rows] /\ tainted' \in SUBSET (Trips \cup Drivers)
    BY <1>6, <2>1, RestateTyped, TaintTyped DEF CancelTx, RowStatuses
  <2>3. /\ status' \in [Trips -> TripStatuses \cup {"NONE"}]
        /\ dstat' \in [Drivers -> DriverStatuses]
    BY <1>6 DEF CancelTx, StoreTypeOK, TripStatuses, FinalStatuses, DriverStatuses
  <2> QED
    BY <1>6, <2>2, <2>3, ReplyTyped, NoDispatchTyped DEF CancelTx, StoreTypeOK
<1>7. CASE WriteStatus(p)
  <2>1. req[p].trip \in Trips /\ req[p].to \in TripStatuses
    BY <1>7, <1>a DEF WriteStatus, Requests, AboutATrip, ReqPCs
  <2>2. tainted' \in SUBSET (Trips \cup Drivers)
    BY <1>7, <2>1, TaintTyped DEF WriteStatus
  <2>3. StoreTypeOK'
    BY <1>7, <2>1, <2>2 DEF WriteStatus, StoreTypeOK
  <2>4. [req[p] EXCEPT !.pc = "settle"] \in Requests
    BY <1>7, <1>a DEF WriteStatus, Requests, ReqPCs, AboutATrip
  <2>5. RequestsTypeOK'
    BY <1>7, <2>4, GotoTyped, ReplyTyped DEF WriteStatus
  <2> QED
    BY <1>7, <2>3, <2>5, NoDispatchTyped DEF WriteStatus
<1>8. CASE Settle(p)
  <2>1. req[p].trip \in Trips
    BY <1>8, <1>a DEF Settle, Requests, AboutATrip, ReqPCs
  <2>2. settled' \in SUBSET Trips /\ dstat' \in [Drivers -> DriverStatuses]
    BY <1>8, <2>1 DEF Settle, StoreTypeOK, DriverStatuses
  <2>3. StoreTypeOK'
    BY <1>8, <2>2 DEF Settle, StoreTypeOK
  <2>4. [req[p] EXCEPT !.pc = "finish"] \in Requests
    BY <1>8, <1>a DEF Settle, Requests, ReqPCs, AboutATrip
  <2>5. RequestsTypeOK'
    BY <1>8, <2>4, GotoTyped, ReplyTyped DEF Settle
  <2> QED
    BY <1>8, <2>3, <2>5, NoDispatchTyped DEF Settle
<1>9. CASE FinishRow(p)
  <2>1. rows' \in [RowIds -> Rows]
    BY <1>9, RestateTyped DEF FinishRow, RowStatuses
  <2> QED
    BY <1>9, <2>1, ReplyTyped, NoDispatchTyped DEF FinishRow, StoreTypeOK
<1>10. CASE ToggleWrite(p)
  <2>1. req[p].driver \in Drivers /\ req[p].to \in DriverStatuses
    BY <1>10, <1>a DEF ToggleWrite, Requests, AboutATrip, ReqPCs
  <2>2. tainted' \in SUBSET (Trips \cup Drivers)
    BY <1>10, <2>1, TaintTyped DEF ToggleWrite, StoreTypeOK
  <2>3. StoreTypeOK'
    BY <1>10, <2>1, <2>2 DEF ToggleWrite, StoreTypeOK
  <2>4. [NoRequest EXCEPT !.pc = "pending", !.driver = req[p].driver] \in Requests
    BY <2>1 DEF NoRequest, Requests, ReqPCs, AboutATrip
  <2>5. RequestsTypeOK'
    BY <1>10, <2>4, GotoTyped, ReplyTyped DEF ToggleWrite
  <2> QED
    BY <1>10, <2>3, <2>5, NoDispatchTyped DEF ToggleWrite
<1>11. CASE PendingRead(p)
  <2> DEFINE pending == {r \in RowIds : rows[r].st = "OFFERED" /\ rows[r].driver = req[p].driver}
  <2>1. [NoRequest EXCEPT !.pc = "handOver", !.snap = pending] \in Requests
    BY DEF NoRequest, Requests, ReqPCs, AboutATrip
  <2>2. RequestsTypeOK'
    BY <1>11, <2>1, GotoTyped, ReplyTyped DEF PendingRead
  <2> QED
    BY <1>11, <2>2, NoDispatchTyped, StoreUnchangedTyped DEF PendingRead
<1>12. CASE HandOver(p)
  <2>1. rows' \in [RowIds -> Rows]
    BY <1>12, RestateTyped DEF HandOver, RowStatuses
  <2>2. DispatchTypeOK'
    BY <1>12, CallDispatchTypeOK,
       {t \in Trips : \E r \in req[p].snap : rows[r].trip = t} \in SUBSET Trips DEF HandOver
  <2> QED
    BY <1>12, <2>1, <2>2, ReplyTyped DEF HandOver, StoreTypeOK
<1>13. CASE AssignExpire(p)
  <2>1. req[p].trip \in Trips /\ req[p].driver \in Drivers \cup {None}
    BY <1>13, <1>a DEF AssignExpire, Requests, AboutATrip, ReqPCs
  <2>2. rows' \in [RowIds -> Rows]
    BY <1>13, RestateTyped DEF AssignExpire, RowStatuses
  <2>3. DispatchTypeOK'
    BY <1>13, <2>1, CallDispatchTypeOK, {req[p].trip} \in SUBSET Trips DEF AssignExpire
  <2> QED
    BY <1>13, <2>2, <2>3, ReplyTyped DEF AssignExpire, StoreTypeOK
<1> QED
  BY <1>1, <1>2, <1>3, <1>4, <1>5, <1>6, <1>7, <1>8, <1>9, <1>10, <1>11, <1>12, <1>13
     DEF RequestStep

LEMMA CrashTyped ==
  ASSUME TypeOK, Crash
  PROVE  TypeOK'
<1>1. age' \in [Trips -> Ages]
  BY DEF TypeOK, Crash, StoreTypeOK, Ages
<1>2. DispatchTypeOK'
  BY DEF Crash, DispatchTypeOK, NoCall, Calls, CallPCs, NoSweep, Sweeps, SweepPCs
<1>3. RequestsTypeOK'
  BY DEF Crash, RequestsTypeOK, NoRequest, Requests, ReqPCs, AboutATrip
<1> QED
  BY <1>1, <1>2, <1>3 DEF TypeOK, Crash, StoreTypeOK

LEMMA TimeTyped ==
  ASSUME TypeOK, Time
  PROVE  TypeOK'
<1> USE DEF TypeOK
<1>1. ASSUME NEW r \in RowIds, Lapse(r) PROVE StoreTypeOK'
  <2>1. rows' \in [RowIds -> Rows]
    BY <1>1 DEF Lapse, StoreTypeOK, Rows, NoRow
  <2> QED
    BY <1>1, <2>1 DEF Lapse, StoreTypeOK
<1>2. ASSUME NEW t \in Trips, GrowsOld(t) PROVE StoreTypeOK'
  BY <1>2 DEF GrowsOld, GrowOld, NextAge, StoreTypeOK, Ages
<1> QED
  BY <1>1, <1>2, NoDispatchTyped DEF Time, RequestsTypeOK

LEMMA FaultsTyped ==
  ASSUME TypeOK, Faults
  PROVE  TypeOK'
<1> USE DEF TypeOK
<1>1. ASSUME NEW t \in Trips, NEW c \in Callers, DispatchFails(t, c), UNCHANGED req PROVE TypeOK'
  <2>1. sweep' \in Sweeps
    BY <1>1 DEF DispatchFails, DispatchTypeOK, NoSweep, Sweeps, SweepPCs
  <2> QED
    BY <1>1, <2>1, EndCallTyped, StoreUnchangedTyped DEF DispatchFails, DispatchTypeOK, RequestsTypeOK
<1>2. CASE SweepFails /\ UNCHANGED req
  BY <1>2, StoreUnchangedTyped DEF SweepFails, DispatchTypeOK, RequestsTypeOK, NoSweep, Sweeps, SweepPCs
<1>3. ASSUME NEW p \in Reqs, RequestFails(p) PROVE TypeOK'
  BY <1>3, ReplyTyped, NoDispatchTyped, StoreUnchangedTyped DEF RequestFails
<1> QED
  BY <1>1, <1>2, <1>3 DEF Faults

LEMMA TypeNext == TypeOK /\ [Next]_vars => TypeOK'
<1> SUFFICES ASSUME TypeOK, [Next]_vars PROVE TypeOK'
  OBVIOUS
<1>1. CASE UNCHANGED vars
  BY <1>1, StoreUnchangedTyped, NoDispatchTyped DEF vars, TypeOK, RequestsTypeOK
<1> QED
  BY <1>1, RequestBeginTyped, RequestStepTyped, DispatchStepTyped, SweepStepTyped,
     TimeTyped, FaultsTyped, CrashTyped DEF Next

\* Every variable keeps its type, whatever the handlers, the sweeper, failing queries,
\* restarts and the passing of time do: in particular no assignment without a trip and a
\* driver is ever written, and no status outside the enums of the schema.
THEOREM TypeCorrect == Spec => []TypeOK
BY TypeInit, TypeNext, PTL DEF Spec

-----------------------------------------------------------------------------
(* Only one targeted offer of a trip is live at a time.                      *)
(*                                                                           *)
(* dispatchRide checks for a live offer and inserts the next one several     *)
(* awaits later.  What bridges the gap is dispatchInFlight: it admits one    *)
(* call per trip (InFlightTracksCalls), and no other code inserts OFFERED    *)
(* rows, so that what the call saw still holds when it inserts               *)
(* (NoOfferWhileChoosing).                                                   *)

\* A call that has passed the check for a live offer finds none at its insert.
NoOfferWhileChoosing ==
  \A t \in Trips, c \in Callers :
    disp[t][c].pc \in {"drivers", "create"} => LiveOffers(t) = {}

OfferInv == TypeOK /\ InFlightTracksCalls /\ NoOfferWhileChoosing /\ OneLiveOffer

-----------------------------------------------------------------------------
(* What the operations on calls and on assignments preserve. *)

LEMMA CallDispatchTracks ==
  ASSUME DispatchTypeOK, InFlightTracksCalls, NEW S \in SUBSET Trips, NEW c \in Callers,
         NEW skip, NEW target, CallDispatch(S, c, skip, target)
  PROVE  /\ InFlightTracksCalls'
         /\ \A t \in Trips, b \in Callers :
              disp'[t][b].pc \in {"drivers", "create"} => disp[t][b].pc \in {"drivers", "create"}
<1> DEFINE new == [NoCall EXCEPT !.pc = "trip", !.skip = skip, !.target = target]
<1>1. new.pc = "trip"
  BY DEF NoCall
<1>2. /\ inFlight' = inFlight \cup S
      /\ disp' = [t \in Trips |-> IF t \in S \ inFlight THEN [disp[t] EXCEPT ![c] = new] ELSE disp[t]]
  BY DEF CallDispatch
<1> HIDE DEF new
<1>3. ASSUME NEW t \in Trips, NEW b \in Callers
      PROVE  disp'[t][b] = IF t \in S \ inFlight /\ b = c THEN new ELSE disp[t][b]
  BY <1>2 DEF DispatchTypeOK
<1>4. ASSUME NEW t \in Trips PROVE (t \in inFlight <=> \E b \in Callers : disp[t][b].pc # "idle")'
  BY <1>1, <1>2, <1>3 DEF InFlightTracksCalls
<1>5. ASSUME NEW t \in Trips, NEW a \in Callers, NEW b \in Callers,
             disp'[t][a].pc # "idle", disp'[t][b].pc # "idle"
      PROVE  a = b
  BY <1>3, <1>5 DEF InFlightTracksCalls
<1> QED
  BY <1>1, <1>3, <1>4, <1>5 DEF InFlightTracksCalls

LEMMA EndCallTracks ==
  ASSUME DispatchTypeOK, InFlightTracksCalls, NEW t \in Trips, NEW c \in Callers,
         disp[t][c].pc # "idle", EndCall(t, c)
  PROVE  /\ InFlightTracksCalls'
         /\ \A u \in Trips, b \in Callers : disp'[u][b].pc # "idle" => disp'[u][b] = disp[u][b]
<1>1. ASSUME NEW u \in Trips, NEW b \in Callers
      PROVE  disp'[u][b] = IF u = t /\ b = c THEN NoCall ELSE disp[u][b]
  BY DEF EndCall, DispatchTypeOK
<1>2. NoCall.pc = "idle" /\ inFlight' = inFlight \ {t}
  BY DEF NoCall, EndCall
<1>3. ASSUME NEW u \in Trips PROVE (u \in inFlight <=> \E b \in Callers : disp[u][b].pc # "idle")'
  BY <1>1, <1>2 DEF InFlightTracksCalls
<1>4. ASSUME NEW u \in Trips, NEW a \in Callers, NEW b \in Callers,
             disp'[u][a].pc # "idle", disp'[u][b].pc # "idle"
      PROVE  a = b
  BY <1>1, <1>2, <1>4 DEF InFlightTracksCalls
<1> QED
  BY <1>1, <1>2, <1>3, <1>4 DEF InFlightTracksCalls

LEMMA GoOnTracks ==
  ASSUME DispatchTypeOK, InFlightTracksCalls, NEW t \in Trips, NEW c \in Callers,
         disp[t][c].pc # "idle", NEW call, call.pc # "idle", GoOn(t, c, call)
  PROVE  /\ InFlightTracksCalls'
         /\ \A u \in Trips, b \in Callers :
              disp'[u][b] = IF u = t /\ b = c THEN call ELSE disp[u][b]
<1>1. ASSUME NEW u \in Trips, NEW b \in Callers
      PROVE  disp'[u][b] = IF u = t /\ b = c THEN call ELSE disp[u][b]
  BY DEF GoOn, DispatchTypeOK
<1>2. inFlight' = inFlight
  BY DEF GoOn
<1>3. ASSUME NEW u \in Trips PROVE (u \in inFlight <=> \E b \in Callers : disp[u][b].pc # "idle")'
  BY <1>1, <1>2 DEF InFlightTracksCalls
<1>4. ASSUME NEW u \in Trips, NEW a \in Callers, NEW b \in Callers,
             disp'[u][a].pc # "idle", disp'[u][b].pc # "idle"
      PROVE  a = b
  BY <1>1, <1>4 DEF InFlightTracksCalls
<1> QED
  BY <1>1, <1>3, <1>4 DEF InFlightTracksCalls

LEMMA TracksUnchanged ==
  ASSUME InFlightTracksCalls, UNCHANGED <<inFlight, disp>>
  PROVE  /\ InFlightTracksCalls'
         /\ \A t \in Trips, b \in Callers : disp'[t][b] = disp[t][b]
BY DEF InFlightTracksCalls

\* No update of existing rows makes an offer live.
LEMMA RestateShrinks ==
  ASSUME StoreTypeOK, NEW S, NEW st, st # "OFFERED", rows' = Restate(S, st)
  PROVE  \A t \in Trips : LiveOffers(t)' \subseteq LiveOffers(t)
<1>1. ASSUME NEW r \in RowIds, rows'[r].st = "OFFERED" PROVE rows'[r] = rows[r]
  <2>1. CASE r \in S /\ rows[r].st # "NONE"
    <3>1. rows'[r] = [rows[r] EXCEPT !.st = st]
      BY <2>1 DEF Restate
    <3>2. rows[r] \in Rows
      BY DEF StoreTypeOK
    <3>3. rows'[r].st = st
      BY <3>1, <3>2 DEF Rows, NoRow
    <3> QED
      BY <1>1, <3>3
  <2>2. CASE ~(r \in S /\ rows[r].st # "NONE")
    BY <2>2 DEF Restate
  <2> QED
    BY <2>1, <2>2
<1> QED
  BY <1>1 DEF LiveOffers, RowsIn

LEMMA RowsUnchanged ==
  ASSUME UNCHANGED rows
  PROVE  \A t \in Trips : LiveOffers(t)' = LiveOffers(t)
BY DEF LiveOffers, RowsIn

\* Steps that neither insert an offer nor get a call past its check.
LEMMA OffersShrink ==
  ASSUME OfferInv, TypeOK', InFlightTracksCalls',
         \A t \in Trips : LiveOffers(t)' \subseteq LiveOffers(t),
         \A t \in Trips, c \in Callers :
           disp'[t][c].pc \in {"drivers", "create"} => disp[t][c].pc \in {"drivers", "create"}
  PROVE  OfferInv'
<1>1. NoOfferWhileChoosing'
  BY DEF OfferInv, NoOfferWhileChoosing
<1>2. OneLiveOffer'
  BY DEF OfferInv, OneLiveOffer
<1> QED
  BY <1>1, <1>2 DEF OfferInv

-----------------------------------------------------------------------------
(* One lemma per group of actions. *)

LEMMA OfferInit == Init => OfferInv
<1> SUFFICES ASSUME Init PROVE OfferInv
  OBVIOUS
<1>1. \A t \in Trips, c \in Callers : disp[t][c].pc = "idle"
  BY DEF Init, DispatchInit, NoCall
<1>2. \A t \in Trips : LiveOffers(t) = {}
  BY DEF Init, StoreInit, NoRow, LiveOffers, RowsIn
<1>3. InFlightTracksCalls
  BY <1>1 DEF Init, DispatchInit, InFlightTracksCalls
<1> QED
  BY <1>1, <1>2, <1>3, TypeInit DEF OfferInv, NoOfferWhileChoosing, OneLiveOffer

LEMMA OfferDispatchStep ==
  ASSUME OfferInv, NEW t \in Trips, NEW c \in Callers, DispatchStep(t, c), UNCHANGED req
  PROVE  OfferInv'
<1>a. DispatchTypeOK /\ StoreTypeOK /\ TypeOK /\ disp[t][c] \in Calls
  BY DEF OfferInv, TypeOK, DispatchTypeOK
<1>b. TypeOK'
  BY <1>a, DispatchStepTyped
<1>c. InFlightTracksCalls
  BY DEF OfferInv
<1>d. ASSUME disp[t][c].pc # "idle", EndCall(t, c), UNCHANGED rows PROVE OfferInv'
  BY <1>a, <1>b, <1>c, <1>d, EndCallTracks, RowsUnchanged, OffersShrink
<1>1. CASE ReadTrip(t, c)
  <2>1. CASE IsOpen(t) /\ age[t] # "future"
    <3> DEFINE call == [disp[t][c] EXCEPT !.pc = "offers", !.seen = status[t]]
    <3>1. call.pc = "offers" /\ disp[t][c].pc # "idle" /\ GoOn(t, c, call)
      BY <1>1, <2>1, <1>a DEF ReadTrip, Calls
    <3>2. UNCHANGED rows
      BY <1>1 DEF ReadTrip, store
    <3> HIDE DEF call
    <3> QED
      BY <3>1, <3>2, <1>a, <1>b, <1>c, GoOnTracks, RowsUnchanged, OffersShrink
  <2>2. CASE ~(IsOpen(t) /\ age[t] # "future")
    BY <1>1, <2>2, <1>d DEF ReadTrip, store
  <2> QED
    BY <2>1, <2>2
<1>2. CASE ReadOffers(t, c)
  <2>1. CASE LiveOffers(t) = {}
    <3> DEFINE may == IF disp[t][c].target = None THEN Askable(t, disp[t][c].skip)
                                                  ELSE {disp[t][c].target}
               call == [disp[t][c] EXCEPT !.pc = "drivers", !.may = may]
    <3>1. call.pc = "drivers" /\ disp[t][c].pc # "idle" /\ GoOn(t, c, call)
      BY <1>2, <2>1, <1>a DEF ReadOffers, Calls
    <3>2. \A u \in Trips : LiveOffers(u)' = LiveOffers(u)
      BY <1>2, RowsUnchanged DEF ReadOffers, store
    <3> HIDE DEF call
    <3>3. /\ InFlightTracksCalls'
          /\ \A u \in Trips, b \in Callers :
               disp'[u][b] = IF u = t /\ b = c THEN call ELSE disp[u][b]
      BY <3>1, <1>a, <1>c, GoOnTracks
    <3>4. NoOfferWhileChoosing'
      BY <2>1, <3>2, <3>3 DEF OfferInv, NoOfferWhileChoosing
    <3>5. OneLiveOffer'
      BY <3>2 DEF OfferInv, OneLiveOffer
    <3> QED
      BY <1>b, <3>3, <3>4, <3>5 DEF OfferInv
  <2>2. CASE LiveOffers(t) # {}
    BY <1>2, <2>2, <1>d DEF ReadOffers, store
  <2> QED
    BY <2>1, <2>2
<1>3. CASE PickDriver(t, c)
  <2>1. ASSUME NEW d \in disp[t][c].may,
               GoOn(t, c, [disp[t][c] EXCEPT !.pc = "create", !.may = {}, !.driver = d])
        PROVE  OfferInv'
    <3> DEFINE call == [disp[t][c] EXCEPT !.pc = "create", !.may = {}, !.driver = d]
    <3>1. call.pc = "create" /\ disp[t][c].pc = "drivers" /\ GoOn(t, c, call)
      BY <1>3, <2>1, <1>a DEF PickDriver, Calls
    <3>2. UNCHANGED rows
      BY <1>3 DEF PickDriver, store
    <3> HIDE DEF call
    <3> QED
      BY <3>1, <3>2, <1>a, <1>b, <1>c, GoOnTracks, RowsUnchanged, OffersShrink
  <2>2. CASE EndCall(t, c)
    BY <1>3, <2>2, <1>d DEF PickDriver, store
  <2> QED
    BY <1>3, <2>1, <2>2 DEF PickDriver
<1>4. CASE CreateOffer(t, c)
  <2>1. LiveOffers(t) = {}
    BY <1>4 DEF OfferInv, NoOfferWhileChoosing, CreateOffer
  <2>2. PICK r \in RowIds : rows' = [rows EXCEPT ![r] = NewRow(t, disp[t][c].driver, "OFFERED", 0)]
    BY <1>4 DEF CreateOffer
  <2>3. \A u \in Trips : u # t => LiveOffers(u)' \subseteq LiveOffers(u)
    BY <2>2, <1>a DEF StoreTypeOK, LiveOffers, RowsIn, NewRow
  <2>4. LiveOffers(t)' \subseteq {r}
    BY <2>1, <2>2, <1>a DEF StoreTypeOK, LiveOffers, RowsIn
  <2>5. OneLiveOffer'
    BY <2>3, <2>4 DEF OfferInv, OneLiveOffer
  <2>6. /\ InFlightTracksCalls'
        /\ disp'[t][c].pc \in {"idle", "mark"}
        /\ \A u \in Trips, b \in Callers :
             <<u, b>> # <<t, c>> /\ disp'[u][b].pc # "idle" => disp'[u][b] = disp[u][b]
    <3>1. CASE EndCall(t, c)
      <4>1. disp'[t][c].pc = "idle"
        BY <3>1, <1>a DEF EndCall, NoCall, DispatchTypeOK
      <4>2. disp[t][c].pc # "idle"
        BY <1>4 DEF CreateOffer
      <4> QED
        BY <3>1, <4>1, <4>2, <1>a, <1>c, EndCallTracks
    <3>2. CASE GoOn(t, c, [disp[t][c] EXCEPT !.pc = "mark"])
      <4> DEFINE call == [disp[t][c] EXCEPT !.pc = "mark"]
      <4>1. call.pc = "mark" /\ disp[t][c].pc # "idle" /\ GoOn(t, c, call)
        BY <1>4, <3>2, <1>a DEF CreateOffer, Calls
      <4> HIDE DEF call
      <4> QED
        BY <4>1, <1>a, <1>c, GoOnTracks
    <3> QED
      BY <1>4, <3>1, <3>2 DEF CreateOffer
  <2>7. ASSUME NEW u \in Trips, NEW b \in Callers, disp'[u][b].pc \in {"drivers", "create"}
        PROVE  LiveOffers(u)' = {}
    <3>1. CASE u = t
      BY <1>4, <2>6, <2>7, <3>1, <1>c DEF InFlightTracksCalls, CreateOffer
    <3>2. CASE u # t
      BY <2>3, <2>6, <2>7, <3>2 DEF OfferInv, NoOfferWhileChoosing
    <3> QED
      BY <3>1, <3>2
  <2> QED
    BY <1>b, <2>5, <2>6, <2>7 DEF OfferInv, NoOfferWhileChoosing
<1>5. CASE CreateOfferFails(t, c)
  BY <1>5, <1>d DEF CreateOfferFails, store
<1>6. CASE MarkAssigning(t, c)
  <2> DEFINE call == [disp[t][c] EXCEPT !.pc = "event"]
  <2>1. call.pc = "event" /\ disp[t][c].pc # "idle" /\ GoOn(t, c, call)
    BY <1>6, <1>a DEF MarkAssigning, Calls
  <2>2. UNCHANGED rows
    BY <1>6 DEF MarkAssigning
  <2> HIDE DEF call
  <2> QED
    BY <2>1, <2>2, <1>a, <1>b, <1>c, GoOnTracks, RowsUnchanged, OffersShrink
<1>7. CASE RecordEvent(t, c)
  BY <1>7, <1>d DEF RecordEvent, store
<1> QED
  BY <1>1, <1>2, <1>3, <1>4, <1>5, <1>6, <1>7 DEF DispatchStep

LEMMA OfferSweepStep ==
  ASSUME OfferInv, SweepStep, UNCHANGED req
  PROVE  OfferInv'
<1>a. DispatchTypeOK /\ StoreTypeOK /\ TypeOK /\ TypeOK' /\ InFlightTracksCalls
  BY SweepStepTyped DEF OfferInv, TypeOK
<1>b. ASSUME \A t \in Trips : LiveOffers(t)' \subseteq LiveOffers(t), UNCHANGED <<inFlight, disp>>
      PROVE  OfferInv'
  BY <1>a, <1>b, TracksUnchanged, OffersShrink
<1>1. CASE SweepBegin \/ SweepExpireEnds \/ SweepReadWaiting \/ SweepReadStale \/ SweepEnd
  BY <1>1, <1>b, RowsUnchanged
     DEF SweepBegin, SweepExpireEnds, SweepReadWaiting, SweepReadStale, SweepEnd, store
<1>2. CASE SweepCloseRows
  BY <1>2, <1>a, <1>b, RestateShrinks, "EXPIRED" # "OFFERED" DEF SweepCloseRows
<1>3. ASSUME NEW r \in RowIds, SweepExpire(r) PROVE OfferInv'
  BY <1>3, <1>a, <1>b, RestateShrinks, RowsUnchanged, "EXPIRED" # "OFFERED" DEF SweepExpire
<1>4. ASSUME NEW t \in Trips, SweepDispatch(t) PROVE OfferInv'
  <2>1. CASE CallDispatch({t}, Sweeper, FALSE, None)
    BY <1>4, <2>1, <1>a, {t} \in SUBSET Trips, Sweeper \in Callers, CallDispatchTracks,
       RowsUnchanged, OffersShrink DEF SweepDispatch, store, Callers
  <2>2. CASE NoDispatch
    BY <1>4, <2>2, <1>b, RowsUnchanged DEF SweepDispatch, NoDispatch, store
  <2> QED
    BY <1>4, <2>1, <2>2 DEF SweepDispatch
<1>5. ASSUME NEW t \in Trips, SweepClose(t) PROVE OfferInv'
  BY <1>5, <1>b, RowsUnchanged DEF SweepClose
<1> QED
  BY <1>1, <1>2, <1>3, <1>4, <1>5 DEF SweepStep

LEMMA OfferRequest ==
  ASSUME OfferInv, NEW p \in Reqs, RequestBegin(p) \/ RequestStep(p)
  PROVE  OfferInv'
<1>a. DispatchTypeOK /\ StoreTypeOK /\ TypeOK /\ TypeOK' /\ InFlightTracksCalls
  BY RequestBeginTyped, RequestStepTyped DEF OfferInv, TypeOK
<1>b. p \in Callers /\ req[p] \in Requests
  BY <1>a DEF Callers, TypeOK, RequestsTypeOK
<1>c. ASSUME \A t \in Trips : LiveOffers(t)' \subseteq LiveOffers(t), UNCHANGED <<inFlight, disp>>
      PROVE  OfferInv'
  BY <1>a, <1>c, TracksUnchanged, OffersShrink
<1>d. ASSUME \A t \in Trips : LiveOffers(t)' \subseteq LiveOffers(t),
             NEW S \in SUBSET Trips, NEW skip, NEW target, CallDispatch(S, p, skip, target)
      PROVE  OfferInv'
  BY <1>a, <1>b, <1>d, CallDispatchTracks, OffersShrink
<1>e. ASSUME NEW S, NEW st, st # "OFFERED", rows' = Restate(S, st)
      PROVE  \A t \in Trips : LiveOffers(t)' \subseteq LiveOffers(t)
  BY <1>a, <1>e, RestateShrinks
<1>1. CASE RequestBegin(p)
  <2>1. UNCHANGED rows
    BY <1>1 DEF RequestBegin, CreateRide, CancelRead, PatchRead, AssignRead, ClaimRead,
       ReleaseRead, ProgressRead, RejectRead, ToggleRead, store
  <2>2. ASSUME NEW t \in Trips, NEW g \in Drivers \cup {None}, AssignRead(p, t, g)
        PROVE  OfferInv'
    BY <2>1, <2>2, <1>c, <1>d, RowsUnchanged, {t} \in SUBSET Trips DEF AssignRead, NoDispatch
  <2>3. ASSUME NEW r \in RowIds, RejectRead(p, r) PROVE OfferInv'
    <3>1. rows[r].trip \in Trips
      BY <2>3, <1>a DEF RejectRead, StoreTypeOK, Rows, NoRow
    <3> QED
      BY <2>1, <2>3, <3>1, <1>c, <1>d, RowsUnchanged, {rows[r].trip} \in SUBSET Trips
         DEF RejectRead, NoDispatch
  <2>4. CASE UNCHANGED <<inFlight, disp>>
    BY <2>1, <2>4, <1>c, RowsUnchanged
  <2> QED
    BY <1>1, <2>2, <2>3, <2>4
       DEF RequestBegin, CreateRide, CancelRead, PatchRead, ClaimRead, ReleaseRead,
           ProgressRead, ToggleRead, dispatchVars
<1>2. CASE FireDispatch(p)
  <2>1. req[p].trip \in Trips
    BY <1>2, <1>b DEF FireDispatch, Requests, AboutATrip, ReqPCs
  <2> QED
    BY <1>2, <2>1, <1>d, RowsUnchanged, {req[p].trip} \in SUBSET Trips DEF FireDispatch, store
<1>3. ASSUME NEW r \in RowIds, ClaimTx(p, r) PROVE OfferInv'
  <2>1. \A t \in Trips : LiveOffers(t)' \subseteq LiveOffers(t)
    <3> DEFINE restated == Restate(RowsIn(req[p].trip, {"OFFERED"}), "EXPIRED")
               row == NewRow(req[p].trip, req[p].driver, "ACCEPTED",
                             IF rows[r].st = "NONE" THEN 1 ELSE rows[r].clock)
    <3>1. rows' = [restated EXCEPT ![r] = row]
      BY <1>3 DEF ClaimTx
    <3>2. restated \in [RowIds -> Rows]
      BY <1>a, RestateTyped DEF RowStatuses
    <3>3. row.st # "OFFERED"
      BY DEF NewRow
    <3>4. ASSUME NEW q \in RowIds, restated[q].st = "OFFERED" PROVE restated[q] = rows[q]
      <4>1. rows[q] \in Rows
        BY <1>a DEF StoreTypeOK
      <4> QED
        BY <3>4, <4>1 DEF Restate, Rows, NoRow
    <3> HIDE DEF restated, row
    <3>5. ASSUME NEW q \in RowIds, rows'[q].st = "OFFERED" PROVE rows'[q] = rows[q]
      BY <3>1, <3>2, <3>3, <3>4, <3>5
    <3> QED
      BY <3>5 DEF LiveOffers, RowsIn
  <2> QED
    BY <1>3, <2>1, <1>c DEF ClaimTx, dispatchVars
<1>4. CASE RejectWrite(p)
  <2>1. req[p].trip \in Trips
    BY <1>4, <1>b DEF RejectWrite, Requests, AboutATrip, ReqPCs
  <2> QED
    BY <1>4, <2>1, <1>d, <1>e, {req[p].trip} \in SUBSET Trips, "REJECTED" # "OFFERED" DEF RejectWrite
<1>5. CASE ReleaseTx(p)
  BY <1>5, <1>c, <1>e, RowsUnchanged, "REJECTED" # "OFFERED" DEF ReleaseTx, dispatchVars
<1>6. CASE CancelTx(p)
  BY <1>6, <1>c, <1>e, "EXPIRED" # "OFFERED" DEF CancelTx, dispatchVars
<1>7. CASE FinishRow(p)
  BY <1>7, <1>c, <1>e, "COMPLETED" # "OFFERED" DEF FinishRow, dispatchVars
<1>8. CASE HandOver(p)
  BY <1>8, <1>d, <1>e, "EXPIRED" # "OFFERED",
     {t \in Trips : \E r \in req[p].snap : rows[r].trip = t} \in SUBSET Trips DEF HandOver
<1>9. CASE AssignExpire(p)
  <2>1. req[p].trip \in Trips
    BY <1>9, <1>b DEF AssignExpire, Requests, AboutATrip, ReqPCs
  <2> QED
    BY <1>9, <2>1, <1>d, <1>e, {req[p].trip} \in SUBSET Trips, "EXPIRED" # "OFFERED" DEF AssignExpire
<1>10. CASE ClaimRefused(p) \/ WriteStatus(p) \/ Settle(p) \/ ToggleWrite(p) \/ PendingRead(p)
  BY <1>10, <1>c, RowsUnchanged
     DEF ClaimRefused, WriteStatus, Settle, ToggleWrite, PendingRead, dispatchVars, store
<1> QED
  BY <1>1, <1>2, <1>3, <1>4, <1>5, <1>6, <1>7, <1>8, <1>9, <1>10 DEF RequestStep

LEMMA OfferEnvironment ==
  ASSUME OfferInv, Time \/ Faults \/ Crash
  PROVE  OfferInv'
<1>a. DispatchTypeOK /\ StoreTypeOK /\ TypeOK /\ TypeOK' /\ InFlightTracksCalls
  BY TimeTyped, FaultsTyped, CrashTyped DEF OfferInv, TypeOK
<1>b. ASSUME \A t \in Trips : LiveOffers(t)' \subseteq LiveOffers(t), UNCHANGED <<inFlight, disp>>
      PROVE  OfferInv'
  BY <1>a, <1>b, TracksUnchanged, OffersShrink
<1>1. CASE Time
  <2>1. ASSUME NEW r \in RowIds, Lapse(r) PROVE \A t \in Trips : LiveOffers(t)' \subseteq LiveOffers(t)
    <3>1. /\ rows' = [rows EXCEPT ![r] = [rows[r] EXCEPT !.clock = rows[r].clock + 1]]
          /\ rows[r] \in Rows /\ rows \in [RowIds -> Rows]
      BY <2>1, <1>a DEF Lapse, StoreTypeOK
    <3>2. rows'[r].clock # 0
      BY <3>1 DEF Rows, NoRow
    <3>3. \A q \in RowIds : q # r => rows'[q] = rows[q]
      BY <3>1
    <3> QED
      BY <3>2, <3>3 DEF LiveOffers, RowsIn
  <2>2. ASSUME NEW t \in Trips, GrowsOld(t) PROVE UNCHANGED rows
    BY <2>2 DEF GrowsOld, GrowOld
  <2> QED
    BY <1>1, <2>1, <2>2, <1>b, RowsUnchanged DEF Time, dispatchVars
<1>2. CASE Faults
  <2>1. ASSUME NEW t \in Trips, NEW c \in Callers, DispatchFails(t, c) PROVE OfferInv'
    BY <2>1, <1>a, EndCallTracks, RowsUnchanged, OffersShrink DEF DispatchFails, store
  <2>2. CASE SweepFails
    BY <2>2, <1>b, RowsUnchanged DEF SweepFails, store
  <2>3. ASSUME NEW p \in Reqs, RequestFails(p) PROVE OfferInv'
    BY <2>3, <1>b, RowsUnchanged DEF RequestFails, store, dispatchVars
  <2> QED
    BY <1>2, <2>1, <2>2, <2>3 DEF Faults
<1>3. CASE Crash
  <2>1. inFlight' = {} /\ \A t \in Trips, c \in Callers : disp'[t][c].pc = "idle"
    BY <1>3 DEF Crash, NoCall
  <2>2. InFlightTracksCalls'
    BY <2>1 DEF InFlightTracksCalls
  <2> QED
    BY <1>3, <1>a, <2>1, <2>2, RowsUnchanged, OffersShrink DEF Crash
<1> QED
  BY <1>1, <1>2, <1>3

LEMMA OfferNext == OfferInv /\ [Next]_vars => OfferInv'
<1> SUFFICES ASSUME OfferInv, [Next]_vars PROVE OfferInv'
  OBVIOUS
<1>1. CASE UNCHANGED vars
  <2>1. TypeOK'
    BY <1>1, TypeNext DEF OfferInv
  <2> QED
    BY <1>1, <2>1, TracksUnchanged, RowsUnchanged, OffersShrink DEF OfferInv, vars, store, dispatchVars
<1> QED
  BY <1>1, OfferDispatchStep, OfferSweepStep, OfferRequest, OfferEnvironment DEF Next

-----------------------------------------------------------------------------

\* dispatchInFlight and the calls under way agree: the finally block never leaks an id,
\* whichever query of a call rejects, and no trip ever has two calls under way.
THEOREM CallsTracked == Spec => []InFlightTracksCalls
<1>1. OfferInv => InFlightTracksCalls
  BY DEF OfferInv
<1> QED
  BY <1>1, OfferInit, OfferNext, PTL DEF Spec

\* "Only one targeted offer is live at a time" (dispatchRide): no trip ever has two
\* unexpired offers, whoever calls dispatchRide and whatever fails or restarts.
THEOREM OneOffer == Spec => []OneLiveOffer
<1>1. OfferInv => OneLiveOffer
  BY DEF OfferInv
<1> QED
  BY <1>1, OfferInit, OfferNext, PTL DEF Spec

-----------------------------------------------------------------------------
(* The rides of RideSystem keep RideContract.                                *)

\* The assignments that say who has, or had, trip t.
Own(t) == RowsIn(t, {"ACCEPTED", "COMPLETED"})

\* What a request has in hand: an assignment of its trip, of a completed one
\* while it settles it; and a claim, that its driver was committed to nothing.
InHand(q) ==
  /\ q.pc = "claim" => q.snap = {}
  /\ q.pc \in {"claim", "reject", "release", "write", "settle", "finish"} /\ q.row # 0
       => rows[q.row].trip = q.trip
  /\ q.pc \in {"reject", "release"} => q.row # 0
  /\ q.pc = "cancel" => \A r \in q.snap : rows[r].trip = q.trip
  /\ q.pc = "write" /\ q.row # 0
       => q.to \in {"ARRIVED", "IN_PROGRESS", "COMPLETED"} /\ q.had \in {"ACCEPTED", "COMPLETED"}
  /\ q.pc \in {"settle", "finish"} /\ q.trip \notin tainted
       => q.row \in Own(q.trip) /\ status[q.trip] = "COMPLETED"
Remembered == \A p \in Reqs : InHand(req[p])

-----------------------------------------------------------------------------
(* What a step may do to the trips. *)

Owned == {"ACCEPTED", "COMPLETED"}

\* No assignment changes its trip, and no trip is cleared of a taint.
Kept ==
  /\ \A r \in RowIds : rows[r].trip # None => rows'[r].trip = rows[r].trip
  /\ \A t \in Trips : t \in tainted => t \in tainted'

\* The step does nothing to t that the contract speaks of.
Same(t) ==
  /\ status'[t] = status[t] /\ (t \in tainted' <=> t \in tainted)
  /\ Own(t)' = Own(t)
  /\ \A r \in Own(t) : rows'[r].driver = rows[r].driver /\ rows'[r].st = rows[r].st

Waits(t) ==
  /\ status[t] \in OpenStatuses \cup {"NONE"} /\ status'[t] \in OpenStatuses
  /\ Own(t)' = {}
Taken(t) ==
  /\ IsOpen(t) /\ status'[t] = "ASSIGNED"
  /\ \E r \in RowIds : /\ Own(t)' = {r} /\ rows'[r].st = "ACCEPTED"
                       /\ ActiveRowsOf(rows'[r].driver) = {}
GivenBack(t) ==
  status[t] \in ReleasableStatuses /\ status'[t] = "REQUESTED" /\ Own(t)' = {}
Advances(t) ==
  /\ \/ status[t] \in ReleasableStatuses /\ status'[t] \in ReleasableStatuses
     \/ status[t] \in ActiveStatuses /\ status'[t] \in {"IN_PROGRESS", "COMPLETED"}
  /\ Own(t)' = Own(t)
  /\ \A r \in Own(t) : rows'[r].driver = rows[r].driver /\ rows'[r].st = rows[r].st
Settles(t) ==
  /\ status[t] = "COMPLETED" /\ status'[t] = "COMPLETED"
  /\ Own(t)' = Own(t)
  /\ \A r \in Own(t) : rows'[r].driver = rows[r].driver
Closes(t) ==
  status[t] \in CancellableStatuses /\ status'[t] = "CANCELLED" /\ Own(t)' = {}

\* The step moves t as the contract allows, or relies on an outdated read.
Moves(t) ==
  \/ t \in tainted'
  \/ /\ t \notin tainted
     /\ \/ Waits(t) \/ Taken(t) \/ GivenBack(t)
        \/ Advances(t) \/ Settles(t) \/ Closes(t)

OneMoves(t) == Kept /\ Moves(t) /\ \A u \in Trips \ {t} : Same(u)
NoneMoves == Kept /\ \A u \in Trips : Same(u)

-----------------------------------------------------------------------------
(* Steps that move no trip, and what a step leaves of the other trips. *)

LEMMA StoreKept ==
  ASSUME UNCHANGED <<status, rows, tainted>>
  PROVE  NoneMoves
BY DEF NoneMoves, Kept, Same, Own, RowsIn

\* The switch writes nothing that a trip consists of.
LEMMA ToggleMovesNone ==
  ASSUME TypeOK, NEW p \in Reqs, ToggleWrite(p)
  PROVE  NoneMoves
<1>1. PICK d \in Drivers : d = req[p].driver
  BY DEF ToggleWrite, TypeOK, RequestsTypeOK, Requests, AboutATrip, ReqPCs
<1>2. \A t \in Trips : t \in tainted' <=> t \in tainted
  BY <1>1, IdsAssumption DEF ToggleWrite, TaintUnless
<1>3. status' = status /\ rows' = rows
  BY DEF ToggleWrite
<1> QED
  BY <1>2, <1>3 DEF NoneMoves, Kept, Same, Own, RowsIn

\* Assignments are added, or change status, but none that owns its trip.
LEMMA OwnersKept ==
  ASSUME TypeOK, UNCHANGED <<status, tainted>>,
         \A r \in RowIds :
           \/ /\ rows'[r].trip = rows[r].trip /\ rows'[r].driver = rows[r].driver
              /\ rows'[r].st = rows[r].st
           \/ /\ rows[r].st \notin Owned /\ rows'[r].st \notin Owned
              /\ rows[r].trip # None => rows'[r].trip = rows[r].trip
  PROVE  NoneMoves
BY DEF NoneMoves, Kept, Same, Own, RowsIn, Owned

LEMMA RestateKept ==
  ASSUME TypeOK, UNCHANGED <<status, tainted>>,
         NEW S \in SUBSET RowIds, NEW st \in RowStatuses \ Owned,
         \A r \in S : rows[r].st = "OFFERED",
         rows' = Restate(S, st)
  PROVE  NoneMoves
<1>1. rows \in [RowIds -> Rows]
  BY DEF TypeOK, StoreTypeOK
<1>2. \A r \in RowIds :
        \/ rows'[r] = rows[r]
        \/ /\ rows[r].st = "OFFERED" /\ rows'[r].st = st
           /\ rows'[r].trip = rows[r].trip
  BY <1>1 DEF Restate, Rows, NoRow
<1> QED
  BY <1>2, OwnersKept DEF Owned

\* Only t and its assignments change.
LEMMA OthersKept ==
  ASSUME TypeOK, NEW t \in Trips,
         \A u \in Trips \ {t} : status'[u] = status[u],
         tainted \subseteq tainted', tainted' \subseteq tainted \cup {t},
         \A r \in RowIds :
           rows'[r] = rows[r] \/ (rows'[r].trip = t /\ rows[r].trip \in {t, None})
  PROVE  Kept /\ \A u \in Trips \ {t} : Same(u)
<1>1. Kept
  BY DEF Kept
<1>2. ASSUME NEW u \in Trips \ {t} PROVE Same(u)
  <2>1. u # None
    BY NoneAssumption
  <2>2. Own(u)' = Own(u) /\ \A r \in Own(u) : rows'[r] = rows[r]
    BY <2>1 DEF Own, RowsIn
  <2> QED
    BY <2>2 DEF Same
<1> QED
  BY <1>1, <1>2

-----------------------------------------------------------------------------
(* What each step does.  First dispatch and sweeper. *)

LEMMA DispatchMoves ==
  ASSUME TypeOK, SoleDriver, NEW t \in Trips, NEW c \in Callers, DispatchStep(t, c)
  PROVE  NoneMoves \/ \E u \in Trips : OneMoves(u)
<1>1. CASE ReadTrip(t, c) \/ ReadOffers(t, c) \/ PickDriver(t, c) \/ CreateOfferFails(t, c)
           \/ RecordEvent(t, c)
  BY <1>1, StoreKept DEF ReadTrip, ReadOffers, PickDriver, CreateOfferFails, RecordEvent, store
<1>2. CASE CreateOffer(t, c)
  <2>1. PICK r \in RowIds :
          /\ NextRow(r)
          /\ rows' = [rows EXCEPT ![r] = NewRow(t, disp[t][c].driver, "OFFERED", 0)]
    BY <1>2 DEF CreateOffer
  <2>2. rows \in [RowIds -> Rows] /\ rows[r].st = "NONE" /\ rows[r].trip = None
    BY <2>1 DEF TypeOK, StoreTypeOK, NextRow, Rows, NoRow, RowStatuses
  <2> QED
    BY <1>2, <2>1, <2>2, OwnersKept DEF CreateOffer, NewRow, Owned
<1>3. CASE MarkAssigning(t, c)
  <2>1. Kept /\ \A u \in Trips \ {t} : Same(u)
    BY <1>3, OthersKept DEF MarkAssigning, TaintUnless, TypeOK, StoreTypeOK
  <2>2. ASSUME t \notin tainted' PROVE t \notin tainted /\ Waits(t)
    <3>1. t \notin tainted /\ IsOpen(t)
      BY <1>3, <2>2 DEF MarkAssigning, TaintUnless
    <3>2. Own(t) = {} /\ rows' = rows
      BY <1>3, <3>1 DEF MarkAssigning, SoleDriver, IsOpen, OpenStatuses, ActiveStatuses,
         ReleasableStatuses, Own
    <3>3. status'[t] = "ASSIGNING"
      BY <1>3 DEF MarkAssigning, TypeOK, StoreTypeOK
    <3> QED
      BY <3>1, <3>2, <3>3 DEF Waits, IsOpen, OpenStatuses, Own, RowsIn
  <2> QED
    BY <2>1, <2>2 DEF OneMoves, Moves
<1> QED
  BY <1>1, <1>2, <1>3 DEF DispatchStep

LEMMA SweepMoves ==
  ASSUME TypeOK, SoleDriver, SweepStep
  PROVE  NoneMoves \/ \E u \in Trips : OneMoves(u)
<1>1. CASE SweepBegin \/ SweepExpireEnds \/ SweepReadWaiting \/ SweepReadStale \/ SweepEnd
  BY <1>1, StoreKept
  DEF SweepBegin, SweepExpireEnds, SweepReadWaiting, SweepReadStale, SweepEnd, store
<1>2. CASE SweepCloseRows
  BY <1>2, RestateKept DEF SweepCloseRows, RowsIn, Owned, RowStatuses
<1>3. ASSUME NEW r \in RowIds, SweepExpire(r) PROVE NoneMoves
  <2>1. CASE rows[r].st = "OFFERED"
    BY <1>3, <2>1, RestateKept, {r} \in SUBSET RowIds DEF SweepExpire, Owned, RowStatuses
  <2>2. CASE rows[r].st # "OFFERED"
    BY <1>3, <2>2, StoreKept DEF SweepExpire
  <2> QED
    BY <2>1, <2>2
<1>4. ASSUME NEW t \in Trips, SweepDispatch(t) PROVE NoneMoves
  BY <1>4, StoreKept DEF SweepDispatch, store
<1>5. ASSUME NEW t \in Trips, SweepClose(t) PROVE NoneMoves \/ OneMoves(t)
  <2>1. CASE ~IsOpen(t)
    BY <1>5, <2>1, StoreKept DEF SweepClose
  <2>2. CASE IsOpen(t)
    <3>1. status' = [status EXCEPT ![t] = "CANCELLED"] /\ UNCHANGED <<rows, tainted>>
      BY <1>5, <2>2 DEF SweepClose
    <3>2. Kept /\ \A u \in Trips \ {t} : Same(u)
      BY <3>1, OthersKept DEF TypeOK, StoreTypeOK
    <3>3. ASSUME t \notin tainted PROVE Closes(t)
      <4>1. Own(t) = {}
        BY <2>2, <3>3 DEF SoleDriver, IsOpen, OpenStatuses, ActiveStatuses, ReleasableStatuses, Own
      <4>2. status'[t] = "CANCELLED" /\ Own(t)' = Own(t)
        BY <3>1 DEF TypeOK, StoreTypeOK, Own, RowsIn
      <4> QED
        BY <2>2, <4>1, <4>2 DEF Closes, CancellableStatuses, IsOpen
    <3> QED
      BY <3>1, <3>2, <3>3 DEF OneMoves, Moves
  <2> QED
    BY <2>1, <2>2
<1> QED
  BY <1>1, <1>2, <1>3, <1>4, <1>5 DEF SweepStep

-----------------------------------------------------------------------------
(* Then the requests. *)

\* The rows that restating leaves as they are, and those it does not.
LEMMA RestateRows ==
  ASSUME TypeOK, NEW S, NEW st, NEW r \in RowIds
  PROVE  /\ r \notin S => Restate(S, st)[r] = rows[r]
         /\ Restate(S, st)[r].trip = rows[r].trip /\ Restate(S, st)[r].driver = rows[r].driver
         /\ Restate(S, st)[r].st \in {rows[r].st, st}
         /\ r \in S /\ rows[r].st # "NONE" => Restate(S, st)[r].st = st
<1>1. rows \in [RowIds -> Rows]
  BY DEF TypeOK, StoreTypeOK
<1> QED
  BY <1>1 DEF Restate, Rows, NoRow

LEMMA TaintKept ==
  ASSUME NEW t \in Trips, NEW held, tainted' = TaintUnless(t, held)
  PROVE  /\ tainted \subseteq tainted' /\ tainted' \subseteq tainted \cup {t}
         /\ t \notin tainted' => held
BY DEF TaintUnless

LEMMA CreateMoves ==
  ASSUME TypeOK, SoleDriver, NEW p \in Reqs, NEW t \in Trips, NEW a, CreateRide(p, t, a)
  PROVE  OneMoves(t)
<1>1. /\ status[t] = "NONE" /\ status' = [status EXCEPT ![t] = "REQUESTED"]
      /\ UNCHANGED <<rows, tainted>>
  BY DEF CreateRide
<1>2. Kept /\ \A u \in Trips \ {t} : Same(u)
  BY <1>1, OthersKept DEF TypeOK, StoreTypeOK
<1>3. ASSUME t \notin tainted PROVE Waits(t)
  <2>1. Own(t) = {}
    BY <1>1, <1>3 DEF SoleDriver, ActiveStatuses, ReleasableStatuses, Own
  <2> QED
    BY <1>1, <2>1 DEF Waits, OpenStatuses, Own, RowsIn, TypeOK, StoreTypeOK
<1> QED
  BY <1>1, <1>2, <1>3 DEF OneMoves, Moves

LEMMA ClaimMoves ==
  ASSUME TypeOK, SoleDriver, Remembered, NEW p \in Reqs, NEW r \in RowIds, ClaimTx(p, r)
  PROVE  \E u \in Trips : OneMoves(u)
<1>1. PICK t \in Trips, d \in Drivers : t = req[p].trip /\ d = req[p].driver
  BY DEF ClaimTx, TypeOK, RequestsTypeOK, Requests, AboutATrip, ReqPCs
<1> DEFINE rest == Restate(RowsIn(t, {"OFFERED"}), "EXPIRED")
<1>2. /\ IsOpen(t) /\ ClaimedRow(t, d, req[p].row, r)
      /\ status' = [status EXCEPT ![t] = "ASSIGNED"]
      /\ tainted' = TaintUnless(t, ActiveRowsOf(d) = req[p].snap)
      /\ rows' = [rest EXCEPT
           ![r] = NewRow(t, d, "ACCEPTED", IF rows[r].st = "NONE" THEN 1 ELSE rows[r].clock)]
  BY <1>1 DEF ClaimTx
<1>3. rest = [q \in RowIds |-> rest[q]]
  BY DEF Restate
<1>4. /\ rows'[r].trip = t /\ rows'[r].driver = d /\ rows'[r].st = "ACCEPTED"
      /\ \A q \in RowIds \ {r} : rows'[q] = rest[q]
  BY <1>2, <1>3 DEF NewRow
<1>5. rows[r].trip \in {t, None}
  <2>1. CASE req[p].row # 0
    BY <1>1, <1>2, <2>1 DEF ClaimedRow, ClaimTx, TypeOK, RequestsTypeOK, Requests, Remembered, InHand
  <2>2. CASE req[p].row = 0 /\ LatestRow(t, d) # {}
    BY <1>2, <2>2 DEF ClaimedRow, LatestRow
  <2>3. CASE req[p].row = 0 /\ LatestRow(t, d) = {}
    <3>1. rows[r].st = "NONE"
      BY <1>2, <2>3 DEF ClaimedRow, NextRow
    <3> QED
      BY <3>1 DEF TypeOK, StoreTypeOK, Rows, RowStatuses, NoRow
  <2> QED
    BY <2>1, <2>2, <2>3
<1>6. \A q \in RowIds :
        rows'[q] = rows[q] \/ (rows'[q].trip = t /\ rows[q].trip \in {t, None})
  <2> TAKE q \in RowIds
  <2>1. CASE q = r
    BY <2>1, <1>4, <1>5
  <2>2. CASE q # r /\ q \in RowsIn(t, {"OFFERED"})
    <3>1. rows[q].trip = t
      BY <2>2 DEF RowsIn
    <3>2. rest[q].trip = rows[q].trip
      BY RestateRows
    <3> QED
      BY <2>2, <1>4, <3>1, <3>2
  <2>3. CASE q # r /\ q \notin RowsIn(t, {"OFFERED"})
    BY <2>3, <1>4, RestateRows
  <2> QED
    BY <2>1, <2>2, <2>3
<1>7. Kept /\ \A u \in Trips \ {t} : Same(u)
  BY <1>1, <1>2, <1>6, OthersKept, TaintKept DEF TypeOK, StoreTypeOK
<1>8. ASSUME t \notin tainted' PROVE t \notin tainted /\ Taken(t)
  <2>1. t \notin tainted /\ ActiveRowsOf(d) = {}
    BY <1>1, <1>2, <1>8, TaintKept DEF ClaimTx, Remembered, InHand
  <2>2. Own(t) = {}
    BY <1>1, <1>2, <2>1 DEF SoleDriver, IsOpen, OpenStatuses, ActiveStatuses, ReleasableStatuses, Own
  <2>3. \A q \in RowIds \ {r} : ~(rows'[q].trip = t /\ rows'[q].st \in Owned)
    <3> TAKE q \in RowIds \ {r}
    <3>1. rest[q].trip = rows[q].trip /\ rest[q].st \in {rows[q].st, "EXPIRED"}
      BY RestateRows
    <3> QED
      BY <1>4, <2>2, <3>1 DEF Own, RowsIn, Owned
  <2>4. Own(t)' = {r}
    BY <1>4, <2>3 DEF Own, RowsIn, Owned
  <2>5. status'[t] = "ASSIGNED"
    BY <1>1, <1>2 DEF TypeOK, StoreTypeOK
  <2> QED
    BY <1>2, <1>4, <2>1, <2>4, <2>5 DEF Taken
<1> QED
  BY <1>1, <1>7, <1>8 DEF OneMoves, Moves

LEMMA RejectMoves ==
  ASSUME TypeOK, SoleDriver, Remembered, NEW p \in Reqs, RejectWrite(p)
  PROVE  NoneMoves \/ \E u \in Trips : OneMoves(u)
<1>1. PICK t \in Trips, r \in RowIds : t = req[p].trip /\ r = req[p].row /\ rows[r].trip = t
  BY DEF RejectWrite, TypeOK, RequestsTypeOK, Requests, AboutATrip, ReqPCs, Remembered, InHand
<1>2. /\ rows' = Restate({r}, "REJECTED") /\ UNCHANGED status
      /\ tainted' = TaintUnless(t, rows[r].st = "OFFERED")
  BY <1>1 DEF RejectWrite
<1>3. CASE rows[r].st = "OFFERED"
  BY <1>1, <1>2, <1>3, RestateKept, {r} \in SUBSET RowIds DEF TaintUnless, Owned, RowStatuses
<1>4. CASE rows[r].st # "OFFERED"
  <2>1. \A q \in RowIds : rows'[q] = rows[q] \/ (rows'[q].trip = t /\ rows[q].trip \in {t, None})
    BY <1>1, <1>2, RestateRows
  <2>2. Kept /\ \A u \in Trips \ {t} : Same(u)
    BY <1>1, <1>2, <2>1, OthersKept, TaintKept
  <2>3. t \in tainted'
    BY <1>1, <1>2, <1>4 DEF TaintUnless
  <2> QED
    BY <1>1, <2>2, <2>3 DEF OneMoves, Moves
<1> QED
  BY <1>3, <1>4

LEMMA ReleaseMoves ==
  ASSUME TypeOK, SoleDriver, Remembered, NEW p \in Reqs, ReleaseTx(p)
  PROVE  NoneMoves \/ \E u \in Trips : OneMoves(u)
<1>1. PICK t \in Trips, r \in RowIds : t = req[p].trip /\ r = req[p].row /\ rows[r].trip = t
  BY DEF ReleaseTx, TypeOK, RequestsTypeOK, Requests, AboutATrip, ReqPCs, Remembered, InHand
<1>2. CASE status[t] \notin ReleasableStatuses
  BY <1>1, <1>2, StoreKept DEF ReleaseTx
<1>3. CASE status[t] \in ReleasableStatuses
  <2>1. /\ status' = [status EXCEPT ![t] = "REQUESTED"]
        /\ rows' = Restate({r} \cap RowsIn(t, {"ACCEPTED"}), "REJECTED")
        /\ tainted' = TaintUnless(t, rows[r].st = "ACCEPTED")
    BY <1>1, <1>3 DEF ReleaseTx
  <2>2. \A q \in RowIds : rows'[q] = rows[q] \/ (rows'[q].trip = t /\ rows[q].trip \in {t, None})
    BY <1>1, <2>1, RestateRows
  <2>3. Kept /\ \A u \in Trips \ {t} : Same(u)
    BY <1>1, <2>1, <2>2, OthersKept, TaintKept DEF TypeOK, StoreTypeOK
  <2>4. ASSUME t \notin tainted' PROVE t \notin tainted /\ GivenBack(t)
    <3>1. t \notin tainted /\ rows[r].st = "ACCEPTED"
      BY <1>1, <2>1, <2>4, TaintKept
    <3>2. Own(t) = {r}
      BY <1>1, <1>3, <3>1 DEF SoleDriver, ActiveStatuses, Own, RowsIn
    <3>3. rows'[r].st = "REJECTED" /\ \A q \in RowIds \ {r} : rows'[q] = rows[q]
      <4>1. {r} \cap RowsIn(t, {"ACCEPTED"}) = {r}
        BY <1>1, <3>1 DEF RowsIn
      <4>2. rows' = Restate({r}, "REJECTED")
        BY <2>1, <4>1
      <4> QED
        BY <3>1, <4>2, RestateRows
    <3>4. Own(t)' = {}
      BY <3>2, <3>3 DEF Own, RowsIn
    <3>5. status'[t] = "REQUESTED"
      BY <1>1, <2>1 DEF TypeOK, StoreTypeOK
    <3> QED
      BY <1>3, <3>1, <3>4, <3>5 DEF GivenBack
  <2> QED
    BY <1>1, <2>3, <2>4 DEF OneMoves, Moves
<1> QED
  BY <1>2, <1>3

LEMMA CancelMoves ==
  ASSUME TypeOK, SoleDriver, Remembered, NEW p \in Reqs, CancelTx(p)
  PROVE  \E u \in Trips : OneMoves(u)
<1>1. PICK t \in Trips, snap \in SUBSET RowIds :
        t = req[p].trip /\ snap = req[p].snap /\ \A r \in snap : rows[r].trip = t
  BY DEF CancelTx, TypeOK, RequestsTypeOK, Requests, AboutATrip, ReqPCs, Remembered, InHand
<1>2. /\ status' = [status EXCEPT ![t] = "CANCELLED"]
      /\ rows' = Restate(snap, "EXPIRED")
      /\ tainted' = TaintUnless(t, /\ status[t] \in CancellableStatuses
                                   /\ RowsIn(t, {"OFFERED", "ACCEPTED"}) \subseteq snap)
  BY <1>1 DEF CancelTx
<1>3. \A q \in RowIds : rows'[q] = rows[q] \/ (rows'[q].trip = t /\ rows[q].trip \in {t, None})
  BY <1>1, <1>2, RestateRows
<1>4. Kept /\ \A u \in Trips \ {t} : Same(u)
  BY <1>1, <1>2, <1>3, OthersKept, TaintKept DEF TypeOK, StoreTypeOK
<1>5. ASSUME t \notin tainted' PROVE t \notin tainted /\ Closes(t)
  <2>1. /\ t \notin tainted /\ status[t] \in CancellableStatuses
        /\ RowsIn(t, {"OFFERED", "ACCEPTED"}) \subseteq snap
    BY <1>1, <1>2, <1>5, TaintKept
  <2>2. status[t] # "COMPLETED"
    BY <2>1 DEF CancellableStatuses, OpenStatuses, ReleasableStatuses
  <2>3. \A q \in Own(t) : rows[q].st = "ACCEPTED"
    BY <1>1, <2>1, <2>2 DEF SoleDriver, Own
  <2>4. Own(t) \subseteq snap
    BY <2>1, <2>3 DEF Own, RowsIn
  <2>5. ASSUME NEW q \in RowIds, rows'[q].trip = t, rows'[q].st \in Owned PROVE FALSE
    <3>1. rows[q].trip = t /\ rows[q].st \in Owned
      BY <1>2, <2>5, RestateRows DEF Owned
    <3>2. q \in snap /\ rows[q].st # "NONE"
      BY <2>4, <3>1 DEF Own, RowsIn, Owned
    <3> QED
      BY <1>2, <2>5, <3>2, RestateRows DEF Owned
  <2>6. Own(t)' = {}
    BY <2>5 DEF Own, RowsIn, Owned
  <2>7. status'[t] = "CANCELLED"
    BY <1>1, <1>2 DEF TypeOK, StoreTypeOK
  <2> QED
    BY <2>1, <2>6, <2>7 DEF Closes
<1> QED
  BY <1>1, <1>4, <1>5 DEF OneMoves, Moves

LEMMA WriteMoves ==
  ASSUME TypeOK, SoleDriver, Remembered, NEW p \in Reqs, WriteStatus(p)
  PROVE  \E u \in Trips : OneMoves(u)
<1> DEFINE r == req[p].row
           to == req[p].to
<1>1. PICK t \in Trips : t = req[p].trip
  BY DEF WriteStatus, TypeOK, RequestsTypeOK, Requests, AboutATrip, ReqPCs
<1>2. /\ status' = [status EXCEPT ![t] = to] /\ UNCHANGED rows
      /\ tainted' = TaintUnless(t, r # 0 /\ rows[r].st = req[p].had /\ status[t] \in AllowedFrom(to))
  BY <1>1 DEF WriteStatus
<1>3. Kept /\ \A u \in Trips \ {t} : Same(u)
  BY <1>1, <1>2, OthersKept, TaintKept DEF TypeOK, StoreTypeOK
<1>4. ASSUME t \notin tainted' PROVE t \notin tainted /\ (Advances(t) \/ Settles(t))
  <2>1. t \notin tainted /\ r # 0 /\ status[t] \in AllowedFrom(to)
    BY <1>1, <1>2, <1>4, TaintKept
  <2>2. to \in {"ARRIVED", "IN_PROGRESS", "COMPLETED"}
    BY <2>1 DEF WriteStatus, Remembered, InHand
  <2>3. status'[t] = to /\ Own(t)' = Own(t)
    BY <1>1, <1>2 DEF TypeOK, StoreTypeOK, Own, RowsIn
  <2>4. \/ to = "ARRIVED" /\ status[t] \in ReleasableStatuses
        \/ to \in {"IN_PROGRESS", "COMPLETED"} /\ status[t] \in ActiveStatuses
        \/ to = "COMPLETED" /\ status[t] = "COMPLETED"
    BY <2>1, <2>2 DEF AllowedFrom
  <2> QED
    BY <1>2, <2>1, <2>3, <2>4 DEF Advances, Settles, ReleasableStatuses
<1> QED
  BY <1>1, <1>3, <1>4 DEF OneMoves, Moves

LEMMA FinishMoves ==
  ASSUME TypeOK, SoleDriver, Remembered, NEW p \in Reqs, FinishRow(p)
  PROVE  \E u \in Trips : OneMoves(u)
<1>1. PICK t \in Trips, r \in {0} \cup RowIds :
        t = req[p].trip /\ r = req[p].row /\ (r # 0 => rows[r].trip = t)
  <2>1. req[p].pc = "finish" /\ req[p].trip \in Trips /\ req[p].row \in {0} \cup RowIds
    BY DEF FinishRow, TypeOK, RequestsTypeOK, Requests, AboutATrip, ReqPCs
  <2> QED
    BY <2>1 DEF Remembered, InHand
<1>2. rows' = Restate({r}, "COMPLETED") /\ UNCHANGED <<status, tainted>>
  BY <1>1 DEF FinishRow
<1>3. \A q \in RowIds : rows'[q] = rows[q] \/ (rows'[q].trip = t /\ rows[q].trip \in {t, None})
  <2> TAKE q \in RowIds
  <2>1. 0 \notin RowIds
    BY DEF RowIds
  <2> QED
    BY <1>1, <1>2, <2>1, RestateRows
<1>4. Kept /\ \A u \in Trips \ {t} : Same(u)
  BY <1>1, <1>2, <1>3, OthersKept
<1>5. ASSUME t \notin tainted PROVE Settles(t)
  <2>1. r \in Own(t) /\ status[t] = "COMPLETED"
    BY <1>1, <1>5 DEF FinishRow, Remembered, InHand
  <2>2. \A q \in RowIds :
          /\ rows'[q].trip = rows[q].trip /\ rows'[q].driver = rows[q].driver
          /\ q # r => rows'[q].st = rows[q].st
          /\ q = r => rows'[q].st \in Owned
    BY <1>2, <2>1, RestateRows DEF Own, RowsIn, Owned
  <2>3. Own(t)' = Own(t)
    BY <2>1, <2>2 DEF Own, RowsIn, Owned
  <2> QED
    BY <1>2, <2>1, <2>2, <2>3 DEF Settles, Own, RowsIn
<1> QED
  BY <1>1, <1>2, <1>4, <1>5 DEF OneMoves, Moves

LEMMA RequestMoves ==
  ASSUME TypeOK, SoleDriver, Remembered, NEW p \in Reqs, RequestStep(p)
  PROVE  NoneMoves \/ \E u \in Trips : OneMoves(u)
<1>1. CASE FireDispatch(p) \/ ClaimRefused(p) \/ Settle(p) \/ ToggleWrite(p) \/ PendingRead(p)
  BY <1>1, StoreKept, ToggleMovesNone DEF FireDispatch, ClaimRefused, Settle, PendingRead, store
<1>2. CASE HandOver(p)
  BY <1>2, RestateKept, {r \in req[p].snap : rows[r].st = "OFFERED"} \in SUBSET RowIds
  DEF HandOver, Owned, RowStatuses, TypeOK, RequestsTypeOK, Requests
<1>3. CASE AssignExpire(p)
  BY <1>3, RestateKept, {r \in req[p].snap : rows[r].st = "OFFERED"} \in SUBSET RowIds
  DEF AssignExpire, Owned, RowStatuses, TypeOK, RequestsTypeOK, Requests
<1> QED
  BY <1>1, <1>2, <1>3, ClaimMoves, RejectMoves, ReleaseMoves, CancelMoves, WriteMoves, FinishMoves
  DEF RequestStep

\* Every step of the system moves one trip, as the contract allows, or none.
LEMMA StepMoves ==
  ASSUME TypeOK, SoleDriver, Remembered, [Next]_vars
  PROVE  NoneMoves \/ \E u \in Trips : OneMoves(u)
<1>1. CASE UNCHANGED vars
  BY <1>1, StoreKept DEF vars, store
<1>2. ASSUME NEW p \in Reqs, RequestBegin(p) PROVE NoneMoves \/ \E u \in Trips : OneMoves(u)
  <2>1. ASSUME NEW t \in Trips, NEW a, CreateRide(p, t, a) PROVE OneMoves(t)
    BY <2>1, CreateMoves
  <2>2. CASE \/ \E t \in Trips : \/ CancelRead(p, t) \/ (\E to \in Forced : PatchRead(p, t, to))
                                 \/ \E g \in Drivers \cup {None} : AssignRead(p, t, g)
             \/ \E t \in Trips, d \in Drivers :
                  \/ \E r \in {0} \cup RowIds : ClaimRead(p, t, d, r)
                  \/ ReleaseRead(p, t, d)
                  \/ \E to \in {"ARRIVED", "IN_PROGRESS", "COMPLETED"} : ProgressRead(p, t, d, to)
             \/ \E r \in RowIds : RejectRead(p, r)
             \/ \E d \in Drivers, on \in BOOLEAN : ToggleRead(p, d, on)
    <3>1. UNCHANGED <<status, rows, tainted>>
      BY <2>2 DEF CancelRead, PatchRead, AssignRead, ClaimRead, ReleaseRead, ProgressRead,
         RejectRead, ToggleRead, store
    <3> QED
      BY <3>1, StoreKept
  <2> QED
    BY <1>2, <2>1, <2>2 DEF RequestBegin
<1>3. CASE Time
  <2>1. ASSUME NEW r \in RowIds, Lapse(r) PROVE NoneMoves
    <3>1. rows \in [RowIds -> Rows]
      BY DEF TypeOK, StoreTypeOK
    <3>2. \A q \in RowIds : /\ rows'[q].trip = rows[q].trip /\ rows'[q].driver = rows[q].driver
                            /\ rows'[q].st = rows[q].st
      BY <2>1, <3>1 DEF Lapse, Rows, NoRow
    <3> QED
      BY <2>1, <3>2, OwnersKept DEF Lapse
  <2>2. ASSUME NEW t \in Trips, GrowsOld(t) PROVE NoneMoves
    BY <2>2, StoreKept DEF GrowsOld, GrowOld
  <2> QED
    BY <1>3, <2>1, <2>2 DEF Time
<1>4. CASE Faults \/ Crash
  <2>1. UNCHANGED <<status, rows, tainted>>
    BY <1>4 DEF Faults, Crash, DispatchFails, SweepFails, RequestFails, store
  <2> QED
    BY <2>1, StoreKept
<1> QED
  BY <1>1, <1>2, <1>3, <1>4, RequestMoves, DispatchMoves, SweepMoves DEF Next

-----------------------------------------------------------------------------
(* What such a step preserves, and the contract's view of it. *)

\* A completed trip stays completed, with who had it.
CompletedStays ==
  \A t \in Trips \ tainted' :
    status[t] = "COMPLETED" => status'[t] = "COMPLETED" /\ Own(t) \subseteq Own(t)'

\* One trip's part of SoleDriver.
Sole(t) ==
  IF status[t] \in ActiveStatuses \cup {"COMPLETED"}
    THEN \E r \in Own(t) : Own(t) = {r} /\ (status[t] # "COMPLETED" => rows[r].st = "ACCEPTED")
    ELSE Own(t) = {}

LEMMA SameKept ==
  ASSUME NEW t \in Trips, Same(t), Sole(t)
  PROVE  /\ Sole(t)'
         /\ status[t] = "COMPLETED" => status'[t] = "COMPLETED" /\ Own(t) \subseteq Own(t)'
BY DEF Same, Sole

LEMMA MovesKept ==
  ASSUME NEW t \in Trips, Moves(t), t \notin tainted', Sole(t)
  PROVE  /\ Sole(t)'
         /\ status[t] = "COMPLETED" => status'[t] = "COMPLETED" /\ Own(t) \subseteq Own(t)'
<1> USE DEF ActiveStatuses, ReleasableStatuses, OpenStatuses
<1>1. CASE Waits(t) \/ GivenBack(t)
  BY <1>1 DEF Waits, GivenBack, Sole
<1>2. CASE Taken(t)
  BY <1>2 DEF Taken, Sole, IsOpen
<1>3. CASE Advances(t)
  <2>1. PICK r \in Own(t) : Own(t) = {r} /\ rows[r].st = "ACCEPTED"
    BY <1>3 DEF Advances, Sole
  <2>2. rows'[r].st = "ACCEPTED" /\ Own(t)' = {r}
    BY <1>3, <2>1 DEF Advances
  <2> QED
    BY <1>3, <2>2 DEF Advances, Sole
<1>4. CASE Settles(t)
  BY <1>4 DEF Settles, Sole
<1>5. CASE Closes(t)
  BY <1>5 DEF Closes, CancellableStatuses, Sole
<1> QED
  BY <1>1, <1>2, <1>3, <1>4, <1>5 DEF Moves

LEMMA SoleKept ==
  ASSUME SoleDriver, NoneMoves \/ \E t \in Trips : OneMoves(t)
  PROVE  SoleDriver' /\ CompletedStays /\ Kept
<1>1. Kept
  BY DEF NoneMoves, OneMoves
<1>2. ASSUME NEW u \in Trips, u \notin tainted'
      PROVE  /\ Sole(u)'
             /\ status[u] = "COMPLETED" => status'[u] = "COMPLETED" /\ Own(u) \subseteq Own(u)'
  <2>1. Sole(u)
    BY <1>1, <1>2 DEF SoleDriver, Sole, Own, Kept
  <2>2. Same(u) \/ Moves(u)
    BY DEF NoneMoves, OneMoves
  <2> QED
    BY <1>2, <2>1, <2>2, SameKept, MovesKept
<1> QED
  BY <1>1, <1>2 DEF SoleDriver, Sole, Own, CompletedStays

-----------------------------------------------------------------------------
(* What the requests have in hand stays right. *)

\* A request that goes on waiting.
LEMMA HandKept ==
  ASSUME TypeOK, Kept, CompletedStays, NEW p \in Reqs, InHand(req[p]), req'[p] = req[p]
  PROVE  InHand(req[p])'
<1> DEFINE q == req[p]
<1>1. /\ q.row \in {0} \cup RowIds /\ q.snap \subseteq RowIds
      /\ q.pc \in AboutATrip => q.trip \in Trips
  BY DEF TypeOK, RequestsTypeOK, Requests
<1>2. ASSUME NEW r \in RowIds, q.pc \in AboutATrip, rows[r].trip = q.trip
      PROVE  rows'[r].trip = q.trip
  BY <1>1, <1>2, NoneAssumption DEF Kept
<1>3. q.pc \in {"claim", "reject", "release", "write", "settle", "finish"} /\ q.row # 0
        => rows'[q.row].trip = q.trip
  BY <1>1, <1>2 DEF InHand, AboutATrip, ReqPCs
<1>4. q.pc = "cancel" => \A r \in q.snap : rows'[r].trip = q.trip
  BY <1>1, <1>2 DEF InHand, AboutATrip, ReqPCs
<1>5. q.pc \in {"settle", "finish"} /\ q.trip \notin tainted'
        => q.row \in Own(q.trip) /\ Own(q.trip) \subseteq RowIds /\ status[q.trip] = "COMPLETED"
  BY <1>1 DEF Kept, InHand, Own, RowsIn, AboutATrip, ReqPCs
<1>6. ASSUME NEW t \in Trips, q.trip = t, q.pc \in {"settle", "finish"}, t \notin tainted'
      PROVE  q.row \in Own(t)' /\ status'[t] = "COMPLETED"
  BY <1>5, <1>6 DEF CompletedStays
<1>7. q.pc \in {"settle", "finish"} => q.trip \in Trips
  BY <1>1 DEF AboutATrip, ReqPCs
<1> QED
  BY <1>3, <1>4, <1>6, <1>7 DEF InHand, Own, RowsIn

\* A request with nothing in hand.
LEMMA HandEmpty ==
  ASSUME NEW p \in Reqs,
         req'[p].pc \in {"idle", "redispatch", "availability", "pending", "handOver", "assign"}
  PROVE  InHand(req[p])'
BY DEF InHand

LEMMA BeginHand ==
  ASSUME TypeOK, NEW p \in Reqs, RequestBegin(p), req'[p] # req[p]
  PROVE  InHand(req[p])'
<1>0. rows \in [RowIds -> Rows] /\ req \in [Reqs -> Requests] /\ 0 \notin RowIds
  BY DEF TypeOK, StoreTypeOK, RequestsTypeOK, RowIds
<1>1. ASSUME NEW t \in Trips, NEW a, CreateRide(p, t, a) PROVE req'[p].pc = "redispatch"
  BY <1>0, <1>1 DEF CreateRide, Goto, NoRequest
<1>2. ASSUME NEW t \in Trips, CancelRead(p, t) PROVE InHand(req[p])'
  <2>1. /\ req'[p].pc = "cancel" /\ req'[p].trip = t /\ req'[p].snap = RowsIn(t, {"OFFERED", "ACCEPTED"})
        /\ rows' = rows
    BY <1>0, <1>2 DEF CancelRead, Goto, NoRequest, store
  <2> QED
    BY <2>1 DEF InHand, RowsIn
<1>3. ASSUME NEW t \in Trips, NEW to \in Forced, PatchRead(p, t, to) PROVE InHand(req[p])'
  <2>1. req'[p].pc = "write" /\ req'[p].row = 0
    BY <1>0, <1>3 DEF PatchRead, Goto, NoRequest
  <2> QED
    BY <2>1 DEF InHand
<1>4. ASSUME NEW t \in Trips, NEW g, AssignRead(p, t, g) PROVE req'[p].pc = "assign"
  BY <1>0, <1>4 DEF AssignRead, Goto, NoRequest
<1>5. ASSUME NEW t \in Trips, NEW d \in Drivers, NEW r \in {0} \cup RowIds, ClaimRead(p, t, d, r)
      PROVE  InHand(req[p])'
  <2>1. /\ req'[p].pc = "claim" /\ req'[p].trip = t /\ req'[p].row = r /\ rows' = rows
        /\ r # 0 => rows[r].trip = t
        /\ req'[p].snap = {}
    BY <1>0, <1>5 DEF ClaimRead, Goto, NoRequest, store
  <2> QED
    BY <2>1 DEF InHand
<1>6. ASSUME NEW t \in Trips, NEW d \in Drivers, ReleaseRead(p, t, d) PROVE InHand(req[p])'
  <2>1. PICK r \in RowIds :
          /\ req'[p].pc = "release" /\ req'[p].trip = t /\ req'[p].row = r /\ rows' = rows
          /\ rows[r].trip = t
    BY <1>0, <1>6 DEF ReleaseRead, LatestRow, Goto, NoRequest, store
  <2> QED
    BY <1>0, <2>1 DEF InHand
<1>7. ASSUME NEW t \in Trips, NEW d \in Drivers, NEW to \in {"ARRIVED", "IN_PROGRESS", "COMPLETED"},
             ProgressRead(p, t, d, to)
      PROVE  InHand(req[p])'
  <2>1. PICK r \in RowIds :
          /\ req'[p].pc = "write" /\ req'[p].trip = t /\ req'[p].row = r /\ req'[p].to = to
          /\ req'[p].had = rows[r].st /\ rows' = rows
          /\ rows[r].trip = t /\ rows[r].st \in {"ACCEPTED", "COMPLETED"}
    BY <1>0, <1>7 DEF ProgressRead, RowsIn, Goto, NoRequest, store
  <2> QED
    BY <2>1 DEF InHand
<1>8. ASSUME NEW r \in RowIds, RejectRead(p, r) PROVE InHand(req[p])'
  <2>1. /\ req'[p].pc = "reject" /\ req'[p].trip = rows[r].trip /\ req'[p].row = r /\ rows' = rows
    BY <1>0, <1>8 DEF RejectRead, Goto, NoRequest, store
  <2> QED
    BY <1>0, <2>1 DEF InHand
<1>9. ASSUME NEW d \in Drivers, NEW on \in BOOLEAN, ToggleRead(p, d, on) PROVE req'[p].pc = "availability"
  BY <1>0, <1>9 DEF ToggleRead, Goto, NoRequest
<1> QED
  BY <1>1, <1>2, <1>3, <1>4, <1>5, <1>6, <1>7, <1>8, <1>9, HandEmpty DEF RequestBegin

LEMMA StepHand ==
  ASSUME TypeOK, Remembered, Kept, NEW p \in Reqs, RequestStep(p) \/ RequestFails(p)
  PROVE  InHand(req[p])'
<1>0. req \in [Reqs -> Requests]
  BY DEF TypeOK, RequestsTypeOK
<1>1. CASE \/ FireDispatch(p) \/ (\E r \in RowIds : ClaimTx(p, r)) \/ ClaimRefused(p) \/ RejectWrite(p)
           \/ CancelTx(p) \/ FinishRow(p) \/ HandOver(p) \/ AssignExpire(p) \/ RequestFails(p)
  <2>1. req'[p] = NoRequest
    BY <1>0, <1>1 DEF FireDispatch, ClaimTx, ClaimRefused, RejectWrite, CancelTx, FinishRow, HandOver,
       AssignExpire, RequestFails, Reply, Goto
  <2> QED
    BY <2>1, HandEmpty DEF NoRequest
<1>2. CASE ReleaseTx(p) \/ ToggleWrite(p) \/ PendingRead(p)
  <2>1. req'[p].pc \in {"idle", "redispatch", "pending", "handOver"}
    <3>1. \/ req' = [req EXCEPT ![p] = NoRequest]
          \/ req' = [req EXCEPT ![p] = [NoRequest EXCEPT !.pc = "redispatch", !.trip = req[p].trip,
                                                          !.skip = TRUE]]
          \/ req' = [req EXCEPT ![p] = [NoRequest EXCEPT !.pc = "pending", !.driver = req[p].driver]]
          \/ \E S : req' = [req EXCEPT ![p] = [NoRequest EXCEPT !.pc = "handOver", !.snap = S]]
      BY <1>2, Zenon DEF ReleaseTx, ToggleWrite, PendingRead, Reply, Goto
    <3>2. ASSUME NEW x, req' = [req EXCEPT ![p] = x] PROVE req'[p] = x
      BY <1>0, <3>2
    <3>3. CASE req' = [req EXCEPT ![p] = NoRequest]
      BY <3>2, <3>3 DEF NoRequest
    <3>4. CASE req' = [req EXCEPT ![p] = [NoRequest EXCEPT !.pc = "redispatch", !.trip = req[p].trip,
                                                          !.skip = TRUE]]
      BY <3>2, <3>4 DEF NoRequest
    <3>5. CASE req' = [req EXCEPT ![p] = [NoRequest EXCEPT !.pc = "pending", !.driver = req[p].driver]]
      BY <3>2, <3>5 DEF NoRequest
    <3>6. ASSUME NEW S, req' = [req EXCEPT ![p] = [NoRequest EXCEPT !.pc = "handOver", !.snap = S]]
          PROVE  req'[p].pc = "handOver"
      BY <3>2, <3>6 DEF NoRequest
    <3> QED
      BY <3>1, <3>3, <3>4, <3>5, <3>6
  <2> QED
    BY <2>1, HandEmpty
<1>3. CASE WriteStatus(p)
  <2>1. PICK t \in Trips : t = req[p].trip
    BY <1>3 DEF WriteStatus, TypeOK, RequestsTypeOK, Requests, AboutATrip, ReqPCs
  <2>2. CASE req[p].to # "COMPLETED"
    BY <1>0, <1>3, <2>2, HandEmpty DEF WriteStatus, Reply, Goto, NoRequest
  <2>3. CASE req[p].to = "COMPLETED"
    <3>1. /\ req'[p].pc = "settle" /\ req'[p].trip = t /\ req'[p].row = req[p].row
          /\ rows' = rows /\ status'[t] = "COMPLETED"
      BY <1>0, <1>3, <2>1, <2>3 DEF WriteStatus, Goto, Requests, TypeOK, StoreTypeOK
    <3>2. req[p].row # 0 => rows[req[p].row].trip = t /\ req[p].had \in Owned
      BY <1>3, <2>1 DEF WriteStatus, Remembered, InHand, Owned
    <3>3. t \notin tainted' => req[p].row # 0 /\ rows[req[p].row].st = req[p].had
      BY <1>3, <2>1 DEF WriteStatus, TaintUnless
    <3>4. req[p].row \in {0} \cup RowIds
      BY <1>0 DEF Requests
    <3>5. t \notin tainted' => req[p].row \in Own(t)'
      BY <3>1, <3>2, <3>3, <3>4 DEF Own, RowsIn, Owned
    <3> QED
      BY <3>1, <3>2, <3>5 DEF InHand, Own, RowsIn
  <2> QED
    BY <2>2, <2>3
<1>4. CASE Settle(p)
  <2>1. UNCHANGED <<status, rows, tainted>>
    BY <1>4 DEF Settle
  <2>2. CASE req[p].had # "ACCEPTED"
    BY <1>0, <1>4, <2>2, HandEmpty DEF Settle, Reply, Goto, NoRequest
  <2>3. CASE req[p].had = "ACCEPTED"
    <3>1. req'[p] = [req[p] EXCEPT !.pc = "finish"]
      BY <1>0, <1>4, <2>3 DEF Settle, Goto
    <3>2. req'[p].pc = "finish" /\ req'[p].trip = req[p].trip /\ req'[p].row = req[p].row
      BY <1>0, <3>1 DEF Requests
    <3>3. InHand(req[p]) /\ req[p].pc = "settle"
      BY <1>4 DEF Settle, Remembered
    <3> QED
      BY <2>1, <3>2, <3>3 DEF InHand, Own, RowsIn
  <2> QED
    BY <2>2, <2>3
<1> QED
  BY <1>1, <1>2, <1>3, <1>4 DEF RequestStep

\* A step of one request is none of another.
LEMMA OthersWait ==
  ASSUME TypeOK, NEW p \in Reqs, RequestBegin(p) \/ RequestStep(p) \/ RequestFails(p)
  PROVE  \A o \in Reqs \ {p} : req'[o] = req[o]
<1>1. req \in [Reqs -> Requests]
  BY DEF TypeOK, RequestsTypeOK
<1>2. CASE RequestBegin(p)
  BY <1>1, <1>2 DEF RequestBegin, CreateRide, CancelRead, PatchRead, AssignRead, ClaimRead,
     ReleaseRead, ProgressRead, RejectRead, ToggleRead, Goto
<1>3. CASE \/ FireDispatch(p) \/ (\E r \in RowIds : ClaimTx(p, r)) \/ ClaimRefused(p)
           \/ RejectWrite(p) \/ ReleaseTx(p) \/ CancelTx(p)
  BY <1>1, <1>3 DEF FireDispatch, ClaimTx, ClaimRefused, RejectWrite, ReleaseTx, CancelTx, Reply, Goto
<1>4. CASE WriteStatus(p) \/ Settle(p) \/ FinishRow(p) \/ ToggleWrite(p) \/ PendingRead(p)
  BY <1>1, <1>4 DEF WriteStatus, Settle, FinishRow, ToggleWrite, PendingRead, Reply, Goto
<1>5. CASE HandOver(p) \/ AssignExpire(p) \/ RequestFails(p)
  BY <1>1, <1>5 DEF HandOver, AssignExpire, RequestFails, Reply, Goto
<1> QED
  BY <1>2, <1>3, <1>4, <1>5 DEF RequestStep

LEMMA RememberedKept ==
  ASSUME TypeOK, SoleDriver, Remembered, [Next]_vars
  PROVE  Remembered'
<1>1. Kept /\ CompletedStays
  BY StepMoves, SoleKept
<1>2. ASSUME NEW p \in Reqs, RequestBegin(p) \/ RequestStep(p) \/ RequestFails(p)
      PROVE  Remembered'
  <2>1. \A o \in Reqs \ {p} : req'[o] = req[o]
    BY <1>2, OthersWait
  <2>2. req'[p] # req[p] => InHand(req[p])'
    BY <1>1, <1>2, BeginHand, StepHand
  <2> QED
    BY <1>1, <2>1, <2>2, HandKept DEF Remembered
<1>3. CASE req' = req
  BY <1>1, <1>3, HandKept DEF Remembered
<1>4. CASE Crash
  BY <1>4, HandEmpty DEF Crash, NoRequest, Remembered
<1> QED
  BY <1>2, <1>3, <1>4 DEF Next, Time, Faults, vars

-----------------------------------------------------------------------------
(* Every step is one of the contract. *)

View(t) ==
  IF t \in tainted THEN [at |-> "void", by |-> {}]
  ELSE [at |-> Stage(t), by |-> {rows[r].driver : r \in Own(t)}]

LEMMA StandingView == standing = [t \in Trips |-> View(t)]
BY DEF standing, View, Own

LEMMA SameView ==
  ASSUME NEW t \in Trips, Same(t)
  PROVE  View(t)' = View(t)
<1>1. {rows[r].driver : r \in Own(t)}' = {rows[r].driver : r \in Own(t)}
  BY DEF Same
<1>2. Stage(t)' = Stage(t)
  BY DEF Same, Stage, IsOpen
<1> QED
  BY <1>1, <1>2 DEF View, Same

LEMMA TripMoves ==
  ASSUME TypeOK', SoleDriver, NEW t \in Trips, Moves(t)
  PROVE  \/ View(t)' = View(t)
         \/ View(t)'.at = "void" /\ View(t)'.by = {}
         \/ View(t).at = "none" /\ View(t)' = [at |-> "waiting", by |-> {}]
         \/ /\ View(t).at = "waiting"
            /\ \E d \in Drivers : View(t)' = [at |-> "taken", by |-> {d}] /\ ActiveRowsOf(d) = {}
         \/ View(t).at = "taken" /\ View(t)' = [at |-> "waiting", by |-> {}]
         \/ View(t).at = "taken" /\ View(t)' = [at |-> "started", by |-> View(t).by]
         \/ View(t).at \in {"taken", "started"} /\ View(t)' = [at |-> "completed", by |-> View(t).by]
         \/ View(t).at \in {"waiting", "taken"} /\ View(t)' = [at |-> "calledOff", by |-> {}]
<1> USE DEF View, Stage, IsOpen, OpenStatuses, ActiveStatuses, ReleasableStatuses
<1>1. CASE t \in tainted'
  BY <1>1
<1> SUFFICES ASSUME t \notin tainted', t \notin tainted PROVE
         \/ View(t)' = View(t)
         \/ View(t).at = "none" /\ View(t)' = [at |-> "waiting", by |-> {}]
         \/ /\ View(t).at = "waiting"
            /\ \E d \in Drivers : View(t)' = [at |-> "taken", by |-> {d}] /\ ActiveRowsOf(d) = {}
         \/ View(t).at = "taken" /\ View(t)' = [at |-> "waiting", by |-> {}]
         \/ View(t).at = "taken" /\ View(t)' = [at |-> "started", by |-> View(t).by]
         \/ View(t).at \in {"taken", "started"} /\ View(t)' = [at |-> "completed", by |-> View(t).by]
         \/ View(t).at \in {"waiting", "taken"} /\ View(t)' = [at |-> "calledOff", by |-> {}]
  BY <1>1 DEF Moves
<1>2. Own(t)' = {} => {rows[r].driver : r \in Own(t)}' = {}
  OBVIOUS
<1>3. CASE Waits(t)
  <2>1. Own(t) = {}
    BY <1>3 DEF Waits, SoleDriver, Own
  <2> QED
    BY <1>2, <1>3, <2>1 DEF Waits
<1>4. CASE Taken(t)
  <2>1. PICK r \in RowIds : /\ Own(t)' = {r} /\ rows'[r].st = "ACCEPTED"
                            /\ ActiveRowsOf(rows'[r].driver) = {}
    BY <1>4 DEF Taken
  <2>2. rows'[r].driver \in Drivers
    BY <2>1 DEF TypeOK, StoreTypeOK, Rows, NoRow
  <2>3. {rows[q].driver : q \in Own(t)}' = {rows'[r].driver}
    BY <2>1
  <2> QED
    BY <1>4, <2>1, <2>2, <2>3 DEF Taken
<1>5. CASE GivenBack(t)
  BY <1>2, <1>5 DEF GivenBack
<1>6. CASE Advances(t)
  <2>1. {rows[r].driver : r \in Own(t)}' = {rows[r].driver : r \in Own(t)}
    BY <1>6 DEF Advances
  <2> QED
    BY <1>6, <2>1 DEF Advances
<1>7. CASE Settles(t)
  <2>1. {rows[r].driver : r \in Own(t)}' = {rows[r].driver : r \in Own(t)}
    BY <1>7 DEF Settles
  <2> QED
    BY <1>7, <2>1 DEF Settles
<1>8. CASE Closes(t)
  BY <1>2, <1>8 DEF Closes, CancellableStatuses
<1> QED
  BY <1>3, <1>4, <1>5, <1>6, <1>7, <1>8 DEF Moves

\* A driver committed to no trip has none under way, as the contract sees it.
LEMMA FreeDriver ==
  ASSUME SoleDriver, NEW d \in Drivers, ActiveRowsOf(d) = {},
         NEW u \in Trips, View(u).at \in {"taken", "started"}
  PROVE  d \notin View(u).by
<1>1. u \notin tainted /\ status[u] \in ActiveStatuses
  BY DEF View, Stage, ActiveStatuses
<1>2. \A r \in Own(u) : rows[r].st = "ACCEPTED"
  BY <1>1 DEF SoleDriver, Own, ActiveStatuses, ReleasableStatuses
<1>3. \A r \in Own(u) : rows[r].driver # d
  BY <1>1, <1>2 DEF ActiveRowsOf, Own, RowsIn
<1> QED
  BY <1>1, <1>3 DEF View

LEMMA ContractStep ==
  ASSUME TypeOK, TypeOK', SoleDriver, Remembered, [Next]_vars
  PROVE  [Contract!Next]_standing
<1>1. standing = [t \in Trips |-> View(t)] /\ standing' = [t \in Trips |-> View(t)']
  BY StandingView DEF standing, View, Own
<1>2. CASE NoneMoves
  BY <1>1, <1>2, SameView DEF NoneMoves
<1>3. ASSUME NEW t \in Trips, OneMoves(t) PROVE [Contract!Next]_standing
  <2>1. \A u \in Trips \ {t} : View(u)' = View(u)
    BY <1>3, SameView DEF OneMoves
  <2>2. standing' = [standing EXCEPT ![t] = View(t)']
    BY <1>1, <2>1
  <2>3. View(t)' = [at |-> View(t)'.at, by |-> View(t)'.by]
    BY DEF View
  <2>4. \A u \in Trips : standing[u] = View(u)
    BY <1>1
  <2>5. CASE View(t)' = View(t)
    BY <1>1, <2>1, <2>5
  <2>6. CASE View(t)'.at = "void" /\ View(t)'.by = {}
    <3>1. Contract!Void(t)
      BY <2>2, <2>3, <2>6 DEF Contract!Void, Contract!Move
    <3> QED
      BY <3>1 DEF Contract!Next
  <2>7. CASE View(t).at = "none" /\ View(t)' = [at |-> "waiting", by |-> {}]
    <3>1. Contract!Request(t)
      BY <2>2, <2>4, <2>7 DEF Contract!Request, Contract!Move
    <3> QED
      BY <3>1 DEF Contract!Next
  <2>8. ASSUME NEW d \in Drivers, View(t).at = "waiting", ActiveRowsOf(d) = {},
               View(t)' = [at |-> "taken", by |-> {d}]
        PROVE  [Contract!Next]_standing
    <3>1. \A u \in Trips : standing[u].at \in {"taken", "started"} => d \notin standing[u].by
      BY <2>4, <2>8, FreeDriver
    <3>2. Contract!Take(t, d)
      BY <2>2, <2>4, <2>8, <3>1 DEF Contract!Take, Contract!Move
    <3> QED
      BY <3>2 DEF Contract!Next
  <2>9. CASE View(t).at = "taken" /\ View(t)' = [at |-> "waiting", by |-> {}]
    <3>1. Contract!GiveBack(t)
      BY <2>2, <2>4, <2>9 DEF Contract!GiveBack, Contract!Move
    <3> QED
      BY <3>1 DEF Contract!Next
  <2>10. CASE View(t).at = "taken" /\ View(t)' = [at |-> "started", by |-> View(t).by]
    <3>1. Contract!Start(t)
      BY <2>2, <2>4, <2>10 DEF Contract!Start, Contract!Move
    <3> QED
      BY <3>1 DEF Contract!Next
  <2>11. CASE View(t).at \in {"taken", "started"} /\ View(t)' = [at |-> "completed", by |-> View(t).by]
    <3>1. Contract!Complete(t)
      BY <2>2, <2>4, <2>11 DEF Contract!Complete, Contract!Move
    <3> QED
      BY <3>1 DEF Contract!Next
  <2>12. CASE View(t).at \in {"waiting", "taken"} /\ View(t)' = [at |-> "calledOff", by |-> {}]
    <3>1. Contract!CallOff(t)
      BY <2>2, <2>4, <2>12 DEF Contract!CallOff, Contract!Move
    <3> QED
      BY <3>1 DEF Contract!Next
  <2> QED
    BY <1>3, <2>5, <2>6, <2>7, <2>8, <2>9, <2>10, <2>11, <2>12, TripMoves DEF OneMoves
<1> QED
  BY <1>2, <1>3, StepMoves

-----------------------------------------------------------------------------

LEMMA InductiveInit == Init => SoleDriver /\ Remembered /\ Contract!Init
<1> SUFFICES ASSUME Init PROVE SoleDriver /\ Remembered /\ Contract!Init
  OBVIOUS
<1> USE DEF Init, StoreInit
<1>1. \A t \in Trips : Own(t) = {} /\ RowsIn(t, {"ACCEPTED", "COMPLETED"}) = {}
  BY NoneAssumption DEF Own, RowsIn, NoRow
<1>2. SoleDriver
  BY <1>1 DEF SoleDriver, ActiveStatuses, ReleasableStatuses
<1>3. Remembered
  BY DEF Remembered, InHand, RequestsInit, NoRequest
<1>4. Contract!Init
  <2>1. \A t \in Trips : View(t) = [at |-> "none", by |-> {}]
    <3> TAKE t \in Trips
    <3>1. {rows[r].driver : r \in Own(t)} = {}
      BY <1>1
    <3>2. Stage(t) = "none" /\ t \notin tainted
      BY DEF Stage, IsOpen, OpenStatuses, ReleasableStatuses
    <3> QED
      BY <3>1, <3>2 DEF View
  <2> QED
    BY <2>1, StandingView DEF Contract!Init
<1> QED
  BY <1>2, <1>3, <1>4

\* Whoever accepts first wins, and keeps the ride until it is given back or over, unless a
\* write relied on an outdated read.  Inductive with what the requests have in hand: a
\* completion is known to have its assignment, a release or rejection one of its trip.
THEOREM SoleDriverHolds == Spec => []SoleDriver
<1>1. TypeOK /\ SoleDriver /\ Remembered /\ [Next]_vars => (SoleDriver /\ Remembered)'
  BY StepMoves, SoleKept, RememberedKept
<1> QED
  BY <1>1, TypeCorrect, InductiveInit, PTL DEF Spec

\* The rides keep the contract: every handler, dispatch, sweep, crash and failing query, in
\* any interleaving, takes a step of RideContract or none.
THEOREM ContractKept == Spec => KeepsContract
<1>1. TypeOK /\ SoleDriver /\ Remembered /\ [Next]_vars => (SoleDriver /\ Remembered)'
  BY StepMoves, SoleKept, RememberedKept
<1>2. TypeOK /\ TypeOK' /\ SoleDriver /\ Remembered /\ [Next]_vars => [Contract!Next]_standing
  BY ContractStep
<1> QED
  BY <1>1, <1>2, TypeCorrect, InductiveInit, PTL DEF Spec, KeepsContract, Contract!Spec

-----------------------------------------------------------------------------
(* What the contract itself comes to, for the rides as they stand. *)

LEMMA ContractTypeKept ==
  ASSUME Contract!TypeOK, [Contract!Next]_standing
  PROVE  Contract!TypeOK'
BY DEF Contract!TypeOK, Contract!Next, Contract!Stages, Contract!Move, Contract!Request,
       Contract!Take, Contract!GiveBack, Contract!Start, Contract!Complete, Contract!CallOff,
       Contract!Void

LEMMA OneRideKept ==
  ASSUME Contract!TypeOK, Contract!OneRideEach, [Contract!Next]_standing
  PROVE  Contract!OneRideEach'
<1>1. CASE UNCHANGED standing
  BY <1>1 DEF Contract!OneRideEach
<1>2. ASSUME NEW t \in Trips, NEW d \in Drivers, Contract!Take(t, d)
      PROVE  Contract!OneRideEach'
  BY <1>2 DEF Contract!OneRideEach, Contract!Take, Contract!Move, Contract!TypeOK
<1>3. ASSUME NEW t \in Trips, Contract!Start(t) PROVE Contract!OneRideEach'
  <2>1. /\ standing'[t].at = "started" /\ standing[t].at = "taken"
        /\ standing'[t].by = standing[t].by
        /\ \A u \in Trips \ {t} : standing'[u] = standing[u]
    BY <1>3 DEF Contract!Start, Contract!Move, Contract!TypeOK
  <2> QED
    BY <2>1 DEF Contract!OneRideEach
<1>4. ASSUME NEW t \in Trips,
             \/ Contract!Request(t) \/ Contract!GiveBack(t) \/ Contract!Complete(t)
             \/ Contract!CallOff(t) \/ Contract!Void(t)
      PROVE  Contract!OneRideEach'
  <2>1. /\ standing'[t].at \notin {"taken", "started"}
        /\ \A u \in Trips \ {t} : standing'[u] = standing[u]
    BY <1>4 DEF Contract!Request, Contract!GiveBack, Contract!Complete, Contract!CallOff,
                Contract!Void, Contract!Move, Contract!TypeOK
  <2> QED
    BY <2>1 DEF Contract!OneRideEach
<1> QED
  BY <1>1, <1>2, <1>3, <1>4 DEF Contract!Next

\* Whoever keeps the contract never has two rides under way.
LEMMA OneRideHolds == Contract!Spec => []Contract!OneRideEach
<1>1. Contract!Init => Contract!TypeOK /\ Contract!OneRideEach
  BY DEF Contract!Init, Contract!TypeOK, Contract!Stages, Contract!OneRideEach
<1>2. Contract!TypeOK /\ Contract!OneRideEach /\ [Contract!Next]_standing
        => (Contract!TypeOK /\ Contract!OneRideEach)'
  BY ContractTypeKept, OneRideKept
<1> QED
  BY <1>1, <1>2, PTL DEF Contract!Spec

\* "Finish or cancel your current trip before accepting another" (claimRide): the busy check
\* keeps a driver from two rides under way.  Set apart, as void, is a ride whose claim wrote
\* after the driver had got another since the check: the transaction does not repeat it.
THEOREM OneRidePerDriver == Spec => []Contract!OneRideEach
BY ContractKept, OneRideHolds DEF KeepsContract

-----------------------------------------------------------------------------
(* Completed assignments are settled. *)

\* Only its request closes an assignment, as completed.
LEMMA WhoFinishes ==
  ASSUME TypeOK, [Next]_vars, NEW r \in RowIds, rows'[r].st = "COMPLETED", rows[r].st # "COMPLETED"
  PROVE  \E p \in Reqs : FinishRow(p) /\ r = req[p].row
<1>0. rows \in [RowIds -> Rows]
  BY DEF TypeOK, StoreTypeOK
<1>1. ASSUME NEW S, NEW st, st # "COMPLETED", rows' = Restate(S, st) PROVE FALSE
  BY <1>1, RestateRows
<1>2. rows' # rows
  OBVIOUS
<1>3. ASSUME NEW t \in Trips, NEW c \in Callers, DispatchStep(t, c) PROVE FALSE
  <2>1. ASSUME NEW q \in RowIds, NEW d, rows' = [rows EXCEPT ![q] = NewRow(t, d, "OFFERED", 0)] PROVE FALSE
    BY <1>0, <2>1 DEF NewRow
  <2>2. CASE CreateOffer(t, c)
    BY <2>1, <2>2 DEF CreateOffer
  <2>3. CASE ReadTrip(t, c) \/ ReadOffers(t, c) \/ PickDriver(t, c) \/ CreateOfferFails(t, c)
    BY <1>2, <2>3 DEF ReadTrip, ReadOffers, PickDriver, CreateOfferFails, store
  <2>4. CASE MarkAssigning(t, c) \/ RecordEvent(t, c)
    BY <1>2, <2>4 DEF MarkAssigning, RecordEvent, store
  <2> QED
    BY <1>3, <2>2, <2>3, <2>4 DEF DispatchStep
<1>4. CASE SweepStep
  <2>1. CASE SweepCloseRows
    <3>1. rows' = Restate(RowsIn(sweep.cur, {"OFFERED"}), "EXPIRED")
      BY <2>1 DEF SweepCloseRows
    <3> QED
      BY <1>1, <3>1
  <2>2. ASSUME NEW q \in RowIds, SweepExpire(q) PROVE FALSE
    <3>1. rows' = Restate({q}, "EXPIRED")
      BY <1>2, <2>2 DEF SweepExpire
    <3> QED
      BY <1>1, <3>1
  <2> QED
    BY <1>2, <1>4, <2>1, <2>2 DEF SweepStep, SweepBegin, SweepExpireEnds, SweepReadWaiting, SweepDispatch,
       SweepReadStale, SweepClose, SweepEnd, store
<1>5. ASSUME NEW p \in Reqs, NEW q \in RowIds, ClaimTx(p, q) PROVE FALSE
  <2> DEFINE S == RowsIn(req[p].trip, {"OFFERED"})
  <2>1. \/ rows'[r] = Restate(S, "EXPIRED")[r]
        \/ rows'[r].st = "ACCEPTED"
    BY <1>5 DEF ClaimTx, NewRow, Restate
  <2> QED
    BY <2>1, RestateRows
<1>6. ASSUME NEW p \in Reqs, RequestStep(p), ~FinishRow(p) PROVE FALSE
  <2>1. CASE RejectWrite(p) \/ ReleaseTx(p) \/ CancelTx(p) \/ HandOver(p) \/ AssignExpire(p)
    BY <1>1, <1>2, <2>1 DEF RejectWrite, ReleaseTx, CancelTx, HandOver, AssignExpire
  <2>2. CASE FireDispatch(p) \/ ClaimRefused(p) \/ WriteStatus(p) \/ Settle(p) \/ ToggleWrite(p) \/ PendingRead(p)
    BY <1>2, <2>2 DEF FireDispatch, ClaimRefused, WriteStatus, Settle, ToggleWrite, PendingRead, store
  <2> QED
    BY <1>5, <1>6, <2>1, <2>2 DEF RequestStep
<1>7. ASSUME NEW p \in Reqs, FinishRow(p) PROVE r = req[p].row
  BY <1>7, RestateRows DEF FinishRow
<1>8. ASSUME NEW p \in Reqs, RequestBegin(p) PROVE FALSE
  BY <1>2, <1>8 DEF RequestBegin, CreateRide, CancelRead, PatchRead, AssignRead, ClaimRead, ReleaseRead,
     ProgressRead, RejectRead, ToggleRead, store
<1>9. CASE Time
  <2>1. ASSUME NEW q \in RowIds, Lapse(q) PROVE FALSE
    BY <1>0, <2>1 DEF Lapse, Rows, NoRow
  <2> QED
    BY <1>2, <1>9, <2>1 DEF Time, GrowsOld, GrowOld
<1>10. CASE Faults \/ Crash \/ UNCHANGED vars
  BY <1>2, <1>10 DEF Faults, Crash, DispatchFails, SweepFails, RequestFails, store, vars
<1> QED
  BY <1>3, <1>4, <1>6, <1>7, <1>8, <1>9, <1>10 DEF Next

\* Only settleRideTrip settles.
LEMMA WhoSettles ==
  ASSUME [Next]_vars, settled' # settled
  PROVE  \E p \in Reqs : Settle(p) /\ settled' = settled \cup {req[p].trip}
<1>1. ASSUME NEW p \in Reqs, RequestStep(p) PROVE Settle(p)
  BY <1>1 DEF RequestStep, FireDispatch, ClaimTx, ClaimRefused, RejectWrite, ReleaseTx, CancelTx,
     WriteStatus, FinishRow, ToggleWrite, PendingRead, HandOver, AssignExpire, store
<1>2. ASSUME NEW p \in Reqs, RequestBegin(p) PROVE FALSE
  BY <1>2 DEF RequestBegin, CreateRide, CancelRead, PatchRead, AssignRead, ClaimRead, ReleaseRead,
     ProgressRead, RejectRead, ToggleRead, store
<1>3. ASSUME NEW t \in Trips, NEW c \in Callers, DispatchStep(t, c) PROVE FALSE
  BY <1>3 DEF DispatchStep, ReadTrip, ReadOffers, PickDriver, CreateOfferFails, CreateOffer, MarkAssigning,
     RecordEvent, store
<1>4. ~SweepStep
  BY DEF SweepStep, SweepBegin, SweepExpireEnds, SweepReadWaiting, SweepDispatch, SweepReadStale,
     SweepClose, SweepEnd, SweepCloseRows, SweepExpire, store
<1>5. ~(Time \/ Faults \/ Crash \/ UNCHANGED vars)
  BY DEF Time, Lapse, GrowsOld, GrowOld, Faults, Crash, DispatchFails, SweepFails, RequestFails, store, vars
<1>6. \E p \in Reqs : Settle(p)
  BY <1>1, <1>2, <1>3, <1>4, <1>5 DEF Next
<1> QED
  BY <1>6 DEF Settle

\* The assignment a request is about to close is of a settled trip.
FinishSettled ==
  \A p \in Reqs : req[p].pc = "finish" /\ req[p].trip \notin tainted => req[p].trip \in settled

\* Only a request that is settling goes on to close its assignment.
LEMMA WhoCloses ==
  ASSUME TypeOK, [Next]_vars, NEW p \in Reqs, req'[p].pc = "finish"
  PROVE  req'[p] = req[p] \/ Settle(p)
<1>0. req \in [Reqs -> Requests]
  BY DEF TypeOK, RequestsTypeOK
<1>1. ASSUME NEW x, req' = [req EXCEPT ![p] = x] PROVE x.pc = "finish"
  BY <1>0, <1>1
<1>2. ASSUME RequestBegin(p) PROVE req'[p] = req[p]
  <2>1. ASSUME NEW t \in Trips,
               \/ \E a \in {"due", "future"} : CreateRide(p, t, a)
               \/ CancelRead(p, t)
               \/ \E to \in Forced : PatchRead(p, t, to)
               \/ \E g \in Drivers \cup {None} : AssignRead(p, t, g)
        PROVE  req' = req
    <3>1. ASSUME NEW a \in {"due", "future"}, CreateRide(p, t, a) PROVE req' = req
      BY <1>0, <3>1 DEF CreateRide, Goto, NoRequest
    <3>2. ~CancelRead(p, t)
      BY <1>0 DEF CancelRead, Goto, NoRequest
    <3>3. ASSUME NEW to \in Forced, PatchRead(p, t, to) PROVE FALSE
      BY <1>0, <3>3 DEF PatchRead, Goto, NoRequest
    <3>4. ASSUME NEW g \in Drivers \cup {None}, AssignRead(p, t, g) PROVE req' = req
      BY <1>0, <3>4 DEF AssignRead, Goto, NoRequest
    <3> QED
      BY <2>1, <3>1, <3>2, <3>3, <3>4
  <2>2. ASSUME NEW t \in Trips, NEW d \in Drivers, NEW r \in {0} \cup RowIds PROVE ~ClaimRead(p, t, d, r)
    BY <1>0 DEF ClaimRead, Goto, NoRequest
  <2>3. ASSUME NEW t \in Trips, NEW d \in Drivers PROVE ~ReleaseRead(p, t, d)
    BY <1>0 DEF ReleaseRead, Goto, NoRequest
  <2>4. ASSUME NEW t \in Trips, NEW d \in Drivers, NEW to PROVE ~ProgressRead(p, t, d, to)
    BY <1>0 DEF ProgressRead, Goto, NoRequest
  <2>5. ASSUME NEW r \in RowIds, RejectRead(p, r) PROVE req' = req
    BY <1>0, <2>5 DEF RejectRead, Goto, NoRequest
  <2>6. ASSUME NEW d \in Drivers, NEW on \in BOOLEAN, ToggleRead(p, d, on) PROVE FALSE
    <3>1. PICK to : req' = [req EXCEPT ![p] = [NoRequest EXCEPT !.pc = "availability", !.driver = d, !.to = to]]
      BY <2>6, Zenon DEF ToggleRead, Goto
    <3> QED
      BY <1>0, <3>1 DEF NoRequest
  <2> QED
    BY <1>2, <2>1, <2>2, <2>3, <2>4, <2>5, <2>6 DEF RequestBegin
<1>3. ~Reply(p)
  BY <1>0 DEF Reply, Goto, NoRequest
<1>4. ASSUME RequestStep(p), ~Settle(p) PROVE FALSE
  <2>1. ~(\/ FireDispatch(p) \/ (\E r \in RowIds : ClaimTx(p, r)) \/ ClaimRefused(p)
          \/ RejectWrite(p) \/ CancelTx(p) \/ FinishRow(p) \/ HandOver(p) \/ AssignExpire(p))
    BY <1>3 DEF FireDispatch, ClaimTx, ClaimRefused, RejectWrite, CancelTx, FinishRow, HandOver, AssignExpire
  <2>2. ~ReleaseTx(p)
    BY <1>1, <1>3 DEF ReleaseTx, Goto, NoRequest
  <2>3. ~WriteStatus(p)
    <3>1. [req[p] EXCEPT !.pc = "settle"].pc = "settle"
      BY <1>0 DEF Requests
    <3> QED
      BY <1>1, <1>3, <3>1 DEF WriteStatus, Goto
  <2>4. ~(ToggleWrite(p) \/ PendingRead(p))
    BY <1>1, <1>3 DEF ToggleWrite, PendingRead, Goto, NoRequest
  <2> QED
    BY <1>4, <2>1, <2>2, <2>3, <2>4 DEF RequestStep
<1>5. ASSUME NEW q \in Reqs \ {p}, RequestBegin(q) \/ RequestStep(q) \/ RequestFails(q) PROVE req'[p] = req[p]
  BY <1>5, OthersWait
<1>6. CASE Crash
  BY <1>6 DEF Crash, NoRequest
<1>7. ~RequestFails(p)
  BY <1>3 DEF RequestFails
<1>8. CASE req' = req
  BY <1>8
<1> QED
  BY <1>2, <1>4, <1>5, <1>6, <1>7, <1>8 DEF Next, Time, Faults, vars

\* A step keeps the completed trips' assignments settled.
LEMMA CompletedNext ==
  ASSUME TypeOK, SoleDriver, Remembered, CompletedIsSettled, FinishSettled, [Next]_vars
  PROVE  CompletedIsSettled' /\ FinishSettled'
<1>1. Kept /\ CompletedStays /\ SoleDriver'
  BY StepMoves, SoleKept
<1>2. settled \subseteq settled'
  BY WhoSettles
<1>3. ASSUME NEW t \in Trips \ tainted', t \in settled' PROVE status'[t] = "COMPLETED"
  <2>1. t \notin tainted
    BY <1>1, <1>3 DEF Kept
  <2>2. CASE t \in settled
    BY <1>1, <1>3, <2>1, <2>2 DEF CompletedIsSettled, CompletedStays
  <2>3. CASE t \notin settled
    <3>1. PICK p \in Reqs : Settle(p) /\ t = req[p].trip
      BY <1>3, <2>3, WhoSettles
    <3>2. status[t] = "COMPLETED"
      BY <2>1, <3>1 DEF Settle, Remembered, InHand
    <3> QED
      BY <1>1, <1>3, <3>2 DEF CompletedStays
  <2> QED
    BY <2>2, <2>3
<1>4. ASSUME NEW t \in Trips \ tainted', NEW r \in RowIds,
             rows'[r].trip = t, rows'[r].st = "COMPLETED"
      PROVE  t \in settled'
  <2>1. t \notin tainted
    BY <1>1, <1>4 DEF Kept
  <2>2. CASE rows[r].st = "COMPLETED"
    <3>1. rows[r].trip \in Trips
      BY <2>2 DEF TypeOK, StoreTypeOK, Rows, NoRow
    <3>2. rows[r].trip = t
      BY <1>1, <1>4, <3>1, NoneAssumption DEF Kept
    <3>3. r \in RowsIn(t, {"COMPLETED"})
      BY <2>2, <3>2 DEF RowsIn
    <3> QED
      BY <1>2, <2>1, <3>3 DEF CompletedIsSettled
  <2>3. CASE rows[r].st # "COMPLETED"
    <3>1. PICK p \in Reqs : FinishRow(p) /\ r = req[p].row
      BY <1>4, <2>3, WhoFinishes
    <3>2. rows[r].trip = req[p].trip /\ req[p].pc = "finish" /\ rows' = Restate({r}, "COMPLETED")
      BY <3>1 DEF FinishRow, Remembered, InHand, RowIds
    <3>3. req[p].trip = t
      BY <1>4, <3>2, RestateRows
    <3> QED
      BY <1>2, <2>1, <3>2, <3>3 DEF FinishSettled
  <2> QED
    BY <2>2, <2>3
<1>5. ASSUME NEW p \in Reqs, req'[p].pc = "finish", req'[p].trip \notin tainted'
      PROVE  req'[p].trip \in settled'
  <2>1. CASE req'[p] = req[p]
    <3>1. req[p].trip \in Trips
      BY <1>5, <2>1 DEF TypeOK, RequestsTypeOK, Requests, AboutATrip, ReqPCs
    <3> QED
      BY <1>1, <1>2, <1>5, <2>1, <3>1 DEF FinishSettled, Kept
  <2>2. CASE Settle(p)
    <3>1. PICK t \in Trips : t = req[p].trip /\ req[p].pc = "settle"
      BY <2>2 DEF Settle, TypeOK, RequestsTypeOK, Requests, AboutATrip, ReqPCs
    <3>2. req'[p].trip = t
      BY <1>5, <2>2, <3>1 DEF Settle, Goto, Reply, NoRequest, TypeOK, RequestsTypeOK, Requests
    <3>3. t \notin tainted /\ req[p].row \in Own(t) /\ status[t] = "COMPLETED"
      BY <1>1, <1>5, <3>1, <3>2 DEF Kept, Remembered, InHand
    <3>4. RowsIn(t, {"ACCEPTED"}) = {} => RowsIn(t, {"COMPLETED"}) # {}
      BY <3>3 DEF Own, RowsIn
    <3>5. t \in settled'
      BY <2>2, <3>1, <3>3, <3>4 DEF Settle, CompletedIsSettled
    <3> QED
      BY <3>2, <3>5
  <2>3. req'[p] = req[p] \/ Settle(p)
    BY <1>5, WhoCloses
  <2> QED
    BY <2>1, <2>2, <2>3
<1> QED
  BY <1>3, <1>4, <1>5 DEF CompletedIsSettled, FinishSettled, RowsIn

LEMMA CompletedInit == Init => CompletedIsSettled /\ FinishSettled
<1> SUFFICES ASSUME Init PROVE CompletedIsSettled /\ FinishSettled
  OBVIOUS
<1>1. \A t \in Trips : RowsIn(t, {"COMPLETED"}) = {}
  BY DEF Init, StoreInit, RowsIn, NoRow
<1> QED
  BY <1>1 DEF Init, StoreInit, RequestsInit, NoRequest, CompletedIsSettled, FinishSettled

\* A completed assignment has been paid for, and only completed trips are, whatever fails or
\* restarts between the three writes of a completion.
THEOREM CompletedAreSettled == Spec => []CompletedIsSettled
<1>1. TypeOK /\ SoleDriver /\ Remembered /\ [Next]_vars => (SoleDriver /\ Remembered)'
  BY StepMoves, SoleKept, RememberedKept
<1>2. TypeOK /\ SoleDriver /\ Remembered /\ CompletedIsSettled /\ FinishSettled /\ [Next]_vars
        => (CompletedIsSettled /\ FinishSettled)'
  BY CompletedNext
<1> QED
  BY <1>1, <1>2, TypeCorrect, InductiveInit, CompletedInit, PTL DEF Spec

-----------------------------------------------------------------------------
(* A busy driver has a ride.  The availability switch writes back a status it *)
(* read one await earlier; a driver it puts back ON_TRIP is tainted by it.     *)

\* A claim or release speaks for the driver of the assignment it names.
Authorized ==
  \A p \in Reqs :
    (req[p].pc = "claim" /\ req[p].row # 0) \/ req[p].pc = "release"
      => rows[req[p].row].driver = req[p].driver

\* The steps that may end an accepted assignment.
Ends(p, r) ==
  \/ r = req[p].row /\ (RejectWrite(p) \/ ReleaseTx(p) \/ FinishRow(p))
  \/ r \in req[p].snap /\ CancelTx(p)

\* No assignment changes its driver.
LEMMA AssignmentKept ==
  ASSUME TypeOK, Authorized, [Next]_vars, NEW r \in RowIds, rows[r].trip # None
  PROVE  /\ rows'[r].driver = rows[r].driver
         /\ \/ rows[r].st = "ACCEPTED" => rows'[r].st = "ACCEPTED"
            \/ \E p \in Reqs : Ends(p, r)
<1> DEFINE Stays == /\ rows'[r].driver = rows[r].driver
                    /\ rows[r].st = "ACCEPTED" => rows'[r].st = "ACCEPTED"
<1>0. rows \in [RowIds -> Rows] /\ rows[r].st # "NONE"
  BY DEF TypeOK, StoreTypeOK, Rows, NoRow, RowStatuses
<1>1. ASSUME NEW S, NEW st, rows' = Restate(S, st), r \in S => rows[r].st = "OFFERED"
      PROVE  Stays
  BY <1>1, RestateRows
<1>2. ASSUME rows' = rows PROVE Stays
  BY <1>2
<1>3. ASSUME NEW t \in Trips, NEW c \in Callers, DispatchStep(t, c) PROVE Stays
  <2>1. CASE CreateOffer(t, c)
    <3>1. PICK q \in RowIds : NextRow(q) /\ rows' = [rows EXCEPT ![q] = NewRow(t, disp[t][c].driver, "OFFERED", 0)]
      BY <2>1 DEF CreateOffer
    <3>2. q # r
      BY <1>0, <3>1 DEF NextRow
    <3> QED
      BY <1>0, <3>1, <3>2
  <2>2. CASE ~CreateOffer(t, c)
    BY <1>2, <1>3, <2>2 DEF DispatchStep, ReadTrip, ReadOffers, PickDriver, CreateOfferFails,
       MarkAssigning, RecordEvent, store
  <2> QED
    BY <2>1, <2>2
<1>4. ASSUME SweepStep PROVE Stays
  <2>1. CASE SweepCloseRows
    BY <1>1, <2>1 DEF SweepCloseRows, RowsIn
  <2>2. ASSUME NEW q \in RowIds, SweepExpire(q) PROVE Stays
    BY <1>1, <1>2, <2>2 DEF SweepExpire
  <2> QED
    BY <1>2, <1>4, <2>1, <2>2 DEF SweepStep, SweepBegin, SweepExpireEnds, SweepReadWaiting, SweepDispatch,
       SweepReadStale, SweepClose, SweepEnd, store
<1>5. ASSUME NEW p \in Reqs, NEW q \in RowIds, ClaimTx(p, q) PROVE Stays
  <2> DEFINE rest == Restate(RowsIn(req[p].trip, {"OFFERED"}), "EXPIRED")
  <2>1. PICK clock :
          rows' = [rest EXCEPT ![q] = NewRow(req[p].trip, req[p].driver, "ACCEPTED", clock)]
    BY <1>5, Zenon DEF ClaimTx
  <2>2. rest = [s \in RowIds |-> rest[s]]
    BY DEF Restate
  <2>3. CASE q # r
    <3>1. rows'[r] = rest[r]
      BY <2>1, <2>2, <2>3
    <3> QED
      BY <3>1, RestateRows DEF RowsIn
  <2>4. CASE q = r
    <3>1. rows'[r].driver = req[p].driver /\ rows'[r].st = "ACCEPTED"
      BY <2>1, <2>2, <2>4 DEF NewRow
    <3>2. rows[r].driver = req[p].driver
      BY <1>0, <1>5, <2>4 DEF ClaimTx, ClaimedRow, LatestRow, NextRow, Authorized
    <3> QED
      BY <3>1, <3>2
  <2> QED
    BY <2>3, <2>4
<1>6. ASSUME NEW p \in Reqs, RequestStep(p)
      PROVE  rows'[r].driver = rows[r].driver /\ (Stays \/ Ends(p, r))
  <2>1. ASSUME NEW S, NEW st, rows' = Restate(S, st) PROVE rows'[r].driver = rows[r].driver /\ (Stays \/ r \in S)
    BY <1>1, <2>1, RestateRows
  <2>2. CASE RejectWrite(p) \/ FinishRow(p)
    <3>1. rows' = Restate({req[p].row}, "REJECTED") \/ rows' = Restate({req[p].row}, "COMPLETED")
      BY <2>2 DEF RejectWrite, FinishRow
    <3> QED
      BY <2>1, <2>2, <3>1 DEF Ends
  <2>3. CASE CancelTx(p)
    BY <2>1, <2>3 DEF CancelTx, Ends
  <2>4. CASE ReleaseTx(p)
    BY <1>2, <2>1, <2>4 DEF ReleaseTx, Ends
  <2>5. CASE HandOver(p) \/ AssignExpire(p)
    BY <1>1, <2>5 DEF HandOver, AssignExpire
  <2>6. CASE FireDispatch(p) \/ ClaimRefused(p) \/ WriteStatus(p) \/ Settle(p) \/ ToggleWrite(p) \/ PendingRead(p)
    BY <1>2, <2>6 DEF FireDispatch, ClaimRefused, WriteStatus, Settle, ToggleWrite, PendingRead, store
  <2> QED
    BY <1>5, <1>6, <2>2, <2>3, <2>4, <2>5, <2>6 DEF RequestStep
<1>7. ASSUME NEW p \in Reqs, RequestBegin(p) PROVE Stays
  BY <1>2, <1>7 DEF RequestBegin, CreateRide, CancelRead, PatchRead, AssignRead, ClaimRead, ReleaseRead,
     ProgressRead, RejectRead, ToggleRead, store
<1>8. ASSUME Time PROVE Stays
  <2>1. ASSUME NEW q \in RowIds, Lapse(q) PROVE Stays
    BY <1>0, <2>1 DEF Lapse, Rows, NoRow
  <2> QED
    BY <1>2, <1>8, <2>1 DEF Time, GrowsOld, GrowOld
<1>9. ASSUME Faults \/ Crash \/ UNCHANGED vars PROVE Stays
  BY <1>2, <1>9 DEF Faults, Crash, DispatchFails, SweepFails, RequestFails, store, vars
<1> QED
  BY <1>3, <1>4, <1>6, <1>7, <1>8, <1>9 DEF Next

\* A request that takes up a claim or a release has checked whose the assignment is.
LEMMA BeginAuthorized ==
  ASSUME TypeOK, NEW p \in Reqs, RequestBegin(p), req'[p] # req[p]
  PROVE  (req'[p].pc = "claim" /\ req'[p].row # 0) \/ req'[p].pc = "release"
           => rows'[req'[p].row].driver = req'[p].driver
<1> DEFINE Fits == (req'[p].pc = "claim" /\ req'[p].row # 0) \/ req'[p].pc = "release"
                     => rows'[req'[p].row].driver = req'[p].driver
<1>0. req \in [Reqs -> Requests]
  BY DEF TypeOK, RequestsTypeOK
<1>1. ASSUME req'[p].pc \in {"redispatch", "cancel", "write", "assign", "reject", "availability"} PROVE Fits
  BY <1>1
<1>2. ASSUME NEW t \in Trips, NEW a, CreateRide(p, t, a) PROVE Fits
  BY <1>0, <1>1, <1>2 DEF CreateRide, Goto, NoRequest
<1>3. ASSUME NEW t \in Trips, CancelRead(p, t) PROVE Fits
  BY <1>0, <1>1, <1>3 DEF CancelRead, Goto, NoRequest
<1>4. ASSUME NEW t \in Trips, NEW to \in Forced, PatchRead(p, t, to) PROVE Fits
  BY <1>0, <1>1, <1>4 DEF PatchRead, Goto, NoRequest
<1>5. ASSUME NEW t \in Trips, NEW g, AssignRead(p, t, g) PROVE Fits
  BY <1>0, <1>1, <1>5 DEF AssignRead, Goto, NoRequest
<1>6. ASSUME NEW t \in Trips, NEW d \in Drivers, NEW r \in {0} \cup RowIds, ClaimRead(p, t, d, r)
      PROVE  Fits
  <2>1. /\ req'[p].pc = "claim" /\ req'[p].row = r /\ req'[p].driver = d /\ rows' = rows
        /\ r # 0 => rows[r].driver = d
    BY <1>0, <1>6 DEF ClaimRead, Goto, NoRequest, store
  <2> QED
    BY <2>1
<1>7. ASSUME NEW t \in Trips, NEW d \in Drivers, ReleaseRead(p, t, d) PROVE Fits
  <2>1. PICK r \in RowIds :
          /\ req'[p].pc = "release" /\ req'[p].row = r /\ req'[p].driver = d /\ rows' = rows
          /\ rows[r].driver = d
    BY <1>0, <1>7 DEF ReleaseRead, LatestRow, Goto, NoRequest, store
  <2> QED
    BY <2>1
<1>8. ASSUME NEW t \in Trips, NEW d \in Drivers, NEW to, ProgressRead(p, t, d, to) PROVE Fits
  BY <1>0, <1>1, <1>8 DEF ProgressRead, Goto, NoRequest
<1>9. ASSUME NEW r \in RowIds, RejectRead(p, r) PROVE Fits
  BY <1>0, <1>1, <1>9 DEF RejectRead, Goto, NoRequest
<1>10. ASSUME NEW d \in Drivers, NEW on \in BOOLEAN, ToggleRead(p, d, on) PROVE Fits
  BY <1>0, <1>1, <1>10 DEF ToggleRead, Goto, NoRequest
<1> QED
  BY <1>2, <1>3, <1>4, <1>5, <1>6, <1>7, <1>8, <1>9, <1>10 DEF RequestBegin

LEMMA AuthorizedKept ==
  ASSUME TypeOK, Remembered, Authorized, [Next]_vars
  PROVE  Authorized'
<1> DEFINE Fits(p) == (req[p].pc = "claim" /\ req[p].row # 0) \/ req[p].pc = "release"
                        => rows[req[p].row].driver = req[p].driver
<1>0. req \in [Reqs -> Requests]
  BY DEF TypeOK, RequestsTypeOK
<1>1. ASSUME NEW p \in Reqs, req'[p] = req[p] PROVE Fits(p)'
  <2>1. CASE (req[p].pc = "claim" /\ req[p].row # 0) \/ req[p].pc = "release"
    <3>1. /\ req[p].row \in RowIds /\ req[p].trip \in Trips
          /\ rows[req[p].row].trip = req[p].trip
      BY <1>0, <2>1 DEF Remembered, InHand, Requests, AboutATrip, ReqPCs
    <3>2. rows'[req[p].row].driver = rows[req[p].row].driver
      BY <3>1, NoneAssumption, AssignmentKept
    <3> QED
      BY <1>1, <2>1, <3>2 DEF Authorized
  <2>2. CASE ~((req[p].pc = "claim" /\ req[p].row # 0) \/ req[p].pc = "release")
    BY <1>1, <2>2 DEF Authorized
  <2> QED
    BY <2>1, <2>2
<1>2. ASSUME NEW p \in Reqs, RequestStep(p) \/ RequestFails(p) PROVE Fits(p)'
  <2>1. CASE \/ FireDispatch(p) \/ (\E r \in RowIds : ClaimTx(p, r)) \/ ClaimRefused(p) \/ RejectWrite(p)
             \/ CancelTx(p) \/ FinishRow(p) \/ HandOver(p) \/ AssignExpire(p) \/ RequestFails(p)
    <3>1. req'[p] = NoRequest
      BY <1>0, <2>1 DEF FireDispatch, ClaimTx, ClaimRefused, RejectWrite, CancelTx, FinishRow, HandOver,
         AssignExpire, RequestFails, Reply, Goto
    <3> QED
      BY <3>1 DEF NoRequest
  <2>2. CASE ReleaseTx(p)
    <3> DEFINE next == [NoRequest EXCEPT !.pc = "redispatch", !.trip = req[p].trip, !.skip = TRUE]
    <3>0. next.pc = "redispatch"
      BY DEF NoRequest
    <3>1. req'[p] = NoRequest \/ req'[p] = next
      BY <1>0, <2>2 DEF ReleaseTx, Reply, Goto
    <3> HIDE DEF next
    <3>2. req'[p].pc \in {"idle", "redispatch"}
      BY <3>0, <3>1 DEF NoRequest
    <3> QED
      BY <3>2
  <2>3. CASE WriteStatus(p)
    <3>1. req'[p] = NoRequest \/ req'[p] = [req[p] EXCEPT !.pc = "settle"]
      BY <1>0, <2>3 DEF WriteStatus, Reply, Goto
    <3> QED
      BY <1>0, <3>1 DEF NoRequest, Requests
  <2>4. CASE Settle(p)
    <3>1. req'[p] = NoRequest \/ req'[p] = [req[p] EXCEPT !.pc = "finish"]
      BY <1>0, <2>4 DEF Settle, Reply, Goto
    <3> QED
      BY <1>0, <3>1 DEF NoRequest, Requests
  <2>5. CASE ToggleWrite(p)
    <3> DEFINE next == [NoRequest EXCEPT !.pc = "pending", !.driver = req[p].driver]
    <3>0. next.pc = "pending"
      BY DEF NoRequest
    <3>1. req'[p] = NoRequest \/ req'[p] = next
      BY <1>0, <2>5 DEF ToggleWrite, Reply, Goto
    <3> HIDE DEF next
    <3>2. req'[p].pc \in {"idle", "pending"}
      BY <3>0, <3>1 DEF NoRequest
    <3> QED
      BY <3>2
  <2>6. CASE PendingRead(p)
    <3> DEFINE next(S) == [NoRequest EXCEPT !.pc = "handOver", !.snap = S]
    <3>0. \A S : next(S).pc = "handOver"
      BY DEF NoRequest
    <3>1. req'[p] = NoRequest \/ \E S : req'[p] = next(S)
      BY <1>0, <2>6 DEF PendingRead, Reply, Goto
    <3> HIDE DEF next
    <3>2. req'[p].pc \in {"idle", "handOver"}
      BY <3>0, <3>1 DEF NoRequest
    <3> QED
      BY <3>2
  <2> QED
    BY <1>2, <2>1, <2>2, <2>3, <2>4, <2>5, <2>6 DEF RequestStep
<1>3. ASSUME NEW p \in Reqs, RequestBegin(p) \/ RequestStep(p) \/ RequestFails(p) PROVE Authorized'
  <2>1. \A o \in Reqs \ {p} : req'[o] = req[o]
    BY <1>3, OthersWait
  <2>2. Fits(p)'
    BY <1>1, <1>2, <1>3, BeginAuthorized
  <2> QED
    BY <1>1, <2>1, <2>2 DEF Authorized
<1>4. CASE req' = req
  BY <1>1, <1>4 DEF Authorized
<1>5. CASE Crash
  BY <1>5 DEF Crash, NoRequest, Authorized
<1> QED
  BY <1>3, <1>4, <1>5 DEF Next, Time, Faults, vars

\* Only a claim makes a driver busy, and with the ride it takes, or an outdated switch.
LEMMA WhoGetsBusy ==
  ASSUME TypeOK, [Next]_vars, NEW d \in Drivers, d \notin tainted',
         dstat'[d] = "ON_TRIP", dstat[d] # "ON_TRIP"
  PROVE  \E t \in Trips, r \in RowIds :
           /\ rows'[r].trip = t /\ rows'[r].driver = d /\ rows'[r].st = "ACCEPTED"
           /\ status'[t] = "ASSIGNED"
<1>0. dstat \in [Drivers -> DriverStatuses] /\ dstat' # dstat
  BY DEF TypeOK, StoreTypeOK
<1>1. ASSUME NEW e, dstat' = [dstat EXCEPT ![e] = "ACTIVE"] PROVE FALSE
  BY <1>0, <1>1
<1>2. ASSUME NEW p \in Reqs, RequestStep(p), ~(\E r \in RowIds : ClaimTx(p, r)) PROVE FALSE
  <2>1. ~ToggleWrite(p)
    BY <1>0 DEF ToggleWrite, TaintUnless
  <2>2. ~(ReleaseTx(p) \/ Settle(p))
    BY <1>0, <1>1 DEF ReleaseTx, Settle
  <2>3. ~CancelTx(p)
    BY <1>0 DEF CancelTx
  <2>4. ~(FireDispatch(p) \/ ClaimRefused(p) \/ RejectWrite(p) \/ WriteStatus(p) \/ FinishRow(p)
          \/ PendingRead(p) \/ HandOver(p) \/ AssignExpire(p))
    BY <1>0 DEF FireDispatch, ClaimRefused, RejectWrite, WriteStatus, FinishRow, PendingRead, HandOver,
       AssignExpire, store
  <2> QED
    BY <1>2, <2>1, <2>2, <2>3, <2>4 DEF RequestStep
<1>3. ASSUME NEW p \in Reqs, RequestBegin(p) PROVE FALSE
  BY <1>0, <1>3 DEF RequestBegin, CreateRide, CancelRead, PatchRead, AssignRead, ClaimRead, ReleaseRead,
     ProgressRead, RejectRead, ToggleRead, store
<1>4. ~(\E t \in Trips, c \in Callers : DispatchStep(t, c))
  BY <1>0 DEF DispatchStep, ReadTrip, ReadOffers, PickDriver, CreateOfferFails, CreateOffer, MarkAssigning,
     RecordEvent, store
<1>5. ~SweepStep
  BY <1>0 DEF SweepStep, SweepBegin, SweepExpireEnds, SweepReadWaiting, SweepDispatch, SweepReadStale,
     SweepClose, SweepEnd, SweepCloseRows, SweepExpire, store
<1>6. ~(Time \/ Faults \/ Crash \/ UNCHANGED vars)
  BY <1>0 DEF Time, Lapse, GrowsOld, GrowOld, Faults, Crash, DispatchFails, SweepFails, RequestFails, store, vars
<1>7. PICK p \in Reqs, r \in RowIds : ClaimTx(p, r)
  BY <1>2, <1>3, <1>4, <1>5, <1>6 DEF Next
<1>8. PICK t \in Trips : t = req[p].trip
  BY <1>7 DEF ClaimTx, TypeOK, RequestsTypeOK, Requests, AboutATrip, ReqPCs
<1> DEFINE rest == Restate(RowsIn(t, {"OFFERED"}), "EXPIRED")
<1>9. /\ status'[t] = "ASSIGNED" /\ d = req[p].driver
      /\ \E clock : rows' = [rest EXCEPT ![r] = NewRow(t, req[p].driver, "ACCEPTED", clock)]
  <2>1. /\ status' = [status EXCEPT ![t] = "ASSIGNED"]
        /\ dstat' = [dstat EXCEPT ![req[p].driver] = "ON_TRIP"]
    BY <1>7, <1>8 DEF ClaimTx
  <2>2. \E clock : rows' = [rest EXCEPT ![r] = NewRow(t, req[p].driver, "ACCEPTED", clock)]
    BY <1>7, <1>8, Zenon DEF ClaimTx
  <2> QED
    BY <1>0, <2>1, <2>2 DEF TypeOK, StoreTypeOK
<1>10. rest = [s \in RowIds |-> rest[s]]
  BY DEF Restate
<1> QED
  BY <1>9, <1>10 DEF NewRow

\* Who ends an assignment of a trip without outdated writes has settled it, or frees its driver.
LEMMA EndFrees ==
  ASSUME TypeOK, Remembered, Authorized, CompletedIsSettled, FinishSettled,
         NEW t \in Trips, t \notin tainted',
         NEW r \in RowIds, rows[r].trip = t, rows[r].st = "ACCEPTED", rows'[r].st # "ACCEPTED",
         NEW p \in Reqs, Ends(p, r)
  PROVE  t \in settled \/ dstat'[rows[r].driver] = "ACTIVE"
<1>0. /\ rows \in [RowIds -> Rows] /\ dstat \in [Drivers -> DriverStatuses]
      /\ rows[r].driver \in Drivers
  BY NoneAssumption DEF TypeOK, StoreTypeOK, Rows, NoRow
<1>1. CASE r = req[p].row /\ RejectWrite(p)
  <2>1. req[p].trip = t /\ tainted' = TaintUnless(t, rows[r].st = "OFFERED")
    BY <1>1 DEF RejectWrite, Remembered, InHand
  <2> QED
    BY <2>1 DEF TaintUnless
<1>2. CASE r = req[p].row /\ ReleaseTx(p)
  <2>1. dstat' = [dstat EXCEPT ![req[p].driver] = "ACTIVE"]
    BY <1>2 DEF ReleaseTx
  <2>2. req[p].driver = rows[r].driver
    BY <1>2 DEF ReleaseTx, Authorized
  <2> QED
    BY <1>0, <2>1, <2>2
<1>3. CASE r = req[p].row /\ FinishRow(p)
  <2>1. req[p].trip = t
    BY <1>3 DEF FinishRow, Remembered, InHand, RowIds
  <2> QED
    BY <1>3, <2>1 DEF FinishRow, FinishSettled
<1>4. CASE r \in req[p].snap /\ CancelTx(p)
  BY <1>0, <1>4 DEF CancelTx
<1> QED
  BY <1>1, <1>2, <1>3, <1>4 DEF Ends

\* A driver who stays busy still has the ride.
LEMMA BusyStays ==
  ASSUME TypeOK, SoleDriver, Remembered, Authorized, CompletedIsSettled, FinishSettled, [Next]_vars,
         NEW d \in Drivers, dstat'[d] = "ON_TRIP",
         NEW t \in Trips, NEW r \in RowIds, rows[r].trip = t, rows[r].driver = d,
         \/ status[t] \in ActiveStatuses /\ rows[r].st = "ACCEPTED"
         \/ status[t] = "COMPLETED" /\ rows[r].st = "ACCEPTED" /\ t \notin settled
         \/ t \in tainted
  PROVE  /\ rows'[r].trip = t /\ rows'[r].driver = d
         /\ \/ status'[t] \in ActiveStatuses /\ rows'[r].st = "ACCEPTED"
            \/ status'[t] = "COMPLETED" /\ rows'[r].st = "ACCEPTED" /\ t \notin settled'
            \/ t \in tainted'
<1>1. Kept /\ SoleDriver' /\ rows[r].trip # None
  BY StepMoves, SoleKept, NoneAssumption
<1>2. rows'[r].trip = t /\ rows'[r].driver = d
  BY <1>1, AssignmentKept DEF Kept
<1>3. ASSUME t \notin tainted'
      PROVE  \/ status'[t] \in ActiveStatuses /\ rows'[r].st = "ACCEPTED"
             \/ status'[t] = "COMPLETED" /\ rows'[r].st = "ACCEPTED" /\ t \notin settled'
  <2>1. /\ t \notin tainted /\ rows[r].st = "ACCEPTED" /\ t \notin settled
        /\ status[t] \in ActiveStatuses \cup {"COMPLETED"}
    BY <1>1, <1>3 DEF Kept, CompletedIsSettled, ActiveStatuses, ReleasableStatuses
  <2>2. rows'[r].st = "ACCEPTED"
    BY <1>1, <1>3, <2>1, AssignmentKept, EndFrees DEF Kept
  <2>3. status'[t] \in ActiveStatuses \cup {"COMPLETED"}
    BY <1>1, <1>2, <1>3, <2>2 DEF SoleDriver, RowsIn
  <2>4. t \notin settled'
    <3> SUFFICES ASSUME t \in settled' PROVE FALSE
      OBVIOUS
    <3>1. PICK p \in Reqs : Settle(p) /\ t = req[p].trip
      BY <2>1, WhoSettles
    <3>2. PICK q \in RowsIn(t, {"ACCEPTED"}) : dstat' = [dstat EXCEPT ![rows[q].driver] = "ACTIVE"]
      BY <2>1, <3>1 DEF Settle
    <3>3. q = r
      BY <2>1, <3>2 DEF SoleDriver, RowsIn
    <3> QED
      BY <3>2, <3>3 DEF TypeOK, StoreTypeOK
  <2> QED
    BY <2>2, <2>3, <2>4
<1> QED
  BY <1>2, <1>3

\* A driver is cleared of a taint only by a switch that does not make the driver busy.
LEMMA ClearedNotBusy ==
  ASSUME TypeOK, [Next]_vars, NEW d \in Drivers, d \in tainted, d \notin tainted'
  PROVE  dstat'[d] # "ON_TRIP"
<1>1. ASSUME NEW t, NEW held, tainted' = TaintUnless(t, held) PROVE FALSE
  BY <1>1 DEF TaintUnless
<1>2. ASSUME NEW p \in Reqs, RequestStep(p), ~ToggleWrite(p) PROVE FALSE
  <2>1. ~(\E r \in RowIds : ClaimTx(p, r))
    BY <1>1 DEF ClaimTx
  <2>2. ~(RejectWrite(p) \/ ReleaseTx(p) \/ CancelTx(p) \/ WriteStatus(p))
    BY <1>1 DEF RejectWrite, ReleaseTx, CancelTx, WriteStatus
  <2>3. ~(FireDispatch(p) \/ ClaimRefused(p) \/ Settle(p) \/ FinishRow(p) \/ PendingRead(p)
          \/ HandOver(p) \/ AssignExpire(p))
    BY DEF FireDispatch, ClaimRefused, Settle, FinishRow, PendingRead, HandOver, AssignExpire, store
  <2> QED
    BY <1>2, <2>1, <2>2, <2>3 DEF RequestStep
<1>3. ASSUME NEW p \in Reqs, RequestBegin(p) PROVE FALSE
  BY <1>3 DEF RequestBegin, CreateRide, CancelRead, PatchRead, AssignRead, ClaimRead, ReleaseRead,
     ProgressRead, RejectRead, ToggleRead, store
<1>4. ~(\E t \in Trips, c \in Callers : DispatchStep(t, c))
  <2>1. ASSUME NEW t \in Trips, NEW c \in Callers, DispatchStep(t, c) PROVE FALSE
    <3>1. ~MarkAssigning(t, c)
      BY <1>1 DEF MarkAssigning
    <3> QED
      BY <2>1, <3>1 DEF DispatchStep, ReadTrip, ReadOffers, PickDriver, CreateOfferFails, CreateOffer,
         RecordEvent, store
  <2> QED
    BY <2>1
<1>5. ~SweepStep
  BY DEF SweepStep, SweepBegin, SweepExpireEnds, SweepReadWaiting, SweepDispatch, SweepReadStale,
     SweepClose, SweepEnd, SweepCloseRows, SweepExpire, store
<1>6. ~(Time \/ Faults \/ Crash \/ UNCHANGED vars)
  BY DEF Time, Lapse, GrowsOld, GrowOld, Faults, Crash, DispatchFails, SweepFails, RequestFails, store, vars
<1>7. PICK p \in Reqs : ToggleWrite(p)
  BY <1>2, <1>3, <1>4, <1>5, <1>6 DEF Next
<1>8. req[p].to # "ON_TRIP" /\ d = req[p].driver
  BY <1>7 DEF ToggleWrite, TaintUnless
<1> QED
  BY <1>7, <1>8 DEF ToggleWrite, TypeOK, StoreTypeOK

LEMMA BusyKept ==
  ASSUME TypeOK, SoleDriver, Remembered, Authorized, CompletedIsSettled, FinishSettled,
         BusyDriverHasRide, [Next]_vars
  PROVE  BusyDriverHasRide'
<1> SUFFICES ASSUME NEW d \in Drivers, d \notin tainted', dstat'[d] = "ON_TRIP"
             PROVE  \E t \in Trips, r \in RowIds :
                      /\ rows'[r].trip = t /\ rows'[r].driver = d
                      /\ \/ status'[t] \in ActiveStatuses /\ rows'[r].st = "ACCEPTED"
                         \/ status'[t] = "COMPLETED" /\ rows'[r].st = "ACCEPTED" /\ t \notin settled'
                         \/ t \in tainted'
  BY DEF BusyDriverHasRide
<1>1. CASE dstat[d] = "ON_TRIP"
  <2>1. PICK t \in Trips, r \in RowIds :
          /\ rows[r].trip = t /\ rows[r].driver = d
          /\ \/ status[t] \in ActiveStatuses /\ rows[r].st = "ACCEPTED"
             \/ status[t] = "COMPLETED" /\ rows[r].st = "ACCEPTED" /\ t \notin settled
             \/ t \in tainted
    BY <1>1, ClearedNotBusy DEF BusyDriverHasRide
  <2> QED
    BY <2>1, BusyStays
<1>2. CASE dstat[d] # "ON_TRIP"
  BY <1>2, WhoGetsBusy DEF ActiveStatuses, ReleasableStatuses
<1> QED
  BY <1>1, <1>2

LEMMA BusyInit == Init => Authorized /\ BusyDriverHasRide
BY DEF Init, StoreInit, RequestsInit, NoRequest, Authorized, BusyDriverHasRide

\* A driver is ON_TRIP only while some trip accounts for it, or until the next switch of a
\* driver an outdated one put back: claim, release, cancel, completion and settlement, failing
\* or interrupted anywhere, leave no driver busy with nothing.
THEOREM BusyDriversHaveRides == Spec => []BusyDriverHasRide
<1>1. TypeOK /\ SoleDriver /\ Remembered /\ [Next]_vars => (SoleDriver /\ Remembered)'
  BY StepMoves, SoleKept, RememberedKept
<1>2. TypeOK /\ SoleDriver /\ Remembered /\ CompletedIsSettled /\ FinishSettled /\ [Next]_vars
        => (CompletedIsSettled /\ FinishSettled)'
  BY CompletedNext
<1>3. TypeOK /\ Remembered /\ Authorized /\ [Next]_vars => Authorized'
  BY AuthorizedKept
<1>4. TypeOK /\ SoleDriver /\ Remembered /\ Authorized /\ CompletedIsSettled /\ FinishSettled
        /\ BusyDriverHasRide /\ [Next]_vars => BusyDriverHasRide'
  BY BusyKept
<1> QED
  BY <1>1, <1>2, <1>3, <1>4, TypeCorrect, InductiveInit, CompletedInit, BusyInit, PTL DEF Spec

=============================================================================
