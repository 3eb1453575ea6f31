--------------------------- MODULE DispatchService ---------------------------
(***************************************************************************)
(* modules/dispatch/dispatch.service.ts: the targeted offer of a waiting   *)
(* ride to one driver at a time, and the background sweeper.  Each await   *)
(* of a handler ends one action and begins the next, so any other handler  *)
(* of the process may run in between.                                      *)
(***************************************************************************)
EXTENDS RideStore

CONSTANTS
  Reqs,      \* BOUND: HTTP requests being served (or whose fired-and-forgotten
             \* dispatch still runs) at one time
  Sweeper    \* the background loop

ASSUME SweeperAssumption == Sweeper \notin Reqs

VARIABLES
  inFlight,  \* the module-level Set dispatchInFlight
  disp,      \* disp[t][c]: the call of dispatchRide(t) that c started
  sweep      \* where the sweep in progress is

dispatchVars == <<inFlight, disp, sweep>>

Callers == Reqs \cup {Sweeper}

CallPCs == {"idle", "trip", "offers", "drivers", "create", "mark", "event"}
Calls ==
  {call \in [pc : CallPCs,
             skip : BOOLEAN,                     \* options.skipReofferCooldown
             target : Drivers \cup {None},       \* options.targetDriverProfileId
             seen : OpenStatuses \cup {"NONE"},  \* trip.status as read
             may : SUBSET Drivers,               \* drivers the past offers allow
             driver : Drivers \cup {None}] :     \* the chosen driver
     call.pc = "create" => call.driver \in Drivers}
NoCall == [pc |-> "idle", skip |-> FALSE, target |-> None, seen |-> "NONE",
           may |-> {}, driver |-> None]

SweepPCs == {"idle", "expire", "offer", "redispatch", "close", "closeRows"}
Sweeps == [pc : SweepPCs, rows : SUBSET RowIds, trips : SUBSET Trips,
           cur : Trips \cup {None}]
NoSweep == [pc |-> "idle", rows |-> {}, trips |-> {}, cur |-> None]

DispatchTypeOK ==
  /\ inFlight \in SUBSET Trips
  /\ disp \in [Trips -> [Callers -> Calls]]
  /\ sweep \in Sweeps

DispatchInit ==
  /\ inFlight = {}
  /\ disp = [t \in Trips |-> [c \in Callers |-> NoCall]]
  /\ sweep = NoSweep

-----------------------------------------------------------------------------
(* dispatchRide. *)

\* c has no dispatch under way: a request slot is free again, or the sweeper,
\* which awaits each call, may go on.
Quiet(c) == \A t \in Trips : disp[t][c].pc = "idle"

\* Mutant: no look at dispatchInFlight.
CallDispatchAgain(S, c, skip, target) ==
  /\ inFlight' = inFlight \cup S
  /\ disp' = [t \in Trips |->
       IF t \in S
         THEN [disp[t] EXCEPT ![c] = [NoCall EXCEPT !.pc = "trip", !.skip = skip, !.target = target]]
         ELSE disp[t]]

\* c calls dispatchRide for every trip of S.  Up to its first await the call
\* runs in its caller's step, so a trip already in flight is left alone.
CallDispatch(S, c, skip, target) ==
  /\ inFlight' = inFlight \cup S
  /\ disp' = [t \in Trips |->
       IF t \in S \ inFlight
         THEN [disp[t] EXCEPT ![c] = [NoCall EXCEPT !.pc = "trip", !.skip = skip, !.target = target]]
         ELSE disp[t]]

NoDispatch == UNCHANGED <<inFlight, disp>>

\* The call goes on to its next await.
GoOn(t, c, call) == disp' = [disp EXCEPT ![t][c] = call] /\ UNCHANGED inFlight

\* The finally block: the call returns, or throws.
EndCall(t, c) ==
  /\ inFlight' = inFlight \ {t}
  /\ disp' = [disp EXCEPT ![t][c] = NoCall]

\* Mutant: the early return skips the finally block.
ReadTripLeaks(t, c) ==
  /\ disp[t][c].pc = "trip"
  /\ IF IsOpen(t) /\ age[t] # "future"
       THEN GoOn(t, c, [disp[t][c] EXCEPT !.pc = "offers", !.seen = status[t]])
       ELSE GoOn(t, c, NoCall)
  /\ UNCHANGED <<store, sweep>>

\* const trip = await findUnique(...) and the checks on it.
ReadTrip(t, c) ==
  /\ disp[t][c].pc = "trip"
  /\ IF IsOpen(t) /\ age[t] # "future"
       THEN GoOn(t, c, [disp[t][c] EXCEPT !.pc = "offers", !.seen = status[t]])
       ELSE EndCall(t, c)
  /\ UNCHANGED <<store, sweep>>

\* Drivers whose history with t does not rule them out: never declined, and
\* not asked before, or asked long enough ago (or the cooldown is skipped).
Askable(t, skip) ==
  {d \in Drivers :
     /\ \A r \in RowsIn(t, {"REJECTED"}) : rows[r].driver # d
     /\ \A r \in RowsIn(t, RowStatuses) : rows[r].driver = d => skip \/ rows[r].clock = 2}

\* const previous = await findMany(...): a live offer ends the call.
ReadOffers(t, c) ==
  LET call == disp[t][c] IN
  /\ call.pc = "offers"
  /\ IF LiveOffers(t) # {}
       THEN EndCall(t, c)
       ELSE GoOn(t, c, [call EXCEPT !.pc = "drivers",
              !.may = IF call.target = None THEN Askable(t, call.skip) ELSE {call.target}])
  /\ UNCHANGED <<store, sweep>>

\* const drivers = await findMany(...), then a synchronous choice.  Location
\* age and socket presence come from the phones, so any available driver may
\* turn out to be the one to ask, and possibly none is.
PickDriver(t, c) ==
  /\ disp[t][c].pc = "drivers"
  /\ \/ \E d \in disp[t][c].may :
          /\ online[d] /\ dstat[d] = "ACTIVE"
          /\ GoOn(t, c, [disp[t][c] EXCEPT !.pc = "create", !.may = {}, !.driver = d])
     \/ EndCall(t, c)
  /\ UNCHANGED <<store, sweep>>

\* createRideOffer, first write: the OFFERED assignment.
CreateOffer(t, c) ==
  /\ disp[t][c].pc = "create"
  /\ \E r \in RowIds :
       /\ NextRow(r)
       /\ rows' = [rows EXCEPT ![r] = NewRow(t, disp[t][c].driver, "OFFERED", 0)]
  /\ \/ disp[t][c].seen = "ASSIGNING" /\ EndCall(t, c)
     \/ disp[t][c].seen # "ASSIGNING" /\ GoOn(t, c, [disp[t][c] EXCEPT !.pc = "mark"])
  /\ UNCHANGED <<status, age, dstat, online, settled, tainted, sweep>>

\* createRideOffer, second write: status ASSIGNING, whatever it is by now.
MarkAssigning(t, c) ==
  /\ disp[t][c].pc = "mark"
  /\ status' = [status EXCEPT ![t] = "ASSIGNING"]
  /\ tainted' = TaintUnless(t, IsOpen(t))
  /\ GoOn(t, c, [disp[t][c] EXCEPT !.pc = "event"])
  /\ UNCHANGED <<age, rows, dstat, online, settled, sweep>>

\* await recordTripStatusEvent(...): the trip is still in flight meanwhile.
RecordEvent(t, c) ==
  /\ disp[t][c].pc = "event"
  /\ EndCall(t, c)
  /\ UNCHANGED <<store, sweep>>

\* BOUND: with MaxRows assignments used up, the insert counts as failed.
CreateOfferFails(t, c) ==
  /\ disp[t][c].pc = "create" /\ \A r \in RowIds : ~NextRow(r)
  /\ EndCall(t, c)
  /\ UNCHANGED <<store, sweep>>

\* A query of the call rejects: its caller catches it, and a sweep gives up.  (A
\* failure to record the event is swallowed.)
DispatchFails(t, c) ==
  /\ disp[t][c].pc \notin {"idle", "event"}
  /\ EndCall(t, c)
  /\ sweep' = IF c = Sweeper THEN NoSweep ELSE sweep
  /\ UNCHANGED store

DispatchStep(t, c) ==
  \/ ReadTrip(t, c) \/ ReadOffers(t, c) \/ PickDriver(t, c)
  \/ CreateOffer(t, c) \/ CreateOfferFails(t, c) \/ MarkAssigning(t, c) \/ RecordEvent(t, c)

-----------------------------------------------------------------------------
(* The sweeper: expireOverdueRideOffers, redispatchWaitingRides and          *)
(* closeUnclaimedRideRequests, one after the other.                          *)

\* expireOverdueRideOffers reads the overdue offers.
SweepBegin ==
  /\ sweep.pc = "idle"
  /\ sweep' = [NoSweep EXCEPT !.pc = "expire",
                 !.rows = {r \in RowIds : rows[r].st = "OFFERED" /\ rows[r].clock > 0}]
  /\ UNCHANGED <<store, inFlight, disp>>

\* updateMany({id, status: OFFERED}); a row that changed meanwhile is skipped.
SweepExpire(r) ==
  /\ sweep.pc = "expire" /\ r \in sweep.rows
  /\ IF rows[r].st = "OFFERED"
       THEN /\ rows' = Restate({r}, "EXPIRED")
            /\ sweep' = [sweep EXCEPT !.rows = @ \ {r}, !.trips = @ \cup {rows[r].trip}]
       ELSE /\ sweep' = [sweep EXCEPT !.rows = @ \ {r}]
            /\ UNCHANGED rows
  /\ UNCHANGED <<status, age, dstat, online, settled, tainted, inFlight, disp>>

SweepExpireEnds ==
  /\ sweep.pc = "expire" /\ sweep.rows = {}
  /\ sweep' = [sweep EXCEPT !.pc = "offer"]
  /\ UNCHANGED <<store, inFlight, disp>>

\* await dispatchRide(t): after an expiry always, on redispatch unless the trip
\* was attempted within REDISPATCH_INTERVAL_MS.
SweepDispatch(t) ==
  /\ sweep.pc \in {"offer", "redispatch"} /\ t \in sweep.trips /\ Quiet(Sweeper)
  /\ sweep' = [sweep EXCEPT !.trips = @ \ {t}]
  /\ \/ CallDispatch({t}, Sweeper, FALSE, None)
     \/ sweep.pc = "redispatch" /\ NoDispatch
  /\ UNCHANGED store

\* redispatchWaitingRides: open trips due for at most 30 minutes, without a live offer.
SweepReadWaiting ==
  /\ sweep.pc = "offer" /\ sweep.trips = {} /\ Quiet(Sweeper)
  /\ sweep' = [sweep EXCEPT !.pc = "redispatch",
                 !.trips = {t \in Trips : IsOpen(t) /\ age[t] = "due" /\ LiveOffers(t) = {}}]
  /\ UNCHANGED <<store, inFlight, disp>>

\* Mutant: a ride that was offered once is no longer looked at.
SweepReadStaleRequested ==
  /\ sweep.pc = "redispatch" /\ sweep.trips = {} /\ Quiet(Sweeper)
  /\ sweep' = [sweep EXCEPT !.pc = "close",
                 !.trips = {t \in Trips : status[t] = "REQUESTED" /\ age[t] = "stale"}]
  /\ UNCHANGED <<store, inFlight, disp>>

\* closeUnclaimedRideRequests: open trips 30 minutes to 6 hours past their pickup time.
SweepReadStale ==
  /\ sweep.pc = "redispatch" /\ sweep.trips = {} /\ Quiet(Sweeper)
  /\ sweep' = [sweep EXCEPT !.pc = "close",
                 !.trips = {t \in Trips : IsOpen(t) /\ age[t] = "stale"}]
  /\ UNCHANGED <<store, inFlight, disp>>

\* Mutant: the close does not test the status.
SweepCloseBlind(t) ==
  /\ sweep.pc = "close" /\ t \in sweep.trips
  /\ status' = [status EXCEPT ![t] = "CANCELLED"]
  /\ sweep' = [sweep EXCEPT !.pc = "closeRows", !.trips = @ \ {t}, !.cur = t]
  /\ UNCHANGED <<age, rows, dstat, online, settled, tainted, inFlight, disp>>

\* The conditional close, then (a second call) the trip's pending offers.
SweepClose(t) ==
  /\ sweep.pc = "close" /\ t \in sweep.trips
  /\ IF IsOpen(t)
       THEN /\ status' = [status EXCEPT ![t] = "CANCELLED"]
            /\ sweep' = [sweep EXCEPT !.pc = "closeRows", !.trips = @ \ {t}, !.cur = t]
       ELSE /\ sweep' = [sweep EXCEPT !.trips = @ \ {t}]
            /\ UNCHANGED status
  /\ UNCHANGED <<age, rows, dstat, online, settled, tainted, inFlight, disp>>

SweepCloseRows ==
  /\ sweep.pc = "closeRows"
  /\ rows' = Restate(RowsIn(sweep.cur, {"OFFERED"}), "EXPIRED")
  /\ sweep' = [sweep EXCEPT !.pc = "close", !.cur = None]
  /\ UNCHANGED <<status, age, dstat, online, settled, tainted, inFlight, disp>>

SweepEnd ==
  /\ sweep.pc = "close" /\ sweep.trips = {}
  /\ sweep' = NoSweep
  /\ UNCHANGED <<store, inFlight, disp>>

\* A query of the sweep itself rejects: the rest of this sweep is skipped.
SweepFails ==
  /\ sweep.pc # "idle" /\ Quiet(Sweeper)
  /\ sweep' = NoSweep
  /\ UNCHANGED <<store, inFlight, disp>>

SweepStep ==
  \/ SweepBegin \/ SweepExpireEnds \/ SweepReadWaiting \/ SweepReadStale
  \/ SweepCloseRows \/ SweepEnd
  \/ \E r \in RowIds : SweepExpire(r)
  \/ \E t \in Trips : SweepDispatch(t) \/ SweepClose(t)
=============================================================================
