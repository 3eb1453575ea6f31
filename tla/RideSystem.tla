----------------------------- MODULE RideSystem -----------------------------
(***************************************************************************)
(* The ride side of the API process as a whole: request handlers, dispatch *)
(* calls, sweeper, the passing of time, failing queries and restarts, and  *)
(* what must hold of them together.                                        *)
(***************************************************************************)
EXTENDS RideRequests

Init == StoreInit /\ DispatchInit /\ RequestsInit

\* The process dies and starts again: everything in memory is lost.  A long
\* enough outage carries stale trips past the look-back of the auto-close.
Crash ==
  /\ inFlight' = {}
  /\ disp' = [t \in Trips |-> [c \in Callers |-> NoCall]]
  /\ sweep' = NoSweep
  /\ req' = [p \in Reqs |-> NoRequest]
  /\ \E S \in SUBSET {t \in Trips : age[t] = "stale"} :
       age' = [t \in Trips |-> IF t \in S THEN "ancient" ELSE age[t]]
  /\ UNCHANGED <<status, rows, dstat, online, settled, tainted>>

\* Hours pass between the stale and the ancient mark, while a sweep runs every ten
\* seconds and a dispatch call lasts seconds: with the process up, an open trip is
\* closed before it gets there, and no call spans the interval.
GrowsOld(t) ==
  /\ age[t] = "stale" => ~IsOpen(t) /\ t \notin inFlight
  /\ GrowOld(t)

Time ==
  /\ (\E r \in RowIds : Lapse(r)) \/ (\E t \in Trips : GrowsOld(t))
  /\ UNCHANGED <<dispatchVars, req>>

Faults ==
  \/ (\E t \in Trips, c \in Callers : DispatchFails(t, c)) /\ UNCHANGED req
  \/ SweepFails /\ UNCHANGED req
  \/ \E p \in Reqs : RequestFails(p)

Next ==
  \/ \E p \in Reqs : RequestBegin(p) \/ RequestStep(p)
  \/ (\E t \in Trips, c \in Callers : DispatchStep(t, c)) /\ UNCHANGED req
  \/ "sweep" \in Ops /\ SweepStep /\ UNCHANGED req
  \/ "time" \in Ops /\ Time
  \/ "fault" \in Ops /\ Faults
  \/ "crash" \in Ops /\ Crash

Spec == Init /\ [][Next]_vars

\* The event loop gets to every timer and every settled query: the interval keeps
\* firing, a dispatch call that waits on the database goes on, and time passes.
\* No client, driver or operator is obliged to do anything.
Fairness ==
  /\ WF_vars("sweep" \in Ops /\ SweepStep /\ UNCHANGED req)
  /\ \A t \in Trips, c \in Callers : WF_vars(DispatchStep(t, c) /\ UNCHANGED req)
  /\ \A t \in Trips : WF_vars("time" \in Ops /\ GrowsOld(t) /\ UNCHANGED <<dispatchVars, req>>)

FairSpec == Spec /\ Fairness

-----------------------------------------------------------------------------

TypeOK == StoreTypeOK /\ DispatchTypeOK /\ RequestsTypeOK

\* "Only one targeted offer is live at a time" (dispatchRide): no two drivers
\* ever hold an unexpired offer for the same trip, although the check for a
\* live offer and the insert of the next one are two awaits apart.
OneLiveOffer ==
  \A t \in Trips : \A q, r \in LiveOffers(t) : q = r

\* The finally block of dispatchRide never leaks an id: a trip marked in flight has
\* exactly one call under way.  A leaked id would keep the ride from being offered
\* until the next restart.
InFlightTracksCalls ==
  \A t \in Trips :
    /\ t \in inFlight <=> \E c \in Callers : disp[t][c].pc # "idle"
    /\ \A b, c \in Callers : disp[t][b].pc # "idle" /\ disp[t][c].pc # "idle" => b = c

\* Whoever accepts first wins (claimRide), and nothing short of a write based on
\* an outdated read takes the ride away unnoticed: a trip under way or completed
\* has exactly one assignment that is accepted or completed, any other has none.
SoleDriver ==
  \A t \in Trips \ tainted :
    IF status[t] \in ActiveStatuses \cup {"COMPLETED"}
      THEN \E r \in RowsIn(t, {"ACCEPTED", "COMPLETED"}) :
             /\ RowsIn(t, {"ACCEPTED", "COMPLETED"}) = {r}
             /\ status[t] # "COMPLETED" => rows[r].st = "ACCEPTED"
      ELSE RowsIn(t, {"ACCEPTED", "COMPLETED"}) = {}

\* A completed assignment has been paid for: whatever fails or restarts between
\* the three writes of a completion, the row is closed only after settlement.
CompletedIsSettled ==
  \A t \in Trips \ tainted :
    /\ RowsIn(t, {"COMPLETED"}) # {} => t \in settled
    /\ t \in settled => status[t] = "COMPLETED"

\* A driver is ON_TRIP only while some trip accounts for it (one under way, one
\* completed but not settled, one that suffered an outdated write), or a switch has put
\* the driver back ON_TRIP that had read it before the ride was over.  Claims, releases,
\* cancellations and completions, failing or interrupted anywhere, strand nobody.
BusyDriverHasRide ==
  \A d \in Drivers \ tainted : dstat[d] = "ON_TRIP" =>
    \E t \in Trips, r \in RowIds :
      /\ rows[r].trip = t /\ rows[r].driver = d
      /\ \/ status[t] \in ActiveStatuses /\ rows[r].st = "ACCEPTED"
         \/ status[t] = "COMPLETED" /\ rows[r].st = "ACCEPTED" /\ t \notin settled
         \/ t \in tainted

Stage(t) ==
  CASE status[t] = "NONE" -> "none"
    [] IsOpen(t) -> "waiting"
    [] status[t] \in ReleasableStatuses -> "taken"
    [] status[t] = "IN_PROGRESS" -> "started"
    [] status[t] = "COMPLETED" -> "completed"
    [] OTHER -> "calledOff"

\* Every trip as RideContract sees it.
standing ==
  [t \in Trips |->
     IF t \in tainted THEN [at |-> "void", by |-> {}]
     ELSE [at |-> Stage(t),
           by |-> {rows[r].driver : r \in RowsIn(t, {"ACCEPTED", "COMPLETED"})}]]

\* The rows and statuses the handlers write, in whatever interleaving, keep the
\* contract: every step of theirs is one of its steps, or changes nothing that
\* it speaks of.
Contract == INSTANCE RideContract WITH ride <- standing
KeepsContract == Contract!Spec

\* "so the passenger isn't left waiting on a ride that will never come"
\* (closeUnclaimedRideRequests): with no outage, and nobody obliged to act, every
\* waiting ride is eventually taken, cancelled or closed; only one that comes back
\* to the pool after the look-back of the auto-close is "left alone".
RideNotLeftWaiting ==
  \A t \in Trips : IsOpen(t) /\ age[t] # "ancient" ~> ~IsOpen(t)
=============================================================================
