----------------------------- MODULE TripTracking -----------------------------
(***************************************************************************)
(* What the passenger's phone shows of a ride (TripTrackingScreen), against*)
(* what the server has: its status, and the driver who accepted it.  The   *)
(* screen learns of changes over a socket, which hands on what handlers    *)
(* say after they have written, and from GET /rides/:id, which it asks for *)
(* on every connect and most events.  Handlers overlap, so that what they  *)
(* say may be outdated when it is said.                                    *)
(*                                                                         *)
(* What the writes do to each other is RideSystem's subject: here a write  *)
(* goes with its check, except for the dispatch, which offers a ride it    *)
(* read earlier, and a ride never has two drivers.  react-query (external) *)
(* is modelled as useQuery and refetch are used.  Every event reaches the  *)
(* phone twice, by the rooms of the user and of the ride, at once; the     *)
(* second copy is left out.  So are the driver's position, which a GET     *)
(* also answers, the map, and what is said when nothing changed.  The      *)
(* screen is opened once, from the booking, and nothing leads back to it:  *)
(* leaving it, or a cancel of the passenger's own, ends its story.         *)
(***************************************************************************)
EXTENDS Naturals, Sequences

CONSTANTS
  Drivers,
  Handlers,    \* BOUND: handlers and dispatches under way at a time
  Forced,      \* BOUND: the statuses staff force
  MaxWrites,   \* BOUND: changes of the ride
  MaxQueue,    \* BOUND: events on their way to the phone
  Nil

Open == {"REQUESTED", "ASSIGNING"}
Releasable == {"ASSIGNED", "ARRIVED"}       \* nothing sets DRIVER_ARRIVING
Cancellable == Open \cup Releasable
Ended == {"COMPLETED", "CANCELLED"}
Statuses == Cancellable \cup {"IN_PROGRESS"} \cup Ended
NoDriversOnline == "NO_AVAILABLE_DRIVERS"
Shown == Statuses \cup {NoDriversOnline}
Searching == Open \cup {NoDriversOnline}    \* SEARCHING of the screen

\* What GET /rides/:id may answer.
Views == [status : Statuses, driver : Drivers \cup {Nil}, ver : Nat]

ASSUME DriverAssumption == Nil \notin Drivers \cup Views
ASSUME ForcedAssumption == Forced \subseteq Statuses
ASSUME BoundAssumption == MaxWrites \in Nat /\ MaxQueue \in Nat

VARIABLES
  trip,      \* what GET /rides/:id would answer; ver tells apart what is the same but for dates
  job,       \* job[h]: a handler that has written and not yet spoken, or a dispatch
  link,      \* the screen's socket: is it up, and the events on their way
  screen,    \* liveStatus and assignedDriver
  data,      \* the cached answer
  get,       \* the GET under way
  doubt,     \* HISTORY: what an outdated event has set on the screen since the last news
  unsaid,    \* HISTORY: something was written that no event tells of, and no answer since
  missed,    \* HISTORY: the last GET failed
  overtaken  \* HISTORY: the first GET was overtaken, and no other has been answered

server == <<trip, job>>
phone == <<link, screen, data, get>>
history == <<doubt, unsaid, missed, overtaken>>
trackVars == <<server, link, screen, data, get, history>>

Idle == [at |-> "idle", status |-> Nil, driver |-> Nil]
Down == [up |-> FALSE, queue |-> <<>>]
NoGet == [at |-> "none", answer |-> Nil]
Asked == [at |-> "asked", answer |-> Nil]
NewScreen == [live |-> "REQUESTED", driver |-> Nil]

\* The screen opens on a ride just booked: useQuery fetches, the socket is connecting.
TrackInit ==
  /\ trip = [status |-> "REQUESTED", driver |-> Nil, ver |-> 0]
  /\ job = [h \in Handlers |-> Idle]
  /\ link = Down /\ screen = NewScreen
  /\ data = Nil /\ get = Asked
  /\ doubt = {} /\ unsaid = FALSE /\ missed = FALSE /\ overtaken = FALSE

-----------------------------------------------------------------------------
(* The server writes ...                                                     *)

Write(status, driver) ==
  /\ trip.ver < MaxWrites
  /\ trip' = [status |-> status, driver |-> driver, ver |-> trip.ver + 1]

TakeUp(h, at, status, driver) ==
  /\ job[h] = Idle
  /\ job' = [job EXCEPT ![h] = [at |-> at, status |-> status, driver |-> driver]]

\* claimRide, up to its commit.
Claim(h, d) ==
  /\ trip.status \in Open /\ trip.driver = Nil
  /\ Write("ASSIGNED", d)
  /\ TakeUp(h, "read", Nil, d)
  /\ UNCHANGED <<phone, history>>

\* releaseRide, up to its commit.
Release(h) ==
  /\ trip.driver # Nil /\ trip.status \in Releasable
  /\ Write("REQUESTED", Nil)
  /\ TakeUp(h, "read", Nil, Nil)
  /\ UNCHANGED <<phone, history>>

\* arrived, start, complete.  (A complete that is repeated changes nothing shown here.)
Progress(h, to) ==
  /\ trip.driver # Nil
  /\ \/ to = "ARRIVED" /\ trip.status \in Releasable
     \/ to \in {"IN_PROGRESS", "COMPLETED"} /\ trip.status \in Releasable \cup {"IN_PROGRESS"}
  /\ Write(to, trip.driver)
  /\ IF to = "COMPLETED" THEN TakeUp(h, "settle", Nil, trip.driver)
                         ELSE TakeUp(h, "read", Nil, Nil)
  /\ UNCHANGED <<phone, history>>

\* cancelRide by passenger, driver or staff: what it says is what it has written.
Cancel(h) ==
  /\ trip.status \in Cancellable
  /\ Write("CANCELLED", Nil)
  /\ TakeUp(h, "emit", "CANCELLED", Nil)
  /\ UNCHANGED <<phone, history>>

\* closeUnclaimedRideRequests.
CloseUnclaimed(h) ==
  /\ trip.status \in Open
  /\ Write("CANCELLED", trip.driver)
  /\ TakeUp(h, "read", Nil, Nil)
  /\ UNCHANGED <<phone, history>>

\* PATCH rides/:id/status says nothing to the passenger.
Patch(to) ==
  /\ Write(to, trip.driver)
  /\ unsaid' = TRUE
  /\ UNCHANGED <<job, phone, doubt, missed, overtaken>>

\* An offer is declined or runs out: the assignments of the answer change.
OfferEnds ==
  /\ trip.status = "ASSIGNING"
  /\ Write(trip.status, trip.driver)
  /\ UNCHANGED <<job, phone, history>>

\* dispatchRide reads the trip; dispatchInFlight admits one call.
DispatchRead(h) ==
  /\ \A g \in Handlers : job[g].at \notin {"dispatch", "offer"}
  /\ trip.status \in Open
  /\ TakeUp(h, "dispatch", trip.status, Nil)
  /\ UNCHANGED <<trip, phone, history>>

\* createRideOffer: assignment and, unless it was read as such, status ASSIGNING.
DispatchOffers(h) ==
  /\ job[h].at = "dispatch"
  /\ Write(IF job[h].status = "ASSIGNING" THEN trip.status ELSE "ASSIGNING", trip.driver)
  /\ job' = [job EXCEPT ![h].at = "offer", ![h].status = "ASSIGNING"]
  /\ UNCHANGED <<phone, history>>

\* A live offer exists already, nobody is left to ask, or noDriverNotified has the ride.
DispatchEnds(h) ==
  /\ job[h].at = "dispatch"
  /\ job' = [job EXCEPT ![h] = Idle]
  /\ UNCHANGED <<trip, phone, history>>

-----------------------------------------------------------------------------
(* ... and says so, some awaits later.                                       *)

\* BOUND: a connection on which more than MaxQueue events wait breaks, as it may at any time.
Emit(events) ==
  link' = IF ~link.up THEN link
          ELSE IF Len(link.queue) + Len(events) > MaxQueue THEN Down
          ELSE [link EXCEPT !.queue = @ \o events]

Updated(status) == [what |-> "updated", status |-> status, driver |-> Nil]
Accepted(d) == [what |-> "accepted", status |-> "ASSIGNED", driver |-> d]
Offered == [what |-> "offered", status |-> "ASSIGNING", driver |-> Nil]

\* const updatedTrip = await findUnique(...): the trip as it is by now.
ReadBack(h) ==
  /\ job[h].at \in {"read", "settle"}
  /\ job' = [job EXCEPT ![h].status = trip.status,
                        ![h].at = IF @ = "settle" THEN "finish" ELSE "emit"]
  /\ UNCHANGED <<trip, phone, history>>

\* The assignment of a completed ride is closed, so that nobody is its accepted driver.
FinishRow(h) ==
  /\ job[h].at = "finish"
  /\ trip' = [trip EXCEPT !.driver = IF @ = job[h].driver THEN Nil ELSE @, !.ver = @ + 1]
  /\ job' = [job EXCEPT ![h].at = "emit", ![h].driver = Nil]
  /\ UNCHANGED <<phone, history>>

Speak(h) ==
  /\ job[h].at \in {"emit", "offer"}
  /\ Emit(IF job[h].at = "offer" THEN <<Offered, Updated(job[h].status)>>
          ELSE IF job[h].driver # Nil THEN <<Accepted(job[h].driver), Updated(job[h].status)>>
          ELSE <<Updated(job[h].status)>>)
  /\ job' = [job EXCEPT ![h] = Idle]
  /\ UNCHANGED <<trip, screen, data, get, history>>

\* No driver is online: said of the trip as it was read.
SayNoDrivers(h) ==
  /\ job[h].at = "dispatch"
  /\ job' = [job EXCEPT ![h] = Idle]
  /\ Emit(<<Updated(NoDriversOnline)>>)
  /\ UNCHANGED <<trip, screen, data, get, history>>

HasWritten(h) == job[h].at \notin {"idle", "dispatch"}

\* A query fails after the write: the handler never speaks.
HandlerFails(h) ==
  /\ job[h].at # "idle"
  /\ job' = [job EXCEPT ![h] = Idle]
  /\ unsaid' = (unsaid \/ HasWritten(h))
  /\ UNCHANGED <<trip, phone, doubt, missed, overtaken>>

Restart ==
  /\ job' = [h \in Handlers |-> Idle]
  /\ link' = Down
  /\ unsaid' = (unsaid \/ \E h \in Handlers : HasWritten(h))
  /\ UNCHANGED <<trip, screen, data, get, doubt, missed, overtaken>>

-----------------------------------------------------------------------------
(* The phone.                                                                *)

\* refetch(): a GET under way is called off if there is data to keep, and joined if not.
AskTrip ==
  IF data = Nil /\ get # NoGet
    THEN UNCHANGED get /\ overtaken' = (overtaken \/ get.at = "answered")
    ELSE get' = Asked /\ UNCHANGED overtaken

\* Mutant: the ride is not asked for again after a reconnect.
ConnectOnly ==
  /\ ~link.up
  /\ link' = [up |-> TRUE, queue |-> <<>>]
  /\ UNCHANGED <<server, screen, data, get, history>>

\* The server joins the user's room before the phone hears of the connection.
Connect ==
  /\ ~link.up
  /\ link' = [up |-> TRUE, queue |-> <<>>]
  /\ AskTrip
  /\ UNCHANGED <<server, screen, data, doubt, unsaid, missed>>

Drop ==
  /\ link.up
  /\ link' = Down
  /\ UNCHANGED <<server, screen, data, get, history>>

ServeTrip ==
  /\ get.at = "asked"
  /\ get' = [at |-> "answered", answer |-> trip]
  /\ UNCHANGED <<server, link, screen, data, history>>

\* Mutant: "no drivers online" is kept whatever the answer says.
AsAnsweredSticky(answer) ==
  [live |-> IF screen.live = NoDriversOnline THEN screen.live ELSE answer.status,
   driver |-> answer.driver]

\* The effect on [trip].
AsAnswered(answer) ==
  [live |-> IF screen.live = NoDriversOnline /\ answer.status \in Searching
              THEN screen.live ELSE answer.status,
   driver |-> answer.driver]

\* An answer equal to the one before is the same object: the effect does not run again.
TakeTrip ==
  /\ get.at = "answered"
  /\ get' = NoGet /\ data' = get.answer
  /\ IF get.answer = data
       THEN UNCHANGED <<screen, doubt>>
       ELSE screen' = AsAnswered(get.answer) /\ doubt' = {}
  /\ missed' = FALSE
  /\ overtaken' = (overtaken /\ data = Nil)
  /\ unsaid' = (unsaid /\ get.answer # trip)
  /\ UNCHANGED <<server, link>>

\* The GET and its one retry fail.
LoseTrip ==
  /\ get # NoGet
  /\ get' = NoGet
  /\ missed' = TRUE
  /\ UNCHANGED <<server, link, screen, data, doubt, unsaid, overtaken>>

Outdated(status) ==
  status # trip.status /\ ~ (status = NoDriversOnline /\ trip.status \in Open)

Doubting(what, outdated) == IF outdated THEN doubt \cup {what} ELSE doubt \ {what}

TakeHead(what) ==
  /\ link.up /\ link.queue # <<>> /\ Head(link.queue).what = what
  /\ link' = [link EXCEPT !.queue = Tail(@)]
  /\ UNCHANGED <<server, data, unsaid, missed>>

TakeUpdated ==
  /\ TakeHead("updated")
  /\ LET status == Head(link.queue).status IN
       /\ screen' = [screen EXCEPT !.live = status]
       /\ doubt' = Doubting("status", Outdated(status))
  /\ AskTrip

\* A driver has accepted.
TakeAccepted ==
  /\ TakeHead("accepted")
  /\ LET d == Head(link.queue).driver IN
       /\ screen' = [live |-> "ASSIGNED", driver |-> d]
       /\ doubt' = {what \in {"status", "driver"} :
                      IF what = "driver" THEN d # trip.driver ELSE Outdated("ASSIGNED")}
  /\ AskTrip

\* An offer to a driver is no news, except that one is being contacted.
TakeOffered ==
  /\ TakeHead("offered")
  /\ IF screen.live = "REQUESTED"
       THEN /\ screen' = [screen EXCEPT !.live = "ASSIGNING"]
            /\ doubt' = Doubting("status", Outdated("ASSIGNING"))
       ELSE UNCHANGED <<screen, doubt>>
  /\ UNCHANGED <<get, overtaken>>

-----------------------------------------------------------------------------
HandlerStep(h) == ReadBack(h) \/ FinishRow(h) \/ Speak(h)

ServerNext ==
  \/ \E h \in Handlers :
       \/ \E d \in Drivers : Claim(h, d)
       \/ \E to \in {"ARRIVED", "IN_PROGRESS", "COMPLETED"} : Progress(h, to)
       \/ Release(h) \/ Cancel(h) \/ CloseUnclaimed(h)
       \/ DispatchRead(h) \/ DispatchOffers(h) \/ DispatchEnds(h) \/ SayNoDrivers(h)
       \/ HandlerStep(h) \/ HandlerFails(h)
  \/ \E to \in Forced : Patch(to)
  \/ OfferEnds
  \/ Restart

TakeEvent == TakeUpdated \/ TakeAccepted \/ TakeOffered

PhoneNext == Connect \/ Drop \/ ServeTrip \/ TakeTrip \/ LoseTrip \/ TakeEvent

TrackNext == ServerNext \/ PhoneNext

(* The phone reconnects, for ever and at least a second apart, so that some  *)
(* answer comes back between two connections; handlers go on.                *)
TrackFairness ==
  /\ WF_trackVars(Connect) /\ WF_trackVars(TakeEvent)
  /\ WF_trackVars(ServeTrip) /\ SF_trackVars(TakeTrip)
  /\ \A h \in Handlers : WF_trackVars(HandlerStep(h))

TrackSpec == TrackInit /\ [][TrackNext]_trackVars /\ TrackFairness

-----------------------------------------------------------------------------
\* Nothing is on its way to the phone, and nothing will be said of what was written.
Quiet ==
  /\ link.up /\ link.queue = <<>> /\ get = NoGet
  /\ \A h \in Handlers : job[h] = Idle

\* What the README describes as departures: silent writes, lost answers and the first answer.
Undisturbed == ~unsaid /\ ~missed /\ ~overtaken

(* When all is quiet, the passenger sees the ride as it is, its status and    *)
(* its driver, unless the last event heard of one or the other was outdated: *)
(* however events, reconnects and answers have crossed.  "No drivers online" *)
(* may stand for a ride still open (TripTrackingScreen.tsx:121-158,          *)
(* realtime.ts:51-54).                                                       *)
RideIsShown ==
  Quiet /\ Undisturbed =>
    /\ "status" \in doubt \/ screen.live = trip.status
         \/ (screen.live = NoDriversOnline /\ trip.status \in Open)
    /\ "driver" \in doubt \/ screen.driver = trip.driver

(* A ride that is over is shown so in the end, whatever was lost, dropped or *)
(* outdated on the way, as long as it was said, the last GET came back, and  *)
(* no outdated event was the last news (TripTrackingScreen.tsx:121-145,      *)
(* realtime.ts:23-56).                                                       *)
EndIsShown ==
  \A status \in Ended :
    <>[](trip.status = status /\ Undisturbed /\ "status" \notin doubt)
      => <>[](screen.live = status)

=============================================================================
