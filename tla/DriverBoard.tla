----------------------------- MODULE DriverBoard -----------------------------
(***************************************************************************)
(* What a driver's phone shows of the rides on offer, against what the     *)
(* server has: the card of a targeted offer, the list of open requests,    *)
(* the trip to resume and the trip screen (DispatchScreen, driverStore,    *)
(* useOpenRideRequests and the DriverRealtimeBridge of RootNavigator).     *)
(* The phone learns of changes over one socket, in order, and from three   *)
(* REST calls whose answers may be overtaken by the socket or by each      *)
(* other: GET me/current (sync), GET open-requests (refresh), and the      *)
(* answers to accept and reject.                                           *)
(*                                                                         *)
(* The server's handlers are one step each; RideRequests and               *)
(* DispatchService model what happens inside them.  Navigation to a point, *)
(* the map and the sheet are left out, as are the texts of alerts.  The    *)
(* phone's clock is not ahead of the server's.                             *)
(***************************************************************************)
EXTENDS Naturals, Sequences

CONSTANTS
  Trips,
  Earlier,           \* of these, the trips the driver has from before, on another phone
  Syncs, Refreshes,  \* BOUND: GET calls of each kind under way at a time
  MaxOffers,         \* BOUND: targeted offers of one trip to this driver
  MaxQueue,          \* BOUND: events on their way to the phone
  Nil                \* no trip, no offer

ASSUME TripAssumption == Nil \notin Trips /\ Earlier \subseteq Trips
ASSUME BoundAssumption == MaxOffers \in Nat /\ MaxQueue \in Nat

VARIABLES
  ride,     \* the server's view of each trip and of this driver's latest offer of it
  link,     \* the phone's socket: is it up, and the events on their way
  board,    \* the phone: isOnline, currentOffer, activeTripId, the list, the screen
  sync, refresh,  \* the GET calls under way
  tap,      \* the accept or reject under way
  owed,     \* an end or a release has been served and not answered
  held      \* HISTORY: the trips the server has given this driver

boardVars == <<ride, link, board, sync, refresh, tap, owed, held>>

NewRide == [life |-> "new", row |-> "none", n |-> 0]
TakenRide == [life |-> "mine", row |-> "accepted", n |-> 0]
Down == [up |-> FALSE, queue |-> <<>>]
FreshBoard ==
  [online |-> FALSE, card |-> Nil, active |-> Nil, list |-> {}, screen |-> Nil]
NoSync == [at |-> "idle", active |-> Nil, card |-> Nil]
NoRefresh == [at |-> "idle", list |-> {}]
NoTap == [at |-> "idle", trip |-> Nil, n |-> 0, other |-> Nil]

BoardInit ==
  /\ ride = [t \in Trips |-> IF t \in Earlier THEN TakenRide ELSE NewRide]
  /\ link = Down /\ board = FreshBoard
  /\ sync = [s \in Syncs |-> NoSync] /\ refresh = [r \in Refreshes |-> NoRefresh]
  /\ tap = NoTap /\ owed = FALSE
  /\ held = Earlier

-----------------------------------------------------------------------------
(* The server and everybody else.                                            *)

Open == {t \in Trips : ride[t].life = "open"}
Mine == {t \in Trips : ride[t].life = "mine"}
MyTrip == IF Mine = {} THEN Nil ELSE CHOOSE t \in Mine : TRUE
OfferOf(t) == <<t, ride[t].n>>
Online == board.online
Event(what, t) == [what |-> what, offer |-> OfferOf(t)]

\* BOUND: a connection on which more than MaxQueue events wait breaks, as it may
\* at any time, so that the bound never holds a handler back.
Emit(event) ==
  link' = IF ~link.up THEN link
          ELSE IF Len(link.queue) = MaxQueue THEN Down
          ELSE [link EXCEPT !.queue = Append(@, event)]

\* A driver who is asked no longer is, once the trip is somebody's or nobody's.
Answered(row) == IF row \in {"offered", "lapsed"} THEN "expired" ELSE row

\* A passenger requests the ride: ride:open goes to every driver.
RequestRide(t) ==
  /\ ride[t].life = "new"
  /\ ride' = [ride EXCEPT ![t].life = "open"]
  /\ Emit(Event("open", t))
  /\ UNCHANGED <<board, sync, refresh, tap, owed, held>>

\* dispatchRide picks this driver, who is online, free and has not declined.
OfferRide(t) ==
  /\ ride[t].life = "open" /\ ride[t].row \in {"none", "expired"}
  /\ ride[t].n < MaxOffers
  /\ Online /\ Mine = {}
  /\ ride' = [ride EXCEPT ![t].row = "offered", ![t].n = @ + 1]
  /\ Emit([what |-> "offer", offer |-> <<t, ride[t].n + 1>>])
  /\ UNCHANGED <<board, sync, refresh, tap, owed, held>>

\* RIDE_OFFER_TTL_MS passes.
LapseOffer(t) ==
  /\ ride[t].row = "offered"
  /\ ride' = [ride EXCEPT ![t].row = "lapsed"]
  /\ UNCHANGED <<link, board, sync, refresh, tap, owed, held>>

ExpireOverdueOffer(t) ==
  /\ ride[t].row = "lapsed"
  /\ ride' = [ride EXCEPT ![t].row = "expired"]
  /\ Emit(Event("expired", t))
  /\ UNCHANGED <<board, sync, refresh, tap, owed, held>>

\* Another driver accepts; the passenger cancels, or nobody answered in time.
CloseRide(t, life) ==
  /\ \/ life = "others" /\ ride[t].life = "open"
     \/ life = "over" /\ ride[t].life \in {"open", "others", "mine"}
  /\ ride' = [ride EXCEPT ![t].life = life, ![t].row = Answered(@)]
  /\ Emit(Event("closed", t))
  /\ UNCHANGED <<board, sync, refresh, tap, owed, held>>

\* Another driver hands the ride back.
OtherReleases(t) ==
  /\ ride[t].life = "others"
  /\ ride' = [ride EXCEPT ![t].life = "open"]
  /\ Emit(Event("open", t))
  /\ UNCHANGED <<board, sync, refresh, tap, owed, held>>

\* The driver ends the trip, or releases it, on the trip screen (ActiveTripScreen).
EndTrip(t) ==
  /\ board.screen = t /\ ride[t].life = "mine"
  /\ ride' = [ride EXCEPT ![t].life = "over"]
  /\ owed' = TRUE
  /\ UNCHANGED <<link, board, sync, refresh, tap, held>>

\* BOUND: the trip from before is not released, only ended.
ReleaseTrip(t) ==
  /\ t \notin Earlier
  /\ board.screen = t /\ ride[t].life = "mine"
  /\ ride' = [ride EXCEPT ![t].life = "open", ![t].row = "declined"]
  /\ owed' = TRUE
  /\ Emit(Event("open", t))
  /\ UNCHANGED <<board, sync, refresh, tap, held>>

-----------------------------------------------------------------------------
(* What the phone asks for.                                                  *)

\* syncDriverRideState: on launch, on connect, on coming to the foreground and
\* on the tap of a notification.  BOUND: not when all of Syncs are under way.
AskSync ==
  IF \E s \in Syncs : sync[s].at = "idle"
    THEN LET s == CHOOSE x \in Syncs : sync[x].at = "idle" IN
         sync' = [sync EXCEPT ![s].at = "sent"]
    ELSE UNCHANGED sync

AskRefresh ==
  IF \E r \in Refreshes : refresh[r].at = "idle"
    THEN LET r == CHOOSE x \in Refreshes : refresh[x].at = "idle" IN
         refresh' = [refresh EXCEPT ![r].at = "sent"]
    ELSE UNCHANGED refresh

\* Only an online driver's phone listens to the list's events and timers.
RefreshIfOnline == IF Online THEN AskRefresh ELSE UNCHANGED refresh

\* GET /ride-dispatch/me/current.
ServeSync(s) ==
  /\ sync[s].at = "sent"
  /\ \E card \in {Nil} \cup {OfferOf(t) : t \in {u \in Open : ride[u].row = "offered"}} :
       /\ card = Nil => \A t \in Open : ride[t].row # "offered"
       /\ sync' = [sync EXCEPT ![s] = [at |-> "answered", active |-> MyTrip, card |-> card]]
  /\ UNCHANGED <<ride, link, board, refresh, tap, owed, held>>

\* The window of a card may be over when its offer is not pending, and is over
\* when the server has found it lapsed.
MayBeOver(card) == ride[card[1]].n # card[2] \/ ride[card[1]].row # "offered"
IsOver(card) == ride[card[1]].n = card[2] /\ ride[card[1]].row = "lapsed"

\* Mutant: an answer that knows of no trip leaves the old one to resume.
TakeSyncOffersOnly(s) ==
  /\ sync[s].at = "answered"
  /\ board' = [board EXCEPT !.card = IF sync[s].card # Nil THEN sync[s].card ELSE @]
  /\ sync' = [sync EXCEPT ![s] = NoSync]
  /\ UNCHANGED <<ride, link, refresh, tap, owed, held>>

\* A card the server does not mention stays until its own window is over.
TakeSync(s) ==
  /\ sync[s].at = "answered"
  /\ \E card \in {sync[s].card, board.card} :
       /\ \/ card = sync[s].card
             /\ card = Nil => \A gone \in {board.card} \ {Nil} : MayBeOver(gone)
          \/ sync[s].card = Nil /\ card # Nil /\ ~IsOver(card)
       /\ board' = [board EXCEPT !.active = sync[s].active, !.card = card]
  /\ sync' = [sync EXCEPT ![s] = NoSync]
  /\ UNCHANGED <<ride, link, refresh, tap, owed, held>>

\* A call that fails: the server has changed nothing, so that a request lost on
\* its way is an answer lost on its way.
LoseSync(s) ==
  /\ sync[s].at = "answered"
  /\ sync' = [sync EXCEPT ![s] = NoSync]
  /\ UNCHANGED <<ride, link, board, refresh, tap, owed, held>>

\* GET /ride-dispatch/open-requests.
ServeRefresh(r) ==
  /\ refresh[r].at = "sent"
  /\ refresh' = [refresh EXCEPT ![r] = [at |-> "answered", list |-> Open]]
  /\ UNCHANGED <<ride, link, board, sync, tap, owed, held>>

\* Mutant: the answer adds what it knows and removes nothing.
TakeRefreshAdding(r) ==
  /\ refresh[r].at = "answered"
  /\ board' = [board EXCEPT !.list = IF Online THEN @ \cup refresh[r].list ELSE @]
  /\ refresh' = [refresh EXCEPT ![r] = NoRefresh]
  /\ UNCHANGED <<ride, link, sync, tap, owed, held>>

\* The whole list is replaced, whatever the socket said since.  An answer that
\* comes while offline is ignored (cancelledRef; before the driver first goes
\* online it fills a list that is not shown, which is left out); one that comes
\* after going online again is not.
TakeRefresh(r) ==
  /\ refresh[r].at = "answered"
  /\ board' = [board EXCEPT !.list = IF Online THEN refresh[r].list ELSE @]
  /\ refresh' = [refresh EXCEPT ![r] = NoRefresh]
  /\ UNCHANGED <<ride, link, sync, tap, owed, held>>

LoseRefresh(r) ==
  /\ refresh[r].at = "answered"
  /\ refresh' = [refresh EXCEPT ![r] = NoRefresh]
  /\ UNCHANGED <<ride, link, board, sync, tap, owed, held>>

\* Every 60 s.
RefreshTimer ==
  /\ Online /\ \E r \in Refreshes : refresh[r].at = "idle"
  /\ AskRefresh
  /\ UNCHANGED <<ride, link, board, sync, tap, owed, held>>

\* The app comes to the foreground, or the driver taps a notification.
Foreground ==
  /\ AskSync /\ RefreshIfOnline
  /\ UNCHANGED <<ride, link, board, tap, owed, held>>

Connect ==
  /\ ~link.up
  /\ link' = [up |-> TRUE, queue |-> <<>>]
  /\ AskSync /\ RefreshIfOnline
  /\ UNCHANGED <<ride, board, tap, owed, held>>

Disconnect ==
  /\ link.up
  /\ link' = Down
  /\ UNCHANGED <<ride, board, sync, refresh, tap, owed, held>>

\* Availability itself is DriverPresence; the list goes with the switch.
GoOnline ==
  /\ ~Online
  /\ board' = [board EXCEPT !.online = TRUE]
  /\ AskRefresh
  /\ UNCHANGED <<ride, link, sync, tap, owed, held>>

GoOffline ==
  /\ Online
  /\ board' = [board EXCEPT !.online = FALSE, !.list = {}]
  /\ UNCHANGED <<ride, link, sync, refresh, tap, owed, held>>

-----------------------------------------------------------------------------
(* What the socket brings.                                                   *)

CardUnless(gone) == IF board.card \in gone THEN Nil ELSE board.card
CardsOf(t) == {t} \X (1 .. MaxOffers)

ReceiveEvent ==
  /\ link.queue # <<>>
  /\ link' = [link EXCEPT !.queue = Tail(@)]
  /\ LET e == Head(link.queue)
         t == e.offer[1]
     IN board' = CASE e.what = "open" ->
                        [board EXCEPT !.list = IF Online THEN @ \cup {t} ELSE @]
                   [] e.what = "closed" ->
                        [board EXCEPT !.list = IF Online THEN @ \ {t} ELSE @, !.card = CardUnless(CardsOf(t))]
                   [] e.what = "offer" -> [board EXCEPT !.card = e.offer]
                   [] e.what = "expired" ->
                        [board EXCEPT !.card = CardUnless({e.offer})]
                   [] e.what = "assigned" -> [board EXCEPT !.list = IF Online THEN @ \ {t} ELSE @,
                                       !.card = Nil, !.active = t]
  /\ UNCHANGED <<ride, sync, refresh, tap, owed, held>>

\* The one-second countdown of the card reaches zero.
Countdown ==
  /\ board.card # Nil /\ MayBeOver(board.card)
  /\ board' = [board EXCEPT !.card = Nil]
  /\ UNCHANGED <<ride, link, sync, refresh, tap, owed, held>>

-----------------------------------------------------------------------------
(* Accept and reject.                                                        *)

\* BOUND: one tap under way at a time (the screen forbids two accepts).
Send(k, offer) ==
  /\ tap = NoTap /\ board.screen = Nil
  /\ tap' = [NoTap EXCEPT !.at = k, !.trip = offer[1], !.n = offer[2]]
  /\ UNCHANGED <<ride, link, board, sync, refresh, owed, held>>

\* The card's button, or one in the list (n = 0).
TapAccept(offer) ==
  /\ board.card = offer \/ (Online /\ offer[2] = 0 /\ offer[1] \in board.list)
  /\ Send("accept", offer)

TapReject == board.card # Nil /\ Send("reject", board.card)

AnswerTap(at, other) == tap' = [tap EXCEPT !.at = at, !.other = other]

\* claimRide: the driver's own trip first, then whoever comes first.  The winner's
\* ride:assigned and the ride:closed to every driver travel together.
ServeAccept ==
  LET t == tap.trip IN
  /\ tap.at = "accept"
  /\ CASE MyTrip = t -> AnswerTap("won", Nil) /\ UNCHANGED <<ride, link, held>>
       [] MyTrip \notin {Nil, t} ->
            AnswerTap("busy", MyTrip) /\ UNCHANGED <<ride, link, held>>
       [] MyTrip = Nil /\ t \in Open ->
            /\ AnswerTap("won", Nil)
            /\ ride' = [ride EXCEPT ![t].life = "mine", ![t].row = "accepted"]
            /\ Emit(Event("assigned", t))
            /\ held' = held \cup {t}
       [] MyTrip = Nil /\ t \notin Open ->
            AnswerTap("taken", Nil) /\ UNCHANGED <<ride, link, held>>
  /\ UNCHANGED <<board, sync, refresh, owed>>

\* Mutant: a ride somebody else took is opened all the same.
TakeAcceptTrusting ==
  /\ tap.at \in {"won", "busy", "taken"}
  /\ board' = [board EXCEPT !.list = @ \ {tap.trip}, !.card = Nil, !.active = tap.trip,
                            !.screen = tap.trip]
  /\ tap' = NoTap
  /\ UNCHANGED <<ride, link, sync, refresh, owed, held>>

\* handleAccept: won, the trip opens; busy, the driver may resume the trip the
\* server names; taken, the ride leaves the board.
TakeAccept ==
  /\ \/ /\ tap.at = "won"
        /\ board' = [board EXCEPT !.list = @ \ {tap.trip}, !.card = Nil,
                                  !.active = tap.trip, !.screen = tap.trip]
        /\ UNCHANGED refresh
     \/ /\ tap.at = "busy"
        /\ \E seen \in {board.screen, tap.other} : board' = [board EXCEPT !.screen = seen]
        /\ AskRefresh
     \/ /\ tap.at = "taken"
        /\ board' = [board EXCEPT !.list = @ \ {tap.trip}, !.card = CardUnless(CardsOf(tap.trip))]
        /\ AskRefresh
  /\ tap' = NoTap
  /\ UNCHANGED <<ride, link, sync, owed, held>>

\* Only a pending row is declined; the trip goes on to the next driver.  The answer
\* clears whatever card is shown by then, or is lost.
Reject ==
  /\ tap.at = "reject"
  /\ ride' = IF ride[tap.trip].n = tap.n /\ ride[tap.trip].row \in {"offered", "lapsed"}
                THEN [ride EXCEPT ![tap.trip].row = "declined"] ELSE ride
  /\ \E card \in {board.card, Nil} : board' = [board EXCEPT !.card = card]
  /\ tap' = NoTap
  /\ UNCHANGED <<link, sync, refresh, owed, held>>

\* The request or its answer is lost: the driver is told, and after an accept
\* the list is refreshed.
LoseTap ==
  /\ tap # NoTap
  /\ tap' = NoTap
  /\ IF tap.at # "reject" THEN AskRefresh ELSE UNCHANGED refresh
  /\ UNCHANGED <<ride, link, board, sync, owed, held>>

-----------------------------------------------------------------------------
(* The trip screen, from outside.                                            *)

ResumeTrip ==
  /\ board.screen = Nil /\ board.active # Nil
  /\ board' = [board EXCEPT !.screen = board.active]
  /\ UNCHANGED <<ride, link, sync, refresh, tap, owed, held>>

GoBack ==
  /\ board.screen # Nil
  /\ board' = [board EXCEPT !.screen = Nil]
  /\ UNCHANGED <<ride, link, sync, refresh, tap, owed, held>>

\* onRideUpdated: the passenger has cancelled the trip on the screen.
TripCancelled ==
  /\ board.screen # Nil /\ ride[board.screen].life = "over"
  /\ board' = [board EXCEPT !.screen = Nil, !.active = Nil]
  /\ UNCHANGED <<ride, link, sync, refresh, tap, owed, held>>

\* The answer to an end or a release: finishTrip, and back.  The driver may have
\* left the screen and have another trip by then; it is forgotten all the same,
\* and which screen a goBack of a closed screen leaves is up to the library.
FinishTrip ==
  /\ owed
  /\ \E seen \in {Nil, board.screen} : board' = [board EXCEPT !.screen = seen, !.active = Nil]
  /\ owed' = FALSE
  /\ UNCHANGED <<ride, link, sync, refresh, tap, held>>

\* The answer is lost: the driver is told so and stays.
LoseFinish ==
  /\ owed
  /\ owed' = FALSE
  /\ UNCHANGED <<ride, link, board, sync, refresh, tap, held>>

\* The app is killed and opened again: the store starts empty, the driver
\* offline, and requests under way are answered to nobody.
RestartApp ==
  /\ board' = FreshBoard /\ link' = Down
  /\ sync' = [s \in Syncs |-> IF s = CHOOSE x \in Syncs : TRUE
                                THEN [NoSync EXCEPT !.at = "sent"] ELSE NoSync]
  /\ refresh' = [r \in Refreshes |-> NoRefresh]
  /\ tap' = NoTap /\ owed' = FALSE
  /\ UNCHANGED <<ride, held>>

-----------------------------------------------------------------------------
MarketStep(t) ==
  \/ RequestRide(t) \/ OfferRide(t) \/ LapseOffer(t) \/ ExpireOverdueOffer(t)
  \/ (\E life \in {"others", "over"} : CloseRide(t, life))
  \/ OtherReleases(t) \/ EndTrip(t) \/ ReleaseTrip(t)

CallStep ==
  \/ \E s \in Syncs : ServeSync(s) \/ TakeSync(s) \/ LoseSync(s)
  \/ \E r \in Refreshes : ServeRefresh(r) \/ TakeRefresh(r) \/ LoseRefresh(r)
  \/ LoseTap \/ ServeAccept \/ TakeAccept \/ Reject

BoardStep ==
  \/ RefreshTimer \/ Foreground \/ Connect \/ Disconnect \/ GoOnline \/ GoOffline
  \/ ReceiveEvent \/ Countdown
  \/ (\E offer \in Trips \X (0 .. MaxOffers) : TapAccept(offer)) \/ TapReject
  \/ ResumeTrip \/ GoBack \/ TripCancelled \/ FinishTrip \/ LoseFinish \/ RestartApp

BoardNext == (\E t \in Trips : MarketStep(t)) \/ CallStep \/ BoardStep

BoardSpec == BoardInit /\ [][BoardNext]_boardVars

\* The server answers (weak fairness).  The driver looks at the app again and
\* again, and of the reads it makes again and again some succeed (strong
\* fairness).  Taps, events, losses, restarts and timers are owed to nobody.
BoardFairness ==
  /\ WF_boardVars(Foreground)
  /\ WF_boardVars(\E s \in Syncs : ServeSync(s)) /\ SF_boardVars(\E s \in Syncs : TakeSync(s))
  /\ WF_boardVars(\E r \in Refreshes : ServeRefresh(r)) /\ SF_boardVars(\E r \in Refreshes : TakeRefresh(r))

BoardFairSpec == BoardSpec /\ BoardFairness

-----------------------------------------------------------------------------
\* The phone opens, or offers to resume, only a trip the server has given this
\* driver: an answer that comes late, a ride taken by somebody else and the
\* trip named by DRIVER_BUSY never send a driver to a stranger's pickup.
OnlyOwnTrips == {board.screen, board.active} \subseteq held \cup {Nil}

\* The trips that are requested and offered.
Market == Trips \ Earlier

\* While the driver stays online, a request that is no longer open leaves the
\* list and one that is open gets into it, whatever order the refreshes and
\* events came in ("this poll exists purely to heal a missed event").
ListHeals ==
  \A t \in Market : \A open \in BOOLEAN :
    <>[](Online /\ (t \in Open) = open) => <>[]((t \in board.list) = open)

\* A driver who has a trip is shown it, although the answer to the accept and
\* the event about it may both be lost ("so nothing is lost when the app was
\* backgrounded, restarted, or missed a socket event").
TripNotLost == (Mine # {}) ~> (Mine = {} \/ board.active \in Mine)
=============================================================================
