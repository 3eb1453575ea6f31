# Benbax Go: TLA+ models, model checking and proofs

Benbax Go is a delivery and ride-hailing platform: one Express/Prisma API process
(`apps/api`) over PostgreSQL with a Socket.IO server in the same process, two mobile
apps (`apps/mobile-request` for passengers and senders, `apps/mobile-driver`), an admin
dashboard (`apps/admin`) and shared types (`packages/shared`). This directory models
what is concurrent in it. The ride side (requests, targeted offers, the sweeper,
claims, releases, cancellations, completion) is modelled first, because several drivers,
passengers, operators and timers act on the same three tables, and almost every handler
reads, awaits, and writes on the strength of what it read. The money side (settlement,
wallet top-ups, payouts) comes second, for the same reason; the parcel side, with its timers and its payment,
third. What the phones and the server know of each other (presence, sessions, a driver's board, a
passenger's trip screen and booking form, the position of the car, the onboarding of drivers) is modelled one conversation at a time.

## 1. Inventory

Paths are relative to `src/`; `modules/` stands for `apps/api/src/modules/`.

| Component | State it keeps | Operations | What makes it correct | Modelled |
|---|---|---|---|---|
| Ride store (`apps/api/prisma/schema.prisma`) | `RideTrip.status`, `RideAssignment` (status, offeredAt, expiresAt), `DriverProfile` (status, isOnline) | Prisma calls, interactive transactions | rows agree with each other | `RideStore` |
| Ride dispatch and sweeper (`modules/dispatch/dispatch.service.ts`) | in memory: `dispatchInFlight`, `lastDispatchAttempt`, the sweep in progress | `dispatchRide`, `expireOverdueRideOffers`, `redispatchWaitingRides`, `closeUnclaimedRideRequests` | one live offer per trip; no leaked in-flight mark; no ride waits for ever | `DispatchService` |
| Marketplace (`modules/ride-dispatch/*.ts`) | none of its own | `claimRide` (claim, accept), reject, assign, `releaseRide` | one driver per trip, one trip per driver | `RideRequests` |
| Ride lifecycle (`modules/rides/*.ts`) | none of its own | create, arrived, start, complete, PATCH status, cancel | finished rides stay finished; a completed assignment is settled | `RideRequests` |
| Driver availability (`modules/drivers/drivers.routes.ts`) | none of its own | online and offline | a driver on a trip is not offered another | `RideRequests` (the switch), `DriverPresence` (switch, flag and map) |
| Settlement and wallet (`modules/payments/*.ts`) | `Payment`, `Wallet`, `WalletTransaction`, `Payout` | `settleRideTrip`, Paystack webhook and verify, top-up, instant payout | every trip, top-up and payout moves money once; a balance is the sum of its ledger | `Wallets`; the payment of deliveries in `DeliveryService` |
| Delivery lifecycle and dispatch (`modules/deliveries`, `dispatch.routes.ts`, `modules/riders`) | `Delivery`, `DeliveryAssignment`, `RiderProfile`; timers in memory | create, `dispatchDelivery`, accept, reject, status, cancel | a delivery has one rider; a scheduled one is dispatched | `DeliveryService` |
| Presence (`apps/api/src/realtime`, `useNearbyClients.ts`, `useNearbyDriversRealtime.ts`) | in-memory registry of online drivers, the flag that caches `isOnline`, the sockets; a passenger's list | `driver:report`, disconnect, TTL sweep, the online switch and its beacon, `driver:watch` | whoever is on is on the map, whoever is off is not; a late disconnect does not remove a reconnected driver | `DriverPresence` |
| Authentication and sessions (`modules/auth`, driver app's `services/api.ts`, `store/authStore.ts`) | users, refresh tokens; on the phone tokens, user, onboarding mark, the shared refresh | sign-in, refresh, replay after a 401, hydrate, logout, block | an account acts with its own tokens; one refresh serves all; a blocked session ends | `Sessions` |
| Driver's board (`DispatchScreen.tsx`, `driverStore.ts`, `useOpenRideRequests.ts`, `RootNavigator.tsx`) | offer card, open list, trip to resume, open trip screen | socket events, `me/current`, `open-requests`, accept, reject, release, end | the list converges; no stranger's trip is opened; a trip the driver has is shown | `DriverBoard` |
| Passenger's trip screen (`TripTrackingScreen.tsx`) | status and driver shown, the cached answer | socket events, `GET /rides/:id` | the screen shows the ride as it is | `TripTracking` |
| Booking form (`HomeScreen.tsx`, `useCurrentLocation.ts`, `useReadablePlace.ts`) | text and coordinates of both ends, position, watch, lookups | typing, suggestions, map taps, device position, ordering | text and coordinates are of one place; one position watch, and one while in front | `BookingForm` |
| Driver onboarding and KYC (`OnboardingFlow.tsx`, `KycScreen.tsx`, `admin/documents.routes.ts`) | step, photos, the photo being taken (on disk); `DriverKycDocument`, `DriverProfile` | steps, camera, uploads, recovery after a kill; review by staff | nobody onboarded without a selfie, nobody verified unreviewed, no photo forgotten | `Verification` |
| Position reports (`useDriverLocation.ts`, `useRiderLocation.ts`, `modules/tracking`) | the watch and its in-flight mark; tracking points, the profile's position, `consecutiveDeviationCount` in `Delivery.metadata` | watching, posting, storing a point, judging it against the route | the position does not go back; reporting goes on after a failure; alerts count what happened | `PositionReports` |
| Matching and pricing (`dispatch.engine.ts`, `rides.service.ts`) | none | `haversineKm`, `estimateRide`, `estimateDelivery`, `rankRiders` | totals, ordering | no (section 8) |
| Notifications, geometry of routes, admin dashboards, other screens | none the protocol reads | | | no (section 8) |

### How the parts interact

* Creating a ride commits `REQUESTED` and *fires and forgets* `dispatchRide`; the reply is
  sent before dispatch ends. Rejecting, releasing, going offline and operator assignment
  start a dispatch too, and so does the sweeper every ten seconds. `dispatchInFlight`
  keeps two calls for one trip apart, within one process.
* `dispatchRide` reads the trip, then the offers, then the drivers, inserts an `OFFERED`
  assignment and writes `ASSIGNING`: five awaits, between which any other handler runs.
* An open ride is also on every driver's open list, so a driver need not have been offered
  a ride to claim it; targeted offers and the open list meet in `claimRide`.
* Completion is three writes one after the other (status, settlement, assignment), retried
  by the driver's app when it fails.
* Nothing in memory survives a restart; the rows do.
* The phones hear of a change over one socket, after the handler has written, and ask over
  REST when they connect, come to the foreground or hear something. Nothing orders a REST answer against the
  socket, and events of overlapping handlers leave in the order in which the handlers end.
* Android may kill an app while its camera is open; the photo is handed to the next process.

### Behaviours that are hard

Checks made before an await and relied on after it (nearly every handler); writes that
name an id only and no expected status (`createRideOffer`, reject, `cancelRide`,
`updateRideStatus`); a sweep that works through lists read earlier; three writes of
which any may fail; retried requests; restarts between two writes; thresholds (30
seconds of an offer, 2 minutes of cooldown, 30 minutes and 6 hours of the auto-close) at
which a ride changes hands between mechanisms or drops out of all of them. The hazards
of PROJECT.json list each at its line, with the properties that cover it.

## 2. Modules

```
RideStore         rows, queries and updates, time
  DispatchService   dispatchRide, sweeper
    RideRequests      HTTP handlers
      RideSystem        composition: Next, Spec, FairSpec, properties; refines RideContract
        RidePromises      a statement of the code's comments that does not hold
          MCRideSystem      model values and symmetry for TLC
        RideProofs        types, in-flight set and live offers, ownership,
                          settlement, busy drivers, refinement (TLAPS)
RideContract      abstract: what is promised of a ride

Wallets           settlement, top-ups, payouts, the payout desk
  MCWallets         model values and symmetry for TLC
  WalletProofs      types, once-only properties, balances (TLAPS)

DeliveryService   parcels: creation, dispatch, riders, cancellation, payment;
                  refines DeliveryContract
  MCDeliveryService model values and symmetry for TLC
  DeliveryProofs    types, payments, riders, cancellation, refinement (TLAPS)
DeliveryContract  abstract: what is promised of a parcel

DriverPresence    the online switch, the live registry, a passenger's list
  PresenceProofs    types, flag, registry and list  (TLAPS)
Sessions          sign-in, tokens and the shared refresh of the driver's app
  SessionProofs     types, tokens and posts         (TLAPS)
DriverBoard       what a driver's phone shows of the rides on offer
PositionReports   where the car is, and how often it was off its route
  DriverAppProofs   of both: own trips; alerts and order (TLAPS)
TripTracking      what a passenger's phone shows of the ride
BookingForm       what a passenger books, and the position it is booked from
  PassengerProofs   of both: the ride shown; watch and form (TLAPS)
Verification      onboarding, uploads, recovery, review
  VerificationProofs  types and the three safety properties (TLAPS)
  (each with its MC module)
```

* **RideStore**: `status`, `age`, `rows`, `dstat`, `online`, `settled` stand for the
  columns. Times are kept as the classes the code compares with. A trip's `age` is that
  of its pickup time: `future`, `due`, `stale` (past `OPEN_REQUEST_MAX_AGE_MS`),
  `ancient` (past `AUTO_CLOSE_LOOKBACK_MS`). A row's `clock` is 0 while it can be
  answered, 1 after `expiresAt`, 2 after the re-offer cooldown. Assignments lapse in the
  order they were offered, because all get the same two durations. `tainted` is a history
  variable (section 4). Of `DriverStatus`, `PENDING_KYC` counts as `OFFLINE` (the handlers ask for `ACTIVE` and `ON_TRIP` only), and
  `SUSPENDED` is left out with the refusal that tests it (`ride-marketplace.ts:261-263`), because nothing in the repository writes it.
* **DispatchService**: `disp[t][c]` is the call of `dispatchRide(t)` started by caller `c`
  (a request or the sweeper), at one of its awaits: `ReadTrip`, `ReadOffers`,
  `PickDriver`, `CreateOffer`, `MarkAssigning`, `RecordEvent`. The choice of a driver
  depends on phone positions and socket presence, so any available driver the history
  allows may be chosen, or none. The sweeper is one process with three passes
  (`SweepBegin`/`SweepExpire`, `SweepReadWaiting`/`SweepDispatch`,
  `SweepReadStale`/`SweepClose`/`SweepCloseRows`).
* **RideRequests**: `req[p]` is what a request in service keeps from its reads. Each
  handler is a read action and write actions, with exactly the condition the write's
  `where` has: `ClaimTx` tests that the trip is open, `ReleaseTx` that it is releasable,
  `RejectWrite`, `CancelTx`, `WriteStatus` and `FinishRow` test nothing. `ToggleRead`, `ToggleWrite` are the
  availability PATCH, which the switch sends and, as a beacon, the phone of a driver who is online on its GPS fixes; in `Ops` the beacon
  has a name of its own, as it is what happens in mid-trip.
* **RideSystem** adds the passage of time, failing queries (`Faults`), restarts (`Crash`),
  the fairness, and the properties.

* **Wallets** stands beside them. `balance` is `Wallet.balance`; the ledger is counted
  rather than listed: `posted[t]` is how often the rows `TRIP-SETTLE-t` were written,
  `payout[k].refunds` how often `PAYOUT-k-REVERSAL` was. A top-up's row is written when it is created and stands for money once its
  metadata say `success`; that it was credited leaves no row, so `credited[k]` (history) counts it, and `stranded` (history) holds the
  top-ups whose request was lost between the two. `job[a]` is a request at one of its awaits. The requests are the
  completion of a ride by its driver or by staff (`SettleRead`, `SettlePost`,
  `SettleFinish`), the top-up (`TopupCreate`, `TopupCheckout`, `TopupKeep`), its confirmation by webhook
  or by the customer (`VerifyRead`, `VerifyAsk`, `VerifyMark`, `VerifyCredit`), the instant payout
  (`PayoutRead`, `PayoutReserve`, `PayoutTransfer`, `PayoutRecord`, `PayoutRefund`) and staff's
  decision on it (`DeskRead`, `DeskMarkPaid`, `DeskMarkFailed`). A ride's fare and the
  driver's share are the same for all rides; who drives and how it is paid is arbitrary.
  `RideRequests` treats a settlement as one step and `Wallets` a ride as its accepted
  assignment: the two meet in `CompletedIsSettled` and `SettledOnce`, which say
  the same of both sides.

* **DeliveryService** is the parcel side. `status`, `payment`, `row`, `rstat`, `online` are the
  columns; `charge` is Paystack's side of a reference (external: `CustomerPays`). `job[a]` is a
  request at one of its awaits, and `job[d]` the dispatch of delivery `d` that its creation
  fired and forgot: waiting for its `setTimeout` (`timer`), at an await of `dispatchDelivery`, or
  `done`. The requests are `Create`/`CreateReply`, an operator's `Assign` (which shares `PickRider`,
  `InsertRow`, `MarkAssigning` with the dispatch), `Accept`, `Reject`, `SetAvailability` (one Prisma
  call each), `Patch`/`Collect`, `CancelRead`/`CancelTx`, `InitializeRead`/`Upsert`/`Checkout`/`KeepReference`,
  and `ConfirmRead`/`ConfirmAsk`/`ConfirmMark` for verifications and webhooks. `Patch` names any of
  the statuses in `Patched`, since `updateDeliveryStatus` compares nothing.

* **RideContract** is the abstract side of the rides: `ride[t]` is where a trip stands and with whom, and
  its seven actions (`Request`, `Take`, `GiveBack`, `Start`, `Complete`, `CallOff`, `Void`) are all that
  may happen to it. `RideSystem` implements it under the mapping `standing`: the stage is
  read off `status`, the drivers off the accepted and completed assignments, and a trip in `tainted` is `void`. The contract
  knows no offers, reads, sweeps or failures; that a step of theirs is a contract step or a stutter is
  the property `KeepsContract`.

* **DeliveryContract** is the abstract side of the parcels: `order[d]` is how far an order is (`none`, `open`, `gone`,
  `calledOff`), who may carry it, what it owes and whether the money was received. `DeliveryService` implements it
  under its own `standing`: the stage is read off `status` (`open` is what `CANCELLABLE_STATUSES` lists), the riders off the offered and
  accepted rows, the bill off the payment, `received` off `handed` and the charges; a delivery in `disturbed` is `void`.
  The contract promises less than that of the rides, since staff may assign anything again and `PATCH` any status. It knows no
  requests, references, timers or restarts.

* **DriverPresence** is one driver and one watching passenger. `row` is `isOnline`, `flag` the cached
  availability, `entry` the registry's (fresh, stale or absent), `sock[c]` a connection with the profile
  read it has under way, `call[k]` a `PATCH /drivers/me/availability`, `app` the switch and connection of
  the phone, `view` the passenger's list and the events on their way. What the phone emits is handled at once,
  and the disconnect handler is one step.

* **Sessions** is one phone on which accounts follow each other. `store` is what survives the process,
  `mem` the auth store, `sign` a sign-in half way, `refresh` the exchange all requests share, `req[q]` a request
  with the token it was sent with, and `crossed` (history) whether a request or refresh outlived a sign-in.
  Reads and writes of the phone's storage are merged with the step they belong to; session rows and the pause after
  a 429 are left out.

* **DriverBoard**: `ride[t]` is the server's side of a trip for this driver (handlers are one step),
  `link` the socket and its queue, `board` what the store and screens hold, `sync`, `refresh` and `tap` the
  REST calls under way with the answer they carry, `owed` a late answer to a release or an end, `held` (history)
  the trips the server has ever given this driver. The accept's assigned and closed events are merged;
  there is one tap at a time; a lost request is a lost answer; a rejection is served and answered in one step;
  `over` does not tell an ended from a cancelled trip; the list hidden before the first going online is left out.

* **TripTracking**: `trip` is what `GET /rides/:id` would answer, `job[h]` a handler between its write and
  its events, `screen` what is shown, `data` and `get` react-query's cache and fetch. `AskTrip` is `refetch()`: it
  calls off a fetch if there is data to keep and joins it if there is none. An answer equal to the one before
  does not run the effect again (structural sharing): `TakeTrip`. Four history variables say what the properties set apart
  (section 4). Only the dispatch writes on an outdated read here; the rest of what writes do to each other is
  `RideSystem`'s.

* **BookingForm**: `pick` and `drop` are the two ends (text, coordinates, whether the pickup is "wherever I am"), `lookup[l]` a
  geocoding under way, `order` what is being sent. `start[s]` is a run of `start()` at one of its two awaits, those of a left screen
  included; `watch` is `watchRef` beside the subscriptions really alive; `fix` and `named` are what the two hooks return: where the device is, and the place
  there is a name of, which stays that of an earlier fix until `NameFix` (`useReadablePlace.ts:72`, 88). A text is a place it names, or one of
  `none`, `current`, `finding`, `pin`. `behind` (history) marks a destination set to the present coordinates under an earlier name (`DropHere`). A geocoder may read any text as any place (`Found`). Panel, quotes and prices are left out,
  and the `pickup` of the order, whose coordinates are the form's or the device's (section 5).

* **Verification**: `ui`, `camera`, `busy`, `recov` are the flow's state in memory, `disk` and `native` what a
  kill leaves, `up[u]` an upload (signing, image server and `POST /drivers/me/kyc` in one), `kind` and `verdict` the
  rows of `DriverKycDocument`, `profile` the driver, `rev[r]` a review at one of its awaits. An upload that was
  killed past the flow is given up; progress is saved in the step that changes it.

* **PositionReports**: `visit[v]` is a visit of the screen of an active trip or delivery (is it open, its watch, its `inFlight`),
  `post[p]` a report, from the phone through each await of its handler to its answer, `count` the deviation count in the delivery's metadata.
  `earned` (history) counts the points off the route since a point on it left no row; `carried` those of rows that were ended while another
  judgement had the count in hand, and may write it back; `muddled` says whether judgements overlapped or failed.
  The two hooks differ in one thing, which `Move` and `MoveParcel` show: only the driver's waits for the answer. `MoveLive` is every other
  writer of a driver's position: the live report of the trip's screen (`ActiveTripScreen.tsx:225-242`, stored in `socket.ts:362-371`) and the
  beacon of the screen below it (`drivers.routes.ts:177-183`). Which points are off the
  route or too fast is left open. A position is kept by its order only: `before` are the reports, of whoever, that were sent earlier and
  are not stored yet, `late` says whose later position was stored first, one of the same visit (`own`) or another.

Granularity: the process is single-threaded, so code between two awaits is atomic. A Prisma
call is one step. So is an interactive transaction that starts by locking the row it
decides on (claim, release) or only writes (cancel, payout). `settleRideTrip` is an interactive
transaction that reads without locking, at READ COMMITTED: its reads are one step and its
writes another. Row-lock deadlocks between
transactions are below that; PostgreSQL aborts one of them, which is `RequestFails`.

## 3. Runs

The ride runs use `MCRideSystem`, the money runs `MCWallets`, the parcel runs `MCDeliveryService`. `Ops` names the kinds of operations a run lets happen, so
that each question gets the interleavings it is about at a size TLC exhausts. Deadlock
checking is off in the ride, money and parcel runs and in `verification`: with all assignments, payouts or rows used up and
nobody obliged to act, the system may rest. In the other six the phones go on for ever, and it is on.

| Run | Instance | Checks | Shows |
|---|---|---|---|
| `rides_ownership` | 1 trip, 2 drivers, 2 requests, 2 assignments; create, claim, reject, release, cancel, progress, forced status, beacon, assign, faults, restarts | `OneLiveOffer`, `InFlightTracksCalls`, `SoleDriver`, `CompletedIsSettled`, `BusyDriverHasRide` | requests of two drivers, staff and the passenger against one trip, beside the drivers' beacons: never two live offers, a leaked or doubled call, or two drivers, and nobody left `ON_TRIP` but by an outdated beacon |
| `rides_waiting` | 1 trip, 1 driver, 1 request, 2 assignments; create, schedule, claim, reject, release, cancel, progress, online switch, sweep, time; no faults, `FairSpec` | `RideNotLeftWaiting`, `KeepsContract` | a waiting ride ends up taken, cancelled or closed; every step is one of `RideContract`'s or a stutter |
| `promise_one_driver` | 1 trip, 2 drivers, 2 requests, 3 assignments | `PassengerHasOneDriver` | violated, section 5 |
| `wallets` | 2 users, 1 ride (any method), 1 top-up, 1 payout, 2 amounts, 2 requests, faults, restarts | `BalanceIsLedger`, `SettledOnce`, `TopupCreditedOnce`, `RefundedIffFailed` | balances and ledger agree in every interleaving, but for top-ups between mark and credit, left there, or confirmed twice at a time; money moves once unless two requests overlap |
| `deliveries` | 1 delivery with either 1 rider and 2 assignments, or 2 Paystack references and 3 methods; 2 requests, faults, restarts, `FairSpec` | `BusyRiderHasJob`, `CancelClosesRows`, `DispatchIsTried`, `PaidIsEarned`, `KeepsDeliveryContract` | every dispatch happens unless a failure or restart loses it; cancelling closes what was open; retried, repeated and outdated confirmations never mark an unpaid delivery paid; every step is one of `DeliveryContract`'s or a stutter |
| `driver_presence` | 1 driver on 2 connections, 1 availability request at a time, 1 passenger, 2 events on their way | `ListedIsFlagged`, `ReporterIsListed`, `ViewAgrees`, `OnlineIsListed`, `OfflineIsGone` | switch, flag, registry and a passenger's list agree over reconnects, late disconnects, kills, restarts |
| `sessions` | 2 accounts on 1 phone, 1 GET, 1 POST | `TokensMatchUser`, `PostsOnce`, `ExpiredIsRenewed`, `DeadSessionEnds` | unless something outlives a sign-in, nobody acts with another's tokens; an expired token is renewed or the session ends; blocked sessions end |
| `driver_board` | 1 ride on the market, 1 trip from before, 1 call of each kind, 1 event on its way | `OnlyOwnTrips`, `ListHeals`, `TripNotLost` | the board follows the server through lost and overtaken answers |
| `trip_tracking` | 1 driver, 2 handlers at a time, 2 changes of the ride, 2 events on their way, 1 forced status | `RideIsShown`, `EndIsShown` | the passenger's screen shows the ride as it is once all is quiet, and in the end that it is over |
| `booking_form` | 2 places, 2 runs of `start()`, 1 lookup at a time, `FairSpec` | `FormMatches`, `OneWatcher`, `FollowsInFront` | late answers, typing, picking and tapping never part an end's name from its coordinates, only "use my current location" before that has a name of its own; leaving and returning keeps one watch |
| `position_reports` | 2 visits of the screen, 2 reports at a time, live reports, rows of up to 2 points, `FairSpec` | `AlertsAreEarned`, `InOrder`, `ReportsGoOn` | slow, lost, failing and overlapping reports never invent a deviation, nor count one twice; a report a visit awaits is not overtaken by a later one of its own; reporting goes on |
| `verification` | 1 optional paper besides selfie and vehicle photo, 2 rows, 2 reviewers, 1 upload and that of a recovered photo | `ReviewConcludes`, `VerifiedIsReviewed`, `SelfieOnFile`, `PhotoComesBack` | kills, lost uploads and overlapping reviews leave the file of the driver who onboards on the phone in order |

Bounds: `MaxRows` (assignments ever created; when used up the insert counts as a failed
query), `Reqs` (requests in service, which includes a dispatch they fired), `Trips`,
`Drivers`, `Forced` (statuses staff may force). Two actors suffice for a race on one row, and
two assignments for an offer and its replacement, or for two drivers of one trip. A
driver is reused (a row is re-accepted after a release, as the code does), so long histories need
no further rows. Drivers start offline, or online as `OnlineAtStart` says. The actions
of all handlers fire in at least one run.

In `MCWallets`, one subject of each kind and two requests give every pair of racing
requests on one subject, and of requests on one wallet through different subjects; `MaxPosted`
(2) lets a ride be settled, and a top-up credited, once more than it should be.

A behaviour of the parcel run is about one half of the parcel side, chosen at the start (`about` in `MCDeliveryService`): the riders, without
payments, or the payments, without riders. The two halves meet only in `Patch`, which collects the cash; it is in both. Two assignments give an
offer and an operator's second one; two references a checkout that was started again. When the
assignments are used up, the insert counts as a failed query.

The seven conversations between a phone and the server are checked with one of each party; what makes them
hard is how its own messages, timers and restarts cross, and for that two connections, two accounts, two handlers or one call of
each kind are enough. `MaxQueue` breaks a connection on which more events wait, as any connection may break at any time. `MaxWrites` counts the changes of the ride a passenger watches: two make every pair of
crossing events (claim and outdated offer, claim and release, start and end). With three, `RideIsShown`
holds on 4.9 million states, which is too long for the liveness property.
In `booking_form` two places suffice to tell a name from coordinates of another, and two runs of `start()` for one that a left screen
has forgotten beside a new one. A screen is left when no lookup is under way, the form rests while an order is being sent, and fixes asked
for together count as one. In `position_reports`, two reports
overtake each other and overlap in every way, and two visits make a left watch beside a new one; `MaxRow` is how far a row of deviations is told
apart, beyond which it stays at the bound. In `verification`, `EarlyReviews` is off (until somebody has filed something else, a review changes nothing the phone sees), and
`Later` is the paper.

Symmetry over drivers and requests, or over users and requests, is used for the safety
runs only.

### Fairness

`FairSpec` is weakly fair to the sweeper's steps, to each dispatch call's steps and to the
passage of time: the interval of `startRideDispatchSweeper` keeps firing, settled queries
resume their handlers, and clocks advance. Drivers, passengers and operators owe
nothing, not even the end of a request they have begun. Faults and restarts are left out
of the liveness run: the code gives no bound on them, and with a query that fails in
every sweep the property is false: the three passes of a sweep share one `catch` (`dispatch.service.ts:357`), so that
a row that always fails starves those behind it. `GrowsOld`
keeps a trip from crossing the whole 30-minutes-to-6-hours window between two sweeps
while the process is up; a restart may cross it (`Crash`).

The `FairSpec` of `DeliveryService` is fair to the reply of a creation, to the timer and to the steps of
the dispatch it starts, and to nothing else; failures and restarts may happen at any time,
and `DispatchIsTried` names what they lose.

The specifications of the phones rest on timers and retries, on a network that gets something through once in a while, and three of them on a
user who goes on using the app: one who keeps a polling screen open (`Sessions`), looks at the app again and again (`DriverBoard`, so `ListHeals` and
`TripNotLost`), or drives (`PositionReports`). No tap and no decision is owed.

* `DriverPresence`: timers fire, and the phone keeps getting GPS fixes, each of which starts a beacon call (weak fairness); a query
  or call that is made again and again succeeds once in a while (strong fairness).
* `Sessions`: requests are answered or time out, promises resolve, tokens expire; a screen keeps asking, so
  that the GET is called again and again (strong fairness). The dispatch screen does, as long as it is open (`DispatchScreen.tsx:545`, 554).
* `DriverBoard`: the server answers; the driver looks at the app again and again (`Foreground`), and of the reads this
  starts some succeed (strong fairness). Without a driver who looks, nothing heals but at a reconnect.
* `TripTracking`: the phone reconnects (socket.io retries for ever, as long as the session can be refreshed) and reads its events;
  the server answers; reconnects are at least a second apart, so that of the GETs they start some answer is
  taken (strong fairness). Handlers that have written go on; a failing one may stop instead.
* `BookingForm`: the device answers a request for a position or a watch, one way or another.
* `PositionReports`: the device answers, requests are answered or time out, handlers end; a driver who is watched keeps moving (strong
  fairness, since the bound on the reports under way may be used up by those of a left screen).
* `Verification`: what the app awaits on its own disk is done, and the upload of a recovered photo ends somehow.

## 4. Properties

`tainted` holds the trips that have suffered a write made on the strength of a read that
no longer held (an `ASSIGNING` written over a claim, a reject of a row accepted since, a
cancel of a ride claimed or started since, a release of a ride released and claimed since, a
claim by a driver who got another ride since the busy check) and those whose status staff have forced. It also holds
the drivers whom an availability request has put back `ON_TRIP` that had read it before their ride was over, until the next one writes
something else. The ownership properties speak of the other trips and drivers. They thus say two things: the enumerated
writes are the *only* ways in which ownership can be lost, and everything else (claim
against claim, claim against auto-close, claim against reject, failing completions,
retries) is safe. What the tainted trips can suffer is section 5.

* `OneLiveOffer`, `InFlightTracksCalls`: the in-memory set, which is checked and filled before the
  first await, is what makes the check for a live offer and the insert safe although they
  are two awaits apart. After a restart it is empty and so are the calls.
* `SoleDriver`, `CompletedIsSettled`, `BusyDriverHasRide`: rows, trip,
  driver and ledger agree in every intermediate state. The beacon is the one way for a driver to stay `ON_TRIP` without a ride
  (section 5); claims, releases, cancellations and completions, failing or interrupted anywhere, are not.
* `KeepsContract`: a finished ride is not revived, another driver comes in only after a release, a driver
  has one ride.
* `RideNotLeftWaiting`: a waiting ride is not
  forgotten. Rides which return to the pool more than six hours after their pickup time are
  the exception in the code, too: no pass of the sweeper looks at them.

In `Wallets` the history variable is `overlapped`: the rides, top-ups and payouts on which two
requests were past their checks together. The others must be handled once, whatever
fails, restarts or is delivered again.

* `BalanceIsLedger`: the updates are increments and decrements which the database computes, so that none is lost. Settlements,
  withdrawals and reversals are in one transaction with their row, also when a ride is settled twice. A top-up is not: its row
  is marked in one statement and credited in the next, so the property says nothing of a user who has a top-up between the two, one that a
  failure or restart left there (`stranded`), or one that was confirmed twice at a time (`overlapped`). Without an unsettled top-up, a double or
  missing credit would show.
* `SettledOnce`, `TopupCreditedOnce`, `RefundedIffFailed`: retries in sequence are safe
  because each handler first looks for what the previous one has left (the ledger row, the
  metadata, the status), also after a failure or restart at any await.

In `DeliveryService`, `disturbed` holds the deliveries on which a request began, or a rider answered,
while another request or dispatch was past its checks; `handed` those that were reported
delivered; `lost` those whose dispatch a failed query or a restart has lost.

* `DispatchIsTried`: a delivery, scheduled or not, is dispatched; `lost` is the only exception, and
  nothing but an operator looks at those again.
* `CancelClosesRows`, `BusyRiderHasJob`: what a cancellation takes away from the riders is closed and
  releases them. A row rejected after it was accepted is allowed for, as nothing resets the
  rider then.
* `PaidIsEarned` makes no exception.
* `KeepsDeliveryContract`: no handler names the status it expects when it writes, so what one has read may be over by then; as long as
  handlers follow each other on a delivery, one that is under way is not cancelled, one that is cancelled keeps
  no rider, and one that is paid is not unpaid by a retry, a late confirmation or a new checkout.

`DriverPresence` has no exceptions for overlaps: what is claimed of flag, registry and list holds in every state, and the two
liveness properties under a switch that stays (`SwitchedOn`, `SwitchedOff` also speak of the calls under way).

In `Sessions`, `crossed` is set when a request or refresh of an earlier sign-in is answered after the
next one; `TokensMatchUser` and `DeadSessionEnds` speak of the other runs of the phone. `PostsOnce` makes no exception. `ExpiredIsRenewed`
needs that the promise of an exchange that is over is dropped (`refreshPromise`): a leftover promise releases whoever waits next with the old tokens, which
are refused again.

In `DriverBoard`, `held` is what "own trip" means in `OnlyOwnTrips`. `ListHeals` is a liveness property in two halves (what is
closed leaves the list, what is open gets into it), since a snapshot may be overtaken at any time.

In `TripTracking` three history variables name what no code mends, and the properties hold of everything else: `unsaid` (written
by a request that tells nobody, or by a handler that failed before it spoke, and not read since), `missed` (the last GET failed) and
`overtaken` (an event came in while the first GET was being answered: it was joined instead of started again). A fourth, `doubt`,
is set when an event shows what the ride no longer is, and cleared by the next answer that differs from the one before. `RideIsShown`
says that this is the only way for the status, or the driver, to be wrong when all is quiet.

In `BookingForm`, `FormMatches` speaks of both ends and of the order: whoever sets a text sets or clears the coordinates in the same step, so a late
answer may win but not half of it. The one exception is a destination set to where the device is while the name is that of an earlier fix (`behind`, section 5).
A pickup that follows the device has no coordinates of its own; it reads the latest name there is. `OneWatcher` holds although a run of `start()` outlives the screen, and with it the latch. `FollowsInFront` speaks of a screen that stays in front, and excepts only a device
that refused (`gaveUp`).

In `PositionReports`, `AlertsAreEarned` is in two parts. No alert counts more points than were off the route since the row was last ended, whatever overlaps or fails,
except that a judgement which had the count in hand then may bring the ended row back: its points are `carried`, and none counts twice.
And none is forgotten unless judgements overlapped or one failed half way (`muddled`). `InOrder` says what the mark of a visit is for: no report it awaits is overtaken by
a later one of its own. It says nothing of other visits, of live reports, or of a report the phone has given up on (section 5). `InOrder` and `ReportsGoOn` are the two sides of the in-flight mark:
it is held until the answer, and it is let go however the request ends.

In `Verification`, `halted` is set when a review fails half way, and `crossed` holds the rows filed between the count
and the write of an approval. `SelfieOnFile` is about the one driver who onboards on the phone: its mark is the phone's (section 5).

Every property is also checked against a mutated definition (the definitions whose comment
begins with "Mutant", each placed before the one it replaces), which it must reject.

## 5. Where the code departs from its comments

One run ends in a violation, because it takes an interleaving that is easy to miss:

* `createRideOffer` writes `ASSIGNING` by id (`dispatch.service.ts:199`): a trip claimed
  between the read and the write is open again, and a second driver can claim it
  (`ride-marketplace.ts:16-19` promises the contrary). Run `promise_one_driver`.

The others were met while modelling. Rides and money:

* `releaseRide` tests the trip's status but not who holds it (`ride-release.service.ts:142`): a
  duplicate release re-opens a trip that was claimed again (`ride-release.service.ts:23-26`).
* Offline and online again in mid-trip makes the driver `ACTIVE` (`drivers.routes.ts:175`,
  against 169-170). And the availability request reads the status, decides, and writes it back (163-182): when the ride ends in between, which a beacon
  on a GPS fix may well meet, the driver is `ON_TRIP` again, without a ride, until he goes offline or ends another one.
* `settleRideTrip` looks for the ledger row and writes it without a lock or a unique index
  (`settlement.ts:79`): two overlapping completions settle twice (against 53).
* `instant-payout` compares the balance before the transaction that debits it
  (`payments.routes.ts:391`): two overlapping withdrawals overdraw the wallet.
* `cancelRide` checks, then updates by id (`rides.service.ts:320`, against 302): a started
  trip is cancelled.
* A ride released more than 30 minutes after its pickup time gets status `REQUESTED`
  (`ride-release.service.ts:143`) but is outside the open pool that lines 13-15 speak of.
* A decline that races with an operator's reassignment (`ride-dispatch.routes.ts:193`) does not
  keep the driver from being offered the ride again (`dispatch.service.ts:27-28`).
* Two concurrent claims of different trips by one driver both pass the busy check made
  before the transaction (`ride-marketplace.ts:265`, 270).
* The `ASSIGNING` write may also follow a cancellation (`dispatch.service.ts:199`): the
  cancelled ride is offered and listed again (`rides.routes.ts:192`).
* `markPaystackWalletTopup` writes the metadata and the balance in two statements
  (`payments.routes.ts:110`, 120): a webhook and a verification that overlap credit the top-up
  twice, and a restart between the two leaves it marked `success` and never credited. The ledger shows neither: the row is written when
  the top-up is created (291), and the credit writes none.
* `mark-paid` and `mark-failed` update by id (`admin.routes.ts:107`, 148): overlapping
  decisions make a refunded payout `PAID`, or refund it twice (125 says "Cannot fail an
  already-paid payout").
* The update that records a transfer is inside the `try` whose `catch` refunds
  (`payments.routes.ts:440`): when it fails, the driver has the money twice.
* The timer of a scheduled delivery lives in memory (`deliveries.routes.ts:84`): a restart loses it,
  and it fires after 2^31 - 1 ms (almost 25 days) at the latest, even when the delivery is scheduled
  for later (line 93).
* A dispatch that finds no rider (`dispatch.service.ts:385`), and an offer that is rejected or runs out
  (`expiresAt` is never read for deliveries), is not followed by another one.
* Accepting tests neither the assignment nor the delivery (`dispatch.routes.ts:106`): an offer that a
  cancellation has expired can be accepted, which makes the cancelled delivery `ASSIGNED` again.
* No handler ends `ON_DELIVERY` when a delivery is `DELIVERED` (`deliveries.service.ts:206`); the
  rider has to go offline and online.
* A verification that Paystack answered earlier overwrites `PAID` with `FAILED`
  (`payments.routes.ts:86`), and a charge of a reference that was replaced since
  (`payments.routes.ts:190`) is never recorded as paid.

The driver's phone:

* A beacon sent before Go offline and served after it puts the driver back on (`DispatchScreen.tsx:261`).
* The onboarding mark is kept per phone, not per account (`authStore.ts:92`): the next driver who signs in is
  taken past onboarding.
* `rejectOffer` clears whatever card is shown when its answer comes, which may be that of a newer offer; and a late answer to a release
  or an end forgets a trip accepted since (`ActiveTripScreen.tsx:430`), until the next foreground.

The passenger's phone:

* An event told late shows a status the ride has left, and the refetch it starts does not correct it: the answer equals the
  cached one, so the effect does not run (`TripTrackingScreen.tsx:131`). The offer of a dispatch that
  overlapped a claim is such an event, and so is "no drivers online" (`dispatch.service.ts:127`).
* `refetch()` joins the first GET: an event during it can be overwritten by its older answer.
* `PATCH /rides/:id/status` tells nobody (`rides.routes.ts:174`), nor does a handler that fails after
  its write (`ride-marketplace.ts:350-358`): the screen learns at the next reconnect or event. A GET that
  fails twice is not made again before that.
* Nothing leads back to a ride's screen once it is closed (`RootNavigator.tsx:176`): a passenger who goes back cannot cancel.

The booking form (`HomeScreen.tsx`, `useCurrentLocation.ts`):

* The button stays enabled while the destination is looked up (`HomeScreen.tsx:767`), so that a second tap
  books twice; a late quote overwrites a newer one, `cancelled` being tested only before it is asked for (745).
* A typed pickup has no coordinates until it is submitted: booked before that, it goes with the device's position, or the fallback's
  (`HomeScreen.tsx:1470`, against 356-357).
* The destination "here" takes whatever the label is (`HomeScreen.tsx:552`), even "Finding your location…", which the pickup is kept
  from (585).
* The name of the detected place is kept while the next one is looked up, or when that fails (`useReadablePlace.ts:72`, 88): "use my current location" for
  the destination takes it together with the new coordinates (`HomeScreen.tsx:552-554`), so that the driver reads one place and is sent to another.
* A lookup answered late overwrites what was typed or picked since (`HomeScreen.tsx:443`).
* A return to the app whose fix fails wipes the coordinates known until then (`useCurrentLocation.ts:187`, and through `applyFix` 232), and a `start()` that got no
  fix or no watch is not tried again before the next return.
* A watch that is granted after the app went to the background stays on (`useCurrentLocation.ts:218`, against 228), until the app has been back and left once more.

Position reports:

* A point is stamped by the server when its row is made (`capturedAt @default(now())`, `schema.prisma:500`), so that `STALE_LOCATION` is
  never raised (`routeSafety.ts:117`).
* Judgements of one delivery that overlap lose deviations, or bring an ended row back (`routeSafety.ts:136`, written at 166); one that fails
  between its two writes has raised a `SuspiciousActivity` that the count forgets.
* `useRiderLocation` has no in-flight mark (37, unlike `useDriverLocation.ts:49-51`): a rider's position may go back.
* Both hooks keep the watch when the screen is left before it is granted (`useRiderLocation.ts:55`, `useDriverLocation.ts:104`: the
  subscription is still null); it reports until the app is killed. A report the phone has given up on may be stored after later ones.
* The in-flight mark is one visit's (`useDriverLocation.ts:51`): a report of a left screen may be stored after one of the next, and any report after a
  later `driver:report` (`ActiveTripScreen.tsx:225-242`, `socket.ts:362-371`) or beacon (`drivers.routes.ts:177-183`), which writes the same columns. Then
  the car is put back to where it was until the next report.

The parcel screens of the driver's app:

* They post to routes the API does not have: `/deliveries/:id/complete` (`ActiveDeliveryScreen.tsx:212`, against `deliveries.routes.ts:59-123`) and
  `/riders/me/earning-mode` (`DeliveryDispatchScreen.tsx:169`, against `riders.routes.ts:34-77`): a delivery cannot be completed
  from the phone. `/drivers/me/earning-mode` (`DispatchScreen.tsx:668`) has no route either.
* An offer of a delivery that was cancelled or ran out stays on the card until it is answered: no event clears it but that of an acceptance
  (`RootNavigator.tsx:251`), and nothing asks for it again as `me/current` does for rides.

Onboarding and review:

* The first upload creates the vehicle, with type `Car` and no plate, so that a restart in mid-flow counts as
  onboarded (`OnboardingFlow.tsx:261`, against 91-93 and 298); the remaining photos and the plate are lost.
* Vehicle details entered after the selfie are sent only with another upload (556-562); `handleComplete` ends the flow
  even when its upload fails (578-590).
* Clearing the mark of a recovered photo also clears that of a photo begun since (285); a recovered upload may tick
  the selfie although a newer one failed (566).
* `KycScreen` uploads overwrite the vehicle with type `Car` and no plate (`KycScreen.tsx:267`).
* Rejecting one document and then verifying the other makes the profile `VERIFIED`, since only `SUBMITTED`
  rows are counted (`documents.routes.ts:132`, against 86-87). A review that fails half way leaves the profile undecided,
  and the page offers no further one.
* Approval writes `ACTIVE` over `ON_TRIP` and `OFFLINE` (`documents.routes.ts:142`), and going online makes an
  unverified driver `ACTIVE` (`drivers.routes.ts:175`).

## 6. Proofs

TLAPS proves, for every set of trips, drivers and requests, every bound and every `Ops`
(assumptions: `NoneAssumption`, `IdsAssumption`, `MaxRowsAssumption`, `OnlineAssumption`, `SweeperAssumption`,
`OpsAssumption`, `ForcedAssumption`, which TLC evaluates in each run):

* `TypeCorrect == Spec => []TypeOK` (RideProofs), one lemma per component's steps. `TypeOK` is
  more than typing: an assignment always has a trip and a driver, and a call about
  to insert an offer has a driver.
* `CallsTracked == Spec => []InFlightTracksCalls` and `OneOffer == Spec => []OneLiveOffer`.
  `OneLiveOffer` is not inductive: a call past its look at the offers could
  insert a second one. The invariant `OfferInv` adds that a call at `drivers` or `create`
  belongs to a trip without a live offer, and that no trip has two calls
  (`InFlightTracksCalls`). No step but `CreateOffer` adds a live offer (lemmas `RestateShrinks`,
  `RowsUnchanged`), and the only call of its trip ends, or leaves `create`, in that step; no
  step moves a call to `drivers` but `ReadOffers`, which has found no live offer.

* `SoleDriverHolds == Spec => []SoleDriver` and `ContractKept == Spec => KeepsContract`. `SoleDriver` is
  inductive with `Remembered`: what a request has in hand (`InHand`) is an assignment of its trip, of a completed trip while it
  settles it, unless the trip is tainted. The lemma `OthersWait` frames a step to the trip it is about, `OneMoves` classifies what it
  does to it, and `ContractStep` finds the contract action: the classification has one lemma per handler, and
  it is here that a write on an outdated read is seen to taint.
* `OneRidePerDriver == Spec => []Contract!OneRideEach`: what `RideContract` promises by a two-line invariant (lemma `OneRideHolds`)
  is carried over to the ride system. The claim's transaction does not repeat the busy check of `ClaimRead`, so its trip is `tainted`, which is `void` to the
  contract, when the driver's rides are no longer what the check saw; in all other claims the driver had none when it was made, and has none when it is
  written. Without the check the theorem fails: such a claim relies on no read that changed.
* `CompletedAreSettled == Spec => []CompletedIsSettled`, inductive with `SoleDriver`, `Remembered` and `FinishSettled` (the row
  a request is about to close is of a settled trip).
* `BusyDriversHaveRides == Spec => []BusyDriverHasRide`, for every `Ops`, the switch and the beacon included. `WhoGetsBusy` says that only
  a claim makes a driver `ON_TRIP`, together with the row and the trip that account for it, or a switch whose driver is `tainted` unless busy already
  (`ToggleMovesNone`: it moves no trip; `ClearedNotBusy`: whom a switch takes out of `tainted` is not `ON_TRIP`). `BusyStays` says that whoever
  takes row or trip away also frees the driver or leaves the trip in `tainted`. It rests on `SoleDriver`, `Remembered`,
  `CompletedIsSettled`, `FinishSettled` and `Authorized` (a claim or release in hand is of a row of its own driver).

For the wallets (assumptions `NoneAssumption`, `TablesAssumption`, `FiniteAssumption`, `MoneyAssumption`,
`MaxPostedAssumption` of `Wallets`), in WalletProofs:

* `WalletsTyped == Spec => []TypeOK`, from `TypeInv`, which adds that every request is about
  a row that exists.
* `SettlesOnce`, `CreditsOnce`, `RefundsMatch`: `Spec =>` always `SettledOnce`,
  `TopupCreditedOnce`, `RefundedIffFailed`. Each has an inductive invariant of its own
  (`SettleInv`, `TopupInv`, `PayoutInv`) that says what a request has found still holds while
  nobody else is deciding on its subject, and that nobody else is while the subject is not in
  `overlapped`. An area's own steps are taken one by one; those of the other areas
  keep the invariant by a frame lemma, because they touch neither its tables
  (`SettleMoves`, `TopupMoves`, `PayoutMoves`, `FailsMoves`) nor its requests.
* `BalancesMatchLedger == Spec => []BalanceIsLedger`, in two halves. What a ledger comes to is a sum over the tables (`SumFunction`), and
  the lemmas of "What a sum comes to" say how it moves: `SumChanges`, by the change of one summand; `SumOfZeros`. They need an induction over
  finite sets, which is done by a smallest counterexample (`WFMin` over the subsets of a finite set). The first half, `LedgerInv`, is that a balance is
  what was *booked* to it, with the top-ups as often as they were credited (`BalanceIsBooked`); `NewTopups` adds that a top-up that does not exist has not been.
  Each write of a balance is matched with the one row or credit it changes (`PostLedger`, `CreditLedger`, `ReserveLedger`, `GiveBackLedger`), and the
  other steps change neither (`QuietLedger`, `CreateLedger`, `MetaLedger`). The second half is that rows and credits agree: `PromiseInv` says that a
  top-up marked `success` has been credited or is about to be, unless it is `stranded` or `overlapped`; `TopupInv` that it is credited once at most, and only
  when it is marked. So its row is its credit (`RowIsCredit`), and what was booked is the ledger (`BookedIsLedger`).

For the parcel side (assumptions `NoneAssumption`, `ActorsAssumption`, `PatchedAssumption`,
`ChosenAssumption` of `DeliveryService`), in DeliveryProofs:

* `DeliveriesTyped == Spec => []TypeOK`, from `TypeInv`: the row a request is about still exists, because no
  step deletes one (`Kept`, `StillFits`).
* `PaymentsEarned == Spec => []PaidIsEarned`. What Paystack said may be old when `ConfirmMark` writes it, so
  `EarnInv` adds that a charge once seen as successful still is (`Backed`), which needs that nobody
  opens the checkout of a reference twice: a reference about to be opened has a charge
  nobody could pay yet, and belongs to one request. Only `Collect` and `ConfirmMark` set
  `PAID`, only `Upsert`, `Checkout` and `CustomerPays` change a charge; the rest goes by the lemma `Quiet`.
* `BusyRidersHaveJobs == Spec => []BusyRiderHasJob`, inductive with the types: what makes a rider `ON_DELIVERY` also gives the row.
* `CancellationsCloseRows == Spec => CancelClosesRows` and `PaidDeliveriesStay == Spec => PaidStays`, two action properties about what
  a request has read some awaits ago. `FreshInv` says that two requests are past their checks on one delivery only if it is in `disturbed` (`Apart`), and
  that on the others what a request has read still holds (`Fresh`): a cancellation has all open rows in hand, a confirmation
  the reference the payment names; `Charged` says that a payment made by Paystack is of a charge that succeeded.
* `DeliveryContractKept == Spec => KeepsDeliveryContract`, the refinement. `ContractInv` adds to `FreshInv` and `EarnInv` that nothing is
  kept of a delivery that does not exist yet (`Unborn`) and that a cancellation has in hand only rows of its
  delivery, which may still be cancelled unless it is disturbed (`Callable`). `Moves(v, w)` is the contract's next step as a relation between
  two orders, and `AboutOne` makes a contract step of a move of one delivery that leaves the others' orders alone, so that each handler has only to name
  its move; the steps no order shows go by `QuietContract`, those of the bill by `PayContract`.
* `SettledDeliveriesReceived == Spec => []Contract!SettledIsReceived`: what the contract promises by an invariant of its own (`SoundOrders`), carried over
  to the deliveries. `PaidStays` is no property of the run, as the contract implies it.

For presence (assumption `NoneAssumption` of `DriverPresence`), in PresenceProofs, for any connections, calls and queue:

* `PresenceTyped == Spec => []TypeOK`; the passenger's list is typed apart (`ViewTyped`), as nothing reads it back.
* `ListedAreFlagged == Spec => []ListedIsFlagged` and `ReportersAreListed == Spec => []ReporterIsListed`. Who is listed is what the registry says, who may
  be is what the flag says, and both hang on a profile read that was begun before either changed. The invariant `Inv` joins the two to
  `Known` (the connection in use is open; one that has read its profile has no read under way, and the flag is known) and to `Reporting` (what has
  been reported on the connection in use is fresh).
* `ViewsAgree == Spec => []ViewAgrees`. Each event on its way says what the registry was when it was sent, and the last one, or the
  snapshot if there is none, says what it is.

For the sessions (assumptions `NoneAssumption`, `AccountsAssumption`, `GetAssumption` of `Sessions`), in SessionProofs, for any accounts and requests:

* `TypeCorrect == Spec => []TypeOK` and `PostsServedOnce == Spec => []PostsOnce`, from `ReqInv`: a request has run once when it has been
  served and not before, so that a replay after a 401 is of one that has not run.
* `SessionsKeptApart == Spec => []TokensMatchUser`. Whoever holds the phone is signed in or signing in, not both (`OneSession`), and as long as
  nothing has outlived a sign-in (`crossed`) the stored tokens (`StoreOwn`), the exchange under way (`RefreshOwn`)
  and the requests under way (`ReqOwn`) are that account's.

For the driver's app, in DriverAppProofs (`NoneAssumption`, `MaxRowAssumption` of `PositionReports`, `TripAssumption`, `BoundAssumption` of `DriverBoard`), for any visits,
reports and rows of points, and for any trips, calls and queue:

* `TypeCorrect == Spec => []TypeOK` of `PositionReports`, and `AlertsEarned == Spec => []AlertsAreEarned`. `Covered` says that a count is earned, or `carried`, from when it is read, not
  only when it is written; `InTurn` that as long as judgements neither overlap nor fail there is one, which has read the count as it is; `Unjudged` that
  nobody judges the points of a ride.
* `PositionsInOrder == Spec => []InOrder`, from `OneAwaited`: a report that is awaited is the only one of its visit, whose mark is
  set, and what its visit sent before it is not awaited any more. So none that is awaited is among the earlier ones that a later report of its visit overtakes.
* `OwnTripsOnly == BoardSpec => []OnlyOwnTrips`. A trip reaches the screen from a resumed trip, a "busy" answer, an event or a won accept, and each of
  these carries a trip the server had given this driver (`OwnRides`, `OwnQueue`, `OwnSyncs`, `OwnTap`).

For the passenger's app, in PassengerProofs (`NoneAssumption`, `LabelsAssumption` of `BookingForm`; `DriverAssumption`, `ForcedAssumption`, `BoundAssumption` of
`TripTracking`), for any places, runs of `start()` and lookups, and for any handlers, drivers and number of writes:

* `TypeCorrect == Spec => []TypeOK` of `BookingForm`; `WatchedOnce == Spec => []OneWatcher`, from `WatchInv`: the reference is held exactly while a
  subscription lives, a run of `start()` that has not been called off has none yet and is the only one, and both belong to a screen that is there.
* `FormShowsPlace == Spec => []FormMatches`, inductive with the types of the form (`Shows` of destination and order, `FollowsName` of a detected
  pickup). `LabelsAssumption` keeps the app's own texts ("Finding your location…", "Current location", "Dropped pin") apart from the names of places.
* `RideShown == TrackSpec => []RideIsShown`. `RideIsShown` speaks of the moment when all is quiet; `Tracked` says what leads there: an
  answer that a write has overtaken is followed by news of it (`OldAnswerFollowed`), the cached answer is on the screen as long as
  it holds (`CacheShown`), also when it comes a second time and the effect does not run (`RepeatShown`), an offer is never the last that is said
  (`OfferFollowed`), and what is not shown is still to come (`Informed`).

For the onboarding (assumptions `NoneAssumption`, `RecoveryAssumption`, `LaterAssumption` of `Verification`), in VerificationProofs,
for any papers, rows, reviewers, uploads, and whether or not staff review early:

* `VerificationTyped == Spec => []TypeOK`, together with `Carried`, what an upload or a photo is of.
* `ReviewsConclude`, `VerifiedAreReviewed` from `ReviewInv`: whoever has marked and not yet decided will count
  (`SomeoneConcludes`), rows that do not exist have not been decided (`FreshRows`), and what is undecided under a verified
  profile was filed late (`LateOnes`).
* `SelfieIsOnFile`, for the one driver on the phone, from `SelfieInv`: a tick is on file, and either the selfie is or the driver is `Early`: nothing filed,
  not past the selfie step, and nothing but a selfie under way anywhere.

The typing theorems (`TypeCorrect` of four modules, `WalletsTyped`, `DeliveriesTyped`, `PresenceTyped`, `VerificationTyped`), and the lemmas that carry `BoardType`
and `TrackType`, take the place of a `TypeOK` in the runs. The assumptions are evaluated by TLC in each run.

## 7. What is only model-checked

Every invariant and action property of the passing runs, and the refinement of `RideContract` and of `DeliveryContract`, is a theorem. What TLC alone checks is

* liveness (`RideNotLeftWaiting`, `DispatchIsTried`, `OnlineIsListed`, `OfflineIsGone`, `ExpiredIsRenewed`,
  `DeadSessionEnds`, `ListHeals`, `TripNotLost`, `EndIsShown`, `FollowsInFront`, `PhotoComesBack`, `ReportsGoOn`): fairness and ENABLED are beyond the prover;
* the violation of `PassengerHasOneDriver`, which is one behaviour.

The modules declare no RECURSIVE operator, so all of them can be proved about.

## 8. What is not modelled

* Notifications and pushes: best-effort sending to gateways, failures swallowed, no
  state any handler reads.
* Status events (`orders/status-events.ts`) are an append-only log nobody decides on;
  the await that writes one is kept where a lock (`dispatchInFlight`) spans it.
* Admin dashboards (reads), the geometry of routes and the building of an expected route, pricing and ranking (arithmetic without state).
* Most of the apps' screens: layout, maps, texts, quotes and prices, chat, the passengers a driver sees, preferences, the parcel
  screens (they show what `DeliveryService` serves, and part of what they post has no route, section 5). A large part of the repository's lines are such.
* The same driver in two models at once: `RideRequests` and `DriverPresence` each have the online switch, and `DriverBoard` and
  `TripTracking` take the server's handlers as single steps, or as a write and an announcement.
* The choice among available drivers (distance, heartbeat age, socket presence) is
  nondeterministic.
* Several API processes (`docs/DEPLOYMENT.md`, horizontal scaling): `dispatchInFlight` is per
  process, so `OneLiveOffer` is claimed for one process.
* Currencies and amounts of a delivery's payment: all amounts are GHS, and what Paystack
  charges is the fare, which no handler changes.
* Rows of `RiderProfile` under KYC review or suspension (`documents.routes.ts`); riders here are approved.

## 9. Plan

1. *The parcel screens* of both apps, in the manner of `TripTracking`.
2. *Pure functions*: pricing and ranking against reference definitions.
3. *Staff's side*: monitoring and the incident routes, as far as they write what handlers read.
