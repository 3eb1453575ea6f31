---------------------------- MODULE BookingForm ----------------------------
(***************************************************************************)
(* The passenger's booking form (HomeScreen) and the position it books     *)
(* from (useCurrentLocation, useReadablePlace).  Both ends of the ride are *)
(* a text the passenger and the driver read and coordinates the booking    *)
(* runs on.  They are typed, picked, tapped on the map or detected, and    *)
(* resolved by lookups that answer later, or never with success; the       *)
(* detected end follows a subscription to the device's position that is    *)
(* taken down in the background.                                           *)
(*                                                                         *)
(* A text that names a place is that place; a geocoder may read a text as  *)
(* any place, and then the text becomes its name.  The detected place      *)
(* keeps the name of an earlier fix until the new one is named.  Quotes and*)
(* prices are left out; the pickup of an order is the form's, or follows   *)
(* the device, and is left out of it.                                      *)
(* The panel that holds the form opens and closes over it, and keeps it.   *)
(***************************************************************************)
EXTENDS Naturals

CONSTANTS
  Places,   \* places further apart than either hook tells apart
  Starts,   \* BOUND: runs of start() under way, those of a left screen included
  Lookups,  \* BOUND: lookups under way
  None      \* no coordinates

Labels == {"none", "current", "finding", "pin"}  \* texts that name no place

ASSUME NoneAssumption == None \notin Places
ASSUME LabelsAssumption == Labels \cap Places = {}

VARIABLES
  app,     \* is the app in front, is the screen mounted
  start,   \* per run of start(): what it awaits, and whether its screen is gone
  watch,   \* watchRef, subscriptions alive, whether the last start() ended without one
  fix,     \* the coordinates of useCurrentLocation
  asked,   \* is a fix requested by a tap or on return to the app under way?
  named,   \* the place useReadablePlace has a name of, None before the first
  pick,    \* pickup: text, coordinates chosen for it, is it "wherever I am"?
  drop,    \* destination: text and coordinates; history: was it set to where the
           \* device is while the name was still that of an earlier fix?
  lookup,  \* the lookups under way
  order    \* the order being sent: its destination

gps == <<start, watch, fix, asked, named>>
form == <<pick, drop, lookup, order>>
vars == <<app, start, watch, fix, asked, named, pick, drop, lookup, order>>

NoStart == [at |-> "no", cancelled |-> FALSE]
NoWatch == [ref |-> FALSE, live |-> 0, gaveUp |-> FALSE]
NoLookup == [what |-> "none", end |-> "drop"]
NoOrder == [text |-> "none", coord |-> None, behind |-> FALSE]
BlankPick == [text |-> "current", coord |-> None, detected |-> TRUE]
BlankDrop == [text |-> "none", coord |-> None, behind |-> FALSE]

Init ==
  /\ app = [front |-> TRUE, mounted |-> FALSE]
  /\ start = [s \in Starts |-> NoStart] /\ watch = NoWatch
  /\ fix = None /\ asked = FALSE /\ named = None
  /\ pick = BlankPick /\ drop = BlankDrop
  /\ lookup = [l \in Lookups |-> NoLookup] /\ order = NoOrder

-----------------------------------------------------------------------------
(* The position.                                                             *)

\* The text of the detected place: its name, "Finding your location..." before.
Label(name) == IF name = None THEN "finding" ELSE name

\* The effect that keeps the pickup on the detected place.
Follow(end, point, name) ==
  IF end.detected /\ point # None THEN [end EXCEPT !.text = Label(name)] ELSE end

\* A new fix, or the failure that takes the place of the coordinates.  The name
\* is dropped with them, and kept, as the last good one, when they change; the
\* effect runs when there is a position again.
SetFix(point) ==
  /\ fix' = point
  /\ named' = IF point = None THEN None ELSE named
  /\ pick' = IF fix = None THEN Follow(pick, point, named') ELSE pick

\* One start() at a time on a mounted screen.
Starting == \E s \in Starts : start[s].at # "no" /\ ~start[s].cancelled

Begin(s) ==
  /\ start[s].at = "no"
  /\ start' = [start EXCEPT ![s] = [at |-> "fixing", cancelled |-> FALSE]]

Mount(s) ==
  /\ app.front /\ ~app.mounted
  /\ app' = [app EXCEPT !.mounted = TRUE]
  /\ Begin(s) /\ watch' = [watch EXCEPT !.gaveUp = FALSE]
  /\ UNCHANGED <<fix, asked, named, form>>

\* BOUND: the screen is left when no lookup is under way; a late one would set
\* the state of a component that is gone.
Unmount ==
  /\ app.mounted /\ \A l \in Lookups : lookup[l] = NoLookup
  /\ app' = [app EXCEPT !.mounted = FALSE]
  /\ start' = [s \in Starts |-> [start[s] EXCEPT !.cancelled = start[s].at # "no"]]
  /\ watch' = [NoWatch EXCEPT !.live = IF watch.ref THEN watch.live - 1 ELSE watch.live]
  /\ fix' = None /\ asked' = FALSE /\ named' = None
  /\ pick' = BlankPick /\ drop' = BlankDrop
  /\ UNCHANGED <<lookup, order>>

\* The first fix of a start(): failed, it wipes the coordinates and ends the run.
FirstFix(s) ==
  /\ start[s].at = "fixing"
  /\ IF start[s].cancelled
       THEN start' = [start EXCEPT ![s] = NoStart] /\ UNCHANGED <<watch, fix, named, pick>>
       ELSE \/ /\ \E point \in Places : SetFix(point)
               /\ start' = [start EXCEPT ![s].at = "opening"]
               /\ UNCHANGED watch
            \/ /\ SetFix(None)
               /\ start' = [start EXCEPT ![s] = NoStart]
               /\ watch' = [watch EXCEPT !.gaveUp = TRUE]
  /\ UNCHANGED <<app, asked, drop, lookup, order>>

\* watchPositionAsync answers, whether or not the app is still in front.
Subscribe(s) ==
  /\ start[s].at = "opening"
  /\ start' = [start EXCEPT ![s] = NoStart]
  /\ watch' = IF start[s].cancelled THEN watch
              ELSE [watch EXCEPT !.ref = TRUE, !.live = @ + 1]
  /\ UNCHANGED <<app, fix, asked, named, form>>

\* It throws: "a one-off fix is still enough to book with".
SubscribeFails(s) ==
  /\ start[s].at = "opening"
  /\ start' = [start EXCEPT ![s] = NoStart]
  /\ watch' = [watch EXCEPT !.gaveUp = @ \/ ~start[s].cancelled]
  /\ UNCHANGED <<app, fix, asked, named, form>>

\* Mutant: the reference to the subscription is kept.
ToBackgroundKeepsRef ==
  /\ app.front
  /\ app' = [app EXCEPT !.front = FALSE]
  /\ watch' = IF watch.ref THEN [watch EXCEPT !.live = @ - 1] ELSE watch
  /\ UNCHANGED <<start, fix, asked, named, form>>

ToBackground ==
  /\ app.front
  /\ app' = [app EXCEPT !.front = FALSE]
  /\ watch' = IF watch.ref THEN [watch EXCEPT !.ref = FALSE, !.live = @ - 1] ELSE watch
  /\ UNCHANGED <<start, fix, asked, named, form>>

\* Mutant: without the latch.
ToFrontUnlatched ==
  /\ ~app.front
  /\ app' = [app EXCEPT !.front = TRUE]
  /\ CASE ~app.mounted -> UNCHANGED <<start, watch, asked>>
       [] app.mounted /\ watch.ref -> asked' = TRUE /\ UNCHANGED <<start, watch>>
       [] app.mounted /\ ~watch.ref ->
            /\ \E s \in Starts : Begin(s)
            /\ watch' = [watch EXCEPT !.gaveUp = FALSE]
            /\ UNCHANGED asked
  /\ UNCHANGED <<fix, named, form>>

ToFront ==
  /\ ~app.front
  /\ app' = [app EXCEPT !.front = TRUE]
  /\ CASE ~app.mounted \/ (~watch.ref /\ Starting) -> UNCHANGED <<start, watch, asked>>
       [] app.mounted /\ watch.ref -> asked' = TRUE /\ UNCHANGED <<start, watch>>
       [] app.mounted /\ ~watch.ref /\ ~Starting ->
            /\ \E s \in Starts : Begin(s)
            /\ watch' = [watch EXCEPT !.gaveUp = FALSE]
            /\ UNCHANGED asked
  /\ UNCHANGED <<fix, named, form>>

\* The watch's callback.
Moved ==
  /\ app.mounted /\ watch.live > 0
  /\ \E point \in Places \ {fix} : SetFix(point)
  /\ UNCHANGED <<app, start, watch, asked, drop, lookup, order>>

AnswerFix ==
  /\ asked /\ asked' = FALSE
  /\ \E point \in Places \cup {None} : SetFix(point)
  /\ UNCHANGED <<app, start, watch, drop, lookup, order>>

\* describePlace answers for the latest point.  It never fails: at worst it names the
\* point by its coordinates, and then an earlier name is kept.
NameFix ==
  /\ fix \notin {None, named}
  /\ named' = fix
  /\ pick' = Follow(pick, fix, fix)
  /\ UNCHANGED <<app, start, watch, fix, asked, drop, lookup, order>>

-----------------------------------------------------------------------------
(* The form.  An end is set by its text and its coordinates together.        *)

\* The buttons are disabled while an order is being sent.  BOUND: the passenger
\* then leaves the fields alone, too; the order no longer looks at them.
AtForm == app.mounted /\ app.front /\ order = NoOrder

AtPlace(text, place) == [text |-> text, coord |-> place, behind |-> FALSE]

SetEnd(end, text, place) ==
  IF end = "pick"
    THEN pick' = [text |-> text, coord |-> place, detected |-> FALSE] /\ UNCHANGED drop
    ELSE drop' = AtPlace(text, place) /\ UNCHANGED pick

\* Mutant: typing leaves the coordinates of what stood there before.
TypeOver(end, p) ==
  /\ AtForm
  /\ IF end = "pick" THEN pick' = [pick EXCEPT !.text = p, !.detected = FALSE] /\ UNCHANGED drop
                     ELSE drop' = [drop EXCEPT !.text = p] /\ UNCHANGED pick
  /\ UNCHANGED <<app, gps, lookup, order>>

\* A text is typed, or deleted: no coordinates until it is resolved.
Type(end, p) ==
  /\ AtForm
  /\ SetEnd(end, p, None)
  /\ UNCHANGED <<app, gps, lookup, order>>

\* Which place a lookup is of shows when it answers.
Look(l, what, end) ==
  /\ AtForm /\ lookup[l] = NoLookup
  /\ lookup' = [lookup EXCEPT ![l] = [what |-> what, end |-> end]]
  /\ UNCHANGED <<app, gps, pick, drop>>

EndText(end) == IF end = "pick" THEN pick.text ELSE drop.text

\* Enter, or "Get quote" for a destination that has no coordinates.
Submit(l, end) == EndText(end) # "none" /\ Look(l, "typed", end) /\ UNCHANGED order
PickSuggestion(l, end) == Look(l, "picked", end) /\ UNCHANGED order
TapMap(l) == Look(l, "pin", "drop") /\ UNCHANGED order

\* One of the places listed on the home panel.
PickListed(p) ==
  /\ AtForm
  /\ SetEnd("drop", p, p)
  /\ UNCHANGED <<app, gps, lookup, order>>

\* "Use my current location": the pickup follows the device again.
UseLocation ==
  /\ AtForm
  /\ asked' = TRUE
  /\ pick' = IF pick.detected THEN BlankPick ELSE Follow(BlankPick, fix, named)
  /\ UNCHANGED <<app, start, watch, fix, named, drop, lookup, order>>

\* "Use my current location" for the destination: the present coordinates, under the
\* name there is.
DropHere ==
  /\ AtForm /\ fix # None
  /\ drop' = [text |-> Label(named), coord |-> fix, behind |-> named \notin {None, fix}]
  /\ UNCHANGED <<app, gps, pick, lookup, order>>

\* A destination with coordinates is ordered at once, another is looked up first.
Book(l) ==
  /\ AtForm
  /\ IF drop.coord # None
       THEN order' = drop /\ UNCHANGED <<app, gps, pick, drop, lookup>>
       ELSE drop.text # "none" /\ Look(l, "order", "drop") /\ UNCHANGED order

\* A point on the map that has no name reads "Dropped pin".
NamesFound(what, p) == IF what = "pin" THEN {p, "pin"} ELSE {p}

Found(l) ==
  LET q == lookup[l] IN
  /\ q.what # "none"
  /\ \E p \in Places : \E text \in NamesFound(q.what, p) :
       /\ SetEnd(q.end, text, p)
       /\ order' = IF q.what = "order" THEN AtPlace(text, p) ELSE order
  /\ lookup' = [lookup EXCEPT ![l] = NoLookup]
  /\ UNCHANGED <<app, gps>>

\* A suggestion that does not resolve is looked up by its description.
NotFound(l) ==
  /\ lookup[l].what \in {"typed", "picked", "order"}
  /\ lookup' = [lookup EXCEPT ![l] = IF @.what = "picked" THEN [@ EXCEPT !.what = "typed"]
                                     ELSE NoLookup]
  /\ UNCHANGED <<app, gps, pick, drop, order>>

\* The server answers, or the request fails.
OrderEnds ==
  /\ order # NoOrder
  /\ order' = NoOrder
  /\ UNCHANGED <<app, gps, pick, drop, lookup>>

-----------------------------------------------------------------------------
StartStep(s) == Mount(s) \/ FirstFix(s) \/ Subscribe(s) \/ SubscribeFails(s)

LookupStep(l) ==
  \/ \E end \in {"pick", "drop"} : Submit(l, end) \/ PickSuggestion(l, end)
  \/ TapMap(l) \/ Book(l) \/ Found(l) \/ NotFound(l)

Next ==
  \/ \E s \in Starts : StartStep(s)
  \/ \E l \in Lookups : LookupStep(l)
  \/ \E end \in {"pick", "drop"}, p \in Places \cup {"none"} : Type(end, p)
  \/ \E p \in Places : PickListed(p)
  \/ Unmount \/ ToBackground \/ ToFront \/ Moved \/ AnswerFix \/ NameFix
  \/ UseLocation \/ DropHere \/ OrderEnds

Spec == Init /\ [][Next]_vars

\* The device answers, one way or another; taps are owed to nobody.
Fairness == \A s \in Starts : WF_vars(FirstFix(s)) /\ WF_vars(Subscribe(s) \/ SubscribeFails(s))

FairSpec == Spec /\ Fairness

-----------------------------------------------------------------------------
\* The text reads as the place the coordinates are of, as far as it is a name.
Fits(end) == end.coord # None /\ end.text \in Places => end.text = end.coord

\* Whatever answers late, and whatever is typed, picked or tapped meanwhile, an end that has
\* coordinates shows their place, and an order sends a destination to where its name says
\* (HomeScreen resolvePlace, selectSuggestion, handleMapPress, ensureDropoffResolved).  The
\* exception is a destination set to where the device is before that has a name of its own.
\* A pickup that follows the device has no coordinates of its own, and reads the latest name.
FormMatches ==
  /\ Fits(pick)
  /\ drop.behind \/ Fits(drop)
  /\ order.behind \/ Fits(order)
  /\ pick.detected => /\ pick.coord = None
                      /\ fix # None /\ pick.text \in Places => pick.text = named

\* The latch makes starting up idempotent: two returns to the app, a return in
\* the middle of a start, or a remounted screen never leave two subscriptions
\* (useCurrentLocation start).
OneWatcher == watch.live <= 1

\* A screen that stays in front follows the passenger, unless the device has
\* refused: no order of leaving, returning and late answers loses the watch
\* ("then follow the passenger while the app is foregrounded").
FollowsInFront ==
  <>[](app.front /\ app.mounted) => <>[](watch.live > 0 \/ watch.gaveUp)
=============================================================================
