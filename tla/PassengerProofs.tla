-------------------------- MODULE PassengerProofs --------------------------
(***************************************************************************)
(* The passenger's app.  BookingForm, for any places, runs of start() and  *)
(* lookups: the position is watched once, and an end that has coordinates  *)
(* shows their place.  TripTracking, for any handlers, drivers and writes: *)
(* once all is quiet the screen shows the ride.                            *)
(***************************************************************************)
EXTENDS BookingForm, TripTracking, SequenceTheorems, TLAPS

Points == Places \cup {None}
Texts == Places \cup Labels
Ends == {"pick", "drop"}

TypeOK ==
  /\ app \in [front : BOOLEAN, mounted : BOOLEAN]
  /\ start \in [Starts -> [at : {"no", "fixing", "opening"}, cancelled : BOOLEAN]]
  /\ watch \in [ref : BOOLEAN, live : Nat, gaveUp : BOOLEAN]
  /\ fix \in Points /\ asked \in BOOLEAN /\ named \in Points
  /\ pick \in [text : Texts, coord : Points, detected : BOOLEAN]
  /\ drop \in [text : Texts, coord : Points, behind : BOOLEAN]
  /\ lookup \in [Lookups -> [what : {"none", "typed", "picked", "pin", "order"}, end : Ends]]
  /\ order \in [text : Texts, coord : Points, behind : BOOLEAN]

-----------------------------------------------------------------------------
(* The type, in two parts: what watches, and what is booked.                 *)

WatchType ==
  /\ app \in [front : BOOLEAN, mounted : BOOLEAN]
  /\ start \in [Starts -> [at : {"no", "fixing", "opening"}, cancelled : BOOLEAN]]
  /\ watch \in [ref : BOOLEAN, live : Nat, gaveUp : BOOLEAN]

FormType ==
  /\ fix \in Points /\ asked \in BOOLEAN /\ named \in Points
  /\ pick \in [text : Texts, coord : Points, detected : BOOLEAN]
  /\ drop \in [text : Texts, coord : Points, behind : BOOLEAN]
  /\ lookup \in [Lookups -> [what : {"none", "typed", "picked", "pin", "order"}, end : Ends]]
  /\ order \in [text : Texts, coord : Points, behind : BOOLEAN]

\* A run of start() whose screen is still there.
Running(s) == start[s].at # "no" /\ ~start[s].cancelled

\* What makes one watch inductive: the reference is kept exactly while a
\* subscription lives, a run under way has none yet and is the only one, and
\* both belong to a screen that is there.
WatchInv ==
  /\ watch.live = IF watch.ref THEN 1 ELSE 0
  /\ watch.ref => app.mounted
  /\ \A s \in Starts : Running(s) => app.mounted /\ ~watch.ref
  /\ \A s, t \in Starts : Running(s) /\ Running(t) => s = t

Watched == WatchType /\ WatchInv

\* The steps that leave what is watched alone, but for one refusal.
StillWatch ==
  /\ UNCHANGED <<app, start>>
  /\ UNCHANGED watch

LEMMA WatchInit == Init => Watched
  BY DEF Init, Watched, WatchType, WatchInv, Running, NoStart, NoWatch

LEMMA WatchStill == Watched /\ StillWatch => Watched'
  BY DEF Watched, WatchType, WatchInv, Running, StillWatch

\* A run that begins where none was, and nothing is subscribed.
LEMMA WatchBegin ==
  ASSUME Watched, NEW s \in Starts, Begin(s),
         ~watch.ref, ~Starting,
         app' \in [front : BOOLEAN, mounted : BOOLEAN], app'.mounted,
         watch' = [watch EXCEPT !.gaveUp = FALSE]
  PROVE  Watched'
<1>1. \A t \in Starts : ~Running(t)
  BY DEF Starting, Running
<1>2. WatchType'
  BY DEF Begin, Watched, WatchType
<1>3. \A t \in Starts : Running(t)' => t = s
  BY <1>1 DEF Begin, Running, Watched, WatchType
<1>4. watch'.ref = watch.ref /\ watch'.live = watch.live
  BY DEF Watched, WatchType
<1> QED
  BY <1>2, <1>3, <1>4 DEF Watched, WatchInv

\* A run that ends, and leaves no subscription or its own.
LEMMA WatchEnd ==
  ASSUME Watched, NEW s \in Starts, UNCHANGED app,
         start' = [start EXCEPT ![s] = NoStart],
         watch' \in [ref : BOOLEAN, live : Nat, gaveUp : BOOLEAN],
         \/ watch'.ref = watch.ref /\ watch'.live = watch.live
         \/ Running(s) /\ watch'.ref /\ watch'.live = watch.live + 1
  PROVE  Watched'
<1>1. WatchType'
  BY DEF Watched, WatchType, NoStart
<1>2. \A t \in Starts : Running(t)' => Running(t) /\ t # s
  BY DEF Running, NoStart, Watched, WatchType
<1>3. WatchInv'
  <2>1. CASE watch'.ref = watch.ref /\ watch'.live = watch.live
    BY <1>2, <2>1 DEF Watched, WatchInv
  <2>2. CASE Running(s) /\ watch'.ref /\ watch'.live = watch.live + 1
    <3>1. \A t \in Starts : ~Running(t)'
      BY <1>2, <2>2 DEF Watched, WatchInv
    <3>2. watch.live = 0 /\ app.mounted
      BY <2>2 DEF Watched, WatchInv
    <3> QED
      BY <2>2, <3>1, <3>2 DEF WatchInv
  <2> QED
    BY <2>1, <2>2
<1> QED
  BY <1>1, <1>3 DEF Watched

LEMMA WatchMount == ASSUME Watched, NEW s \in Starts, Mount(s) PROVE Watched'
<1>1. ~Starting /\ ~watch.ref
  BY DEF Mount, Starting, Watched, WatchInv, Running
<1>2. app' \in [front : BOOLEAN, mounted : BOOLEAN] /\ app'.mounted
  BY DEF Mount, Watched, WatchType
<1> QED
  BY <1>1, <1>2, WatchBegin DEF Mount

LEMMA WatchUnmount == Watched /\ Unmount => Watched'
<1> SUFFICES ASSUME Watched, Unmount PROVE Watched'
  OBVIOUS
<1>1. /\ app' = [app EXCEPT !.mounted = FALSE]
      /\ start' = [s \in Starts |-> [start[s] EXCEPT !.cancelled = start[s].at # "no"]]
      /\ watch' = [NoWatch EXCEPT !.live = IF watch.ref THEN watch.live - 1 ELSE watch.live]
  BY DEF Unmount
<1>2. watch' = NoWatch
  BY <1>1 DEF Watched, WatchType, WatchInv, NoWatch
<1>3. \A s \in Starts : ~Running(s)'
  BY <1>1 DEF Running, Watched, WatchType
<1>4. WatchType'
  <2>1. app' \in [front : BOOLEAN, mounted : BOOLEAN]
    BY <1>1 DEF Watched, WatchType
  <2>2. watch' \in [ref : BOOLEAN, live : Nat, gaveUp : BOOLEAN]
    BY <1>2 DEF NoWatch
  <2>3. ASSUME NEW s \in Starts
        PROVE  [start[s] EXCEPT !.cancelled = start[s].at # "no"]
                 \in [at : {"no", "fixing", "opening"}, cancelled : BOOLEAN]
    <3>1. start[s] \in [at : {"no", "fixing", "opening"}, cancelled : BOOLEAN]
      BY DEF Watched, WatchType
    <3>2. (start[s].at # "no") \in BOOLEAN
      OBVIOUS
    <3> QED
      BY <3>1, <3>2, Zenon
  <2> QED
    BY <1>1, <2>1, <2>2, <2>3 DEF WatchType
<1> QED
  BY <1>2, <1>3, <1>4 DEF Watched, WatchInv, NoWatch

LEMMA WatchFirstFix == ASSUME Watched, NEW s \in Starts, FirstFix(s) PROVE Watched'
<1>1. CASE /\ start' = [start EXCEPT ![s] = NoStart]
           /\ watch' = watch \/ watch' = [watch EXCEPT !.gaveUp = TRUE]
  <2>1. /\ watch' \in [ref : BOOLEAN, live : Nat, gaveUp : BOOLEAN]
        /\ watch'.ref = watch.ref /\ watch'.live = watch.live
    BY <1>1 DEF Watched, WatchType
  <2> QED
    BY <1>1, <2>1, WatchEnd DEF FirstFix
<1>2. CASE ~start[s].cancelled /\ start' = [start EXCEPT ![s].at = "opening"] /\ watch' = watch
  <2>1. \A t \in Starts : Running(t)' <=> Running(t)
    BY <1>2 DEF FirstFix, Running, Watched, WatchType
  <2>2. WatchType'
    BY <1>2 DEF FirstFix, Watched, WatchType
  <2> QED
    BY <1>2, <2>1, <2>2 DEF FirstFix, Watched, WatchInv
<1> QED
  BY <1>1, <1>2 DEF FirstFix

LEMMA WatchSubscribe == ASSUME Watched, NEW s \in Starts, Subscribe(s) PROVE Watched'
<1>1. start[s].at = "opening" /\ UNCHANGED app /\ start' = [start EXCEPT ![s] = NoStart]
  BY DEF Subscribe
<1>2. CASE start[s].cancelled
  <2>1. watch' = watch
    BY <1>2 DEF Subscribe
  <2> QED
    BY <1>1, <2>1, WatchEnd DEF Watched, WatchType
<1>3. CASE ~start[s].cancelled
  <2>1. watch' = [watch EXCEPT !.ref = TRUE, !.live = @ + 1]
    BY <1>3 DEF Subscribe
  <2>2. /\ watch' \in [ref : BOOLEAN, live : Nat, gaveUp : BOOLEAN]
        /\ watch'.ref /\ watch'.live = watch.live + 1
    <3>1. watch.live + 1 \in Nat
      BY DEF Watched, WatchType
    <3>2. watch' = [ref |-> TRUE, live |-> watch.live + 1, gaveUp |-> watch.gaveUp]
      BY <2>1, Zenon DEF Watched, WatchType
    <3>3. watch.gaveUp \in BOOLEAN
      BY DEF Watched, WatchType
    <3> QED
      BY <3>1, <3>2, <3>3
  <2> QED
    BY <1>1, <1>3, <2>2, WatchEnd DEF Running
<1> QED
  BY <1>2, <1>3

LEMMA WatchSubscribeFails == ASSUME Watched, NEW s \in Starts, SubscribeFails(s) PROVE Watched'
<1>1. /\ watch' \in [ref : BOOLEAN, live : Nat, gaveUp : BOOLEAN]
      /\ watch'.ref = watch.ref /\ watch'.live = watch.live
  BY DEF SubscribeFails, Watched, WatchType
<1> QED
  BY <1>1, WatchEnd DEF SubscribeFails

LEMMA WatchToBackground == Watched /\ ToBackground => Watched'
<1> SUFFICES ASSUME Watched, ToBackground PROVE Watched'
  OBVIOUS
<1>1. app' = [app EXCEPT !.front = FALSE] /\ start' = start
  BY DEF ToBackground
<1>2. WatchType' /\ app'.mounted = app.mounted
  <2>1. watch' = IF watch.ref THEN [watch EXCEPT !.ref = FALSE, !.live = @ - 1] ELSE watch
    BY DEF ToBackground
  <2>2. watch' \in [ref : BOOLEAN, live : Nat, gaveUp : BOOLEAN]
    <3>1. watch.ref => watch.live - 1 \in Nat
      BY DEF Watched, WatchInv
    <3>2. CASE watch.ref
      <4>1. watch' = [watch EXCEPT !.ref = FALSE, !.live = @ - 1]
        BY <2>1, <3>2
      <4> QED
        BY <3>1, <3>2, <4>1 DEF Watched, WatchType
    <3>3. CASE ~watch.ref
      BY <2>1, <3>3 DEF Watched, WatchType
    <3> QED
      BY <3>2, <3>3
  <2> QED
    BY <1>1, <2>2 DEF Watched, WatchType
<1>3. ~watch'.ref /\ watch'.live = 0
  BY DEF ToBackground, Watched, WatchType, WatchInv
<1> QED
  BY <1>1, <1>2, <1>3 DEF Watched, WatchInv, Running

LEMMA WatchToFront == Watched /\ ToFront => Watched'
<1> SUFFICES ASSUME Watched, ToFront PROVE Watched'
  OBVIOUS
<1>1. /\ app' \in [front : BOOLEAN, mounted : BOOLEAN]
      /\ app'.mounted = app.mounted
  BY DEF ToFront, Watched, WatchType
<1>2. CASE UNCHANGED <<start, watch>>
  BY <1>1, <1>2 DEF Watched, WatchType, WatchInv, Running
<1>3. CASE app.mounted /\ ~watch.ref /\ ~Starting
  <2>1. PICK s \in Starts : Begin(s) /\ watch' = [watch EXCEPT !.gaveUp = FALSE]
    BY <1>3 DEF ToFront
  <2> QED
    BY <1>1, <1>3, <2>1, WatchBegin
<1> QED
  BY <1>2, <1>3 DEF ToFront

LEMMA WatchStep == Watched /\ [Next]_vars => Watched'
<1> SUFFICES ASSUME Watched, [Next]_vars PROVE Watched'
  OBVIOUS
<1>1. CASE \E s \in Starts : StartStep(s)
  BY <1>1, WatchMount, WatchFirstFix, WatchSubscribe, WatchSubscribeFails DEF StartStep
<1>2. CASE \E l \in Lookups : LookupStep(l)
  <2>1. StillWatch
    BY <1>2 DEF LookupStep, Submit, PickSuggestion, TapMap, Book, Look, Found, NotFound, gps, StillWatch
  <2> QED
    BY <2>1, WatchStill
<1>3. CASE \/ \E end \in Ends, p \in Places \cup {"none"} : Type(end, p)
           \/ \E p \in Places : PickListed(p)
           \/ DropHere \/ OrderEnds
  <2>1. StillWatch
    BY <1>3 DEF Type, PickListed, DropHere, OrderEnds, gps, StillWatch
  <2> QED
    BY <2>1, WatchStill
<1>4. CASE Moved \/ AnswerFix \/ NameFix \/ UseLocation
  <2>1. StillWatch
    BY <1>4 DEF Moved, AnswerFix, NameFix, UseLocation, StillWatch
  <2> QED
    BY <2>1, WatchStill
<1>5. CASE UNCHANGED vars
  BY <1>5, WatchStill DEF vars, StillWatch
<1> QED
  BY <1>1, <1>2, <1>3, <1>4, <1>5, WatchUnmount, WatchToBackground, WatchToFront
  DEF Next, Ends

-----------------------------------------------------------------------------
(* The form.                                                                 *)

\* The text of the detected place is the name there is, or no place's.
LEMMA LabelNames ==
  ASSUME NEW name \in Points
  PROVE  Label(name) \in Texts /\ (Label(name) \in Places => Label(name) = name)
BY LabelsAssumption DEF Label, Labels, Texts, Points

\* A pickup has coordinates of its own or follows the device, under its latest name.
PickType == [text : Texts, coord : Points, detected : BOOLEAN]
FollowsName(end, point, name) ==
  end.detected => /\ end.coord = None
                  /\ point # None /\ end.text \in Places => end.text = name

DropType == [text : Texts, coord : Points, behind : BOOLEAN]
Shows(end) == end.behind \/ Fits(end)

Formed == FormType /\ FormMatches

\* An end without coordinates fits whatever it reads.
LEMMA BlankFits ==
  /\ BlankPick \in PickType /\ BlankDrop \in DropType /\ NoOrder \in DropType
  /\ Fits(BlankPick) /\ Shows(BlankDrop) /\ Shows(NoOrder)
  /\ \A point, name : FollowsName(BlankPick, point, name)
<1>1. "none" \in Texts /\ "current" \in Texts /\ "current" \notin Places /\ None \in Points
  BY LabelsAssumption DEF Texts, Labels, Points
<1> QED
  BY <1>1 DEF BlankPick, BlankDrop, NoOrder, Fits, Shows, FollowsName, PickType, DropType

LEMMA FormedIs ==
  Formed <=> /\ fix \in Points /\ asked \in BOOLEAN /\ named \in Points
             /\ pick \in PickType /\ drop \in DropType /\ order \in DropType
             /\ lookup \in [Lookups -> [what : {"none", "typed", "picked", "pin", "order"}, end : Ends]]
             /\ Fits(pick) /\ FollowsName(pick, fix, named) /\ Shows(drop) /\ Shows(order)
BY DEF Formed, FormType, FormMatches, PickType, DropType, Shows, FollowsName

LEMMA FormInit == Init => Formed
<1> SUFFICES ASSUME Init PROVE Formed
  OBVIOUS
<1>1. lookup \in [Lookups -> [what : {"none", "typed", "picked", "pin", "order"}, end : Ends]]
  BY DEF Init, NoLookup, Ends
<1>2. fix \in Points /\ asked \in BOOLEAN /\ named \in Points
  BY DEF Init, Points
<1>3. pick = BlankPick /\ drop = BlankDrop /\ order = NoOrder
  BY DEF Init
<1> QED
  BY <1>1, <1>2, <1>3, BlankFits, FormedIs

\* A detected pickup takes the name there is, and has no coordinates of its own;
\* any other stays as it is.
LEMMA FollowForms ==
  ASSUME NEW end \in PickType, Fits(end), end.detected => end.coord = None,
         NEW point, NEW name \in Points
  PROVE  LET e == Follow(end, point, name) IN
         e \in PickType /\ Fits(e) /\ FollowsName(e, point, name)
<1>1. CASE end.detected /\ point # None
  <2>1. Follow(end, point, name) = [end EXCEPT !.text = Label(name)]
    BY <1>1 DEF Follow
  <2> QED
    BY <1>1, <2>1, LabelNames DEF Fits, FollowsName, PickType
<1>2. CASE ~(end.detected /\ point # None)
  BY <1>2 DEF Follow, FollowsName
<1> QED
  BY <1>1, <1>2

LEMMA SetFixForms ==
  ASSUME Formed, NEW point \in Points, SetFix(point),
         UNCHANGED <<drop, lookup, order>>, asked' \in BOOLEAN
  PROVE  Formed'
<1>0. /\ fix \in Points /\ named \in Points /\ pick \in PickType
      /\ Fits(pick) /\ FollowsName(pick, fix, named) /\ (pick.detected => pick.coord = None)
  BY FormedIs DEF FollowsName
<1>1. fix' = point /\ named' = (IF point = None THEN None ELSE named) /\ named' \in Points
  BY <1>0 DEF SetFix, Points
<1>2. pick' \in PickType /\ Fits(pick') /\ FollowsName(pick', point, named')
  <2>1. CASE fix = None
    <3>1. pick' = Follow(pick, point, named')
      BY <2>1 DEF SetFix
    <3> QED
      BY <1>0, <1>1, <3>1, FollowForms
  <2>2. CASE fix # None
    <3>1. pick' = pick
      BY <2>2 DEF SetFix
    <3> QED
      BY <1>0, <1>1, <2>2, <3>1 DEF FollowsName
  <2> QED
    BY <2>1, <2>2
<1> QED
  BY <1>1, <1>2, FormedIs DEF Formed, FormType, FormMatches, PickType, FollowsName, Fits

LEMMA SetEndForms ==
  ASSUME Formed, NEW end \in Ends, NEW text \in Texts, NEW place \in Points,
         SetEnd(end, text, place),
         text \in Places /\ place # None => text = place
  PROVE  /\ pick' \in PickType /\ drop' \in DropType
         /\ Fits(pick') /\ FollowsName(pick', fix, named) /\ Shows(drop')
<1>0. /\ pick \in PickType /\ drop \in DropType
      /\ Fits(pick) /\ FollowsName(pick, fix, named) /\ Shows(drop)
  BY FormedIs
<1>1. CASE end = "pick"
  <2>1. pick' = [text |-> text, coord |-> place, detected |-> FALSE] /\ drop' = drop
    BY <1>1 DEF SetEnd
  <2> QED
    BY <1>0, <2>1 DEF Fits, FollowsName, PickType
<1>2. CASE end = "drop"
  <2>1. drop' = [text |-> text, coord |-> place, behind |-> FALSE] /\ pick' = pick
    BY <1>2 DEF SetEnd, AtPlace
  <2> QED
    BY <1>0, <2>1 DEF Fits, Shows, DropType
<1> QED
  BY <1>1, <1>2 DEF Ends

LEMMA LookForms ==
  ASSUME Formed, NEW l \in Lookups, NEW end \in Ends,
         NEW what \in {"typed", "picked", "pin", "order"}, Look(l, what, end), UNCHANGED order
  PROVE  Formed'
<1>1. lookup' \in [Lookups -> [what : {"none", "typed", "picked", "pin", "order"}, end : Ends]]
  BY DEF Look, Formed, FormType
<1> QED
  BY <1>1 DEF Look, gps, Formed, FormType, FormMatches, Fits

LEMMA BookForms == ASSUME Formed, NEW l \in Lookups, Book(l) PROVE Formed'
<1>1. CASE drop.coord # None
  <2>1. order' = drop /\ UNCHANGED <<gps, pick, drop, lookup>>
    BY <1>1 DEF Book
  <2> QED
    BY <2>1 DEF gps, Formed, FormType, FormMatches, Fits
<1>2. CASE drop.coord = None
  BY <1>2, LookForms DEF Book, Ends
<1> QED
  BY <1>1, <1>2

LEMMA FoundForms == ASSUME Formed, NEW l \in Lookups, Found(l) PROVE Formed'
<1>0. PICK p \in Places : \E text \in NamesFound(lookup[l].what, p) :
        /\ SetEnd(lookup[l].end, text, p)
        /\ order' = IF lookup[l].what = "order" THEN AtPlace(text, p) ELSE order
  BY DEF Found
<1>1. PICK text \in NamesFound(lookup[l].what, p) :
        /\ SetEnd(lookup[l].end, text, p)
        /\ order' = IF lookup[l].what = "order" THEN AtPlace(text, p) ELSE order
  BY <1>0
<1>2. text \in Texts /\ p \in Points /\ (text \in Places => text = p)
  BY <1>1, LabelsAssumption DEF NamesFound, Texts, Labels, Points
<1>3. lookup[l].end \in Ends
  BY DEF Formed, FormType
<1>4. /\ pick' \in PickType /\ drop' \in DropType
      /\ Fits(pick') /\ FollowsName(pick', fix, named) /\ Shows(drop')
  BY <1>1, <1>2, <1>3, SetEndForms
<1>5. order' \in DropType /\ Shows(order')
  BY <1>1, <1>2, FormedIs DEF AtPlace, Shows, DropType, Fits
<1>6. lookup' \in [Lookups -> [what : {"none", "typed", "picked", "pin", "order"}, end : Ends]]
  BY DEF Found, NoLookup, Formed, FormType, Ends
<1>7. UNCHANGED <<fix, asked, named>>
  BY DEF Found, gps
<1> QED
  BY <1>4, <1>5, <1>6, <1>7
  DEF Formed, FormType, FormMatches, PickType, DropType, FollowsName, Shows, Fits

LEMMA NotFoundForms == ASSUME Formed, NEW l \in Lookups, NotFound(l) PROVE Formed'
<1>1. lookup' \in [Lookups -> [what : {"none", "typed", "picked", "pin", "order"}, end : Ends]]
  BY DEF NotFound, NoLookup, Formed, FormType, Ends
<1> QED
  BY <1>1 DEF NotFound, gps, Formed, FormType, FormMatches, Fits

LEMMA LookupForms == ASSUME Formed, NEW l \in Lookups, LookupStep(l) PROVE Formed'
<1>1. CASE \E end \in Ends : Submit(l, end) \/ PickSuggestion(l, end)
  BY <1>1, LookForms DEF Submit, PickSuggestion
<1>2. CASE TapMap(l)
  BY <1>2, LookForms DEF TapMap, Ends
<1> QED
  BY <1>1, <1>2, BookForms, FoundForms, NotFoundForms DEF LookupStep, Ends

LEMMA TypedForms ==
  ASSUME Formed, NEW end \in Ends, NEW text \in Texts, NEW place \in Points,
         SetEnd(end, text, place), UNCHANGED <<gps, lookup, order>>,
         text \in Places /\ place # None => text = place
  PROVE  Formed'
<1>1. UNCHANGED <<fix, asked, named, lookup, order>>
  BY DEF gps
<1>2. /\ pick' \in PickType /\ drop' \in DropType
      /\ Fits(pick') /\ FollowsName(pick', fix, named) /\ Shows(drop')
  BY SetEndForms
<1> QED
  BY <1>1, <1>2 DEF Formed, FormType, FormMatches, PickType, DropType, FollowsName, Shows, Fits

LEMMA EditForms ==
  ASSUME Formed,
         \/ \E end \in Ends, p \in Places \cup {"none"} : Type(end, p)
         \/ \E p \in Places : PickListed(p)
         \/ DropHere
  PROVE  Formed'
<1>1. ASSUME NEW end \in Ends, NEW p \in Places \cup {"none"}, Type(end, p) PROVE Formed'
  <2>1. p \in Texts /\ None \in Points
    BY DEF Texts, Labels, Points
  <2> QED
    BY <1>1, <2>1, TypedForms DEF Type
<1>2. ASSUME NEW p \in Places, PickListed(p) PROVE Formed'
  <2>1. p \in Texts /\ p \in Points /\ "drop" \in Ends
    BY DEF Texts, Points, Ends
  <2> QED
    BY <1>2, <2>1, TypedForms DEF PickListed
<1>3. ASSUME DropHere PROVE Formed'
  <2> DEFINE old == named \notin {None, fix}
  <2>1. UNCHANGED <<fix, asked, named, pick, lookup, order>>
    BY <1>3 DEF DropHere, gps
  <2>2. drop' = [text |-> Label(named), coord |-> fix, behind |-> old]
    BY <1>3, Zenon DEF DropHere
  <2>3. fix \in Points /\ named \in Points /\ Label(named) \in Texts
    BY FormedIs, LabelNames
  <2>4. Label(named) \in Places => Label(named) = named
    BY <2>3, LabelNames
  <2>5. old \in BOOLEAN
    OBVIOUS
  <2>6. ~old /\ Label(named) \in Places => Label(named) = fix
    BY <2>4, LabelsAssumption DEF Label, Labels
  <2> HIDE DEF old
  <2>7. drop' \in DropType /\ Shows(drop')
    BY <2>2, <2>3, <2>5, <2>6 DEF DropType, Shows, Fits
  <2> QED
    BY <2>1, <2>7 DEF Formed, FormType, FormMatches, DropType, Shows, Fits
<1> QED
  BY <1>1, <1>2, <1>3

LEMMA UnmountForms == Formed /\ Unmount => Formed'
<1> SUFFICES ASSUME Formed, Unmount PROVE Formed'
  OBVIOUS
<1>1. /\ fix' = None /\ asked' = FALSE /\ named' = None
      /\ pick' = BlankPick /\ drop' = BlankDrop /\ UNCHANGED <<lookup, order>>
  BY DEF Unmount
<1>2. /\ pick' \in PickType /\ drop' \in DropType
      /\ Fits(pick') /\ FollowsName(pick', None, None) /\ Shows(drop')
  BY <1>1, BlankFits
<1> QED
  BY <1>1, <1>2
  DEF Formed, FormType, FormMatches, PickType, DropType, FollowsName, Shows, Fits, Points

LEMMA FixForms ==
  ASSUME Formed, (\E s \in Starts : FirstFix(s)) \/ Moved \/ AnswerFix PROVE Formed'
<1> USE DEF Formed, FormType
<1>1. ASSUME NEW s \in Starts, FirstFix(s) PROVE Formed'
  <2>1. UNCHANGED <<asked, drop, lookup, order>>
    BY <1>1 DEF FirstFix
  <2>2. CASE start[s].cancelled
    BY <1>1, <2>1, <2>2 DEF FirstFix, FormMatches, Fits
  <2>3. CASE ~start[s].cancelled
    <3>1. PICK point \in Points : SetFix(point)
      BY <1>1, <2>3 DEF FirstFix, Points
    <3> QED
      BY <2>1, <3>1, SetFixForms
  <2> QED
    BY <2>2, <2>3
<1>2. ASSUME Moved PROVE Formed'
  BY <1>2, SetFixForms DEF Moved, Points
<1>3. ASSUME AnswerFix PROVE Formed'
  BY <1>3, SetFixForms DEF AnswerFix, Points
<1> QED
  BY <1>1, <1>2, <1>3

LEMMA NameForms == Formed /\ NameFix => Formed'
<1> SUFFICES ASSUME Formed, NameFix PROVE Formed'
  OBVIOUS
<1>0. fix \in Points /\ pick \in PickType /\ Fits(pick) /\ (pick.detected => pick.coord = None)
  BY FormedIs DEF FollowsName
<1>1. pick' \in PickType /\ Fits(pick') /\ FollowsName(pick', fix, fix)
  BY <1>0, FollowForms DEF NameFix
<1> QED
  BY <1>0, <1>1 DEF NameFix, Formed, FormType, FormMatches, PickType, FollowsName, Fits

LEMMA UseForms == Formed /\ UseLocation => Formed'
<1> SUFFICES ASSUME Formed, UseLocation PROVE Formed'
  OBVIOUS
<1>1. BlankPick \in PickType /\ Fits(BlankPick) /\ BlankPick.coord = None
  BY BlankFits DEF BlankPick
<1>2. named \in Points
  BY FormedIs
<1>3. pick' \in PickType /\ Fits(pick') /\ FollowsName(pick', fix, named)
  BY <1>1, <1>2, BlankFits, FollowForms DEF UseLocation
<1> QED
  BY <1>3 DEF UseLocation, Formed, FormType, FormMatches, PickType, FollowsName, Fits

LEMMA FormStep == Formed /\ [Next]_vars => Formed'
<1> SUFFICES ASSUME Formed, [Next]_vars PROVE Formed'
  OBVIOUS
<1>1. CASE \/ \E s \in Starts : Mount(s) \/ Subscribe(s) \/ SubscribeFails(s)
           \/ ToBackground \/ ToFront \/ UNCHANGED vars
  <2>1. UNCHANGED <<fix, named, form>> /\ asked' \in BOOLEAN
    BY <1>1 DEF Mount, Subscribe, SubscribeFails, ToBackground, ToFront, vars, form, Formed, FormType
  <2> QED
    BY <2>1 DEF form, Formed, FormType, FormMatches, Fits
<1>2. CASE OrderEnds
  <2>1. order' \in DropType /\ Shows(order')
    BY <1>2, BlankFits DEF OrderEnds
  <2> QED
    BY <1>2, <2>1 DEF OrderEnds, gps, Formed, FormType, FormMatches, DropType, Shows, Fits
<1> QED
  BY <1>1, <1>2, LookupForms, EditForms, UnmountForms, FixForms, NameForms, UseForms
  DEF Next, StartStep, Ends

-----------------------------------------------------------------------------
(* What follows from Spec.                                                   *)

LEMMA WatchedAlways == Spec => []Watched
  BY WatchInit, WatchStep, PTL DEF Spec

LEMMA FormedAlways == Spec => []Formed
  BY FormInit, FormStep, PTL DEF Spec

\* Every variable keeps its type: an end has a place or no coordinates, a count
\* of subscriptions is never negative.
THEOREM TypeCorrect == Spec => []TypeOK
<1>1. Watched /\ Formed => TypeOK
  BY DEF Watched, WatchType, Formed, FormType, TypeOK
<1> QED
  BY <1>1, WatchedAlways, FormedAlways, PTL

\* However the app is left, returned to, and answered late, at most one
\* subscription to the position lives (useCurrentLocation start, teardown).
THEOREM WatchedOnce == Spec => []OneWatcher
<1>1. Watched => OneWatcher
  BY DEF Watched, WatchInv, OneWatcher
<1> QED
  BY <1>1, WatchedAlways, PTL

\* Whatever answers late, an end with coordinates shows their place, and so
\* does the order that is sent, unless its destination was set to where the
\* device is under the name of an earlier fix; a pickup that follows the device
\* reads its latest name (HomeScreen resolvePlace, handleMapPress,
\* ensureDropoffResolved, applyCurrentLocation).
THEOREM FormShowsPlace == Spec => []FormMatches
<1>1. Formed => FormMatches
  BY DEF Formed
<1> QED
  BY <1>1, FormedAlways, PTL

-----------------------------------------------------------------------------
(* The ride on the passenger's screen (TripTracking).                        *)

JobStages == {"idle", "read", "settle", "finish", "emit", "offer", "dispatch"}
WorkingJobs == [at : JobStages, status : Statuses \cup {Nil}, driver : Drivers \cup {Nil}]
Events == [what : {"updated", "accepted", "offered"}, status : Shown \cup {Nil},
           driver : Drivers \cup {Nil}]
Gets == {NoGet, Asked} \cup [at : {"answered"}, answer : Views]

TrackType ==
  /\ trip \in Views
  /\ job \in [Handlers -> WorkingJobs]
  /\ link \in [up : BOOLEAN, queue : Seq(Events)]
  /\ screen \in [live : Shown \cup {Nil}, driver : Drivers \cup {Nil}]
  /\ data \in Views \cup {Nil}
  /\ get \in Gets
  /\ doubt \subseteq {"status", "driver"}
  /\ unsaid \in BOOLEAN /\ missed \in BOOLEAN /\ overtaken \in BOOLEAN

\* An offer is never the last that is said.
OfferFollowed == link.queue # <<>> => link.queue[Len(link.queue)].what # "offered"

\* An answer is not from the future.
Versions ==
  /\ data # Nil => data.ver <= trip.ver
  /\ get.at = "answered" => get.answer.ver <= trip.ver

\* The screen shows the ride as it is, but for what an outdated event said.
IsShown ==
  /\ "status" \in doubt \/ screen.live = trip.status
       \/ (screen.live = NoDriversOnline /\ trip.status \in Open)
  /\ "driver" \in doubt \/ screen.driver = trip.driver

\* The phone is still to learn of something: it has to reconnect, and ask, or events are on
\* their way, or some handler has yet to speak.
News == ~link.up \/ link.queue # <<>> \/ \E h \in Handlers : HasWritten(h)

Current(answer) == answer.status = trip.status /\ answer.driver = trip.driver

\* An answer overtaken by a write is followed by news of it.
OldAnswerFollowed ==
  get.at = "answered" /\ ~Current(get.answer) => News \/ unsaid \/ (overtaken /\ data = Nil)

\* The answer the phone has already is on the screen, as long as it holds.
CacheShown == data = trip => IsShown

\* So is one that comes a second time, when the screen does not take it up again.
RepeatShown == get.at = "answered" /\ get.answer = data => News \/ unsaid \/ IsShown

\* What is not shown is still to come.
Informed == Undisturbed => News \/ get # NoGet \/ IsShown

Tracked == OfferFollowed /\ Versions /\ OldAnswerFollowed /\ CacheShown /\ RepeatShown /\ Informed

-----------------------------------------------------------------------------
(* Its type.                                                                 *)

LEMMA IdleTyped == Idle \in WorkingJobs
BY DEF Idle, WorkingJobs, JobStages

LEMMA WriteTyped ==
  ASSUME TrackType, NEW s \in Statuses, NEW d \in Drivers \cup {Nil}, Write(s, d)
  PROVE  trip' \in Views
BY DEF TrackType, Write, Views

LEMMA TakeUpTyped ==
  ASSUME TrackType, NEW h \in Handlers, NEW at \in JobStages, NEW s \in Statuses \cup {Nil},
         NEW d \in Drivers \cup {Nil}, TakeUp(h, at, s, d)
  PROVE  job' \in [Handlers -> WorkingJobs]
BY DEF TrackType, TakeUp, WorkingJobs

\* A handler writes, and may take on what it has to say.
LEMMA ServerTyped ==
  ASSUME TrackType, trip' \in Views, job' \in [Handlers -> WorkingJobs],
         UNCHANGED <<phone, doubt, missed, overtaken>>, unsaid' \in BOOLEAN
  PROVE  TrackType'
BY DEF TrackType, phone

LEMMA EmitTyped ==
  ASSUME TrackType, NEW es \in Seq(Events), Emit(es)
  PROVE  link' \in [up : BOOLEAN, queue : Seq(Events)]
<1>1. link.queue \in Seq(Events)
  BY DEF TrackType
<1>2. link.queue \o es \in Seq(Events)
  BY <1>1, ConcatProperties
<1>3. Down \in [up : BOOLEAN, queue : Seq(Events)]
  BY DEF Down
<1> QED
  BY <1>2, <1>3 DEF TrackType, Emit

\* What a handler has to say.
Said(h) ==
  IF job[h].at = "offer" THEN <<Offered, Updated(job[h].status)>>
  ELSE IF job[h].driver # Nil THEN <<Accepted(job[h].driver), Updated(job[h].status)>>
  ELSE <<Updated(job[h].status)>>

LEMMA SaidTyped ==
  ASSUME TrackType, NEW h \in Handlers
  PROVE  /\ Said(h) \in Seq(Events) /\ Said(h) # <<>>
         /\ Said(h)[Len(Said(h))].what # "offered"
<1>1. job[h].status \in Shown \cup {Nil} /\ job[h].driver \in Drivers \cup {Nil}
  BY DEF TrackType, WorkingJobs, Shown
<1>2. /\ Updated(job[h].status) \in Events /\ Accepted(job[h].driver) \in Events /\ Offered \in Events
      /\ Updated(job[h].status).what # "offered"
  BY <1>1 DEF Updated, Accepted, Offered, Events, Shown, Statuses, Cancellable, Open, Releasable
<1> HIDE DEF Updated, Accepted, Offered
<1> QED
  BY <1>2 DEF Said

LEMMA AskTyped ==
  ASSUME TrackType, AskTrip
  PROVE  get' \in Gets /\ overtaken' \in BOOLEAN
BY DEF TrackType, AskTrip, Gets

LEMMA TakeHeadTyped ==
  ASSUME TrackType, NEW what, TakeHead(what)
  PROVE  /\ link' \in [up : BOOLEAN, queue : Seq(Events)] /\ Head(link.queue) \in Events
         /\ trip' \in Views /\ job' \in [Handlers -> WorkingJobs] /\ data' \in Views \cup {Nil}
         /\ unsaid' \in BOOLEAN /\ missed' \in BOOLEAN
<1>1. Head(link.queue) \in Events /\ Tail(link.queue) \in Seq(Events)
  BY HeadTailProperties DEF TakeHead, TrackType
<1> QED
  BY <1>1 DEF TakeHead, TrackType, server

LEMMA TrackTypeNext == TrackType /\ [TrackNext]_trackVars => TrackType'
<1> SUFFICES ASSUME TrackType, [TrackNext]_trackVars PROVE TrackType'
  OBVIOUS
<1>0. /\ trip.status \in Statuses /\ trip.driver \in Drivers \cup {Nil} /\ trip \in Views
      /\ job \in [Handlers -> WorkingJobs] /\ unsaid \in BOOLEAN
  BY DEF TrackType, Views
<1>a. {"CANCELLED", "REQUESTED", "ASSIGNED", "ASSIGNING", "ARRIVED", "IN_PROGRESS", "COMPLETED"} \subseteq Statuses
  BY DEF Statuses, Cancellable, Open, Releasable, Ended
<1>b. {"idle", "read", "settle", "finish", "emit", "offer", "dispatch"} = JobStages
  BY DEF JobStages
<1>1. ASSUME NEW h \in Handlers, NEW d \in Drivers, Claim(h, d) PROVE TrackType'
  BY <1>0, <1>1, <1>a, <1>b, WriteTyped, TakeUpTyped, ServerTyped DEF Claim, history
<1>2. ASSUME NEW h \in Handlers, NEW to \in {"ARRIVED", "IN_PROGRESS", "COMPLETED"}, Progress(h, to)
      PROVE  TrackType'
  BY <1>0, <1>2, <1>a, <1>b, WriteTyped, TakeUpTyped, ServerTyped DEF Progress, history
<1>3. ASSUME NEW h \in Handlers, Release(h) \/ Cancel(h) \/ CloseUnclaimed(h) PROVE TrackType'
  BY <1>0, <1>3, <1>a, <1>b, WriteTyped, TakeUpTyped, ServerTyped DEF Release, Cancel, CloseUnclaimed, history
<1>4. ASSUME NEW h \in Handlers, DispatchRead(h) PROVE TrackType'
  BY <1>0, <1>4, <1>b, TakeUpTyped, ServerTyped DEF DispatchRead, history
<1>5. ASSUME NEW h \in Handlers, DispatchOffers(h) PROVE TrackType'
  <2>1. trip' \in Views
    BY <1>0, <1>5, <1>a, WriteTyped DEF DispatchOffers
  <2>2. job' \in [Handlers -> WorkingJobs]
    BY <1>0, <1>5, <1>a, <1>b DEF DispatchOffers, WorkingJobs
  <2> QED
    BY <1>0, <1>5, <2>1, <2>2, ServerTyped DEF DispatchOffers, history
<1>6. ASSUME NEW h \in Handlers, DispatchEnds(h) \/ HandlerFails(h) PROVE TrackType'
  <2>1. job' \in [Handlers -> WorkingJobs] /\ trip' \in Views /\ unsaid' \in BOOLEAN
    BY <1>0, <1>6, IdleTyped DEF DispatchEnds, HandlerFails, HasWritten, history
  <2> QED
    BY <1>6, <2>1, ServerTyped DEF DispatchEnds, HandlerFails, history
<1>7. ASSUME NEW h \in Handlers, SayNoDrivers(h) PROVE TrackType'
  <2>1. <<Updated(NoDriversOnline)>> \in Seq(Events)
    BY DEF Updated, Events, Shown
  <2> QED
    BY <1>0, <1>7, <2>1, EmitTyped, IdleTyped DEF SayNoDrivers, TrackType, history
<1>8. ASSUME NEW h \in Handlers, Speak(h) PROVE TrackType'
  <2>1. Emit(Said(h))
    BY <1>8 DEF Speak, Said
  <2> QED
    BY <1>0, <1>8, <2>1, SaidTyped, EmitTyped, IdleTyped DEF Speak, TrackType, history
<1>9. ASSUME NEW h \in Handlers, ReadBack(h) PROVE TrackType'
  <2>1. job' \in [Handlers -> WorkingJobs]
    BY <1>0, <1>9, <1>b DEF ReadBack, WorkingJobs
  <2> QED
    BY <1>0, <1>9, <2>1, ServerTyped DEF ReadBack, history
<1>10. ASSUME NEW h \in Handlers, FinishRow(h) PROVE TrackType'
  <2>1. job' \in [Handlers -> WorkingJobs]
    <3>1. [job[h] EXCEPT !.at = "emit", !.driver = Nil] \in WorkingJobs
      BY <1>0, <1>b DEF WorkingJobs
    <3>2. job' = [job EXCEPT ![h] = [job[h] EXCEPT !.at = "emit", !.driver = Nil]]
      BY <1>0, <1>10 DEF FinishRow
    <3> QED
      BY <1>0, <3>1, <3>2
  <2>2. trip' \in Views
    <3> DEFINE d == IF trip.driver = job[h].driver THEN Nil ELSE trip.driver
    <3>1. trip' = [trip EXCEPT !.driver = d, !.ver = trip.ver + 1]
      BY <1>10 DEF FinishRow
    <3>2. d \in Drivers \cup {Nil} /\ trip.ver + 1 \in Nat
      BY <1>0 DEF Views
    <3> HIDE DEF d
    <3> QED
      BY <1>0, <3>1, <3>2 DEF Views
  <2> QED
    BY <1>0, <1>10, <2>1, <2>2, ServerTyped DEF FinishRow, history
<1>11. CASE \E to \in Forced : Patch(to)
  BY <1>0, <1>11, ForcedAssumption, WriteTyped, ServerTyped DEF Patch
<1>12. CASE OfferEnds
  BY <1>0, <1>12, WriteTyped, ServerTyped DEF OfferEnds, history
<1>13. CASE Restart
  BY <1>0, <1>13, IdleTyped DEF Restart, TrackType, Down, HasWritten
<1>14. CASE Connect
  BY <1>0, <1>14, AskTyped DEF Connect, TrackType, server
<1>15. CASE Drop
  BY <1>0, <1>15 DEF Drop, TrackType, server, history, Down
<1>16. CASE ServeTrip
  BY <1>0, <1>16 DEF ServeTrip, TrackType, server, history, Gets
<1>17. CASE TakeTrip
  <2>1. get.answer \in Views
    BY <1>17 DEF TakeTrip, TrackType, Gets, NoGet, Asked
  <2>2. AsAnswered(get.answer) \in [live : Shown \cup {Nil}, driver : Drivers \cup {Nil}]
    BY <2>1 DEF AsAnswered, TrackType, Views, Shown
  <2> QED
    BY <1>0, <1>17, <2>1, <2>2 DEF TakeTrip, TrackType, server, Gets
<1>18. CASE LoseTrip
  BY <1>0, <1>18 DEF LoseTrip, TrackType, server, Gets
<1>19. CASE TakeUpdated
  <2>1. Head(link.queue) \in Events
    BY <1>19, TakeHeadTyped DEF TakeUpdated
  <2>2. screen' \in [live : Shown \cup {Nil}, driver : Drivers \cup {Nil}] /\ doubt' \subseteq {"status", "driver"}
    BY <1>19, <2>1 DEF TakeUpdated, TrackType, Events, Doubting
  <2> QED
    BY <1>19, <2>2, TakeHeadTyped, AskTyped DEF TakeUpdated, TrackType
<1>20. CASE TakeAccepted
  <2>1. Head(link.queue) \in Events
    BY <1>20, TakeHeadTyped DEF TakeAccepted
  <2>2. screen' \in [live : Shown \cup {Nil}, driver : Drivers \cup {Nil}] /\ doubt' \subseteq {"status", "driver"}
    BY <1>20, <2>1, <1>a DEF TakeAccepted, Events, Shown
  <2> QED
    BY <1>20, <2>2, TakeHeadTyped, AskTyped DEF TakeAccepted, TrackType
<1>21. CASE TakeOffered
  <2>1. screen' \in [live : Shown \cup {Nil}, driver : Drivers \cup {Nil}] /\ doubt' \subseteq {"status", "driver"}
    BY <1>21, <1>a DEF TakeOffered, TrackType, Shown, Doubting
  <2> QED
    BY <1>21, <2>1, TakeHeadTyped DEF TakeOffered, TrackType
<1>22. CASE UNCHANGED trackVars
  BY <1>22 DEF trackVars, server, history, TrackType
<1> QED
  BY <1>1, <1>2, <1>3, <1>4, <1>5, <1>6, <1>7, <1>8, <1>9, <1>10, <1>11, <1>12, <1>13, <1>14, <1>15,
     <1>16, <1>17, <1>18, <1>19, <1>20, <1>21, <1>22
  DEF TrackNext, ServerNext, PhoneNext, HandlerStep, TakeEvent

-----------------------------------------------------------------------------
(* What the phone does not show is still to come.                            *)

\* Steps of the server: the phone, and what it has heard, stay as they are.
PhoneStays == UNCHANGED <<screen, data, get, doubt, missed, overtaken>> /\ (unsaid => unsaid')

LEMMA StillCurrent ==
  ASSUME UNCHANGED trip
  PROVE  /\ \A answer : Current(answer)' <=> Current(answer)
         /\ UNCHANGED <<screen, doubt>> => (IsShown' <=> IsShown)
BY DEF Current, IsShown

\* A write that somebody will tell of, or nobody.
LEMMA WriteTracked ==
  ASSUME TrackType, Tracked, PhoneStays, UNCHANGED link,
         trip' \in Views, trip'.ver = trip.ver + 1, News' \/ unsaid'
  PROVE  Tracked'
<1>1. trip \in Views /\ trip.ver \in Nat /\ (data # Nil => data \in Views /\ data.ver \in Nat)
      /\ (get.at = "answered" => get.answer.ver \in Nat)
  BY DEF TrackType, Views, Gets, NoGet, Asked
<1>2. Versions'
  BY <1>1 DEF Versions, Tracked, PhoneStays
<1>3. CacheShown'
  BY <1>1, DriverAssumption DEF CacheShown, Versions, Tracked, PhoneStays
<1> QED
  BY <1>2, <1>3 DEF Tracked, OfferFollowed, OldAnswerFollowed, RepeatShown, Informed, Undisturbed, PhoneStays

\* A step that writes nothing, and leaves something to be said if there was.
LEMMA QuietTracked ==
  ASSUME TrackType, Tracked, PhoneStays, UNCHANGED trip, OfferFollowed',
         News => News' \/ unsaid'
  PROVE  Tracked'
<1> USE StillCurrent DEF PhoneStays
<1>1. Versions' /\ CacheShown'
  BY DEF Versions, CacheShown, Tracked
<1>2. OldAnswerFollowed' /\ RepeatShown'
  BY DEF OldAnswerFollowed, RepeatShown, Tracked
<1>3. Informed'
  BY DEF Informed, Undisturbed, Tracked
<1> QED
  BY <1>1, <1>2, <1>3 DEF Tracked

LEMMA EmitFollowed ==
  ASSUME TrackType, Tracked, NEW es \in Seq(Events), es # <<>>, es[Len(es)].what # "offered", Emit(es)
  PROVE  News' /\ OfferFollowed'
<1>1. CASE link' = link /\ ~link.up
  BY <1>1 DEF News, OfferFollowed, Tracked
<1>2. CASE link' = Down
  BY <1>2 DEF News, OfferFollowed, Down
<1>3. CASE link' = [link EXCEPT !.queue = @ \o es]
  <2>1. link.queue \in Seq(Events) /\ link'.queue = link.queue \o es
    BY <1>3 DEF TrackType
  <2>2. Len(es) \in Nat \ {0} /\ Len(link.queue) \in Nat
    BY <2>1, LenProperties
  <2>3. /\ Len(link'.queue) = Len(link.queue) + Len(es)
        /\ \A i \in 1 .. Len(link.queue) + Len(es) :
             link'.queue[i] = IF i <= Len(link.queue) THEN link.queue[i] ELSE es[i - Len(link.queue)]
    BY <2>1, ConcatProperties
  <2>4. link'.queue[Len(link'.queue)] = es[Len(es)]
    BY <2>2, <2>3
  <2>5. link'.queue # <<>>
    BY <2>2, <2>3
  <2> QED
    BY <2>4, <2>5 DEF News, OfferFollowed
<1> QED
  BY <1>1, <1>2, <1>3 DEF Emit

LEMMA TakeUpNews ==
  ASSUME TrackType, NEW h \in Handlers, NEW at, NEW s, NEW d, at \notin {"idle", "dispatch"},
         TakeUp(h, at, s, d)
  PROVE  News'
BY DEF TrackType, TakeUp, News, HasWritten

LEMMA ServerTracked ==
  ASSUME TrackType, TrackType', Tracked, ServerNext
  PROVE  Tracked'
<1>0. trip \in Views /\ trip' \in Views /\ trip.ver \in Nat /\ job \in [Handlers -> WorkingJobs]
  BY DEF TrackType, Views
<1>a. ASSUME NEW s, NEW d, Write(s, d) PROVE trip'.ver = trip.ver + 1
  BY <1>a DEF Write
<1>b. link' = link => OfferFollowed'
  BY DEF Tracked, OfferFollowed
<1>1. ASSUME NEW h \in Handlers,
             \/ \E d \in Drivers : Claim(h, d)
             \/ \E to \in {"ARRIVED", "IN_PROGRESS", "COMPLETED"} : Progress(h, to)
             \/ Release(h) \/ Cancel(h) \/ CloseUnclaimed(h)
      PROVE  Tracked'
  <2>1. trip'.ver = trip.ver + 1 /\ PhoneStays /\ UNCHANGED link
    BY <1>a, <1>1 DEF Claim, Progress, Release, Cancel, CloseUnclaimed, phone, history, PhoneStays
  <2>2. News'
    BY <1>1, TakeUpNews DEF Claim, Progress, Release, Cancel, CloseUnclaimed
  <2> QED
    BY <1>0, <2>1, <2>2, WriteTracked
<1>2. ASSUME NEW h \in Handlers, DispatchOffers(h) PROVE Tracked'
  <2>1. trip'.ver = trip.ver + 1 /\ PhoneStays /\ UNCHANGED link
    BY <1>a, <1>2 DEF DispatchOffers, phone, history, PhoneStays
  <2>2. job'[h].at = "offer"
    BY <1>0, <1>2 DEF DispatchOffers, WorkingJobs
  <2> QED
    BY <1>0, <2>1, <2>2, WriteTracked DEF News, HasWritten
<1>3. ASSUME NEW to \in Forced, Patch(to) PROVE Tracked'
  BY <1>0, <1>a, <1>3, WriteTracked DEF Patch, phone, PhoneStays
<1>4. ASSUME NEW h \in Handlers, FinishRow(h) PROVE Tracked'
  <2>1. trip'.ver = trip.ver + 1 /\ PhoneStays /\ UNCHANGED link
    BY <1>0, <1>4 DEF FinishRow, phone, history, PhoneStays, Views
  <2>2. job'[h].at = "emit"
    BY <1>0, <1>4 DEF FinishRow, WorkingJobs
  <2> QED
    BY <1>0, <2>1, <2>2, WriteTracked DEF News, HasWritten
<1>5. CASE OfferEnds
  <2>1. /\ trip'.ver = trip.ver + 1 /\ trip'.status = trip.status /\ trip'.driver = trip.driver
        /\ UNCHANGED <<link, job, screen, data, get, history>>
    BY <1>5 DEF OfferEnds, Write, phone
  <2>2. data # trip'
    BY <1>0, <2>1, DriverAssumption DEF Tracked, Versions, TrackType, Views
  <2>3. /\ IsShown' <=> IsShown
        /\ News' <=> News
        /\ \A answer : Current(answer)' <=> Current(answer)
    BY <2>1 DEF IsShown, News, HasWritten, Current, history
  <2>4. Versions'
    BY <1>0, <2>1 DEF Tracked, Versions, TrackType, Views, Gets, NoGet, Asked
  <2> QED
    BY <1>b, <2>1, <2>2, <2>3, <2>4
    DEF Tracked, OldAnswerFollowed, CacheShown, RepeatShown, Informed, Undisturbed, history
<1>6. ASSUME NEW h \in Handlers, DispatchRead(h) \/ DispatchEnds(h) PROVE Tracked'
  <2>1. UNCHANGED <<trip, phone, history>>
    BY <1>6 DEF DispatchRead, DispatchEnds
  <2>2. \A g \in Handlers : HasWritten(g) => g # h /\ job'[g] = job[g]
    BY <1>0, <1>6 DEF DispatchRead, DispatchEnds, TakeUp, HasWritten, Idle
  <2>3. News => News'
    BY <2>1, <2>2 DEF News, HasWritten, phone
  <2> QED
    BY <1>b, <2>1, <2>3, QuietTracked DEF PhoneStays, phone, history
<1>7. ASSUME NEW h \in Handlers, ReadBack(h) PROVE Tracked'
  <2>1. job'[h].at \in {"finish", "emit"} /\ UNCHANGED <<trip, phone, history>>
    BY <1>0, <1>7 DEF ReadBack, WorkingJobs
  <2> QED
    BY <1>b, <2>1, QuietTracked DEF PhoneStays, phone, history, News, HasWritten
<1>8. ASSUME NEW h \in Handlers, HandlerFails(h) PROVE Tracked'
  <2>1. UNCHANGED <<trip, phone, doubt, missed, overtaken>> /\ unsaid' = (unsaid \/ HasWritten(h))
    BY <1>8 DEF HandlerFails
  <2>2. \A g \in Handlers \ {h} : job'[g] = job[g]
    BY <1>0, <1>8 DEF HandlerFails
  <2>3. News => News' \/ unsaid'
    BY <2>1, <2>2 DEF News, HasWritten, phone
  <2> QED
    BY <1>b, <2>1, <2>3, QuietTracked DEF PhoneStays, phone
<1>9. ASSUME NEW h \in Handlers, Speak(h) PROVE Tracked'
  <2>1. Emit(Said(h)) /\ UNCHANGED <<trip, screen, data, get, history>>
    BY <1>9 DEF Speak, Said
  <2> QED
    BY <2>1, SaidTyped, EmitFollowed, QuietTracked DEF PhoneStays, history
<1>10. ASSUME NEW h \in Handlers, SayNoDrivers(h) PROVE Tracked'
  <2> DEFINE es == <<Updated(NoDriversOnline)>>
  <2>1. es \in Seq(Events) /\ es # <<>> /\ es[Len(es)].what # "offered"
    BY DEF Updated, Events, Shown
  <2>2. Emit(es) /\ UNCHANGED <<trip, screen, data, get, history>>
    BY <1>10 DEF SayNoDrivers
  <2> QED
    BY <2>1, <2>2, EmitFollowed, QuietTracked DEF PhoneStays, history
<1>11. CASE Restart
  BY <1>11, QuietTracked DEF Restart, PhoneStays, News, OfferFollowed, Down
<1> QED
  BY <1>1, <1>2, <1>3, <1>4, <1>5, <1>6, <1>7, <1>8, <1>9, <1>10, <1>11 DEF ServerNext, HandlerStep

-----------------------------------------------------------------------------
(* The phone's own steps.                                                    *)

\* The phone asks again, and an answer it will wait for either is fresh or is known not to be.
LEMMA AskTracked ==
  ASSUME TrackType, Tracked, AskTrip, UNCHANGED <<server, data, unsaid, missed>>,
         OfferFollowed', data = trip => IsShown'
  PROVE  Tracked'
<1>1. \/ get' = Asked
      \/ get' = get /\ get # NoGet /\ data = Nil /\ (get.at = "answered" => overtaken')
  BY DEF AskTrip, TrackType
<1>2. Asked.at # "answered" /\ Asked # NoGet /\ (get.at = "answered" => get.answer \in Views)
  BY DEF Asked, NoGet, TrackType, Gets
<1>3. Versions' /\ CacheShown' /\ OldAnswerFollowed' /\ RepeatShown' /\ Informed'
  BY <1>1, <1>2, DriverAssumption
  DEF Tracked, Versions, CacheShown, OldAnswerFollowed, RepeatShown, Informed, server
<1> QED
  BY <1>3 DEF Tracked

\* Events are taken in order.
LEMMA TailFollowed ==
  ASSUME TrackType, Tracked, NEW what, TakeHead(what)
  PROVE  OfferFollowed' /\ (what = "offered" => News')
<1> DEFINE q == link.queue
<1>1. q \in Seq(Events) /\ q # <<>> /\ link'.queue = Tail(q) /\ Head(q) = q[1] /\ q[1].what = what
  BY DEF TakeHead, TrackType
<1>2. /\ Tail(q) \in Seq(Events) /\ Len(Tail(q)) = Len(q) - 1 /\ Len(q) \in Nat \ {0}
      /\ \A i \in 1 .. Len(Tail(q)) : Tail(q)[i] = q[i + 1]
  BY <1>1, HeadTailProperties, LenProperties
<1> HIDE DEF q
<1>3. CASE Tail(q) = <<>>
  <2>1. Len(q) = 1
    BY <1>2, <1>3, EmptySeq
  <2> QED
    BY <1>1, <1>3, <2>1 DEF OfferFollowed, Tracked, q
<1>4. CASE Tail(q) # <<>>
  <2>1. Len(Tail(q)) \in Nat \ {0}
    BY <1>2, <1>4, EmptySeq
  <2>2. Tail(q)[Len(Tail(q))] = q[Len(q)]
    BY <1>2, <2>1
  <2> QED
    BY <1>1, <1>2, <1>4, <2>2 DEF OfferFollowed, Tracked, News, q
<1> QED
  BY <1>3, <1>4

\* What an event sets on the screen is right, or known to be outdated.
LEMMA UpdatedShown ==
  ASSUME TrackType, TakeUpdated, IsShown
  PROVE  IsShown'
<1> DEFINE s == Head(link.queue).status
<1>1. /\ screen'.live = s /\ screen'.driver = screen.driver /\ trip' = trip
      /\ doubt' = Doubting("status", Outdated(s))
  BY DEF TakeUpdated, TakeHead, TrackType, server
<1> QED
  BY <1>1 DEF Doubting, Outdated, IsShown

LEMMA AcceptedShown ==
  ASSUME TrackType, TakeAccepted
  PROVE  IsShown'
<1> DEFINE d == Head(link.queue).driver
<1>1. /\ screen'.live = "ASSIGNED" /\ screen'.driver = d /\ trip' = trip
      /\ doubt' = {what \in {"status", "driver"} :
                     IF what = "driver" THEN d # trip.driver ELSE Outdated("ASSIGNED")}
  BY DEF TakeAccepted, TakeHead, server
<1> QED
  BY <1>1 DEF Outdated, IsShown, NoDriversOnline

LEMMA OfferedShown ==
  ASSUME TrackType, TakeOffered, IsShown
  PROVE  IsShown'
<1>1. trip' = trip
  BY DEF TakeOffered, TakeHead, server
<1>2. CASE screen.live # "REQUESTED"
  BY <1>1, <1>2 DEF TakeOffered, IsShown
<1>3. CASE screen.live = "REQUESTED"
  <2>1. /\ screen'.live = "ASSIGNING" /\ screen'.driver = screen.driver
        /\ doubt' = Doubting("status", Outdated("ASSIGNING"))
    BY <1>3 DEF TakeOffered, TrackType
  <2> QED
    BY <1>1, <2>1 DEF Doubting, Outdated, IsShown, NoDriversOnline
<1> QED
  BY <1>2, <1>3

LEMMA EventTracked == ASSUME TrackType, Tracked, TakeEvent PROVE Tracked'
<1>1. CASE TakeUpdated
  BY <1>1, TailFollowed, UpdatedShown, AskTracked DEF TakeUpdated, TakeHead, Tracked, CacheShown, server
<1>2. CASE TakeAccepted
  BY <1>2, TailFollowed, AcceptedShown, AskTracked DEF TakeAccepted, TakeHead, server
<1>3. CASE TakeOffered
  <2>1. /\ OfferFollowed' /\ News' /\ UNCHANGED <<server, data, unsaid, missed, get, overtaken>>
    BY <1>3, TailFollowed DEF TakeOffered, TakeHead
  <2>2. data = trip => IsShown'
    BY <1>3, OfferedShown DEF Tracked, CacheShown
  <2> QED
    BY <2>1, <2>2 DEF Tracked, Versions, CacheShown, OldAnswerFollowed, RepeatShown, Informed, server
<1> QED
  BY <1>1, <1>2, <1>3 DEF TakeEvent

LEMMA TakeTracked == ASSUME TrackType, Tracked, TakeTrip PROVE Tracked'
<1> DEFINE a == get.answer
<1>1. /\ a \in Views /\ get.at = "answered" /\ data' = a /\ get' = NoGet
      /\ UNCHANGED <<trip, job, link>>
      /\ unsaid' = (unsaid /\ a # trip) /\ overtaken' = (overtaken /\ data = Nil)
  BY DEF TakeTrip, TrackType, Gets, NoGet, Asked, server
<1>2. OfferFollowed' /\ (News' <=> News) /\ a.ver <= trip.ver
  BY <1>1 DEF Tracked, OfferFollowed, News, HasWritten, Versions
<1>3. ASSUME Current(a), a # data PROVE IsShown'
  <2>1. /\ screen'.live = (IF screen.live = NoDriversOnline /\ trip.status \in Searching
                             THEN screen.live ELSE trip.status)
        /\ screen'.driver = trip.driver
    BY <1>3 DEF TakeTrip, AsAnswered, Current
  <2>2. trip.status \in Searching => trip.status \in Open
    BY DEF TrackType, Views, Searching, Statuses, Cancellable, Open, Releasable, Ended, NoDriversOnline
  <2> QED
    BY <1>1, <2>1, <2>2 DEF IsShown
<1>4. ASSUME a = data, IsShown PROVE IsShown'
  BY <1>1, <1>4 DEF TakeTrip, IsShown
<1>5. CacheShown'
  <2> SUFFICES ASSUME a = trip PROVE IsShown'
    BY <1>1 DEF CacheShown
  <2>1. Current(a)
    BY DEF Current
  <2> QED
    BY <1>3, <1>4, <2>1 DEF Tracked, CacheShown
<1>6. Informed'
  <2> SUFFICES ASSUME ~unsaid', ~overtaken', ~News' PROVE IsShown'
    BY DEF Informed, Undisturbed
  <2>1. CASE a = trip
    BY <1>1, <1>5, <2>1 DEF CacheShown
  <2>2. CASE a # trip
    <3>1. ~unsaid /\ ~News /\ ~(overtaken /\ data = Nil)
      BY <1>1, <1>2, <2>2
    <3>2. Current(a)
      BY <1>1, <3>1 DEF Tracked, OldAnswerFollowed
    <3>3. a = data => IsShown
      BY <1>1, <3>1 DEF Tracked, RepeatShown
    <3> QED
      BY <1>3, <1>4, <3>2, <3>3
  <2> QED
    BY <2>1, <2>2
<1>7. OldAnswerFollowed' /\ RepeatShown'
  BY <1>1 DEF OldAnswerFollowed, RepeatShown, NoGet
<1>8. Versions'
  BY <1>1, <1>2 DEF Versions, NoGet
<1> QED
  BY <1>2, <1>5, <1>6, <1>7, <1>8 DEF Tracked

LEMMA PhoneTracked ==
  ASSUME TrackType, Tracked, PhoneNext
  PROVE  Tracked'
<1>1. CASE Connect
  <2>1. OfferFollowed' /\ (IsShown' <=> IsShown)
    BY <1>1 DEF Connect, OfferFollowed, IsShown, server
  <2> QED
    BY <1>1, <2>1, AskTracked DEF Connect, Tracked, CacheShown
<1>2. CASE Drop
  BY <1>2, QuietTracked DEF Drop, PhoneStays, News, OfferFollowed, Down, server, history
<1>3. CASE ServeTrip
  <2>1. /\ get' = [at |-> "answered", answer |-> trip]
        /\ UNCHANGED <<trip, job, link, screen, data, doubt, unsaid, missed, overtaken>>
    BY <1>3 DEF ServeTrip, server, history
  <2>2. get' # NoGet /\ get'.at = "answered" /\ get'.answer = trip
    BY <2>1 DEF NoGet
  <2>3. IsShown' <=> IsShown
    BY <2>1 DEF IsShown
  <2>4. Versions'
    BY <2>1, <2>2 DEF Tracked, Versions, TrackType, Views
  <2> QED
    BY <2>1, <2>2, <2>3, <2>4
    DEF Tracked, OfferFollowed, OldAnswerFollowed, CacheShown, RepeatShown, Informed, Current
<1>4. CASE TakeTrip
  BY <1>4, TakeTracked
<1>5. CASE LoseTrip
  <2>1. get'.at # "answered" /\ missed' /\ UNCHANGED <<trip, job, link, screen, data, doubt, unsaid, overtaken>>
    BY <1>5 DEF LoseTrip, NoGet, server
  <2>2. IsShown' <=> IsShown
    BY <2>1 DEF IsShown
  <2> QED
    BY <2>1, <2>2
    DEF Tracked, OfferFollowed, Versions, OldAnswerFollowed, CacheShown, RepeatShown, Informed, Undisturbed
<1>6. CASE TakeEvent
  BY <1>6, EventTracked
<1> QED
  BY <1>1, <1>2, <1>3, <1>4, <1>5, <1>6 DEF PhoneNext

LEMMA TrackedNext == TrackType /\ TrackType' /\ Tracked /\ [TrackNext]_trackVars => Tracked'
<1> SUFFICES ASSUME TrackType, TrackType', Tracked, [TrackNext]_trackVars PROVE Tracked'
  OBVIOUS
<1>1. CASE UNCHANGED trackVars
  <2>1. PhoneStays /\ UNCHANGED <<trip, job, link>>
    BY <1>1 DEF trackVars, server, history, PhoneStays
  <2> QED
    BY <2>1, QuietTracked DEF News, HasWritten, OfferFollowed, Tracked
<1> QED
  BY <1>1, ServerTracked, PhoneTracked DEF TrackNext

LEMMA TrackStart == TrackInit => TrackType /\ Tracked
<1> SUFFICES ASSUME TrackInit PROVE TrackType /\ Tracked
  OBVIOUS
<1>1. TrackType
  BY EmptySeq DEF TrackInit, TrackType, Views, WorkingJobs, JobStages, Idle, Down, NewScreen, Gets, Shown,
     Statuses, Cancellable, Open
<1>2. Tracked
  BY <1>1 DEF TrackInit, TrackType, Tracked, OfferFollowed, Versions, OldAnswerFollowed, CacheShown, RepeatShown,
     Informed, IsShown, News, Down, NewScreen, Asked, NoGet
<1> QED
  BY <1>1, <1>2

\* When all is quiet, the passenger sees the ride as it is, its status and its driver, unless the
\* last event heard of one or the other was outdated: for any number of handlers, writes and
\* events, with reconnects, restarts and answers crossing in any way.
THEOREM RideShown == TrackSpec => []RideIsShown
<1>1. TrackType /\ Tracked => RideIsShown
  <2> SUFFICES ASSUME TrackType, Tracked, Quiet, Undisturbed PROVE IsShown
    BY DEF RideIsShown, IsShown
  <2>1. ~News /\ get = NoGet
    BY DEF Quiet, News, HasWritten, Idle
  <2> QED
    BY <2>1 DEF Tracked, Informed
<1> QED
  BY <1>1, TrackStart, TrackTypeNext, TrackedNext, PTL DEF TrackSpec

=============================================================================
