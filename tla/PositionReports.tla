--------------------------- MODULE PositionReports ---------------------------
(***************************************************************************)
(* Where the car is, told from the screen of an active trip or delivery:   *)
(* the hooks that watch the phone's position and post it                   *)
(* (useDriverLocation, useRiderLocation), the handlers that store it       *)
(* (modules/tracking), and the watch over the route of a delivery, which   *)
(* counts in Delivery.metadata how many points in a row were off it        *)
(* (evaluateTrackingSafety).                                               *)
(*                                                                         *)
(* One trip or delivery and its driver.  Of a point the model keeps        *)
(* whether it is off the route and too fast; a point is stamped by the     *)
(* server, so that none is ever stale.  A route is stored when the         *)
(* delivery is made, so that none is built here.                           *)
(*                                                                         *)
(* A driver's position is stored by others, too: the live report of the    *)
(* socket and the beacon of the screen that waits for rides.  Both are     *)
(* live reports here: nobody awaits them, and they store a position only.  *)
(***************************************************************************)
EXTENDS Naturals

CONSTANTS
  Visits,  \* BOUND: visits of the screen that have a watch or a report left
  Posts,   \* BOUND: reports under way
  MaxRow,  \* BOUND: points in a row told apart
  None     \* no visit

ASSUME NoneAssumption == None \notin Visits
ASSUME MaxRowAssumption == MaxRow \in Nat

VARIABLES
  kind,     \* a ride or a delivery
  visit,    \* per visit of the screen: is it open, its watch, its inFlight
  post,     \* the reports under way
  count,    \* metadata.routeSafety.consecutiveDeviationCount
  earned,   \* history: points off the route since a point on it left no row
  carried,  \* history: those of rows ended while another judgement had the count in hand
  muddled   \* history: has a judgement overlapped another, or failed, since the last end
            \* that nobody overlapped?

phone == <<kind, visit>>
route == <<count, earned, carried, muddled>>
vars == <<kind, visit, post, count, earned, carried, muddled>>

OneMore(n) == IF n < MaxRow THEN n + 1 ELSE n
Capped(n) == IF n < MaxRow THEN n ELSE MaxRow

NoVisit == [open |-> FALSE, watch |-> "none", busy |-> FALSE]
NoPost == [at |-> "none", what |-> "fine", seen |-> 0,
           by |-> None, awaited |-> FALSE, before |-> {}, late |-> {}]

Init ==
  /\ kind \in {"ride", "delivery"}
  /\ visit = [v \in Visits |-> NoVisit]
  /\ post = [p \in Posts |-> NoPost]
  /\ count = 0 /\ earned = 0 /\ carried = 0 /\ muddled = FALSE

\* The handler has read the count and may still write it.
InHand == {"read", "stored", "judged", "noted"}
Ended == {"done", "failed"}

-----------------------------------------------------------------------------
(* The phone.                                                                *)

Mount(v) ==
  /\ \A w \in Visits : ~visit[w].open
  /\ visit[v] = NoVisit /\ \A p \in Posts : post[p].by # v
  /\ visit' = [visit EXCEPT ![v] = [open |-> TRUE, watch |-> "asking", busy |-> FALSE]]
  /\ UNCHANGED <<kind, post, route>>

\* Permission, and the mark on the disk; without permission the hook gives up.
Permit(v) ==
  /\ visit[v].watch = "asking"
  /\ \E answer \in {"opening", "none"} : visit' = [visit EXCEPT ![v].watch = answer]
  /\ UNCHANGED <<kind, post, route>>

\* The watch is granted, whether or not its screen is still there.
Watch(v) ==
  /\ visit[v].watch = "opening"
  /\ \E answer \in {"on", "none"} : visit' = [visit EXCEPT ![v].watch = answer]
  /\ UNCHANGED <<kind, post, route>>

\* The cleanup removes the subscription it knows of.
Unmount(v) ==
  /\ visit[v].open
  /\ visit' = [visit EXCEPT ![v].open = FALSE,
                            ![v].watch = IF @ = "on" THEN "none" ELSE @]
  /\ UNCHANGED <<kind, post, route>>

\* The reports of a ride whose position is still to be stored, whoever sent them.
Sent == {q \in Posts : post[q].at \in {"sent", "read", "stored"}}

Kill ==
  /\ \E v \in Visits : visit[v] # NoVisit
  /\ visit' = [v \in Visits |-> NoVisit]
  /\ post' = [p \in Posts |-> IF post[p].at \in Ended THEN NoPost
                               ELSE [post[p] EXCEPT !.awaited = FALSE, !.before = @ \cap Sent]]
  /\ UNCHANGED <<kind, route>>

\* A ride's report remembers who awaits it, and those sent before it.
Report(v) == [NoPost EXCEPT !.at = "sent", !.by = v, !.awaited = TRUE, !.before = Sent]

\* Mutant: the next fix overtakes a slow request.
MoveOverlapping(p, v) ==
  /\ kind = "ride" /\ visit[v].watch = "on"
  /\ post[p] = NoPost /\ post' = [post EXCEPT ![p] = Report(v)]
  /\ visit' = [visit EXCEPT ![v].busy = TRUE]
  /\ UNCHANGED <<kind, route>>

\* A fix far enough, in time and place, from the last one sent.
Move(p, v) ==
  /\ kind = "ride" /\ visit[v].watch = "on" /\ ~visit[v].busy
  /\ post[p] = NoPost /\ post' = [post EXCEPT ![p] = Report(v)]
  /\ visit' = [visit EXCEPT ![v].busy = TRUE]
  /\ UNCHANGED <<kind, route>>

\* The trip's screen tells the socket, the screen below it tells the API.
MoveLive(p) ==
  /\ kind = "ride"
  /\ post[p] = NoPost
  /\ post' = [post EXCEPT ![p] = [NoPost EXCEPT !.at = "sent", !.what = "live", !.before = Sent]]
  /\ UNCHANGED <<phone, route>>

\* The rider's hook posts every fix, and does not wait for the answer.  A point that
\* is off the route is judged as that, however fast.
MoveParcel(p, what) ==
  /\ kind = "delivery" /\ \E v \in Visits : visit[v].watch = "on"
  /\ post[p] = NoPost /\ post' = [post EXCEPT ![p] = [NoPost EXCEPT !.at = "sent", !.what = what]]
  /\ UNCHANGED <<phone, route>>

\* Mutant: a request that failed leaves the mark behind.
EndKeepsMark(v, succeeded) ==
  visit' = [visit EXCEPT ![v].busy = @ /\ ~succeeded]

\* The mark is cleared however the request ends.
End(v, succeeded) ==
  visit' = [visit EXCEPT ![v].busy = FALSE]

Over(p) ==
  post' = [q \in Posts |-> IF q = p THEN NoPost ELSE [post[q] EXCEPT !.before = @ \ {p}]]

Answer(p) ==
  /\ post[p].at \in Ended /\ post[p].awaited
  /\ End(post[p].by, post[p].at = "done")
  /\ Over(p)
  /\ UNCHANGED <<kind, route>>

\* The request times out, wherever it is; an answer on its way is lost.
GiveUp(p) ==
  /\ post[p].awaited
  /\ End(post[p].by, FALSE)
  /\ IF post[p].at \in Ended THEN Over(p) ELSE post' = [post EXCEPT ![p].awaited = FALSE]
  /\ UNCHANGED <<kind, route>>

Lose(p) ==
  /\ post[p].at = "sent" /\ ~post[p].awaited
  /\ Over(p)
  /\ UNCHANGED <<phone, route>>

-----------------------------------------------------------------------------
(* The handlers, one action per await.                                       *)

\* An answer nobody awaits is lost.
Step(p, at) ==
  IF at \in Ended /\ ~post[p].awaited THEN Over(p) ELSE post' = [post EXCEPT ![p].at = at]

\* The delivery is read once, its metadata with it.
ReadJob(p) ==
  /\ post[p].at = "sent" /\ post[p].what # "live"
  /\ post' = [post EXCEPT ![p].at = "read", ![p].seen = count]
  /\ muddled' = (muddled \/ (kind = "delivery" /\ \E q \in Posts : post[q].at \in InHand))
  /\ UNCHANGED <<phone, count, earned, carried>>

StorePoint(p) ==
  /\ post[p].at = "read"
  /\ Step(p, "stored")
  /\ UNCHANGED <<phone, route>>

\* The position is next.
Positioning(p) ==
  post[p].at = "stored" \/ (kind = "ride" /\ post[p].at = "sent" /\ post[p].what = "live")

\* Who has overtaken q when p has stored a later position.
Overtaker(p, q) == IF post[p].by = post[q].by /\ post[p].by # None THEN "own" ELSE "other"

\* The profile's position; reports that were sent before and come later put it back.
\* A ride's report is done, a delivery's point is judged.
StorePosition(p) ==
  /\ Positioning(p)
  /\ IF kind = "delivery" THEN Step(p, "judged")
     ELSE post' = [q \in Posts |->
            CASE q = p -> IF post[p].awaited THEN [post[p] EXCEPT !.at = "done", !.before = {}]
                                     ELSE NoPost
              [] q # p -> [post[q] EXCEPT !.before = @ \ {p}, !.late = @ \cup
                             IF q \in post[p].before \cap Sent THEN {Overtaker(p, q)} ELSE {}]]
  /\ UNCHANGED <<phone, route>>

\* Nobody else has the count in hand.
Alone(p) == \A q \in Posts \ {p} : post[q].at \notin InHand

\* On the route: a row that was there when the delivery was read is over, also one that
\* somebody else has in hand, and may bring back.
Fine(p) ==
  /\ post[p].at = "judged" /\ post[p].what = "fine"
  /\ count' = IF post[p].seen # 0 THEN 0 ELSE count
  /\ IF count' # 0 THEN UNCHANGED <<earned, carried, muddled>>
     ELSE /\ earned' = 0
          /\ carried' = IF Alone(p) THEN 0 ELSE Capped(carried + earned)
          /\ muddled' = (muddled /\ ~Alone(p))
  /\ Step(p, "done")
  /\ UNCHANGED phone

\* The SuspiciousActivity row.
Note(p) ==
  /\ post[p].at = "judged" /\ post[p].what # "fine"
  /\ earned' = IF post[p].what = "away" THEN OneMore(earned) ELSE earned
  /\ Step(p, "noted")
  /\ UNCHANGED <<phone, count, carried, muddled>>

\* Mutant: whatever is suspicious adds to the row.
SaveAny(p) ==
  /\ post[p].at = "noted"
  /\ count' = OneMore(post[p].seen)
  /\ Step(p, IF post[p].what = "away" THEN "saved" ELSE "done")
  /\ UNCHANGED <<phone, earned, carried, muddled>>

\* The count as it was read, one more if the point is off the route.
Save(p) ==
  /\ post[p].at = "noted"
  /\ count' = IF post[p].what = "away" THEN OneMore(post[p].seen) ELSE post[p].seen
  /\ Step(p, IF post[p].what = "away" THEN "saved" ELSE "done")
  /\ UNCHANGED <<phone, earned, carried, muddled>>

\* The rider's warning.
Warn(p) ==
  /\ post[p].at = "saved"
  /\ Step(p, "done")
  /\ UNCHANGED <<phone, route>>

\* A query fails, or the process restarts.
Fail(p) ==
  /\ post[p].at \in InHand \cup {"sent", "saved"}
  /\ Step(p, "failed")
  /\ muddled' = (muddled \/ post[p].at = "noted")
  /\ UNCHANGED <<phone, count, earned, carried>>

-----------------------------------------------------------------------------
PhoneStep(v) == Permit(v) \/ Watch(v)

ServerStep(p) ==
  \/ ReadJob(p) \/ StorePoint(p) \/ StorePosition(p)
  \/ Fine(p) \/ Note(p) \/ Save(p) \/ Warn(p) \/ Fail(p) \/ Lose(p)

Next ==
  \/ \E v \in Visits : Mount(v) \/ PhoneStep(v) \/ Unmount(v)
  \/ Kill
  \/ \E p \in Posts, v \in Visits : Move(p, v)
  \/ \E p \in Posts, what \in {"fine", "away", "fast"} : MoveParcel(p, what)
  \/ \E p \in Posts : MoveLive(p) \/ Answer(p) \/ GiveUp(p) \/ ServerStep(p)

Spec == Init /\ [][Next]_vars

\* The device answers, requests are answered or time out, and handlers end; a
\* driver who is watched keeps moving, also when the reports of others fill Posts.
Fairness ==
  /\ \A v \in Visits : WF_vars(PhoneStep(v)) /\ SF_vars(\E p \in Posts : Move(p, v))
  /\ \A p \in Posts : WF_vars(Answer(p) \/ GiveUp(p)) /\ WF_vars(ServerStep(p))

FairSpec == Spec /\ Fairness

-----------------------------------------------------------------------------
\* No alert counts more points than were off the route since a point on it left no row,
\* and, if that point overlapped other judgements, those of the row that they had in hand
\* and may bring back: none counts twice.  Unless two judgements overlapped or one failed
\* half way, all points since are counted, and no others (evaluateTrackingSafety reads the
\* count with the delivery, and writes it back several awaits later).
AlertsAreEarned ==
  /\ count <= earned + carried
  /\ \A p \in Posts : post[p].at \in InHand => post[p].seen <= earned + carried
  /\ (\A p \in Posts : post[p].at \notin InHand) /\ ~muddled => count = earned

\* Of the reports of one visit of a screen none that the phone still awaits comes after a
\* later one, and puts the stored position back ("Guards against a slow request being
\* overtaken by the next GPS fix", useDriverLocation).  The guard is the visit's: nothing
\* keeps a report from being overtaken by one of another visit or by a live report, and
\* these are told apart.
InOrder ==
  kind = "ride" => \A p \in Posts : post[p].awaited => post[p].late \subseteq {"other"}

\* A screen that stays keeps reporting, whatever becomes of its requests: the mark
\* of the one under way is set again and again, and cleared again and again.
ReportsGoOn ==
  kind = "ride" => \A v \in Visits :
    <>[](visit[v].open /\ visit[v].watch = "on") => []<>visit[v].busy /\ []<>~visit[v].busy
=============================================================================
