-------------------------- MODULE DriverAppProofs --------------------------
(***************************************************************************)
(* The driver's app.  PositionReports, for any visits, reports and rows of *)
(* points: alerts are earned, and positions come in order.  DriverBoard,   *)
(* for any trips and calls: the phone opens only the driver's own trips.   *)
(***************************************************************************)
EXTENDS PositionReports, DriverBoard, SequenceTheorems, TLAPS

Stations == {"none", "sent", "read", "stored", "judged", "noted", "saved", "done", "failed"}
Screens == [open : BOOLEAN, watch : {"none", "asking", "opening", "on"}, busy : BOOLEAN]
Reports == [at : Stations, what : {"fine", "away", "fast", "live"}, seen : Nat,
            by : Visits \cup {None}, awaited : BOOLEAN,
            before : SUBSET Posts, late : SUBSET {"own", "other"}]

TypeOK ==
  /\ kind \in {"ride", "delivery"}
  /\ visit \in [Visits -> Screens]
  /\ post \in [Posts -> Reports]
  /\ count \in Nat /\ earned \in Nat /\ carried \in Nat /\ muddled \in BOOLEAN

\* The row a judgement would write is earned, also before it is written, since the row was
\* ended or before, by a row that somebody had in hand then.
Covered ==
  /\ count <= earned + carried /\ count <= MaxRow
  /\ \A p \in Posts : post[p].seen <= MaxRow
  /\ \A p \in Posts : post[p].at \in InHand => post[p].seen <= earned + carried
  /\ \A p \in Posts :
       post[p].at = "noted" /\ post[p].what = "away" => OneMore(post[p].seen) <= earned + carried

\* A ride's points are not judged.
Unjudged ==
  kind = "ride" =>
    /\ count = 0 /\ earned = 0 /\ carried = 0 /\ ~muddled
    /\ \A p \in Posts : post[p].at \notin {"judged", "noted", "saved"}

\* As long as judgements neither overlap nor fail there is one at a time: it has read
\* the count as it is, what is earned is ahead of it by the point just noted, and there is
\* no row to bring back.
InTurn ==
  ~muddled =>
    /\ carried = 0
    /\ kind = "delivery" =>
         \A p, q \in Posts : post[p].at \in InHand /\ post[q].at \in InHand => p = q
    /\ (\A p \in Posts : post[p].at \notin InHand) => count = earned
    /\ \A p \in Posts : post[p].at \in InHand =>
         /\ post[p].seen = count
         /\ earned = IF post[p].at = "noted" /\ post[p].what = "away"
                     THEN OneMore(count) ELSE count

EarnedInv == Covered /\ Unjudged /\ InTurn

\* A report that is awaited is the only one of its visit, whose mark is set; what the visit
\* sent before it is not awaited any more.
OneAwaited ==
  /\ \A p \in Posts : post[p].at = "none" => post[p] = NoPost
  /\ \A p \in Posts : post[p].awaited => post[p].by \in Visits /\ visit[post[p].by].busy
  /\ \A p, q \in Posts :
       post[p].awaited /\ post[q].awaited /\ post[p].by = post[q].by => p = q
  /\ \A p \in Posts : \A q \in post[p].before :
       post[q].at # "none" /\ (post[p].by = post[q].by => ~post[q].awaited)

OrderInv == OneAwaited /\ \A p \in Posts : post[p].awaited => post[p].late \subseteq {"other"}

-----------------------------------------------------------------------------
(* Typing. *)

LEMMA NoPostTyped == NoPost \in Reports /\ NoVisit \in Screens
BY DEF NoPost, NoVisit, Reports, Screens, Stations

LEMMA ReportTyped ==
  ASSUME NEW r \in Reports
  PROVE  /\ \A at \in Stations : [r EXCEPT !.at = at] \in Reports
         /\ \A a \in BOOLEAN : [r EXCEPT !.awaited = a] \in Reports
         /\ \A b \in SUBSET Posts : [r EXCEPT !.before = b] \in Reports
         /\ \A n \in Nat : [r EXCEPT !.seen = n] \in Reports
         /\ \A l \in SUBSET {"own", "other"} : [r EXCEPT !.late = l] \in Reports
BY DEF Reports

LEMMA ScreenTyped ==
  ASSUME NEW s \in Screens
  PROVE  /\ \A b \in BOOLEAN : [s EXCEPT !.open = b] \in Screens
         /\ \A b \in BOOLEAN : [s EXCEPT !.busy = b] \in Screens
         /\ \A w \in {"none", "asking", "opening", "on"} : [s EXCEPT !.watch = w] \in Screens
BY DEF Screens

\* A report that ends, or goes on.
LEMMA OverTyped ==
  ASSUME TypeOK, NEW p \in Posts, Over(p)
  PROVE  /\ post'[p] = NoPost
         /\ \A q \in Posts \ {p} : post'[q] = [post[q] EXCEPT !.before = @ \ {p}]
         /\ post' \in [Posts -> Reports]
<1>1. /\ post'[p] = NoPost
      /\ \A q \in Posts \ {p} : post'[q] = [post[q] EXCEPT !.before = @ \ {p}]
  BY DEF Over
<1>2. \A q \in Posts : post[q] \in Reports /\ post[q].before \ {p} \in SUBSET Posts
  BY DEF TypeOK, Reports
<1>3. \A q \in Posts : [post[q] EXCEPT !.before = post[q].before \ {p}] \in Reports
  BY <1>2, ReportTyped
<1> QED
  BY <1>1, <1>3, NoPostTyped DEF Over

LEMMA StepTyped ==
  ASSUME TypeOK, NEW p \in Posts, NEW at \in Stations, Step(p, at)
  PROVE  post' \in [Posts -> Reports]
<1>1. CASE at \in Ended /\ ~post[p].awaited
  BY <1>1, OverTyped DEF Step
<1>2. CASE ~(at \in Ended /\ ~post[p].awaited)
  BY <1>2, ReportTyped DEF Step, TypeOK
<1> QED
  BY <1>1, <1>2

\* A ride's report has reached the profile.
LEMMA RideStored ==
  ASSUME TypeOK, NEW p \in Posts, StorePosition(p), kind # "delivery"
  PROVE  /\ post' = [q \in Posts |-> post'[q]]
         /\ post'[p] = IF post[p].awaited
                         THEN [[post[p] EXCEPT !.at = "done"] EXCEPT !.before = {}] ELSE NoPost
         /\ \A q \in Posts \ {p} : \E late \in SUBSET {"own", "other"} :
              /\ post'[q] = [[post[q] EXCEPT !.before = @ \ {p}] EXCEPT !.late = late]
              /\ q \notin post[p].before \/ post[q].at = "none" => late = post[q].late
              /\ "own" \in late =>
                   "own" \in post[q].late \/ (q \in post[p].before /\ post[p].by = post[q].by)
<1>1. /\ post' = [q \in Posts |-> post'[q]]
      /\ post'[p] = IF post[p].awaited
                      THEN [[post[p] EXCEPT !.at = "done"] EXCEPT !.before = {}] ELSE NoPost
  BY DEF StorePosition, TypeOK
<1>2. ASSUME NEW q \in Posts \ {p}
      PROVE  \E late \in SUBSET {"own", "other"} :
               /\ post'[q] = [[post[q] EXCEPT !.before = @ \ {p}] EXCEPT !.late = late]
               /\ q \notin post[p].before \/ post[q].at = "none" => late = post[q].late
               /\ "own" \in late =>
                    "own" \in post[q].late \/ (q \in post[p].before /\ post[p].by = post[q].by)
  <2> DEFINE more == IF q \in post[p].before \cap Sent THEN {Overtaker(p, q)} ELSE {}
             late == post[q].late \cup more
  <2>1. post[q] \in Reports /\ post[q].late \in SUBSET {"own", "other"}
    BY DEF TypeOK, Reports
  <2>2. more \in SUBSET {"own", "other"}
    BY DEF Overtaker
  <2>3. post'[q] = [post[q] EXCEPT !.before = @ \ {p}, !.late = @ \cup more]
    BY DEF StorePosition
  <2>4. post'[q] = [[post[q] EXCEPT !.before = @ \ {p}] EXCEPT !.late = late]
    BY <2>1, <2>3 DEF Reports
  <2>5. q \notin post[p].before \/ post[q].at = "none" => more = {}
    BY DEF Sent
  <2>6. "own" \in more => q \in post[p].before /\ post[p].by = post[q].by
    BY DEF Overtaker
  <2> HIDE DEF more
  <2>7. late \in SUBSET {"own", "other"}
    BY <2>1, <2>2
  <2>8. /\ q \notin post[p].before \/ post[q].at = "none" => late = post[q].late
        /\ "own" \in late =>
             "own" \in post[q].late \/ (q \in post[p].before /\ post[p].by = post[q].by)
    BY <2>5, <2>6
  <2> QED
    BY <2>4, <2>7, <2>8
<1> QED
  BY <1>1, <1>2

\* What the end of the app leaves of a report under way.
LEMMA KilledReport ==
  ASSUME TypeOK, Kill, NEW p \in Posts, post[p].at \notin Ended
  PROVE  post'[p] = [[post[p] EXCEPT !.awaited = FALSE] EXCEPT !.before = post[p].before \cap Sent]
<1>1. post'[p] = [post[p] EXCEPT !.awaited = FALSE, !.before = @ \cap Sent]
  BY DEF Kill
<1> QED
  BY <1>1 DEF TypeOK, Reports

LEMMA PhoneTyped ==
  ASSUME TypeOK, NEW v \in Visits,
         Mount(v) \/ PhoneStep(v) \/ Unmount(v) \/ Kill \/ (\E p \in Posts : Move(p, v))
  PROVE  TypeOK'
<1>1. CASE Mount(v)
  BY <1>1 DEF Mount, TypeOK, Screens, route
<1>2. CASE PhoneStep(v)
  <2>1. PICK w \in {"none", "asking", "opening", "on"} : visit' = [visit EXCEPT ![v].watch = w]
    BY <1>2 DEF PhoneStep, Permit, Watch
  <2>2. [visit[v] EXCEPT !.watch = w] \in Screens
    BY ScreenTyped DEF TypeOK
  <2> QED
    BY <1>2, <2>1, <2>2 DEF PhoneStep, Permit, Watch, TypeOK, route
<1>3. CASE Unmount(v)
  <2> DEFINE watch == IF visit[v].watch = "on" THEN "none" ELSE visit[v].watch
             left == [[visit[v] EXCEPT !.open = FALSE] EXCEPT !.watch = watch]
  <2>1. visit[v] \in Screens /\ watch \in {"none", "asking", "opening", "on"}
    BY DEF TypeOK, Screens
  <2>2. left \in Screens
    BY <2>1, ScreenTyped
  <2>3. visit' = [visit EXCEPT ![v] = left]
    BY <1>3 DEF Unmount, TypeOK
  <2> QED
    BY <1>3, <2>2, <2>3 DEF Unmount, TypeOK, route
<1>4. CASE Kill
  <2>1. visit' \in [Visits -> Screens]
    BY <1>4, NoPostTyped DEF Kill
  <2>2. ASSUME NEW p \in Posts PROVE post'[p] \in Reports
    <3>1. CASE post[p].at \in Ended
      BY <1>4, <3>1, NoPostTyped DEF Kill
    <3>2. CASE post[p].at \notin Ended
      <4>1. post'[p] = [[post[p] EXCEPT !.awaited = FALSE] EXCEPT !.before = post[p].before \cap Sent]
        BY <1>4, <3>2, KilledReport
      <4>2. post[p] \in Reports /\ post[p].before \cap Sent \in SUBSET Posts
        BY DEF TypeOK, Sent
      <4>3. [post[p] EXCEPT !.awaited = FALSE] \in Reports
        BY <4>2, ReportTyped
      <4> QED
        BY <4>1, <4>2, <4>3, ReportTyped
    <3> QED
      BY <3>1, <3>2
  <2>3. \A p \in Posts : post'[p] \in Reports
    BY <2>2
  <2> QED
    BY <1>4, <2>1, <2>3 DEF Kill, TypeOK, route
<1>5. ASSUME NEW p \in Posts, Move(p, v) PROVE TypeOK'
  <2>1. Report(v) \in Reports
    BY DEF Report, Sent, NoPost, Reports, Stations
  <2> QED
    BY <1>5, <2>1, ScreenTyped DEF Move, TypeOK, route
<1> QED
  BY <1>1, <1>2, <1>3, <1>4, <1>5

LEMMA EndTyped ==
  ASSUME TypeOK, NEW p \in Posts, Answer(p) \/ GiveUp(p) \/ Lose(p)
  PROVE  TypeOK'
<1>1. visit' \in [Visits -> Screens]
  BY ScreenTyped DEF Answer, GiveUp, Lose, End, phone, TypeOK
<1>2. CASE Over(p)
  BY <1>1, <1>2, OverTyped DEF Answer, GiveUp, Lose, phone, route, TypeOK
<1>3. CASE GiveUp(p) /\ post' = [post EXCEPT ![p].awaited = FALSE]
  BY <1>1, <1>3, ReportTyped DEF GiveUp, route, TypeOK
<1> QED
  BY <1>2, <1>3 DEF Answer, GiveUp, Lose

LEMMA ServerTyped ==
  ASSUME TypeOK, NEW p \in Posts, ServerStep(p)
  PROVE  TypeOK'
<1>a. \A n \in Nat : OneMore(n) \in Nat
  BY MaxRowAssumption DEF OneMore
<1>1. CASE ReadJob(p)
  <2>1. [[post[p] EXCEPT !.at = "read"] EXCEPT !.seen = count] \in Reports
    BY ReportTyped DEF TypeOK, Stations
  <2>2. post' = [post EXCEPT ![p] = [[post[p] EXCEPT !.at = "read"] EXCEPT !.seen = count]]
    BY <1>1 DEF ReadJob, TypeOK
  <2> QED
    BY <1>1, <2>1, <2>2 DEF ReadJob, TypeOK, phone
<1>2. CASE StorePoint(p)
  BY <1>2, StepTyped DEF StorePoint, TypeOK, Stations, phone, route
<1>3. CASE StorePosition(p) /\ kind = "delivery"
  BY <1>3, StepTyped DEF StorePosition, TypeOK, Stations, phone, route
<1>4. CASE StorePosition(p) /\ kind # "delivery"
  <2>1. /\ post' = [q \in Posts |-> post'[q]]
        /\ \/ post'[p] = [[post[p] EXCEPT !.at = "done"] EXCEPT !.before = {}]
           \/ post'[p] = NoPost
        /\ \A q \in Posts \ {p} : \E late \in SUBSET {"own", "other"} :
             post'[q] = [[post[q] EXCEPT !.before = @ \ {p}] EXCEPT !.late = late]
    <3>1. post' = [q \in Posts |-> post'[q]]
      BY <1>4, RideStored
    <3>2. \/ post'[p] = [[post[p] EXCEPT !.at = "done"] EXCEPT !.before = {}]
          \/ post'[p] = NoPost
      BY <1>4, RideStored
    <3>3. ASSUME NEW q \in Posts \ {p}
          PROVE  \E late \in SUBSET {"own", "other"} :
                   post'[q] = [[post[q] EXCEPT !.before = @ \ {p}] EXCEPT !.late = late]
      <4>1. PICK late \in SUBSET {"own", "other"} :
              /\ post'[q] = [[post[q] EXCEPT !.before = @ \ {p}] EXCEPT !.late = late]
              /\ q \notin post[p].before \/ post[q].at = "none" => late = post[q].late
              /\ "own" \in late =>
                   "own" \in post[q].late \/ (q \in post[p].before /\ post[p].by = post[q].by)
        BY <1>4, RideStored
      <4> QED
        BY <4>1
    <3> QED
      BY <3>1, <3>2, <3>3
  <2>2. \A q \in Posts \ {p} : \A late \in SUBSET {"own", "other"} :
          [[post[q] EXCEPT !.before = @ \ {p}] EXCEPT !.late = late] \in Reports
    <3>1. \A q \in Posts : post[q] \in Reports /\ post[q].before \ {p} \in SUBSET Posts
      BY DEF TypeOK, Reports
    <3>2. \A q \in Posts : [post[q] EXCEPT !.before = post[q].before \ {p}] \in Reports
      BY <3>1, ReportTyped
    <3> QED
      BY <3>2, ReportTyped
  <2>3. \A q \in Posts : post'[q] \in Reports
    <3>1. [[post[p] EXCEPT !.at = "done"] EXCEPT !.before = {}] \in Reports
      <4>1. [post[p] EXCEPT !.at = "done"] \in Reports /\ {} \in SUBSET Posts
        BY ReportTyped DEF TypeOK, Stations
      <4> QED
        BY <4>1, ReportTyped
    <3>2. post'[p] \in Reports
      BY <2>1, <3>1, NoPostTyped
    <3>3. ASSUME NEW q \in Posts \ {p} PROVE post'[q] \in Reports
      <4>1. PICK late \in SUBSET {"own", "other"} :
              post'[q] = [[post[q] EXCEPT !.before = @ \ {p}] EXCEPT !.late = late]
        BY <2>1
      <4> QED
        BY <4>1, <2>2
    <3> QED
      BY <3>2, <3>3
  <2> QED
    BY <1>4, <2>1, <2>3 DEF StorePosition, phone, route, TypeOK
<1>5. CASE Fine(p)
  <2>1. Capped(carried + earned) \in Nat
    BY MaxRowAssumption DEF Capped, TypeOK
  <2>2. count' \in Nat /\ earned' \in Nat /\ carried' \in Nat
    BY <1>5, <2>1 DEF Fine, TypeOK
  <2>4. muddled' \in BOOLEAN
    <3>1. muddled' = muddled \/ muddled' = (muddled /\ ~Alone(p))
      BY <1>5 DEF Fine
    <3>2. (muddled /\ ~Alone(p)) \in BOOLEAN
      OBVIOUS
    <3> QED
      BY <3>1, <3>2 DEF TypeOK
  <2>3. post' \in [Posts -> Reports]
    BY <1>5, StepTyped DEF Fine, Stations
  <2> QED
    BY <1>5, <2>2, <2>3, <2>4 DEF Fine, TypeOK, phone
<1>6. CASE Note(p)
  BY <1>6, <1>a, StepTyped DEF Note, TypeOK, Stations, phone
<1>7. CASE Save(p)
  <2>1. count' \in Nat
    BY <1>7, <1>a DEF Save, TypeOK, Reports
  <2> QED
    BY <1>7, <2>1, StepTyped DEF Save, TypeOK, Stations, phone
<1>8. CASE Warn(p)
  BY <1>8, StepTyped DEF Warn, TypeOK, Stations, phone, route
<1>9. CASE Fail(p)
  BY <1>9, StepTyped DEF Fail, TypeOK, Stations, phone
<1> QED
  BY <1>1, <1>2, <1>3, <1>4, <1>5, <1>6, <1>7, <1>8, <1>9, EndTyped DEF ServerStep

LEMMA TypeNext == TypeOK /\ [Next]_vars => TypeOK'
<1> SUFFICES ASSUME TypeOK, [Next]_vars PROVE TypeOK'
  OBVIOUS
<1>1. CASE UNCHANGED vars
  BY <1>1 DEF vars, TypeOK
<1>2. CASE Kill
  <2>1. PICK v \in Visits : visit[v] # NoVisit
    BY <1>2 DEF Kill
  <2> QED
    BY <1>2, <2>1, PhoneTyped
<1>3. ASSUME NEW p \in Posts, NEW what \in {"fine", "away", "fast"}, MoveParcel(p, what)
      PROVE  TypeOK'
  <2>1. [NoPost EXCEPT !.at = "sent", !.what = what] \in Reports
    BY DEF NoPost, Reports, Stations
  <2> QED
    BY <1>3, <2>1 DEF MoveParcel, TypeOK, phone, route
<1>4. ASSUME NEW p \in Posts, MoveLive(p) PROVE TypeOK'
  <2>1. [NoPost EXCEPT !.at = "sent", !.what = "live", !.before = Sent] \in Reports
    BY DEF NoPost, Sent, Reports, Stations
  <2> QED
    BY <1>4, <2>1 DEF MoveLive, TypeOK, phone, route
<1> QED
  BY <1>1, <1>2, <1>3, <1>4, PhoneTyped, EndTyped, ServerTyped DEF Next

-----------------------------------------------------------------------------
(* Alerts are earned. *)

LEMMA OneMoreGrows ==
  ASSUME NEW m \in Nat, NEW n \in Nat, m <= n
  PROVE  OneMore(m) \in Nat /\ OneMore(m) <= OneMore(n) /\ n <= OneMore(n)
BY MaxRowAssumption DEF OneMore

LEMMA EarnedInit == Init => EarnedInv
BY MaxRowAssumption DEF Init, NoPost, EarnedInv, Covered, Unjudged, InTurn, InHand

\* A step that neither begins nor ends a judgement, nor notes a point.
Quiet ==
  /\ UNCHANGED <<kind, count, earned, carried, muddled>>
  /\ \A p \in Posts :
       /\ post'[p].seen = post[p].seen \/ post'[p].seen = 0
       /\ post'[p].at \in InHand <=> post[p].at \in InHand
       /\ post[p].at \in InHand =>
            /\ post'[p].what = post[p].what /\ post'[p].seen = post[p].seen
            /\ post'[p].at = "noted" <=> post[p].at = "noted"
       /\ kind = "ride" => post'[p].at \notin {"judged", "noted", "saved"}

LEMMA QuietKeeps ==
  ASSUME TypeOK, EarnedInv, Quiet
  PROVE  EarnedInv'
<1>1. Covered'
  <2>1. count' <= earned' + carried' /\ count' <= MaxRow
    BY DEF EarnedInv, Covered, Quiet
  <2>2. \A p \in Posts : post'[p].seen <= MaxRow
    BY MaxRowAssumption DEF EarnedInv, Covered, Quiet
  <2>3. \A p \in Posts : post'[p].at \in InHand => post'[p].seen <= earned' + carried'
    BY DEF EarnedInv, Covered, Quiet
  <2>4. \A p \in Posts : post'[p].at = "noted" /\ post'[p].what = "away"
                          => OneMore(post'[p].seen) <= earned' + carried'
    BY DEF EarnedInv, Covered, Quiet, InHand
  <2> QED
    BY <2>1, <2>2, <2>3, <2>4 DEF Covered
<1>2. Unjudged'
  BY DEF EarnedInv, Unjudged, Quiet
<1>3. InTurn'
  BY DEF EarnedInv, InTurn, Quiet, InHand
<1> QED
  BY <1>1, <1>2, <1>3 DEF EarnedInv

\* What a change of one field leaves.
LEMMA OtherFields ==
  ASSUME NEW r \in Reports, NEW x
  PROVE  /\ [r EXCEPT !.before = x].at = r.at /\ [r EXCEPT !.before = x].what = r.what
         /\ [r EXCEPT !.before = x].seen = r.seen
         /\ [r EXCEPT !.awaited = x].at = r.at /\ [r EXCEPT !.awaited = x].what = r.what
         /\ [r EXCEPT !.awaited = x].seen = r.seen
         /\ [r EXCEPT !.at = x].what = r.what /\ [r EXCEPT !.at = x].seen = r.seen
         /\ [r EXCEPT !.at = x].at = x
BY DEF Reports

LEMMA OverQuiet ==
  ASSUME TypeOK, NEW p \in Posts, Over(p)
  PROVE  /\ post'[p].at = "none" /\ post'[p].seen = 0
         /\ \A q \in Posts \ {p} : /\ post'[q].at = post[q].at
                                   /\ post'[q].what = post[q].what
                                   /\ post'[q].seen = post[q].seen
<1>1. post'[p].at = "none" /\ post'[p].seen = 0
  BY OverTyped DEF NoPost
<1>2. ASSUME NEW q \in Posts \ {p}
      PROVE  post'[q].at = post[q].at /\ post'[q].what = post[q].what /\ post'[q].seen = post[q].seen
  <2>1. post[q] \in Reports
    BY DEF TypeOK
  <2>2. post'[q] = [post[q] EXCEPT !.before = post[q].before \ {p}]
    BY OverTyped
  <2> QED
    BY <2>1, <2>2, OtherFields
<1> QED
  BY <1>1, <1>2

LEMMA StepQuiet ==
  ASSUME TypeOK, NEW p \in Posts, NEW at \in Stations, Step(p, at)
  PROVE  /\ post'[p].at = at \/ (at \in Ended /\ post'[p].at = "none")
         /\ at \notin Ended => post'[p].what = post[p].what /\ post'[p].seen = post[p].seen
         /\ post'[p].seen = post[p].seen \/ post'[p].seen = 0
         /\ \A q \in Posts \ {p} : /\ post'[q].at = post[q].at
                                   /\ post'[q].what = post[q].what
                                   /\ post'[q].seen = post[q].seen
<1>1. CASE at \in Ended /\ ~post[p].awaited
  BY <1>1, OverQuiet DEF Step
<1>2. CASE ~(at \in Ended /\ ~post[p].awaited)
  <2>1. post' = [post EXCEPT ![p] = [post[p] EXCEPT !.at = at]] /\ post[p] \in Reports
    BY <1>2 DEF Step, TypeOK
  <2> QED
    <3>1. post'[p] = [post[p] EXCEPT !.at = at] /\ \A q \in Posts \ {p} : post'[q] = post[q]
      BY <2>1 DEF TypeOK
    <3>2. post'[p].at = at /\ post'[p].what = post[p].what /\ post'[p].seen = post[p].seen
      BY <2>1, <3>1 DEF Reports
    <3> QED
      BY <3>1, <3>2
<1> QED
  BY <1>1, <1>2

LEMMA PhoneQuiet ==
  ASSUME TypeOK, EarnedInv, NEW v \in Visits,
         Mount(v) \/ PhoneStep(v) \/ Unmount(v) \/ Kill \/ (\E p \in Posts : Move(p, v))
  PROVE  Quiet
<1>1. CASE Mount(v) \/ PhoneStep(v) \/ Unmount(v)
  BY <1>1 DEF Mount, PhoneStep, Permit, Watch, Unmount, Quiet, route, EarnedInv, Unjudged
<1>2. CASE Kill
  <2>1. \A p \in Posts :
          \/ /\ post[p].at \in Ended /\ post'[p].at = "none" /\ post'[p].seen = 0
          \/ /\ post'[p].at = post[p].at /\ post'[p].what = post[p].what
             /\ post'[p].seen = post[p].seen
    <3>1. ASSUME NEW p \in Posts, post[p].at \notin Ended
          PROVE  /\ post'[p].at = post[p].at /\ post'[p].what = post[p].what
                 /\ post'[p].seen = post[p].seen
      <4>1. post'[p] = [[post[p] EXCEPT !.awaited = FALSE] EXCEPT !.before = post[p].before \cap Sent]
        BY <1>2, <3>1, KilledReport
      <4>2. post[p] \in Reports
        BY DEF TypeOK
      <4>3. [post[p] EXCEPT !.awaited = FALSE] \in Reports
        BY <4>2, ReportTyped
      <4> QED
        BY <4>1, <4>2, <4>3, OtherFields
    <3>2. NoPost.at = "none" /\ NoPost.seen = 0
      BY DEF NoPost
    <3> QED
      BY <1>2, <3>1, <3>2 DEF Kill
  <2> QED
    BY <1>2, <2>1 DEF Kill, Quiet, route, EarnedInv, Unjudged, Ended, InHand
<1>3. ASSUME NEW p \in Posts, Move(p, v) PROVE Quiet
  <2>1. /\ post[p].at = "none" /\ post'[p].at = "sent" /\ post'[p].seen = 0
        /\ \A q \in Posts \ {p} : post'[q] = post[q]
    <3>1. NoPost.at = "none" /\ Report(v).at = "sent" /\ Report(v).seen = 0
      BY DEF NoPost, Report
    <3> QED
      BY <1>3, <3>1 DEF Move, TypeOK
  <2> QED
    BY <1>3, <2>1 DEF Move, Quiet, route, EarnedInv, Unjudged, InHand
<1> QED
  BY <1>1, <1>2, <1>3

LEMMA RequestQuiet ==
  ASSUME TypeOK, EarnedInv, NEW p \in Posts,
         \/ \E what \in {"fine", "away", "fast"} : MoveParcel(p, what)
         \/ MoveLive(p) \/ Answer(p) \/ GiveUp(p) \/ Lose(p)
  PROVE  Quiet
<1>1. ASSUME NEW what \in {"fine", "away", "fast"}, MoveParcel(p, what) PROVE Quiet
  <2>1. /\ post[p].at = "none" /\ post'[p].at = "sent" /\ post'[p].seen = 0
        /\ \A q \in Posts \ {p} : post'[q] = post[q]
    BY <1>1 DEF MoveParcel, NoPost, TypeOK
  <2> QED
    BY <1>1, <2>1 DEF MoveParcel, Quiet, phone, route, EarnedInv, Unjudged, InHand
<1>2. CASE Over(p) /\ (Answer(p) \/ Lose(p) \/ (GiveUp(p) /\ post[p].at \in Ended))
  <2>1. post[p].at \in Ended \cup {"sent"} /\ UNCHANGED <<kind, count, earned, carried, muddled>>
    BY <1>2 DEF Answer, GiveUp, Lose, phone, route
  <2> QED
    BY <1>2, <2>1, OverQuiet DEF Quiet, Ended, InHand, EarnedInv, Unjudged
<1>3. CASE GiveUp(p) /\ post' = [post EXCEPT ![p].awaited = FALSE]
  <2>1. \A q \in Posts : /\ post'[q].at = post[q].at /\ post'[q].what = post[q].what
                         /\ post'[q].seen = post[q].seen
    BY <1>3 DEF TypeOK, Reports
  <2> QED
    BY <1>3, <2>1 DEF GiveUp, Quiet, route, EarnedInv, Unjudged
<1>4. CASE MoveLive(p)
  <2>1. /\ post[p].at = "none" /\ post'[p].at = "sent" /\ post'[p].seen = 0
        /\ \A q \in Posts \ {p} : post'[q] = post[q]
    BY <1>4 DEF MoveLive, NoPost, TypeOK
  <2> QED
    BY <1>4, <2>1 DEF MoveLive, Quiet, phone, route, EarnedInv, Unjudged, InHand
<1> QED
  BY <1>1, <1>2, <1>3, <1>4 DEF Answer, GiveUp, Lose

LEMMA HandlerQuiet ==
  ASSUME TypeOK, EarnedInv, NEW p \in Posts,
         \/ StorePoint(p) \/ (StorePosition(p) /\ kind = "delivery") \/ Warn(p)
         \/ (Fail(p) /\ post[p].at \notin InHand)
  PROVE  Quiet
<1>1. CASE StorePoint(p)
  BY <1>1, StepQuiet DEF StorePoint, Quiet, Stations, InHand, Ended, phone, route,
     EarnedInv, Unjudged
<1>2. CASE StorePosition(p) /\ kind = "delivery"
  BY <1>2, StepQuiet DEF StorePosition, Positioning, Quiet, Stations, InHand, Ended, phone, route,
     EarnedInv, Unjudged
<1>3. CASE Warn(p)
  BY <1>3, StepQuiet DEF Warn, Quiet, Stations, InHand, Ended, phone, route,
     EarnedInv, Unjudged
<1>4. CASE Fail(p) /\ post[p].at \notin InHand
  BY <1>4, StepQuiet DEF Fail, Quiet, Stations, InHand, Ended, phone, TypeOK,
     EarnedInv, Unjudged
<1> QED
  BY <1>1, <1>2, <1>3, <1>4

\* The steps that begin a judgement, end one or note a point.
LEMMA JudgementKeeps ==
  ASSUME TypeOK, EarnedInv, NEW p \in Posts,
         \/ ReadJob(p) \/ (StorePosition(p) /\ kind # "delivery")
         \/ Fine(p) \/ Note(p) \/ Save(p) \/ (Fail(p) /\ post[p].at \in InHand)
  PROVE  EarnedInv'
<1>t. /\ \A q \in Posts : post[q] \in Reports /\ post[q].seen \in Nat
      /\ count \in Nat /\ earned \in Nat /\ carried \in Nat /\ MaxRow \in Nat
      /\ muddled \in BOOLEAN /\ kind \in {"ride", "delivery"}
  BY MaxRowAssumption DEF TypeOK, Reports
<1>i. /\ count <= earned + carried /\ count <= MaxRow
      /\ \A q \in Posts : post[q].seen <= MaxRow
      /\ \A q \in Posts : post[q].at \in InHand => post[q].seen <= earned + carried
      /\ \A q \in Posts :
           post[q].at = "noted" /\ post[q].what = "away" => OneMore(post[q].seen) <= earned + carried
  BY DEF EarnedInv, Covered
<1>u. kind = "ride" => /\ count = 0 /\ earned = 0 /\ carried = 0 /\ ~muddled
                       /\ \A q \in Posts : post[q].at \notin {"judged", "noted", "saved"}
  BY DEF EarnedInv, Unjudged
<1>m. OneMore(earned) \in Nat /\ earned <= OneMore(earned)
  BY <1>t, OneMoreGrows
<1>1. CASE ReadJob(p)
  <2>1. /\ post[p].at = "sent" /\ post'[p].at = "read" /\ post'[p].seen = count
        /\ \A q \in Posts \ {p} : post'[q] = post[q]
        /\ muddled' = (muddled \/ (kind = "delivery" /\ \E q \in Posts : post[q].at \in InHand))
        /\ UNCHANGED <<kind, count, earned, carried>>
    BY <1>1, <1>t DEF ReadJob, phone, TypeOK, Reports
  <2>2. Covered'
    BY <2>1, <1>t, <1>i DEF Covered, InHand
  <2>3. Unjudged'
    BY <2>1, <1>t, <1>u DEF Unjudged, InHand
  <2>4. CASE kind = "ride"
    BY <2>1, <2>2, <2>3, <2>4, <1>t, <1>i, <1>u DEF EarnedInv, InTurn, InHand
  <2>5. CASE kind = "delivery"
    BY <2>1, <2>2, <2>3, <2>5, <1>t DEF EarnedInv, InTurn, InHand
  <2> QED
    BY <2>4, <2>5, <1>t
<1>2. CASE StorePosition(p) /\ kind # "delivery"
  <2>1. /\ UNCHANGED <<kind, count, earned, carried, muddled>>
        /\ post'[p].at \in {"done", "none"} /\ (post'[p].seen = post[p].seen \/ post'[p].seen = 0)
        /\ \A q \in Posts \ {p} : post'[q].at = post[q].at /\ post'[q].seen = post[q].seen
    <3>1. NoPost.at = "none" /\ NoPost.seen = 0
      BY DEF NoPost
    <3>2. post'[p].at \in {"done", "none"} /\ (post'[p].seen = post[p].seen \/ post'[p].seen = 0)
      <4>1. /\ [[post[p] EXCEPT !.at = "done"] EXCEPT !.before = {}].at = "done"
            /\ [[post[p] EXCEPT !.at = "done"] EXCEPT !.before = {}].seen = post[p].seen
        BY <1>t DEF Reports
      <4> QED
        BY <1>2, <3>1, <4>1, RideStored
    <3>3. ASSUME NEW q \in Posts \ {p}
          PROVE  post'[q].at = post[q].at /\ post'[q].seen = post[q].seen
      <4>1. PICK late \in SUBSET {"own", "other"} :
              /\ post'[q] = [[post[q] EXCEPT !.before = @ \ {p}] EXCEPT !.late = late]
              /\ q \notin post[p].before \/ post[q].at = "none" => late = post[q].late
              /\ "own" \in late =>
                   "own" \in post[q].late \/ (q \in post[p].before /\ post[p].by = post[q].by)
        BY <1>2, RideStored
      <4> QED
        BY <4>1, <1>t DEF Reports
    <3> QED
      BY <1>2, <3>2, <3>3 DEF StorePosition, phone, route
  <2> QED
    BY <2>1, <1>2, <1>t, <1>i, <1>u DEF EarnedInv, Covered, Unjudged, InTurn, InHand
<1>3. CASE Fine(p)
  <2>1. /\ post[p].at = "judged" /\ post'[p].at \in {"done", "none"} /\ UNCHANGED kind
        /\ \A q \in Posts \ {p} : /\ post'[q].at = post[q].at /\ post'[q].what = post[q].what
                                  /\ post'[q].seen = post[q].seen
        /\ post'[p].seen = post[p].seen \/ post'[p].seen = 0
        /\ count' = IF post[p].seen # 0 THEN 0 ELSE count
    BY <1>3, StepQuiet DEF Fine, Stations, Ended, phone
  <2>0. IF count' # 0 THEN UNCHANGED <<earned, carried, muddled>>
        ELSE /\ earned' = 0
             /\ carried' = IF Alone(p) THEN 0 ELSE Capped(carried + earned)
             /\ muddled' = (muddled /\ ~Alone(p))
    BY <1>3 DEF Fine
  <2>2. CASE Alone(p)
    <3>1. \A q \in Posts : post'[q].at \notin InHand
      BY <2>1, <2>2 DEF Alone, InHand
    <3>2. Covered'
      BY <2>0, <2>1, <2>2, <3>1, <1>t, <1>i DEF Covered, InHand
    <3>3. Unjudged'
      BY <2>1, <1>u, <1>t DEF Unjudged
    <3>4. InTurn'
      BY <2>0, <2>1, <2>2, <3>1, <1>t DEF InTurn, EarnedInv, InHand
    <3> QED
      BY <3>2, <3>3, <3>4 DEF EarnedInv
  <2>3. CASE ~Alone(p)
    <3>1. kind = "delivery" /\ count' \in Nat /\ count' <= count
      BY <2>1, <2>3, <1>t, <1>u
    <3>2. \A n \in Nat : n <= earned + carried /\ n <= MaxRow => n <= earned' + carried'
      BY <2>0, <2>3, <1>t DEF Capped
    <3>3. \A q \in Posts : OneMore(post[q].seen) \in Nat /\ OneMore(post[q].seen) <= MaxRow
      BY <1>t, <1>i DEF OneMore
    <3>4. Covered'
      <4>1. count' <= earned' + carried' /\ count' <= MaxRow
        BY <3>1, <3>2, <1>t, <1>i
      <4>2. \A q \in Posts : post'[q].seen <= MaxRow
        BY <2>1, <1>t, <1>i
      <4>3. \A q \in Posts : post'[q].at \in InHand => post'[q].seen <= earned' + carried'
        BY <2>1, <3>2, <1>t, <1>i DEF InHand
      <4>4. \A q \in Posts : post'[q].at = "noted" /\ post'[q].what = "away"
                              => OneMore(post'[q].seen) <= earned' + carried'
        BY <2>1, <3>2, <3>3, <1>i
      <4> QED
        BY <4>1, <4>2, <4>3, <4>4 DEF Covered
    <3>5. muddled'
      BY <2>0, <2>1, <2>3, <3>1 DEF Alone, InTurn, EarnedInv, InHand
    <3> QED
      BY <2>1, <3>1, <3>4, <3>5 DEF EarnedInv, Unjudged, InTurn
  <2> QED
    BY <2>2, <2>3
<1>4. CASE Note(p)
  <2>1. /\ post[p].at = "judged" /\ post'[p].at = "noted" /\ UNCHANGED <<kind, count, carried, muddled>>
        /\ \A q \in Posts : post'[q].what = post[q].what /\ post'[q].seen = post[q].seen
        /\ \A q \in Posts \ {p} : post'[q].at = post[q].at
        /\ earned' = IF post[p].what = "away" THEN OneMore(earned) ELSE earned
    BY <1>4, StepQuiet DEF Note, Stations, Ended, phone
  <2>2. OneMore(post[p].seen) <= OneMore(earned) + carried /\ OneMore(post[p].seen) \in Nat
    <3>1. post[p].seen <= earned + carried /\ post[p].seen <= MaxRow /\ post[p].seen \in Nat
      BY <2>1, <1>t, <1>i DEF InHand
    <3> QED
      BY <3>1, <1>t DEF OneMore
  <2>3. earned' \in Nat /\ earned <= earned' /\ kind = "delivery"
    BY <2>1, <1>t, <1>m, <1>u
  <2>4. /\ count' <= earned' + carried' /\ count' <= MaxRow
        /\ \A q \in Posts : post'[q].seen <= MaxRow
        /\ \A q \in Posts : post'[q].at \in InHand => post'[q].seen <= earned' + carried'
    BY <2>1, <2>3, <1>t, <1>i DEF InHand
  <2>5. \A q \in Posts \ {p} : post'[q].at = "noted" /\ post'[q].what = "away"
                                 => OneMore(post'[q].seen) <= earned' + carried'
    <3>1. \A q \in Posts : OneMore(post[q].seen) \in Nat
      BY <1>t, OneMoreGrows
    <3> QED
      BY <2>1, <2>3, <3>1, <1>t, <1>i
  <2>6. Covered'
    BY <2>1, <2>2, <2>4, <2>5 DEF Covered
  <2>7. ASSUME ~muddled
        PROVE  /\ \A q \in Posts \ {p} : post[q].at \notin InHand
               /\ earned = count /\ post[p].seen = count /\ carried = 0
    BY <2>1, <2>3, <2>7 DEF EarnedInv, InTurn, InHand
  <2>8. InTurn'
    BY <2>1, <2>7 DEF InTurn, InHand
  <2> QED
    BY <2>1, <2>3, <2>6, <2>8 DEF EarnedInv, Unjudged
<1>5. CASE Save(p)
  <2>1. /\ post[p].at = "noted" /\ post'[p].at \in {"saved", "done", "none"}
        /\ UNCHANGED <<kind, earned, carried, muddled>>
        /\ post'[p].seen = post[p].seen \/ post'[p].seen = 0
        /\ \A q \in Posts \ {p} : /\ post'[q].at = post[q].at /\ post'[q].what = post[q].what
                                  /\ post'[q].seen = post[q].seen
        /\ count' = IF post[p].what = "away" THEN OneMore(post[p].seen) ELSE post[p].seen
    BY <1>5, StepQuiet DEF Save, Stations, Ended, phone
  <2>2. kind = "delivery"
    BY <2>1, <1>t, <1>u
  <2>3. Covered'
    <3>1. count' <= earned' + carried'
      BY <2>1, <1>t, <1>i DEF InHand
    <3>2. count' <= MaxRow
      BY <2>1, <1>t, <1>i DEF OneMore
    <3>3. \A q \in Posts : post'[q].seen <= MaxRow
      BY <2>1, <1>t, <1>i
    <3> QED
      BY <2>1, <3>1, <3>2, <3>3, <1>t, <1>i DEF Covered, InHand
  <2>4. ASSUME ~muddled
        PROVE  /\ \A q \in Posts \ {p} : post[q].at \notin InHand
               /\ carried = 0
               /\ earned = IF post[p].what = "away" THEN OneMore(count) ELSE count
               /\ post[p].seen = count
    BY <2>1, <2>2, <2>4 DEF EarnedInv, InTurn, InHand
  <2>5. InTurn'
    BY <2>1, <2>4 DEF InTurn, InHand
  <2> QED
    BY <2>1, <2>2, <2>3, <2>5 DEF EarnedInv, Unjudged
<1>6. CASE Fail(p) /\ post[p].at \in InHand
  <2>1. /\ post'[p].at \in {"failed", "none"} /\ UNCHANGED <<kind, count, earned, carried>>
        /\ post'[p].seen = post[p].seen \/ post'[p].seen = 0
        /\ muddled' = (muddled \/ post[p].at = "noted")
        /\ \A q \in Posts \ {p} : /\ post'[q].at = post[q].at /\ post'[q].what = post[q].what
                                  /\ post'[q].seen = post[q].seen
    BY <1>6, StepQuiet DEF Fail, Stations, Ended, phone
  <2>2. Covered'
    BY <2>1, <1>t, <1>i DEF Covered, InHand
  <2>3. Unjudged'
    BY <1>6, <2>1, <1>u DEF Unjudged
  <2>4. InTurn'
    BY <1>6, <2>1, <1>t DEF EarnedInv, InTurn, InHand
  <2> QED
    BY <2>2, <2>3, <2>4 DEF EarnedInv
<1> QED
  BY <1>1, <1>2, <1>3, <1>4, <1>5, <1>6

LEMMA EarnedNext == TypeOK /\ EarnedInv /\ [Next]_vars => EarnedInv'
<1> SUFFICES ASSUME TypeOK, EarnedInv, [Next]_vars PROVE EarnedInv'
  OBVIOUS
<1>1. CASE UNCHANGED vars
  BY <1>1 DEF vars, EarnedInv, Covered, Unjudged, InTurn
<1>2. CASE Kill
  <2>1. PICK v \in Visits : visit[v] # NoVisit
    BY <1>2 DEF Kill
  <2> QED
    BY <1>2, <2>1, PhoneQuiet, QuietKeeps
<1>3. ASSUME NEW p \in Posts, ServerStep(p) PROVE EarnedInv'
  BY <1>3, JudgementKeeps, HandlerQuiet, RequestQuiet, QuietKeeps DEF ServerStep
<1>4. ASSUME NEW p \in Posts, MoveLive(p) PROVE EarnedInv'
  BY <1>4, RequestQuiet, QuietKeeps
<1> QED
  BY <1>1, <1>2, <1>3, <1>4, PhoneQuiet, RequestQuiet, QuietKeeps DEF Next

-----------------------------------------------------------------------------
(* Positions come in order. *)

LEMMA NoPostStays ==
  ASSUME NEW p
  PROVE  /\ [NoPost EXCEPT !.before = NoPost.before \ {p}] = NoPost
         /\ [NoPost EXCEPT !.late = NoPost.late] = NoPost
<1>1. NoPost.before \ {p} = {}
  BY DEF NoPost
<1>2. NoPost.before = {}
  BY DEF NoPost
<1>3. NoPost = [f \in DOMAIN NoPost |-> NoPost[f]]
  BY DEF NoPost
<1> QED
  BY <1>1, <1>2, <1>3

LEMMA OrderInit == Init => OrderInv
BY DEF Init, NoPost, OrderInv, OneAwaited

\* A step that sends nothing, ends no wait and stores no position of a ride.
LEMMA WaitingKeeps ==
  ASSUME TypeOK, OrderInv,
         \A v \in Visits : visit'[v].busy = visit[v].busy,
         \A q \in Posts :
           \/ /\ post[q].at # "none" /\ post'[q].at # "none"
              /\ post'[q].by = post[q].by /\ post'[q].awaited = post[q].awaited
              /\ post'[q].before = post[q].before /\ post'[q].late = post[q].late
           \/ post'[q] = post[q]
  PROVE  OrderInv'
<1>1. \A q \in Posts :
        /\ post'[q].at = "none" <=> post[q].at = "none"
        /\ post'[q].at = "none" => post'[q] = post[q]
        /\ post'[q].by = post[q].by /\ post'[q].awaited = post[q].awaited
        /\ post'[q].before = post[q].before /\ post'[q].late = post[q].late
  OBVIOUS
<1>2. \A q \in Posts : post[q].before \subseteq Posts
  BY DEF TypeOK, Reports
<1> QED
  BY <1>1, <1>2 DEF OrderInv, OneAwaited

\* A report is over, and with it the wait for it, if there was one.
LEMMA OverKeeps ==
  ASSUME TypeOK, OrderInv, NEW p \in Posts, Over(p),
         \/ ~post[p].awaited /\ visit' = visit
         \/ post[p].awaited /\ \E succeeded \in BOOLEAN : End(post[p].by, succeeded)
  PROVE  OrderInv'
<1>1. /\ post'[p] = NoPost /\ NoPost.at = "none" /\ ~NoPost.awaited
      /\ NoPost.before = {} /\ NoPost.late = {}
  BY OverTyped DEF NoPost
<1>2. ASSUME NEW q \in Posts \ {p}
      PROVE  /\ post'[q].at = post[q].at /\ post'[q].by = post[q].by
             /\ post'[q].awaited = post[q].awaited /\ post'[q].late = post[q].late
             /\ post'[q].before = post[q].before \ {p}
             /\ post[q] = NoPost => post'[q] = NoPost
  <2>1. post'[q] = [post[q] EXCEPT !.before = post[q].before \ {p}] /\ post[q] \in Reports
    BY OverTyped DEF TypeOK
  <2>2. post[q] = NoPost => post'[q] = NoPost
    BY <2>1, NoPostStays
  <2> QED
    BY <2>1, <2>2 DEF Reports
<1>3. /\ \A q \in Posts : post'[q].at = "none" => post'[q] = NoPost
      /\ \A q \in Posts : post'[q].awaited => q # p /\ post[q].awaited
      /\ \A q \in Posts : post'[q].awaited => post'[q].late \subseteq {"other"}
  BY <1>1, <1>2 DEF OrderInv, OneAwaited
<1>4. \A q \in Posts : post'[q].awaited =>
        post'[q].by = post[q].by /\ post[q].by \in Visits /\ visit'[post[q].by].busy
  <2>1. CASE ~post[p].awaited /\ visit' = visit
    BY <1>2, <1>3, <2>1 DEF OrderInv, OneAwaited
  <2>2. ASSUME NEW succeeded \in BOOLEAN, End(post[p].by, succeeded), post[p].awaited,
               NEW q \in Posts, post'[q].awaited
        PROVE  post'[q].by = post[q].by /\ post[q].by \in Visits /\ visit'[post[q].by].busy
    <3>1. post[q].by # post[p].by /\ post[q].by \in Visits /\ visit[post[q].by].busy
      BY <1>3, <2>2 DEF OrderInv, OneAwaited
    <3> QED
      BY <1>2, <1>3, <2>2, <3>1 DEF End, TypeOK
  <2> QED
    BY <2>1, <2>2
<1>5. \A q, r \in Posts :
        post'[q].awaited /\ post'[r].awaited /\ post'[q].by = post'[r].by => q = r
  BY <1>3, <1>4 DEF OrderInv, OneAwaited
<1>6. \A q \in Posts : \A r \in post'[q].before :
        post'[r].at # "none" /\ (post'[q].by = post'[r].by => ~post'[r].awaited)
  <2>1. \A q \in Posts : \A r \in post'[q].before :
          q # p /\ r \in post[q].before /\ r \in Posts \ {p}
    BY <1>1, <1>2 DEF TypeOK, Reports
  <2> QED
    BY <1>2, <1>3, <2>1 DEF OrderInv, OneAwaited
<1> QED
  BY <1>3, <1>4, <1>5, <1>6 DEF OrderInv, OneAwaited

LEMMA PhoneOrder ==
  ASSUME TypeOK, OrderInv, NEW v \in Visits,
         Mount(v) \/ PhoneStep(v) \/ Unmount(v) \/ Kill \/ (\E p \in Posts : Move(p, v))
  PROVE  OrderInv'
<1>1. CASE Mount(v)
  <2>1. post' = post /\ visit[v].busy = FALSE /\ visit'[v].busy = FALSE
    BY <1>1 DEF Mount, NoVisit, TypeOK
  <2>2. \A w \in Visits : visit'[w].busy = visit[w].busy
    BY <1>1, <2>1 DEF Mount, TypeOK
  <2> QED
    BY <2>1, <2>2, WaitingKeeps
<1>2. CASE PhoneStep(v) \/ Unmount(v)
  <2>1. post' = post /\ \A w \in Visits : visit'[w].busy = visit[w].busy
    BY <1>2 DEF PhoneStep, Permit, Watch, Unmount, TypeOK, Screens
  <2> QED
    BY <2>1, WaitingKeeps
<1>3. CASE Kill
  <2>1. NoPost.at = "none" /\ ~NoPost.awaited /\ NoPost.before = {}
    BY DEF NoPost
  <2>2. ASSUME NEW p \in Posts
        PROVE  /\ ~post'[p].awaited
               /\ post'[p].before \subseteq Sent
               /\ p \in Sent => post'[p].at # "none"
               /\ post'[p].at = "none" => post'[p] = NoPost
    <3>1. CASE post[p].at \in Ended
      BY <1>3, <2>1, <3>1 DEF Kill, Ended, Sent
    <3>2. CASE post[p].at \notin Ended
      <4>1. post'[p] = [[post[p] EXCEPT !.awaited = FALSE] EXCEPT !.before = post[p].before \cap Sent]
        BY <1>3, <3>2, KilledReport
      <4>2. /\ post[p] \in Reports
            /\ post[p].at = "none" => post[p] = NoPost
        BY DEF TypeOK, OrderInv, OneAwaited
      <4>3. /\ ~post'[p].awaited /\ post'[p].before = post[p].before \cap Sent
            /\ post'[p].at = post[p].at
        BY <4>1, <4>2 DEF Reports
      <4>4. ASSUME post[p] = NoPost PROVE post'[p] = NoPost
        <5>1. post[p].before \cap Sent = NoPost.before /\ NoPost.awaited = FALSE
          BY <2>1, <4>4 DEF NoPost
        <5>2. NoPost = [f \in DOMAIN NoPost |-> NoPost[f]]
          BY DEF NoPost
        <5> QED
          BY <4>1, <4>4, <5>1, <5>2
      <4> QED
        BY <4>2, <4>3, <4>4 DEF Sent
    <3> QED
      BY <3>1, <3>2
  <2>3. Sent \subseteq Posts
    BY DEF Sent
  <2> QED
    BY <2>2, <2>3 DEF OrderInv, OneAwaited
<1>4. ASSUME NEW p \in Posts, Move(p, v) PROVE OrderInv'
  <2>1. /\ post[p] = NoPost /\ post'[p] = Report(v) /\ \A q \in Posts \ {p} : post'[q] = post[q]
        /\ ~visit[v].busy /\ visit'[v].busy /\ \A w \in Visits \ {v} : visit'[w] = visit[w]
    BY <1>4 DEF Move, TypeOK, Screens
  <2>2. /\ NoPost.at = "none" /\ NoPost.by \notin Visits
        /\ Report(v).at = "sent" /\ Report(v).by = v /\ Report(v).awaited /\ Report(v).late = {}
        /\ Report(v).before = Sent
    BY NoneAssumption DEF NoPost, Report
  <2>3. \A q \in Sent : /\ q \in Posts /\ q # p /\ post[q].at # "none"
                        /\ post[q].by = v => ~post[q].awaited
    BY <2>1, <2>2 DEF OrderInv, OneAwaited, Sent
  <2>4. \A q \in Posts : p \notin post[q].before
    BY <2>1, <2>2 DEF OrderInv, OneAwaited
  <2>5. \A q \in Posts : post[q].before \subseteq Posts
    BY DEF TypeOK, Reports
  <2> QED
    BY <2>1, <2>2, <2>3, <2>4, <2>5 DEF OrderInv, OneAwaited
<1> QED
  BY <1>1, <1>2, <1>3, <1>4

LEMMA RequestOrder ==
  ASSUME TypeOK, OrderInv, NEW p \in Posts,
         \/ \E what \in {"fine", "away", "fast"} : MoveParcel(p, what)
         \/ MoveLive(p) \/ Answer(p) \/ GiveUp(p) \/ Lose(p)
  PROVE  OrderInv'
<1>1. ASSUME NEW what \in {"fine", "away", "fast"}, MoveParcel(p, what) PROVE OrderInv'
  <2> DEFINE new == [NoPost EXCEPT !.at = "sent", !.what = what]
  <2>1. /\ post[p] = NoPost /\ post'[p] = new /\ \A q \in Posts \ {p} : post'[q] = post[q]
        /\ visit' = visit
    BY <1>1 DEF MoveParcel, TypeOK, phone
  <2>2. /\ NoPost.at = "none" /\ new.at = "sent" /\ ~new.awaited /\ new.before = {}
    BY DEF NoPost
  <2>3. \A q \in Posts : p \notin post[q].before /\ post[q].before \subseteq Posts
    BY <2>1, <2>2 DEF OrderInv, OneAwaited, TypeOK, Reports
  <2> HIDE DEF new
  <2> QED
    BY <2>1, <2>2, <2>3 DEF OrderInv, OneAwaited
<1>6. CASE MoveLive(p)
  <2> DEFINE new == [NoPost EXCEPT !.at = "sent", !.what = "live", !.before = Sent]
  <2>1. /\ post[p] = NoPost /\ post'[p] = new /\ \A q \in Posts \ {p} : post'[q] = post[q]
        /\ visit' = visit
    BY <1>6 DEF MoveLive, TypeOK, phone
  <2>2. /\ NoPost.at = "none" /\ new.at = "sent" /\ ~new.awaited /\ new.before = Sent
        /\ new.by \notin Visits
    BY NoneAssumption DEF NoPost
  <2>3. \A q \in Posts : p \notin post[q].before /\ post[q].before \subseteq Posts
    BY <2>1, <2>2 DEF OrderInv, OneAwaited, TypeOK, Reports
  <2>4. \A q \in Sent : /\ q \in Posts /\ q # p /\ post[q].at # "none"
                        /\ post[q].awaited => post[q].by # new.by
    BY <2>1, <2>2 DEF OrderInv, OneAwaited, Sent
  <2> HIDE DEF new
  <2> QED
    BY <2>1, <2>2, <2>3, <2>4 DEF OrderInv, OneAwaited
<1>2. CASE Answer(p)
  BY <1>2, OverKeeps DEF Answer
<1>3. CASE Lose(p)
  BY <1>3, OverKeeps DEF Lose, phone
<1>4. CASE GiveUp(p) /\ Over(p)
  BY <1>4, OverKeeps DEF GiveUp
<1>5. CASE GiveUp(p) /\ post' = [post EXCEPT ![p].awaited = FALSE]
  <2>1. post' = [post EXCEPT ![p] = [post[p] EXCEPT !.awaited = FALSE]] /\ post[p] \in Reports
    BY <1>5 DEF TypeOK
  <2>2. /\ ~post'[p].awaited /\ post'[p].before = post[p].before /\ post'[p].at = post[p].at
        /\ post'[p].by = post[p].by
        /\ \A q \in Posts \ {p} : post'[q] = post[q]
    BY <2>1 DEF TypeOK, Reports
  <2>3. post[p].awaited /\ End(post[p].by, FALSE)
    BY <1>5 DEF GiveUp
  <2>4. post[p].at # "none"
    BY <2>3 DEF OrderInv, OneAwaited, NoPost
  <2>5. \A q \in Posts \ {p} : post[q].awaited =>
          post[q].by # post[p].by /\ post[q].by \in Visits /\ visit'[post[q].by] = visit[post[q].by]
    BY <2>3 DEF OrderInv, OneAwaited, End, TypeOK
  <2>6. \A q \in Posts : post[q].before \subseteq Posts
    BY DEF TypeOK, Reports
  <2> QED
    BY <2>2, <2>4, <2>5, <2>6 DEF OrderInv, OneAwaited
<1> QED
  BY <1>1, <1>2, <1>3, <1>4, <1>5, <1>6 DEF GiveUp

LEMMA ServerOrder ==
  ASSUME TypeOK, OrderInv, NEW p \in Posts, ServerStep(p)
  PROVE  OrderInv'
<1>r. post[p] \in Reports /\ (post[p].at = "none" => post[p] = NoPost)
  BY DEF TypeOK, OrderInv, OneAwaited
<1>1. ASSUME NEW at \in Stations \ {"none"}, Step(p, at), post[p].at # "none", visit' = visit
      PROVE  OrderInv'
  <2>1. CASE at \in Ended /\ ~post[p].awaited
    BY <1>1, <2>1, OverKeeps DEF Step
  <2>2. CASE ~(at \in Ended /\ ~post[p].awaited)
    <3>1. /\ post'[p] = [post[p] EXCEPT !.at = at]
          /\ \A q \in Posts \ {p} : post'[q] = post[q]
      BY <1>1, <2>2 DEF Step, TypeOK
    <3>2. /\ post'[p].at # "none" /\ post'[p].by = post[p].by
          /\ post'[p].awaited = post[p].awaited
          /\ post'[p].before = post[p].before /\ post'[p].late = post[p].late
      BY <1>1, <3>1, <1>r DEF Reports
    <3> QED
      BY <1>1, <3>1, <3>2, WaitingKeeps
  <2> QED
    BY <2>1, <2>2
<1>2. CASE ReadJob(p)
  <2>1. /\ post'[p] = [[post[p] EXCEPT !.at = "read"] EXCEPT !.seen = count]
        /\ \A q \in Posts \ {p} : post'[q] = post[q]
        /\ visit' = visit /\ post[p].at # "none"
    BY <1>2 DEF ReadJob, TypeOK, phone
  <2>2. /\ post'[p].at # "none" /\ post'[p].by = post[p].by
        /\ post'[p].awaited = post[p].awaited
        /\ post'[p].before = post[p].before /\ post'[p].late = post[p].late
    BY <2>1, <1>r DEF Reports
  <2> QED
    BY <2>1, <2>2, WaitingKeeps
<1>3. CASE StorePosition(p) /\ kind # "delivery"
  <2>1. visit' = visit
    BY <1>3 DEF StorePosition, phone
  <2>2. /\ NoPost.at = "none" /\ NoPost.before = {} /\ ~NoPost.awaited
        /\ NoPost.by \notin Visits
    BY NoneAssumption DEF NoPost
  <2>3. /\ post'[p].before = {}
        /\ post'[p] = NoPost \/ post'[p].at = "done"
        /\ post'[p].awaited => /\ post[p].awaited /\ post'[p].by = post[p].by
                              /\ post'[p].late = post[p].late
        /\ post[p].awaited => post'[p].by = post[p].by /\ post'[p].at = "done"
        /\ post'[p].awaited = post[p].awaited
    <3>1. CASE post[p].awaited
      <4>1. post'[p] = [[post[p] EXCEPT !.at = "done"] EXCEPT !.before = {}]
        BY <1>3, <3>1, RideStored
      <4> QED
        BY <3>1, <4>1, <1>r DEF Reports
    <3>2. CASE ~post[p].awaited
      <4>1. post'[p] = NoPost /\ post[p].awaited = FALSE
        BY <1>3, <3>2, <1>r, RideStored DEF Reports
      <4>2. NoPost.awaited = FALSE
        BY DEF NoPost
      <4> QED
        BY <4>1, <4>2, <2>2
    <3> QED
      BY <3>1, <3>2
  <2>4. ASSUME NEW q \in Posts \ {p}
        PROVE  /\ post'[q].at = post[q].at /\ post'[q].by = post[q].by
               /\ post'[q].awaited = post[q].awaited
               /\ post'[q].before = post[q].before \ {p}
               /\ post'[q].late \subseteq {"own", "other"}
               /\ "own" \in post'[q].late =>
                    "own" \in post[q].late \/ (q \in post[p].before /\ post[p].by = post[q].by)
               /\ post[q] = NoPost => post'[q] = NoPost
    <3>1. PICK late \in SUBSET {"own", "other"} :
            /\ post'[q] = [[post[q] EXCEPT !.before = @ \ {p}] EXCEPT !.late = late]
            /\ q \notin post[p].before \/ post[q].at = "none" => late = post[q].late
            /\ "own" \in late =>
                 "own" \in post[q].late \/ (q \in post[p].before /\ post[p].by = post[q].by)
      BY <1>3, RideStored
    <3>2. post[q] \in Reports
      BY DEF TypeOK
    <3>3. ASSUME post[q] = NoPost PROVE post'[q] = NoPost
      <4>1. late = NoPost.late
        BY <2>2, <3>1, <3>3
      <4> QED
        BY <3>1, <3>3, <4>1, NoPostStays
    <3> QED
      BY <3>1, <3>2, <3>3 DEF Reports
  <2>5. \A q \in Posts : post'[q].awaited => post'[q].late \subseteq {"other"}
    <3>1. post'[p].awaited => post'[p].late \subseteq {"other"}
      BY <2>3 DEF OrderInv
    <3>2. ASSUME NEW q \in Posts \ {p}, post'[q].awaited PROVE post'[q].late \subseteq {"other"}
      <4>1. "own" \notin post[q].late /\ ~(q \in post[p].before /\ post[p].by = post[q].by)
        BY <2>4, <3>2 DEF OrderInv, OneAwaited
      <4> QED
        BY <2>4, <4>1
    <3> QED
      BY <3>1, <3>2
  <2>6. \A q \in Posts : post'[q].at = "none" => post'[q] = NoPost
    BY <2>2, <2>3, <2>4 DEF OrderInv, OneAwaited
  <2>7. \A q \in Posts : post'[q].awaited => post[q].awaited /\ post'[q].by = post[q].by
    BY <2>3, <2>4
  <2>8. \A q \in Posts : \A r \in post'[q].before :
          post'[r].at # "none" /\ (post'[q].by = post'[r].by => ~post'[r].awaited)
    <3>1. ASSUME NEW q \in Posts, NEW r \in post'[q].before
          PROVE  post'[r].at # "none" /\ (post'[q].by = post'[r].by => ~post'[r].awaited)
      <4>1. q \in Posts \ {p} /\ r \in Posts \ {p} /\ r \in post[q].before
        BY <2>3, <2>4 DEF TypeOK, Reports
      <4>2. post[r].at # "none" /\ (post[q].by = post[r].by => ~post[r].awaited)
        BY <4>1 DEF OrderInv, OneAwaited
      <4> QED
        BY <2>4, <4>1, <4>2
    <3> QED
      BY <3>1
  <2> QED
    BY <2>1, <2>5, <2>6, <2>7, <2>8 DEF OrderInv, OneAwaited
<1>4. CASE Lose(p)
  BY <1>4, RequestOrder
<1>5. CASE \/ StorePoint(p) \/ (StorePosition(p) /\ kind = "delivery")
           \/ Fine(p) \/ Note(p) \/ Save(p) \/ Warn(p) \/ Fail(p)
  BY <1>1, <1>5 DEF StorePoint, StorePosition, Positioning, Fine, Note, Save, Warn, Fail, phone, Stations,
     InHand
<1> QED
  BY <1>2, <1>3, <1>4, <1>5 DEF ServerStep

LEMMA OrderNext == TypeOK /\ OrderInv /\ [Next]_vars => OrderInv'
<1> SUFFICES ASSUME TypeOK, OrderInv, [Next]_vars PROVE OrderInv'
  OBVIOUS
<1>1. CASE UNCHANGED vars
  BY <1>1 DEF vars, OrderInv, OneAwaited
<1>2. CASE Kill
  <2>1. PICK v \in Visits : visit[v] # NoVisit
    BY <1>2 DEF Kill
  <2> QED
    BY <1>2, <2>1, PhoneOrder
<1> QED
  BY <1>1, <1>2, PhoneOrder, RequestOrder, ServerOrder DEF Next

-----------------------------------------------------------------------------

LEMMA TypeInit == Init => TypeOK
<1> SUFFICES ASSUME Init PROVE TypeOK
  OBVIOUS
<1>1. visit \in [Visits -> Screens] /\ post \in [Posts -> Reports]
  BY NoPostTyped DEF Init
<1> QED
  BY <1>1 DEF Init, TypeOK

\* The screens, the reports under way and the count are of their types after every
\* interleaving of the watch, its requests, the handlers and the end of the app.
THEOREM TypeCorrect == Spec => []TypeOK
BY TypeInit, TypeNext, PTL DEF Spec

\* No alert counts more points than were off the route since a point on it left no row, and
\* those of a row that another judgement had in hand then, for any number of reports under
\* way: evaluateTrackingSafety writes back a count it read several awaits ago, but what it
\* writes was earned when it noted the point.  As long as no two judgements overlap and none
\* fails half way, the count is exactly the points since.
THEOREM AlertsEarned == Spec => []AlertsAreEarned
<1>1. EarnedInv => AlertsAreEarned
  BY DEF EarnedInv, Covered, InTurn, AlertsAreEarned
<1> QED
  BY <1>1, EarnedInit, EarnedNext, TypeCorrect, PTL DEF Spec

\* A report the phone still awaits is never overtaken by a later one of its own visit, for
\* any number of visits, reports and live reports: inFlight lets one report of a visit be
\* awaited at a time.  Reports of other visits and live reports may overtake it.
THEOREM PositionsInOrder == Spec => []InOrder
<1>1. OrderInv => InOrder
  BY DEF OrderInv, InOrder
<1> QED
  BY <1>1, OrderInit, OrderNext, TypeCorrect, PTL DEF Spec

-----------------------------------------------------------------------------
(* The board of rides (DriverBoard).                                         *)

Offers == Trips \X Nat
Messages == [what : {"open", "offer", "expired", "closed", "assigned"}, offer : Offers]
Links == [up : BOOLEAN, queue : Seq(Messages)]
Boards == [online : BOOLEAN, card : Offers \cup {Nil}, active : Trips \cup {Nil},
           list : SUBSET Trips, screen : Trips \cup {Nil}]
SyncCalls == [at : {"idle", "sent", "answered"}, active : Trips \cup {Nil}, card : Offers \cup {Nil}]
RefreshCalls == [at : {"idle", "sent", "answered"}, list : SUBSET Trips]
Taps == {NoTap} \cup [at : {"accept", "reject", "won", "busy", "taken"}, trip : Trips, n : Nat,
                      other : Trips \cup {Nil}]

Rides == [life : {"new", "open", "mine", "others", "over"},
          row : {"none", "offered", "lapsed", "expired", "declined", "accepted"}, n : Nat]

BoardType ==
  /\ ride \in [Trips -> Rides]
  /\ link \in Links /\ board \in Boards
  /\ sync \in [Syncs -> SyncCalls] /\ refresh \in [Refreshes -> RefreshCalls]
  /\ tap \in Taps /\ owed \in BOOLEAN /\ held \subseteq Trips

\* Only what was given to this driver is theirs, is said to be theirs, and is answered.
OwnRides == Mine \subseteq held
OwnQueue ==
  \A i \in 1 .. Len(link.queue) : link.queue[i].what = "assigned" => link.queue[i].offer[1] \in held
OwnSyncs == \A s \in Syncs : sync[s].active \in held \cup {Nil}
OwnTap == tap.other \in held \cup {Nil} /\ (tap.at = "won" => tap.trip \in held)
Owning == OnlyOwnTrips /\ OwnRides /\ OwnQueue /\ OwnSyncs /\ OwnTap

-----------------------------------------------------------------------------
(* Its type.                                                                 *)

LEMMA EmitTyped ==
  ASSUME BoardType, NEW e \in Messages, Emit(e)
  PROVE  /\ link' \in Links
         /\ OwnQueue /\ (e.what = "assigned" => e.offer[1] \in held') /\ held \subseteq held' => OwnQueue'
<1>1. CASE link' = link
  BY <1>1 DEF BoardType, Rides, OwnQueue
<1>2. CASE link' = Down
  BY <1>2, EmptySeq DEF Down, Links, OwnQueue
<1>3. CASE link' = [link EXCEPT !.queue = Append(@, e)]
  <2> DEFINE q == link.queue
  <2>1. q \in Seq(Messages) /\ link'.queue = Append(q, e) /\ link'.up \in BOOLEAN
    BY <1>3 DEF BoardType, Rides, Links
  <2>2. /\ Append(q, e) \in Seq(Messages) /\ Len(Append(q, e)) = Len(q) + 1 /\ Len(q) \in Nat
        /\ \A i \in 1 .. Len(q) + 1 : Append(q, e)[i] = IF i <= Len(q) THEN q[i] ELSE e
    BY <2>1, AppendProperties, LenProperties
  <2>3. link' \in Links
    BY <1>3, <2>2 DEF BoardType, Rides, Links
  <2>4. ASSUME OwnQueue, e.what = "assigned" => e.offer[1] \in held', held \subseteq held',
               NEW i \in 1 .. Len(link'.queue), link'.queue[i].what = "assigned"
        PROVE  link'.queue[i].offer[1] \in held'
    <3>1. CASE i <= Len(q)
      BY <2>1, <2>2, <2>4, <3>1 DEF OwnQueue
    <3>2. CASE i > Len(q)
      BY <2>1, <2>2, <2>4, <3>2
    <3> QED
      BY <2>1, <2>2, <3>1, <3>2
  <2> QED
    BY <2>3, <2>4 DEF OwnQueue
<1> QED
  BY <1>1, <1>2, <1>3 DEF Emit

LEMMA EventTyped ==
  ASSUME BoardType, NEW t \in Trips, NEW what \in {"open", "offer", "expired", "closed", "assigned"}
  PROVE  /\ Event(what, t) \in Messages /\ Event(what, t).what = what /\ Event(what, t).offer[1] = t
BY DEF BoardType, Rides, Event, OfferOf, Messages, Offers

LEMMA AskSyncTyped ==
  ASSUME BoardType, AskSync
  PROVE  sync' \in [Syncs -> SyncCalls] /\ \A s \in Syncs : sync'[s].active = sync[s].active
<1>1. ASSUME NEW s \in Syncs, sync' = [sync EXCEPT ![s].at = "sent"]
      PROVE  sync' \in [Syncs -> SyncCalls] /\ \A u \in Syncs : sync'[u].active = sync[u].active
  BY <1>1 DEF BoardType, Rides, SyncCalls
<1> QED
  BY <1>1 DEF AskSync, BoardType, Rides

LEMMA AskRefreshTyped ==
  ASSUME BoardType, AskRefresh \/ RefreshIfOnline
  PROVE  refresh' \in [Refreshes -> RefreshCalls]
<1>1. ASSUME NEW r \in Refreshes, refresh' = [refresh EXCEPT ![r].at = "sent"]
      PROVE  refresh' \in [Refreshes -> RefreshCalls]
  BY <1>1 DEF BoardType, Rides, RefreshCalls
<1> QED
  BY <1>1 DEF AskRefresh, RefreshIfOnline, BoardType, Rides

LEMMA MyTripTyped ==
  ASSUME BoardType
  PROVE  MyTrip \in Mine \cup {Nil} /\ Mine \subseteq Trips
BY DEF MyTrip, Mine

LEMMA MarketTyped ==
  ASSUME BoardType, NEW t \in Trips, MarketStep(t)
  PROVE  BoardType'
<1>1. CASE RequestRide(t) \/ OtherReleases(t)
  <2>1. ride' \in [Trips -> Rides]
    BY <1>1 DEF RequestRide, OtherReleases, BoardType, Rides
  <2>2. link' \in Links
    BY <1>1, EventTyped, EmitTyped DEF RequestRide, OtherReleases
  <2> QED
    BY <1>1, <2>1, <2>2 DEF RequestRide, OtherReleases, BoardType
<1>2. CASE OfferRide(t)
  <2>1. [what |-> "offer", offer |-> <<t, ride[t].n + 1>>] \in Messages
    BY DEF BoardType, Rides, Messages, Offers
  <2> QED
    BY <1>2, <2>1, EmitTyped DEF OfferRide, BoardType, Rides
<1>3. CASE LapseOffer(t) \/ EndTrip(t)
  BY <1>3 DEF LapseOffer, EndTrip, BoardType, Rides
<1>4. CASE ExpireOverdueOffer(t)
  BY <1>4, EventTyped, EmitTyped DEF ExpireOverdueOffer, BoardType, Rides
<1>5. ASSUME NEW life \in {"others", "over"}, CloseRide(t, life) PROVE BoardType'
  <2>1. ride' = [ride EXCEPT ![t] = [ride[t] EXCEPT !.life = life, !.row = Answered(@)]]
    BY <1>5 DEF CloseRide, BoardType, Rides
  <2>2. [ride[t] EXCEPT !.life = life, !.row = Answered(@)] \in Rides
    BY DEF BoardType, Answered, Rides
  <2>3. ride' \in [Trips -> Rides]
    BY <2>1, <2>2 DEF BoardType
  <2>4. link' \in Links
    BY <1>5, EventTyped, EmitTyped DEF CloseRide
  <2> QED
    BY <1>5, <2>3, <2>4 DEF CloseRide, BoardType, Rides
<1>6. CASE ReleaseTrip(t)
  <2>1. ride' = [ride EXCEPT ![t] = [ride[t] EXCEPT !.life = "open", !.row = "declined"]]
    BY <1>6 DEF ReleaseTrip, BoardType, Rides
  <2>2. [ride[t] EXCEPT !.life = "open", !.row = "declined"] \in Rides
    BY DEF BoardType, Rides
  <2>3. ride' \in [Trips -> Rides]
    BY <2>1, <2>2 DEF BoardType
  <2>4. link' \in Links
    BY <1>6, EventTyped, EmitTyped DEF ReleaseTrip
  <2> QED
    BY <1>6, <2>3, <2>4 DEF ReleaseTrip, BoardType, Rides
<1> QED
  BY <1>1, <1>2, <1>3, <1>4, <1>5, <1>6 DEF MarketStep

LEMMA CallTyped ==
  ASSUME BoardType, CallStep
  PROVE  BoardType'
<1>1. ASSUME NEW s \in Syncs, ServeSync(s) PROVE BoardType'
  <2>1. MyTrip \in Trips \cup {Nil} /\ \A t \in Trips : OfferOf(t) \in Offers
    BY MyTripTyped DEF BoardType, Rides, OfferOf, Offers
  <2>2. PICK card \in Offers \cup {Nil} :
          sync' = [sync EXCEPT ![s] = [at |-> "answered", active |-> MyTrip, card |-> card]]
    BY <1>1, <2>1 DEF ServeSync, Open
  <2> QED
    BY <1>1, <2>1, <2>2 DEF ServeSync, BoardType, Rides, SyncCalls
<1>2. ASSUME NEW s \in Syncs, TakeSync(s) \/ LoseSync(s) PROVE BoardType'
  <2>1. sync' \in [Syncs -> SyncCalls]
    BY <1>2 DEF TakeSync, LoseSync, BoardType, Rides, SyncCalls, NoSync
  <2>2. sync[s].card \in Offers \cup {Nil} /\ sync[s].active \in Trips \cup {Nil}
    BY DEF BoardType, Rides, SyncCalls
  <2>3. board' \in Boards
    BY <1>2, <2>2 DEF TakeSync, LoseSync, BoardType, Rides, Boards
  <2> QED
    BY <1>2, <2>1, <2>3 DEF TakeSync, LoseSync, BoardType, Rides
<1>3. ASSUME NEW r \in Refreshes, ServeRefresh(r) \/ TakeRefresh(r) \/ LoseRefresh(r) PROVE BoardType'
  <2>1. refresh' \in [Refreshes -> RefreshCalls]
    BY <1>3 DEF ServeRefresh, TakeRefresh, LoseRefresh, BoardType, Rides, RefreshCalls, NoRefresh, Open
  <2>2. board' \in Boards
    BY <1>3 DEF ServeRefresh, TakeRefresh, LoseRefresh, BoardType, Rides, RefreshCalls, Boards
  <2> QED
    BY <1>3, <2>1, <2>2 DEF ServeRefresh, TakeRefresh, LoseRefresh, BoardType, Rides
<1>4. CASE LoseTap
  BY <1>4, AskRefreshTyped DEF LoseTap, BoardType, Rides, Taps
<1>5. CASE ServeAccept
  <2>0. tap \in [at : {"accept", "reject", "won", "busy", "taken"}, trip : Trips, n : Nat,
                 other : Trips \cup {Nil}]
    BY <1>5 DEF ServeAccept, BoardType, Rides, Taps, NoTap
  <2>1. ASSUME NEW at \in {"won", "busy", "taken"}, NEW other \in Trips \cup {Nil}, AnswerTap(at, other)
        PROVE  tap' \in Taps
    BY <2>0, <2>1 DEF AnswerTap, Taps
  <2>2. MyTrip \in Trips \cup {Nil} /\ tap.trip \in Trips
    BY <2>0, MyTripTyped
  <2>3. CASE AnswerTap("won", Nil) /\ UNCHANGED <<ride, link, held>>
    BY <1>5, <2>1, <2>3 DEF ServeAccept, BoardType, Rides
  <2>4. CASE AnswerTap("busy", MyTrip) /\ UNCHANGED <<ride, link, held>>
    BY <1>5, <2>1, <2>2, <2>4 DEF ServeAccept, BoardType, Rides
  <2>5. CASE /\ AnswerTap("won", Nil)
             /\ ride' = [ride EXCEPT ![tap.trip].life = "mine", ![tap.trip].row = "accepted"]
             /\ Emit(Event("assigned", tap.trip))
             /\ held' = held \cup {tap.trip}
    BY <1>5, <2>1, <2>2, <2>5, EventTyped, EmitTyped DEF ServeAccept, BoardType, Rides
  <2>6. CASE AnswerTap("taken", Nil) /\ UNCHANGED <<ride, link, held>>
    BY <1>5, <2>1, <2>6 DEF ServeAccept, BoardType, Rides
  <2> QED
    BY <1>5, <2>3, <2>4, <2>5, <2>6 DEF ServeAccept
<1>6. CASE TakeAccept
  <2>1. tap.trip \in Trips /\ tap.other \in Trips \cup {Nil}
    BY <1>6 DEF TakeAccept, BoardType, Rides, Taps, NoTap
  <2>2. board' \in Boards
    BY <1>6, <2>1 DEF TakeAccept, BoardType, Boards, CardUnless
  <2>3. refresh' \in [Refreshes -> RefreshCalls]
    BY <1>6, AskRefreshTyped DEF TakeAccept, BoardType, Rides
  <2> QED
    BY <1>6, <2>2, <2>3 DEF TakeAccept, BoardType, Rides, Taps
<1>7. CASE Reject
  BY <1>7 DEF Reject, BoardType, Rides, Taps, NoTap, Boards
<1> QED
  BY <1>1, <1>2, <1>3, <1>4, <1>5, <1>6, <1>7 DEF CallStep

LEMMA ReceiveTyped ==
  ASSUME BoardType, ReceiveEvent
  PROVE  BoardType'
<1> DEFINE e == Head(link.queue)
<1>1. e \in Messages /\ Tail(link.queue) \in Seq(Messages)
  BY HeadTailProperties DEF ReceiveEvent, BoardType, Rides, Links
<1>2. e.offer \in Offers /\ e.offer[1] \in Trips
      /\ e.what \in {"open", "offer", "expired", "closed", "assigned"}
  BY <1>1 DEF Messages, Offers
<1>3. board' \in Boards
  <2>1. CASE e.what \in {"open", "closed"}
    BY <1>2, <2>1 DEF ReceiveEvent, BoardType, Rides, Boards, CardUnless
  <2>2. CASE e.what \in {"offer", "expired", "assigned"}
    BY <1>2, <2>2 DEF ReceiveEvent, BoardType, Rides, Boards, CardUnless
  <2> QED
    BY <1>2, <2>1, <2>2
<1> QED
  BY <1>1, <1>3 DEF ReceiveEvent, BoardType, Rides, Links

LEMMA BoardTypeNext == BoardType /\ [BoardNext]_boardVars => BoardType'
<1> SUFFICES ASSUME BoardType, [BoardNext]_boardVars PROVE BoardType'
  OBVIOUS
<1>0. Down \in Links /\ [up |-> TRUE, queue |-> <<>>] \in Links
  BY EmptySeq DEF Down, Links
<1>1. CASE RefreshTimer \/ Foreground \/ Connect
  BY <1>0, <1>1, AskSyncTyped, AskRefreshTyped DEF RefreshTimer, Foreground, Connect, BoardType, Rides
<1>2. CASE Disconnect \/ LoseFinish
  BY <1>0, <1>2 DEF Disconnect, LoseFinish, BoardType, Rides
<1>3. CASE GoOnline
  BY <1>3, AskRefreshTyped DEF GoOnline, BoardType, Rides, Boards
<1>4. CASE GoOffline \/ Countdown \/ ResumeTrip \/ GoBack \/ TripCancelled
  BY <1>4 DEF GoOffline, Countdown, ResumeTrip, GoBack, TripCancelled, BoardType, Rides, Boards
<1>5. CASE FinishTrip
  BY <1>5 DEF FinishTrip, BoardType, Rides, Boards
<1>6. ASSUME NEW k \in {"accept", "reject"}, NEW offer \in Offers, Send(k, offer) PROVE BoardType'
  <2>1. tap' \in Taps
    BY <1>6 DEF Send, NoTap, Taps, Offers
  <2> QED
    BY <1>6, <2>1 DEF Send, BoardType, Rides
<1>7. ASSUME NEW offer \in Trips \X (0 .. MaxOffers), TapAccept(offer) PROVE BoardType'
  BY <1>6, <1>7, BoundAssumption DEF TapAccept, Offers
<1>8. CASE TapReject
  BY <1>6, <1>8 DEF TapReject, BoardType, Rides, Boards
<1>9. CASE RestartApp
  <2>1. board' \in Boards
    BY <1>9 DEF RestartApp, FreshBoard, Boards
  <2>2. sync' \in [Syncs -> SyncCalls] /\ refresh' \in [Refreshes -> RefreshCalls]
    BY <1>9 DEF RestartApp, NoSync, NoRefresh, SyncCalls, RefreshCalls
  <2> QED
    BY <1>0, <1>9, <2>1, <2>2 DEF RestartApp, BoardType, Rides, Taps
<1>10. CASE UNCHANGED boardVars
  BY <1>10 DEF boardVars, BoardType, Rides
<1> QED
  BY <1>1, <1>2, <1>3, <1>4, <1>5, <1>7, <1>8, <1>9, <1>10, MarketTyped, CallTyped, ReceiveTyped
  DEF BoardNext, BoardStep

-----------------------------------------------------------------------------
(* Whose the trips are.                                                      *)

\* A step that gives this driver no trip, and says of none that it is theirs.
LEMMA NothingGiven ==
  ASSUME BoardType, Owning, held' = held, Mine' \subseteq Mine, OwnQueue',
         {board'.screen, board'.active} \subseteq {board.screen, board.active, Nil},
         OwnSyncs', OwnTap'
  PROVE  Owning'
BY DEF Owning, OnlyOwnTrips, OwnRides

LEMMA MarketOwns ==
  ASSUME BoardType, Owning, NEW t \in Trips, MarketStep(t)
  PROVE  Owning'
<1>0. /\ held' = held /\ UNCHANGED <<board, sync, tap>>
  BY DEF MarketStep, RequestRide, OfferRide, LapseOffer, ExpireOverdueOffer, CloseRide, OtherReleases,
     EndTrip, ReleaseTrip
<1>1. Mine' \subseteq Mine
  BY DEF BoardType, Rides, Mine, MarketStep, RequestRide, OfferRide, LapseOffer, ExpireOverdueOffer, CloseRide,
     OtherReleases, EndTrip, ReleaseTrip
<1>2. OwnQueue'
  <2>1. CASE LapseOffer(t) \/ EndTrip(t)
    BY <2>1 DEF LapseOffer, EndTrip, Owning, OwnQueue
  <2>2. CASE OfferRide(t)
    <3> DEFINE e == [what |-> "offer", offer |-> <<t, ride[t].n + 1>>]
    <3>1. e \in Messages /\ e.what # "assigned" /\ Emit(e)
      BY <2>2 DEF BoardType, Rides, Messages, Offers, OfferRide
    <3> QED
      BY <1>0, <3>1, EmitTyped DEF Owning
  <2>3. ASSUME NEW what \in {"open", "expired", "closed"}, Emit(Event(what, t)) PROVE OwnQueue'
    BY <1>0, <2>3, EventTyped, EmitTyped DEF Owning
  <2> QED
    BY <2>1, <2>2, <2>3 DEF MarketStep, RequestRide, ExpireOverdueOffer, CloseRide, OtherReleases, ReleaseTrip
<1> QED
  BY <1>0, <1>1, <1>2, NothingGiven DEF Owning, OwnSyncs, OwnTap

LEMMA CallOwns ==
  ASSUME BoardType, Owning, CallStep
  PROVE  Owning'
<1>0. \A s \in Syncs : sync[s].active \in held \cup {Nil}
  BY DEF Owning, OwnSyncs
<1>a. NoSync.active = Nil /\ NoTap.other = Nil /\ NoTap.at # "won"
  BY DEF NoSync, NoTap
<1>b. MyTrip \in held \cup {Nil}
  BY MyTripTyped DEF Owning, OwnRides
<1>c. ASSUME UNCHANGED <<ride, link, held>> PROVE Mine' \subseteq Mine /\ OwnQueue' /\ held' = held
  BY <1>c DEF Mine, Owning, OwnQueue
<1>1. ASSUME NEW s \in Syncs, ServeSync(s) PROVE Owning'
  <2>1. OwnSyncs'
    <3>1. PICK card : sync' = [sync EXCEPT ![s] = [at |-> "answered", active |-> MyTrip, card |-> card]]
      BY <1>1 DEF ServeSync
    <3> QED
      BY <1>0, <1>1, <1>b, <3>1 DEF ServeSync, OwnSyncs, BoardType, Rides
  <2> QED
    BY <1>1, <1>c, <2>1, NothingGiven DEF ServeSync, Owning, OwnTap
<1>2. ASSUME NEW s \in Syncs, TakeSync(s) \/ LoseSync(s) PROVE Owning'
  <2>1. OwnSyncs'
    BY <1>0, <1>2, <1>a DEF TakeSync, LoseSync, OwnSyncs, BoardType, Rides
  <2>2. {board'.screen, board'.active} \subseteq {board.screen, board.active, sync[s].active}
    BY <1>2 DEF TakeSync, LoseSync, BoardType, Rides, Boards
  <2> QED
    BY <1>0, <1>2, <1>c, <2>1, <2>2 DEF TakeSync, LoseSync, Owning, OnlyOwnTrips, OwnRides, OwnTap
<1>3. ASSUME NEW r \in Refreshes, ServeRefresh(r) \/ TakeRefresh(r) \/ LoseRefresh(r) PROVE Owning'
  <2>1. {board'.screen, board'.active} \subseteq {board.screen, board.active}
    BY <1>3 DEF ServeRefresh, TakeRefresh, LoseRefresh, BoardType, Rides, Boards
  <2> QED
    BY <1>3, <1>c, <2>1, NothingGiven DEF ServeRefresh, TakeRefresh, LoseRefresh, Owning, OwnSyncs, OwnTap
<1>4. CASE LoseTap
  BY <1>4, <1>a, <1>c, NothingGiven DEF LoseTap, Owning, OwnSyncs, OwnTap
<1>5. CASE ServeAccept
  <2>0. /\ tap \in [at : {"accept", "reject", "won", "busy", "taken"}, trip : Trips, n : Nat,
                    other : Trips \cup {Nil}]
        /\ UNCHANGED <<board, sync>>
    BY <1>5 DEF ServeAccept, BoardType, Rides, Taps, NoTap
  <2>1. ASSUME NEW at, NEW other, AnswerTap(at, other)
        PROVE  tap'.at = at /\ tap'.other = other /\ tap'.trip = tap.trip
    BY <2>0, <2>1 DEF AnswerTap
  <2>2. CASE MyTrip = tap.trip /\ AnswerTap("won", Nil) /\ UNCHANGED <<ride, link, held>>
    <3>1. tap.trip \in held
      BY <1>b, <2>0, <2>2, TripAssumption
    <3> QED
      BY <1>c, <2>0, <2>1, <2>2, <3>1, NothingGiven DEF Owning, OwnSyncs, OwnTap
  <2>3. CASE AnswerTap("busy", MyTrip) /\ UNCHANGED <<ride, link, held>>
    BY <1>b, <1>c, <2>0, <2>1, <2>3, NothingGiven DEF Owning, OwnSyncs, OwnTap
  <2>4. CASE AnswerTap("taken", Nil) /\ UNCHANGED <<ride, link, held>>
    BY <1>c, <2>0, <2>1, <2>4, NothingGiven DEF Owning, OwnSyncs, OwnTap
  <2>5. CASE /\ AnswerTap("won", Nil)
             /\ ride' = [ride EXCEPT ![tap.trip].life = "mine", ![tap.trip].row = "accepted"]
             /\ Emit(Event("assigned", tap.trip))
             /\ held' = held \cup {tap.trip}
    <3>1. OwnQueue'
      BY <2>0, <2>5, EventTyped, EmitTyped DEF Owning
    <3>2. OwnRides'
      BY <2>0, <2>5 DEF Owning, OwnRides, Mine, BoardType, Rides
    <3>3. OwnTap' /\ OwnSyncs' /\ OnlyOwnTrips'
      BY <2>0, <2>1, <2>5 DEF Owning, OwnTap, OwnSyncs, OnlyOwnTrips
    <3> QED
      BY <3>1, <3>2, <3>3 DEF Owning
  <2> QED
    BY <1>5, <2>2, <2>3, <2>4, <2>5 DEF ServeAccept
<1>6. CASE TakeAccept
  <2>1. tap' = NoTap /\ UNCHANGED <<ride, link, sync, held>>
    BY <1>6 DEF TakeAccept
  <2>2. {board'.screen, board'.active} \subseteq held \cup {Nil}
    <3>1. CASE tap.at = "won"
      BY <1>6, <3>1 DEF TakeAccept, BoardType, Rides, Boards, Owning, OwnTap, OnlyOwnTrips
    <3>2. CASE tap.at # "won"
      BY <1>6, <3>2 DEF TakeAccept, BoardType, Rides, Boards, Owning, OwnTap, OnlyOwnTrips
    <3> QED
      BY <3>1, <3>2
  <2> QED
    BY <1>a, <1>c, <2>1, <2>2 DEF Owning, OnlyOwnTrips, OwnRides, OwnSyncs, OwnTap
<1>7. CASE Reject
  <2>1. Mine' \subseteq Mine
    BY <1>7 DEF Reject, Mine, BoardType, Rides
  <2>2. {board'.screen, board'.active} \subseteq {board.screen, board.active}
    BY <1>7 DEF Reject, BoardType, Rides, Boards
  <2> QED
    BY <1>7, <1>a, <2>1, <2>2, NothingGiven DEF Reject, Owning, OwnQueue, OwnSyncs, OwnTap
<1> QED
  BY <1>1, <1>2, <1>3, <1>4, <1>5, <1>6, <1>7 DEF CallStep

LEMMA ReceiveOwns ==
  ASSUME BoardType, Owning, ReceiveEvent
  PROVE  Owning'
<1> DEFINE q == link.queue
           e == Head(q)
<1>1. /\ q \in Seq(Messages) /\ q # <<>> /\ link'.queue = Tail(q) /\ e = q[1]
      /\ UNCHANGED <<ride, sync, tap, held>>
  BY DEF ReceiveEvent, BoardType, Rides, Links
<1>2. /\ Tail(q) \in Seq(Messages) /\ Len(Tail(q)) = Len(q) - 1 /\ Len(q) \in Nat \ {0} /\ e \in Messages
      /\ \A i \in 1 .. Len(Tail(q)) : Tail(q)[i] = q[i + 1]
  BY <1>1, HeadTailProperties, EmptySeq
<1>3. OwnQueue'
  BY <1>1, <1>2 DEF Owning, OwnQueue
<1>4. e.what = "assigned" => e.offer[1] \in held
  BY <1>1, <1>2 DEF Owning, OwnQueue
<1>5. {board'.screen, board'.active} \subseteq held \cup {Nil}
  <2>1. CASE e.what = "assigned"
    <3>1. board'.screen = board.screen /\ board'.active = e.offer[1]
      BY <2>1 DEF ReceiveEvent, BoardType, Rides, Boards
    <3> QED
      BY <1>4, <2>1, <3>1 DEF Owning, OnlyOwnTrips
  <2>2. CASE e.what \in {"open", "offer", "expired", "closed"}
    <3>1. board'.screen = board.screen /\ board'.active = board.active
      BY <2>2 DEF ReceiveEvent, BoardType, Rides, Boards
    <3> QED
      BY <3>1 DEF Owning, OnlyOwnTrips
  <2> QED
    BY <1>2, <2>1, <2>2 DEF Messages
<1> QED
  BY <1>1, <1>3, <1>5 DEF Owning, OnlyOwnTrips, OwnRides, Mine, OwnSyncs, OwnTap

LEMMA OwningNext == BoardType /\ Owning /\ [BoardNext]_boardVars => Owning'
<1> SUFFICES ASSUME BoardType, Owning, [BoardNext]_boardVars PROVE Owning'
  OBVIOUS
<1>a. /\ ride' = ride => Mine' \subseteq Mine
      /\ link' = link /\ held' = held => OwnQueue'
      /\ link'.queue = <<>> => OwnQueue'
      /\ sync' = sync /\ held' = held => OwnSyncs'
      /\ tap' = tap /\ held' = held => OwnTap'
  BY DEF Mine, Owning, OwnQueue, OwnSyncs, OwnTap
<1>1. CASE RefreshTimer \/ Foreground \/ Connect
  <2>1. UNCHANGED <<ride, board, tap, held>> /\ (link' = link \/ link'.queue = <<>>)
    BY <1>1 DEF RefreshTimer, Foreground, Connect
  <2>2. OwnSyncs'
    BY <1>1, <1>a, <2>1, AskSyncTyped DEF RefreshTimer, Foreground, Connect, Owning, OwnSyncs
  <2> QED
    BY <1>a, <2>1, <2>2, NothingGiven
<1>2. CASE Disconnect \/ LoseFinish
  <2>1. UNCHANGED <<ride, board, sync, tap, held>> /\ (link' = link \/ link'.queue = <<>>)
    BY <1>2 DEF Disconnect, LoseFinish, Down
  <2> QED
    BY <1>a, <2>1, NothingGiven
<1>3. CASE GoOnline \/ GoOffline \/ Countdown \/ ResumeTrip \/ GoBack \/ TripCancelled \/ FinishTrip
  <2>1. UNCHANGED <<ride, link, sync, tap, held>>
    BY <1>3 DEF GoOnline, GoOffline, Countdown, ResumeTrip, GoBack, TripCancelled, FinishTrip
  <2>2. {board'.screen, board'.active} \subseteq {board.screen, board.active, Nil}
    BY <1>3 DEF GoOnline, GoOffline, Countdown, ResumeTrip, GoBack, TripCancelled, FinishTrip, BoardType, Rides, Boards
  <2> QED
    BY <1>a, <2>1, <2>2, NothingGiven
<1>4. CASE (\E offer \in Trips \X (0 .. MaxOffers) : TapAccept(offer)) \/ TapReject
  <2>1. UNCHANGED <<ride, link, board, sync, held>>
    BY <1>4 DEF TapAccept, TapReject, Send
  <2>2. tap'.other = Nil /\ tap'.at \in {"accept", "reject"}
    BY <1>4 DEF TapAccept, TapReject, Send, NoTap
  <2> QED
    BY <1>a, <2>1, <2>2, NothingGiven DEF OwnTap
<1>5. CASE RestartApp
  <2>1. /\ UNCHANGED <<ride, held>> /\ link'.queue = <<>> /\ board'.screen = Nil /\ board'.active = Nil
        /\ tap'.other = Nil /\ tap'.at # "won"
    BY <1>5 DEF RestartApp, Down, FreshBoard, NoTap
  <2>2. OwnSyncs'
    BY <1>5 DEF RestartApp, OwnSyncs, NoSync
  <2> QED
    BY <1>a, <2>1, <2>2, NothingGiven DEF OwnTap
<1>6. CASE UNCHANGED boardVars
  BY <1>a, <1>6, NothingGiven DEF boardVars
<1> QED
  BY <1>1, <1>2, <1>3, <1>4, <1>5, <1>6, MarketOwns, CallOwns, ReceiveOwns DEF BoardNext, BoardStep

LEMMA BoardStart == BoardInit => BoardType /\ Owning
<1> SUFFICES ASSUME BoardInit PROVE BoardType /\ Owning
  OBVIOUS
<1>1. BoardType
  BY EmptySeq, TripAssumption
  DEF BoardInit, BoardType, Rides, NewRide, TakenRide, Down, FreshBoard, NoSync, NoRefresh, Links, Boards, SyncCalls,
      RefreshCalls, Taps
<1>2. Owning
  BY DEF BoardInit, Owning, OnlyOwnTrips, OwnRides, Mine, OwnQueue, OwnSyncs, OwnTap, NewRide, TakenRide, Down,
     FreshBoard, NoSync, NoTap
<1> QED
  BY <1>1, <1>2

\* The phone opens, or offers to resume, only a trip the server has given this driver: for any
\* number of trips, calls and events, whatever is lost, late, or taken by somebody else.
THEOREM OwnTripsOnly == BoardSpec => []OnlyOwnTrips
<1>1. Owning => OnlyOwnTrips
  BY DEF Owning
<1> QED
  BY <1>1, BoardStart, BoardTypeNext, OwningNext, PTL DEF BoardSpec

=============================================================================
