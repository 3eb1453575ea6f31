---------------------------- MODULE PresenceProofs ----------------------------
(* That only drivers whose flag says online are on the map, that one who     *)
(* reports stays there, and that passengers are told of both, for any number *)
(* of connections, calls and queued events.                                  *)
EXTENDS DriverPresence, SequenceTheorems, TLAPS

Sockets == [open : BOOLEAN, reported : BOOLEAN, cached : BOOLEAN,
            read : {"no", "asked", "on", "off"}]

\* The server's side, typed; the passenger's list is no part of the argument.
Typed ==
  /\ row \in BOOLEAN
  /\ flag \in {"unknown", "on", "off"}
  /\ entry \in {"absent", "fresh", "stale"}
  /\ sock \in [Conns -> Sockets]
  /\ call \in [Calls -> [at : {"none", "sent", "written", "applied"}, toggle : BOOLEAN,
                         to : BOOLEAN, awaited : BOOLEAN]]
  /\ app \in [switch : {"fresh", "on", "off"}, conn : Conns \cup {None}]

\* The phone's connection is open, and a connection whose driver is known
\* asks no more: the flag is set and no query is under way.
Known ==
  /\ app.conn # None => sock[app.conn].open
  /\ \A c \in Conns : sock[c].cached => flag # "unknown" /\ sock[c].read = "no"

\* While heartbeats arrive and the driver has been listed, no entry grows stale.
Reporting == HeartbeatsArrive /\ sock[app.conn].reported => entry = "fresh"

Inv == Typed /\ Known /\ ListedIsFlagged /\ Reporting

LEMMA TypedInit == Init => Inv
<1> SUFFICES ASSUME Init PROVE Inv
  OBVIOUS
<1>1. /\ app.conn = None /\ app.switch = "fresh" /\ entry = "absent" /\ flag = "unknown"
      /\ \A c \in Conns : ~sock[c].cached
  BY DEF Init, FreshApp, NoSocket
<1>2. Typed
  BY DEF Init, Typed, Sockets, NoSocket, NoCall, FreshApp
<1> QED
  BY <1>1, <1>2 DEF Inv, Known, ListedIsFlagged, Reporting, HeartbeatsArrive

\* A report lists the driver exactly if the flag says so.
LEMMA ReportKeeps ==
  ASSUME Inv, NEW c \in Conns, app.conn = c,
         Report(c), flag' = flag, row' = row,
         call' \in [Calls -> [at : {"none", "sent", "written", "applied"}, toggle : BOOLEAN,
                              to : BOOLEAN, awaited : BOOLEAN]],
         app' \in [switch : {"fresh", "on", "off"}, conn : Conns \cup {None}],
         app'.conn = app.conn
  PROVE  Inv'
<1>0. c # None
  BY NoneAssumption
<1>1. CASE sock[c].cached /\ flag # "unknown" /\ flag = "on"
  <2>1. entry' = "fresh" /\ sock' = [sock EXCEPT ![c].reported = TRUE]
    BY <1>1 DEF Report, UpsertOnlineDriver
  <2>2. /\ sock' \in [Conns -> Sockets]
        /\ \A d \in Conns : /\ sock'[d].open = sock[d].open /\ sock'[d].cached = sock[d].cached
                            /\ sock'[d].read = sock[d].read
    <3> DEFINE new == [sock[c] EXCEPT !.reported = TRUE]
    <3>1. sock[c] \in Sockets /\ sock \in [Conns -> Sockets]
      BY DEF Inv, Typed
    <3>2. /\ new \in Sockets /\ new.open = sock[c].open /\ new.cached = sock[c].cached
          /\ new.read = sock[c].read
      BY <3>1 DEF Sockets
    <3>3. sock' = [sock EXCEPT ![c] = new]
      BY <2>1
    <3> HIDE DEF new
    <3> QED
      BY <3>1, <3>2, <3>3
  <2>3. Typed' /\ ListedIsFlagged' /\ Reporting'
    BY <1>1, <2>1, <2>2 DEF Inv, Typed, ListedIsFlagged, Reporting
  <2>4. Known'
    BY <1>0, <2>2 DEF Inv, Known
  <2> QED
    BY <2>3, <2>4 DEF Inv
<1>2. CASE sock[c].cached /\ flag # "unknown" /\ flag # "on"
  <2>1. UNCHANGED <<entry, sock>>
    BY <1>2 DEF Report
  <2> QED
    BY <1>0, <1>2, <2>1
    DEF Inv, Typed, Sockets, Known, ListedIsFlagged, Reporting, HeartbeatsArrive, ShownOnline
<1>3. CASE ~(sock[c].cached /\ flag # "unknown")
  <2>1. entry' = entry /\ sock' = [sock EXCEPT ![c].read = "asked"] /\ ~sock[c].cached
    BY <1>3 DEF Report, Inv, Known
  <2> QED
    BY <1>0, <1>3, <2>1
    DEF Inv, Typed, Sockets, Known, ListedIsFlagged, Reporting, HeartbeatsArrive, ShownOnline
<1> QED
  BY <1>1, <1>2, <1>3

LEMMA SocketKeeps ==
  ASSUME Inv, NEW c \in Conns, SocketStep(c)
  PROVE  Inv'
<1>0. c # None
  BY NoneAssumption
<1> USE DEF Inv, Typed, Sockets, Known, ListedIsFlagged, Reporting, HeartbeatsArrive, ShownOnline
<1>1. CASE Connect(c)
  <2>1. /\ app.conn = None /\ app' = [app EXCEPT !.conn = c] /\ sock[c] = NoSocket
        /\ sock' = [sock EXCEPT ![c] = [NoSocket EXCEPT !.open = TRUE,
                               !.read = IF ShownOnline THEN "asked" ELSE "no"]]
        /\ UNCHANGED <<row, flag, entry, call>>
    BY <1>1 DEF Connect
  <2>2. /\ sock' \in [Conns -> Sockets] /\ \A d \in Conns \ {c} : sock'[d] = sock[d]
        /\ sock'[c].open /\ ~sock'[c].cached /\ ~sock'[c].reported
    <3> DEFINE new == [NoSocket EXCEPT !.open = TRUE,
                                       !.read = IF ShownOnline THEN "asked" ELSE "no"]
    <3>1. new \in Sockets /\ new.open /\ ~new.cached /\ ~new.reported
      BY DEF NoSocket
    <3>2. sock' = [sock EXCEPT ![c] = new]
      BY <2>1
    <3> HIDE DEF new
    <3> QED
      BY <3>1, <3>2
  <2>3. app'.conn = c /\ app' \in [switch : {"fresh", "on", "off"}, conn : Conns \cup {None}]
    BY <2>1
  <2> QED
    BY <1>0, <2>1, <2>2, <2>3
<1>2. CASE ReadProfile(c)
  BY <1>0, <1>2 DEF ReadProfile, Flag
<1>3. CASE FinishRead(c)
  <2> DEFINE known == IF flag = "unknown" THEN sock[c].read ELSE flag
  <2>1. /\ sock[c].read \in {"on", "off"} /\ ~sock[c].cached
        /\ flag' = known /\ known \in {"on", "off"}
        /\ IF known = "on" THEN entry' = "fresh" ELSE entry' = entry
        /\ UNCHANGED <<row, call, app>>
    BY <1>3 DEF FinishRead, UpsertOnlineDriver
  <2> DEFINE heard == [sock[c] EXCEPT !.read = "no", !.cached = TRUE, !.reported = @ \/ known = "on"]
  <2>2. sock' = [sock EXCEPT ![c] = IF sock[c].open THEN heard ELSE NoSocket]
    BY <1>3 DEF FinishRead
  <2>3. CASE sock[c].open
    <3>1. /\ sock' \in [Conns -> Sockets] /\ \A d \in Conns \ {c} : sock'[d] = sock[d]
          /\ sock'[c].open /\ sock'[c].cached /\ sock'[c].read = "no"
          /\ sock'[c].reported => sock[c].reported \/ known = "on"
      <4>1. /\ heard \in Sockets /\ heard.open /\ heard.cached /\ heard.read = "no"
            /\ heard.reported => sock[c].reported \/ known = "on"
        BY <2>3
      <4> HIDE DEF heard
      <4> QED
        BY <2>2, <2>3, <4>1
    <3>2. Typed'
      BY <2>1, <3>1
    <3>3. Known'
      BY <1>0, <2>1, <3>1
    <3>4. ListedIsFlagged' /\ Reporting'
      BY <1>0, <2>1, <3>1
    <3> QED
      BY <3>2, <3>3, <3>4
  <2>4. CASE ~sock[c].open
    BY <1>0, <2>1, <2>2, <2>4 DEF NoSocket
  <2> QED
    BY <2>3, <2>4
<1>4. CASE ReadFails(c)
  BY <1>0, <1>4 DEF ReadFails, NoSocket
<1>5. CASE Disconnect(c)
  <2>1. /\ sock[c].open /\ app.conn # c
        /\ sock' = [sock EXCEPT ![c] = [NoSocket EXCEPT !.read = sock[c].read]]
        /\ UNCHANGED <<row, flag, call, app>>
    BY <1>5 DEF Disconnect
  <2>2. entry' = entry \/ entry' = "absent"
    BY <1>5 DEF Disconnect, RemoveOnlineDriver
  <2>3. app.conn # None /\ sock[app.conn].reported => entry' = entry
    BY <1>5, <2>1 DEF Disconnect
  <2> QED
    BY <1>0, <2>1, <2>2, <2>3 DEF NoSocket
<1> QED
  BY <1>1, <1>2, <1>3, <1>4, <1>5 DEF SocketStep

LEMMA CallKeeps ==
  ASSUME Inv, NEW k \in Calls, CallStep(k)
  PROVE  Inv'
<1>1. CASE ToggleOnline(k) \/ Beacon(k)
  <2>1. PICK toggle \in BOOLEAN, to \in BOOLEAN : Send(k, toggle, to)
    BY <1>1 DEF ToggleOnline, Beacon, ShownOnline
  <2> QED
    BY <2>1 DEF Send, Inv, Typed, Known, ListedIsFlagged, Reporting, HeartbeatsArrive, ShownOnline
<1>2. CASE WriteAvailability(k) \/ LoseCall(k) \/ GiveUp(k)
  <2>1. row' \in BOOLEAN /\ UNCHANGED <<flag, entry, sock, app>>
    BY <1>2 DEF WriteAvailability, LoseCall, GiveUp, Inv, Typed
  <2>2. call' \in [Calls -> [at : {"none", "sent", "written", "applied"}, toggle : BOOLEAN,
                             to : BOOLEAN, awaited : BOOLEAN]]
    <3>1. CASE WriteAvailability(k)
      BY <3>1 DEF WriteAvailability, Inv, Typed
    <3>2. CASE LoseCall(k)
      BY <3>2 DEF LoseCall, NoCall, Inv, Typed
    <3>3. CASE GiveUp(k)
      BY <3>3 DEF GiveUp, Inv, Typed
    <3> QED
      BY <1>2, <3>1, <3>2, <3>3
  <2> QED
    BY <2>1, <2>2
    DEF Inv, Typed, Known, ListedIsFlagged, Reporting, HeartbeatsArrive, ShownOnline
<1>3. CASE ApplyAvailability(k)
  <2>1. IF call[k].to THEN flag' = "on" /\ entry' = "fresh" ELSE flag' = "off" /\ entry' = "absent"
    BY <1>3 DEF ApplyAvailability, Flag, UpsertOnlineDriver, RemoveOnlineDriver
  <2> QED
    BY <1>3, <2>1
    DEF ApplyAvailability, Inv, Typed, Known, ListedIsFlagged, Reporting, HeartbeatsArrive, ShownOnline
<1>4. CASE Reply(k)
  <2>1. /\ UNCHANGED <<row, flag>>
        /\ app' \in [switch : {"fresh", "on", "off"}, conn : Conns \cup {None}]
        /\ app'.conn = app.conn
    BY <1>4 DEF Reply, Inv, Typed, Flag
  <2>2. call' \in [Calls -> [at : {"none", "sent", "written", "applied"}, toggle : BOOLEAN,
                             to : BOOLEAN, awaited : BOOLEAN]]
    BY <1>4 DEF Reply, Inv, Typed, NoCall
  <2>3. CASE app.conn # None /\ Report(app.conn)
    <3>1. app.conn \in Conns
      BY <2>3 DEF Inv, Typed
    <3> QED
      BY <2>1, <2>2, <2>3, <3>1, ReportKeeps
  <2>4. CASE UNCHANGED <<app, entry, sock>>
    BY <2>1, <2>2, <2>4 DEF Inv, Typed, Known, ListedIsFlagged, Reporting, HeartbeatsArrive, ShownOnline
  <2>5. CASE /\ UNCHANGED <<entry, sock>>
             /\ app' = [app EXCEPT !.switch = Flag(call[k].to)]
             /\ ~(call[k].to /\ app.conn # None /\ sock[app.conn].read = "no")
    <3>1. ~call[k].to \/ app.conn = None \/ ~sock[app.conn].cached
      BY <2>5 DEF Inv, Typed, Known
    <3>2. ~HeartbeatsArrive'
      BY <2>1, <2>5, <3>1 DEF HeartbeatsArrive, ShownOnline, Flag, Inv, Typed
    <3> QED
      BY <2>1, <2>2, <2>5, <3>2 DEF Inv, Typed, Known, ListedIsFlagged, Reporting
  <2> QED
    BY <1>4, <2>3, <2>4, <2>5 DEF Reply
<1> QED
  BY <1>1, <1>2, <1>3, <1>4 DEF CallStep

LEMMA Inductive == Inv /\ [Next]_vars => Inv'
<1> SUFFICES ASSUME Inv, [Next]_vars PROVE Inv'
  OBVIOUS
<1>1. CASE UNCHANGED vars
  BY <1>1 DEF vars, Inv, Typed, Known, ListedIsFlagged, Reporting, HeartbeatsArrive, ShownOnline
<1>2. CASE \E c \in Conns : SocketStep(c)
  BY <1>2, SocketKeeps
<1>3. CASE \E k \in Calls : CallStep(k)
  BY <1>3, CallKeeps
<1>4. CASE Heartbeat
  <2>1. app.conn \in Conns
    BY <1>4 DEF Heartbeat, Inv, Typed
  <2>2. /\ Report(app.conn) /\ flag' = flag /\ row' = row
        /\ call' \in [Calls -> [at : {"none", "sent", "written", "applied"}, toggle : BOOLEAN,
                                to : BOOLEAN, awaited : BOOLEAN]]
        /\ app' \in [switch : {"fresh", "on", "off"}, conn : Conns \cup {None}]
        /\ app'.conn = app.conn
    BY <1>4 DEF Heartbeat, Inv, Typed
  <2> QED
    BY <2>1, <2>2, ReportKeeps
<1>5. CASE LoseConnection \/ KillApp
  <2>1. app'.conn = None /\ app' \in [switch : {"fresh", "on", "off"}, conn : Conns \cup {None}]
    BY <1>5 DEF LoseConnection, KillApp, FreshApp, Inv, Typed
  <2>2. call' \in [Calls -> [at : {"none", "sent", "written", "applied"}, toggle : BOOLEAN,
                             to : BOOLEAN, awaited : BOOLEAN]]
    <3> DEFINE Request == [at : {"none", "sent", "written", "applied"}, toggle : BOOLEAN,
                           to : BOOLEAN, awaited : BOOLEAN]
    <3>1. \A k \in Calls : [call[k] EXCEPT !.awaited = FALSE] \in Request
      BY DEF Inv, Typed
    <3>2. call' = call \/ call' = [k \in Calls |-> [call[k] EXCEPT !.awaited = FALSE]]
      BY <1>5 DEF LoseConnection, KillApp
    <3>3. call \in [Calls -> Request]
      BY DEF Inv, Typed
    <3> HIDE DEF Request
    <3>4. call' \in [Calls -> Request]
      BY <3>1, <3>2, <3>3
    <3> QED
      BY <3>4 DEF Request
  <2>3. UNCHANGED <<row, flag, entry, sock>>
    BY <1>5 DEF LoseConnection, KillApp
  <2> QED
    BY <2>1, <2>2, <2>3, NoneAssumption
    DEF Inv, Typed, Known, ListedIsFlagged, Reporting, HeartbeatsArrive
<1>6. CASE Age \/ SweepStalePresence
  BY <1>6
  DEF Age, SweepStalePresence, RemoveOnlineDriver, Inv, Typed, Known, ListedIsFlagged, Reporting,
      HeartbeatsArrive, ShownOnline
<1>7. CASE RestartServer
  BY <1>7, NoneAssumption
  DEF RestartServer, NoSocket, NoCall, Sockets, Inv, Typed, Known, ListedIsFlagged, Reporting,
      HeartbeatsArrive, ShownOnline
<1>8. CASE Watch \/ ReceiveEvent \/ StopWatching
  BY <1>8
  DEF Watch, ReceiveEvent, StopWatching, Inv, Typed, Known, ListedIsFlagged, Reporting,
      HeartbeatsArrive, ShownOnline
<1> QED
  BY <1>1, <1>2, <1>3, <1>4, <1>5, <1>6, <1>7, <1>8 DEF Next

-----------------------------------------------------------------------------
(* The passenger's list.                                                     *)

Views == [watching : BOOLEAN, list : BOOLEAN, queue : Seq(Events)]

ViewOK == view \in Views

LEMMA UnwatchedTyped == view \in Views => Unwatched \in Views
<1>1. <<>> \in Seq(Events)
  OBVIOUS
<1> HIDE DEF Events
<1> DEFINE Queues == Seq(Events)
<1> HIDE DEF Queues
<1>2. \A q \in Queues : view \in [watching : BOOLEAN, list : BOOLEAN, queue : Queues]
        => [view EXCEPT !.watching = FALSE, !.queue = q]
             \in [watching : BOOLEAN, list : BOOLEAN, queue : Queues]
  OBVIOUS
<1> QED
  BY <1>1, <1>2 DEF Views, Unwatched, Queues

LEMMA TellTyped ==
  ASSUME view \in Views, NEW event \in Events, Tell(event)
  PROVE  view' \in Views
<1>1. Unwatched \in Views
  BY UnwatchedTyped
<1>2. Append(view.queue, event) \in Seq(Events)
  BY DEF Views
<1>3. [view EXCEPT !.queue = Append(view.queue, event)] \in Views
  BY <1>2 DEF Views
<1> QED
  BY <1>1, <1>3 DEF Tell

LEMMA RegistryTyped ==
  ASSUME view \in Views, UpsertOnlineDriver \/ RemoveOnlineDriver \/ UNCHANGED view
  PROVE  view' \in Views
BY TellTyped DEF UpsertOnlineDriver, RemoveOnlineDriver, Events

LEMMA ShownTyped == \A event : Shown(event) \in BOOLEAN
BY DEF Shown

LEMMA ViewTyped == ViewOK /\ [Next]_vars => ViewOK'
<1> SUFFICES ASSUME view \in Views, [Next]_vars PROVE view' \in Views
  BY DEF ViewOK
<1>1. CASE UNCHANGED vars
  BY <1>1 DEF vars
<1>2. CASE \E c \in Conns : SocketStep(c)
  <2>1. PICK c \in Conns : SocketStep(c)
    BY <1>2
  <2> QED
    BY <2>1, RegistryTyped
    DEF SocketStep, Connect, ReadProfile, FinishRead, ReadFails, Disconnect
<1>3. CASE \E k \in Calls : CallStep(k)
  <2>1. PICK k \in Calls : CallStep(k)
    BY <1>3
  <2> QED
    BY <2>1, RegistryTyped
    DEF CallStep, ToggleOnline, Beacon, Send, WriteAvailability, ApplyAvailability, Reply, Report,
        LoseCall, GiveUp
<1>4. CASE Heartbeat \/ Age \/ SweepStalePresence \/ LoseConnection \/ KillApp
  BY <1>4, RegistryTyped DEF Heartbeat, Report, Age, SweepStalePresence, LoseConnection, KillApp
<1>5. CASE RestartServer \/ StopWatching
  BY <1>5, UnwatchedTyped DEF RestartServer, StopWatching
<1>6. CASE Watch
  <2> DEFINE snapshot == IF entry = "absent" THEN "nobody" ELSE "everybody"
  <2>1. Append(view.queue, snapshot) \in Seq(Events)
    BY DEF Views, Events
  <2>2. view' = [view EXCEPT !.watching = TRUE, !.queue = Append(view.queue, snapshot)]
    BY <1>6 DEF Watch
  <2> QED
    BY <2>1, <2>2 DEF Views
<1>7. CASE ReceiveEvent
  <2>1. view.queue \in Seq(Events) /\ view.queue # <<>>
    BY <1>7 DEF ReceiveEvent, Views
  <2>2. Tail(view.queue) \in Seq(Events) /\ Head(view.queue) \in Events
    BY <2>1
  <2>3. Shown(Head(view.queue)) \in BOOLEAN
    BY ShownTyped
  <2>4. view' = [view EXCEPT !.queue = Tail(view.queue),
                            !.list = Shown(Head(view.queue))]
    BY <1>7 DEF ReceiveEvent
  <2> QED
    BY <2>2, <2>3, <2>4 DEF Views
<1> QED
  BY <1>1, <1>2, <1>3, <1>4, <1>5, <1>6, <1>7 DEF Next

-----------------------------------------------------------------------------
(* What a passenger is told is what the registry becomes.                    *)

LEMMA AppendLast ==
  ASSUME NEW q \in Seq(Events), NEW event \in Events
  PROVE  Append(q, event) # <<>> /\ Last(Append(q, event)) = event
BY DEF Last

LEMMA TellAgrees ==
  ASSUME view \in Views, NEW event \in Events, Tell(event),
         Shown(event) = (entry' # "absent")
  PROVE  ViewAgrees'
<1>1. CASE ~view.watching \/ Len(view.queue) = MaxQueue
  BY <1>1 DEF Tell, Unwatched, ViewAgrees, Views
<1>2. CASE view.watching /\ Len(view.queue) # MaxQueue
  <2>1. view'.queue = Append(view.queue, event)
    BY <1>2 DEF Tell, Views
  <2>2. view'.queue # <<>> /\ Last(view'.queue) = event
    BY <2>1, AppendLast DEF Views
  <2> QED
    BY <2>2 DEF ViewAgrees
<1> QED
  BY <1>1, <1>2

\* Whatever changes the registry tells of it, or changes nothing shown.
LEMMA RegistryAgrees ==
  ASSUME view \in Views, ViewAgrees,
         UpsertOnlineDriver \/ RemoveOnlineDriver \/ UNCHANGED <<entry, view>>
  PROVE  ViewAgrees'
<1>1. Shown("online") = TRUE /\ Shown("moved") = TRUE /\ Shown("offline") = FALSE
  BY DEF Shown
<1>2. CASE UpsertOnlineDriver
  <2>1. (Tell("online") \/ Tell("moved")) /\ entry' # "absent" => ViewAgrees'
    <3>1. "online" \in Events /\ "moved" \in Events
      BY DEF Events
    <3> QED
      BY <1>1, <3>1, TellAgrees
  <2>2. UNCHANGED view /\ entry # "absent" /\ entry' # "absent" => ViewAgrees'
    BY DEF ViewAgrees
  <2> QED
    BY <1>2, <2>1, <2>2 DEF UpsertOnlineDriver
<1>3. CASE RemoveOnlineDriver
  <2>1. Tell("offline") /\ entry' = "absent" => ViewAgrees'
    <3>1. "offline" \in Events
      BY DEF Events
    <3> QED
      BY <1>1, <3>1, TellAgrees
  <2>2. UNCHANGED view /\ entry = "absent" /\ entry' = "absent" => ViewAgrees'
    BY DEF ViewAgrees
  <2> QED
    BY <1>3, <2>1, <2>2 DEF RemoveOnlineDriver
<1>4. CASE UNCHANGED <<entry, view>>
  BY <1>4 DEF ViewAgrees
<1> QED
  BY <1>2, <1>3, <1>4

\* Taking the head of a queue leaves its last element, or nothing.
LEMMA TailLast ==
  ASSUME NEW S, NEW q \in Seq(S), q # <<>>
  PROVE  IF Tail(q) = <<>> THEN Head(q) = Last(q) ELSE Last(Tail(q)) = Last(q)
<1>1. /\ Tail(q) \in Seq(S) /\ Len(Tail(q)) = Len(q) - 1
      /\ \A i \in 1 .. Len(Tail(q)) : Tail(q)[i] = q[i + 1]
  BY HeadTailProperties
<1>2. Len(q) \in Nat
  BY LenProperties
<1>3. CASE Tail(q) = <<>>
  <2>1. Len(Tail(q)) = 0
    BY <1>3, EmptySeq
  <2>2. Len(q) = 1
    <3>1. \A m \in Nat : 0 = m - 1 => m = 1
      OBVIOUS
    <3>2. 0 = Len(q) - 1
      BY <1>1, <2>1
    <3> QED
      BY <1>2, <3>1, <3>2
  <2> QED
    BY <1>3, <2>2 DEF Last
<1>4. CASE Tail(q) # <<>>
  <2>1. Len(Tail(q)) \in Nat \ {0}
    BY <1>1, <1>4, EmptySeq
  <2>2. Len(Tail(q)) \in 1 .. Len(Tail(q)) /\ Len(Tail(q)) + 1 = Len(q)
    BY <1>1, <1>2, <2>1
  <2>3. Tail(q)[Len(Tail(q))] = q[Len(q)]
    BY <1>1, <2>2
  <2> QED
    BY <1>4, <2>3 DEF Last
<1> QED
  BY <1>3, <1>4

LEMMA ReceiveAgrees ==
  ASSUME view \in Views, ViewAgrees, ReceiveEvent
  PROVE  ViewAgrees'
<1> DEFINE q == view.queue
<1>1. q \in Seq(Events) /\ q # <<>> /\ UNCHANGED entry
  BY DEF ReceiveEvent, Views
<1>2. view'.queue = Tail(q) /\ view'.list = Shown(Head(q)) /\ view'.watching = view.watching
  BY DEF ReceiveEvent, Views
<1>3. IF Tail(q) = <<>> THEN Head(q) = Last(q) ELSE Last(Tail(q)) = Last(q)
  BY <1>1, TailLast
<1> QED
  BY <1>1, <1>2, <1>3 DEF ViewAgrees

LEMMA WatchAgrees ==
  ASSUME view \in Views, Watch
  PROVE  ViewAgrees'
<1> DEFINE snapshot == IF entry = "absent" THEN "nobody" ELSE "everybody"
<1>1. snapshot \in Events /\ Shown(snapshot) = (entry # "absent")
  BY DEF Events, Shown
<1>2. view'.queue = Append(view.queue, snapshot) /\ UNCHANGED entry
  BY DEF Watch, Views
<1>3. view'.queue # <<>> /\ Last(view'.queue) = snapshot
  BY <1>1, <1>2, AppendLast DEF Views
<1> HIDE DEF snapshot
<1> QED
  BY <1>1, <1>2, <1>3 DEF ViewAgrees

LEMMA AgreesStep == ViewOK /\ ViewAgrees /\ [Next]_vars => ViewAgrees'
<1> SUFFICES ASSUME view \in Views, ViewAgrees, [Next]_vars PROVE ViewAgrees'
  BY DEF ViewOK
<1>1. CASE UNCHANGED vars
  BY <1>1, RegistryAgrees DEF vars
<1>2. CASE \E c \in Conns : SocketStep(c)
  BY <1>2, RegistryAgrees DEF SocketStep, Connect, ReadProfile, FinishRead, ReadFails, Disconnect
<1>3. CASE \E k \in Calls : CallStep(k)
  BY <1>3, RegistryAgrees
  DEF CallStep, ToggleOnline, Beacon, Send, WriteAvailability, ApplyAvailability, Reply, Report,
      LoseCall, GiveUp
<1>4. CASE Heartbeat \/ SweepStalePresence \/ LoseConnection \/ KillApp
  BY <1>4, RegistryAgrees DEF Heartbeat, Report, SweepStalePresence, LoseConnection, KillApp
<1>5. CASE Age
  BY <1>5 DEF Age, ViewAgrees
<1>6. CASE RestartServer \/ StopWatching
  <2>1. view' = Unwatched
    BY <1>6 DEF RestartServer, StopWatching
  <2>2. ~view'.watching
    BY <2>1 DEF Unwatched, Views
  <2> QED
    BY <2>2 DEF ViewAgrees
<1> QED
  BY <1>1, <1>2, <1>3, <1>4, <1>5, <1>6, ReceiveAgrees, WatchAgrees DEF Next

\* A passenger who has taken in every event has the registry: the snapshot and
\* each event on the way say what the registry was when they were sent, and the
\* last one what it is (presence.ts, useNearbyDriversRealtime).
THEOREM ViewsAgree == Spec => []ViewAgrees
<1>1. Init => ViewOK /\ ViewAgrees
  BY DEF Init, NoView, Views, ViewOK, ViewAgrees
<1> QED
  BY <1>1, ViewTyped, AgreesStep, PTL DEF Spec

\* The state has the shape the code gives it.
THEOREM PresenceTyped == Spec => []TypeOK
<1>1. Init => ViewOK
  BY DEF Init, NoView, Views, ViewOK
<1>2. Inv => Typed
  BY DEF Inv
<1>3. Typed /\ ViewOK => TypeOK
  BY DEF Typed, ViewOK, Views, TypeOK, Sockets
<1> QED
  BY <1>1, <1>2, <1>3, TypedInit, Inductive, ViewTyped, PTL DEF Spec

\* A driver on the map is one whose flag says online: the flag and the registry
\* change in one step, and a late query yields to a flag set meanwhile
\* (presence.ts, socket.ts resolveDriverForReport).
THEOREM ListedAreFlagged == Spec => []ListedIsFlagged
<1>1. Inv => ListedIsFlagged
  BY DEF Inv
<1> QED
  BY <1>1, TypedInit, Inductive, PTL DEF Spec

\* A driver whose reports arrive is on the map, whatever older connection ends
\* (socket.ts disconnect, presence.ts sweepStalePresence).
THEOREM ReportersAreListed == Spec => []ReporterIsListed
<1>1. Inv => ReporterIsListed
  BY DEF Inv, Reporting, ReporterIsListed
<1> QED
  BY <1>1, TypedInit, Inductive, PTL DEF Spec
=============================================================================
