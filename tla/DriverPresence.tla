--------------------------- MODULE DriverPresence ---------------------------
(***************************************************************************)
(* One driver on the live map.  The driver's phone switches availability   *)
(* over REST (toggleOnline of DispatchScreen, and its background beacon)   *)
(* and reports its position over one shared socket (useNearbyClients); the *)
(* server keeps the isOnline row, a flag that caches it, and the registry  *)
(* of live drivers (realtime/presence, realtime/socket, drivers.routes); a *)
(* passenger's phone keeps a list fed by a snapshot and by events          *)
(* (useNearbyDriversRealtime).                                             *)
(*                                                                         *)
(* The server is one process: a handler runs without interruption up to    *)
(* its next await.  Positions are left out; the driver's phone has a fix.  *)
(* An emit of the phone is handled when it is made: a report delayed on    *)
(* the way is answered by the flag of the moment it arrives in any case.   *)
(* The disconnect handler is one step, as the server's own adapter answers *)
(* fetchSockets at once.                                                   *)
(***************************************************************************)
EXTENDS Naturals, Sequences, SequencesExt

CONSTANTS
  Conns,     \* socket connections of the driver's phone, dead ones included
  Calls,     \* BOUND: PATCH /drivers/me/availability requests at a time
  MaxQueue,  \* BOUND: events on their way to the passenger's phone
  Watched,   \* does a passenger watch the map in this instance?
  None       \* no connection

ASSUME NoneAssumption == None \notin Conns
ASSUME QueueAssumption == MaxQueue \in Nat \ {0}
ASSUME WatchedAssumption == Watched \in BOOLEAN

VARIABLES
  row,    \* DriverProfile.isOnline
  flag,   \* driverOnlineFlags: "unknown" until set, then "on" or "off"
  entry,  \* onlineDrivers: "absent", "fresh", or "stale" once PRESENCE_TTL_MS passed
  sock,   \* per connection: open on the server, socket.data, its findUnique in flight
  call,   \* the availability requests in flight
  app,    \* the driver's phone: what its switch shows, its connection
  view    \* the passenger's phone: watching, events queued for it, its list

vars == <<row, flag, entry, sock, call, app, view>>

NoSocket == [open |-> FALSE, reported |-> FALSE, cached |-> FALSE, read |-> "no"]
NoCall == [at |-> "none", toggle |-> FALSE, to |-> FALSE, awaited |-> FALSE]
\* "fresh" is a driverStore that no tap has changed since the app started: it
\* shows offline, whatever the server has.
FreshApp == [switch |-> "fresh", conn |-> None]
NoView == [watching |-> FALSE, list |-> FALSE, queue |-> <<>>]

Flag(b) == IF b THEN "on" ELSE "off"
ShownOnline == app.switch = "on"

Init ==
  /\ row = FALSE /\ flag = "unknown" /\ entry = "absent"
  /\ sock = [c \in Conns |-> NoSocket]
  /\ call = [k \in Calls |-> NoCall]
  /\ app = FreshApp /\ view = NoView

-----------------------------------------------------------------------------
(* The registry and what watching passengers are told of it.                 *)

\* The passenger's connection goes; the list stays as it is.
Unwatched == [view EXCEPT !.watching = FALSE, !.queue = <<>>]

\* BOUND: a connection on which MaxQueue events wait breaks at the next one, as
\* it may at any time, so that the bound never holds a handler back.
Tell(event) ==
  view' = IF ~view.watching THEN view
          ELSE IF Len(view.queue) = MaxQueue THEN Unwatched
          ELSE [view EXCEPT !.queue = Append(@, event)]

\* Mutant: passengers are not told.
RemoveQuietly == entry' = "absent" /\ UNCHANGED view

\* driver:online when new, driver:moved when it moved 15 m, else nothing.
UpsertOnlineDriver ==
  /\ entry' = "fresh"
  /\ \/ entry = "absent" /\ Tell("online")
     \/ entry # "absent" /\ (Tell("moved") \/ UNCHANGED view)

RemoveOnlineDriver ==
  /\ entry' = "absent"
  /\ IF entry = "absent" THEN UNCHANGED view ELSE Tell("offline")

-----------------------------------------------------------------------------
(* Sockets.                                                                  *)

\* driver:report: one findUnique unless the flag and the details are known.
Report(c) ==
  IF sock[c].cached /\ flag # "unknown"
    THEN IF flag = "on"
           THEN UpsertOnlineDriver /\ sock' = [sock EXCEPT ![c].reported = TRUE]
           ELSE UNCHANGED <<entry, view, sock>>
    ELSE /\ sock[c].read = "no"  \* BOUND: one query at a time per socket
         /\ sock' = [sock EXCEPT ![c].read = "asked"]
         /\ UNCHANGED <<entry, view>>

\* The app announces itself on every connect while its switch is on.
Connect(c) ==
  /\ app.conn = None /\ sock[c] = NoSocket
  /\ app' = [app EXCEPT !.conn = c]
  /\ sock' = [sock EXCEPT ![c] = [NoSocket EXCEPT !.open = TRUE,
                                                 !.read = IF ShownOnline THEN "asked" ELSE "no"]]
  /\ UNCHANGED <<row, flag, entry, call, view>>

\* Every 20 s, and when the driver moves.
Heartbeat ==
  /\ ShownOnline /\ app.conn # None
  /\ Report(app.conn)
  /\ UNCHANGED <<row, flag, call, app>>

ReadProfile(c) ==
  /\ sock[c].read = "asked"
  /\ sock' = [sock EXCEPT ![c].read = Flag(row)]
  /\ UNCHANGED <<row, flag, entry, call, app, view>>

\* Mutant: the row as it was read is believed, whatever was set since.
FinishReadStale(c) ==
  LET read == sock[c].read IN
  /\ read \in {"on", "off"}
  /\ flag' = IF flag = "unknown" THEN read ELSE flag
  /\ IF read = "on" THEN UpsertOnlineDriver ELSE UNCHANGED <<entry, view>>
  /\ sock' = [sock EXCEPT ![c] = IF sock[c].open
                THEN [@ EXCEPT !.read = "no", !.cached = TRUE, !.reported = @ \/ read = "on"]
                ELSE NoSocket]
  /\ UNCHANGED <<row, call, app>>

\* A flag set meanwhile wins over the row as it was read.
FinishRead(c) ==
  LET read == sock[c].read
      known == IF flag = "unknown" THEN read ELSE flag
      heard == [sock[c] EXCEPT !.read = "no", !.cached = TRUE, !.reported = @ \/ known = "on"]
  IN
  /\ read \in {"on", "off"}
  /\ flag' = known
  /\ IF known = "on" THEN UpsertOnlineDriver ELSE UNCHANGED <<entry, view>>
  /\ sock' = [sock EXCEPT ![c] = IF sock[c].open THEN heard ELSE NoSocket]
  /\ UNCHANGED <<row, call, app>>

ReadFails(c) ==
  /\ sock[c].read # "no"
  /\ sock' = [sock EXCEPT ![c] = IF sock[c].open THEN [@ EXCEPT !.read = "no"] ELSE NoSocket]
  /\ UNCHANGED <<row, flag, entry, call, app, view>>

\* The network goes; the server notices only later.
LoseConnection ==
  /\ app.conn # None
  /\ app' = [app EXCEPT !.conn = None]
  /\ UNCHANGED <<row, flag, entry, sock, call, view>>

\* Mutant: the last report of another socket does not count.
DisconnectAlone(c) ==
  /\ sock[c].open /\ app.conn # c
  /\ sock' = [sock EXCEPT ![c] = [NoSocket EXCEPT !.read = sock[c].read]]
  /\ IF sock[c].reported THEN RemoveOnlineDriver ELSE UNCHANGED <<entry, view>>
  /\ UNCHANGED <<row, flag, call, app>>

Disconnect(c) ==
  LET others == {d \in Conns \ {c} : sock[d].open} IN
  /\ sock[c].open /\ app.conn # c
  /\ sock' = [sock EXCEPT ![c] = [NoSocket EXCEPT !.read = sock[c].read]]
  /\ IF (sock[c].reported \/ others = {}) /\ ~(\E d \in others : sock[d].reported)
       THEN RemoveOnlineDriver
       ELSE UNCHANGED <<entry, view>>
  /\ UNCHANGED <<row, flag, call, app>>

\* 90 s without a report: never while four heartbeats in a row get through.
HeartbeatsArrive ==
  ShownOnline /\ app.conn # None /\ flag = "on" /\ sock[app.conn].cached

\* Mutant: entries are not swept.
SweepNothing ==
  /\ entry = "stale"
  /\ UNCHANGED vars

Age ==
  /\ entry = "fresh" /\ ~HeartbeatsArrive
  /\ entry' = "stale"
  /\ UNCHANGED <<row, flag, sock, call, app, view>>

SweepStalePresence ==
  /\ entry = "stale"
  /\ RemoveOnlineDriver
  /\ UNCHANGED <<row, flag, sock, call, app>>

-----------------------------------------------------------------------------
(* PATCH /drivers/me/availability.                                           *)

Send(k, toggle, to) ==
  /\ call[k] = NoCall
  /\ call' = [call EXCEPT ![k] = [at |-> "sent", toggle |-> toggle, to |-> to, awaited |-> toggle]]
  /\ UNCHANGED <<row, flag, entry, sock, app, view>>

\* The switch is not disabled while a request is under way.
ToggleOnline(k) == Send(k, TRUE, ~ShownOnline)

\* Mutant: the guard of the effect is inverted.
BeaconInverted(k) == ~ShownOnline /\ Send(k, FALSE, TRUE)

\* Sent in the background when the driver moves, and every so often.
Beacon(k) == ShownOnline /\ Send(k, FALSE, TRUE)

WriteAvailability(k) ==
  /\ call[k].at = "sent"
  /\ row' = call[k].to
  /\ call' = [call EXCEPT ![k].at = "written"]
  /\ UNCHANGED <<flag, entry, sock, app, view>>

ApplyAvailability(k) ==
  /\ call[k].at = "written"
  /\ flag' = Flag(call[k].to)
  /\ IF call[k].to THEN UpsertOnlineDriver ELSE RemoveOnlineDriver
  /\ call' = [call EXCEPT ![k].at = "applied"]
  /\ UNCHANGED <<row, sock, app>>

\* The answer to a toggle moves the switch; going on announces the driver.
Reply(k) ==
  /\ call[k].at = "applied"
  /\ call' = [call EXCEPT ![k] = NoCall]
  /\ IF call[k].awaited
       THEN /\ app' = [app EXCEPT !.switch = Flag(call[k].to)]
            /\ IF call[k].to /\ app.conn # None /\ sock[app.conn].read = "no"
                 THEN Report(app.conn)
                 ELSE UNCHANGED <<entry, view, sock>>
       ELSE UNCHANGED <<app, entry, view, sock>>
  /\ UNCHANGED <<row, flag>>

\* The request or its answer is lost, or a query of the handler rejects.
LoseCall(k) ==
  /\ call[k] # NoCall
  /\ call' = [call EXCEPT ![k] = NoCall]
  /\ UNCHANGED <<row, flag, entry, sock, app, view>>

\* The phone stops waiting; the request goes on.
GiveUp(k) ==
  /\ call[k].awaited
  /\ call' = [call EXCEPT ![k].awaited = FALSE]
  /\ UNCHANGED <<row, flag, entry, sock, app, view>>

-----------------------------------------------------------------------------
(* Phone and server stop and start.                                          *)

KillApp ==
  /\ app # FreshApp
  /\ app' = FreshApp
  /\ call' = [k \in Calls |-> [call[k] EXCEPT !.awaited = FALSE]]
  /\ UNCHANGED <<row, flag, entry, sock, view>>

RestartServer ==
  /\ flag' = "unknown" /\ entry' = "absent"
  /\ sock' = [c \in Conns |-> NoSocket]
  /\ call' = [k \in Calls |-> IF call[k].at = "sent" THEN call[k] ELSE NoCall]
  /\ app' = [app EXCEPT !.conn = None]
  /\ view' = Unwatched
  /\ UNCHANGED row

-----------------------------------------------------------------------------
(* The passenger's phone.                                                    *)

\* driver:watch, on connect and again when the passenger moves.
Watch ==
  /\ Watched /\ Len(view.queue) < MaxQueue
  /\ view' = [view EXCEPT !.watching = TRUE,
                          !.queue = Append(@, IF entry = "absent" THEN "nobody" ELSE "everybody")]
  /\ UNCHANGED <<row, flag, entry, sock, call, app>>

\* Is the driver in the list an event leaves, whatever it was before?
Shown(event) == event \in {"online", "moved", "everybody"}

\* Mutant: no snapshot answers the watch.
WatchBlind ==
  /\ Watched
  /\ view' = [view EXCEPT !.watching = TRUE]
  /\ UNCHANGED <<row, flag, entry, sock, call, app>>

ReceiveEvent ==
  /\ view.queue # <<>>
  /\ view' = [view EXCEPT !.queue = Tail(@), !.list = Shown(Head(view.queue))]
  /\ UNCHANGED <<row, flag, entry, sock, call, app>>

StopWatching ==
  /\ view.watching
  /\ view' = Unwatched
  /\ UNCHANGED <<row, flag, entry, sock, call, app>>

-----------------------------------------------------------------------------
SocketStep(c) == Connect(c) \/ ReadProfile(c) \/ FinishRead(c) \/ ReadFails(c) \/ Disconnect(c)

CallStep(k) ==
  \/ ToggleOnline(k) \/ Beacon(k)
  \/ WriteAvailability(k) \/ ApplyAvailability(k) \/ Reply(k)
  \/ LoseCall(k) \/ GiveUp(k)

Next ==
  \/ \E c \in Conns : SocketStep(c)
  \/ \E k \in Calls : CallStep(k)
  \/ Heartbeat \/ LoseConnection \/ Age \/ SweepStalePresence
  \/ KillApp \/ RestartServer
  \/ Watch \/ ReceiveEvent \/ StopWatching

Spec == Init /\ [][Next]_vars

\* Timers fire, and the phone keeps getting new fixes (weak fairness); a query
\* or a request that is made again and again succeeds once in a while (strong
\* fairness).  Taps, losses, disconnects and restarts are owed to nobody.
Fairness ==
  /\ WF_vars(Heartbeat) /\ WF_vars(Age) /\ WF_vars(SweepStalePresence)
  /\ SF_vars(\E c \in Conns : app.conn = c /\ ReadProfile(c))
  /\ SF_vars(\E c \in Conns : app.conn = c /\ FinishRead(c))
  /\ WF_vars(\E k \in Calls : Beacon(k)) /\ WF_vars(\E k \in Calls : Reply(k))
  /\ \A k \in Calls : SF_vars(WriteAvailability(k)) /\ SF_vars(ApplyAvailability(k))

FairSpec == Spec /\ Fairness

-----------------------------------------------------------------------------
Events == {"online", "moved", "offline", "everybody", "nobody"}

\* The state has the shape the code gives it.
TypeOK ==
  /\ row \in BOOLEAN
  /\ flag \in {"unknown", "on", "off"}
  /\ entry \in {"absent", "fresh", "stale"}
  /\ sock \in [Conns -> [open : BOOLEAN, reported : BOOLEAN, cached : BOOLEAN,
                         read : {"no", "asked", "on", "off"}]]
  /\ call \in [Calls -> [at : {"none", "sent", "written", "applied"}, toggle : BOOLEAN,
                         to : BOOLEAN, awaited : BOOLEAN]]
  /\ app \in [switch : {"fresh", "on", "off"}, conn : Conns \cup {None}]
  /\ view \in [watching : BOOLEAN, list : BOOLEAN, queue : Seq(Events)]

\* A driver on the map is one whose flag says online: no query that was under
\* way, no dead socket and no late report lists a driver who switched off
\* (resolveDriverForReport: "don't clobber a toggle that landed while we were
\* reading").
ListedIsFlagged == entry # "absent" => flag = "on"

\* While the phone reports on a connection the server has heard, the driver is
\* on the map: the late disconnect of an older connection, the sweep and a
\* restart do not take away what the newer connection has reported.
ReporterIsListed ==
  HeartbeatsArrive /\ sock[app.conn].reported => entry # "absent"

\* A passenger who watches and has taken in every event on the way has the
\* registry: snapshot and events never disagree, whichever handler, timer or
\* request changed the registry (useNearbyDriversRealtime trusts an empty list).
ViewAgrees ==
  view.watching =>
    (IF view.queue = <<>> THEN view.list ELSE Shown(Last(view.queue))) = (entry # "absent")

\* A phone that stays connected with its switch on ends up on the map for good,
\* even when an older call has switched the driver off behind it: the beacon
\* is the backstop DispatchScreen says it is.
SwitchedOn ==
  ShownOnline /\ app.conn # None /\ \A k \in Calls : call[k] # NoCall => call[k].to
OnlineIsListed == <>[]SwitchedOn => <>[](entry # "absent")

\* Once the switch is not on and nothing under way turns it on, the driver
\* leaves the map: crashed phones and dead sockets leave no ghost.
SwitchedOff == ~ShownOnline /\ \A k \in Calls : call[k] # NoCall => ~call[k].to
OfflineIsGone == <>[]SwitchedOff => <>[](entry = "absent")
=============================================================================
