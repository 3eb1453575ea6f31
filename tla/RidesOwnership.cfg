SPECIFICATION Spec
CONSTANTS
  t1 = t1
  t2 = t2
  d1 = d1
  d2 = d2
  p1 = p1
  p2 = p2
  None = None
  Sweeper = Sweeper
  Trips = {t1}
  Drivers = {d1, d2}
  Reqs = {p1, p2}
  MaxRows = 2
  OnlineAtStart = {d1}
  Ops = {"create", "claim", "reject", "release", "cancel", "progress", "status", "beacon", "assign",
         "fault", "crash"}
  Forced = {"REQUESTED", "COMPLETED"}
SYMMETRY Symmetry
INVARIANTS OneLiveOffer InFlightTracksCalls SoleDriver CompletedIsSettled BusyDriverHasRide
CHECK_DEADLOCK FALSE
