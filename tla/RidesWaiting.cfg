SPECIFICATION FairSpec
CONSTANTS
  t1 = t1
  t2 = t2
  d1 = d1
  d2 = d2
  p1 = p1
  p2 = p2
  None = None
  Sweeper = Sweeper
  Trips = {t1}
  Drivers = {d1}
  Reqs = {p1}
  MaxRows = 2
  OnlineAtStart = {d1}
  Ops = {"create", "schedule", "claim", "reject", "release", "cancel", "progress", "availability", "sweep", "time"}
  Forced = {}
PROPERTIES RideNotLeftWaiting KeepsContract
CHECK_DEADLOCK FALSE
