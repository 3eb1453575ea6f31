SPECIFICATION TrackSpec
CONSTANTS
  d1 = d1
  h1 = h1
  h2 = h2
  Nil = Nil
  Drivers <- MCDrivers
  Handlers <- MCHandlers
  Forced <- MCForced
  MaxWrites = 2
  MaxQueue = 2
INVARIANT RideIsShown
PROPERTIES EndIsShown
