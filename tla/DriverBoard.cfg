\* One ride on the market, one trip from before, one call of each kind under way.
SPECIFICATION BoardFairSpec
CONSTANTS
  t1 = t1
  t2 = t2
  s1 = s1
  r1 = r1
  Nil = Nil
  Trips = {t1, t2}
  Earlier = {t2}
  Syncs = {s1}
  Refreshes = {r1}
  MaxOffers = 1
  MaxQueue = 1
INVARIANT OnlyOwnTrips
PROPERTIES ListHeals TripNotLost
