\* One driver over two connections, one availability request at a time,
\* one watching passenger.
SPECIFICATION FairSpec
CONSTANTS
  c1 = c1
  c2 = c2
  k1 = k1
  k2 = k2
  None = None
  Conns = {c1, c2}
  Calls = {k1}
  MaxQueue = 2
  Watched = TRUE
INVARIANTS ListedIsFlagged ReporterIsListed ViewAgrees
PROPERTIES OnlineIsListed OfflineIsGone
