\* Two visits of the screen, two reports at a time.
SPECIFICATION FairSpec
CONSTANTS
  v1 = v1  v2 = v2  p1 = p1  p2 = p2  p3 = p3
  None = None
  Visits = {v1, v2}
  Posts = {p1, p2}
  MaxRow = 2
INVARIANTS AlertsAreEarned InOrder
PROPERTIES ReportsGoOn
