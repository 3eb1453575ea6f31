\* Two places, two runs of start() and one lookup at a time.
SPECIFICATION FairSpec
CONSTANTS
  p1 = p1  p2 = p2  s1 = s1  s2 = s2  l1 = l1
  None = None
  Places = {p1, p2}
  Starts = {s1, s2}
  Lookups = {l1}
INVARIANTS FormMatches OneWatcher
PROPERTIES FollowsInFront
