\* Two accounts on one phone, a GET and a POST at a time.
SPECIFICATION FairSpec
CONSTANTS
  u1 = u1  u2 = u2  g1 = g1  q1 = q1
  None = None
  Accounts = {u1, u2}
  New = {u2}
  Followed = {u1}
  Get = g1
  Posts = {q1}
INVARIANTS TokensMatchUser PostsOnce
PROPERTIES ExpiredIsRenewed DeadSessionEnds
