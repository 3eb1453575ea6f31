\* A driver with one optional paper, two rows, two reviewers, one upload by
\* hand besides that of a recovered photo.
SPECIFICATION FairSpec
CONSTANTS
  p1 = p1
  f1 = f1
  f2 = f2
  r1 = r1
  r2 = r2
  u1 = u1
  u2 = u2
  None = None
  Papers = {p1}
  Files = {f1, f2}
  Reviewers = {r1, r2}
  Uploads = {u1, u2}
  Recovery = u2
  Later = {p1}
  EarlyReviews = FALSE
INVARIANTS ReviewConcludes VerifiedIsReviewed SelfieOnFile
PROPERTY PhotoComesBack
CHECK_DEADLOCK FALSE
