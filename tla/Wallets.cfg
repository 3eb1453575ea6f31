SPECIFICATION Spec
CONSTANTS
  u1 = u1
  u2 = u2
  a1 = a1
  a2 = a2
  t1 = t1
  p1 = p1
  p2 = p2
  k1 = k1
  Users = {u1, u2}
  Trips = {t1}
  Payouts = {p1}
  Topups = {k1}
  Actors = {a1, a2}
  Fare = 3
  Commission = 1
  Amounts = {1, 2}
  MaxPosted = 2
  None = None
SYMMETRY Symmetry
INVARIANTS BalanceIsLedger SettledOnce TopupCreditedOnce RefundedIffFailed
CHECK_DEADLOCK FALSE
