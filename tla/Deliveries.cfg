\* One delivery, one rider with two assignments or two Paystack references, two
\* requests; faults and restarts.
SPECIFICATION MCSpec
CONSTANTS
  d1 = d1  x1 = x1  r1 = r1  r2 = r2  f1 = f1  f2 = f2  a1 = a1  a2 = a2
  None = None
  Deliveries = {d1}
  Actors = {a1, a2}
  Riders = {x1}
  Rows = {r1, r2}
  Refs = {f1, f2}
  Patched = {"DELIVERED"}
  Chosen = {"CASH", "PAYSTACK", "OTHER"}
  Faults = TRUE
INVARIANTS BusyRiderHasJob PaidIsEarned
PROPERTIES CancelClosesRows KeepsDeliveryContract DispatchIsTried
CHECK_DEADLOCK FALSE
