SPECIFICATION Spec
CONSTANTS
  u1 = u1  u2 = u2  s1 = s1  s2 = s2  c1 = c1  c2 = c2
  b1 = b1  b2 = b2  p1 = p1  p2 = p2  g1 = g1
  Users = {u1}
  Seats = {s1}
  Schedules = {c1, c2}
  BookRequests = {b1}
  PayRequests = {p1}
  ChargeRequests = {}
  ChargeAmounts = {}
  Price <- MCPrice
  ScheduleOf <- MCLaterScheduleOf
  Opens <- MCOpens
  Closes <- MCCloses
  InitialPoint <- MCInitialPoint
  HoldTime = 1
  MaxPoint = 4
  MaxTime = 2
  Null = Null
INVARIANTS NotBookedBeforeOpening
\* Every request of the instance may have ended and the clock be at its bound.
CHECK_DEADLOCK FALSE
