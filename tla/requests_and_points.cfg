SPECIFICATION FairSpec
CONSTANTS
  u1 = u1  u2 = u2  s1 = s1  s2 = s2  c1 = c1  c2 = c2
  b1 = b1  b2 = b2  p1 = p1  p2 = p2  g1 = g1
  Users = {u1}
  Seats = {s1, s2}
  Schedules = {c1}
  BookRequests = {b1, b2}
  PayRequests = {p1, p2}
  ChargeRequests = {g1}
  ChargeAmounts = {1, 2}
  Price <- MCPrice
  ScheduleOf <- MCScheduleOf
  Opens <- MCOpens
  Closes <- MCCloses
  InitialPoint <- MCInitialPoint
  HoldTime = 1
  MaxPoint = 4
  MaxTime = 0
  Null = Null
INVARIANTS TypeOK Ledger AnswersAreTrue NoDeadlock
PROPERTIES EveryRequestEnds
\* Every request of the instance may have ended.
CHECK_DEADLOCK FALSE
