SPECIFICATION FairSpec
CONSTANTS
  r1 = r1  r2 = r2  r3 = r3  r4 = r4  j1 = j1  j2 = j2  u1 = u1  u2 = u2  u3 = u3
  Requests = {r1, r2, r3}
  UserOf <- MCUserOf
  Jobs = {j1, j2}
  Throughput = 1
  Null = Null
INVARIANTS TypeOK
PROPERTIES ImplementsWaitingLine PendingEnds OrderCountsAll
