SPECIFICATION Spec
CONSTANTS
  q1 = q1  q2 = q2  q3 = q3  q4 = q4  j1 = j1  j2 = j2
  Users = {1, 2}
  EnqueueRequests = {q1, q3}
  ScanRequests = {}
  PayRequests = {}
  UserOf <- MCUserOf
  Jobs = {j1}
  Throughput = 2
  MaxTime = 1
  Null = Null
INVARIANTS NobodyLost
