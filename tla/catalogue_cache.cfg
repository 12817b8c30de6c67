SPECIFICATION Spec
CONSTANTS
  c1 = c1  c2 = c2  s1 = s1  s2 = s2  r1 = r1  r2 = r2  r3 = r3
  Concerts = {c1, c2}
  Schedules = {s1, s2}
  ConcertOf <- MCConcertOf
  Opens <- MCOpens
  Closes <- MCCloses
  Scans = {r1, r2, r3}
  MaxTime = 2
  AllConcerts = AllConcerts
  Null = Null
SYMMETRY Symmetry
INVARIANTS TypeOK CompleteUnlessRaced NoListBeforeConcert
\* Every scan of the instance may have been answered and all be created.
CHECK_DEADLOCK FALSE
