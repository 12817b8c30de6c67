-------------------------- MODULE MCConcertBooking --------------------------
(***************************************************************************)
(* Instances of ConcertBooking for TLC.                                    *)
(***************************************************************************)
EXTENDS ConcertBooking, TLC

CONSTANTS u1, u2, s1, s2, c1, c2, b1, b2, p1, p2, g1

\* A user can pay for one seat, and for a second one only after a charge.
MCPrice == [s \in Seats |-> 2]
MCInitialPoint == [u \in Users |-> 3]

\* The seats are of c1; for the request that names the wrong schedule, of c2.
MCScheduleOf == [s \in Seats |-> c1]
MCLaterScheduleOf == [s \in Seats |-> c2]

\* c2 opens when c1 has been open for a while; both have closed at time 2.
MCOpens == [c \in Schedules |-> IF c = c2 THEN 1 ELSE 0]
MCCloses == [c \in Schedules |-> 1]

\* Requests, users and seats of an instance differ in nothing but their names.
Symmetry ==
  UNION {Permutations(S) : S \in {BookRequests, PayRequests, ChargeRequests, Users, Seats}}
=============================================================================
