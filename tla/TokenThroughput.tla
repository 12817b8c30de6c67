--------------------------- MODULE TokenThroughput ---------------------------
(***************************************************************************)
(* TokenQueue with a history: the users whom the instances let in in each  *)
(* period of the schedule.                                                 *)
(***************************************************************************)
EXTENDS TokenQueue

VARIABLE grants \* users first given a token in this period

CountInit == Init /\ grants = {}

CountNext ==
  /\ Next
  /\ grants' = IF fired' = {} THEN {} ELSE grants \cup (granted' \ granted)

CountSpec == CountInit /\ [][CountNext]_<<vars, grants>>

(* Each instance lets in one batch in a period, however their commands mix *)
(* with one another and whichever of them crash.                           *)
OneBatchEach == Cardinality(grants) <= Throughput * Cardinality(fired)

(* The documents: in each period the service reads as many as it can serve *)
(* in ten seconds, however many instances there are.                       *)
ThroughputKept == Cardinality(grants) <= Throughput
=============================================================================
