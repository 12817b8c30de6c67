-------------------------- MODULE MCCatalogueCache --------------------------
(***************************************************************************)
(* Instances of CatalogueCache for TLC.                                    *)
(***************************************************************************)
EXTENDS CatalogueCache, TLC

CONSTANTS c1, c2, s1, s2, r1, r2, r3

\* c1 has two schedules: s1 closes at time 1, s2 opens then.
MCConcertOf == [s \in Schedules |-> c1]
MCOpens == [s \in Schedules |-> IF s = s2 THEN 1 ELSE 0]
MCCloses == [s \in Schedules |-> IF s = s2 THEN 2 ELSE 1]

Symmetry == Permutations(Scans)
=============================================================================
